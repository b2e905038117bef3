------------------------------ MODULE RootStack -----------------------------
(***************************************************************************)
(* What darwinup promises: roots are layers over the base system.  A path  *)
(* shows the newest layer that has it, or the base system where none does; *)
(* any layer can be taken away again.  Adding or dropping a layer settles  *)
(* path by path, each path in one step, and the next change waits until    *)
(* every path has settled.                                                 *)
(***************************************************************************)
EXTENDS Integers, FiniteSetsExt

CONSTANTS Paths, Layers, Roots, Absent, None

VARIABLES
    base,   \* the tree before anything was installed
    stack,  \* the tree of each layer, None when the layer is not there
    view    \* the tree a user of the system sees

vars == <<base, stack, view>>

Present        == {l \in Layers : stack[l] # None}
Holders(p)     == {l \in Present : stack[l][p] # Absent}
Top(p)         == IF Holders(p) = {} THEN base[p] ELSE stack[Max(Holders(p))][p]
Settled        == \A p \in Paths : view[p] = Top(p)

Init == stack = [l \in Layers |-> None] /\ view = base

Add(l, root) == /\ Settled
                /\ \A k \in Present : k < l
                /\ stack' = [stack EXCEPT ![l] = root]
                /\ UNCHANGED <<base, view>>

Drop(l) == /\ Settled
           /\ l \in Present
           /\ stack' = [stack EXCEPT ![l] = None]
           /\ UNCHANGED <<base, view>>

Settle(p) == /\ view[p] # Top(p)
             /\ view' = [view EXCEPT ![p] = Top(p)]
             /\ UNCHANGED <<base, stack>>

Next == \/ \E l \in Layers, root \in Roots : Add(l, root)
        \/ \E l \in Layers : Drop(l)
        \/ \E p \in Paths : Settle(p)

(* What has begun to change goes on until every path shows its layer.      *)
Spec == Init /\ [][Next]_vars /\ WF_vars(\E p \in Paths : Settle(p))
=============================================================================
