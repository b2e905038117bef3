------------------------------- MODULE MCTrace ------------------------------
(* Values for the constants of Trace, for TLC. *)
EXTENDS Trace

(* A header, a tool that is a link to a script, and an object file under a *)
(* build root; a name with a doubled slash and one that is relative.       *)
header == <<"/", "header">>
cc     == <<"/", "cc">>
script == <<"/", "script">>
object == <<"/", "dst", "/", "object">>
root   == <<"/", "root">>
tmp    == <<"/", "tmp">>

SomeNames == {<<"/", "/", "header">>, cc, object}
OneName   == {header}
SomeFiles == {header, cc, script, object, tmp \o header}
           \cup {root \o header, root \o cc, root \o script}
SomeLinks == [l \in {cc, root \o cc} |-> IF l = cc THEN script ELSE root \o script]
SomeScripts == [s \in {script, root \o script} |-> <<"/", "sh">>]
Tmp == {tmp}
Dst == <<"/", "dst">>

Given(vars_) == [set |-> vars_, libs |-> {"darwintrace"}]
Cleared  == NoEnv
PlainOrAll == {Given({"LOG"}), Given(EnvVars)}
Redirecting == {Given({"LOG", "REDIRECT", "BUILDROOT"})}
Passed == {Cleared, [set |-> {"REDIRECT"}, libs |-> {"other"}]}
JustCleared == {Cleared}
NoSettings == {}

AllOps  == {"open", "open to write", "readlink", "execve", "posix_spawn", "close"}
TwoOps  == {"open", "execve"}

FirstWritable == [f \in Fds |-> IF f = 1 THEN "write" ELSE "free"]
NothingOpen == [f \in Fds |-> "free"]
=============================================================================
