------------------------------ MODULE SqlTable ------------------------------
(***************************************************************************)
(* The relational layer of darwinup (Table.cpp, Database.cpp): statements  *)
(* are put together from lists of conditions, prepared once, kept in a     *)
(* cache under a name that the caller chooses, and used again with other   *)
(* values.  A row is a record with one field per column; the primary key   *)
(* is the column "serial".                                                 *)
(***************************************************************************)
EXTENDS Integers, Sequences, FiniteSets, FiniteSetsExt

CONSTANT Null    \* no ORDER BY; the value of a parameter nobody bound

(* It is none of the columns that rows are ordered by. *)
ASSUME NullAssumption == Null \notin {"serial", "date_added", "archive"}

Is(column)      == [column |-> column, op |-> "="]
LessThan(column)  == [column |-> column, op |-> "<"]
MoreThan(column)  == [column |-> column, op |-> ">"]
IsNot(column)   == [column |-> column, op |-> "!"]

(***************************************************************************)
(* Table::where_va_columns.  "!" and the operator are two variables of the *)
(* loop that nothing resets: after a "!" every condition is negated, and   *)
(* "!" goes with the last operator before it, "=" at first.                *)
(***************************************************************************)
Where(conds) ==
    [i \in DOMAIN conds |->
        LET plain == {j \in 1..i : conds[j].op # "!"} IN
        [column  |-> conds[i].column,
         negated |-> \E j \in 1..i : conds[j].op = "!",
         op      |-> IF plain = {} THEN "=" ELSE conds[Max(plain)].op]]

(* Table::get_row, count, get_column, del; Table::get_row_ordered. *)
Statement(conds)              == [where |-> Where(conds), by |-> Null, desc |-> FALSE]
Ordered(conds, column, desc)  == [where |-> Where(conds), by |-> column, desc |-> desc]

(* The statement a name stands for, and the cache after it was asked for   *)
(* (__get_stmt): the first statement of a name is the one that is used.    *)
Named(name, statement)           == [name |-> name, statement |-> statement]
Prepared(cache, named)           == IF named.name \in DOMAIN cache
                                    THEN cache[named.name] ELSE named.statement
Caching(cache, named) ==
    [n \in DOMAIN cache \cup {named.name} |-> Prepared(cache, IF n = named.name
        THEN named ELSE Named(n, cache[n]))]

Compares(op, a, b) == CASE op = "=" -> a = b
                        [] op = "<" -> a < b
                        [] op = ">" -> a > b

(* The rows a statement selects, the values being bound in order. *)
Selected(statement, values, rows) ==
    {r \in rows : \A i \in DOMAIN statement.where :
        LET w == statement.where[i] IN
        Compares(w.op, r[w.column], values[i]) = ~w.negated}

(* sqlite3_step: the row that comes first.  Without ORDER BY the table is  *)
(* walked by its primary key; rows that ORDER BY does not tell apart come  *)
(* in any order.                                                           *)
First(statement, values, rows) ==
    LET found  == Selected(statement, values, rows)
        column == IF statement.by = Null THEN "serial" ELSE statement.by
    IN  {r \in found : \A q \in found :
            IF statement.desc THEN r[column] >= q[column] ELSE r[column] <= q[column]}

(* Database::get_all_ordered, by a column no two rows share. *)
InOrder(statement, values, rows) ==
    LET found == Selected(statement, values, rows)
        Rank(r) == Cardinality({q \in found :
            IF statement.desc THEN q[statement.by] >= r[statement.by]
                              ELSE q[statement.by] <= r[statement.by]})
    IN  [i \in 1..Cardinality(found) |-> CHOOSE r \in found : Rank(r) = i]

-----------------------------------------------------------------------------
Position(columns, c) == CHOOSE i \in DOMAIN columns : columns[i] = c

(* Database::insert: every column but the key gets the next value. *)
Inserted(columns, values, key, rows) ==
    rows \cup {[c \in {columns[i] : i \in DOMAIN columns} |->
                  IF c = columns[1] THEN key ELSE values[Position(columns, c) - 1]]}

(* Database::del with conditions, and by primary key. *)
Deleted(statement, values, rows) == rows \ Selected(statement, values, rows)
WithoutKey(key, rows)            == {r \in rows : r.serial # key}

(***************************************************************************)
(* Database::update_value: "UPDATE t SET c=? WHERE ...", the new value is  *)
(* parameter 1 and the conditions follow.                                  *)
(***************************************************************************)
(* Mutated form: the conditions are bound from 1 on again.                 *)
ConditionParameterFirst == 1

ConditionParameter == 2

UpdateValue(column, conds) == [set |-> column, where |-> Where(conds)]

ValueUpdated(statement, value, values, rows) ==
    LET bound  == <<value>> \o values
        target == Selected(statement, SubSeq(bound, ConditionParameter, Len(bound)), rows)
    IN  {IF r \in target THEN [r EXCEPT ![statement.set] = bound[1]] ELSE r : r \in rows}

(***************************************************************************)
(* Database::update: "UPDATE t SET c2=?, ..., cn=? WHERE c1=?", the values *)
(* bound from 1 on, the primary key at the number of columns.              *)
(***************************************************************************)
KeyParameter(columns) == Len(columns)

Parameters(columns, values, key) ==
    [i \in 1..Len(columns) |-> IF i = KeyParameter(columns) THEN key
                               ELSE IF i <= Len(values) THEN values[i] ELSE Null]

UpdateRow(columns) == [set |-> Tail(columns), key |-> columns[1]]

Updated(columns, values, key, rows) ==
    LET statement == UpdateRow(columns)
        bound     == Parameters(columns, values, key)
        IsTarget(r) == r[statement.key] = bound[Len(columns)]
    IN  {IF IsTarget(r) THEN [c \in DOMAIN r |-> IF c = statement.key THEN r[c]
                                ELSE bound[Position(statement.set, c)]]
                        ELSE r : r \in rows}
=============================================================================
