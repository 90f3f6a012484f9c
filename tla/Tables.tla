------------------------------- MODULE Tables -------------------------------
(***************************************************************************)
(* What muDB promises of its tables: every stack has a set of tables, a    *)
(* table holds rows, and a call changes the tables or the rows that it     *)
(* names, of one stack, and nothing else.                                  *)
(*                                                                         *)
(* The promise does not include that a row belongs to an existing table:   *)
(* most calls do not ask whether the table exists.                         *)
(***************************************************************************)
EXTENDS Integers, SequencesExt

CONSTANTS StackID, TableName, InnerKey, Value

VARIABLES tables,   \* the pairs <<stack, table>> that exist
          rows,     \* the value of every row <<stack, table, key>> there is
          rest      \* what else is kept in the same database

vars == <<tables, rows, rest>>

Written(K, v) ==
    LET old == rows IN [r \in DOMAIN old \cup K |-> IF r \in K THEN v ELSE old[r]]

Without(K) == LET old == rows IN [r \in DOMAIN old \ K |-> old[r]]

CreateTables(s, T) ==
    /\ tables' = tables \cup ({s} \X T)
    /\ UNCHANGED <<rows, rest>>

RemoveTables(s, T) ==
    /\ tables' = tables \ ({s} \X T)
    /\ UNCHANGED <<rows, rest>>

\* K is a set of pairs <<table, key>>.
Put(s, K, v) ==
    /\ rows' = Written({<<s, r[1], r[2]>> : r \in K}, v)
    /\ UNCHANGED <<tables, rest>>

Delete(s, K) ==
    /\ rows' = Without({<<s, r[1], r[2]>> : r \in K})
    /\ UNCHANGED <<tables, rest>>

DeleteByPrefix(s, t, prefix) ==
    /\ rows' = Without({r \in DOMAIN rows :
                            r[1] = s /\ r[2] = t /\ IsPrefix(prefix, r[3])})
    /\ UNCHANGED <<tables, rest>>

\* prev and the answer are sets of none or one value.
ValueAt(s, t, k) == {rows[r] : r \in DOMAIN rows \cap {<<s, t, k>>}}

CompareAndSwap(s, t, k, prev, v) ==
    /\ rows' = IF ValueAt(s, t, k) = prev THEN Written({<<s, t, k>>}, v) ELSE rows
    /\ UNCHANGED <<tables, rest>>
=============================================================================
