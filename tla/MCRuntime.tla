----------------------------- MODULE MCRuntime -----------------------------
(* A caller of an assembly, one call after the other, whose functions make   *)
(* requests of every kind.                                                  *)
EXTENDS Runtime

CONSTANTS c1

MCCall == {c1}
MCrequests == [c \in MCCall |-> Request \cup {"Log"}]
MCstack_id == [a \in AssemblyID |-> a]

\* The module of revision 2 asks for more than its definition allows, but not
\* for more than that of revision 1 does; revision 3 is no valid module, and
\* the limit of revision 4 is no valid size.
MCmemory_limit == <<128, 64, 128, 192>>
MCMemoryType == [r \in Revision |-> [minimum |-> 1, maximum |-> IF r = 1 THEN Unset ELSE 2]]
=============================================================================
