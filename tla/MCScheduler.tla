---------------------------- MODULE MCScheduler ----------------------------
(***************************************************************************)
(* Small instances of Scheduler.  Hashes and stack ids are three-bit       *)
(* numbers and the distance is their XOR, as in get_closest_node: every    *)
(* stack has a node closer than Me and one farther away.                   *)
(***************************************************************************)
EXTENDS Scheduler, Bitwise, TLC

CONSTANTS me, near, far, s1, s2

MCHash == (me :> 2) @@ (near :> 1) @@ (far :> 5)
MCStackId == (s1 :> 0) @@ (s2 :> 3)
MCDistance == [s \in Stack |-> [n \in Node |-> MCStackId[s] ^^ MCHash[n]]]
=============================================================================
