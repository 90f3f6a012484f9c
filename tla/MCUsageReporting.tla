-------------------------- MODULE MCUsageReporting --------------------------
(***************************************************************************)
(* A request for each of two stacks: up to four items of usage, two to sum *)
(* up for each stack.                                                      *)
(***************************************************************************)
EXTENDS UsageReporting, TLC

CONSTANTS r1, r2, s1, s2

MCStackOf == r1 :> s1 @@ r2 :> s2
=============================================================================
