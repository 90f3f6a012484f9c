---------------------------- MODULE MCPublishing ----------------------------
(***************************************************************************)
(* A project with two functions and its next version, whose functions are  *)
(* all new or all old; two runs of the command at a time.                  *)
(***************************************************************************)
EXTENDS Publishing, TLC

CONSTANTS r1, r2, a, b, c

MCProject == {[version |-> 1, functions |-> <<a, b>>], [version |-> 2, functions |-> <<c>>]}
MCSharing == {[version |-> 1, functions |-> <<a>>], [version |-> 2, functions |-> <<a>>]}
=============================================================================
