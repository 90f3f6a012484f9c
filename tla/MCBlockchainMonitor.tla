------------------------ MODULE MCBlockchainMonitor ------------------------
(***************************************************************************)
(* Two stacks of one owner and one of another, so that owners with one and *)
(* with several stacks, and groups that are torn apart, occur.             *)
(***************************************************************************)
EXTENDS BlockchainMonitor, TLC

CONSTANTS o1, o2, s1, s2, s3, k1

MCOwnerOf == s1 :> o1 @@ s2 :> o1 @@ s3 :> o2

\* The two stacks of one owner may change places; used for invariants only.
MCSymmetry == Permutations({s1, s2})
=============================================================================
