--------------------------- MODULE MCMarketplace ---------------------------
(***************************************************************************)
(* One developer with two stacks in a region, and a second provider with   *)
(* an escrow and a deposit of its own.  Units and word size are scaled     *)
(* down so that prices round, and the computation of the commission        *)
(* overflows a word, within a few tokens.                                  *)
(***************************************************************************)
EXTENDS Marketplace, TLC

CONSTANTS u1, p1, p2, r1, s1, s2

MCProviderOf == r1 :> p1
MCUserOf == s1 :> u1 @@ s2 :> u1
MCRegionOf == s1 :> r1 @@ s2 :> r1

\* Prices of 1 and 3 tokens.
MCRates == {[NoUsage EXCEPT !["db_reads"] = 2, !["function_mb_instructions"] = 3]}
MCUsage == {DBRead(1, 0), FunctionMBInstructions(1, 2)}
=============================================================================
