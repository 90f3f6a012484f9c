----------------------------- MODULE MCStackData -----------------------------
(***************************************************************************)
(* Two stacks whose IDs are neighbours in the order of the keys, the second *)
(* ending in the largest byte, with tables whose names are neighbours too. *)
(* The first stack is deployed elsewhere and its data is just there, as is *)
(* a key of membership (the byte 0 and "M").  The second, which has a row  *)
(* from an earlier deployment, is deployed in two revisions, of which the  *)
(* second removes a table and a storage.                                   *)
(***************************************************************************)
EXTENDS StackData, TLC

Symmetry == Permutations(Node)

MCTableListMetadata == <<2>>
MCStackID == {<<2>>, <<3>>}
MCTableName == {<<0>>, <<1>>}
MCInnerKey == {<<>>, <<2>>}
MCPrefix == {<<>>, <<2>>}
MCBatch == {{<<<<0>>, <<2>>>>, <<<<1>>, <<>>>>}}
MCPrefixWithMax == {<<3>>}

MCDefinition ==
    (<<2>> :> <<>>) @@
    (<<3>> :> <<[tables |-> (<<0>> :> FALSE) @@ (<<1>> :> FALSE),
                 storages |-> ("x" :> FALSE), functions |-> {"f"}],
                [tables |-> (<<0>> :> TRUE) @@ (<<1>> :> FALSE),
                 storages |-> ("x" :> TRUE), functions |-> {"f", "g"}]>>)

MCInitialStore ==
    (<<0, 2>> :> 0) @@ (TableListKey(<<2>>, <<0>>) :> 0)
    @@ (Key(<<2>>, <<0>>, <<2>>) :> 1)
    @@ (TableListKey(<<3>>, <<0>>) :> 0) @@ (Key(<<3>>, <<0>>, <<2>>) :> 1)
=============================================================================
