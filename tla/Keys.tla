-------------------------------- MODULE Keys --------------------------------
(***************************************************************************)
(* The keys that muDB writes to TiKV (rust-libs/db/src/types.rs).          *)
(*                                                                         *)
(* One ordered key space holds the rows of every table of every stack, the *)
(* list of the tables, and the membership keys of the nodes.  A row's key  *)
(* is <length><stack ID><length><table name><inner key>, an entry of the   *)
(* table list is <length>"__tlm"<length><stack ID><table name>, and a scan *)
(* or a deletion names an interval of keys.                                *)
(***************************************************************************)
EXTENDS Integers, Sequences, FiniteSets

CONSTANTS MaxByte,         \* u8::MAX; a byte is 0 .. MaxByte
          PubkeySize,      \* SOLANA_PUBKEY_SIZE
          TableListMetadata   \* the bytes of TABLE_LIST_METADATA

Byte == 0 .. MaxByte

\* A stack ID is written as its variant, 1, and the bytes of the public key.
ASSUME KeySizes ==
    /\ MaxByte \in Nat /\ PubkeySize \in Nat /\ PubkeySize + 1 <= MaxByte
    /\ TableListMetadata \in Seq(Byte)
    /\ Len(TableListMetadata) \in (1 .. MaxByte) \ {PubkeySize + 1}

to_bytes(s) == <<1>> \o s

try_from_bytes(bytes) ==
    IF Len(bytes) = PubkeySize + 1 /\ bytes[1] = 1 THEN <<Tail(bytes)>> ELSE <<>>

\* A slip: nothing says where the second chunk ends.
unbounded_second_chunk(first, second, third) ==
    <<Len(first)>> \o first \o second \o third

\* The asserted lengths hold of a stack ID and of a TableName, which is refused
\* when it has more than 255 bytes.
tikv_key_from_3_chunk(first, second, third) ==
    <<Len(first)>> \o first \o <<Len(second)>> \o second \o third

\* A list of none or one result, as Ok and Err.
split_at(x, n) ==
    IF Len(x) < n THEN <<>>
    ELSE <<[head |-> SubSeq(x, 1, n), tail |-> SubSeq(x, n + 1, Len(x))]>>

\* A length byte and as many bytes.
split_chunk(x) == IF x = <<>> THEN <<>> ELSE split_at(Tail(x), x[1])

three_chunk_try_from_tikv_key(value) ==
    LET first == split_chunk(value)
        second == IF first = <<>> THEN <<>> ELSE split_chunk(first[1].tail)
    IN  IF second = <<>> THEN <<>>
        ELSE <<[a |-> first[1].head, b |-> second[1].head, c |-> second[1].tail]>>

TableListKey(s, t) == tikv_key_from_3_chunk(TableListMetadata, to_bytes(s), t)

Key(s, t, k) == tikv_key_from_3_chunk(to_bytes(s), t, k)

\* A name is a String: no byte of UTF-8 text is 255.
IsTableName(t) == \A i \in DOMAIN t : t[i] # MaxByte

TableListKey_try_from(value) ==
    LET chunks == three_chunk_try_from_tikv_key(value)
    IN  IF /\ chunks # <<>>
           /\ chunks[1].a = TableListMetadata
           /\ try_from_bytes(chunks[1].b) # <<>>
           /\ IsTableName(chunks[1].c)
        THEN <<[stack_id |-> try_from_bytes(chunks[1].b)[1], table_name |-> chunks[1].c]>>
        ELSE <<>>

Key_try_from(value) ==
    LET chunks == three_chunk_try_from_tikv_key(value)
    IN  IF /\ chunks # <<>>
           /\ try_from_bytes(chunks[1].a) # <<>>
           /\ IsTableName(chunks[1].b)
        THEN <<[stack_id |-> try_from_bytes(chunks[1].a)[1],
                table_name |-> chunks[1].b, inner_key |-> chunks[1].c]>>
        ELSE <<>>

----------------------------------------------------------------------------
(***************************************************************************)
(* Intervals of keys in the order of TiKV, the lexicographic one.          *)
(***************************************************************************)
Less(x, y) ==
    \E i \in DOMAIN y :
        /\ i > Len(x) \/ x[i] < y[i]
        /\ \A j \in 1 .. (i - 1) : j <= Len(x) /\ x[j] = y[j]

\* A slip: the increment does not carry, and 255 becomes 0.
no_carry(from) ==
    [from |-> from,
     to |-> <<[from EXCEPT ![Len(from)] = (@ + 1) % (MaxByte + 1)]>>]

\* from .. from + 1, where bytes of 255 at the end become 0 and carry; there
\* is no upper end when every byte is 255.  No caller passes an empty `from`.
subset_range(from) ==
    LET incremented == {i \in DOMAIN from :
            /\ from[i] # MaxByte
            /\ \A j \in (i + 1) .. Len(from) : from[j] = MaxByte}
    IN  [from |-> from,
         to |-> IF incremented = {} THEN <<>>
                ELSE LET last == CHOOSE i \in incremented : TRUE
                     IN  <<[i \in DOMAIN from |->
                               CASE i < last -> from[i]
                                 [] i = last -> from[i] + 1
                                 [] i > last -> 0]>>]

InRange(x, range) ==
    /\ ~Less(x, range.from)
    /\ range.to = <<>> \/ Less(x, range.to[1])

prefixed_by_two_chunk_bound_range(first, second) ==
    subset_range(<<Len(first)>> \o first \o <<Len(second)>> \o second)

prefixed_by_three_chunk_bound_range(first, second, third) ==
    subset_range(<<Len(first)>> \o first \o <<Len(second)>> \o second \o third)

ScanTableListByStackID(s) ==
    prefixed_by_two_chunk_bound_range(TableListMetadata, to_bytes(s))

ScanTableListByTableName(s, prefix) ==
    prefixed_by_three_chunk_bound_range(TableListMetadata, to_bytes(s), prefix)

ScanByTableName(s, t) == prefixed_by_two_chunk_bound_range(to_bytes(s), t)

ScanByInnerKeyPrefix(s, t, prefix) ==
    prefixed_by_three_chunk_bound_range(to_bytes(s), t, prefix)
=============================================================================
