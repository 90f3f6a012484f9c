------------------------------ MODULE Database ------------------------------
(***************************************************************************)
(* muDB (rust-libs/db/src/lib.rs): the calls of DbClient on the TiKV       *)
(* cluster that all nodes share.  The functions of a stack make the calls  *)
(* on rows; a node makes the ones on tables when it deploys or removes a   *)
(* stack.  TiKV runs one raw call at a time; a call of DbClient that makes *)
(* several is as many steps, and another call may come between them.       *)
(***************************************************************************)
EXTENDS Keys

CONSTANTS Node,
          RowScanLimit,     \* 10000: keys that a table's deletion reads at once
          TableScanLimit,   \* 10000: tables that an update reads
          TableListLimit    \* 128: tables that table_list returns

VARIABLES store,    \* what TiKV holds: the value of every key it has
          update    \* the call of update_stack_tables that a node is making

dbvars == <<store, update>>

\* Raw calls of TiKV.
RawPut(K, v) == [x \in DOMAIN store \cup K |-> IF x \in K THEN v ELSE store[x]]
RawDelete(K) == [x \in DOMAIN store \ K |-> store[x]]
RawRange(range) == {x \in DOMAIN store : InRange(x, range)}
RawScanKeys(range, limit) ==
    LET hits == RawRange(range)
    IN  {x \in hits : Cardinality({y \in hits : Less(y, x)}) < limit}
RawGet(x) == {store[y] : y \in DOMAIN store \cap {x}}

----------------------------------------------------------------------------
(***************************************************************************)
(* Calls on rows.                                                          *)
(***************************************************************************)

\* The first half of put; without the table it is refused.
HasTable(s, t) == TableListKey(s, t) \in DOMAIN store

put(s, t, k, v) == store' = RawPut({Key(s, t, k)}, v)

get(s, t, k) == RawGet(Key(s, t, k))

delete(s, t, k) == store' = RawDelete({Key(s, t, k)})

delete_by_prefix(s, t, prefix) ==
    store' = RawDelete(RawRange(ScanByInnerKeyPrefix(s, t, prefix)))

\* K is a set of pairs <<table, key>>; the table is not asked for.
batch_put(s, K, v) == store' = RawPut({Key(s, r[1], r[2]) : r \in K}, v)

batch_delete(s, K) == store' = RawDelete({Key(s, r[1], r[2]) : r \in K})

\* prev is a set of none or one value, as Option.
compare_and_swap(s, t, k, prev, v) ==
    store' = IF RawGet(Key(s, t, k)) = prev THEN RawPut({Key(s, t, k)}, v) ELSE store

\* One key that is not a Key fails the whole answer; it is then <<>>.
Decoded(K) ==
    IF \E x \in K : Key_try_from(x) = <<>> THEN <<>>
    ELSE <<{Key_try_from(x)[1] : x \in K}>>

scan_keys(s, t, prefix, limit) ==
    Decoded(RawScanKeys(ScanByInnerKeyPrefix(s, t, prefix), limit))

TableNames(K) ==
    IF \E x \in K : TableListKey_try_from(x) = <<>> THEN <<>>
    ELSE <<{TableListKey_try_from(x)[1].table_name : x \in K}>>

table_list(s) == TableNames(RawScanKeys(ScanTableListByStackID(s), TableListLimit))

table_list_prefixed(s, prefix) ==
    TableNames(RawScanKeys(ScanTableListByTableName(s, prefix), TableListLimit))

clear_table(s, t) == store' = RawDelete(RawRange(ScanByTableName(s, t)))

----------------------------------------------------------------------------
(***************************************************************************)
(* update_stack_tables(s, keep and drop), on node n.                       *)
(***************************************************************************)
NoUpdate == [at |-> "none", stack |-> <<>>, add |-> {}, delete |-> {},
             todo |-> {}, batch |-> {}]

DatabaseInit == update = [n \in Node |-> NoUpdate]

Progress(n, r) == update' = [update EXCEPT ![n] = r]

\* A slip: the tables leave the list before their rows are deleted.
Settle_unlists_first(r) ==
    IF r.add # {} THEN [r EXCEPT !.at = "put"]
    ELSE IF r.delete # {} THEN [r EXCEPT !.at = "unlist"]
    ELSE IF r.todo # {} THEN [r EXCEPT !.at = "rows"]
    ELSE [NoUpdate EXCEPT !.at = "done"]

\* What comes when todo is empty: the calls with empty lists change nothing.
Settle(r) ==
    IF r.todo # {} THEN [r EXCEPT !.at = "rows"]
    ELSE IF r.add # {} THEN [r EXCEPT !.at = "put"]
    ELSE IF r.delete # {} THEN [r EXCEPT !.at = "unlist"]
    ELSE [NoUpdate EXCEPT !.at = "done"]

\* A slip: a table to delete is taken for one that does not exist.
ScanTables_inverts_check(n, s, keep, drop) ==
    LET existing == TableNames(RawScanKeys(ScanTableListByStackID(s), TableScanLimit))[1]
    IN  /\ update[n].at = "none"
        /\ Progress(n, Settle([at |-> "rows", stack |-> s, add |-> keep \ existing,
                               delete |-> drop \ existing, todo |-> drop \ existing,
                               batch |-> {}]))
        /\ UNCHANGED store

\* keep and drop are the tables of the definition, by their delete flag.
ScanTables(n, s, keep, drop) ==
    LET K == RawScanKeys(ScanTableListByStackID(s), TableScanLimit)
        existing == TableNames(K)
    IN  /\ update[n].at = "none"
        /\ Progress(n, IF existing = <<>> THEN [NoUpdate EXCEPT !.at = "failed"]
                       ELSE Settle([at |-> "rows", stack |-> s,
                                    add |-> keep \ existing[1],
                                    delete |-> drop \cap existing[1],
                                    todo |-> drop \cap existing[1], batch |-> {}]))
        /\ UNCHANGED store

\* The tables are taken in the order of the definition, here any fixed one.
ScanRows(n) ==
    LET t == CHOOSE t \in update[n].todo : TRUE
        K == RawScanKeys(ScanByTableName(update[n].stack, t), RowScanLimit)
    IN  /\ update[n].at = "rows"
        /\ update[n].batch = {}
        /\ Progress(n, IF K # {} THEN [update[n] EXCEPT !.batch = K]
                       ELSE Settle([update[n] EXCEPT !.todo = @ \ {t}]))
        /\ UNCHANGED store

DeleteRows(n) ==
    /\ update[n].at = "rows"
    /\ update[n].batch # {}
    /\ store' = RawDelete(update[n].batch)
    /\ Progress(n, [update[n] EXCEPT !.batch = {}])

\* An entry of the table list has an empty value; 0 stands for it.
PutTables(n) ==
    /\ update[n].at = "put"
    /\ store' = RawPut({TableListKey(update[n].stack, t) : t \in update[n].add}, 0)
    /\ Progress(n, Settle([update[n] EXCEPT !.add = {}]))

UnlistTables(n) ==
    /\ update[n].at = "unlist"
    /\ store' = RawDelete({TableListKey(update[n].stack, t) : t \in update[n].delete})
    /\ Progress(n, Settle([update[n] EXCEPT !.delete = {}]))

UpdateStep(n) == ScanRows(n) \/ DeleteRows(n) \/ PutTables(n) \/ UnlistTables(n)

\* A raw call of several keys may fail after it changed any of them.
PartialUpdate(n) ==
    LET u == update[n]
        entries(T) == {TableListKey(u.stack, t) : t \in T}
    IN  \/ u.at = "put" /\ \E T \in SUBSET u.add : store' = RawPut(entries(T), 0)
        \/ u.at = "unlist" /\ \E T \in SUBSET u.delete : store' = RawDelete(entries(T))
        \/ u.at = "rows" /\ \E K \in SUBSET u.batch : store' = RawDelete(K)
=============================================================================
