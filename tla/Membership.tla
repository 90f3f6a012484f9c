----------------------------- MODULE Membership -----------------------------
(***************************************************************************)
(* Membership of a region (executor/src/network/membership.rs).  Every     *)
(* node writes its status to a key of the shared database with a           *)
(* compare-and-swap loop, reads the statuses of all others, and reports    *)
(* the differences to its listener (the glue code, which passes them on to *)
(* the scheduler).                                                         *)
(*                                                                         *)
(* A node's mailbox runs one message at a time, but an update is several   *)
(* database calls, and those interleave with the calls of other nodes,     *)
(* with a newer generation at the same address, and with time.  `pc` is    *)
(* the place a node has reached.                                           *)
(***************************************************************************)
EXTENDS NodeView

CONSTANTS Started,          \* the node instances the model starts
          AssumeDeadAfter,  \* config.assume_dead_after, in clock ticks
          MaxTime,          \* bound: the clock stops here
          MaxWrites         \* bound: status writes of each instance

ASSUME StartedAssumption == Started \subseteq Node
ASSUME TimeAssumption == AssumeDeadAfter \in Nat \ {0} /\ MaxTime \in Nat
ASSUME MaxWritesAssumption == MaxWrites \in [Started -> Nat]

Time == 0 .. MaxTime

NoStatus == [generation |-> 0, state |-> "Dead", last_update |-> 0,
             deployed_stacks |-> {}]
NodeStatus == [generation : {0} \cup Generation, state : {"Alive", "Dead"},
               last_update : Time, deployed_stacks : SUBSET Stack]

VARIABLES
    now,              \* the wall clock all nodes share
    db,               \* the status stored at every address
    pc,               \* what the node's mailbox is doing
    stopping,         \* the node has taken the Stop message
    mine,             \* the status the node is writing, NoStatus in between
    seen,             \* the stored status its compare-and-swap expects
    deployed_stacks,  \* State.deployed_stacks
    nodes,            \* State.nodes, by address
    listener,         \* what the notifications so far add up to
    writes            \* status writes each instance has begun

vars == <<now, db, pc, stopping, mine, seen, deployed_stacks, nodes,
          listener, writes>>

Running(n) == pc[n] \in {"idle", "cas", "retry", "scan"}

----------------------------------------------------------------------------
get_dead_reason(time, status) ==
    status.state = "Dead" \/ status.last_update + AssumeDeadAfter <= time

(***************************************************************************)
(* What a listener that keeps the set of live nodes and the stacks each of *)
(* them runs, as the scheduler does, makes of the notifications of one     *)
(* update: sent[a] are those about address a.  A node that died runs       *)
(* nothing.                                                                *)
(***************************************************************************)
NoListener == [live |-> {}, deployed |-> [m \in Node |-> {}]]

Deliver(l, sent) ==
    [live |-> {m \in Node : /\ m[2] \notin sent[m[1]].died
                            /\ m \in l.live \/ m[2] \in sent[m[1]].discovered},
     deployed |-> [m \in Node |->
         CASE m[2] \in sent[m[1]].died -> {}
           [] m[2] \in sent[m[1]].changed \ sent[m[1]].died ->
                  (l.deployed[m] \cup sent[m[1]].added) \ sent[m[1]].removed
           [] OTHER -> l.deployed[m]]]

----------------------------------------------------------------------------
Init ==
    /\ now = 0
    /\ db = [a \in Address |-> NoStatus]
    /\ pc = [n \in Started |-> "off"]
    /\ stopping = [n \in Started |-> FALSE]
    /\ mine = [n \in Started |-> NoStatus]
    /\ seen = [n \in Started |-> NoStatus]
    /\ deployed_stacks = [n \in Started |-> {}]
    /\ nodes = [n \in Started |-> [a \in Address |-> NoInfo]]
    /\ listener = [n \in Started |-> NoListener]
    /\ writes = [n \in Started |-> 0]

\* start: the nodes found in the database are known from the beginning, the
\* live ones are handed to the listener with their stacks.  Generations of an
\* address start in order; an older one may still be running.
start(n) ==
    LET info == [a \in Address |->
                    IF a = n[1] \/ db[a].generation = 0
                    THEN NoInfo
                    ELSE [RemoteNode(db[a]) EXCEPT
                             !.dead = get_dead_reason(now, db[a])]]
        live == {m \in Node : ~info[m[1]].dead /\ info[m[1]].generation = m[2]}
    IN  /\ pc[n] = "off"
        /\ \A m \in Started : m[1] = n[1] => (m[2] < n[2] <=> pc[m] # "off")
        /\ pc' = [pc EXCEPT ![n] = "idle"]
        /\ nodes' = [nodes EXCEPT ![n] = info]
        /\ listener' = [listener EXCEPT ![n] =
               [live |-> live,
                deployed |-> [m \in Node |-> IF m \in live
                                             THEN info[m[1]].deployed_stacks
                                             ELSE {}]]]
        /\ UNCHANGED <<now, db, stopping, mine, seen, deployed_stacks, writes>>

\* The glue loop reports what the scheduler did.  What happens after the last
\* write of a bounded run is not seen by anyone.
StackDeployedLocally(n, s) ==
    /\ pc[n] = "idle" /\ ~stopping[n] /\ writes[n] < MaxWrites[n]
    /\ deployed_stacks' = [deployed_stacks EXCEPT ![n] = @ \cup {s}]
    /\ UNCHANGED <<now, db, pc, stopping, mine, seen, nodes, listener, writes>>

StackUndeployedLocally(n, s) ==
    /\ pc[n] = "idle" /\ ~stopping[n] /\ writes[n] < MaxWrites[n]
    /\ deployed_stacks' = [deployed_stacks EXCEPT ![n] = @ \ {s}]
    /\ UNCHANGED <<now, db, pc, stopping, mine, seen, nodes, listener, writes>>

my_status(n) ==
    [generation |-> n[2], state |-> "Alive", last_update |-> now,
     deployed_stacks |-> deployed_stacks[n]]

\* write_status, first call of the loop: read what is stored, and give up when
\* a newer generation of this address has written.
TryWrite(n, status) ==
    /\ IF db[n[1]].generation > n[2]
       THEN /\ pc' = [pc EXCEPT ![n] = "idle"]
            /\ mine' = [mine EXCEPT ![n] = NoStatus]
            /\ UNCHANGED seen
       ELSE /\ pc' = [pc EXCEPT ![n] = "cas"]
            /\ mine' = [mine EXCEPT ![n] = status]
            /\ seen' = [seen EXCEPT ![n] = db[n[1]]]

\* The tick task posts Update at every interval, and may still do so between
\* the handling of Stop and the end of the mailbox.
Update(n) ==
    /\ pc[n] = "idle"
    /\ writes[n] < MaxWrites[n]
    /\ writes' = [writes EXCEPT ![n] = @ + 1]
    /\ TryWrite(n, my_status(n))
    /\ UNCHANGED <<now, db, stopping, deployed_stacks, nodes, listener>>

\* mark_me_dead writes through the same loop as an update.
Stop(n) ==
    /\ pc[n] = "idle" /\ ~stopping[n]
    /\ writes[n] < MaxWrites[n]
    /\ writes' = [writes EXCEPT ![n] = @ + 1]
    /\ stopping' = [stopping EXCEPT ![n] = TRUE]
    /\ TryWrite(n, [generation |-> n[2], state |-> "Dead", last_update |-> now,
                    deployed_stacks |-> {}])
    /\ UNCHANGED <<now, db, deployed_stacks, nodes, listener>>

\* The loop again, after another instance was faster.
RetryWrite(n) ==
    /\ pc[n] = "retry"
    /\ TryWrite(n, mine[n])
    /\ UNCHANGED <<now, db, stopping, deployed_stacks, nodes, listener, writes>>

\* A slip: the status is put, not swapped.
BlindWrite(n) ==
    /\ pc[n] = "cas"
    /\ seen' = [seen EXCEPT ![n] = NoStatus]
    /\ db' = [db EXCEPT ![n[1]] = mine[n]]
    /\ pc' = [pc EXCEPT ![n] = IF mine[n].state = "Alive" THEN "scan" ELSE "idle"]
    /\ mine' = [mine EXCEPT ![n] = IF @.state = "Alive" THEN @ ELSE NoStatus]
    /\ UNCHANGED <<now, stopping, deployed_stacks, nodes, listener, writes>>

\* write_status, second call: swap, or start the loop over.  An update goes on
\* to read all statuses, mark_me_dead is done.
write_status_cas(n) ==
    /\ pc[n] = "cas"
    /\ seen' = [seen EXCEPT ![n] = NoStatus]
    /\ IF db[n[1]] = seen[n]
       THEN /\ db' = [db EXCEPT ![n[1]] = mine[n]]
            /\ IF mine[n].state = "Alive"
               THEN /\ pc' = [pc EXCEPT ![n] = "scan"]
                    /\ UNCHANGED mine
               ELSE /\ pc' = [pc EXCEPT ![n] = "idle"]
                    /\ mine' = [mine EXCEPT ![n] = NoStatus]
       ELSE /\ pc' = [pc EXCEPT ![n] = "retry"]
            /\ UNCHANGED <<db, mine>>
    /\ UNCHANGED <<now, stopping, deployed_stacks, nodes, listener, writes>>

\* The rest of perform_update: read_status_all, then one round over all the
\* addresses.  Only this very node instance is left out, so a newer generation
\* at the same address is a node like any other.  The clock was read when the
\* update began.
perform_update(n) ==
    LET status == [a \in Address |->
                      IF a = n[1] /\ db[a].generation = n[2] THEN NoStatus ELSE db[a]]
        result == [a \in Address |->
                      Observe(nodes[n][a], status[a],
                              get_dead_reason(mine[n].last_update, status[a]))]
        sent == [a \in Address |-> result[a].sent]
    IN  /\ pc[n] = "scan"
        /\ nodes' = [nodes EXCEPT ![n] = [a \in Address |-> result[a].info]]
        /\ listener' = [listener EXCEPT ![n] = Deliver(@, sent)]
        /\ pc' = [pc EXCEPT ![n] = "idle"]
        /\ mine' = [mine EXCEPT ![n] = NoStatus]
        /\ UNCHANGED <<now, db, stopping, seen, deployed_stacks, writes>>

\* A database call fails and the message is abandoned with an error log.  A
\* failed compare-and-swap may have been applied.
DbFails(n, applied) ==
    /\ pc[n] \in {"cas", "retry", "scan"}
    /\ db' = IF applied /\ pc[n] = "cas" /\ db[n[1]] = seen[n]
             THEN [db EXCEPT ![n[1]] = mine[n]]
             ELSE db
    /\ pc' = [pc EXCEPT ![n] = "idle"]
    /\ mine' = [mine EXCEPT ![n] = NoStatus]
    /\ seen' = [seen EXCEPT ![n] = NoStatus]
    /\ UNCHANGED <<now, stopping, deployed_stacks, nodes, listener, writes>>

\* The end of the mailbox after Stop, or a crash at any point: the memory of
\* the node is gone.
Halt(n) ==
    /\ Running(n)
    /\ pc' = [pc EXCEPT ![n] = "down"]
    /\ stopping' = [stopping EXCEPT ![n] = FALSE]
    /\ mine' = [mine EXCEPT ![n] = NoStatus]
    /\ seen' = [seen EXCEPT ![n] = NoStatus]
    /\ deployed_stacks' = [deployed_stacks EXCEPT ![n] = {}]
    /\ nodes' = [nodes EXCEPT ![n] = [a \in Address |-> NoInfo]]
    /\ listener' = [listener EXCEPT ![n] = NoListener]
    /\ UNCHANGED <<now, db, writes>>

ClockTick ==
    /\ now < MaxTime
    /\ now' = now + 1
    /\ UNCHANGED <<db, pc, stopping, mine, seen, deployed_stacks, nodes, listener,
                   writes>>

Next ==
    \/ \E n \in Started :
           \/ start(n)
           \/ \E s \in Stack : StackDeployedLocally(n, s) \/ StackUndeployedLocally(n, s)
           \/ Update(n) \/ Stop(n)
           \/ RetryWrite(n) \/ write_status_cas(n) \/ perform_update(n)
           \/ \E applied \in BOOLEAN : DbFails(n, applied)
           \/ Halt(n)
    \/ ClockTick

Spec == Init /\ [][Next]_vars

----------------------------------------------------------------------------
TypeOK ==
    /\ now \in Time
    /\ db \in [Address -> NodeStatus]
    /\ pc \in [Started -> {"off", "idle", "cas", "retry", "scan", "down"}]
    /\ stopping \in [Started -> BOOLEAN]
    /\ mine \in [Started -> NodeStatus]
    /\ seen \in [Started -> NodeStatus]
    /\ deployed_stacks \in [Started -> SUBSET Stack]
    /\ nodes \in [Started -> [Address -> RemoteNodeInfo]]
    /\ listener \in [Started -> [live : SUBSET Node, deployed : [Node -> SUBSET Stack]]]
    /\ writes \in [Started -> Nat]

\* The compare-and-swap loop protects a newer generation: whatever the order of
\* the calls of two instances at one address, and whichever of them fail, a
\* stored status is never replaced by one of an older generation.
GenerationNeverRegresses ==
    [][\A a \in Address : db[a].generation <= db'[a].generation]_vars

\* The notifications add up: the nodes the listener takes for live, having
\* only heard NodeDiscovered and NodeDied, are exactly the nodes membership's
\* own table holds as alive, across deaths, returns and restarts.
ListenerAgreesOnLiveness ==
    \A n \in Started : listener[n].live =
        {m \in Node : /\ nodes[n][m[1]].generation = m[2]
                      /\ ~nodes[n][m[1]].dead}

\* A stack the listener takes to be running on a live node is in the last status
\* this node read of it: no removal is lost, whatever the node went through
\* (missed updates, stack changes reported while it was dead, a restart).
NoPhantomDeployment ==
    \A n \in Started : \A m \in listener[n].live :
        listener[n].deployed[m] \subseteq nodes[n][m[1]].deployed_stacks

=============================================================================
