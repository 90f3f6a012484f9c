-------------------------- MODULE MembershipProofs --------------------------
(***************************************************************************)
(* For any number of addresses, generations, stacks and writes: a stored   *)
(* status never gives way to an older generation, and what a node's        *)
(* listener has been told agrees with what the node read.                  *)
(***************************************************************************)
EXTENDS Membership, TLAPS

\* A write under way is one of the instance's own generation, and the
\* compare-and-swap expects a status that is not newer.
Writing(p, status, expected, generation) ==
    /\ p \in {"cas", "retry", "scan"} => status.generation = generation
    /\ p = "cas" => expected.generation <= generation

WritesInv ==
    /\ TypeOK
    /\ \A n \in Started : Writing(pc[n], mine[n], seen[n], n[2])

\* The listener holds `live` for generation g of an address exactly when the
\* table does.
Agrees(live, info, g) == live <=> info.generation = g /\ ~info.dead

\* The stacks the listener holds for generation g of an address: those of the
\* last status of that generation, or none, unless the address has since stored
\* a newer generation, so that g never comes back.  A dead node may be said to
\* run stacks: changes are reported of dead nodes too.
Backed(stacks, info, g, newest) ==
    IF info.generation = g THEN stacks \subseteq info.deployed_stacks
                           ELSE stacks = {} \/ g < newest

\* What the notifications about an address make of one of its generations.
Live(live, sent, g) == g \notin sent.died /\ (live \/ g \in sent.discovered)

Stacks(stacks, sent, g) ==
    CASE g \in sent.died -> {}
      [] g \in sent.changed \ sent.died -> (stacks \cup sent.added) \ sent.removed
      [] OTHER -> stacks

ListenerInv ==
    \A n \in Started : \A m \in Node :
        /\ Agrees(m \in listener[n].live, nodes[n][m[1]], m[2])
        /\ Backed(listener[n].deployed[m], nodes[n][m[1]], m[2], db[m[1]].generation)

LEMMA Instances ==
    ASSUME NEW n \in Started
    PROVE  n \in Node /\ n[1] \in Address /\ n[2] \in Generation /\ n[2] \in Nat
BY StartedAssumption, MaxGenerationAssumption DEF Node, Generation

LEMMA NodeParts ==
    ASSUME NEW m \in Node
    PROVE  m[1] \in Address /\ m[2] \in Generation /\ m[2] \in Nat \ {0}
BY MaxGenerationAssumption DEF Node, Generation

LEMMA Generations ==
    ASSUME NEW g \in {0} \cup Generation
    PROVE  g \in Nat /\ (g # 0 => g \in Generation)
BY MaxGenerationAssumption DEF Generation

LEMMA StatusFields ==
    ASSUME NEW x \in NodeStatus
    PROVE  /\ x.generation \in {0} \cup Generation /\ x.generation \in Nat
           /\ x.deployed_stacks \in SUBSET Stack /\ x.last_update \in Time
<1>1. x.generation \in {0} \cup Generation /\ x.deployed_stacks \in SUBSET Stack
      /\ x.last_update \in Time
  BY DEF NodeStatus
<1> QED
  BY <1>1, Generations, Zenon

LEMMA AbsentStatus == NoStatus \in NodeStatus /\ NoInfo \in RemoteNodeInfo
BY TimeAssumption DEF NoStatus, NodeStatus, Time, NoInfo, RemoteNodeInfo

LEMMA InfoFields ==
    ASSUME NEW x \in RemoteNodeInfo
    PROVE  /\ x.generation \in {0} \cup Generation /\ x.generation \in Nat
           /\ x.deployed_stacks \in SUBSET Stack /\ x.dead \in BOOLEAN
<1>1. x.generation \in {0} \cup Generation /\ x.deployed_stacks \in SUBSET Stack
      /\ x.dead \in BOOLEAN
  BY DEF RemoteNodeInfo
<1> QED
  BY <1>1, Generations, Zenon

----------------------------------------------------------------------------
(* One status read of one address.                                         *)

\* The five branches of the loop body: the table entry keeps its type, and the
\* notifications sent change a listener's view of every generation of the
\* address exactly as the entry changes.
Follows(result, live, stacks, info, g, newest) ==
    /\ result.info \in RemoteNodeInfo
    /\ Stacks(stacks, result.sent, g) \in SUBSET Stack
    /\ Agrees(live, info, g) => Agrees(Live(live, result.sent, g), result.info, g)
    /\ Backed(stacks, info, g, newest) =>
           Backed(Stacks(stacks, result.sent, g), result.info, g, newest)

LEMMA SameGenerationFollows ==
    ASSUME NEW info \in RemoteNodeInfo, NEW status \in NodeStatus,
           NEW dead \in BOOLEAN, NEW g \in Generation, NEW live \in BOOLEAN,
           NEW stacks \in SUBSET Stack, NEW newest \in Nat,
           info.generation = status.generation
    PROVE  Follows(SameGeneration(info, status, dead), live, stacks, info, g, newest)
<1> DEFINE r == SameGeneration(info, status, dead)
<1>0. (status.deployed_stacks \ info.deployed_stacks)
          \cup (info.deployed_stacks \ status.deployed_stacks) = {}
      <=> info.deployed_stacks = status.deployed_stacks
  BY StatusFields, InfoFields, Zenon
<1>1. /\ r.info = [generation |-> info.generation, dead |-> dead,
                   deployed_stacks |-> status.deployed_stacks]
      /\ r.sent.discovered = IF info.dead /\ ~dead THEN {info.generation} ELSE {}
      /\ r.sent.died = IF dead /\ ~info.dead THEN {info.generation} ELSE {}
      /\ r.sent.added = status.deployed_stacks \ info.deployed_stacks
      /\ r.sent.removed = info.deployed_stacks \ status.deployed_stacks
      /\ r.sent.changed = IF info.deployed_stacks = status.deployed_stacks
                          THEN {} ELSE {info.generation}
  BY <1>0 DEF SameGeneration, compare_deployed_stack_list
<1>2. r.info \in RemoteNodeInfo
  BY <1>1, StatusFields, InfoFields DEF RemoteNodeInfo
<1>3. Agrees(live, info, g) => Agrees(Live(live, r.sent, g), r.info, g)
  BY <1>1 DEF Agrees, Live
<1>5. Stacks(stacks, r.sent, g) \in SUBSET Stack
  BY <1>1, StatusFields DEF Stacks
<1>4. ASSUME Backed(stacks, info, g, newest)
      PROVE  Backed(Stacks(stacks, r.sent, g), r.info, g, newest)
  <2>1. CASE info.generation # g
    BY <1>1, <1>4, <2>1 DEF Backed, Stacks
  <2>2. CASE info.generation = g /\ g \in r.sent.died
    BY <1>1, <2>2 DEF Backed, Stacks
  <2>3. CASE info.generation = g /\ g \notin r.sent.died /\ g \in r.sent.changed
    BY <1>1, <1>4, <2>3 DEF Backed, Stacks
  <2>4. CASE info.generation = g /\ g \notin r.sent.died /\ g \notin r.sent.changed
    BY <1>1, <1>4, <2>4 DEF Backed, Stacks
  <2> QED
    BY <2>1, <2>2, <2>3, <2>4
<1> QED
  BY <1>2, <1>3, <1>4, <1>5 DEF Follows

LEMMA NewGenerationFollows ==
    ASSUME NEW info \in RemoteNodeInfo, NEW status \in NodeStatus,
           NEW dead \in BOOLEAN, NEW g \in Generation, NEW live \in BOOLEAN,
           NEW stacks \in SUBSET Stack,
           info.generation < status.generation
    PROVE  Follows(NewGeneration(info, status, dead), live, stacks, info, g,
                   status.generation)
<1> DEFINE r == NewGeneration(info, status, dead)
           newest == status.generation
<1>1. /\ r.info = IF dead THEN NoInfo ELSE RemoteNode(status)
      /\ r.sent.discovered = IF dead THEN {} ELSE {status.generation}
      /\ r.sent.died = IF info.dead THEN {} ELSE {info.generation}
      /\ r.sent.changed = {}
  BY Zenon DEF NewGeneration, Silence
<1>2. /\ info.generation \in Nat /\ status.generation \in Nat /\ g \in Nat \ {0}
      /\ NoInfo.generation = 0 /\ NoInfo.dead
      /\ RemoteNode(status).generation = status.generation
      /\ ~RemoteNode(status).dead
      /\ RemoteNode(status) \in RemoteNodeInfo
  BY StatusFields, InfoFields, MaxGenerationAssumption
  DEF NoInfo, RemoteNode, Generation, RemoteNodeInfo
<1>3. r.info \in RemoteNodeInfo
  BY <1>1, <1>2, AbsentStatus
<1>4. Agrees(live, info, g) => Agrees(Live(live, r.sent, g), r.info, g)
  BY <1>1, <1>2 DEF Agrees, Live
<1>5. ASSUME Backed(stacks, info, g, newest)
      PROVE  Backed(Stacks(stacks, r.sent, g), r.info, g, newest)
  <2>1. stacks = {} \/ g < newest
    BY <1>2, <1>5 DEF Backed
  <2>2. Stacks(stacks, r.sent, g) \subseteq stacks
    BY <1>1 DEF Stacks
  <2>3. r.info.generation = g => g = newest
    BY <1>1, <1>2
  <2> QED
    BY <1>2, <2>1, <2>2, <2>3 DEF Backed
<1>6. Stacks(stacks, r.sent, g) \in SUBSET Stack
  BY <1>1 DEF Stacks
<1> QED
  BY <1>3, <1>4, <1>5, <1>6 DEF Follows

LEMMA DiscoveredFollows ==
    ASSUME NEW info \in RemoteNodeInfo, NEW status \in NodeStatus,
           NEW g \in Generation, NEW live \in BOOLEAN,
           NEW stacks \in SUBSET Stack,
           info.generation = 0
    PROVE  Follows(on_node_discovered(status), live, stacks, info, g,
                   status.generation)
<1> DEFINE r == on_node_discovered(status)
           newest == status.generation
<1>1. /\ r.info.generation = status.generation /\ ~r.info.dead
      /\ r.info \in RemoteNodeInfo
      /\ r.sent.discovered = {status.generation}
      /\ r.sent.died = {} /\ r.sent.changed = {}
  BY StatusFields DEF on_node_discovered, RemoteNode, Silence, RemoteNodeInfo
<1>2. status.generation \in Nat /\ g \in Nat \ {0}
  BY StatusFields, MaxGenerationAssumption DEF Generation
<1>3. Agrees(live, info, g) => Agrees(Live(live, r.sent, g), r.info, g)
  BY <1>1, <1>2 DEF Agrees, Live
<1>4. Backed(stacks, info, g, newest) =>
          Backed(Stacks(stacks, r.sent, g), r.info, g, newest)
  BY <1>1, <1>2 DEF Backed, Stacks
<1>5. Stacks(stacks, r.sent, g) \in SUBSET Stack
  BY <1>1 DEF Stacks
<1> QED
  BY <1>1, <1>3, <1>4, <1>5 DEF Follows

LEMMA MissingFollows ==
    ASSUME NEW info \in RemoteNodeInfo, NEW g \in Generation, NEW live \in BOOLEAN,
           NEW stacks \in SUBSET Stack, NEW newest \in Nat
    PROVE  Follows(MissingFromDb(info), live, stacks, info, g, newest)
<1> DEFINE r == MissingFromDb(info)
<1>1. /\ r.info = NoInfo /\ r.info.generation = 0
      /\ r.sent.discovered = {}
      /\ r.sent.died = {info.generation} /\ r.sent.changed = {}
  BY DEF MissingFromDb, NoInfo, Silence
<1>2. g \in Nat \ {0}
  BY MaxGenerationAssumption DEF Generation
<1>3. Agrees(live, info, g) => Agrees(Live(live, r.sent, g), r.info, g)
  BY <1>1, <1>2 DEF Agrees, Live
<1>4. Backed(stacks, info, g, newest) =>
          Backed(Stacks(stacks, r.sent, g), r.info, g, newest)
  BY <1>1, <1>2 DEF Backed, Stacks
<1>5. Stacks(stacks, r.sent, g) \in SUBSET Stack
  BY <1>1 DEF Stacks
<1> QED
  BY <1>1, <1>3, <1>4, <1>5, AbsentStatus DEF Follows

\* The status is the newest one stored at the address, or none when it is the
\* node's own.
LEMMA ObserveFollows ==
    ASSUME NEW info \in RemoteNodeInfo, NEW status \in NodeStatus,
           NEW dead \in BOOLEAN, NEW g \in Generation, NEW live \in BOOLEAN,
           NEW stacks \in SUBSET Stack, NEW newest \in Nat,
           status.generation \in {0, newest}
    PROVE  Follows(Observe(info, status, dead), live, stacks, info, g, newest)
<1> USE DEF Known
<1>0. info.generation \in Nat /\ status.generation \in Nat
  BY StatusFields, InfoFields
<1>1. CASE status.generation = 0 /\ Known(info)
  <2>1. Observe(info, status, dead) = MissingFromDb(info)
    BY <1>0, <1>1 DEF Observe
  <2> QED
    BY <2>1, MissingFollows
<1>2. CASE status.generation > 0 /\ ~Known(info) /\ ~dead
  <2>1. Observe(info, status, dead) = on_node_discovered(status)
    BY <1>0, <1>2 DEF Observe
  <2>2. newest = status.generation
    BY <1>0, <1>2
  <2> QED
    BY <1>2, <2>1, <2>2, DiscoveredFollows
<1>3. CASE status.generation > 0 /\ Known(info) /\ info.generation = status.generation
  <2>1. Observe(info, status, dead) = SameGeneration(info, status, dead)
    BY <1>0, <1>3 DEF Observe
  <2> QED
    BY <1>3, <2>1, SameGenerationFollows
<1>4. CASE status.generation > 0 /\ Known(info) /\ info.generation < status.generation
  <2>1. Observe(info, status, dead) = NewGeneration(info, status, dead)
    BY <1>0, <1>4 DEF Observe
  <2>2. newest = status.generation
    BY <1>0, <1>4
  <2> QED
    BY <1>4, <2>1, <2>2, NewGenerationFollows
<1>5. CASE /\ ~(status.generation = 0 /\ Known(info))
           /\ ~(status.generation > 0 /\ ~Known(info) /\ ~dead)
           /\ ~(Known(info) /\ info.generation = status.generation)
           /\ ~(Known(info) /\ info.generation < status.generation)
  <2>1. Observe(info, status, dead) = [info |-> info, sent |-> Silence]
    BY <1>5 DEF Observe
  <2>2. Stacks(stacks, Silence, g) = stacks /\ Live(live, Silence, g) = live
    BY DEF Stacks, Live, Silence
  <2> QED
    BY <2>1, <2>2 DEF Follows
<1> QED
  BY <1>0, <1>1, <1>2, <1>3, <1>4, <1>5

----------------------------------------------------------------------------
(* The compare-and-swap loop, and the types.                               *)

LEMMA WritesInit == Init => WritesInv
<1> SUFFICES ASSUME Init PROVE WritesInv
  OBVIOUS
<1>1. listener \in [Started -> [live : SUBSET Node, deployed : [Node -> SUBSET Stack]]]
  BY DEF Init, NoListener
<1>2. now \in Time
  BY TimeAssumption DEF Init, Time
<1>3. TypeOK
  BY <1>1, <1>2, AbsentStatus DEF Init, TypeOK
<1> QED
  BY <1>3 DEF Init, WritesInv, Writing

\* write_status up to the compare-and-swap, with a status of the node's own
\* generation.
LEMMA TryWriteKeeps ==
    ASSUME WritesInv, NEW n \in Started, NEW status \in NodeStatus,
           status.generation = n[2], TryWrite(n, status)
    PROVE  /\ pc' \in [Started -> {"off", "idle", "cas", "retry", "scan", "down"}]
           /\ mine' \in [Started -> NodeStatus] /\ seen' \in [Started -> NodeStatus]
           /\ \A k \in Started : Writing(pc'[k], mine'[k], seen'[k], k[2])
<1>0. /\ pc \in [Started -> {"off", "idle", "cas", "retry", "scan", "down"}]
      /\ mine \in [Started -> NodeStatus] /\ seen \in [Started -> NodeStatus]
      /\ \A k \in Started : Writing(pc[k], mine[k], seen[k], k[2])
      /\ db[n[1]] \in NodeStatus /\ db[n[1]].generation \in Nat /\ n[2] \in Nat
  BY Instances, StatusFields DEF WritesInv, TypeOK
<1>1. CASE db[n[1]].generation > n[2]
  <2>1. /\ pc' = [pc EXCEPT ![n] = "idle"]
        /\ mine' = [mine EXCEPT ![n] = NoStatus] /\ seen' = seen
    BY <1>1 DEF TryWrite
  <2>2. \A k \in Started : Writing(pc'[k], mine'[k], seen'[k], k[2])
    BY <1>0, <2>1 DEF Writing
  <2> QED
    BY <1>0, <2>1, <2>2, AbsentStatus
<1>2. CASE ~(db[n[1]].generation > n[2])
  <2>1. /\ pc' = [pc EXCEPT ![n] = "cas"]
        /\ mine' = [mine EXCEPT ![n] = status]
        /\ seen' = [seen EXCEPT ![n] = db[n[1]]]
    BY <1>2 DEF TryWrite
  <2>2. \A k \in Started : Writing(pc'[k], mine'[k], seen'[k], k[2])
    BY <1>0, <1>2, <2>1 DEF Writing
  <2> QED
    BY <1>0, <2>1, <2>2
<1> QED
  BY <1>1, <1>2

LEMMA OwnStatus ==
    ASSUME WritesInv, NEW n \in Started, NEW state \in {"Alive", "Dead"},
           NEW stacks \in SUBSET Stack
    PROVE  [generation |-> n[2], state |-> state, last_update |-> now,
            deployed_stacks |-> stacks] \in NodeStatus
BY Instances DEF WritesInv, TypeOK, NodeStatus

\* Deliver treats the nodes one by one.
LEMMA DeliverShape ==
    ASSUME NEW l, NEW sent
    PROVE  Deliver(l, sent) =
             [live |-> {k \in Node : Live(k \in l.live, sent[k[1]], k[2])},
              deployed |-> [k \in Node |-> Stacks(l.deployed[k], sent[k[1]], k[2])]]
BY Zenon DEF Deliver, Live, Stacks

LEMMA Delivered ==
    ASSUME NEW l, NEW sent, NEW m \in Node
    PROVE  /\ m \in Deliver(l, sent).live <=> Live(m \in l.live, sent[m[1]], m[2])
           /\ Deliver(l, sent).deployed[m] = Stacks(l.deployed[m], sent[m[1]], m[2])
BY DeliverShape

\* What the scan of perform_update does to the table and the listener, seen from
\* one address or node.
LEMMA ScanFollows ==
    ASSUME WritesInv, NEW n \in Started, perform_update(n), NEW m \in Node
    PROVE  \E result :
               /\ Follows(result, m \in listener[n].live, listener[n].deployed[m],
                          nodes[n][m[1]], m[2], db[m[1]].generation)
               /\ nodes'[n][m[1]] = result.info
               /\ m \in listener'[n].live
                      <=> Live(m \in listener[n].live, result.sent, m[2])
               /\ listener'[n].deployed[m]
                      = Stacks(listener[n].deployed[m], result.sent, m[2])
<1> DEFINE status(a) == IF a = n[1] /\ db[a].generation = n[2] THEN NoStatus ELSE db[a]
           result(a) == Observe(nodes[n][a], status(a),
                                get_dead_reason(mine[n].last_update, status(a)))
<1>1. /\ m[1] \in Address /\ m[2] \in Generation
      /\ nodes \in [Started -> [Address -> RemoteNodeInfo]]
      /\ nodes[n][m[1]] \in RemoteNodeInfo
      /\ db[m[1]] \in NodeStatus /\ db[m[1]].generation \in Nat
      /\ listener \in [Started -> [live : SUBSET Node, deployed : [Node -> SUBSET Stack]]]
      /\ listener[n].deployed[m] \in SUBSET Stack
  BY NodeParts, StatusFields DEF WritesInv, TypeOK
<1>2. /\ status(m[1]) \in NodeStatus
      /\ status(m[1]).generation \in {0, db[m[1]].generation}
  BY <1>1, AbsentStatus DEF NoStatus
<1>3. get_dead_reason(mine[n].last_update, status(m[1])) \in BOOLEAN
  BY DEF get_dead_reason
<1> HIDE DEF status
<1>4. Follows(result(m[1]), m \in listener[n].live, listener[n].deployed[m],
              nodes[n][m[1]], m[2], db[m[1]].generation)
  <2> DEFINE dead == get_dead_reason(mine[n].last_update, status(m[1]))
             live == m \in listener[n].live
  <2>1. dead \in BOOLEAN /\ live \in BOOLEAN
    BY <1>3
  <2> HIDE DEF dead, live
  <2>2. Follows(Observe(nodes[n][m[1]], status(m[1]), dead), live,
                listener[n].deployed[m], nodes[n][m[1]], m[2], db[m[1]].generation)
    BY <1>1, <1>2, <2>1, ObserveFollows
  <2> QED
    BY <2>2 DEF dead, live
<1>5. /\ nodes' = [nodes EXCEPT ![n] = [a \in Address |-> result(a).info]]
      /\ listener' = [listener EXCEPT ![n] =
             Deliver(listener[n], [a \in Address |-> result(a).sent])]
  BY Zenon DEF perform_update, status
<1> HIDE DEF result
<1>6. nodes'[n][m[1]] = result(m[1]).info
  BY <1>1, <1>5
<1>7. listener'[n] = Deliver(listener[n], [a \in Address |-> result(a).sent])
  BY <1>1, <1>5
<1>8. m \in listener'[n].live
          <=> Live(m \in listener[n].live, result(m[1]).sent, m[2])
  BY <1>1, <1>7, Delivered
<1>9. listener'[n].deployed[m]
          = Stacks(listener[n].deployed[m], result(m[1]).sent, m[2])
  BY <1>1, <1>7, Delivered
<1> QED
  BY <1>4, <1>6, <1>8, <1>9

Monotone == \A a \in Address : db[a].generation <= db'[a].generation

LEMMA StoredMonotone ==
    ASSUME WritesInv, UNCHANGED db
    PROVE  Monotone
BY StatusFields DEF WritesInv, TypeOK, Monotone

\* A compare-and-swap that is applied: the status it replaces is the one it
\* expects, which is not newer.
LEMMA SwapMonotone ==
    ASSUME WritesInv, NEW n \in Started, pc[n] = "cas", db[n[1]] = seen[n],
           db' = [db EXCEPT ![n[1]] = mine[n]]
    PROVE  Monotone /\ db' \in [Address -> NodeStatus]
<1>1. /\ db \in [Address -> NodeStatus] /\ mine[n] \in NodeStatus
      /\ seen[n].generation <= n[2] /\ mine[n].generation = n[2]
  BY DEF WritesInv, TypeOK, Writing
<1>2. /\ n[1] \in Address /\ n[2] \in Nat
      /\ \A a \in Address : db[a].generation \in Nat
  BY <1>1, StatusFields, Instances
<1> QED
  BY <1>1, <1>2 DEF Monotone

LEMMA StartWrites ==
    ASSUME WritesInv, NEW n \in Started, start(n)
    PROVE  WritesInv' /\ Monotone
<1> DEFINE info == [a \in Address |->
                       IF a = n[1] \/ db[a].generation = 0
                       THEN NoInfo
                       ELSE [RemoteNode(db[a]) EXCEPT
                                !.dead = get_dead_reason(now, db[a])]]
           live == {m \in Node : ~info[m[1]].dead /\ info[m[1]].generation = m[2]}
           deployed == [m \in Node |-> IF m \in live
                                       THEN info[m[1]].deployed_stacks ELSE {}]
<1>0. TypeOK /\ \A k \in Started : Writing(pc[k], mine[k], seen[k], k[2])
  BY DEF WritesInv
<1>1. /\ pc' = [pc EXCEPT ![n] = "idle"]
      /\ nodes' = [nodes EXCEPT ![n] = info]
      /\ listener' = [listener EXCEPT ![n] = [live |-> live, deployed |-> deployed]]
      /\ UNCHANGED <<now, db, stopping, mine, seen, deployed_stacks, writes>>
  BY DEF start
<1>2. info \in [Address -> RemoteNodeInfo]
  <2>1. ASSUME NEW a \in Address
        PROVE  info[a] \in RemoteNodeInfo
    <3>1. /\ db[a].generation \in {0} \cup Generation
          /\ db[a].deployed_stacks \in SUBSET Stack
      BY <1>0, StatusFields DEF TypeOK
    <3>2. get_dead_reason(now, db[a]) \in BOOLEAN
      BY DEF get_dead_reason
    <3>3. [RemoteNode(db[a]) EXCEPT !.dead = get_dead_reason(now, db[a])] \in RemoteNodeInfo
      BY <3>1, <3>2 DEF RemoteNode, RemoteNodeInfo
    <3> QED
      BY <3>3, AbsentStatus
  <2> QED
    BY <2>1
<1> HIDE DEF info
<1>3. deployed \in [Node -> SUBSET Stack]
  BY <1>2, InfoFields, NodeParts
<1>4. live \in SUBSET Node
  OBVIOUS
<1> HIDE DEF live, deployed
<1>5. TypeOK'
  BY <1>0, <1>1, <1>2, <1>3, <1>4 DEF TypeOK
<1>6. \A k \in Started : Writing(pc'[k], mine'[k], seen'[k], k[2])
  BY <1>0, <1>1 DEF Writing, TypeOK
<1> QED
  BY <1>1, <1>5, <1>6, StoredMonotone DEF WritesInv

LEMMA ScanWrites ==
    ASSUME WritesInv, NEW n \in Started, perform_update(n)
    PROVE  WritesInv' /\ Monotone
<1> DEFINE status == [a \in Address |->
                         IF a = n[1] /\ db[a].generation = n[2] THEN NoStatus ELSE db[a]]
           result == [a \in Address |->
                         Observe(nodes[n][a], status[a],
                                 get_dead_reason(mine[n].last_update, status[a]))]
           info == [a \in Address |-> result[a].info]
           heard == Deliver(listener[n], [a \in Address |-> result[a].sent])
<1>0. TypeOK /\ \A k \in Started : Writing(pc[k], mine[k], seen[k], k[2])
  BY DEF WritesInv
<1>1. /\ pc' = [pc EXCEPT ![n] = "idle"] /\ mine' = [mine EXCEPT ![n] = NoStatus]
      /\ UNCHANGED <<now, db, stopping, seen, deployed_stacks, writes>>
      /\ nodes' = [nodes EXCEPT ![n] = info]
      /\ listener' = [listener EXCEPT ![n] = heard]
  BY Zenon DEF perform_update
<1> DEFINE sent == [a \in Address |-> result[a].sent]
           stacks(m) == Stacks(listener[n].deployed[m], sent[m[1]], m[2])
           live(m) == Live(m \in listener[n].live, sent[m[1]], m[2])
<1>2. heard = [live |-> {m \in Node : live(m)}, deployed |-> [m \in Node |-> stacks(m)]]
  <2> HIDE DEF result
  <2> QED
    BY DeliverShape
<1>3. info = [a \in Address |-> info[a]]
  OBVIOUS
<1> HIDE DEF info, heard, sent, stacks, live
<1>4. nodes'[n] = info /\ listener'[n] = heard
  BY <1>0, <1>1 DEF TypeOK
<1>5. \A m \in Node : /\ info[m[1]] \in RemoteNodeInfo
                      /\ heard.deployed[m] \in SUBSET Stack
  BY <1>4, ScanFollows DEF Follows
<1>6. info \in [Address -> RemoteNodeInfo]
  <2>1. \A a \in Address : <<a, n[2]>> \in Node
    BY Instances DEF Node
  <2> QED
    BY <1>3, <1>5, <2>1
<1>7. heard \in [live : SUBSET Node, deployed : [Node -> SUBSET Stack]]
  <2>1. \A m \in Node : stacks(m) \in SUBSET Stack
    BY <1>2, <1>5
  <2> QED
    BY <1>2, <2>1
<1>8. TypeOK'
  BY <1>0, <1>1, <1>6, <1>7, AbsentStatus DEF TypeOK
<1>9. \A k \in Started : Writing(pc'[k], mine'[k], seen'[k], k[2])
  BY <1>0, <1>1 DEF Writing, TypeOK
<1> QED
  BY <1>1, <1>8, <1>9, StoredMonotone DEF WritesInv

LEMMA CasWrites ==
    ASSUME WritesInv, NEW n \in Started, write_status_cas(n)
    PROVE  WritesInv' /\ Monotone
<1>0. TypeOK /\ \A k \in Started : Writing(pc[k], mine[k], seen[k], k[2])
  BY DEF WritesInv
<1>1. /\ pc[n] = "cas" /\ seen' = [seen EXCEPT ![n] = NoStatus]
      /\ UNCHANGED <<now, stopping, deployed_stacks, nodes, listener, writes>>
      /\ \/ /\ db[n[1]] = seen[n] /\ db' = [db EXCEPT ![n[1]] = mine[n]]
            /\ pc' = [pc EXCEPT ![n] = "scan"] /\ mine' = mine
         \/ /\ db[n[1]] = seen[n] /\ db' = [db EXCEPT ![n[1]] = mine[n]]
            /\ pc' = [pc EXCEPT ![n] = "idle"]
            /\ mine' = [mine EXCEPT ![n] = NoStatus]
         \/ pc' = [pc EXCEPT ![n] = "retry"] /\ db' = db /\ mine' = mine
  BY Zenon DEF write_status_cas
<1>2. Monotone /\ db' \in [Address -> NodeStatus]
  <2>1. CASE db' = db
    BY <1>0, <2>1, StoredMonotone DEF TypeOK
  <2>2. CASE db' # db
    BY <1>1, <2>2, SwapMonotone
  <2> QED
    BY <2>1, <2>2
<1>3. TypeOK'
  <2>1. pc' \in [Started -> {"off", "idle", "cas", "retry", "scan", "down"}]
    <3>1. pc \in [Started -> {"off", "idle", "cas", "retry", "scan", "down"}]
      BY <1>0 DEF TypeOK
    <3> QED
      BY <1>1, <3>1
  <2>2. mine' \in [Started -> NodeStatus] /\ seen' \in [Started -> NodeStatus]
    <3>1. mine \in [Started -> NodeStatus] /\ seen \in [Started -> NodeStatus]
      BY <1>0 DEF TypeOK
    <3> QED
      BY <1>1, <3>1, AbsentStatus
  <2> QED
    BY <1>0, <1>1, <1>2, <2>1, <2>2 DEF TypeOK
<1>4. \A k \in Started : Writing(pc'[k], mine'[k], seen'[k], k[2])
  BY <1>0, <1>1 DEF Writing, TypeOK
<1> QED
  BY <1>2, <1>3, <1>4 DEF WritesInv

LEMMA FailWrites ==
    ASSUME WritesInv, NEW n \in Started, NEW applied \in BOOLEAN, DbFails(n, applied)
    PROVE  WritesInv' /\ Monotone
<1>0. TypeOK /\ \A k \in Started : Writing(pc[k], mine[k], seen[k], k[2])
  BY DEF WritesInv
<1>1. /\ pc' = [pc EXCEPT ![n] = "idle"] /\ mine' = [mine EXCEPT ![n] = NoStatus]
      /\ seen' = [seen EXCEPT ![n] = NoStatus]
      /\ UNCHANGED <<now, stopping, deployed_stacks, nodes, listener, writes>>
      /\ \/ /\ pc[n] = "cas" /\ db[n[1]] = seen[n]
            /\ db' = [db EXCEPT ![n[1]] = mine[n]]
         \/ db' = db
  BY DEF DbFails
<1>2. Monotone /\ db' \in [Address -> NodeStatus]
  <2>1. CASE db' = db
    BY <1>0, <2>1, StoredMonotone DEF TypeOK
  <2>2. CASE db' # db
    BY <1>1, <2>2, SwapMonotone
  <2> QED
    BY <2>1, <2>2
<1>3. TypeOK'
  BY <1>0, <1>1, <1>2, AbsentStatus DEF TypeOK
<1>4. \A k \in Started : Writing(pc'[k], mine'[k], seen'[k], k[2])
  BY <1>0, <1>1 DEF Writing, TypeOK
<1> QED
  BY <1>2, <1>3, <1>4 DEF WritesInv

LEMMA TryWrites ==
    ASSUME WritesInv, NEW n \in Started, Update(n) \/ Stop(n) \/ RetryWrite(n)
    PROVE  WritesInv' /\ Monotone
<1>0. TypeOK /\ Writing(pc[n], mine[n], seen[n], n[2])
  BY DEF WritesInv
<1>1. PICK status \in NodeStatus : status.generation = n[2] /\ TryWrite(n, status)
  <2>1. CASE Update(n)
    <3>1. my_status(n) \in NodeStatus /\ my_status(n).generation = n[2]
      BY <1>0, OwnStatus DEF my_status, TypeOK
    <3> QED
      BY <2>1, <3>1 DEF Update
  <2>2. CASE Stop(n)
    <3> DEFINE x == [generation |-> n[2], state |-> "Dead", last_update |-> now,
                     deployed_stacks |-> {}]
    <3>1. x \in NodeStatus /\ x.generation = n[2]
      BY OwnStatus
    <3>2. TryWrite(n, x)
      BY <2>2, Zenon DEF Stop
    <3> QED
      BY <3>1, <3>2
  <2>3. CASE RetryWrite(n)
    BY <1>0, <2>3 DEF RetryWrite, Writing, TypeOK
  <2> QED
    BY <2>1, <2>2, <2>3
<1>2. /\ UNCHANGED <<now, db, deployed_stacks, nodes, listener>>
      /\ stopping' = stopping \/ stopping' = [stopping EXCEPT ![n] = TRUE]
      /\ writes' = writes \/ writes' = [writes EXCEPT ![n] = writes[n] + 1]
  BY DEF Update, Stop, RetryWrite
<1>3. /\ pc' \in [Started -> {"off", "idle", "cas", "retry", "scan", "down"}]
      /\ mine' \in [Started -> NodeStatus] /\ seen' \in [Started -> NodeStatus]
      /\ \A k \in Started : Writing(pc'[k], mine'[k], seen'[k], k[2])
  BY <1>1, TryWriteKeeps
<1>4. TypeOK'
  <2>1. stopping' \in [Started -> BOOLEAN]
    BY <1>0, <1>2, Zenon DEF TypeOK
  <2>2. writes' \in [Started -> Nat]
    <3>1. writes \in [Started -> Nat] /\ writes[n] + 1 \in Nat
      BY <1>0 DEF TypeOK
    <3> QED
      BY <1>2, <3>1
  <2> QED
    BY <1>0, <1>2, <1>3, <2>1, <2>2 DEF TypeOK
<1> QED
  BY <1>2, <1>3, <1>4, StoredMonotone, Zenon DEF WritesInv

LEMMA HaltWrites ==
    ASSUME WritesInv, NEW n \in Started, Halt(n)
    PROVE  WritesInv' /\ Monotone
<1>0. TypeOK /\ \A k \in Started : Writing(pc[k], mine[k], seen[k], k[2])
  BY Zenon DEF WritesInv
<1>1. NoListener \in [live : SUBSET Node, deployed : [Node -> SUBSET Stack]]
  BY DEF NoListener
<1>2. TypeOK'
  BY <1>0, <1>1, AbsentStatus DEF TypeOK, Halt
<1>3. \A k \in Started : Writing(pc'[k], mine'[k], seen'[k], k[2])
  BY <1>0 DEF Writing, TypeOK, Halt
<1> QED
  BY <1>2, <1>3, StoredMonotone, Zenon DEF WritesInv, Halt

LEMMA WritesStep ==
    ASSUME WritesInv, [Next]_vars
    PROVE  WritesInv' /\ Monotone
<1>0. TypeOK /\ \A k \in Started : Writing(pc[k], mine[k], seen[k], k[2])
  BY DEF WritesInv
<1>1. ASSUME NEW n \in Started, NEW s \in Stack,
             StackDeployedLocally(n, s) \/ StackUndeployedLocally(n, s)
      PROVE  WritesInv' /\ Monotone
  <2>1. TypeOK'
    <3>1. deployed_stacks' \in [Started -> SUBSET Stack]
      <4>1. deployed_stacks \in [Started -> SUBSET Stack]
        BY <1>0 DEF TypeOK
      <4>2. \E x \in SUBSET Stack : deployed_stacks' = [deployed_stacks EXCEPT ![n] = x]
        BY <1>1, <4>1 DEF StackDeployedLocally, StackUndeployedLocally
      <4> QED
        BY <4>1, <4>2
    <3>2. UNCHANGED <<now, db, pc, stopping, mine, seen, nodes, listener, writes>>
      BY <1>1 DEF StackDeployedLocally, StackUndeployedLocally
    <3> QED
      BY <1>0, <3>1, <3>2 DEF TypeOK
  <2>2. UNCHANGED <<db, pc, mine, seen>>
    BY <1>1 DEF StackDeployedLocally, StackUndeployedLocally
  <2> QED
    BY <1>0, <2>1, <2>2, StoredMonotone DEF WritesInv
<1>2. CASE ClockTick
  <2>1. TypeOK'
    BY <1>0, <1>2, TimeAssumption DEF TypeOK, ClockTick, Time
  <2>2. UNCHANGED <<db, pc, mine, seen>>
    BY <1>2 DEF ClockTick
  <2> QED
    BY <1>0, <2>1, <2>2, StoredMonotone DEF WritesInv
<1>3. CASE UNCHANGED vars
  <2>1. TypeOK' /\ UNCHANGED <<db, pc, mine, seen>>
    BY <1>0, <1>3 DEF TypeOK, vars
  <2> QED
    BY <1>0, <2>1, StoredMonotone DEF WritesInv
<1> QED
  BY <1>1, <1>2, <1>3, StartWrites, TryWrites, CasWrites, ScanWrites, FailWrites,
     HaltWrites
  DEF Next

\* Type correctness of the membership of a region.
THEOREM TypeCorrect == Spec => []TypeOK
<1>1. WritesInv /\ [Next]_vars => WritesInv'
  BY WritesStep
<1>2. WritesInv => TypeOK
  BY DEF WritesInv
<1> QED
  BY WritesInit, <1>1, <1>2, PTL DEF Spec

\* However the compare-and-swap loops of any number of generations of an address
\* interleave, and whichever of their database calls fail, a stored status is
\* never replaced by one of an older generation (write_status).
THEOREM StatusNeverRegresses == Spec => GenerationNeverRegresses
<1>1. WritesInv /\ [Next]_vars => WritesInv'
  BY WritesStep
<1>2. WritesInv /\ [Next]_vars => [Monotone]_vars
  BY WritesStep
<1>3. [Monotone]_vars <=>
      [\A a \in Address : db[a].generation <= db'[a].generation]_vars
  BY DEF Monotone
<1> QED
  BY WritesInit, <1>1, <1>2, <1>3, PTL DEF Spec, GenerationNeverRegresses

----------------------------------------------------------------------------
(* What the listener was told.                                             *)

LEMMA ListenerInit == Init => ListenerInv
<1> SUFFICES ASSUME Init, NEW n \in Started, NEW m \in Node
             PROVE  /\ Agrees(m \in listener[n].live, nodes[n][m[1]], m[2])
                    /\ Backed(listener[n].deployed[m], nodes[n][m[1]], m[2],
                              db[m[1]].generation)
  BY DEF ListenerInv
<1>1. /\ nodes[n][m[1]] = NoInfo /\ m[2] # 0
      /\ m \notin listener[n].live /\ listener[n].deployed[m] = {}
  BY NodeParts DEF Init, NoListener
<1> QED
  BY <1>1 DEF NoInfo, Agrees, Backed

\* Only a node's own start, scan and end touch its table and its listener.
LEMMA WhoTellsListener ==
    ASSUME WritesInv, [Next]_vars, NEW n \in Started
    PROVE  \/ nodes'[n] = nodes[n] /\ listener'[n] = listener[n]
           \/ start(n) \/ perform_update(n) \/ Halt(n)
<1>0. /\ DOMAIN nodes = Started /\ DOMAIN listener = Started
  BY DEF WritesInv, TypeOK
<1>1. CASE UNCHANGED <<nodes, listener>>
  BY <1>1
<1>2. ASSUME NEW k \in Started, start(k) PROVE k # n => UNCHANGED <<nodes[n], listener[n]>>
  BY <1>0, <1>2, Zenon DEF start
<1>3. ASSUME NEW k \in Started, perform_update(k)
      PROVE  k # n => UNCHANGED <<nodes[n], listener[n]>>
  BY <1>0, <1>3, Zenon DEF perform_update
<1>4. ASSUME NEW k \in Started, Halt(k) PROVE k # n => UNCHANGED <<nodes[n], listener[n]>>
  BY <1>0, <1>4 DEF Halt
<1>5. \/ UNCHANGED <<nodes, listener>>
      \/ \E k \in Started : start(k) \/ perform_update(k) \/ Halt(k)
  BY Zenon DEF Next, vars, StackDeployedLocally, StackUndeployedLocally, Update, Stop,
         RetryWrite, write_status_cas, DbFails, ClockTick
<1> QED
  BY <1>1, <1>2, <1>3, <1>4, <1>5, Zenon

LEMMA ListenerStep ==
    ASSUME WritesInv, ListenerInv, [Next]_vars
    PROVE  ListenerInv'
<1> SUFFICES ASSUME NEW n \in Started, NEW m \in Node
             PROVE  /\ Agrees(m \in listener'[n].live, nodes'[n][m[1]], m[2])
                    /\ Backed(listener'[n].deployed[m], nodes'[n][m[1]], m[2],
                              db'[m[1]].generation)
  BY DEF ListenerInv
<1>0. /\ Agrees(m \in listener[n].live, nodes[n][m[1]], m[2])
      /\ Backed(listener[n].deployed[m], nodes[n][m[1]], m[2], db[m[1]].generation)
  BY DEF ListenerInv
<1>1. /\ m[1] \in Address /\ m[2] \in Nat \ {0}
      /\ db[m[1]].generation \in Nat /\ db'[m[1]].generation \in Nat
      /\ db[m[1]].generation <= db'[m[1]].generation
  <2>1. WritesInv' /\ Monotone
    BY WritesStep, Zenon
  <2>2. m[1] \in Address /\ m[2] \in Nat \ {0}
    BY NodeParts
  <2>3. db[m[1]].generation \in Nat /\ db'[m[1]].generation \in Nat
    BY <2>1, <2>2, StatusFields DEF WritesInv, TypeOK
  <2> QED
    BY <2>1, <2>2, <2>3 DEF Monotone
<1>2. CASE nodes'[n] = nodes[n] /\ listener'[n] = listener[n]
  BY <1>0, <1>1, <1>2 DEF Agrees, Backed
<1>3. CASE start(n)
  <2>1. /\ DOMAIN nodes = Started /\ DOMAIN listener = Started
    BY DEF WritesInv, TypeOK
  <2> DEFINE info == nodes'[n]
  <2>2. \/ m \in listener'[n].live /\ ~info[m[1]].dead /\ info[m[1]].generation = m[2]
           /\ listener'[n].deployed[m] = info[m[1]].deployed_stacks
        \/ m \notin listener'[n].live /\ listener'[n].deployed[m] = {}
           /\ ~(~info[m[1]].dead /\ info[m[1]].generation = m[2])
    BY <1>3, <2>1, Zenon DEF start
  <2> QED
    BY <2>2 DEF Agrees, Backed
<1>4. CASE perform_update(n)
  <2>1. PICK result :
            /\ Follows(result, m \in listener[n].live, listener[n].deployed[m],
                       nodes[n][m[1]], m[2], db[m[1]].generation)
            /\ nodes'[n][m[1]] = result.info
            /\ m \in listener'[n].live
                   <=> Live(m \in listener[n].live, result.sent, m[2])
            /\ listener'[n].deployed[m]
                   = Stacks(listener[n].deployed[m], result.sent, m[2])
    BY <1>4, ScanFollows, Zenon
  <2>2. db' = db
    BY <1>4, Zenon DEF perform_update
  <2> QED
    BY <1>0, <2>1, <2>2, Zenon DEF Follows, Agrees
<1>5. CASE Halt(n)
  <2>1. /\ DOMAIN nodes = Started /\ DOMAIN listener = Started
    BY DEF WritesInv, TypeOK
  <2>2. /\ nodes'[n][m[1]] = NoInfo
        /\ m \notin listener'[n].live /\ listener'[n].deployed[m] = {}
    BY <1>1, <1>5, <2>1, Zenon DEF Halt, NoListener
  <2> QED
    BY <1>1, <2>2 DEF NoInfo, Agrees, Backed
<1> QED
  BY <1>2, <1>3, <1>4, <1>5, WhoTellsListener, Zenon

\* However deaths, returns, restarts, failed database calls and missed updates
\* follow each other, the nodes a listener takes for live from NodeDiscovered and
\* NodeDied alone are the live ones of the node's own table (perform_update).
THEOREM ListenerAlwaysAgrees == Spec => []ListenerAgreesOnLiveness
<1>1. WritesInv /\ [Next]_vars => WritesInv'
  BY WritesStep
<1>2. WritesInv /\ ListenerInv /\ [Next]_vars => ListenerInv'
  BY ListenerStep
<1>3. WritesInv /\ ListenerInv => ListenerAgreesOnLiveness
  <2> SUFFICES ASSUME WritesInv, ListenerInv, NEW n \in Started
               PROVE  listener[n].live = {m \in Node :
                          nodes[n][m[1]].generation = m[2] /\ ~nodes[n][m[1]].dead}
    BY DEF ListenerAgreesOnLiveness
  <2>1. listener[n].live \subseteq Node
    BY DEF WritesInv, TypeOK
  <2> QED
    BY <2>1 DEF ListenerInv, Agrees
<1> QED
  BY WritesInit, ListenerInit, <1>1, <1>2, <1>3, PTL DEF Spec

\* A stack a listener takes to run on a live node is in the last status read of
\* that node: NodeStacksChanged loses no removal, not even one that happened
\* while the node was taken for dead (compare_deployed_stack_list).
THEOREM NoPhantomEver == Spec => []NoPhantomDeployment
<1>1. WritesInv /\ [Next]_vars => WritesInv'
  BY WritesStep
<1>2. WritesInv /\ ListenerInv /\ [Next]_vars => ListenerInv'
  BY ListenerStep
<1>3. WritesInv /\ ListenerInv => NoPhantomDeployment
  <2> SUFFICES ASSUME WritesInv, ListenerInv, NEW n \in Started, NEW m \in listener[n].live
               PROVE  listener[n].deployed[m] \subseteq nodes[n][m[1]].deployed_stacks
    BY DEF NoPhantomDeployment
  <2>1. m \in Node
    BY DEF WritesInv, TypeOK
  <2> QED
    BY <2>1 DEF ListenerInv, Agrees, Backed
<1> QED
  BY WritesInit, ListenerInit, <1>1, <1>2, <1>3, PTL DEF Spec
=============================================================================
