------------------------------ MODULE Cluster ------------------------------
(***************************************************************************)
(* The executors of a region deciding together where every stack runs:     *)
(* membership and scheduler of every node, joined by the glue loop of      *)
(* executor/src/lib.rs.                                                    *)
(*                                                                         *)
(* On each node membership, the scheduler and the glue loop are tasks of   *)
(* their own.  Membership and the scheduler report through unbounded       *)
(* channels; the glue loop takes one notification at a time, from any      *)
(* channel, and passes it on to the other's mailbox.  Module Membership    *)
(* has the database calls of an update one by one; here an update is one   *)
(* step, and the age of a status is reduced to whether it is fresh.        *)
(* Module Scheduler has failing deployments and removals.                  *)
(***************************************************************************)
EXTENDS NodeView, Sequences, SequencesExt

CONSTANTS Started,      \* the node instances the model starts
          Distance,     \* as in StackDeployment
          MaxCrashes,   \* bound: nodes that crash
          MaxMissed     \* bound: how often a running node's status gets too old

INSTANCE StackDeployment WITH MaxRevision <- 1

VARIABLES
    pc,               \* "off", "up" or "down"
    db,               \* the status stored at every address
    nodes,            \* membership: State.nodes by address
    deployed_stacks,  \* membership: State.deployed_stacks
    to_scheduler,     \* membership's notifications, waiting for the glue loop
    to_membership,    \* the scheduler's notifications, waiting for the glue loop
    known_nodes,      \* scheduler
    stacks,           \* scheduler
    reevaluate_on_next_tick,   \* scheduler
    crashes, missed   \* counted against the bounds

membership == <<db, nodes, deployed_stacks>>
scheduler == <<known_nodes, stacks, reevaluate_on_next_tick>>
faults == <<crashes, missed>>
vars == <<pc, membership, to_scheduler, to_membership, scheduler, faults>>

NoStatus == [generation |-> 0, fresh |-> FALSE, deployed_stacks |-> {}]

Up(n) == pc[n] = "up"

----------------------------------------------------------------------------
(***************************************************************************)
(* The channel contents for what an update has to say about address a, in  *)
(* the order of perform_update: a replaced generation dies before the new  *)
(* one is discovered; otherwise a death comes last.                        *)
(***************************************************************************)
NodeDiscovered(n) == [type |-> "NodeDiscovered", node |-> n]
NodeDied(n) == [type |-> "NodeDied", node |-> n]
NodeStacksChanged(n, added, removed) ==
    [type |-> "NodeStacksChanged", node |-> n, added |-> added, removed |-> removed]

Notifications(a, sent) ==
    LET each(generations, Note(_)) == SetToSeq({Note(<<a, g>>) : g \in generations})
        changed(n) == NodeStacksChanged(n, sent.added, sent.removed)
        died == each(sent.died, NodeDied)
        discovered == each(sent.discovered, NodeDiscovered)
    IN  IF sent.died # {} /\ sent.discovered # {}
        THEN died \o discovered
        ELSE discovered \o each(sent.changed, changed) \o died

----------------------------------------------------------------------------
Init ==
    /\ pc = [n \in Started |-> "off"]
    /\ db = [a \in Address |-> NoStatus]
    /\ nodes = [n \in Started |-> [a \in Address |-> NoInfo]]
    /\ deployed_stacks = [n \in Started |-> {}]
    /\ to_scheduler = [n \in Started |-> <<>>]
    /\ to_membership = [n \in Started |-> <<>>]
    /\ known_nodes = [n \in Started |-> {}]
    /\ stacks = [n \in Started |-> [s \in Stack |-> Absent]]
    /\ reevaluate_on_next_tick = [n \in Started |-> {}]
    /\ crashes = 0
    /\ missed = 0

\* run: membership reads the database, the scheduler starts from the live
\* nodes found there and is made ready at once.
run(n) ==
    LET found == {a \in Address \ {n[1]} : db[a].generation # 0}
        live == {<<a, db[a].generation>> : a \in {b \in found : db[b].fresh}}
        runs(s) == {m \in live : s \in db[m[1]].deployed_stacks}
    IN  /\ pc[n] = "off"
        /\ \A m \in Started : m[1] = n[1] /\ m[2] < n[2] => pc[m] = "down"
        /\ pc' = [pc EXCEPT ![n] = "up"]
        /\ nodes' = [nodes EXCEPT ![n] = [a \in Address |->
               IF a \in found
               THEN [RemoteNode(db[a]) EXCEPT !.dead = ~db[a].fresh]
               ELSE NoInfo]]
        /\ known_nodes' = [known_nodes EXCEPT ![n] = live]
        /\ stacks' = [stacks EXCEPT ![n] = [s \in Stack |->
               IF runs(s) = {} THEN Absent ELSE Unknown(runs(s))]]
        /\ UNCHANGED <<db, deployed_stacks, to_scheduler, to_membership,
                       reevaluate_on_next_tick, faults>>

\* The statuses perform_update retains; older generations of this address are
\* overwritten by the status just written.
Foreign(n) == Address \ {n[1]}

\* Membership's Update: write my status, read the others, report differences.
\* The addresses come out of a hash map, in any order.
perform_update(n) ==
    LET written == [db EXCEPT ![n[1]] = [generation |-> n[2], fresh |-> TRUE,
                                         deployed_stacks |-> deployed_stacks[n]]]
        others == Foreign(n)
        result == [a \in others |-> Observe(nodes[n][a], written[a], ~written[a].fresh)]
    IN  /\ Up(n)
        /\ db' = written
        /\ nodes' = [nodes EXCEPT ![n] = [a \in Address |->
               IF a \in others THEN result[a].info ELSE @[a]]]
        /\ \E order \in SetToSeqs({a \in others : result[a].sent # Silence}) :
               to_scheduler' = [to_scheduler EXCEPT ![n] = @ \o FlattenSeq(
                   [i \in DOMAIN order |->
                       Notifications(order[i], result[order[i]].sent)])]
        /\ UNCHANGED <<pc, deployed_stacks, to_membership, scheduler, faults>>

\* The glue loop passes membership's next notification to the scheduler.  The
\* stacks of a NodeStacksChanged are two messages about different stacks.
process_membership_notification(n) ==
    /\ Up(n) /\ to_scheduler[n] # <<>>
    /\ LET note == Head(to_scheduler[n])
           m == note.node
           dying == {s \in Stack : NodeDeathReevaluates(stacks[n][s], m)}
       IN  CASE note.type = "NodeDiscovered" ->
                  /\ known_nodes' = [known_nodes EXCEPT ![n] = @ \cup {m}]
                  /\ UNCHANGED <<stacks, reevaluate_on_next_tick>>
             [] note.type = "NodeDied" ->
                  /\ known_nodes' = [known_nodes EXCEPT ![n] = @ \ {m}]
                  /\ stacks' = [stacks EXCEPT ![n] = [s \in Stack |->
                         AfterNodeDied(@[s], m)]]
                  /\ reevaluate_on_next_tick' =
                         [reevaluate_on_next_tick EXCEPT ![n] = @ \cup dying]
             [] OTHER ->
                  /\ stacks' = [stacks EXCEPT ![n] = [s \in Stack |->
                         CASE s \in note.added -> AfterNodeDeployed(@[s], m)
                           [] s \in note.removed -> AfterNodeUndeployed(@[s], m)
                           [] OTHER -> @[s]]]
                  /\ reevaluate_on_next_tick' =
                         [reevaluate_on_next_tick EXCEPT ![n] =
                              @ \cup note.added \cup note.removed]
                  /\ UNCHANGED known_nodes
    /\ to_scheduler' = [to_scheduler EXCEPT ![n] = Tail(@)]
    /\ UNCHANGED <<pc, membership, to_membership, faults>>

\* A slip: an undeployment is taken for a deployment.
UndeploymentIgnored(ids, note) == ids \cup {note.stack}

\* StackDeployedLocally and StackUndeployedLocally.
Advertise(ids, note) ==
    IF note.type = "StackDeployed" THEN ids \cup {note.stack} ELSE ids \ {note.stack}

\* The glue loop passes the scheduler's next notification to membership.
process_scheduler_notification(n) ==
    /\ Up(n) /\ to_membership[n] # <<>>
    /\ deployed_stacks' = [deployed_stacks EXCEPT ![n] =
           Advertise(@, Head(to_membership[n]))]
    /\ to_membership' = [to_membership EXCEPT ![n] = Tail(@)]
    /\ UNCHANGED <<pc, db, nodes, to_scheduler, scheduler, faults>>

\* A slip: the stack is not put on the list of the next tick.
AvailableStackNotListed(n, s) ==
    /\ Up(n) /\ ~Defined(stacks[n][s])
    /\ stacks' = [stacks EXCEPT ![n][s] = AfterStackAvailable(@, 1)]
    /\ UNCHANGED <<pc, membership, to_scheduler, to_membership, known_nodes,
                   reevaluate_on_next_tick, faults>>

\* The blockchain monitor of n finds the stack and the glue loop tells the
\* scheduler.
process_blockchain_monitor_notification(n, s) ==
    /\ Up(n) /\ ~Defined(stacks[n][s])
    /\ stacks' = [stacks EXCEPT ![n][s] = AfterStackAvailable(@, 1)]
    /\ reevaluate_on_next_tick' = [reevaluate_on_next_tick EXCEPT ![n] = @ \cup {s}]
    /\ UNCHANGED <<pc, membership, to_scheduler, to_membership, known_nodes, faults>>

tick(n) ==
    LET listed == reevaluate_on_next_tick[n]
        deploying == {s \in listed : TickDeploys(n, s, stacks[n][s], known_nodes[n])}
        undeploying == {s \in listed : TickUndeploys(n, s, stacks[n][s])}
    IN  /\ Up(n)
        /\ stacks' = [stacks EXCEPT ![n] = [s \in Stack |->
               IF s \in listed THEN AfterTick(n, s, @[s], known_nodes[n], TRUE)
                               ELSE @[s]]]
        /\ \E order \in SetToSeqs({[type |-> "StackDeployed", stack |-> s] : s \in deploying}
                       \cup {[type |-> "StackUndeployed", stack |-> s] : s \in undeploying}) :
               to_membership' = [to_membership EXCEPT ![n] = @ \o order]
        /\ reevaluate_on_next_tick' = [reevaluate_on_next_tick EXCEPT ![n] = {}]
        /\ UNCHANGED <<pc, membership, to_scheduler, known_nodes, faults>>

\* A crash loses everything but the status in the database.
Crash(n) ==
    /\ Up(n) /\ crashes < MaxCrashes
    /\ pc' = [pc EXCEPT ![n] = "down"]
    /\ crashes' = crashes + 1
    /\ nodes' = [nodes EXCEPT ![n] = [a \in Address |-> NoInfo]]
    /\ deployed_stacks' = [deployed_stacks EXCEPT ![n] = {}]
    /\ to_scheduler' = [to_scheduler EXCEPT ![n] = <<>>]
    /\ to_membership' = [to_membership EXCEPT ![n] = <<>>]
    /\ known_nodes' = [known_nodes EXCEPT ![n] = {}]
    /\ stacks' = [stacks EXCEPT ![n] = [s \in Stack |-> Absent]]
    /\ reevaluate_on_next_tick' = [reevaluate_on_next_tick EXCEPT ![n] = {}]
    /\ UNCHANGED <<db, missed>>

\* assume_dead_after passes since the last update of a node that is down, or
\* of a running one that was held up.
CrashedStatusExpires(a) ==
    /\ db[a].fresh /\ ~(\E n \in Started : Up(n) /\ n = <<a, db[a].generation>>)
    /\ db' = [db EXCEPT ![a].fresh = FALSE]
    /\ UNCHANGED <<pc, nodes, deployed_stacks, to_scheduler, to_membership,
                   scheduler, faults>>

RunningStatusExpires(a) ==
    /\ db[a].fresh /\ Up(<<a, db[a].generation>>)
    /\ missed < MaxMissed
    /\ missed' = missed + 1
    /\ db' = [db EXCEPT ![a].fresh = FALSE]
    /\ UNCHANGED <<pc, nodes, deployed_stacks, to_scheduler, to_membership,
                   scheduler, crashes>>

\* What a running node does by itself.
NodeStep(n) ==
    \/ perform_update(n)
    \/ process_membership_notification(n)
    \/ process_scheduler_notification(n)
    \/ \E s \in Stack : process_blockchain_monitor_notification(n, s)
    \/ tick(n)

Next ==
    \/ \E n \in Started : run(n) \/ NodeStep(n) \/ Crash(n)
    \/ \E a \in Address : CrashedStatusExpires(a) \/ RunningStatusExpires(a)

\* The timers and the glue loop never stop on a running node, every node is
\* started, and assume_dead_after passes for a node that is down.
Fairness ==
    /\ \A n \in Started :
           /\ WF_vars(run(n))
           /\ WF_vars(perform_update(n))
           /\ WF_vars(process_membership_notification(n))
           /\ WF_vars(process_scheduler_notification(n))
           /\ \A s \in Stack : WF_vars(process_blockchain_monitor_notification(n, s))
           /\ WF_vars(tick(n))
    /\ \A a \in Address : WF_vars(CrashedStatusExpires(a))

Spec == Init /\ [][Next]_vars /\ Fairness

----------------------------------------------------------------------------
TypeOK ==
    /\ pc \in [Started -> {"off", "up", "down"}]
    /\ db \in [Address -> [generation : {0} \cup Generation, fresh : BOOLEAN,
                           deployed_stacks : SUBSET Stack]]
    /\ nodes \in [Started -> [Address -> RemoteNodeInfo]]
    /\ deployed_stacks \in [Started -> SUBSET Stack]
    /\ \A n \in Started : \A i \in DOMAIN to_scheduler[n] :
           to_scheduler[n][i].node \in Started \ {n}
    /\ \A n \in Started : \A i \in DOMAIN to_membership[n] :
           to_membership[n][i].stack \in Stack
    /\ known_nodes \in [Started -> SUBSET Started]
    /\ stacks \in [Started -> [Stack -> Deployment]]
    /\ reevaluate_on_next_tick \in [Started -> SUBSET Stack]

\* The scheduler learns of every birth and death in the end: once the
\* notifications in the channel are delivered, the nodes it knows are exactly
\* those membership holds as alive, at every moment of every interleaving.
SchedulerCatchesUp ==
    LET heard(known, note) ==
            CASE note.type = "NodeDiscovered" -> known \cup {note.node}
              [] note.type = "NodeDied" -> known \ {note.node}
              [] OTHER -> known
    IN  \A n \in Started : FoldLeft(heard, known_nodes[n], to_scheduler[n]) =
            {m \in Node : /\ nodes[n][m[1]].generation = m[2]
                          /\ ~nodes[n][m[1]].dead}

\* A node comes to advertise exactly what it runs: once the notifications in
\* the channel are delivered, membership's deployed stacks are those the
\* scheduler has deployed here.
AdvertisementCatchesUp ==
    LET told(ids, note) ==
            IF note.type = "StackDeployed" THEN ids \cup {note.stack}
                                           ELSE ids \ {note.stack}
    IN  \A n \in Started : FoldLeft(told, deployed_stacks[n], to_membership[n]) =
            {s \in Stack : RunsHere(stacks[n][s])}

\* Every stack runs somewhere in the end, and from then on somewhere at every
\* moment, although nodes crash, join late, and hand stacks over to closer
\* nodes: no hand-over leaves the stack to nobody.
StackComesToRun ==
    \A s \in Stack : <>[](\E n \in Started : Up(n) /\ RunsHere(stacks[n][s]))

----------------------------------------------------------------------------
(***************************************************************************)
(* Claims of comments that the code does not keep.                         *)
(***************************************************************************)

\* DeployedToSelf says of a stack deployed here and elsewhere, "we'll need to
\* resolve the conflict by dropping the stack if the other node is closer, or
\* waiting for the other node to drop it".  A node that is discovered with the
\* stack already deployed, or that comes back, is never reported as running
\* it, so two nodes run the stack for good.
ConflictIsSettled ==
    \A s \in Stack : \A m, n \in Started :
        LET conflict == /\ m # n /\ Up(m) /\ Up(n)
                        /\ RunsHere(stacks[m][s]) /\ RunsHere(stacks[n][s])
        IN  conflict ~> ~conflict

\* DeployedToOthers is "a stack that is deployed to other nodes".  A change
\* read from a node already marked dead makes it a host again, with no NodeDied
\* to follow, and a stack left to that node never runs again.
OthersComeToBeUp ==
    \A s \in Stack : \A n \in Started :
        LET abandoned == /\ Up(n) /\ stacks[n][s].kind = "DeployedToOthers"
                         /\ \A m \in stacks[n][s].nodes : ~Up(m)
        IN  abandoned ~> ~abandoned
=============================================================================
