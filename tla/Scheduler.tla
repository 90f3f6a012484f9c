----------------------------- MODULE Scheduler -----------------------------
(***************************************************************************)
(* The stack scheduler of one node (executor/src/stack/scheduler.rs) with  *)
(* the runtime and the gateway manager it drives.                          *)
(*                                                                         *)
(* The scheduler is a mailbox processor: `step` runs one message to its    *)
(* end before it takes the next, so a message is one action.  The messages *)
(* come from membership (node events), from the blockchain monitor (stack  *)
(* events) and from a timer (Tick), in any order.                          *)
(***************************************************************************)
EXTENDS StackDeployment

CONSTANT Me             \* my_hash

ASSUME MeAssumption == Me \in Node

Remote == Node \ {Me}

VARIABLES
    known_nodes,              \* live remote nodes membership told us about
    stacks,                   \* the StackDeployment of every stack
    reevaluate_on_next_tick,
    ready_to_schedule,
    functions,     \* revision of the stack's functions in the runtime, or 0
    gateways,      \* revision of the stack's gateways in the manager, or 0
    announced,     \* stacks whose StackDeployed has no later StackUndeployed
    failed,        \* stacks whose last deploy_stack sent FailedToDeployStack
    incident       \* history: stacks for which a deployment or a removal failed

vars == <<known_nodes, stacks, reevaluate_on_next_tick, ready_to_schedule,
          functions, gateways, announced, failed, incident>>

\* What deploy and undeploy_stack write: the runtime and the notifications.
effects == <<functions, announced, failed, incident>>

----------------------------------------------------------------------------
\* start: nothing is deployed yet and no definition is known (the executor
\* passes no available_stacks), only the heartbeats of the nodes found in the
\* database.
Init ==
    /\ known_nodes \in SUBSET Remote
    /\ \E deployed_to \in [Stack -> SUBSET known_nodes] :
           stacks = [s \in Stack |-> IF deployed_to[s] = {}
                                     THEN Absent
                                     ELSE Unknown(deployed_to[s])]
    /\ reevaluate_on_next_tick = {}
    /\ ready_to_schedule = FALSE
    /\ functions = [s \in Stack |-> 0]
    /\ gateways = [s \in Stack |-> 0]
    /\ announced = {}
    /\ failed = {}
    /\ incident = {}

ReadyToScheduleStacks ==
    /\ ready_to_schedule' = TRUE
    /\ UNCHANGED <<known_nodes, stacks, reevaluate_on_next_tick, gateways,
                   effects>>

NodeDiscovered(n) ==
    /\ known_nodes' = known_nodes \cup {n}
    /\ UNCHANGED <<stacks, reevaluate_on_next_tick, ready_to_schedule,
                   gateways, effects>>

NodeDied(n) ==
    /\ known_nodes' = known_nodes \ {n}
    /\ stacks' = [s \in Stack |-> AfterNodeDied(stacks[s], n)]
    /\ reevaluate_on_next_tick' =
           reevaluate_on_next_tick
               \cup {s \in Stack : NodeDeathReevaluates(stacks[s], n)}
    /\ UNCHANGED <<ready_to_schedule, gateways, effects>>

NodeDeployedStacks(n, ids) ==
    /\ stacks' = [s \in Stack |-> IF s \in ids
                                  THEN AfterNodeDeployed(stacks[s], n)
                                  ELSE stacks[s]]
    /\ reevaluate_on_next_tick' = reevaluate_on_next_tick \cup ids
    /\ UNCHANGED <<known_nodes, ready_to_schedule, gateways, effects>>

NodeUndeployedStacks(n, ids) ==
    /\ stacks' = [s \in Stack |-> IF s \in ids
                                  THEN AfterNodeUndeployed(stacks[s], n)
                                  ELSE stacks[s]]
    /\ reevaluate_on_next_tick' = reevaluate_on_next_tick \cup ids
    /\ UNCHANGED <<known_nodes, ready_to_schedule, gateways, effects>>

\* The gateways are replaced whatever the revision; the definition is not.
StacksAvailable(ids, revision) ==
    /\ stacks' = [s \in Stack |-> IF s \in ids
                                  THEN AfterStackAvailable(stacks[s], revision[s])
                                  ELSE stacks[s]]
    /\ gateways' = [s \in Stack |-> IF s \in ids THEN revision[s] ELSE gateways[s]]
    /\ reevaluate_on_next_tick' = reevaluate_on_next_tick \cup ids
    /\ UNCHANGED <<known_nodes, ready_to_schedule, effects>>

\* A permanent removal deletes the stack's data first and leaves the runtime
\* alone when that fails (stuck).  The entry is removed in every case.
StacksRemoved(ids, permanent, failing) ==
    LET undeployed == {s \in ids : RunsHere(stacks[s])}
        stuck == undeployed \cap permanent \cap failing
    IN  /\ gateways' = [s \in Stack |-> IF s \in ids THEN 0 ELSE gateways[s]]
        /\ stacks' = [s \in Stack |-> IF s \in ids THEN Absent ELSE stacks[s]]
        /\ functions' = [s \in Stack |-> IF s \in undeployed \ stuck
                                         THEN 0
                                         ELSE functions[s]]
        /\ announced' = announced \ (undeployed \ stuck)
        /\ incident' = incident \cup stuck
        /\ UNCHANGED <<known_nodes, reevaluate_on_next_tick, ready_to_schedule,
                       failed>>

\* deploy fails before runtime.add_functions ("early"), after it, while
\* creating tables or storages ("late"), or not at all.
DeployOutcome == {"ok", "early", "late"}

Tick(outcome) ==
    LET deploying == {s \in reevaluate_on_next_tick :
                          TickDeploys(Me, s, stacks[s], known_nodes)}
        undeploying == {s \in reevaluate_on_next_tick :
                          TickUndeploys(Me, s, stacks[s])}
        deployed == {s \in deploying : outcome[s] = "ok"}
    IN  /\ ready_to_schedule
        /\ stacks' = [s \in Stack |->
               IF s \in reevaluate_on_next_tick
               THEN AfterTick(Me, s, stacks[s], known_nodes, s \in deployed)
               ELSE stacks[s]]
        /\ functions' = [s \in Stack |->
               CASE s \in deploying /\ outcome[s] # "early" -> stacks[s].rev
                 [] s \in undeploying -> 0
                 [] OTHER -> functions[s]]
        /\ announced' = (announced \cup deployed) \ undeploying
        /\ failed' = (failed \ deployed) \cup (deploying \ deployed)
        /\ incident' = incident \cup (deploying \ deployed)
        /\ reevaluate_on_next_tick' = {}
        /\ UNCHANGED <<known_nodes, ready_to_schedule, gateways>>

NodeEvent ==
    \E n \in Remote :
        \/ NodeDiscovered(n)
        \/ NodeDied(n)
        \/ \E ids \in SUBSET Stack : \/ NodeDeployedStacks(n, ids)
                                     \/ NodeUndeployedStacks(n, ids)

StackEvent ==
    \E ids \in SUBSET Stack :
        \/ \E revision \in [Stack -> Revision] : StacksAvailable(ids, revision)
        \/ \E permanent, failing \in SUBSET Stack :
               StacksRemoved(ids, permanent, failing)

AnyTick == \E outcome \in [Stack -> DeployOutcome] : Tick(outcome)

Next == ReadyToScheduleStacks \/ NodeEvent \/ StackEvent \/ AnyTick

\* generate_tick posts a Tick at every interval, and the executor calls
\* ready_to_schedule_stacks once after start.
Fairness == WF_vars(ReadyToScheduleStacks) /\ WF_vars(AnyTick)

Spec == Init /\ [][Next]_vars /\ Fairness

----------------------------------------------------------------------------
TypeOK ==
    /\ known_nodes \in SUBSET Remote
    /\ stacks \in [Stack -> Deployment]
    /\ reevaluate_on_next_tick \in SUBSET Stack
    /\ ready_to_schedule \in BOOLEAN
    /\ functions \in [Stack -> {0} \cup Revision]
    /\ gateways \in [Stack -> {0} \cup Revision]
    /\ announced \in SUBSET Stack
    /\ failed \in SUBSET Stack
    /\ incident \in SUBSET Stack

\* A stack the scheduler reports as deployed here is in the runtime and is
\* advertised by membership, whatever deployments failed in between: exactly
\* the recorded revision when it is up to date, and some revision up to the
\* recorded one while an update is pending or has failed half way.
LocalDeploymentIsServed ==
    \A s \in Stack : RunsHere(stacks[s]) =>
        /\ s \in announced
        /\ functions[s] \in 1 .. stacks[s].rev
        /\ stacks[s].kind = "DeployedToSelf" => functions[s] = stacks[s].rev

\* Unless a deployment or a removal of the stack has failed, a stack that is
\* not deployed here left nothing behind: its functions are out of the runtime
\* (tick and StacksRemoved both undeploy) and it is no longer advertised.
NothingLeftBehind ==
    \A s \in Stack : ~RunsHere(stacks[s]) /\ s \notin incident =>
        functions[s] = 0 /\ s \notin announced

\* A deployment candidate is a live node closer to the stack than this one
\* ("A deployment candidate is a node with less hash distance to the stack"):
\* when the candidate dies the stack is given up to the next tick.
CandidateIsLiveAndCloser ==
    \A s \in Stack : stacks[s].kind = "HasDeploymentCandidate" =>
        \E c \in known_nodes :
            stacks[s].nodes = {c} /\ Distance[s][c] < Distance[s][Me]

\* A request enters through a gateway.  Whenever a stack has gateways, routing
\* does not bail out with "no deployment targets": the definition is known,
\* and if it is deployed to others the list of others is not empty.
RoutableStackHasTarget ==
    \A s \in Stack : gateways[s] # 0 =>
        /\ Defined(stacks[s])
        /\ DeploymentStatus(stacks[s]).status = "DeployedToOthers" =>
               DeploymentStatus(stacks[s]).nodes # {}

\* No stack is forgotten: one that is waiting to be deployed or updated, or is
\* deployed here and on a closer node, is on the list of the next tick, unless
\* its last deployment failed (tick clears the list and does not retry).
OpenWorkIsScheduled ==
    \A s \in Stack \ reevaluate_on_next_tick :
        /\ stacks[s].kind \in {"Undeployed", "DeployedToSelfWithPendingUpdate"} =>
               s \in failed
        /\ stacks[s].kind = "DeployedToSelf" =>
               \A n \in stacks[s].nodes : Distance[s][Me] < Distance[s][n]

\* A definition the scheduler holds is never replaced by an older revision.
RevisionNeverRegresses ==
    [][\A s \in Stack : Defined(stacks[s]) /\ Defined(stacks'[s]) =>
           stacks[s].rev <= stacks'[s].rev]_vars

\* The conflict of a stack that runs here and on a closer node does not last:
\* the next tick drops it, unless the closer node goes first.
ConflictIsResolved ==
    \A s \in Stack :
        (\E n \in stacks[s].nodes : RunsHere(stacks[s]) /\ Distance[s][n] < Distance[s][Me])
            ~> ~(\E n \in stacks[s].nodes : RunsHere(stacks[s]) /\ Distance[s][n] < Distance[s][Me])

----------------------------------------------------------------------------
(***************************************************************************)
(* Claims of comments and messages that the code does not keep.            *)
(***************************************************************************)

\* DeployedToOthers is documented as "deployed to other nodes, and which we
\* have no interest in deploying locally".  When the closest of several nodes
\* dies the rest are farther than this node, but nothing is re-evaluated.
OthersMeansNoInterest ==
    \A s \in Stack \ (reevaluate_on_next_tick \cup failed) :
        stacks[s].kind = "DeployedToOthers" =>
            \E n \in stacks[s].nodes : Distance[s][n] < Distance[s][Me]

\* StacksRemoved announces "is deployed locally, will undeploy since it was
\* removed".  If deleting the user's data fails, the functions stay in the
\* runtime and the node keeps advertising the stack, with no entry left that
\* could trigger another attempt.
RemovedStackIsUndeployed ==
    \A s \in Stack : s \in announced => RunsHere(stacks[s])
=============================================================================
