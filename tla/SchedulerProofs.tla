-------------------------- MODULE SchedulerProofs --------------------------
(***************************************************************************)
(* The safety properties of Scheduler, for any set of nodes and stacks.    *)
(***************************************************************************)
EXTENDS Scheduler, TLAPS, WellFoundedInduction

\* A nonempty set of nodes has one with the least distance to the stack, and
\* get_closest_node returns it.
LEMMA ClosestNode ==
    ASSUME NEW s \in Stack, NEW me \in Node, NEW others \in SUBSET Node
    PROVE  /\ get_closest_node(s, me, others) \in others \cup {me}
           /\ \A m \in others \cup {me} :
                  Distance[s][get_closest_node(s, me, others)] <= Distance[s][m]
<1> DEFINE T == {Distance[s][n] : n \in others \cup {me}}
           R == OpToRel(<, Nat)
<1>1. T \subseteq Nat /\ T # {}
  BY DistanceAssumption
<1>2. PICK x \in T : \A y \in T : ~(<<y, x>> \in R)
  <2> HIDE DEF R, T
  <2>1. IsWellFoundedOn(R, Nat)
    BY NatLessThanWellFounded DEF R, OpToRel
  <2> QED BY <1>1, <2>1, WFMin
<1>3. \A y \in T : x <= y
  <2> SUFFICES ASSUME NEW y \in T PROVE x <= y
    OBVIOUS
  <2>1. x \in Nat /\ y \in Nat
    BY <1>1
  <2>2. ~(y < x)
    BY <1>2, <2>1 DEF OpToRel
  <2> QED BY <2>1, <2>2
<1>4. PICK n \in others \cup {me} : x = Distance[s][n]
  BY <1>2
<1>5. \A m \in others \cup {me} : Distance[s][n] <= Distance[s][m]
  BY <1>3, <1>4
<1> QED BY <1>5 DEF get_closest_node

----------------------------------------------------------------------------
(***************************************************************************)
(* The inductive invariant: the properties themselves, and what each       *)
(* variant of an entry holds.                                              *)
(***************************************************************************)

WellFormed(d) ==
    /\ d \in Deployment
    /\ d.nodes \subseteq Remote
    /\ Defined(d) <=> d.rev # 0
    /\ d.kind \in {"Absent", "Undeployed"} => d.nodes = {}
    /\ d.kind = "DeployedToOthers" => d.nodes # {}

EntriesWellFormed == \A s \in Stack : WellFormed(stacks[s])

GatewaysOfDefinedStacks ==
    \A s \in Stack : gateways[s] # 0 <=> Defined(stacks[s])

IInv ==
    /\ TypeOK
    /\ EntriesWellFormed
    /\ GatewaysOfDefinedStacks
    /\ LocalDeploymentIsServed
    /\ NothingLeftBehind
    /\ CandidateIsLiveAndCloser
    /\ OpenWorkIsScheduled

LEMMA RoutableFromIInv == IInv => RoutableStackHasTarget
BY DEF IInv, RoutableStackHasTarget, GatewaysOfDefinedStacks, EntriesWellFormed,
       WellFormed, DeploymentStatus, Defined, TypeOK, Deployment, Kind

LEMMA InitIInv == Init => IInv
<1> SUFFICES ASSUME Init PROVE IInv
  OBVIOUS
<1> USE DEF Init
<1>1. \A s \in Stack : /\ stacks[s] \in Deployment
                       /\ stacks[s].kind \in {"Absent", "Unknown"}
                       /\ stacks[s].rev = 0
                       /\ stacks[s].nodes \subseteq Remote
                       /\ stacks[s].kind = "Absent" => stacks[s].nodes = {}
  BY DEF Absent, Unknown, Deployment, Kind, Remote
<1>2. TypeOK
  BY <1>1 DEF TypeOK
<1>3. EntriesWellFormed
  BY <1>1 DEF EntriesWellFormed, WellFormed, Defined
<1> QED
  BY <1>1, <1>2, <1>3 DEF IInv, GatewaysOfDefinedStacks, LocalDeploymentIsServed,
     NothingLeftBehind, CandidateIsLiveAndCloser, OpenWorkIsScheduled, Defined,
     RunsHere

----------------------------------------------------------------------------
(***************************************************************************)
(* What each operator of StackDeployment does to a well-formed entry.      *)
(***************************************************************************)

LEMMA NodeDiedEntry ==
    ASSUME NEW d, WellFormed(d), NEW n \in Remote
    PROVE  LET e == AfterNodeDied(d, n)
           IN  /\ WellFormed(e)
               /\ e.rev = d.rev
               /\ e.nodes \subseteq d.nodes
               /\ e.kind \in {d.kind, "Undeployed"}
               /\ e.kind # d.kind => ~RunsHere(d) /\ NodeDeathReevaluates(d, n)
               /\ e.kind = "HasDeploymentCandidate" => e = d /\ n \notin d.nodes
BY DEF AfterNodeDied, NodeDeathReevaluates, WellFormed, Undeployed, Deployment,
       Kind, Defined, RunsHere, Revision, Remote

LEMMA NodeDeployedEntry ==
    ASSUME NEW d, WellFormed(d), NEW n \in Remote
    PROVE  LET e == AfterNodeDeployed(d, n)
           IN  /\ WellFormed(e)
               /\ e.rev = d.rev
               /\ RunsHere(d) => e.kind = d.kind
               /\ RunsHere(e) => e.kind = d.kind
               /\ e.kind # "HasDeploymentCandidate"
BY DEF AfterNodeDeployed, WellFormed, Unknown, DeployedToOthers, Deployment,
       Kind, Defined, RunsHere, Revision, Remote

LEMMA NodeUndeployedEntry ==
    ASSUME NEW d, WellFormed(d), NEW n \in Remote
    PROVE  LET e == AfterNodeUndeployed(d, n)
           IN  /\ WellFormed(e)
               /\ e.rev = d.rev
               /\ RunsHere(d) => e.kind = d.kind
               /\ RunsHere(e) => e.kind = d.kind
               /\ e.kind = "HasDeploymentCandidate" => e = d
BY DEF AfterNodeUndeployed, WellFormed, Absent, Undeployed, Deployment, Kind,
       Defined, RunsHere, Revision, Remote

LEMMA StackAvailableEntry ==
    ASSUME NEW d, WellFormed(d), NEW r \in Revision
    PROVE  LET e == AfterStackAvailable(d, r)
           IN  /\ WellFormed(e)
               /\ Defined(e)
               /\ d.rev <= e.rev
               /\ e.nodes = d.nodes
               /\ RunsHere(d) <=> RunsHere(e)
               /\ e.kind = "DeployedToSelf" => e = d
               /\ e.kind = "HasDeploymentCandidate" => d.kind = "HasDeploymentCandidate"
BY MaxRevisionAssumption DEF AfterStackAvailable, WellFormed, Undeployed, DeployedToOthers,
       DeployedToSelfWithPendingUpdate, Deployment, Kind, Defined, RunsHere,
       Revision, Remote

\* What tick does to the entry d of stack s: e is the entry after it.
TickEffect(s, d, known, deployed, e) ==
    /\ WellFormed(e)
    /\ e.rev = d.rev
    /\ TickDeploys(Me, s, d, known) =>
           /\ ~TickUndeploys(Me, s, d)
           /\ Defined(d)
           /\ e = IF deployed THEN DeployedToSelf(d.rev, d.nodes) ELSE d
           /\ \A n \in d.nodes : Distance[s][Me] < Distance[s][n]
    /\ TickUndeploys(Me, s, d) => RunsHere(d) /\ e.kind = "DeployedToOthers"
    /\ ~TickDeploys(Me, s, d, known) /\ ~TickUndeploys(Me, s, d) =>
           /\ RunsHere(d) <=> RunsHere(e)
           /\ e.kind \notin {"Undeployed", "DeployedToSelfWithPendingUpdate"}
           /\ e.kind = "DeployedToSelf" =>
                  /\ e = d
                  /\ \A n \in d.nodes : Distance[s][Me] < Distance[s][n]
    /\ e.kind = "HasDeploymentCandidate" =>
           \/ e = d
           \/ \E c \in known : e.nodes = {c} /\ Distance[s][c] < Distance[s][Me]

LEMMA TickEntry ==
    ASSUME NEW s \in Stack, NEW d, WellFormed(d), NEW known \in SUBSET Remote,
           NEW deployed \in BOOLEAN
    PROVE  TickEffect(s, d, known, deployed, AfterTick(Me, s, d, known, deployed))
<1> DEFINE closest == get_closest_node(s, Me, d.nodes)
           candidate == get_closest_node(s, Me, known)
           e == AfterTick(Me, s, d, known, deployed)
<1> USE DEF TickEffect
<1>1. /\ d \in Deployment
      /\ d.nodes \subseteq Remote
      /\ Remote \subseteq Node
      /\ Me \in Node
      /\ Me \notin Remote
  BY MeAssumption DEF WellFormed, Remote
<1>2. closest = Me => \A n \in d.nodes : Distance[s][Me] < Distance[s][n]
  <2> SUFFICES ASSUME closest = Me, NEW n \in d.nodes
               PROVE  Distance[s][Me] < Distance[s][n]
    OBVIOUS
  <2>1. Distance[s][Me] <= Distance[s][n]
    BY <1>1, ClosestNode
  <2>2. Distance[s][Me] # Distance[s][n]
    BY <1>1, DistanceInjective
  <2>3. Distance[s][Me] \in Nat /\ Distance[s][n] \in Nat
    BY <1>1, DistanceAssumption
  <2> QED BY <2>1, <2>2, <2>3
<1>3. closest # Me => d.nodes # {}
  BY <1>1, ClosestNode
<1>4. candidate # Me =>
          candidate \in known /\ Distance[s][candidate] < Distance[s][Me]
  <2> SUFFICES ASSUME candidate # Me
               PROVE  candidate \in known /\ Distance[s][candidate] < Distance[s][Me]
    OBVIOUS
  <2>1. candidate \in known /\ Distance[s][candidate] <= Distance[s][Me]
    BY <1>1, ClosestNode
  <2>2. Distance[s][candidate] # Distance[s][Me]
    BY <1>1, <2>1, DistanceInjective
  <2>3. Distance[s][candidate] \in Nat /\ Distance[s][Me] \in Nat
    BY <1>1, <2>1, DistanceAssumption
  <2> QED BY <2>1, <2>2, <2>3
<1> HIDE DEF closest, candidate
<1> USE DEF AfterTick, TickDeploys, TickUndeploys,
        check_stack_also_deployed_to_closer_remote, RunsHere
<1>5. CASE TickDeploys(Me, s, d, known)
  <2>1. closest = Me \/ d.kind = "Undeployed"
    BY <1>5 DEF closest
  <2>2. \A n \in d.nodes : Distance[s][Me] < Distance[s][n]
    BY <1>2, <2>1 DEF WellFormed
  <2>3. e = IF deployed THEN DeployedToSelf(d.rev, d.nodes) ELSE d
    BY <1>5
  <2>4. ~TickUndeploys(Me, s, d) /\ Defined(d) /\ d.kind # "HasDeploymentCandidate"
    BY <1>5 DEF Defined
  <2>5. WellFormed(e) /\ e.rev = d.rev /\ e.kind # "HasDeploymentCandidate"
    BY <1>1, <2>3, <2>4 DEF WellFormed, DeployedToSelf, Deployment, Kind, Defined
  <2> QED BY <1>5, <2>2, <2>3, <2>4, <2>5
<1>6. CASE TickUndeploys(Me, s, d)
  <2>1. ~TickDeploys(Me, s, d, known) /\ closest # Me /\ Defined(d)
    BY <1>6 DEF closest, Defined
  <2>2. e = DeployedToOthers(d.rev, d.nodes)
    BY <1>6, <2>1
  <2> QED BY <1>1, <1>3, <1>6, <2>1, <2>2
          DEF WellFormed, DeployedToOthers, Deployment, Kind, Defined
<1>7. CASE /\ ~TickDeploys(Me, s, d, known)
           /\ ~TickUndeploys(Me, s, d)
           /\ d.kind = "Undeployed"
  <2>1. candidate # Me
    BY <1>7 DEF candidate
  <2>2. e = HasDeploymentCandidate(d.rev, candidate)
    BY <1>7, <2>1 DEF candidate
  <2> QED BY <1>1, <1>4, <1>7, <2>1, <2>2
          DEF WellFormed, HasDeploymentCandidate, Deployment, Kind, Defined
<1>8. CASE /\ ~TickDeploys(Me, s, d, known)
           /\ ~TickUndeploys(Me, s, d)
           /\ d.kind # "Undeployed"
  <2>1. e = d
    BY <1>8
  <2>2. d.kind = "DeployedToSelf" => closest = Me
    BY <1>8 DEF closest
  <2>3. d.kind # "DeployedToSelfWithPendingUpdate"
    BY <1>8
  <2> QED BY <1>2, <1>8, <2>1, <2>2, <2>3
<1> QED BY <1>5, <1>6, <1>7, <1>8

LEMMA TickKeepsRevision ==
    ASSUME NEW s \in Stack, NEW d, WellFormed(d), NEW known \in SUBSET Remote,
           NEW deployed \in BOOLEAN
    PROVE  AfterTick(Me, s, d, known, deployed).rev = d.rev
BY TickEntry DEF TickEffect

----------------------------------------------------------------------------
(***************************************************************************)
(* Every action preserves the invariant.                                   *)
(***************************************************************************)

LEMMA ReadyStep ==
    ASSUME IInv, ReadyToScheduleStacks
    PROVE  IInv'
BY DEF IInv, ReadyToScheduleStacks, effects, TypeOK, EntriesWellFormed,
       GatewaysOfDefinedStacks, LocalDeploymentIsServed, NothingLeftBehind,
       CandidateIsLiveAndCloser, OpenWorkIsScheduled

LEMMA NodeDiscoveredStep ==
    ASSUME IInv, NEW n \in Remote, NodeDiscovered(n)
    PROVE  IInv'
BY DEF IInv, NodeDiscovered, effects, TypeOK, EntriesWellFormed,
       GatewaysOfDefinedStacks, LocalDeploymentIsServed, NothingLeftBehind,
       CandidateIsLiveAndCloser, OpenWorkIsScheduled

LEMMA NodeDiedStep ==
    ASSUME IInv, NEW n \in Remote, NodeDied(n)
    PROVE  IInv'
<1> USE DEF IInv, NodeDied, effects
<1>1. ASSUME NEW s \in Stack
      PROVE  /\ WellFormed(stacks'[s])
             /\ stacks'[s].rev = stacks[s].rev
             /\ stacks'[s].nodes \subseteq stacks[s].nodes
             /\ stacks'[s].kind \in {stacks[s].kind, "Undeployed"}
             /\ stacks'[s].kind # stacks[s].kind =>
                    ~RunsHere(stacks[s]) /\ s \in reevaluate_on_next_tick'
             /\ stacks'[s].kind = "HasDeploymentCandidate" =>
                    stacks'[s] = stacks[s] /\ n \notin stacks[s].nodes
  BY NodeDiedEntry DEF EntriesWellFormed
<1>2. TypeOK' /\ EntriesWellFormed'
  BY <1>1 DEF TypeOK, EntriesWellFormed, WellFormed
<1>3. GatewaysOfDefinedStacks'
  BY <1>1 DEF GatewaysOfDefinedStacks, EntriesWellFormed, WellFormed
<1>4. LocalDeploymentIsServed'
  BY <1>1 DEF LocalDeploymentIsServed, RunsHere
<1>5. NothingLeftBehind'
  BY <1>1 DEF NothingLeftBehind, RunsHere
<1>6. CandidateIsLiveAndCloser'
  BY <1>1 DEF CandidateIsLiveAndCloser
<1>7. OpenWorkIsScheduled'
  BY <1>1 DEF OpenWorkIsScheduled
<1> QED BY <1>2, <1>3, <1>4, <1>5, <1>6, <1>7

LEMMA NodeDeployedStacksStep ==
    ASSUME IInv, NEW n \in Remote, NEW ids \in SUBSET Stack, NodeDeployedStacks(n, ids)
    PROVE  IInv'
<1> USE DEF IInv, NodeDeployedStacks, effects
<1>1. ASSUME NEW s \in Stack
      PROVE  /\ WellFormed(stacks'[s])
             /\ s \notin ids => stacks'[s] = stacks[s]
             /\ stacks'[s].rev = stacks[s].rev
             /\ RunsHere(stacks[s]) => stacks'[s].kind = stacks[s].kind
             /\ RunsHere(stacks'[s]) => stacks'[s].kind = stacks[s].kind
             /\ stacks'[s].kind = "HasDeploymentCandidate" => stacks'[s] = stacks[s]
  BY NodeDeployedEntry DEF EntriesWellFormed
<1>2. TypeOK' /\ EntriesWellFormed'
  BY <1>1 DEF TypeOK, EntriesWellFormed, WellFormed
<1>3. GatewaysOfDefinedStacks'
  BY <1>1 DEF GatewaysOfDefinedStacks, EntriesWellFormed, WellFormed
<1>4. LocalDeploymentIsServed'
  BY <1>1 DEF LocalDeploymentIsServed, RunsHere
<1>5. NothingLeftBehind'
  BY <1>1 DEF NothingLeftBehind, RunsHere
<1>6. CandidateIsLiveAndCloser'
  BY <1>1 DEF CandidateIsLiveAndCloser
<1>7. OpenWorkIsScheduled'
  BY <1>1 DEF OpenWorkIsScheduled
<1> QED BY <1>2, <1>3, <1>4, <1>5, <1>6, <1>7

LEMMA NodeUndeployedStacksStep ==
    ASSUME IInv, NEW n \in Remote, NEW ids \in SUBSET Stack, NodeUndeployedStacks(n, ids)
    PROVE  IInv'
<1> USE DEF IInv, NodeUndeployedStacks, effects
<1>1. ASSUME NEW s \in Stack
      PROVE  /\ WellFormed(stacks'[s])
             /\ s \notin ids => stacks'[s] = stacks[s]
             /\ stacks'[s].rev = stacks[s].rev
             /\ RunsHere(stacks[s]) => stacks'[s].kind = stacks[s].kind
             /\ RunsHere(stacks'[s]) => stacks'[s].kind = stacks[s].kind
             /\ stacks'[s].kind = "HasDeploymentCandidate" => stacks'[s] = stacks[s]
  BY NodeUndeployedEntry DEF EntriesWellFormed
<1>2. TypeOK' /\ EntriesWellFormed'
  BY <1>1 DEF TypeOK, EntriesWellFormed, WellFormed
<1>3. GatewaysOfDefinedStacks'
  BY <1>1 DEF GatewaysOfDefinedStacks, EntriesWellFormed, WellFormed
<1>4. LocalDeploymentIsServed'
  BY <1>1 DEF LocalDeploymentIsServed, RunsHere
<1>5. NothingLeftBehind'
  BY <1>1 DEF NothingLeftBehind, RunsHere
<1>6. CandidateIsLiveAndCloser'
  BY <1>1 DEF CandidateIsLiveAndCloser
<1>7. OpenWorkIsScheduled'
  BY <1>1 DEF OpenWorkIsScheduled
<1> QED BY <1>2, <1>3, <1>4, <1>5, <1>6, <1>7

LEMMA StacksAvailableStep ==
    ASSUME IInv, NEW ids \in SUBSET Stack, NEW revision \in [Stack -> Revision],
           StacksAvailable(ids, revision)
    PROVE  IInv'
<1> USE DEF IInv, StacksAvailable, effects
<1>1. ASSUME NEW s \in Stack
      PROVE  /\ WellFormed(stacks'[s])
             /\ s \notin ids => stacks'[s] = stacks[s]
             /\ s \in ids => Defined(stacks'[s])
             /\ stacks[s].rev <= stacks'[s].rev
             /\ stacks'[s].nodes = stacks[s].nodes
             /\ RunsHere(stacks[s]) <=> RunsHere(stacks'[s])
             /\ stacks'[s].kind = "DeployedToSelf" => stacks'[s] = stacks[s]
             /\ stacks'[s].kind = "HasDeploymentCandidate" =>
                    stacks[s].kind = "HasDeploymentCandidate"
  BY StackAvailableEntry, MaxRevisionAssumption
  DEF EntriesWellFormed, WellFormed, Deployment, Revision
<1>2. TypeOK' /\ EntriesWellFormed'
  BY <1>1 DEF TypeOK, EntriesWellFormed, WellFormed
<1>3. GatewaysOfDefinedStacks'
  BY <1>1, MaxRevisionAssumption DEF GatewaysOfDefinedStacks, Revision
<1>4. LocalDeploymentIsServed'
  BY <1>1, <1>2, MaxRevisionAssumption
  DEF LocalDeploymentIsServed, TypeOK, Deployment, Revision
<1>5. NothingLeftBehind'
  BY <1>1 DEF NothingLeftBehind
<1>6. CandidateIsLiveAndCloser'
  BY <1>1 DEF CandidateIsLiveAndCloser
<1>7. OpenWorkIsScheduled'
  BY <1>1 DEF OpenWorkIsScheduled
<1> QED BY <1>2, <1>3, <1>4, <1>5, <1>6, <1>7

LEMMA StacksRemovedStep ==
    ASSUME IInv, NEW ids \in SUBSET Stack, NEW permanent, NEW failing,
           StacksRemoved(ids, permanent, failing)
    PROVE  IInv'
<1> USE DEF IInv, StacksRemoved
<1>1. \A s \in ids : stacks'[s] = Absent /\ gateways'[s] = 0
  OBVIOUS
<1>2. \A s \in Stack \ ids :
          /\ stacks'[s] = stacks[s]
          /\ functions'[s] = functions[s]
          /\ gateways'[s] = gateways[s]
          /\ s \in announced' <=> s \in announced
  OBVIOUS
<1>3. Absent \in Deployment /\ WellFormed(Absent) /\ ~RunsHere(Absent) /\ ~Defined(Absent)
  BY DEF Absent, Deployment, Kind, WellFormed, Defined, RunsHere
<1>4. TypeOK' /\ EntriesWellFormed'
  BY <1>1, <1>2, <1>3 DEF TypeOK, EntriesWellFormed
<1>5. GatewaysOfDefinedStacks'
  BY <1>1, <1>2, <1>3 DEF GatewaysOfDefinedStacks
<1>6. LocalDeploymentIsServed'
  BY <1>1, <1>2, <1>3 DEF LocalDeploymentIsServed
<1>7. NothingLeftBehind'
  BY <1>1, <1>2, <1>3 DEF NothingLeftBehind, TypeOK
<1>8. CandidateIsLiveAndCloser'
  BY <1>1, <1>2 DEF CandidateIsLiveAndCloser, Absent
<1>9. OpenWorkIsScheduled'
  BY <1>1, <1>2 DEF OpenWorkIsScheduled, Absent
<1> QED BY <1>4, <1>5, <1>6, <1>7, <1>8, <1>9

LEMMA TickStep ==
    ASSUME IInv, NEW outcome \in [Stack -> DeployOutcome], Tick(outcome)
    PROVE  IInv'
<1> DEFINE Deploys(s) == s \in reevaluate_on_next_tick
                             /\ TickDeploys(Me, s, stacks[s], known_nodes)
           Undeploys(s) == s \in reevaluate_on_next_tick
                             /\ TickUndeploys(Me, s, stacks[s])
           Ok(s) == Deploys(s) /\ outcome[s] = "ok"
           Entry(s) == AfterTick(Me, s, stacks[s], known_nodes, Ok(s))
<1>1. ASSUME NEW s \in reevaluate_on_next_tick
      PROVE  TickEffect(s, stacks[s], known_nodes, Ok(s), Entry(s))
  <2>1. s \in Stack /\ WellFormed(stacks[s]) /\ known_nodes \in SUBSET Remote
    BY DEF IInv, TypeOK, EntriesWellFormed
  <2>2. Ok(s) \in BOOLEAN
    OBVIOUS
  <2> HIDE DEF Ok
  <2> QED BY <2>1, <2>2, TickEntry
<1>2. ASSUME NEW s \in Stack
      PROVE  stacks'[s] = IF s \in reevaluate_on_next_tick THEN Entry(s) ELSE stacks[s]
  <2>1. s \in {r \in {q \in reevaluate_on_next_tick :
                            TickDeploys(Me, q, stacks[q], known_nodes)} :
                    outcome[r] = "ok"}
            <=> Ok(s)
    OBVIOUS
  <2> QED BY <2>1 DEF Tick
<1>3. UNCHANGED <<known_nodes, ready_to_schedule, gateways>>
      /\ reevaluate_on_next_tick' = {}
  BY DEF Tick
<1>4. ASSUME NEW s \in Stack
      PROVE  /\ functions'[s] = IF Deploys(s) /\ outcome[s] # "early"
                                THEN stacks[s].rev
                                ELSE IF Undeploys(s) THEN 0 ELSE functions[s]
             /\ s \in announced' <=> (Ok(s) \/ s \in announced) /\ ~Undeploys(s)
             /\ s \in failed' <=> \/ Deploys(s) /\ ~Ok(s)
                                  \/ s \in failed /\ ~Ok(s)
             /\ s \in incident' <=> s \in incident \/ (Deploys(s) /\ ~Ok(s))
  <2>1. ~(Deploys(s) /\ Undeploys(s))
    BY <1>1 DEF TickEffect
  <2>2. functions'[s] = IF Deploys(s) /\ outcome[s] # "early"
                        THEN stacks[s].rev
                        ELSE IF Undeploys(s) THEN 0 ELSE functions[s]
    BY <2>1 DEF Tick
  <2> QED BY <2>2, SMTT(30) DEF Tick
<1> HIDE DEF Entry, Deploys, Undeploys, Ok
<1>5. \A s \in Stack : /\ Deploys(s) \/ Undeploys(s) => s \in reevaluate_on_next_tick
                       /\ Ok(s) => Deploys(s) /\ outcome[s] = "ok"
                       /\ Deploys(s) /\ outcome[s] = "ok" => Ok(s)
                       /\ Deploys(s) => stacks[s].kind # "DeployedToSelf"
  BY DEF Deploys, Undeploys, Ok, TickDeploys
<1>6. TypeOK /\ EntriesWellFormed
  BY DEF IInv
<1>7. ASSUME NEW s \in Stack, Deploys(s)
      PROVE  /\ ~Undeploys(s)
             /\ Defined(stacks[s])
             /\ Ok(s) => stacks'[s] = DeployedToSelf(stacks[s].rev, stacks[s].nodes)
             /\ ~Ok(s) => stacks'[s] = stacks[s]
             /\ \A n \in stacks[s].nodes : Distance[s][Me] < Distance[s][n]
  BY <1>1, <1>2, <1>7 DEF TickEffect, Deploys, Undeploys
<1>8. ASSUME NEW s \in Stack, Undeploys(s)
      PROVE  RunsHere(stacks[s]) /\ stacks'[s].kind = "DeployedToOthers"
  BY <1>1, <1>2, <1>8 DEF TickEffect, Undeploys
<1>9. ASSUME NEW s \in reevaluate_on_next_tick, ~Deploys(s), ~Undeploys(s)
      PROVE  /\ RunsHere(stacks[s]) <=> RunsHere(stacks'[s])
             /\ stacks'[s].kind \notin {"Undeployed", "DeployedToSelfWithPendingUpdate"}
             /\ stacks'[s].kind = "DeployedToSelf" =>
                    /\ stacks'[s] = stacks[s]
                    /\ \A n \in stacks[s].nodes : Distance[s][Me] < Distance[s][n]
  <2>1. s \in Stack
    BY <1>6 DEF TypeOK
  <2> QED BY <1>1, <1>2, <1>9, <2>1 DEF TickEffect, Deploys, Undeploys
<1>10. EntriesWellFormed'
  BY <1>1, <1>2, <1>6 DEF EntriesWellFormed, TickEffect
<1>11. TypeOK'
  <2>1. stacks' \in [Stack -> Deployment]
    BY <1>10 DEF EntriesWellFormed, WellFormed, Tick
  <2>2. functions' \in [Stack -> {0} \cup Revision]
    <3>1. \A s \in Stack : functions'[s] \in {0} \cup Revision
      BY <1>4, <1>6 DEF TypeOK, Deployment
    <3> QED BY <3>1 DEF Tick
  <2>3. announced' \in SUBSET Stack /\ failed' \in SUBSET Stack /\ incident' \in SUBSET Stack
    BY <1>6 DEF Tick, TypeOK
  <2> QED BY <1>3, <1>6, <2>1, <2>2, <2>3 DEF TypeOK
<1>12. GatewaysOfDefinedStacks'
  BY <1>1, <1>2, <1>3, <1>6, <1>10
  DEF IInv, GatewaysOfDefinedStacks, EntriesWellFormed, WellFormed, TickEffect
<1>13. LocalDeploymentIsServed'
  <2> SUFFICES ASSUME NEW s \in Stack, RunsHere(stacks'[s])
               PROVE  /\ s \in announced'
                      /\ functions'[s] \in 1 .. stacks'[s].rev
                      /\ stacks'[s].kind = "DeployedToSelf" =>
                             functions'[s] = stacks'[s].rev
    BY DEF LocalDeploymentIsServed
  <2>1. stacks[s].rev \in Nat /\ (Defined(stacks[s]) => stacks[s].rev >= 1)
    BY <1>6, MaxRevisionAssumption DEF EntriesWellFormed, WellFormed, Deployment, Revision
  <2>2. RunsHere(stacks[s]) => /\ s \in announced
                               /\ functions[s] \in 1 .. stacks[s].rev
                               /\ stacks[s].kind = "DeployedToSelf" =>
                                      functions[s] = stacks[s].rev
    BY DEF IInv, LocalDeploymentIsServed
  <2>3. CASE Ok(s)
    <3>1. stacks'[s] = DeployedToSelf(stacks[s].rev, stacks[s].nodes)
      BY <1>5, <1>7, <2>3
    <3> QED BY <1>4, <1>5, <1>7, <2>1, <2>3, <3>1 DEF DeployedToSelf
  <2>4. CASE Deploys(s) /\ ~Ok(s)
    <3>1. stacks'[s] = stacks[s] /\ stacks[s].kind # "DeployedToSelf"
      BY <1>5, <1>7, <2>4
    <3>2. s \in announced' /\ functions'[s] \in {functions[s], stacks[s].rev}
      BY <1>4, <1>7, <2>2, <2>4, <3>1
    <3>3. stacks[s].rev \in 1 .. stacks[s].rev
      BY <1>7, <2>1, <2>4
    <3> QED BY <2>2, <3>1, <3>2, <3>3
  <2>5. CASE Undeploys(s)
    BY <1>8, <2>5 DEF RunsHere
  <2>6. CASE ~Deploys(s) /\ ~Undeploys(s) /\ s \in reevaluate_on_next_tick
    BY <1>4, <1>9, <2>2, <2>6 DEF RunsHere
  <2>7. CASE s \notin reevaluate_on_next_tick
    BY <1>2, <1>4, <1>5, <2>2, <2>7
  <2> QED BY <1>5, <2>3, <2>4, <2>5, <2>6, <2>7
<1>14. NothingLeftBehind'
  <2> SUFFICES ASSUME NEW s \in Stack, ~RunsHere(stacks'[s]), s \notin incident'
               PROVE  functions'[s] = 0 /\ s \notin announced'
    BY DEF NothingLeftBehind
  <2>1. CASE Deploys(s)
    <3>1. stacks'[s] = DeployedToSelf(stacks[s].rev, stacks[s].nodes)
      BY <1>4, <1>7, <2>1
    <3> QED BY <3>1 DEF DeployedToSelf, RunsHere
  <2>2. CASE Undeploys(s)
    BY <1>4, <1>7, <2>2
  <2>3. CASE ~Deploys(s) /\ ~Undeploys(s)
    <3>1. ~RunsHere(stacks[s]) /\ s \notin incident
      BY <1>2, <1>4, <1>9, <2>3
    <3> QED BY <1>4, <1>5, <2>3, <3>1 DEF IInv, NothingLeftBehind
  <2> QED BY <2>1, <2>2, <2>3
<1>15. CandidateIsLiveAndCloser'
  BY <1>1, <1>2, <1>3 DEF IInv, CandidateIsLiveAndCloser, TickEffect
<1>16. OpenWorkIsScheduled'
  <2> SUFFICES ASSUME NEW s \in Stack
               PROVE  /\ stacks'[s].kind \in {"Undeployed", "DeployedToSelfWithPendingUpdate"}
                             => s \in failed'
                      /\ stacks'[s].kind = "DeployedToSelf" =>
                             \A n \in stacks'[s].nodes : Distance[s][Me] < Distance[s][n]
    BY SMTT(30) DEF OpenWorkIsScheduled
  <2>1. CASE Deploys(s)
    <3>1. CASE Ok(s)
      <4>1. stacks'[s] = DeployedToSelf(stacks[s].rev, stacks[s].nodes)
        BY <1>7, <2>1, <3>1
      <4> QED BY <1>7, <2>1, <4>1 DEF DeployedToSelf
    <3>2. CASE ~Ok(s)
      <4>1. stacks'[s] = stacks[s] /\ s \in failed'
        BY <1>4, <1>7, <2>1, <3>2
      <4> QED BY <1>5, <2>1, <4>1
    <3> QED BY <3>1, <3>2
  <2>2. CASE Undeploys(s)
    BY <1>8, <2>2
  <2>3. CASE ~Deploys(s) /\ ~Undeploys(s) /\ s \in reevaluate_on_next_tick
    BY <1>9, <2>3
  <2>4. CASE s \notin reevaluate_on_next_tick
    BY <1>2, <1>4, <1>5, <2>4 DEF IInv, OpenWorkIsScheduled
  <2> QED BY <2>1, <2>2, <2>3, <2>4
<1> QED BY <1>10, <1>11, <1>12, <1>13, <1>14, <1>15, <1>16, SMTT(30) DEF IInv

----------------------------------------------------------------------------
LEMMA NextStep == IInv /\ [Next]_vars => IInv'
<1> SUFFICES ASSUME IInv, [Next]_vars PROVE IInv'
  OBVIOUS
<1>1. CASE ReadyToScheduleStacks
  BY <1>1, ReadyStep
<1>2. CASE NodeEvent
  BY <1>2, NodeDiscoveredStep, NodeDiedStep, NodeDeployedStacksStep,
     NodeUndeployedStacksStep DEF NodeEvent
<1>3. CASE StackEvent
  BY <1>3, StacksAvailableStep, StacksRemovedStep DEF StackEvent
<1>4. CASE AnyTick
  BY <1>4, TickStep DEF AnyTick
<1>5. CASE UNCHANGED vars
  BY <1>5 DEF vars, IInv, TypeOK, EntriesWellFormed, GatewaysOfDefinedStacks,
     LocalDeploymentIsServed, NothingLeftBehind, CandidateIsLiveAndCloser,
     OpenWorkIsScheduled
<1> QED BY <1>1, <1>2, <1>3, <1>4, <1>5 DEF Next

LEMMA Invariance == Spec => []IInv
BY InitIInv, NextStep, PTL DEF Spec

\* Every reachable state of the scheduler is well typed.
THEOREM TypeCorrect == Spec => []TypeOK
<1>1. IInv => TypeOK
  BY DEF IInv
<1> QED BY <1>1, Invariance, PTL

\* A stack reported as deployed here is in the runtime, in the right revision,
\* and advertised, through every failed deployment, update and membership event.
THEOREM LocalDeploymentIsAlwaysServed == Spec => []LocalDeploymentIsServed
<1>1. IInv => LocalDeploymentIsServed
  BY DEF IInv
<1> QED BY <1>1, Invariance, PTL

\* Without a failed deployment or removal, undeploying leaves neither functions
\* nor an advertisement behind.
THEOREM NothingIsLeftBehind == Spec => []NothingLeftBehind
<1>1. IInv => NothingLeftBehind
  BY DEF IInv
<1> QED BY <1>1, Invariance, PTL

\* A deployment candidate is live and closer than this node at all times.
THEOREM CandidateAlwaysLiveAndCloser == Spec => []CandidateIsLiveAndCloser
<1>1. IInv => CandidateIsLiveAndCloser
  BY DEF IInv
<1> QED BY <1>1, Invariance, PTL

\* Routing a request that came through a gateway never finds an empty list of
\* deployment targets.
THEOREM RoutableStackAlwaysHasTarget == Spec => []RoutableStackHasTarget
BY RoutableFromIInv, Invariance, PTL

\* Undeployed stacks, pending updates and conflicts with closer nodes are on the
\* list of the next tick unless the last deployment failed.
THEOREM OpenWorkIsAlwaysScheduled == Spec => []OpenWorkIsScheduled
<1>1. IInv => OpenWorkIsScheduled
  BY DEF IInv
<1> QED BY <1>1, Invariance, PTL

\* No step of the scheduler replaces a definition by an older revision.
THEOREM RevisionsNeverRegress == Spec => RevisionNeverRegresses
<1>1. IInv /\ [Next]_vars =>
          [\A s \in Stack : Defined(stacks[s]) /\ Defined(stacks'[s]) =>
               stacks[s].rev <= stacks'[s].rev]_vars
  <2> SUFFICES ASSUME IInv, [Next]_vars, NEW s \in Stack,
                      Defined(stacks[s]), Defined(stacks'[s])
               PROVE  stacks[s].rev <= stacks'[s].rev
    OBVIOUS
  <2>1. stacks[s].rev \in Nat /\ WellFormed(stacks[s]) /\ known_nodes \in SUBSET Remote
    BY MaxRevisionAssumption
    DEF IInv, TypeOK, EntriesWellFormed, WellFormed, Deployment, Revision
  <2>2. CASE \E n \in Remote : NodeDied(n)
    BY <2>1, <2>2, NodeDiedEntry DEF NodeDied
  <2>3. CASE \E n \in Remote, ids \in SUBSET Stack : NodeDeployedStacks(n, ids)
    BY <2>1, <2>3, NodeDeployedEntry DEF NodeDeployedStacks
  <2>4. CASE \E n \in Remote, ids \in SUBSET Stack : NodeUndeployedStacks(n, ids)
    BY <2>1, <2>4, NodeUndeployedEntry DEF NodeUndeployedStacks
  <2>5. CASE \E ids \in SUBSET Stack, revision \in [Stack -> Revision] :
                 StacksAvailable(ids, revision)
    BY <2>1, <2>5, StackAvailableEntry DEF StacksAvailable
  <2>6. CASE \E ids, permanent, failing \in SUBSET Stack :
                 StacksRemoved(ids, permanent, failing)
    BY <2>1, <2>6 DEF StacksRemoved, Absent, Defined
  <2>7. CASE AnyTick
    <3>1. PICK outcome \in [Stack -> DeployOutcome] : Tick(outcome)
      BY <2>7 DEF AnyTick
    <3> DEFINE ok == s \in {r \in {q \in reevaluate_on_next_tick :
                                    TickDeploys(Me, q, stacks[q], known_nodes)} :
                             outcome[r] = "ok"}
    <3>2. \/ stacks'[s] = AfterTick(Me, s, stacks[s], known_nodes, ok)
          \/ stacks'[s] = stacks[s]
      BY <3>1 DEF Tick
    <3>3. ok \in BOOLEAN
      BY SMTT(30)
    <3> HIDE DEF ok
    <3>4. AfterTick(Me, s, stacks[s], known_nodes, ok).rev = stacks[s].rev
      BY <2>1, <3>3, TickKeepsRevision
    <3> QED BY <2>1, <3>2, <3>4
  <2>8. CASE ReadyToScheduleStacks
    <3>1. stacks' = stacks  BY <2>8 DEF ReadyToScheduleStacks
    <3> QED BY <2>1, <3>1
  <2>9. CASE \E n \in Remote : NodeDiscovered(n)
    <3>1. stacks' = stacks  BY <2>9 DEF NodeDiscovered
    <3> QED BY <2>1, <3>1
  <2>10. CASE UNCHANGED vars
    <3>1. stacks' = stacks  BY <2>10 DEF vars
    <3> QED BY <2>1, <3>1
  <2> QED BY <2>2, <2>3, <2>4, <2>5, <2>6, <2>7, <2>8, <2>9, <2>10
          DEF Next, NodeEvent, StackEvent
<1> QED BY <1>1, Invariance, PTL DEF Spec, RevisionNeverRegresses
=============================================================================
