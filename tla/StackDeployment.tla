-------------------------- MODULE StackDeployment --------------------------
(***************************************************************************)
(* What one node knows about one stack, and how each scheduler message     *)
(* changes it (enum StackDeployment and the match arms of `step` and       *)
(* `tick` in executor/src/stack/scheduler.rs).                             *)
(*                                                                         *)
(* A stack definition is represented by its revision.  Every variant of    *)
(* the enum is one record shape: `rev` is the revision of the definition   *)
(* the variant holds (0 when it holds none) and `nodes` the set of node    *)
(* hashes it holds (deployed_to, deployed_to_others, or the candidate).    *)
(* The operators are pure, so that Scheduler (one node) and Cluster (all   *)
(* nodes) share them.                                                      *)
(*                                                                         *)
(* Throughout the project, an operator described as a slip is not used by  *)
(* any specification.  It is a wrong version of the definition that        *)
(* follows it, and the properties are known to tell the two apart.         *)
(***************************************************************************)
EXTENDS Naturals

CONSTANTS Node,         \* node hashes; a restarted node has a new hash
          Stack,        \* stack IDs
          Distance,     \* Distance[s][n]: the XOR of s and n as a number
          MaxRevision   \* bound: revisions are 1 .. MaxRevision

ASSUME DistanceAssumption == Distance \in [Stack -> [Node -> Nat]]
\* XOR with a fixed id is injective, so two nodes are never equally far.
ASSUME DistanceInjective ==
    \A s \in Stack : \A m, n \in Node :
        Distance[s][m] = Distance[s][n] => m = n
ASSUME MaxRevisionAssumption == MaxRevision \in Nat

Revision == 1 .. MaxRevision

Kind == {"Absent", "Unknown", "Undeployed", "HasDeploymentCandidate",
         "DeployedToSelf", "DeployedToSelfWithPendingUpdate",
         "DeployedToOthers"}

Deployment == [kind : Kind, rev : {0} \cup Revision, nodes : SUBSET Node]

\* No entry in the scheduler's map.
Absent == [kind |-> "Absent", rev |-> 0, nodes |-> {}]
Unknown(deployed_to) == [kind |-> "Unknown", rev |-> 0, nodes |-> deployed_to]
Undeployed(r) == [kind |-> "Undeployed", rev |-> r, nodes |-> {}]
HasDeploymentCandidate(r, candidate) ==
    [kind |-> "HasDeploymentCandidate", rev |-> r, nodes |-> {candidate}]
DeployedToSelf(r, others) ==
    [kind |-> "DeployedToSelf", rev |-> r, nodes |-> others]
DeployedToSelfWithPendingUpdate(r, others) ==
    [kind |-> "DeployedToSelfWithPendingUpdate", rev |-> r, nodes |-> others]
DeployedToOthers(r, deployed_to) ==
    [kind |-> "DeployedToOthers", rev |-> r, nodes |-> deployed_to]

\* The scheduler holds a definition of the stack.
Defined(d) == d.kind \notin {"Absent", "Unknown"}

RunsHere(d) == d.kind \in {"DeployedToSelf", "DeployedToSelfWithPendingUpdate"}

(***************************************************************************)
(* The node of others \cup {me} with the least distance to the stack.      *)
(***************************************************************************)
get_closest_node(s, me, others) ==
    CHOOSE n \in others \cup {me} :
        \A m \in others \cup {me} : Distance[s][n] <= Distance[s][m]

----------------------------------------------------------------------------
(***************************************************************************)
(* Membership events.                                                      *)
(***************************************************************************)

\* A slip: a dead candidate is kept.
CandidateOutlivesNode(d, n) ==
    IF n \notin d.nodes \/ d.kind = "HasDeploymentCandidate"
    THEN d
    ELSE IF d.kind = "DeployedToOthers" /\ d.nodes = {n}
         THEN Undeployed(d.rev)
         ELSE [d EXCEPT !.nodes = @ \ {n}]

\* A slip: the last host is removed and the entry stays.
LastHostJustRemoved(d, n) ==
    IF n \notin d.nodes THEN d
    ELSE IF d.kind = "HasDeploymentCandidate" THEN Undeployed(d.rev)
    ELSE [d EXCEPT !.nodes = @ \ {n}]

AfterNodeDied(d, n) ==
    IF n \notin d.nodes
    THEN d
    ELSE IF \/ d.kind = "HasDeploymentCandidate"
            \/ d.kind = "DeployedToOthers" /\ d.nodes = {n}
         THEN Undeployed(d.rev)
         ELSE [d EXCEPT !.nodes = @ \ {n}]

\* A slip: losing the candidate puts nothing on the list.
CandidateDeathUnlisted(d, n) ==
    n \in d.nodes /\ d.kind \notin {"HasDeploymentCandidate", "DeployedToOthers"}

\* A stack still deployed to another node is not re-evaluated.
NodeDeathReevaluates(d, n) ==
    /\ n \in d.nodes
    /\ d.kind = "DeployedToOthers" => d.nodes = {n}

\* A slip: the local deployment is forgotten when a remote one appears.
RemoteReplacesLocal(d, n) ==
    CASE d.kind = "Absent" -> Unknown({n})
      [] d.kind \in {"Undeployed", "HasDeploymentCandidate", "DeployedToSelf"} ->
             DeployedToOthers(d.rev, {n})
      [] OTHER -> [d EXCEPT !.nodes = @ \cup {n}]

AfterNodeDeployed(d, n) ==
    CASE d.kind = "Absent" -> Unknown({n})
      [] d.kind \in {"Undeployed", "HasDeploymentCandidate"} ->
             DeployedToOthers(d.rev, {n})
      [] OTHER -> [d EXCEPT !.nodes = @ \cup {n}]

AfterNodeUndeployed(d, n) ==
    CASE d.kind = "Unknown" /\ d.nodes \ {n} = {} -> Absent
      [] d.kind = "DeployedToOthers" /\ d.nodes = {n} -> Undeployed(d.rev)
      [] d.kind \in {"Absent", "Undeployed", "HasDeploymentCandidate"} -> d
      [] OTHER -> [d EXCEPT !.nodes = @ \ {n}]

----------------------------------------------------------------------------
(***************************************************************************)
(* Stack events.                                                           *)
(***************************************************************************)

AfterStackAvailable(d, r) ==
    CASE d.kind = "Absent" -> Undeployed(r)
      [] d.kind = "Unknown" -> IF d.nodes = {} THEN Undeployed(r)
                                               ELSE DeployedToOthers(r, d.nodes)
      [] OTHER ->
             IF r <= d.rev THEN d
             ELSE IF d.kind = "DeployedToSelf"
                  THEN DeployedToSelfWithPendingUpdate(r, d.nodes)
                  ELSE [d EXCEPT !.rev = r]

\* What GetDeploymentStatus answers.
DeploymentStatus(d) ==
    CASE d.kind = "Absent" -> [status |-> "Unknown", nodes |-> {}]
      [] d.kind \in {"Undeployed", "HasDeploymentCandidate"} ->
             [status |-> "NotDeployed", nodes |-> {}]
      [] d.kind \in {"Unknown", "DeployedToOthers"} ->
             [status |-> "DeployedToOthers", nodes |-> d.nodes]
      [] OTHER -> [status |-> "DeployedToSelf", nodes |-> d.nodes]

----------------------------------------------------------------------------
(***************************************************************************)
(* Re-evaluation of one stack by `tick` on node me, which knows the nodes  *)
(* `known`.                                                                *)
(***************************************************************************)

TickDeploys(me, s, d, known) ==
    \/ d.kind = "Undeployed" /\ get_closest_node(s, me, known) = me
    \/ /\ d.kind \in {"DeployedToSelfWithPendingUpdate", "DeployedToOthers"}
       /\ get_closest_node(s, me, d.nodes) = me

\* A slip: the comparison is the wrong way round.
ClosestDropsTheStack(me, s, d) == d.nodes # {} /\ get_closest_node(s, me, d.nodes) = me

check_stack_also_deployed_to_closer_remote(me, s, d) ==
    get_closest_node(s, me, d.nodes) # me

TickUndeploys(me, s, d) ==
    RunsHere(d) /\ check_stack_also_deployed_to_closer_remote(me, s, d)

\* A slip: a failed deployment counts as done.
FailureIgnored(me, s, d, known, deployed) ==
    CASE TickDeploys(me, s, d, known) -> DeployedToSelf(d.rev, d.nodes)
      [] TickUndeploys(me, s, d) -> DeployedToOthers(d.rev, d.nodes)
      [] d.kind = "Undeployed" /\ get_closest_node(s, me, known) # me ->
             HasDeploymentCandidate(d.rev, get_closest_node(s, me, known))
      [] OTHER -> d

\* deployed says whether deploy_stack succeeded, where tick calls it.  An
\* Undeployed stack has no nodes, so it starts with no deployed_to_others.
AfterTick(me, s, d, known, deployed) ==
    CASE TickDeploys(me, s, d, known) ->
             IF deployed THEN DeployedToSelf(d.rev, d.nodes) ELSE d
      [] TickUndeploys(me, s, d) -> DeployedToOthers(d.rev, d.nodes)
      [] d.kind = "Undeployed" /\ get_closest_node(s, me, known) # me ->
             HasDeploymentCandidate(d.rev, get_closest_node(s, me, known))
      [] OTHER -> d
=============================================================================
