------------------------------ MODULE NodeView ------------------------------
(***************************************************************************)
(* One node's view of the node behind one address, and what a status read  *)
(* from the database does to it (the loop body of perform_update and       *)
(* NodeCollection in executor/src/network/membership.rs).  An address is   *)
(* one (IP, port) pair; every start of an executor there has a higher      *)
(* generation.  The operators are pure: Membership and Cluster share them. *)
(***************************************************************************)
EXTENDS Naturals

CONSTANTS Address,        \* (IP, port) pairs
          MaxGeneration,  \* bound: an address is started at most this often
          Stack

ASSUME MaxGenerationAssumption == MaxGeneration \in Nat

Generation == 1 .. MaxGeneration

\* NodeAddress: equality and the node hash include the generation.
Node == Address \X Generation

\* NoStatus stands for an absent database key, NoInfo for an unknown address.
\* Generations are positive, so 0 marks the absent record.
NoInfo == [generation |-> 0, dead |-> TRUE, deployed_stacks |-> {}]
RemoteNodeInfo ==
    [generation : {0} \cup Generation, dead : BOOLEAN, deployed_stacks : SUBSET Stack]

RemoteNode(status) == [generation |-> status.generation, dead |-> FALSE,
                       deployed_stacks |-> status.deployed_stacks]

Known(info) == info.generation # 0

(***************************************************************************)
(* What membership sends while it handles one address.  The notifications  *)
(* of one node are sent in the order discovered, changed, died.  The sets  *)
(* discovered, changed and died hold generations of the address; added and *)
(* removed are the stacks of the NodeStacksChanged about `changed`.        *)
(***************************************************************************)
Silence == [discovered |-> {}, changed |-> {}, added |-> {}, removed |-> {},
            died |-> {}]

\* Both directions of compare_deployed_stack_list.
compare_deployed_stack_list(current, incoming) ==
    [added |-> incoming \ current, removed |-> current \ incoming]

\* A slip: a node that comes back online is not announced.
ReturnUnannounced(info, status, dead) ==
    [info |-> [generation |-> info.generation, dead |-> dead,
               deployed_stacks |-> status.deployed_stacks],
     sent |-> [Silence EXCEPT
                  !.died = IF dead /\ ~info.dead THEN {info.generation} ELSE {}]]

\* A slip: stacks that are only removed go unreported.
RemovalUnreported(info, status, dead) ==
    [info |-> [generation |-> info.generation, dead |-> dead,
               deployed_stacks |-> status.deployed_stacks],
     sent |-> LET change == compare_deployed_stack_list(info.deployed_stacks,
                                                        status.deployed_stacks)
              IN  [discovered |-> IF info.dead /\ ~dead
                                  THEN {status.generation} ELSE {},
                   changed |-> IF change.added # {} THEN {status.generation} ELSE {},
                   added |-> change.added,
                   removed |-> change.removed,
                   died |-> IF dead /\ ~info.dead THEN {info.generation} ELSE {}]]

SameGeneration(info, status, dead) ==
    [info |-> [generation |-> info.generation, dead |-> dead,
               deployed_stacks |-> status.deployed_stacks],
     sent |-> LET change == compare_deployed_stack_list(info.deployed_stacks,
                                                        status.deployed_stacks)
              IN  [discovered |-> IF info.dead /\ ~dead
                                  THEN {status.generation} ELSE {},
                   changed |-> IF change.added \cup change.removed # {}
                               THEN {status.generation} ELSE {},
                   added |-> change.added,
                   removed |-> change.removed,
                   died |-> IF dead /\ ~info.dead THEN {info.generation} ELSE {}]]

\* A slip: the replaced generation does not die.
OldGenerationLives(info, status, dead) ==
    [info |-> IF dead THEN NoInfo ELSE RemoteNode(status),
     sent |-> [Silence EXCEPT
                  !.discovered = IF dead THEN {} ELSE {status.generation}]]

NewGeneration(info, status, dead) ==
    [info |-> IF dead THEN NoInfo ELSE RemoteNode(status),
     sent |-> [Silence EXCEPT
                  !.died = IF info.dead THEN {} ELSE {info.generation},
                  !.discovered = IF dead THEN {} ELSE {status.generation}]]

on_node_discovered(status) ==
    [info |-> RemoteNode(status),
     sent |-> [Silence EXCEPT !.discovered = {status.generation}]]

MissingFromDb(info) ==
    [info |-> NoInfo, sent |-> [Silence EXCEPT !.died = {info.generation}]]

\* status.generation = 0 means the database has no (foreign) status there.
Observe(info, status, dead) ==
    CASE status.generation = 0 /\ Known(info) -> MissingFromDb(info)
      [] status.generation > 0 /\ ~Known(info) /\ ~dead -> on_node_discovered(status)
      [] Known(info) /\ info.generation = status.generation ->
             SameGeneration(info, status, dead)
      [] Known(info) /\ info.generation < status.generation ->
             NewGeneration(info, status, dead)
      [] OTHER -> [info |-> info, sent |-> Silence]
=============================================================================
