-------------------------- MODULE StackCollection --------------------------
(***************************************************************************)
(* The blockchain monitor's index of stacks and their owners               *)
(* (executor/src/stack/blockchain_monitor/stack_collection.rs), as pure    *)
(* operators on a record with the struct's four fields.                    *)
(***************************************************************************)
EXTENDS Naturals

CONSTANTS Owner,        \* developers
          Stack,        \* stack accounts
          OwnerOf,      \* OwnerOf[s]: the user of stack account s
          MaxRevision   \* bound: revisions are 1 .. MaxRevision

ASSUME OwnerOfAssumption == OwnerOf \in [Stack -> Owner]
ASSUME RevisionAssumption == MaxRevision \in Nat \ {0}

Revision == 1 .. MaxRevision
OwnerState == {"Active", "Inactive"}

\* An owner that is not in the map is Vacant; a stack that is not in the map
\* has revision 0.
OwnerData == [state : OwnerState \cup {"Vacant"}, stacks : SUBSET Stack]
NoOwner == [state |-> "Vacant", stacks |-> {}]

Collection == [stacks : [Stack -> {0} \cup Revision],
               owners : [Owner -> OwnerData],
               active_owners : SUBSET Owner,
               inactive_owners : SUBSET Owner]

owners(c) == {o \in Owner : c.owners[o].state # "Vacant"}

\* get_owner_index(state).insert(o)
Indexed(c, o, state) ==
    IF state = "Active" THEN [c EXCEPT !.active_owners = @ \cup {o}]
                        ELSE [c EXCEPT !.inactive_owners = @ \cup {o}]

new == [stacks |-> [s \in Stack |-> 0], owners |-> [o \in Owner |-> NoOwner],
        active_owners |-> {}, inactive_owners |-> {}]

\* known[s] is the revision of a stack found at start, or 0; state[o] the state
\* of its owner.
from_known(known, state) ==
    LET of(o) == {s \in Stack : OwnerOf[s] = o /\ known[s] # 0}
        found == {o \in Owner : of(o) # {}}
    IN  [stacks |-> known,
         owners |-> [o \in Owner |-> IF o \in found
                                     THEN [state |-> state[o], stacks |-> of(o)]
                                     ELSE NoOwner],
         active_owners |-> {o \in found : state[o] = "Active"},
         inactive_owners |-> {o \in found : state[o] = "Inactive"}]

\* A slip: the state changes and the index does not.
IndexForgotten(c, o) ==
    IF c.owners[o].state = "Active"
    THEN [c EXCEPT !.owners[o].state = "Inactive"]
    ELSE c

make_inactive(c, o) ==
    IF c.owners[o].state = "Active"
    THEN [c EXCEPT !.owners[o].state = "Inactive",
                   !.active_owners = @ \ {o},
                   !.inactive_owners = @ \cup {o}]
    ELSE c

make_active(c, o) ==
    IF c.owners[o].state = "Inactive"
    THEN [c EXCEPT !.owners[o].state = "Active",
                   !.inactive_owners = @ \ {o},
                   !.active_owners = @ \cup {o}]
    ELSE c

all_active(c) == UNION {c.owners[o].stacks : o \in c.active_owners}

\* The state of an entry decides whether get_stack and get_metadata answer.
entry(c, s) == IF c.stacks[s] = 0 THEN "Vacant" ELSE c.owners[OwnerOf[s]].state

\* add_stack returns true when the stack is new or newer than the known one.
IsNews(c, s, r) == c.stacks[s] < r

add_stack(c, s, r) ==
    IF IsNews(c, s, r)
    THEN [c EXCEPT !.stacks[s] = r, !.owners[OwnerOf[s]].stacks = @ \cup {s}]
    ELSE c

insert_first(c, state, s, r) ==
    add_stack(Indexed([c EXCEPT !.owners[OwnerOf[s]] = [state |-> state, stacks |-> {}]],
                      OwnerOf[s], state),
              s, r)

\* remove_stack returns true only when the owner's last stack was removed.  The
\* owner is then forgotten, but stays in active_owners or inactive_owners.
RemovesOwner(c, s) == c.owners[OwnerOf[s]].stacks = {s}

\* A slip: the stack goes only with its owner.
RemovedWithOwner(c, s) ==
    IF RemovesOwner(c, s)
    THEN [c EXCEPT !.stacks[s] = 0, !.owners[OwnerOf[s]] = NoOwner]
    ELSE c

remove_stack(c, s) ==
    LET o == OwnerOf[s]
        left == IF RemovesOwner(c, s) THEN NoOwner
                ELSE [c.owners[o] EXCEPT !.stacks = c.owners[o].stacks \ {s}]
    IN  IF s \in c.owners[o].stacks
        THEN [c EXCEPT !.stacks[s] = 0, !.owners[o] = left]
        ELSE c

(***************************************************************************)
(* What the lookups of the collection take for granted when they unwrap:   *)
(* every known stack has a known owner that lists it, owners list known    *)
(* stacks only and at least one, and each is in the index of its state.    *)
(***************************************************************************)
Consistent(c) ==
    /\ \A s \in Stack : c.stacks[s] # 0 <=> s \in c.owners[OwnerOf[s]].stacks
    /\ \A o \in Owner : \A s \in c.owners[o].stacks : OwnerOf[s] = o
    /\ \A o \in Owner : c.owners[o].state = "Vacant" <=> c.owners[o].stacks = {}
    /\ \A o \in owners(c) : IF c.owners[o].state = "Active"
                            THEN o \in c.active_owners
                            ELSE o \in c.inactive_owners
=============================================================================
