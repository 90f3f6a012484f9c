------------------------- MODULE BlockchainMonitor -------------------------
(***************************************************************************)
(* The blockchain monitor of one executor                                  *)
(* (executor/src/stack/blockchain_monitor.rs): it follows the stack        *)
(* accounts of its region, the escrow balances of their owners and the     *)
(* signers of API requests through subscriptions, and tells the scheduler  *)
(* and the request signer cache (executor/src/stack/                       *)
(* request_signer_cache.rs) what is available.                             *)
(*                                                                         *)
(* The chain moves on its own.  Each subscription is a queue of updates of *)
(* its own, read in any order with respect to the others; requests to the  *)
(* RPC node see the chain as it is at that moment.  All subscriptions      *)
(* share one connection and are lost with it.                              *)
(***************************************************************************)
EXTENDS StackCollection, Sequences, FiniteSets, Functions

CONSTANTS Signer,           \* keys that sign API requests for an owner
          Nobody,           \* the owner of a signer that the cache does not hold
          MaxBalance,       \* bound: balances are 0 .. MaxBalance
          MinEscrowBalance, \* region.min_escrow_balance
          MaxTransactions,  \* bound: transactions on the chain
          MaxFailures       \* bound: lost connections and failed requests

ASSUME BalanceAssumption == MaxBalance \in Nat /\ MinEscrowBalance \in Nat
ASSUME NobodyAssumption == Nobody \notin Owner
ASSUME BoundAssumption == MaxTransactions \in Nat /\ MaxFailures \in Nat

Balance == 0 .. MaxBalance

\* A balance that escrow_balances does not hold.
NoBalance == MaxBalance + 1

SignerState == {"none", "active", "inactive"}

VARIABLES
    account,          \* chain: revision of every active stack, or 0
    deleted,          \* chain: stacks that were deleted; they never come back
    escrow,           \* chain: the escrow balance of every owner
    request_signer,   \* chain: the account of every owner and signer
    stack_stream,     \* stack updates sent and not yet read
    escrow_stream,    \* escrow updates sent and not yet read, by owner
    signer_stream,    \* request signer updates sent and not yet read
    pc,               \* "off", "subscribed", "fetched", "running" or "disconnected"
    stacks,           \* State.stacks
    escrow_balances,  \* Solana.escrow_balances
    escrow_subscriptions,  \* the owners with a subscription
    existing_signers, \* the request signers found at start, until they are sent
    available,        \* what the notifications add up to: revision, or 0
    signers,          \* State.signers of the cache: the owner of each signer
    lost_stacks,      \* history: stacks whose latest update the monitor never gets
    lost_owners,      \* history: owners of whose balance the same holds
    lost_signers,     \* history: owners and signers of which the same holds
    transactions, failures  \* counted against the bounds

chain == <<account, deleted, escrow, transactions>>
streams == <<stack_stream, escrow_stream>>
monitor == <<pc, stacks, escrow_balances, escrow_subscriptions, available>>
lost == <<lost_stacks, lost_owners>>
signing == <<request_signer, signer_stream, existing_signers, signers, lost_signers>>
vars == <<chain, streams, monitor, lost, failures, signing>>

StateFor(balance) == IF balance >= MinEscrowBalance THEN "Active" ELSE "Inactive"

Connected == pc \in {"subscribed", "fetched", "running"}
PendingStacks == {m.stack : m \in Range(stack_stream)}
PendingSigners == {<<m.owner, m.signer>> : m \in Range(signer_stream)}

Init ==
    /\ account \in [Stack -> {0, 1}]
    /\ deleted = {}
    /\ escrow \in [Owner -> Balance]
    /\ transactions = 0
    /\ stack_stream = <<>>
    /\ escrow_stream = [o \in Owner |-> <<>>]
    /\ pc = "off"
    /\ stacks = new
    /\ escrow_balances = [o \in Owner |-> NoBalance]
    /\ escrow_subscriptions = {}
    /\ available = [s \in Stack |-> 0]
    /\ lost_stacks = {}
    /\ lost_owners = {}
    /\ failures = 0
    /\ request_signer = [p \in Owner \X Signer |-> "none"]
    /\ signer_stream = <<>>
    /\ existing_signers = [k \in Signer |-> Nobody]
    /\ signers = [k \in Signer |-> Nobody]
    /\ lost_signers = {}

----------------------------------------------------------------------------
(***************************************************************************)
(* The chain.  A stack update with revision 0 says that the account is in  *)
(* state Deleted.                                                          *)
(***************************************************************************)
StackChanges(s, revision) ==
    /\ transactions < MaxTransactions
    /\ transactions' = transactions + 1
    /\ account' = [account EXCEPT ![s] = revision]
    /\ stack_stream' = IF Connected
                       THEN Append(stack_stream, [stack |-> s, revision |-> revision])
                       ELSE stack_stream
    /\ lost_stacks' = IF pc = "disconnected" THEN lost_stacks \cup {s} ELSE lost_stacks
    /\ UNCHANGED <<escrow, escrow_stream, monitor, lost_owners, failures, signing>>

\* The transactions create_stack, update_stack and delete_stack.
StackDeployed(s) ==
    /\ s \notin deleted /\ account[s] < MaxRevision
    /\ StackChanges(s, account[s] + 1)
    /\ UNCHANGED deleted

StackDeleted(s) ==
    /\ account[s] # 0
    /\ StackChanges(s, 0)
    /\ deleted' = deleted \cup {s}

\* A deposit, a withdrawal or a usage report.
EscrowChanges(o, balance) ==
    LET missed == \/ pc = "disconnected"
                  \/ pc = "fetched"
                  \/ pc = "running" /\ o \in owners(stacks) \ escrow_subscriptions
    IN  /\ balance # escrow[o] /\ transactions < MaxTransactions
        /\ transactions' = transactions + 1
        /\ escrow' = [escrow EXCEPT ![o] = balance]
        /\ escrow_stream' = IF pc = "running" /\ o \in escrow_subscriptions
                            THEN [escrow_stream EXCEPT ![o] = Append(@, balance)]
                            ELSE escrow_stream
        /\ lost_owners' = IF missed THEN lost_owners \cup {o} ELSE lost_owners
        /\ UNCHANGED <<account, deleted, stack_stream, monitor, lost_stacks, failures, signing>>

\* The transactions create_api_request_signer, activate_api_request_signer and
\* deactivate_api_request_signer.
SignerChanges(o, k, state) ==
    /\ request_signer[<<o, k>>] # state
    /\ state = "inactive" => request_signer[<<o, k>>] = "active"
    /\ transactions < MaxTransactions
    /\ transactions' = transactions + 1
    /\ request_signer' = [request_signer EXCEPT ![<<o, k>>] = state]
    /\ signer_stream' = IF Connected
                        THEN Append(signer_stream, [owner |-> o, signer |-> k, state |-> state])
                        ELSE signer_stream
    /\ lost_signers' = IF pc = "disconnected" THEN lost_signers \cup {<<o, k>>} ELSE lost_signers
    /\ UNCHANGED <<account, deleted, escrow, streams, monitor, lost, failures,
                   existing_signers, signers>>

----------------------------------------------------------------------------
(***************************************************************************)
(* start                                                                   *)
(***************************************************************************)

\* The subscription for stacks comes first, so that no stack is missed.
Subscribe ==
    /\ pc = "off"
    /\ pc' = "subscribed"
    /\ UNCHANGED <<chain, streams, stacks, escrow_balances, escrow_subscriptions,
                   available, lost, failures, signing>>

\* The lists of the accounts of a set of stacks, in whatever order the RPC node
\* sends them.
Listings(S) == Bijection(1 .. Cardinality(S), S)

\* get_owner_states groups neighbours in the list of accounts, and a later group of
\* an owner replaces an earlier.
GroupReplaced(order, i) ==
    \E j, k \in DOMAIN order :
        /\ i < j /\ j < k
        /\ OwnerOf[order[j]] # OwnerOf[order[i]]
        /\ OwnerOf[order[k]] = OwnerOf[order[i]]

Kept(order) ==
    [s \in Stack |-> IF \E i \in DOMAIN order : order[i] = s /\ ~GroupReplaced(order, i)
                     THEN account[s] ELSE 0]

\* get_program_accounts, then the escrow balance of every owner found.
FetchExisting ==
    /\ pc = "subscribed"
    /\ \E order \in Listings({s \in Stack : account[s] # 0}) :
           LET c == from_known(Kept(order), [o \in Owner |-> StateFor(escrow[o])])
           IN  /\ stacks' = c
               /\ escrow_balances' =
                      [o \in Owner |-> IF o \in owners(c) THEN escrow[o] ELSE NoBalance]
               /\ lost_stacks' = {order[i] : i \in {j \in DOMAIN order : GroupReplaced(order, j)}}
    \* Of several owners with the signer, the one who is last in the reply.
    /\ existing_signers' \in
           {f \in [Signer -> Owner \cup {Nobody}] :
               \A k \in Signer :
                   LET active == {o \in Owner : request_signer[<<o, k>>] = "active"}
                   IN  f[k] \in IF active = {} THEN {Nobody} ELSE active}
    /\ pc' = "fetched"
    /\ UNCHANGED <<chain, streams, escrow_subscriptions, available, lost_owners, failures,
                   request_signer, signer_stream, signers, lost_signers>>

\* The escrow subscriptions come last; then the request signers are reported, and
\* the mailbox starts and reports the stacks of active owners.
SubscribeToEscrows ==
    /\ pc = "fetched"
    /\ pc' = "running"
    /\ escrow_subscriptions' = owners(stacks)
    /\ available' = [s \in Stack |-> IF s \in all_active(stacks) THEN stacks.stacks[s] ELSE 0]
    /\ signers' = existing_signers
    /\ existing_signers' = [k \in Signer |-> Nobody]
    /\ UNCHANGED <<chain, streams, stacks, escrow_balances, lost, failures,
                   request_signer, signer_stream, lost_signers>>

----------------------------------------------------------------------------
(***************************************************************************)
(* mailbox_body                                                            *)
(***************************************************************************)

\* A slip: only a stack that was unknown is reported.
NewRevisionUnreported(s, revision) ==
    /\ OwnerOf[s] \in owners(stacks)
    /\ stacks' = add_stack(stacks, s, revision)
    /\ available' = IF stacks.stacks[s] = 0
                    THEN [available EXCEPT ![s] = revision] ELSE available
    /\ lost_stacks' = lost_stacks \ {s}
    /\ UNCHANGED <<lost_owners, failures>>

\* A stack of a known owner is reported whatever the owner's state.
KnownOwnersStack(s, revision) ==
    /\ OwnerOf[s] \in owners(stacks)
    /\ stacks' = add_stack(stacks, s, revision)
    /\ available' = IF IsNews(stacks, s, revision)
                    THEN [available EXCEPT ![s] = revision] ELSE available
    /\ lost_stacks' = lost_stacks \ {s}
    /\ UNCHANGED <<lost_owners, failures>>

\* So is the first stack of a new owner, whose escrow balance is requested but
\* neither kept in escrow_balances nor subscribed to.
NewOwnersStack(s, revision) ==
    /\ OwnerOf[s] \notin owners(stacks)
    /\ stacks' = insert_first(stacks, StateFor(escrow[OwnerOf[s]]), s, revision)
    /\ available' = [available EXCEPT ![s] = revision]
    /\ lost_stacks' = lost_stacks \ {s}
    /\ lost_owners' = lost_owners \ {OwnerOf[s]}
    /\ UNCHANGED failures

\* The request fails and the update is dropped.
NewOwnersBalanceUnknown(s) ==
    /\ OwnerOf[s] \notin owners(stacks)
    /\ failures < MaxFailures
    /\ failures' = failures + 1
    /\ lost_stacks' = lost_stacks \cup {s}
    /\ UNCHANGED <<stacks, available, lost_owners>>

\* The removal is reported only with the owner's last stack.
DeletedStack(s) ==
    /\ stacks' = remove_stack(stacks, s)
    /\ available' = IF RemovesOwner(stacks, s)
                    THEN [available EXCEPT ![s] = 0] ELSE available
    /\ lost_stacks' = lost_stacks \ {s}
    /\ UNCHANGED <<lost_owners, failures>>

on_new_stack_received ==
    /\ pc = "running" /\ stack_stream # <<>>
    /\ LET update == Head(stack_stream)
       IN  IF update.revision = 0
           THEN DeletedStack(update.stack)
           ELSE \/ KnownOwnersStack(update.stack, update.revision)
                \/ NewOwnersStack(update.stack, update.revision)
                \/ NewOwnersBalanceUnknown(update.stack)
    /\ stack_stream' = Tail(stack_stream)
    /\ UNCHANGED <<chain, escrow_stream, pc, escrow_balances, escrow_subscriptions, signing>>

\* A slip: the cache keeps a signer that was deactivated.
DeactivationIgnored(update) ==
    [signers EXCEPT ![update.signer] =
        IF update.state = "active" THEN update.owner ELSE @]

\* signers_available and signers_removed: a removal does not name the owner.
AfterSignerUpdate(update) ==
    [signers EXCEPT ![update.signer] =
        IF update.state = "active" THEN update.owner ELSE Nobody]

on_request_signer_received ==
    /\ pc = "running" /\ signer_stream # <<>>
    /\ LET update == Head(signer_stream)
       IN  /\ signers' = AfterSignerUpdate(update)
           /\ lost_signers' = lost_signers \ {<<update.owner, update.signer>>}
    /\ signer_stream' = Tail(signer_stream)
    /\ UNCHANGED <<chain, streams, monitor, lost, failures, request_signer, existing_signers>>

\* A slip: a balance of exactly the minimum is too little, as in is_over_minimum.
MinimumIsTooLittle(o) ==
    LET balance == Head(escrow_stream[o])
        state == IF balance > MinEscrowBalance THEN "Active" ELSE "Inactive"
        old == stacks.owners[o].state
    IN  /\ pc = "running" /\ escrow_stream[o] # <<>>
        /\ escrow_balances' = [escrow_balances EXCEPT ![o] = balance]
        /\ stacks' = IF state = "Active" THEN make_active(stacks, o)
                                         ELSE make_inactive(stacks, o)
        /\ available' = [s \in Stack |->
               IF old # "Vacant" /\ old # state /\ s \in stacks.owners[o].stacks
               THEN IF state = "Active" THEN stacks.stacks[s] ELSE 0
               ELSE available[s]]
        /\ escrow_stream' = [escrow_stream EXCEPT ![o] = Tail(@)]
        /\ UNCHANGED <<chain, stack_stream, pc, escrow_subscriptions, lost, failures, signing>>

on_solana_escrow_updated(o) ==
    LET balance == Head(escrow_stream[o])
        state == StateFor(balance)
        old == stacks.owners[o].state
    IN  /\ pc = "running" /\ escrow_stream[o] # <<>>
        /\ escrow_balances' = [escrow_balances EXCEPT ![o] = balance]
        /\ stacks' = IF state = "Active" THEN make_active(stacks, o)
                                         ELSE make_inactive(stacks, o)
        /\ available' = [s \in Stack |->
               IF old # "Vacant" /\ old # state /\ s \in stacks.owners[o].stacks
               THEN IF state = "Active" THEN stacks.stacks[s] ELSE 0
               ELSE available[s]]
        /\ escrow_stream' = [escrow_stream EXCEPT ![o] = Tail(@)]
        /\ UNCHANGED <<chain, stack_stream, pc, escrow_subscriptions, lost, failures, signing>>

\* The connection breaks, with the updates that were on their way.
Disconnect ==
    /\ pc = "running" /\ failures < MaxFailures
    /\ failures' = failures + 1
    /\ pc' = "disconnected"
    /\ lost_stacks' = lost_stacks \cup PendingStacks
    /\ lost_owners' = lost_owners \cup {o \in Owner : escrow_stream[o] # <<>>}
    /\ stack_stream' = <<>>
    /\ escrow_stream' = [o \in Owner |-> <<>>]
    /\ lost_signers' = lost_signers \cup PendingSigners
    /\ signer_stream' = <<>>
    /\ UNCHANGED <<chain, stacks, escrow_balances, escrow_subscriptions, available,
                   request_signer, existing_signers, signers>>

\* The subscriptions are set up anew; what happened in between is not asked for.
reconnect_solana_subscriber ==
    /\ pc = "disconnected"
    /\ pc' = "running"
    /\ escrow_subscriptions' = owners(stacks)
    /\ UNCHANGED <<chain, streams, stacks, escrow_balances, available, lost, failures, signing>>

Transaction ==
    \/ \E s \in Stack : StackDeployed(s) \/ StackDeleted(s)
    \/ \E o \in Owner : \E balance \in Balance : EscrowChanges(o, balance)
    \/ \E o \in Owner, k \in Signer : \E state \in SignerState \ {"none"} : SignerChanges(o, k, state)

Start == Subscribe \/ FetchExisting \/ SubscribeToEscrows

Next ==
    \/ Transaction
    \/ Start
    \/ on_new_stack_received
    \/ on_request_signer_received
    \/ \E o \in Owner : on_solana_escrow_updated(o)
    \/ Disconnect
    \/ reconnect_solana_subscriber

\* The mailbox serves each stream again and again, and reconnects until it
\* succeeds.
Fairness ==
    /\ WF_vars(Start)
    /\ WF_vars(on_new_stack_received)
    /\ WF_vars(on_request_signer_received)
    /\ \A o \in Owner : WF_vars(on_solana_escrow_updated(o))
    /\ WF_vars(reconnect_solana_subscriber)

Spec == Init /\ [][Next]_vars /\ Fairness

----------------------------------------------------------------------------
TypeOK ==
    /\ account \in [Stack -> {0} \cup Revision]
    /\ deleted \in SUBSET Stack
    /\ escrow \in [Owner -> Balance]
    /\ stack_stream \in Seq([stack : Stack, revision : {0} \cup Revision])
    /\ escrow_stream \in [Owner -> Seq(Balance)]
    /\ pc \in {"off", "subscribed", "fetched", "running", "disconnected"}
    /\ stacks \in Collection
    /\ escrow_balances \in [Owner -> Balance \cup {NoBalance}]
    /\ escrow_subscriptions \in SUBSET Owner
    /\ available \in [Stack -> {0} \cup Revision]
    /\ lost_stacks \in SUBSET Stack
    /\ lost_owners \in SUBSET Owner
    /\ request_signer \in [Owner \X Signer -> SignerState]
    /\ signer_stream \in Seq([owner : Owner, signer : Signer, state : SignerState])
    /\ existing_signers \in [Signer -> Owner \cup {Nobody}]
    /\ signers \in [Signer -> Owner \cup {Nobody}]
    /\ lost_signers \in SUBSET (Owner \X Signer)
    /\ transactions \in Nat
    /\ failures \in Nat

\* No lookup of the collection panics, whatever the order of updates: its maps
\* and indexes agree about every known owner.
CollectionIsConsistent == Consistent(stacks)

\* The scheduler has been told, by the notifications so far, of every stack of
\* an active owner, in the revision the monitor knows.
ActiveStacksAreAvailable ==
    pc \in {"running", "disconnected"} =>
        \A s \in Stack : entry(stacks, s) = "Active" => available[s] = stacks.stacks[s]

\* The monitor ends up with the chain's stacks.  A stack whose latest update was
\* not lost (by a broken connection, a failed request, or in the grouping at
\* start) is known in exactly its revision once the stream has been read: the
\* subscription overlaps the fetch at start, old revisions and deletions that
\* come twice do no harm.
StacksCatchUp ==
    pc \in {"running", "disconnected"} =>
        \A s \in Stack \ (lost_stacks \cup PendingStacks) : stacks.stacks[s] = account[s]

\* The state of a known owner follows the escrow balance once the stream has
\* been read, unless the latest update was lost or came while nobody listened.
OwnersCatchUp ==
    pc \in {"running", "disconnected"} =>
        \A o \in owners(stacks) \ lost_owners :
            escrow_stream[o] = <<>> => stacks.owners[o].state = StateFor(escrow[o])

\* is_valid_signer of the cache; its stacks are the ones it was told of together
\* with the scheduler.
is_valid_signer(s, k) ==
    /\ available[s] # 0
    /\ k = OwnerOf[s] \/ signers[k] = OwnerOf[s]

\* The cache accepts a signer for a stack, other than its owner, exactly when the
\* owner has the signer active, once the stream has been read: the stream begins
\* before the fetch at start and repeats what that has seen, and each is sent to
\* the cache in turn.  A signer that several owners registered may be refused to
\* all of them, since the cache holds one owner for each signer, but it is never
\* accepted for an owner who has deactivated it.
SignersCatchUp ==
    pc \in {"running", "disconnected"} =>
        \A s \in Stack, k \in Signer :
            LET o == OwnerOf[s]
                only == \A p \in Owner \ {o} : request_signer[<<p, k>>] = "none"
            IN  k # o /\ <<o, k>> \notin lost_signers \cup PendingSigners =>
                    /\ is_valid_signer(s, k) => request_signer[<<o, k>>] = "active"
                    /\ (available[s] # 0 /\ only /\ request_signer[<<o, k>>] = "active") =>
                           is_valid_signer(s, k)

----------------------------------------------------------------------------
(***************************************************************************)
(* A claim of the documentation that the code does not keep.               *)
(***************************************************************************)

\* README.md: "Once a client's escrow account balance falls below this value,
\* their stacks will be made unavailable".
UnderfundedStacksBecomeUnavailable ==
    \A o \in Owner :
        LET unpaid == /\ escrow[o] < MinEscrowBalance
                      /\ \E s \in Stack : OwnerOf[s] = o /\ available[s] # 0
        IN  unpaid ~> ~unpaid
=============================================================================
