---------------------------- MODULE Marketplace ----------------------------
(***************************************************************************)
(* The smart contract (marketplace/programs/marketplace/src/lib.rs): the   *)
(* accounts of providers, regions, stacks, request signers and escrows,    *)
(* and the tokens that move between them.                                  *)
(*                                                                         *)
(* A transaction is atomic: it takes place as a whole or, when one of its  *)
(* account constraints or transfers fails, not at all.  The constraints of *)
(* an instruction are an operator with the name of its Accounts struct.    *)
(* An account address is derived from its seeds, so accounts are indexed   *)
(* by them: a provider by its owner, an escrow by user and provider, a     *)
(* stack by its user, region and seed, a usage update by stack and seed.   *)
(* Signatures are taken as given: an action is a transaction of the party  *)
(* that has to sign it.                                                    *)
(***************************************************************************)
EXTENDS Billing, FiniteSets, Functions

CONSTANTS User, Provider, Region, Stack, Signer, Authorizer, Seed,
          ProviderOf,     \* ProviderOf[r]: the provider of region r
          UserOf,         \* UserOf[s]: the user of stack s
          RegionOf,       \* RegionOf[s]: the region of stack s
          Rates,          \* the service rates a region may have
          Usage,          \* the usage a report may have
          NoReport,       \* no UsageUpdate account
          MaxTokens,      \* bound: a wallet starts with this much
          MaxDeposit,     \* bound: the provider deposit
          MaxRevision     \* bound: how often a stack is updated

ASSUME OwnershipAssumption ==
    /\ ProviderOf \in [Region -> Provider]
    /\ UserOf \in [Stack -> User]
    /\ RegionOf \in [Stack -> Region]
ASSUME RatesAssumption ==
    /\ Rates \subseteq [Category -> Nat]
    /\ Usage \subseteq [Category -> Nat]
    /\ NoReport \notin Usage
ASSUME BoundsAssumption == MaxTokens \in Nat /\ MaxDeposit \in Nat /\ MaxRevision \in Nat

\* Token accounts.  Wallets are ordinary ones outside the program.
Wallet(person) == <<"wallet", person>>
Escrow(u, p) == <<"escrow", u, p>>
Deposit == <<"deposit">>
Commission == <<"commission">>
WalletAccount == {Wallet(x) : x \in User \cup Provider}
EscrowAccount == {Escrow(u, p) : u \in User, p \in Provider}
TokenAccount == WalletAccount \cup EscrowAccount \cup {Deposit, Commission}

VARIABLES
    state,           \* MuState
    authorizers,     \* the provider authorizers
    providers,       \* Provider accounts
    regions,         \* ProviderRegion accounts
    usage_signers,   \* the regions with an authorized usage signer
    stacks,          \* Stack accounts: revision, 0 when absent or deleted
    deleted,         \* Stack accounts in state Deleted
    request_signers, \* ApiRequestSigner accounts
    balance,         \* the amount in every token account
    escrows,         \* the escrow accounts that exist
    usage_updates,   \* UsageUpdate accounts: the usage, or NoReport
    paid_in          \* history: transfers to an escrow less withdrawals

parties == <<state, authorizers, providers>>
services == <<regions, usage_signers, stacks, deleted, request_signers>>
money == <<balance, escrows, usage_updates, paid_in>>
vars == <<parties, services, money>>

Uninitialized == [initialized |-> FALSE, commission_rate_micros |-> 0, provider_deposit |-> 0]
NoProvider == [exists |-> FALSE, authorized |-> FALSE, deposit |-> 0]
NoRegion == [exists |-> FALSE, rates |-> NoUsage]

Init ==
    /\ state = Uninitialized
    /\ authorizers = {}
    /\ providers = [p \in Provider |-> NoProvider]
    /\ regions = [r \in Region |-> NoRegion]
    /\ usage_signers = {}
    /\ stacks = [s \in Stack |-> 0]
    /\ deleted = {}
    /\ request_signers = [k \in User \X Signer \X Region |-> "none"]
    /\ balance = [a \in TokenAccount |-> IF a \in WalletAccount THEN MaxTokens ELSE 0]
    /\ escrows = {}
    /\ usage_updates = [k \in Stack \X Seed |-> NoReport]
    /\ paid_in = [a \in EscrowAccount |-> 0]

\* A transfer needs the whole amount in the account it is taken from.
Transfer(b, from, to, amount) ==
    [a \in TokenAccount |->
        b[a] - (IF a = from THEN amount ELSE 0) + (IF a = to THEN amount ELSE 0)]

----------------------------------------------------------------------------
(***************************************************************************)
(* The program's authority, authorizers and providers                      *)
(***************************************************************************)

initialize(commission_rate_micros, provider_deposit) ==
    /\ ~state.initialized
    /\ commission_rate_micros <= MICROS
    /\ state' = [initialized |-> TRUE, commission_rate_micros |-> commission_rate_micros,
                 provider_deposit |-> provider_deposit]
    /\ UNCHANGED <<authorizers, providers, services, money>>

update_provider_deposit(provider_deposit) ==
    /\ state.initialized
    /\ state' = [state EXCEPT !.provider_deposit = provider_deposit]
    /\ UNCHANGED <<authorizers, providers, services, money>>

create_provider_authorizer(x) ==
    /\ state.initialized /\ x \notin authorizers
    /\ authorizers' = authorizers \cup {x}
    /\ UNCHANGED <<state, providers, services, money>>

CreateProvider(p) == state.initialized /\ ~providers[p].exists

create_provider(p) ==
    /\ CreateProvider(p)
    /\ balance[Wallet(p)] >= state.provider_deposit
    /\ balance' = Transfer(balance, Wallet(p), Deposit, state.provider_deposit)
    /\ providers' = [providers EXCEPT ![p] =
           [exists |-> TRUE, authorized |-> FALSE, deposit |-> state.provider_deposit]]
    /\ UNCHANGED <<state, authorizers, services, escrows, usage_updates, paid_in>>

AuthorizeProvider(x, p) == x \in authorizers /\ providers[p].exists

authorize_provider(x, p) ==
    /\ AuthorizeProvider(x, p)
    /\ providers' = [providers EXCEPT ![p].authorized = TRUE]
    /\ UNCHANGED <<state, authorizers, services, money>>

CreateRegion(r) == providers[ProviderOf[r]].exists /\ ~regions[r].exists

\* A slip: the provider need not be authorized.
UnauthorizedRegion(r, rates) ==
    /\ CreateRegion(r)
    /\ regions' = [regions EXCEPT ![r] = [exists |-> TRUE, rates |-> rates]]
    /\ UNCHANGED <<parties, usage_signers, stacks, deleted, request_signers, money>>

create_region(r, rates) ==
    /\ CreateRegion(r)
    /\ providers[ProviderOf[r]].authorized
    /\ regions' = [regions EXCEPT ![r] = [exists |-> TRUE, rates |-> rates]]
    /\ UNCHANGED <<parties, usage_signers, stacks, deleted, request_signers, money>>

\* The account that usage is paid to is the provider's wallet.
CreateAuthorizedUsageSigner(r) == regions[r].exists /\ r \notin usage_signers

create_authorized_usage_signer(r) ==
    /\ CreateAuthorizedUsageSigner(r)
    /\ usage_signers' = usage_signers \cup {r}
    /\ UNCHANGED <<parties, regions, stacks, deleted, request_signers, money>>

----------------------------------------------------------------------------
(***************************************************************************)
(* Developers: stacks and request signers                                  *)
(***************************************************************************)
Absent(s) == stacks[s] = 0 /\ s \notin deleted

CreateStack(s) == regions[RegionOf[s]].exists /\ Absent(s)

create_stack(s) ==
    /\ CreateStack(s)
    /\ providers[ProviderOf[RegionOf[s]]].authorized
    /\ stacks' = [stacks EXCEPT ![s] = 1]
    /\ UNCHANGED <<parties, regions, usage_signers, deleted, request_signers, money>>

\* CannotOperateOnDeletedStack: the account has to be in state Active.
update_stack(s) ==
    /\ stacks[s] \in 1 .. MaxRevision - 1
    /\ stacks' = [stacks EXCEPT ![s] = @ + 1]
    /\ UNCHANGED <<parties, regions, usage_signers, deleted, request_signers, money>>

delete_stack(s) ==
    /\ stacks[s] # 0
    /\ stacks' = [stacks EXCEPT ![s] = 0]
    /\ deleted' = deleted \cup {s}
    /\ UNCHANGED <<parties, regions, usage_signers, request_signers, money>>

SignerBecomes(key, from, to) ==
    /\ request_signers[key] \in from
    /\ request_signers' = [request_signers EXCEPT ![key] = to]
    /\ UNCHANGED <<parties, regions, usage_signers, stacks, deleted, money>>

create_api_request_signer(key) ==
    regions[key[3]].exists /\ SignerBecomes(key, {"none"}, "active")
activate_api_request_signer(key) == SignerBecomes(key, {"active", "inactive"}, "active")
deactivate_api_request_signer(key) == SignerBecomes(key, {"active", "inactive"}, "inactive")

----------------------------------------------------------------------------
(***************************************************************************)
(* Escrows and usage                                                       *)
(***************************************************************************)
CreateProviderEscrowAccount(u, p) ==
    state.initialized /\ providers[p].exists /\ Escrow(u, p) \notin escrows

create_provider_escrow_account(u, p) ==
    /\ CreateProviderEscrowAccount(u, p)
    /\ escrows' = escrows \cup {Escrow(u, p)}
    /\ UNCHANGED <<parties, services, balance, usage_updates, paid_in>>

\* A plain token transfer; the program has no part in it.
recharge(u, p, amount) ==
    /\ Escrow(u, p) \in escrows
    /\ balance[Wallet(u)] >= amount
    /\ balance' = Transfer(balance, Wallet(u), Escrow(u, p), amount)
    /\ paid_in' = [paid_in EXCEPT ![Escrow(u, p)] = @ + amount]
    /\ UNCHANGED <<parties, services, escrows, usage_updates>>

\* The developer names the token account to pay to; here it is their wallet.
withdraw_escrow_balance(u, p, amount) ==
    /\ Escrow(u, p) \in escrows
    /\ balance[Escrow(u, p)] >= amount
    /\ balance' = Transfer(balance, Escrow(u, p), Wallet(u), amount)
    /\ paid_in' = [paid_in EXCEPT ![Escrow(u, p)] = @ - amount]
    /\ UNCHANGED <<parties, services, escrows, usage_updates>>

EscrowOf(s) == Escrow(UserOf[s], ProviderOf[RegionOf[s]])

\* A slip: an update seed may be used again.
SeedReused(s, seed) ==
    /\ RegionOf[s] \in usage_signers
    /\ ~Absent(s)
    /\ EscrowOf(s) \in escrows

\* The stack may be deleted: its last usage is reported after that.
UpdateUsage(s, seed) ==
    /\ RegionOf[s] \in usage_signers
    /\ ~Absent(s)
    /\ EscrowOf(s) \in escrows
    /\ usage_updates[<<s, seed>>] = NoReport

\* The price is paid from the escrow in two transfers.
Charge(s, price) ==
    LET rate == state.commission_rate_micros
        paid == Transfer(balance, EscrowOf(s), Wallet(ProviderOf[RegionOf[s]]),
                         provider_tokens(price, rate))
    IN  /\ balance[EscrowOf(s)] >= provider_tokens(price, rate)
        /\ paid[EscrowOf(s)] >= commission_tokens(price, rate)
        /\ balance' = Transfer(paid, EscrowOf(s), Commission, commission_tokens(price, rate))

update_usage(s, seed, usage) ==
    /\ UpdateUsage(s, seed)
    /\ Charge(s, calc_usage(regions[RegionOf[s]].rates, usage))
    /\ usage_updates' = [usage_updates EXCEPT ![<<s, seed>>] = usage]
    /\ UNCHANGED <<parties, services, escrows, paid_in>>

----------------------------------------------------------------------------
Next ==
    \/ \E c \in 0 .. MICROS + 1, d \in 0 .. MaxDeposit : initialize(c, d)
    \/ \E d \in 0 .. MaxDeposit : update_provider_deposit(d)
    \/ \E x \in Authorizer : create_provider_authorizer(x)
    \/ \E p \in Provider : create_provider(p) \/ \E x \in Authorizer : authorize_provider(x, p)
    \/ \E r \in Region : create_authorized_usage_signer(r)
                         \/ \E rates \in Rates : create_region(r, rates)
    \/ \E s \in Stack : create_stack(s) \/ update_stack(s) \/ delete_stack(s)
    \/ \E key \in User \X Signer \X Region :
           \/ create_api_request_signer(key)
           \/ activate_api_request_signer(key)
           \/ deactivate_api_request_signer(key)
    \/ \E u \in User, p \in Provider :
           \/ create_provider_escrow_account(u, p)
           \/ \E amount \in 1 .. MaxTokens :
                  recharge(u, p, amount) \/ withdraw_escrow_balance(u, p, amount)
    \/ \E s \in Stack, seed \in Seed, usage \in Usage : update_usage(s, seed, usage)

Spec == Init /\ [][Next]_vars

----------------------------------------------------------------------------
TypeOK ==
    /\ state \in [initialized : BOOLEAN, commission_rate_micros : 0 .. MICROS,
                  provider_deposit : Nat]
    /\ authorizers \in SUBSET Authorizer
    /\ providers \in [Provider -> [exists : BOOLEAN, authorized : BOOLEAN, deposit : Nat]]
    /\ regions \in [Region -> [exists : BOOLEAN, rates : Rates \cup {NoUsage}]]
    /\ usage_signers \in SUBSET Region
    /\ stacks \in [Stack -> Nat]
    /\ deleted \in SUBSET Stack
    /\ request_signers \in [User \X Signer \X Region -> {"none", "active", "inactive"}]
    /\ balance \in [TokenAccount -> Nat]
    /\ escrows \in SUBSET EscrowAccount
    /\ usage_updates \in [Stack \X Seed -> Usage \cup {NoReport}]
    /\ paid_in \in [EscrowAccount -> Int]

\* Accounts rest on each other, in whatever order the parties created them: what
\* a region, a stack, a signer or a usage report refers to exists, and a provider
\* that serves anyone was authorized and had been created with a deposit.
RegionsAreAuthorized == \A r \in Region : regions[r].exists => providers[ProviderOf[r]].authorized
ProvidersExist == \A p \in Provider : providers[p].authorized => providers[p].exists
StacksHaveRegions == \A s \in Stack : ~Absent(s) => regions[RegionOf[s]].exists
SignersHaveRegions ==
    /\ \A r \in usage_signers : regions[r].exists
    /\ \A key \in User \X Signer \X Region : request_signers[key] # "none" => regions[key[3]].exists
ReportsAreBacked ==
    \A s \in Stack, seed \in Seed : usage_updates[<<s, seed>>] # NoReport =>
        ~Absent(s) /\ EscrowOf(s) \in escrows /\ RegionOf[s] \in usage_signers

ServedByAuthorizedProviders ==
    RegionsAreAuthorized /\ ProvidersExist /\ StacksHaveRegions /\ SignersHaveRegions
    /\ ReportsAreBacked

\* The books of an escrow agree: what was paid in, less the price of each usage
\* report on chain, is what is left.  No report is charged twice, to the wrong
\* escrow, or at a price other than its provider's and its region's.
Price(k) == calc_usage(regions[RegionOf[k[1]]].rates, usage_updates[k])
Reports(a) == {k \in Stack \X Seed : usage_updates[k] # NoReport /\ EscrowOf(k[1]) = a}
Charges(a) == [k \in Reports(a) |-> Price(k)]
EscrowBooksBalance ==
    \A a \in EscrowAccount : balance[a] = paid_in[a] - SumFunction(Charges(a))

\* A deleted stack never comes back, and the revision of a stack that is there
\* goes up one at a time: the executors recognise news by it.
StackRevisionsOnlyGrow ==
    [][\A s \in Stack :
           /\ s \in deleted => s \in deleted' /\ stacks'[s] = 0
           /\ stacks[s] # 0 => s \in deleted' \/ stacks'[s] - stacks[s] \in {0, 1}]_vars
=============================================================================
