----------------------------- MODULE Publishing -----------------------------
(***************************************************************************)
(* The deployment of a project with `mu deploy` (execute_deploy of         *)
(* cli/src/commands.rs): the CLI uploads the functions through the API of  *)
(* the executor (executor/src/api.rs), one after the other, and then       *)
(* creates or updates the stack account of the marketplace program.        *)
(*                                                                         *)
(* One developer runs the command several times, also at once.  A project  *)
(* is a version and the binaries of its functions in the order of the      *)
(* manifest; a binary stands for its file id, which is its hash.  Every    *)
(* request may fail, before or after it took effect.                       *)
(***************************************************************************)
EXTENDS Naturals, Sequences, SequencesExt

CONSTANTS Run,              \* runs of the command; each may be run again
          Seed,             \* the seeds that tell the stacks of a region apart
          Project,          \* [version, functions] of what is deployed
          MinEscrowBalance, \* region.min_escrow_balance
          MaxBalance,       \* bound: balances are 0 .. MaxBalance
          MaxRevision,      \* bound: no command is started at this revision
          MaxChanges,       \* bound: changes of the balance, and deletions
          MaxFaults         \* bound: failing requests and interrupted commands

ASSUME PublishingBounds ==
    {MinEscrowBalance, MaxBalance, MaxRevision, MaxChanges, MaxFaults} \subseteq Nat
ASSUME ProjectAssumption ==
    \A p \in Project : /\ Len(p.functions) \in Nat
                       /\ DOMAIN p.functions = 1 .. Len(p.functions)

VARIABLES
    cli,        \* a run of the command
    api,        \* the request that a run makes, in the executor
    files,      \* the developer's binaries in the storage FUNCTIONS
    account,    \* the stack account of each seed
    balance,    \* the escrow balance as the blockchain monitor reports it
    changes, faults,
    clean       \* history: the runs that nothing stands in the way of

vars == <<cli, api, files, account, balance, changes, faults, clean>>

NoProject == [version |-> 0, functions |-> <<>>]
NoStack == [state |-> "none", revision |-> 0, project |-> NoProject]
Idle == [at |-> "idle", flags |-> {}, seed |-> 0, project |-> NoProject, next |-> 0]
NoRequest == [at |-> "none"]

Init ==
    /\ cli = [r \in Run |-> Idle]
    /\ api = [r \in Run |-> NoRequest]
    /\ files = {}
    /\ account = [s \in Seed |-> NoStack]
    /\ balance \in 0 .. MaxBalance
    /\ changes = 0 /\ faults = 0
    /\ clean = {}

Busy(r) == cli[r].at # "idle"
Goes(r, at) == cli' = [cli EXCEPT ![r].at = at]
Ends(r) == cli' = [cli EXCEPT ![r] = Idle]

\* A balance of exactly the minimum is not over it.
is_over_minimum == balance > MinEscrowBalance

get_deploy_mode(flags) ==
    CASE flags = {"init", "update"} -> "invalid"
      [] flags = {"init"} -> "InitOnly"
      [] flags = {"update"} -> "UpdateOnly"
      [] OTHER -> "Automatic"

\* This does not ask for a newer version, just for another one.
ensure_newer_version(existing, project) == existing.project.version # project.version

\* The instruction that `deploy` decides on after it has read the account.
Instruction(existing, mode, project) ==
    IF existing.state = "none" /\ mode \in {"InitOnly", "Automatic"} THEN "create_stack"
    ELSE IF /\ existing.state = "active" /\ mode \in {"UpdateOnly", "Automatic"}
            /\ ensure_newer_version(existing, project)
         THEN "update_stack"
         ELSE "refused"

----------------------------------------------------------------------------
(***************************************************************************)
(* The command                                                             *)
(***************************************************************************)

\* Nothing speaks against the run: the account is as its flags ask for, the
\* balance suffices, and none of the binaries is stored or being uploaded.
Welcome(r, flags, s, project) ==
    /\ Instruction(account[s], get_deploy_mode(flags), project) # "refused"
    /\ is_over_minimum
    /\ IsInjective(project.functions)
    /\ Range(project.functions) \cap files = {}
    /\ \A q \in Run \ {r} : ~Busy(q) /\ api[q] = NoRequest

\* The manifest is read and built.  A second run disturbs the first.
Start(r, flags, s, project) ==
    /\ ~Busy(r) /\ api[r] = NoRequest
    /\ account[s].revision < MaxRevision
    /\ cli' = [cli EXCEPT ![r] = [at |-> "upload", flags |-> flags, seed |-> s,
                                  project |-> project, next |-> 1]]
    /\ clean' = IF Welcome(r, flags, s, project) THEN {r}
                ELSE {q \in clean : ~Busy(q) /\ q # r}
    /\ UNCHANGED <<api, files, account, balance, changes, faults>>

\* upload_function, for the next function of the manifest.
upload_function(r) ==
    /\ cli[r].at = "upload" /\ cli[r].next <= Len(cli[r].project.functions)
    /\ Goes(r, "waiting")
    /\ api' = [api EXCEPT ![r] = [at |-> "received",
                                  file |-> cli[r].project.functions[cli[r].next]]]
    /\ UNCHANGED <<files, account, balance, changes, faults, clean>>

\* `send` returns an error for every status but success, and so does the command.
GetReply(r) ==
    /\ cli[r].at = "waiting" /\ api[r].at \in {"ok", "error"}
    /\ IF api[r].at = "ok"
       THEN cli' = [cli EXCEPT ![r].at = "upload", ![r].next = @ + 1]
       ELSE Ends(r)
    /\ api' = [api EXCEPT ![r] = NoRequest]
    /\ UNCHANGED <<files, account, balance, changes, faults, clean>>

\* The flags are only looked at now; then `deploy` reads the account.
ReadAccount(r) ==
    /\ cli[r].at = "upload" /\ cli[r].next > Len(cli[r].project.functions)
    /\ LET i == Instruction(account[cli[r].seed], get_deploy_mode(cli[r].flags), cli[r].project)
       IN  IF i = "refused" THEN Ends(r) ELSE Goes(r, i)
    /\ UNCHANGED <<api, files, account, balance, changes, faults, clean>>

\* The command is interrupted, cannot reach the API or the chain, or has waited
\* for five minutes.  The executor goes on with the request.
Interrupt(r) ==
    /\ Busy(r) /\ faults < MaxFaults
    /\ faults' = faults + 1
    /\ Ends(r)
    /\ clean' = clean \ {r}
    /\ UNCHANGED <<api, files, account, balance, changes>>

----------------------------------------------------------------------------
(***************************************************************************)
(* The API of the executor: handle_request and execute_upload_function     *)
(***************************************************************************)
Replies(r, status) == api' = [api EXCEPT ![r].at = status]
others == <<cli, account, balance, changes>>

verify_escrow_account_balance(r) ==
    /\ api[r].at = "received"
    /\ Replies(r, IF is_over_minimum THEN "checked" ELSE "error")
    /\ UNCHANGED <<others, files, faults, clean>>

\* A slip: a file that is there already is reported as uploaded, and so is one
\* whose upload has only begun.
ListSaysDone(r) ==
    /\ api[r].at = "checked"
    /\ LET begun == {api[q].file : q \in {p \in Run \ {r} : api[p].at = "absent"}}
       IN  Replies(r, IF api[r].file \in files \cup begun THEN "ok" ELSE "absent")
    /\ UNCHANGED <<others, files, faults, clean>>

\* A slip: the name of the file is left out of the search.
ListIgnoresName(r) ==
    /\ api[r].at = "checked"
    /\ Replies(r, IF files # {} THEN "error" ELSE "absent")
    /\ UNCHANGED <<others, files, faults, clean>>

\* "this file is already uploaded" is an error.
ListFiles(r) ==
    /\ api[r].at = "checked"
    /\ Replies(r, IF api[r].file \in files THEN "error" ELSE "absent")
    /\ UNCHANGED <<others, files, faults, clean>>

PutFile(r) ==
    /\ api[r].at = "absent"
    /\ files' = files \cup {api[r].file}
    /\ Replies(r, "ok")
    /\ UNCHANGED <<others, faults, clean>>

\* A request to the blockchain monitor or to the storage fails; a file may have
\* been stored all the same.
RequestFails(r) ==
    /\ api[r].at \in {"received", "checked", "absent"} /\ faults < MaxFaults
    /\ faults' = faults + 1
    /\ files' \in {files} \cup IF api[r].at = "absent" THEN {files \cup {api[r].file}} ELSE {}
    /\ Replies(r, "error")
    /\ clean' = clean \ {r}
    /\ UNCHANGED others

\* Nobody waits for the reply any more.
ReplyIsLost(r) ==
    /\ api[r].at \in {"ok", "error"} /\ ~Busy(r)
    /\ api' = [api EXCEPT ![r] = NoRequest]
    /\ UNCHANGED <<others, files, faults, clean>>

----------------------------------------------------------------------------
(***************************************************************************)
(* The stack accounts of the marketplace program                           *)
(***************************************************************************)

\* A slip: an account that exists is initialised again.
create_stack_again(stack, project) ==
    {[state |-> "active", revision |-> 1, project |-> project]}

\* The results an instruction may have; none if the program refuses it.
create_stack(stack, project) ==
    IF stack.state = "none"
    THEN {[state |-> "active", revision |-> 1, project |-> project]} ELSE {}

update_stack(stack, project) ==
    IF stack.state = "active"
    THEN {[state |-> "active", revision |-> stack.revision + 1, project |-> project]} ELSE {}

Effect(r) ==
    LET stack == account[cli[r].seed]
    IN  IF cli[r].at = "create_stack" THEN create_stack(stack, cli[r].project)
                                      ELSE update_stack(stack, cli[r].project)

SendTransaction(r) ==
    /\ cli[r].at \in {"create_stack", "update_stack"}
    /\ \/ /\ Effect(r) = {}
          /\ Ends(r)
          /\ UNCHANGED account
       \/ \E stack \in Effect(r) :
              /\ account' = [account EXCEPT ![cli[r].seed] = stack]
              /\ Ends(r)
    /\ UNCHANGED <<api, files, balance, changes, faults, clean>>

\* The transaction goes through and the command does not hear of it.
ConfirmationIsLost(r) ==
    /\ cli[r].at \in {"create_stack", "update_stack"} /\ faults < MaxFaults
    /\ faults' = faults + 1
    /\ \E stack \in Effect(r) : account' = [account EXCEPT ![cli[r].seed] = stack]
    /\ Ends(r)
    /\ clean' = clean \ {r}
    /\ UNCHANGED <<api, files, balance, changes>>

\* `mu stack delete` and delete_stack.
Delete(s) ==
    /\ account[s].state = "active" /\ changes < MaxChanges
    /\ changes' = changes + 1
    /\ account' = [account EXCEPT ![s] = [NoStack EXCEPT !.state = "deleted"]]
    /\ clean' = {r \in clean : ~Busy(r)}
    /\ UNCHANGED <<cli, api, files, balance, faults>>

BalanceChanges(b) ==
    /\ b # balance /\ changes < MaxChanges
    /\ changes' = changes + 1
    /\ balance' = b
    /\ clean' = {r \in clean : ~Busy(r)}
    /\ UNCHANGED <<cli, api, files, account, faults>>

----------------------------------------------------------------------------
CommandStep(r) == upload_function(r) \/ GetReply(r) \/ ReadAccount(r) \/ SendTransaction(r)
ApiStep(r) ==
    \/ verify_escrow_account_balance(r) \/ ListFiles(r) \/ PutFile(r) \/ ReplyIsLost(r)

Flags == SUBSET {"init", "update"}

Next ==
    \/ \E r \in Run :
           \/ \E flags \in Flags, s \in Seed, project \in Project : Start(r, flags, s, project)
           \/ CommandStep(r) \/ ApiStep(r)
           \/ Interrupt(r) \/ RequestFails(r) \/ ConfirmationIsLost(r)
    \/ \E s \in Seed : Delete(s)
    \/ \E b \in 0 .. MaxBalance : BalanceChanges(b)

\* The command and the executor's handler are sequential code that goes on.
Fairness == \A r \in Run : WF_vars(CommandStep(r) \/ ApiStep(r))

Spec == Init /\ [][Next]_vars /\ Fairness

----------------------------------------------------------------------------
\* Every function of a stack on the chain is in the storage, where `deploy` of the
\* executor downloads it from: the binaries are uploaded before the account is
\* written, a failed upload ends the command, and two runs that upload the same
\* file at once both wait until it is stored.
DeployedFunctionsAreStored ==
    \A s \in Seed : Range(account[s].project.functions) \subseteq files

\* A command with --init only creates stacks, one with --update only updates
\* them, and a deleted stack stays deleted, though the account may change between
\* the moment the command reads it and its transaction.
FlagsAreObeyed ==
    [][\A s \in Seed : account'[s] # account[s] =>
           /\ account[s].state # "deleted"
           /\ account'[s].state = "active" =>
                  \E r \in Run :
                      /\ Busy(r) /\ cli'[r].at = "idle" /\ cli[r].seed = s
                      /\ account'[s].project = cli[r].project
                      /\ account'[s].revision = account[s].revision + 1
                      /\ IF account[s].state = "none" THEN cli[r].flags \in {{}, {"init"}}
                                                      ELSE cli[r].flags \in {{}, {"update"}}]_vars

\* A run that nothing stands in the way of succeeds, and its project is then on
\* the chain: balance, flags and version are right, its binaries are new, and
\* neither a failure nor another run nor a change of the chain gets in between.
FreshProjectsAreDeployed ==
    \A r \in Run, s \in Seed, project \in Project :
        (Busy(r) /\ cli[r].seed = s /\ cli[r].project = project /\ r \in clean) ~>
            r \notin clean \/ account[s].project = project

----------------------------------------------------------------------------
(***************************************************************************)
(* A claim of the documentation that the code does not keep.               *)
(***************************************************************************)

\* README.md: "Built function sources must be uploaded to the provider's mu Storage
\* instance using the HTTP API beforehand. This is handled automatically by the
\* CLI's `deploy` command."  So a developer who runs it again and again, with a
\* balance that suffices and a stack that is not deleted, gets a project deployed.
NewVersionsCanBeDeployed ==
    \A s \in Seed, project \in Project :
        LET tries == \E r \in Run : Busy(r) /\ cli[r].seed = s /\ cli[r].project = project
                                    /\ cli[r].flags = {}
        IN  ([]<>tries /\ <>[](is_over_minimum /\ account[s].state # "deleted")) =>
                <>(account[s].project = project)
=============================================================================
