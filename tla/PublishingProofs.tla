-------------------------- MODULE PublishingProofs --------------------------
(***************************************************************************)
(* The functions of a stack on the chain are stored, and the flags of the  *)
(* command are obeyed, for any number of runs, seeds and projects and any  *)
(* number of failures and changes.                                         *)
(***************************************************************************)
EXTENDS Publishing, TLAPS

At == {"idle", "upload", "waiting", "create_stack", "update_stack"}

Command == [at : At, flags : Flags, seed : Seed \cup {0},
            project : Project \cup {NoProject}, next : Nat]

Binary == UNION {Range(p.functions) : p \in Project \cup {NoProject}}

Request == [at : {"received", "checked", "absent", "ok", "error"}, file : Binary]

\* What run c, whose request is q, has uploaded so far: the functions before the
\* next one, and all of them once it has read the account.
Uploaded(c, stored) ==
    \A i \in DOMAIN c.project.functions :
        i < c.next \/ c.at \in {"create_stack", "update_stack"} =>
            c.project.functions[i] \in stored

\* A reply says what is stored, and the one a run waits for is about the function
\* it has sent.
Answered(c, q, stored) ==
    /\ q.at = "ok" => q.file \in stored
    /\ c.at = "waiting" => /\ q # NoRequest
                           /\ c.next \in DOMAIN c.project.functions
                           /\ q.file = c.project.functions[c.next]

\* The flags with which a run comes to send each of the instructions.
Decided(c) ==
    /\ c.at = "create_stack" => c.flags \in {{}, {"init"}}
    /\ c.at = "update_stack" => c.flags \in {{}, {"update"}}

RunInv(c, q, stored) ==
    /\ c \in Command /\ q \in {NoRequest} \cup Request
    /\ c.at # "idle" => c.next > 0 /\ c.seed \in Seed
    /\ Uploaded(c, stored) /\ Answered(c, q, stored) /\ Decided(c)

StackInv(a, stored) ==
    /\ a \in [state : {"none", "active", "deleted"}, revision : Nat,
              project : Project \cup {NoProject}]
    /\ a.state = "none" => a.revision = 0
    /\ Range(a.project.functions) \subseteq stored

Inv ==
    /\ DOMAIN cli = Run /\ DOMAIN api = Run /\ DOMAIN account = Seed
    /\ \A r \in Run : RunInv(cli[r], api[r], files)
    /\ \A s \in Seed : StackInv(account[s], files)

LEMMA Functions ==
    ASSUME NEW p \in Project \cup {NoProject}
    PROVE  Len(p.functions) \in Nat /\ DOMAIN p.functions = 1 .. Len(p.functions)
BY ProjectAssumption DEF NoProject

\* A run that is not under way.
LEMMA IdleInv ==
    ASSUME NEW q \in {NoRequest} \cup Request, NEW stored, q.at = "ok" => q.file \in stored
    PROVE  RunInv(Idle, q, stored)
<1>1. Idle \in Command
  BY DEF Idle, Command, At, Flags
<1>2. Uploaded(Idle, stored)
  BY DEF Uploaded, Idle, NoProject
<1> QED BY <1>1, <1>2 DEF RunInv, Answered, Decided, Idle

LEMMA InitInv == Init => Inv
<1> SUFFICES ASSUME Init PROVE Inv
  OBVIOUS
<1>1. RunInv(Idle, NoRequest, files)
  BY IdleInv DEF NoRequest
<1>2. StackInv(NoStack, files)
  BY DEF StackInv, NoStack, NoProject, Range
<1> QED BY <1>1, <1>2 DEF Init, Inv

\* Files are never removed, so that what was uploaded stays so.
LEMMA MoreFiles ==
    ASSUME NEW stored, NEW more, stored \subseteq more
    PROVE  /\ \A c, q : RunInv(c, q, stored) => RunInv(c, q, more)
           /\ \A a : StackInv(a, stored) => StackInv(a, more)
BY DEF RunInv, StackInv, Uploaded, Answered

\* A step of one run and its request.
LEMMA StepOfRun ==
    ASSUME Inv, NEW r \in Run, files \subseteq files', account' = account,
           DOMAIN cli' = Run, DOMAIN api' = Run,
           \A p \in Run \ {r} : cli'[p] = cli[p] /\ api'[p] = api[p],
           RunInv(cli'[r], api'[r], files')
    PROVE  Inv'
<1>1. \A p \in Run \ {r} : RunInv(cli'[p], api'[p], files')
  BY MoreFiles DEF Inv
<1>2. \A s \in Seed : StackInv(account'[s], files')
  BY MoreFiles DEF Inv
<1> QED BY <1>1, <1>2 DEF Inv
-----------------------------------------------------------------------------
(* The steps of a run, of its request and of the chain.                    *)

LEMMA StartInv ==
    ASSUME Inv, NEW r \in Run, NEW flags \in Flags, NEW s \in Seed, NEW project \in Project,
           Start(r, flags, s, project)
    PROVE  Inv'
<1> DEFINE c == [at |-> "upload", flags |-> flags, seed |-> s, project |-> project, next |-> 1]
<1>1. c \in Command
  BY DEF Command, At
<1>2. Uploaded(c, files)
  BY Functions DEF Uploaded
<1>3. RunInv(c, api[r], files)
  BY <1>1, <1>2 DEF RunInv, Inv, Answered, Decided
<1>4. cli' = [cli EXCEPT ![r] = c] /\ UNCHANGED <<api, files, account>>
  BY DEF Start
<1> QED BY <1>3, <1>4, StepOfRun DEF Inv

LEMMA UploadInv ==
    ASSUME Inv, NEW r \in Run, upload_function(r) PROVE Inv'
<1> DEFINE c == cli[r]
           q == [at |-> "received", file |-> c.project.functions[c.next]]
<1>1. RunInv(c, api[r], files) /\ c.at = "upload" /\ c.next <= Len(c.project.functions)
  BY DEF Inv, upload_function
<1>2. cli' = [cli EXCEPT ![r] = [c EXCEPT !.at = "waiting"]]
      /\ api' = [api EXCEPT ![r] = q] /\ UNCHANGED <<files, account>>
  BY DEF upload_function, Goes
<1> HIDE DEF c
<1>3. c \in Command /\ c.project \in Project \cup {NoProject} /\ c.next \in Nat \ {0}
  BY <1>1 DEF RunInv, Command
<1>4. c.next \in DOMAIN c.project.functions
  BY <1>1, <1>3, Functions
<1>5. q \in Request /\ q # NoRequest
  BY <1>3, <1>4 DEF Request, Binary, Range, NoRequest
<1>6. RunInv([c EXCEPT !.at = "waiting"], q, files)
  BY <1>1, <1>3, <1>4, <1>5 DEF RunInv, Command, At, Uploaded, Answered, Decided
<1> QED BY <1>2, <1>6, StepOfRun DEF Inv

LEMMA ReplyInv ==
    ASSUME Inv, NEW r \in Run, GetReply(r) PROVE Inv'
<1> DEFINE c == cli[r]
           next == [[c EXCEPT !.at = "upload"] EXCEPT !.next = c.next + 1]
<1>1. /\ RunInv(c, api[r], files) /\ c.at = "waiting"
      /\ api[r].at = "ok" => cli' = [cli EXCEPT ![r] = next]
      /\ api[r].at # "ok" => cli' = [cli EXCEPT ![r] = Idle]
      /\ api' = [api EXCEPT ![r] = NoRequest] /\ UNCHANGED <<files, account>>
  BY DEF Inv, GetReply, Ends
<1> HIDE DEF c
<1>2. RunInv(Idle, NoRequest, files)
  BY IdleInv DEF NoRequest
<1>3. ASSUME api[r].at = "ok" PROVE RunInv(next, NoRequest, files)
  <2>1. c \in Command /\ c.project \in Project \cup {NoProject} /\ c.next \in Nat
    BY <1>1 DEF RunInv, Command
  <2>2. \A i \in DOMAIN c.project.functions : i \in Nat
    BY <2>1, Functions
  <2>3. Uploaded(next, files)
    BY <1>1, <1>3, <2>1, <2>2 DEF RunInv, Uploaded, Answered, Command
  <2>4. c.next + 1 \in Nat /\ c.next + 1 > 0
    BY <2>1
  <2>5. next \in Command /\ next.at = "upload" /\ next.next = c.next + 1 /\ next.seed = c.seed
    BY <2>1, <2>4 DEF Command, At
  <2> QED BY <1>1, <2>3, <2>4, <2>5 DEF RunInv, Answered, Decided, NoRequest
<1>4. RunInv(cli'[r], api'[r], files')
  BY <1>1, <1>2, <1>3 DEF Inv
<1> QED BY <1>1, <1>4, StepOfRun DEF Inv

LEMMA AccountInv ==
    ASSUME Inv, NEW r \in Run, ReadAccount(r) PROVE Inv'
<1> DEFINE c == cli[r]
           mode == get_deploy_mode(c.flags)
           i == Instruction(account[c.seed], mode, c.project)
<1>1. /\ RunInv(c, api[r], files) /\ c.at = "upload" /\ c.next > Len(c.project.functions)
      /\ i = "refused" => cli' = [cli EXCEPT ![r] = Idle]
      /\ i # "refused" => cli' = [cli EXCEPT ![r] = [c EXCEPT !.at = i]]
      /\ UNCHANGED <<api, files, account>>
  BY DEF Inv, ReadAccount, Ends, Goes
<1>2. /\ i \in {"refused", "create_stack", "update_stack"}
      /\ i = "create_stack" => mode \in {"InitOnly", "Automatic"}
      /\ i = "update_stack" => mode \in {"UpdateOnly", "Automatic"}
  BY DEF Instruction
<1> HIDE DEF c, i
<1>3. c \in Command /\ c.project \in Project \cup {NoProject} /\ c.next \in Nat
      /\ c.flags \in SUBSET {"init", "update"}
  BY <1>1 DEF RunInv, Command, Flags
<1>4. /\ i = "create_stack" => c.flags \in {{}, {"init"}}
      /\ i = "update_stack" => c.flags \in {{}, {"update"}}
  <2>1. c.flags \in {{}, {"init"}, {"update"}, {"init", "update"}}
    BY <1>3
  <2> QED BY <2>1, <1>2 DEF get_deploy_mode
<1>5. RunInv(Idle, api[r], files)
  BY <1>1, IdleInv DEF RunInv, Answered
<1>6. ASSUME i # "refused" PROVE RunInv([c EXCEPT !.at = i], api[r], files)
  <2>1. \A k \in DOMAIN c.project.functions : c.project.functions[k] \in files
    BY <1>1, <1>3, Functions DEF RunInv, Uploaded
  <2> QED BY <1>1, <1>2, <1>3, <1>4, <1>6, <2>1
          DEF RunInv, Command, At, Uploaded, Answered, Decided
<1>7. RunInv(cli'[r], api'[r], files')
  BY <1>1, <1>5, <1>6 DEF Inv
<1> QED BY <1>1, <1>7, StepOfRun DEF Inv

LEMMA InterruptInv ==
    ASSUME Inv, NEW r \in Run, Interrupt(r) PROVE Inv'
<1>1. RunInv(Idle, api[r], files)
  BY IdleInv DEF Inv, RunInv, Answered
<1> QED BY <1>1, StepOfRun DEF Inv, Interrupt, Ends

\* A step of a request: its file stays, and "ok" comes with the file.
LEMMA RequestInv ==
    ASSUME Inv, NEW r \in Run, api[r] # NoRequest, NEW status \in {"checked", "absent", "ok", "error"},
           Replies(r, status), UNCHANGED <<cli, account>>, files \subseteq files',
           status = "ok" => api[r].file \in files'
    PROVE  Inv'
<1> DEFINE q == [api[r] EXCEPT !.at = status]
<1>1. RunInv(cli[r], api[r], files') /\ api[r] \in Request
  BY MoreFiles DEF Inv, RunInv
<1>2. q \in Request /\ q.at = status /\ q.file = api[r].file /\ q # NoRequest
  BY <1>1 DEF Request, NoRequest
<1>3. api' = [api EXCEPT ![r] = q]
  BY DEF Replies
<1> HIDE DEF q
<1>4. RunInv(cli[r], q, files')
  BY <1>1, <1>2 DEF RunInv, Answered
<1> QED BY <1>3, <1>4, StepOfRun DEF Inv

LEMMA ApiInv ==
    ASSUME Inv, NEW r \in Run, ApiStep(r) \/ RequestFails(r) PROVE Inv'
<1>1. CASE verify_escrow_account_balance(r)
  BY <1>1, RequestInv DEF verify_escrow_account_balance, others, NoRequest
<1>2. CASE ListFiles(r)
  BY <1>2, RequestInv DEF ListFiles, others, NoRequest
<1>3. CASE PutFile(r)
  BY <1>3, RequestInv DEF PutFile, others, NoRequest
<1>4. CASE RequestFails(r)
  BY <1>4, RequestInv DEF RequestFails, others, NoRequest
<1>5. CASE ReplyIsLost(r)
  <2>1. RunInv(cli[r], NoRequest, files)
    BY <1>5 DEF Inv, RunInv, ReplyIsLost, Busy, Answered, NoRequest
  <2> QED BY <1>5, <2>1, StepOfRun DEF Inv, ReplyIsLost, others
<1> QED BY <1>1, <1>2, <1>3, <1>4, <1>5 DEF ApiStep

\* What the transaction of a run makes of the account.
LEMMA EffectOfRun ==
    ASSUME Inv, NEW r \in Run, cli[r].at \in {"create_stack", "update_stack"},
           NEW stack \in Effect(r)
    PROVE  /\ cli[r].seed \in Seed
           /\ StackInv(stack, files)
           /\ stack.state = "active"
           /\ stack.project = cli[r].project
           /\ stack.revision = account[cli[r].seed].revision + 1
           /\ account[cli[r].seed].state = "none" => cli[r].flags \in {{}, {"init"}}
           /\ account[cli[r].seed].state # "none" => cli[r].flags \in {{}, {"update"}}
           /\ account[cli[r].seed].state # "deleted"
<1> DEFINE c == cli[r]
           a == account[c.seed]
<1>1. RunInv(c, api[r], files) /\ c.seed \in Seed
  BY DEF Inv, RunInv
<1>2. StackInv(a, files)
  BY <1>1 DEF Inv
<1>3. \/ /\ c.at = "create_stack" /\ a.state = "none"
         /\ stack = [state |-> "active", revision |-> 1, project |-> c.project]
      \/ /\ c.at = "update_stack" /\ a.state = "active"
         /\ stack = [state |-> "active", revision |-> a.revision + 1, project |-> c.project]
  BY DEF Effect, create_stack, update_stack
<1>4. c.at \in {"create_stack", "update_stack"}
  OBVIOUS
<1> HIDE DEF c, a
<1>5. c.project \in Project \cup {NoProject} /\ a.revision \in Nat
  BY <1>1, <1>2 DEF RunInv, Command, StackInv
<1>6. Range(c.project.functions) \subseteq files
  BY <1>1, <1>4 DEF RunInv, Uploaded, Range
<1>7. stack.state = "active" /\ stack.project = c.project /\ stack.revision = a.revision + 1
  BY <1>2, <1>3 DEF StackInv
<1>8. StackInv(stack, files)
  BY <1>3, <1>5, <1>6 DEF StackInv
<1>9. /\ a.state = "none" => c.flags \in {{}, {"init"}}
      /\ a.state # "none" => c.flags \in {{}, {"update"}}
      /\ a.state # "deleted"
  BY <1>1, <1>3 DEF RunInv, Decided
<1> QED BY <1>1, <1>7, <1>8, <1>9 DEF c, a

\* A step that ends a run, and may write one account.
LEMMA AccountStep ==
    ASSUME Inv, NEW r \in Run, Ends(r), UNCHANGED <<api, files>>, DOMAIN account' = Seed,
           \A s \in Seed : account'[s] = account[s] \/ StackInv(account'[s], files)
    PROVE  Inv'
<1>1. RunInv(Idle, api[r], files)
  BY IdleInv DEF Inv, RunInv, Answered
<1> QED BY <1>1 DEF Inv, Ends

LEMMA TransactionInv ==
    ASSUME Inv, NEW r \in Run, SendTransaction(r) \/ ConfirmationIsLost(r) PROVE Inv'
<1>1. /\ cli[r].at \in {"create_stack", "update_stack"}
      /\ Ends(r) /\ UNCHANGED <<api, files>>
  BY DEF SendTransaction, ConfirmationIsLost
<1>2. CASE UNCHANGED account
  BY <1>1, <1>2, AccountStep DEF Inv
<1>3. CASE \E stack \in Effect(r) : account' = [account EXCEPT ![cli[r].seed] = stack]
  <2>1. PICK stack \in Effect(r) : account' = [account EXCEPT ![cli[r].seed] = stack]
    BY <1>3
  <2>2. StackInv(stack, files)
    BY <1>1, EffectOfRun
  <2> QED BY <1>1, <2>1, <2>2, AccountStep DEF Inv
<1> QED BY <1>2, <1>3 DEF SendTransaction, ConfirmationIsLost

LEMMA DeleteInv ==
    ASSUME Inv, NEW s \in Seed, Delete(s) PROVE Inv'
<1> DEFINE gone == [NoStack EXCEPT !.state = "deleted"]
<1>1. StackInv(gone, files)
  BY DEF StackInv, NoStack, NoProject, Range
<1>2. account' = [account EXCEPT ![s] = gone] /\ UNCHANGED <<cli, api, files>>
  BY DEF Delete
<1> HIDE DEF gone
<1> QED BY <1>1, <1>2 DEF Inv

LEMMA NextInv == Inv /\ [Next]_vars => Inv'
<1> SUFFICES ASSUME Inv, [Next]_vars PROVE Inv'
  OBVIOUS
<1>1. ASSUME NEW r \in Run, NEW flags \in Flags, NEW s \in Seed, NEW project \in Project,
             Start(r, flags, s, project)
      PROVE  Inv'
  BY <1>1, StartInv
<1>2. ASSUME NEW r \in Run, CommandStep(r) PROVE Inv'
  BY <1>2, UploadInv, ReplyInv, AccountInv, TransactionInv DEF CommandStep
<1>3. ASSUME NEW r \in Run, ApiStep(r) \/ RequestFails(r) PROVE Inv'
  BY <1>3, ApiInv
<1>4. ASSUME NEW r \in Run, Interrupt(r) PROVE Inv'
  BY <1>4, InterruptInv
<1>5. ASSUME NEW r \in Run, ConfirmationIsLost(r) PROVE Inv'
  BY <1>5, TransactionInv
<1>6. ASSUME NEW s \in Seed, Delete(s) PROVE Inv'
  BY <1>6, DeleteInv
<1>7. ASSUME NEW b \in 0 .. MaxBalance, BalanceChanges(b) PROVE Inv'
  BY <1>7 DEF BalanceChanges, Inv
<1>8. CASE UNCHANGED vars
  BY <1>8 DEF vars, Inv
<1> QED BY <1>1, <1>2, <1>3, <1>4, <1>5, <1>6, <1>7, <1>8 DEF Next

-----------------------------------------------------------------------------
\* Whatever fails, and however many runs there are, the functions of every stack
\* on the chain are stored.
THEOREM FunctionsAreStored == Spec => []DeployedFunctionsAreStored
<1>1. Inv => DeployedFunctionsAreStored
  BY DEF Inv, StackInv, DeployedFunctionsAreStored
<1> QED BY <1>1, InitInv, NextInv, PTL DEF Spec

\* The account that one step of the system writes.
LEMMA AccountWrites ==
    ASSUME Inv, Next, NEW s \in Seed, account'[s] # account[s]
    PROVE  \/ Delete(s)
           \/ \E r \in Run : /\ cli[r].at \in {"create_stack", "update_stack"}
                             /\ cli[r].seed = s /\ Ends(r)
                             /\ account'[s] \in Effect(r)
<1>1. ASSUME NEW r \in Run, SendTransaction(r) \/ ConfirmationIsLost(r)
      PROVE  /\ cli[r].at \in {"create_stack", "update_stack"}
             /\ cli[r].seed = s /\ Ends(r) /\ account'[s] \in Effect(r)
  <2>1. PICK stack \in Effect(r) : account' = [account EXCEPT ![cli[r].seed] = stack]
    BY <1>1 DEF SendTransaction, ConfirmationIsLost
  <2> QED BY <1>1, <2>1 DEF Inv, SendTransaction, ConfirmationIsLost
<1>2. ASSUME NEW q \in Seed, Delete(q) PROVE q = s
  BY <1>2 DEF Delete, Inv
<1>3. ASSUME NEW r \in Run, \/ upload_function(r) \/ GetReply(r) \/ ReadAccount(r)
                            \/ Interrupt(r)
      PROVE  FALSE
  BY <1>3 DEF upload_function, GetReply, ReadAccount, Interrupt
<1>4. ASSUME NEW r \in Run, ApiStep(r) \/ RequestFails(r) PROVE FALSE
  BY <1>4 DEF ApiStep, RequestFails, verify_escrow_account_balance, ListFiles, PutFile,
              ReplyIsLost, others
<1>5. ASSUME NEW r \in Run, NEW flags \in Flags, NEW q \in Seed, NEW project \in Project,
             Start(r, flags, q, project)
      PROVE  FALSE
  BY <1>5 DEF Start
<1>6. ASSUME NEW b \in 0 .. MaxBalance, BalanceChanges(b) PROVE FALSE
  BY <1>6 DEF BalanceChanges
<1> QED BY <1>1, <1>2, <1>3, <1>4, <1>5, <1>6 DEF Next, CommandStep

\* Whatever other runs and deletions come between a run's look at the account and
\* its transaction, the flags are obeyed and a deleted stack stays deleted.
THEOREM FlagsAreAlwaysObeyed == Spec => FlagsAreObeyed
<1> DEFINE Obeyed(s) ==
        account'[s] # account[s] =>
            /\ account[s].state # "deleted"
            /\ account'[s].state = "active" =>
                   \E r \in Run :
                       /\ Busy(r) /\ cli'[r].at = "idle" /\ cli[r].seed = s
                       /\ account'[s].project = cli[r].project
                       /\ account'[s].revision = account[s].revision + 1
                       /\ IF account[s].state = "none" THEN cli[r].flags \in {{}, {"init"}}
                                                       ELSE cli[r].flags \in {{}, {"update"}}
<1>1. ASSUME Inv, [Next]_vars, NEW s \in Seed PROVE Obeyed(s)
  <2> SUFFICES ASSUME account'[s] # account[s] PROVE Obeyed(s)
    OBVIOUS
  <2>1. Next
    BY <1>1 DEF vars
  <2>2. CASE Delete(s)
    BY <1>1, <2>2 DEF Delete, Inv, NoStack
  <2>3. ASSUME NEW r \in Run, cli[r].at \in {"create_stack", "update_stack"},
               cli[r].seed = s, Ends(r), account'[s] \in Effect(r)
        PROVE  Obeyed(s)
    <3>1. /\ account'[s].project = cli[r].project
          /\ account'[s].revision = account[s].revision + 1
          /\ account[s].state = "none" => cli[r].flags \in {{}, {"init"}}
          /\ account[s].state # "none" => cli[r].flags \in {{}, {"update"}}
          /\ account[s].state # "deleted"
      BY <1>1, <2>3, EffectOfRun
    <3>2. Busy(r) /\ cli'[r].at = "idle"
      BY <1>1, <2>3 DEF Busy, Ends, Idle, Inv
    <3> QED BY <2>3, <3>1, <3>2
  <2> QED BY <1>1, <2>1, <2>2, <2>3, AccountWrites
<1>2. Inv /\ [Next]_vars => [\A s \in Seed : Obeyed(s)]_vars
  BY <1>1
<1> QED BY <1>2, InitInv, NextInv, PTL DEF Spec, FlagsAreObeyed
=============================================================================
