------------------------------ MODULE Runtime ------------------------------
(***************************************************************************)
(* The function runtime (rust-libs/runtime/src/lib.rs): definitions of     *)
(* assemblies, the keys of their compiled modules in a cache on disk that  *)
(* outlives the process, and the calls of functions.  A definition is      *)
(* known by its revision; its source and environment are left out.         *)
(***************************************************************************)
EXTENDS Instance, Integers

CONSTANTS
    StackID, AssemblyID,
    stack_id,       \* the stack each assembly belongs to
    Revision,       \* the definitions an assembly may be given
    Compiles,       \* the ones among them that are valid modules
    memory_limit,   \* the memory each may have, in KiB
    MemoryType,     \* the memory the module of each asks for, in pages
    MaxPages,       \* the most pages a limit may come to (u32::MAX)
    MaxCalls,       \* how many calls are made
    MaxRestarts,
    MaxChanges      \* how often definitions are added or removed

VARIABLES
    provider,       \* assembly_provider: the definition of each assembly
    hashkey_dict,   \* the memory limit kept with the key of each assembly to the cache
    cache,          \* the module stored on disk for each assembly
    mailbox,        \* "running", "shut_down" or "stopped"
    calls,          \* of each call its state, its assembly and its answer
    loaded,         \* the module a call runs, and its memory limit
    reports,        \* how often the usage of a call was reported
    plain,          \* assemblies neither redefined nor left uncached (history)
    made, restarts, changes

runtimeVars == <<provider, hashkey_dict, cache, mailbox, calls, loaded,
                 reports, plain, made, restarts, changes>>
vars == <<inst, runtimeVars>>

None == 0

Unset == -1

ASSUME RevisionAssumption == None \notin Revision
ASSUME LimitAssumption == memory_limit \in [Revision -> Nat]
ASSUME BoundsAssumption == MaxCalls \in Nat /\ MaxRestarts \in Nat /\ MaxChanges \in Nat

Unloaded == [id |-> None, revision |-> None]
Nothing == [module |-> Unloaded, limit |-> Unset]
Module == [id : AssemblyID, revision : Revision] \cup {Unloaded}

\* The errors a call may end in; FailedToStart is each of making an instance.
Error ==
    {"FatalError", "FunctionInitializationFailed", "MissingStartFunction", "FailedToReadMessage",
     "FunctionDidntTerminateCleanly", "Timeout", "AssemblyNotFound", "InvalidAssembly",
     "FailedToStart", "RequestedMemorySizeTooBig", "CompileWasmModule",
     "SerializeCachedWasmModule", "RuntimeIsShutDown", "Internal"}

TypeOK ==
    /\ InstanceType
    /\ provider \in [AssemblyID -> Revision \cup {None}]
    /\ hashkey_dict \in [AssemblyID -> Nat \cup {Unset}]
    /\ cache \in [AssemblyID -> Module]
    /\ mailbox \in {"running", "shut_down", "stopped"}
    /\ calls \in [Call -> [state : {"idle", "posted", "running", "reported", "answered", "gone"},
                           id : AssemblyID \cup {None}, answer : Error \cup {"ok", "none"}]]
    /\ loaded \in [Call -> [module : Module, limit : Nat \cup {Unset}]]
    /\ reports \in [Call -> Nat]
    /\ plain \subseteq AssemblyID
    /\ made \in 0..MaxCalls /\ restarts \in 0..MaxRestarts /\ changes \in 0..MaxChanges

Init ==
    /\ InstanceInit
    /\ provider = [a \in AssemblyID |-> None]
    /\ hashkey_dict = [a \in AssemblyID |-> Unset]
    /\ cache = [a \in AssemblyID |-> Unloaded]
    /\ mailbox = "running"
    /\ calls = [c \in Call |-> [state |-> "idle", id |-> None, answer |-> "none"]]
    /\ loaded = [c \in Call |-> Nothing]
    /\ reports = [c \in Call |-> 0]
    /\ plain = {}
    /\ made = 0 /\ restarts = 0 /\ changes = 0
-----------------------------------------------------------------------------
(* Definitions: AddFunctions, RemoveFunctions, RemoveAllFunctions.         *)

Change ==
    /\ mailbox # "stopped" /\ changes < MaxChanges
    /\ changes' = changes + 1
    /\ UNCHANGED <<inst, cache, mailbox, calls, loaded, reports, made, restarts>>

AddFunctions(a, revision) ==
    /\ Change
    /\ provider' = [provider EXCEPT ![a] = revision]
    /\ plain' = IF provider[a] = None THEN plain \cup {a}
                ELSE IF provider[a] = revision THEN plain ELSE plain \ {a}
    /\ UNCHANGED hashkey_dict

\* A slip: the key of a removed assembly is kept.
Remove_keeps_key(A) ==
    /\ Change
    /\ provider' = [a \in AssemblyID |-> IF a \in A THEN None ELSE provider[a]]
    /\ UNCHANGED <<hashkey_dict, plain>>

Remove(A) ==
    /\ Change
    /\ provider' = [a \in AssemblyID |-> IF a \in A THEN None ELSE provider[a]]
    /\ hashkey_dict' = [a \in AssemblyID |-> IF a \in A THEN Unset ELSE hashkey_dict[a]]
    /\ UNCHANGED plain

RemoveFunctions(a) == Remove({a})

RemoveAllFunctions(s) ==
    Remove({a \in AssemblyID : stack_id[a] = s /\ provider[a] # None})
-----------------------------------------------------------------------------
(* Calls.                                                                  *)

Answer(c, answer) ==
    calls' = [calls EXCEPT ![c].state = "answered", ![c].answer = answer]

\* A caller whose last call is over calls a function.
invoke_function(c, a) ==
    /\ calls[c].state \in {"idle", "answered", "gone"} /\ mailbox # "stopped"
    /\ made < MaxCalls /\ made' = made + 1
    /\ calls' = [calls EXCEPT ![c] = [state |-> "posted", id |-> a, answer |-> "none"]]
    /\ inst' = [inst EXCEPT ![c] = Unstarted]
    /\ loaded' = [loaded EXCEPT ![c] = Nothing]
    /\ reports' = [reports EXCEPT ![c] = 0]
    /\ UNCHANGED <<provider, hashkey_dict, cache, mailbox, plain, restarts, changes>>

\* The mailbox takes a call when the runtime is shut down.
RefuseCall(c) ==
    /\ calls[c].state = "posted" /\ mailbox = "shut_down"
    /\ Answer(c, "RuntimeIsShutDown")
    /\ UNCHANGED <<inst, provider, hashkey_dict, cache, mailbox, loaded,
                   reports, plain, made, restarts, changes>>

\* The mailbox has stopped without taking the call.
CallIsLost(c) ==
    /\ calls[c].state = "posted" /\ mailbox = "stopped"
    /\ Answer(c, "Internal")
    /\ UNCHANGED <<inst, provider, hashkey_dict, cache, mailbox, loaded,
                   reports, plain, made, restarts, changes>>

ModuleOf(a) == [id |-> a, revision |-> provider[a]]

\* The pages of a limit, of 64 KiB each.
create_memory(limit) == limit \div 64

\* A module that names no maximum gets the limit for one.
adjust_memory(type, limit) ==
    [type EXCEPT !.maximum = IF @ = Unset THEN create_memory(limit) ELSE @]

validate_memory(type, limit) ==
    type.minimum <= create_memory(limit) /\ type.maximum <= create_memory(limit)

\* What load_module can come to with a limit on the memory: the module, or none
\* and an error; the cache after it; whether the module was stored if compiled.
load_module(a, limit) ==
    LET stored == [cache EXCEPT ![a] = ModuleOf(a)]
        Loads(m, d, s) == [module |-> m, error |-> "none", cache |-> d, stored |-> s]
        Fails(e) == [module |-> Unloaded, error |-> e, cache |-> cache, stored |-> TRUE]
    IN  IF create_memory(limit) > MaxPages
        THEN {Fails("RequestedMemorySizeTooBig")}
        ELSE IF hashkey_dict[a] # Unset
        THEN \* the file is there and intact, or the module is compiled again
             (IF cache[a] # Unloaded THEN {Loads(cache[a], cache, TRUE)} ELSE {})
             \cup (IF provider[a] \in Compiles
                   THEN {Loads(ModuleOf(a), stored, TRUE), Fails("SerializeCachedWasmModule")}
                   ELSE {Fails("CompileWasmModule")})
        ELSE IF provider[a] \in Compiles
             THEN {Loads(ModuleOf(a), stored, TRUE), Loads(ModuleOf(a), cache, FALSE)}
             ELSE {Fails("InvalidAssembly")}

\* An instance can be made of a module whose memory is within the limit.
Fits(module, limit) ==
    validate_memory(adjust_memory(MemoryType[module.revision], limit), limit)

\* The module is loaded and an instance of it started; either may fail.
start_function(c, a) ==
    \/ /\ provider[a] = None
       /\ Answer(c, "AssemblyNotFound")
       /\ UNCHANGED <<inst, hashkey_dict, cache, loaded, plain>>
    \/ LET limit == IF hashkey_dict[a] = Unset THEN memory_limit[provider[a]] ELSE hashkey_dict[a] IN
       /\ provider[a] # None
       /\ hashkey_dict' = [hashkey_dict EXCEPT ![a] = limit]
       /\ \E load \in load_module(a, limit) :
             /\ cache' = load.cache
             /\ plain' = IF load.stored THEN plain ELSE plain \ {a}
             /\ \/ /\ load.error = "none" /\ Fits(load.module, limit)
                   /\ start(c)
                   /\ calls' = [calls EXCEPT ![c].state = "running"]
                   /\ loaded' = [loaded EXCEPT ![c] = [module |-> load.module, limit |-> limit]]
                \/ /\ Answer(c, IF load.error = "none" THEN "FailedToStart" ELSE load.error)
                   /\ UNCHANGED <<inst, loaded>>

execute_function(c) ==
    /\ calls[c].state = "posted" /\ mailbox = "running"
    /\ start_function(c, calls[c].id)
    /\ UNCHANGED <<provider, mailbox, reports, made, restarts, changes>>

Served(c) == calls[c].state = "running" /\ inst[c].host = "done"

\* A slip: only calls that succeed are reported.
ReportUsage_of_success(c) ==
    /\ Served(c)
    /\ reports' = [reports EXCEPT ![c] = @ + IF inst[c].result = "ok" THEN 1 ELSE 0]
    /\ calls' = [calls EXCEPT ![c].state = "reported"]
    /\ UNCHANGED <<inst, provider, hashkey_dict, cache, mailbox, loaded,
                   plain, made, restarts, changes>>

\* The usage is reported whether the call succeeded or not, and then the call
\* is answered.
ReportUsage(c) ==
    /\ Served(c)
    /\ reports' = [reports EXCEPT ![c] = @ + 1]
    /\ calls' = [calls EXCEPT ![c].state = "reported"]
    /\ UNCHANGED <<inst, provider, hashkey_dict, cache, mailbox, loaded,
                   plain, made, restarts, changes>>

Reply(c) ==
    /\ calls[c].state = "reported"
    /\ Answer(c, inst[c].result)
    /\ UNCHANGED <<inst, provider, hashkey_dict, cache, mailbox, loaded,
                   reports, plain, made, restarts, changes>>
-----------------------------------------------------------------------------
(* The end of the runtime, and of the process.                             *)

Shutdown ==
    /\ mailbox = "running" /\ mailbox' = "shut_down"
    /\ UNCHANGED <<inst, provider, hashkey_dict, cache, calls, loaded,
                   reports, plain, made, restarts, changes>>

\* stop posts Shutdown and, when that is done, stops the mailbox.
StopMailbox ==
    /\ mailbox = "shut_down" /\ mailbox' = "stopped"
    /\ UNCHANGED <<inst, provider, hashkey_dict, cache, calls, loaded,
                   reports, plain, made, restarts, changes>>

\* The process ends and is started again: only the cache on disk is left.
Restart ==
    /\ restarts < MaxRestarts /\ restarts' = restarts + 1
    /\ provider' = [a \in AssemblyID |-> None]
    /\ hashkey_dict' = [a \in AssemblyID |-> Unset] /\ plain' = {}
    /\ mailbox' = "running"
    /\ LET cut == {c \in Call : calls[c].state \in {"posted", "running", "reported"}} IN
       /\ calls' = [c \in Call |-> IF c \in cut THEN [calls[c] EXCEPT !.state = "gone"] ELSE calls[c]]
       /\ inst' = [c \in Call |-> IF c \in cut THEN Unstarted ELSE inst[c]]
       /\ loaded' = [c \in Call |-> IF c \in cut THEN Nothing ELSE loaded[c]]
       /\ reports' = [c \in Call |-> IF c \in cut THEN 0 ELSE reports[c]]
    /\ UNCHANGED <<cache, made, changes>>
-----------------------------------------------------------------------------
MailboxStep(c) == RefuseCall(c) \/ CallIsLost(c) \/ execute_function(c)

Next ==
    \/ \E a \in AssemblyID : (\E r \in Revision : AddFunctions(a, r)) \/ RemoveFunctions(a)
    \/ \E s \in StackID : RemoveAllFunctions(s)
    \/ \E c \in Call :
        \/ \E a \in AssemblyID : invoke_function(c, a)
        \/ MailboxStep(c)
        \/ (HostStep(c) \/ GuestStep(c)) /\ UNCHANGED runtimeVars
        \/ ReportUsage(c) \/ Reply(c)
    \/ Shutdown \/ StopMailbox
    \/ Restart

\* The tasks of the runtime are scheduled, and a function comes to its end: its
\* instructions are limited.
Fairness ==
    \A c \in Call :
        /\ WF_vars(MailboxStep(c))
        /\ WF_vars(HostStep(c) /\ UNCHANGED runtimeVars)
        /\ WF_vars(GuestStep(c) /\ UNCHANGED runtimeVars)
        /\ WF_vars(ReportUsage(c)) /\ WF_vars(Reply(c))

Spec == Init /\ [][Next]_vars /\ Fairness
-----------------------------------------------------------------------------
\* A call answered with a result ran a function that wrote its result, took
\* every answer it asked for and ended cleanly; a function that traps or runs
\* out of instructions after its result is a failed call (instance.rs:207).
ResultMeansCleanEnd ==
    \A c \in Call :
        calls[c].state = "answered" /\ calls[c].answer = "ok" =>
            /\ inst[c].outcome = "ok" /\ inst[c].guest = "ended"
            /\ inst[c].asked = "none" /\ inst[c].stdin = <<>>

\* Every request of a function is answered exactly once and with a message the
\* SDK takes for an answer to it, whether clients can be made and requests
\* succeed or not (instance.rs:331-585, sdk/musdk/src/context).
AnswersAreUnderstood == \A c \in Call : ~inst[c].confused

\* Whoever is answered after their function ran has been billed for it, once,
\* and nobody is billed for a function that did not run (lib.rs:427-443).
UsageIsReportedOnce ==
    \A c \in Call :
        /\ reports[c] <= 1
        /\ reports[c] = 1 => loaded[c] # Nothing
        /\ calls[c].state = "answered" /\ loaded[c] # Nothing => reports[c] = 1

\* A call runs the module of the definition its assembly has, of whatever
\* revisions modules are left on disk by earlier definitions or processes, and
\* within the memory limit of that definition: if the definition compiles, did
\* not replace another one that is still there, and its module could be stored
\* when it was compiled (lib.rs:154-230).
PlainDefinitionRunsItself ==
    [][\A c \in Call : LET a == calls[c].id IN
          loaded'[c] \notin {loaded[c], Nothing} =>
              /\ loaded'[c].module.id = a
              /\ a \in plain /\ provider[a] \in Compiles =>
                    loaded'[c] = [module |-> ModuleOf(a), limit |-> memory_limit[provider[a]]]]_vars

\* Every call that is made comes to be answered: when its assembly is unknown or
\* invalid, the runtime is shut down, or the function fails, traps, runs out of
\* instructions or ends without a result, too.  The calls of functions whose
\* _start is never called are excepted (see FailingFunctionsDoNotHang).
EveryCallIsAnswered ==
    \A c \in Call :
        calls[c].state = "posted" ~>
            \/ calls[c].state \in {"answered", "gone"}
            \/ inst[c].outcome \in {"FunctionInitializationFailed", "MissingStartFunction"}

\* The same without the exception, after the test failing_function_should_not_hang
\* (runtime/tests/mod.rs:327).
FailingFunctionsDoNotHang ==
    \A c \in Call : calls[c].state = "posted" ~> calls[c].state \in {"answered", "gone"}
=============================================================================
