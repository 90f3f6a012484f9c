------------------------------ MODULE Instance ------------------------------
(***************************************************************************)
(* One running function per call: a task that runs the WebAssembly module  *)
(* (runtime/src/function.rs), the task that serves its requests            *)
(* (runtime/src/instance.rs), and the two pipes between them               *)
(* (runtime/src/pipe.rs).  The module is either built on the SDK           *)
(* (sdk/musdk/src/context.rs) or ends, or writes nonsense and ends, on its *)
(* own.  A message cut short by the end of a function reads like none.     *)
(***************************************************************************)
EXTENDS FunctionProtocol, Sequences

CONSTANTS
    Call,           \* callers, each with one call at a time
    requests,       \* the requests and logs the functions of each caller may write
    MaxMessages     \* how many of them it writes at most

ASSUME RequestsAssumption == requests \in [Call -> SUBSET (Request \cup {"Log"})]
ASSUME MessagesAssumption == MaxMessages \in Nat

VARIABLES
    inst    \* the instance of each call

Unstarted ==
    [host |-> "none", guest |-> "none", stdin |-> <<>>, stdout |-> <<>>, closed |-> FALSE,
     outcome |-> "none", pending |-> "none", result |-> "none",
     asked |-> "none", confused |-> FALSE, written |-> 0,
     db_client |-> FALSE, storage_client |-> FALSE]

Host == {"none", "starting", "reading", "joining", "done"}
Guest == {"none", "initializing", "first", "running", "asking", "returning", "ended"}
Outcome == {"none", "ok", "Timeout", "FunctionDidntTerminateCleanly",
            "FunctionInitializationFailed", "MissingStartFunction"}

InstanceType ==
    inst \in [Call ->
        [host : Host, guest : Guest, stdin : Seq(Nat), stdout : Seq(Nat), closed : BOOLEAN,
         outcome : Outcome,
         pending : {"none", "eof", "FailedToReadMessage", "ok", "FatalError"},
         result : Outcome \cup {"FailedToReadMessage", "FatalError"},
         asked : Request \cup {"none"}, confused : BOOLEAN, written : 0..MaxMessages,
         db_client : BOOLEAN, storage_client : BOOLEAN]]

InstanceInit == inst = [c \in Call |-> Unstarted]

Set(c, r) == inst' = [inst EXCEPT ![c] = r]

Started == [Unstarted EXCEPT !.host = "starting", !.guest = "initializing"]

\* function::start: the module is instantiated and its task spawned.
start(c) == Set(c, Started)
-----------------------------------------------------------------------------
(* The task of the function.                                               *)

\* The task returns; the pipes are closed only after _start was called.
Ends(r, outcome, closes) ==
    [r EXCEPT !.guest = "ended", !.outcome = outcome, !.closed = closes]

InitializationFails(c) ==
    /\ inst[c].guest = "initializing"
    /\ Set(c, Ends(inst[c], "FunctionInitializationFailed", FALSE))

StartIsMissing(c) ==
    /\ inst[c].guest = "initializing"
    /\ Set(c, Ends(inst[c], "MissingStartFunction", FALSE))

CallStart(c) ==
    /\ inst[c].guest = "initializing"
    /\ Set(c, [inst[c] EXCEPT !.guest = "first"])

Running == {"first", "running", "returning"}

\* A slip: the pipes of a function that fails stay open.
StartEnds_leaves_pipes(c, outcome) ==
    /\ inst[c].guest \in Running
    /\ outcome \in {"ok", "Timeout", "FunctionDidntTerminateCleanly"}
    /\ Set(c, Ends(inst[c], outcome, outcome = "ok"))

\* _start returns, traps, or runs out of instructions.
StartEnds(c, outcome) ==
    /\ inst[c].guest \in Running
    /\ outcome \in {"ok", "Timeout", "FunctionDidntTerminateCleanly"}
    /\ Set(c, Ends(inst[c], outcome, TRUE))

Write(r, code) == [r EXCEPT !.stdout = Append(@, code)]

\* The function writes what is no message, and ends.
WriteNonsense(c) ==
    /\ inst[c].guest \in {"first", "running"}
    /\ Set(c, [Write(inst[c], UnknownCode) EXCEPT !.guest = "returning"])

\* MuContext::read_and_execute_function: the first message names the function.
read_and_execute_function(c) ==
    LET r == inst[c] IN
    /\ r.guest = "first" /\ r.stdin # <<>>
    /\ \/ /\ ReadIncoming(Head(r.stdin)) = "ExecuteFunction"
          /\ Set(c, [r EXCEPT !.stdin = Tail(@), !.guest = "running"])
       \/ \* the function is unknown, or this is not its name: die
          Set(c, [Write([r EXCEPT !.stdin = Tail(@)], WriteOutgoing("FatalError"))
                    EXCEPT !.guest = "returning"])

log(c) ==
    LET r == inst[c] IN
    /\ r.guest = "running" /\ "Log" \in requests[c] /\ r.written < MaxMessages
    /\ Set(c, [Write(r, WriteOutgoing("Log")) EXCEPT !.written = @ + 1])

\* A handle of the SDK writes its request and reads the answer.
request(c, kind) ==
    LET r == inst[c] IN
    /\ r.guest = "running" /\ kind \in requests[c] /\ r.written < MaxMessages
    /\ Set(c, [Write(r, WriteOutgoing(kind))
                 EXCEPT !.guest = "asking", !.asked = kind, !.written = @ + 1])

ReadAnswer(c) ==
    LET r == inst[c] IN
    /\ r.guest = "asking" /\ r.stdin # <<>>
    /\ Set(c, [r EXCEPT !.stdin = Tail(@), !.guest = "running", !.asked = "none",
                        !.confused = @ \/ ~Understands(r.asked, ReadIncoming(Head(r.stdin)))])

WriteResult(c) ==
    /\ inst[c].guest = "running"
    /\ Set(c, [Write(inst[c], WriteOutgoing("FunctionResult")) EXCEPT !.guest = "returning"])

GuestStep(c) ==
    \/ InitializationFails(c) \/ StartIsMissing(c) \/ CallStart(c)
    \/ \E outcome \in Outcome : StartEnds(c, outcome)
    \/ WriteNonsense(c)
    \/ read_and_execute_function(c)
    \/ log(c)
    \/ \E kind \in requests[c] \ {"Log"} : request(c, kind)
    \/ ReadAnswer(c)
    \/ WriteResult(c)
-----------------------------------------------------------------------------
(* The task that serves the function: Instance::inner_run_request.         *)

WriteIn(r, kind) == [r EXCEPT !.stdin = Append(@, WriteIncoming(kind))]

WriteRequest(c) ==
    /\ inst[c].host = "starting"
    /\ Set(c, [WriteIn(inst[c], "ExecuteFunction") EXCEPT !.host = "reading"])

Reads(c, kind) ==
    /\ inst[c].host = "reading" /\ inst[c].stdout # <<>>
    /\ ReadOutgoing(Head(inst[c].stdout)) = kind

Taken(c) == [inst[c] EXCEPT !.stdout = Tail(@)]

\* The function is not served any more; its task is waited for.
Join(c, pending) == Set(c, [Taken(c) EXCEPT !.host = "joining", !.pending = pending])

ReadNonsense(c) == Reads(c, "InvalidData") /\ Join(c, "FailedToReadMessage")

ReadFunctionResult(c) == Reads(c, "FunctionResult") /\ Join(c, "ok")

ReadFatalError(c) == Reads(c, "FatalError") /\ Join(c, "FatalError")

ReadLog(c) == Reads(c, "Log") /\ Set(c, Taken(c))

\* Pipe::read gives nothing once the pipe is closed and empty.
ReadEndOfFile(c) ==
    /\ inst[c].host = "reading" /\ inst[c].stdout = <<>> /\ inst[c].closed
    /\ Set(c, [inst[c] EXCEPT !.host = "joining", !.pending = "eof"])

execute_http_request(c) ==
    /\ Reads(c, "HttpRequest")
    /\ Set(c, WriteIn(Taken(c), "HttpResponse"))

\* The client is made at the first request; when that fails the function is
\* told so, and when the request fails, too.
execute_db_request(c) ==
    \E kind \in DbRequest :
        /\ Reads(c, kind)
        /\ \/ /\ ~inst[c].db_client
              /\ Set(c, WriteIn(Taken(c), "DbError"))
           \/ \E answer \in handle_db_request(kind) \cup {"DbError"} :
                Set(c, [WriteIn(Taken(c), answer) EXCEPT !.db_client = TRUE])

storage_request(c) ==
    \E kind \in StorageRequest :
        /\ Reads(c, kind)
        /\ \/ /\ ~inst[c].storage_client
              /\ Set(c, WriteIn(Taken(c), "StorageError"))
           \/ \E answer \in storage_answers(kind) \cup {"StorageError"} :
                Set(c, [WriteIn(Taken(c), answer) EXCEPT !.storage_client = TRUE])

\* A slip: a result counts although the function did not end cleanly.
wait_to_finish_trusting(c) ==
    LET r == inst[c] IN
    /\ r.host = "joining" /\ r.outcome # "none"
    /\ Set(c, [r EXCEPT !.host = "done",
                        !.result = IF r.pending \in {"FatalError", "ok"} THEN r.pending
                                   ELSE IF r.outcome # "ok" THEN r.outcome
                                   ELSE IF r.pending = "eof" THEN "FunctionDidntTerminateCleanly"
                                   ELSE r.pending])

\* The task of the function has ended: its error comes before everything but a
\* fatal error.
wait_to_finish(c) ==
    LET r == inst[c] IN
    /\ r.host = "joining" /\ r.outcome # "none"
    /\ Set(c, [r EXCEPT !.host = "done",
                        !.result = IF r.pending = "FatalError" THEN "FatalError"
                                   ELSE IF r.outcome # "ok" THEN r.outcome
                                   ELSE IF r.pending = "eof" THEN "FunctionDidntTerminateCleanly"
                                   ELSE r.pending])

HostStep(c) ==
    \/ WriteRequest(c)
    \/ ReadNonsense(c) \/ ReadFunctionResult(c) \/ ReadFatalError(c) \/ ReadLog(c)
    \/ ReadEndOfFile(c)
    \/ execute_http_request(c) \/ execute_db_request(c) \/ storage_request(c)
    \/ wait_to_finish(c)
=============================================================================
