--------------------------- MODULE UsageReporting ---------------------------
(***************************************************************************)
(* The way of a request's usage through one executor to the chain, and the *)
(* executor's shutdown (executor/src/lib.rs,                               *)
(* executor/src/stack/usage_aggregator.rs, report_usages in                *)
(* executor/src/stack/blockchain_monitor.rs).                              *)
(*                                                                         *)
(* A request leaves two items of usage, one of the gateway and one of the  *)
(* runtime.  They go through notification channels to glue_modules, which  *)
(* posts them to the usage aggregator; the blockchain monitor fetches the  *)
(* sums and reports them, stack by stack.  A sum is represented by the set *)
(* of the items it is made of.                                             *)
(***************************************************************************)
EXTENDS Naturals, Sequences, FiniteSets

CONSTANTS Request, Stack,
          StackOf     \* StackOf[r]: the stack that request r is for

ASSUME StackOfAssumption == StackOf \in [Request -> Stack]

Source == {"gateway", "runtime"}
Item == Request \X Source

\* Message::GetAndResetUsages; every other message of the aggregator is an item.
GetAndResetUsages == <<"GetAndResetUsages">>

VARIABLES
    stage,     \* how far the shutdown is
    request,   \* the stage of every request
    channel,   \* the notifications of each source
    spawned,   \* posts to the aggregator by tasks of their own
    mailbox,   \* the messages of the aggregator
    usages,    \* State.usages of the aggregator
    monitor,   \* what the blockchain monitor is doing
    report,    \* the usages it has yet to report
    charged,   \* the items of each usage update on chain, by stack
    lost       \* history: the items of reports that failed

pipeline == <<channel, spawned, mailbox, usages>>
reporting == <<monitor, report, charged, lost>>
vars == <<stage, request, pipeline, reporting>>

Nothing == [s \in Stack |-> {}]

Init ==
    /\ stage = "running"
    /\ request = [r \in Request |-> "new"]
    /\ channel = [c \in Source |-> <<>>]
    /\ spawned = {}
    /\ mailbox = <<>>
    /\ usages = Nothing
    /\ monitor = "idle"
    /\ report = Nothing
    /\ charged = Nothing
    /\ lost = {}

\* The process and its tasks are there.
Alive == stage \notin {"exited", "crashed"}
Notify(source, r) == channel' = [channel EXCEPT ![source] = Append(@, <<r, source>>)]

----------------------------------------------------------------------------
(***************************************************************************)
(* Requests                                                                *)
(***************************************************************************)

\* The gateway finds the endpoint and hands the request on.
handle_request(r) ==
    /\ stage \notin {"draining", "exited", "crashed"} /\ request[r] = "new"
    /\ request' = [request EXCEPT ![r] = "accepted"]
    /\ UNCHANGED <<stage, pipeline, reporting>>

\* The runtime starts the function, unless it fails to or is shut down.
ShutDown == stage \in {"runtime_stopped", "draining"}

execute_function(r) ==
    /\ Alive /\ request[r] = "accepted"
    /\ \/ ~ShutDown /\ request' = [request EXCEPT ![r] = "executing"]
       \/ request' = [request EXCEPT ![r] = "answered"]
    /\ UNCHANGED <<stage, pipeline, reporting>>

\* The function ends, well or not; either way there is usage.
run_request(r) ==
    /\ Alive /\ request[r] = "executing"
    /\ request' = [request EXCEPT ![r] = "answered"]
    /\ Notify("runtime", r)
    /\ UNCHANGED <<stage, spawned, mailbox, usages, reporting>>

\* The rest of handle_request.
respond(r) ==
    /\ Alive /\ request[r] = "answered"
    /\ request' = [request EXCEPT ![r] = "done"]
    /\ Notify("gateway", r)
    /\ UNCHANGED <<stage, spawned, mailbox, usages, reporting>>

----------------------------------------------------------------------------
(***************************************************************************)
(* From the notification channels to the aggregator                        *)
(***************************************************************************)

\* handle_gateway_notification, handle_runtime_notification: one turn of
\* glue_modules, which ends when the shutdown begins.
handle_notification(source) ==
    /\ stage = "running" /\ channel[source] # <<>>
    /\ spawned' = spawned \cup {Head(channel[source])}
    /\ channel' = [channel EXCEPT ![source] = Tail(@)]
    /\ UNCHANGED <<stage, request, mailbox, usages, reporting>>

\* post_and_forget: a task of its own sends, so the order may change.
post_and_forget(item) ==
    /\ Alive /\ item \in spawned
    /\ spawned' = spawned \ {item}
    /\ mailbox' = Append(mailbox, item)
    /\ UNCHANGED <<stage, request, channel, usages, reporting>>

RegisterUsage(item) ==
    /\ usages' = [usages EXCEPT ![StackOf[item[1]]] = @ \cup {item}]
    /\ UNCHANGED <<monitor, report>>

\* A slip: the sums are not reset.
UsagesNotReset ==
    /\ monitor' = "reporting"
    /\ report' = usages
    /\ UNCHANGED usages

ReplyAndReset ==
    /\ monitor' = "reporting"
    /\ report' = usages
    /\ usages' = Nothing

mailbox_step ==
    /\ Alive /\ mailbox # <<>>
    /\ IF Head(mailbox) = GetAndResetUsages THEN ReplyAndReset ELSE RegisterUsage(Head(mailbox))
    /\ mailbox' = Tail(mailbox)
    /\ UNCHANGED <<stage, request, channel, spawned, charged, lost>>

----------------------------------------------------------------------------
(***************************************************************************)
(* The blockchain monitor                                                  *)
(***************************************************************************)
get_and_reset_usages ==
    /\ monitor = "idle"
    /\ monitor' = "waiting"
    /\ mailbox' = Append(mailbox, GetAndResetUsages)
    /\ UNCHANGED <<request, channel, spawned, usages, report, charged, lost>>

\* A slip: the timer's task ends when a report fails.
TickUntilFailure ==
    /\ stage \in {"running", "cancelled"} /\ lost = {}
    /\ get_and_reset_usages
    /\ UNCHANGED stage

Tick ==
    /\ stage \in {"running", "cancelled"}
    /\ get_and_reset_usages
    /\ UNCHANGED stage

\* The authorized usage signer cannot be loaded: nothing is reported.
ReportFails ==
    /\ Alive /\ monitor = "reporting"
    /\ lost' = lost \cup UNION {report[s] : s \in Stack}
    /\ report' = Nothing
    /\ UNCHANGED <<stage, request, pipeline, monitor, charged>>

\* One transaction.  When it fails, the usage is not kept for later.  It may
\* also have been accepted without the answer coming back; nothing is done then.
report_usage(s) ==
    /\ Alive /\ monitor = "reporting" /\ report[s] # {}
    /\ report' = [report EXCEPT ![s] = {}]
    /\ \/ charged' = [charged EXCEPT ![s] = @ \cup report[s]] /\ UNCHANGED lost
       \/ lost' = lost \cup report[s] /\ UNCHANGED charged
    /\ UNCHANGED <<stage, request, pipeline, monitor>>

ReportEnds ==
    /\ Alive /\ monitor = "reporting" /\ report = Nothing
    /\ monitor' = "idle"
    /\ stage' = IF stage = "stopping" THEN "monitor_stopped" ELSE stage
    /\ UNCHANGED <<request, pipeline, report, charged, lost>>

----------------------------------------------------------------------------
(***************************************************************************)
(* Shutdown, in the order of start's last lines                            *)
(***************************************************************************)
StageEnds(from, to) ==
    /\ stage = from
    /\ stage' = to
    /\ UNCHANGED <<request, pipeline, reporting>>

\* SIGINT: glue_modules returns.
Cancel == StageEnds("running", "cancelled")

\* The monitor takes its Stop message and reports one last time.
StopMonitor ==
    /\ stage = "cancelled"
    /\ get_and_reset_usages
    /\ stage' = "stopping"

StopRuntime == StageEnds("monitor_stopped", "runtime_stopped")
StopGateway == StageEnds("runtime_stopped", "draining")

Finished(r) == request[r] \in {"new", "done"}

\* A slip: there is no limit to how long the gateway waits.
GatewayWaits ==
    /\ stage = "draining"
    /\ \A r \in Request : Finished(r)
    /\ stage' = "exited"
    /\ UNCHANGED <<request, pipeline, reporting>>

\* The gateway has waited for its requests, or has given them up.
Exit ==
    /\ stage = "draining"
    /\ stage' = "exited"
    /\ request' = [r \in Request |-> IF Finished(r) THEN request[r] ELSE "given_up"]
    /\ UNCHANGED <<pipeline, reporting>>

Crash == Alive /\ stage' = "crashed" /\ UNCHANGED <<request, pipeline, reporting>>

Shutdown == StopMonitor \/ StopRuntime \/ StopGateway \/ Exit

Next ==
    \/ \E r \in Request :
           handle_request(r) \/ execute_function(r) \/ run_request(r) \/ respond(r)
    \/ \E c \in Source : handle_notification(c)
    \/ \E i \in Item : post_and_forget(i)
    \/ mailbox_step
    \/ Tick
    \/ ReportFails
    \/ \E s \in Stack : report_usage(s)
    \/ ReportEnds
    \/ Cancel
    \/ Shutdown
    \/ Crash

\* Tasks are scheduled, the timer ticks and the shutdown goes on.  A user's
\* function need not end.
Fairness ==
    /\ \A r \in Request : WF_vars(respond(r))
    /\ \A c \in Source : WF_vars(handle_notification(c))
    /\ \A i \in Item : WF_vars(post_and_forget(i))
    /\ WF_vars(mailbox_step)
    /\ WF_vars(Tick)
    /\ \A s \in Stack : WF_vars(report_usage(s))
    /\ WF_vars(ReportEnds)
    /\ SF_vars(StopMonitor)
    /\ WF_vars(Shutdown)

Spec == Init /\ [][Next]_vars /\ Fairness

----------------------------------------------------------------------------
TypeOK ==
    /\ stage \in {"running", "cancelled", "stopping", "monitor_stopped", "runtime_stopped",
                  "draining", "exited", "crashed"}
    /\ request \in [Request -> {"new", "accepted", "executing", "answered", "done", "given_up"}]
    /\ channel \in [Source -> Seq(Item)]
    /\ spawned \in SUBSET Item
    /\ mailbox \in Seq(Item \cup {GetAndResetUsages})
    /\ usages \in [Stack -> SUBSET Item]
    /\ monitor \in {"idle", "waiting", "reporting"}
    /\ report \in [Stack -> SUBSET Item]
    /\ charged \in [Stack -> SUBSET Item]
    /\ lost \in SUBSET Item

\* How often an item is on its way, charged or given up.
Occurrences(q, i) == Cardinality({k \in DOMAIN q : q[k] = i})
Within(set, i) == IF i \in set THEN 1 ELSE 0
OnItsWay(i) ==
    LET s == StackOf[i[1]]
    IN  Occurrences(channel[i[2]], i) + Within(spawned, i) + Occurrences(mailbox, i)
        + Within(usages[s], i) + Within(report[s], i)
Settled(i) == Within(charged[StackOf[i[1]]], i) + Within(lost, i)
Caused(i) ==
    IF i[2] = "gateway" THEN request[i[1]] = "done"
                        ELSE request[i[1]] \in {"answered", "done", "given_up"}

\* Nothing is charged twice and nothing gets lost on the way: an item that a
\* request caused is in exactly one place, on the account of its own stack, in
\* whatever order posts, requests for the sums and reports overtake each other.
\* (A function that did not start leaves no item of the runtime.)
UsageIsAccountedFor ==
    \A i \in Item :
        LET n == OnItsWay(i) + Settled(i)
        IN  /\ n <= 1
            /\ n = 1 => Caused(i)
            /\ i[2] = "gateway" /\ Caused(i) => n = 1

\* While the executor runs, the usage of every request is charged in the end,
\* unless a report of it fails.
UsageIsCharged ==
    \A i \in Item : OnItsWay(i) > 0 ~> (Settled(i) > 0 \/ stage # "running")

\* The shutdown ends although functions may not, and although the monitor may be
\* in the middle of a report when it is told to stop.
ShutdownEnds == stage = "cancelled" ~> ~Alive
=============================================================================
