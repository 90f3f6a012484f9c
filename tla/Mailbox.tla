------------------------------ MODULE Mailbox ------------------------------
(***************************************************************************)
(* The mailboxes every actor of the executor is built on                   *)
(* (rust-libs/mailbox_processor): a bounded tokio channel, a task that     *)
(* takes its messages, and one-shot channels for acknowledgements and      *)
(* replies.  A callback mailbox calls a step function for one message      *)
(* after the other and has a stop message; a plain mailbox hands the       *)
(* receiving end to a body function that may return when it likes.         *)
(*                                                                         *)
(* The channel is kept as the sequence `sent' of the messages that entered *)
(* it and the number `received' of those that left it.                     *)
(***************************************************************************)
EXTENDS Naturals, Sequences

CONSTANTS
    Message,
    kind,           \* the function of the mailbox that posts each message
    previous,       \* the call its client made before it, NoMessage if none
    NoMessage,
    buffer_size

Forgetful == {"post_and_forget", "stop_and_forget"}
StopKind == {"stop", "stop_and_forget"}
Kind == {"post", "post_and_reply"} \cup StopKind \cup Forgetful

ASSUME MailboxAssumption ==
    /\ kind \in [Message -> Kind]
    /\ NoMessage \notin Message
    /\ previous \in [Message -> Message \cup {NoMessage}]
    /\ buffer_size \in Nat \ {0}

VARIABLES
    style,      \* "callback" or "plain"
    stage,      \* of each message
    sent,
    received,
    receiver,   \* the receiving end of the channel
    channel,    \* the one-shot channel of each message
    held        \* clients still hold copies of the mailbox

vars == <<style, stage, sent, received, receiver, channel, held>>

Stage == {"idle", "sending", "queued", "handling", "handled", "lost"}

TypeOK ==
    /\ style \in {"callback", "plain"}
    /\ stage \in [Message -> Stage]
    /\ sent \in Seq(Message)
    /\ received \in 0..Len(sent)
    /\ receiver \in {"open", "closed", "dropped"}
    /\ channel \in [Message -> {"none", "open", "sent", "dropped"}]
    /\ held \in BOOLEAN

Init ==
    /\ style \in {"callback", "plain"}
    /\ stage = [m \in Message |-> "idle"]
    /\ sent = <<>> /\ received = 0
    /\ receiver = "open"
    /\ channel = [m \in Message |-> "none"]
    /\ held = TRUE
-----------------------------------------------------------------------------
(* What a call returns to its client.                                      *)

answer ==
    [m \in Message |->
        CASE channel[m] = "sent" -> "ok"
          [] channel[m] = "dropped" ->
                 IF kind[m] = "stop" THEN "ok" ELSE "MailboxStopped"
          [] OTHER -> "none"]

Returned(m) ==
    stage[m] # "idle" /\ (kind[m] \in Forgetful \/ answer[m] # "none")

\* A client makes its calls one after the other.
Turn(m) ==
    /\ held /\ stage[m] = "idle"
    /\ previous[m] \in Message => Returned(previous[m])

Called(m) ==
    /\ stage' = [stage EXCEPT ![m] = "sending"]
    /\ UNCHANGED <<style, sent, received, receiver, held>>

WithChannel(m) == channel' = [channel EXCEPT ![m] = "open"]

post(m) ==
    /\ kind[m] = "post" /\ style = "callback"
    /\ Turn(m) /\ WithChannel(m) /\ Called(m)

post_and_reply(m) ==
    /\ kind[m] = "post_and_reply"
    /\ Turn(m) /\ WithChannel(m) /\ Called(m)

\* The send is left to a task of its own: the next call may overtake it.
post_and_forget(m) ==
    /\ kind[m] = "post_and_forget"
    /\ Turn(m) /\ Called(m) /\ UNCHANGED channel

stop(m) ==
    /\ kind[m] = "stop" /\ style = "callback"
    /\ Turn(m) /\ WithChannel(m) /\ Called(m)

stop_and_forget(m) ==
    /\ kind[m] = "stop_and_forget" /\ style = "callback"
    /\ Turn(m) /\ Called(m) /\ UNCHANGED channel

\* The last clients' copies of the mailbox are dropped.
Abandon ==
    /\ held /\ held' = FALSE
    /\ \A m \in Message : stage[m] # "idle" => Returned(m)
    /\ UNCHANGED <<style, stage, sent, received, receiver, channel>>
-----------------------------------------------------------------------------
(* The channel (tokio::sync::mpsc).                                        *)

Dropped(M) ==
    [m \in Message |->
        IF m \in M /\ channel[m] = "open" THEN "dropped" ELSE channel[m]]

Send(m) ==
    /\ stage[m] = "sending" /\ receiver = "open"
    /\ Len(sent) - received < buffer_size
    /\ stage' = [stage EXCEPT ![m] = "queued"]
    /\ sent' = Append(sent, m)
    /\ UNCHANGED <<style, received, receiver, channel, held>>

SendFails(m) ==
    /\ stage[m] = "sending" /\ receiver # "open"
    /\ stage' = [stage EXCEPT ![m] = "lost"]
    /\ channel' = Dropped({m})
    /\ UNCHANGED <<style, sent, received, receiver, held>>

Waiting == {m \in Message : stage[m] = "queued"}

\* The receiving end goes away, and what is in the channel with it.
DropReceiver(ended) ==
    /\ receiver' = "dropped"
    /\ sent' = SubSeq(sent, 1, received)
    /\ stage' = [m \in Message |-> IF m \in Waiting THEN "lost"
                                   ELSE IF m \in ended THEN "handled" ELSE stage[m]]
    /\ channel' = Dropped(Waiting \cup {m \in ended : kind[m] = "post"})
    /\ UNCHANGED <<style, received, held>>
-----------------------------------------------------------------------------
(* The loop of a callback mailbox.                                         *)

First == sent[received + 1]

Ready ==
    /\ receiver = "open" /\ received < Len(sent)
    /\ \A m \in Message : stage[m] # "handling"

\* A slip: a stop is acknowledged, and the loop goes on.
TakeStop_keeps_going ==
    /\ style = "callback" /\ Ready /\ kind[First] \in StopKind
    /\ received' = received + 1
    /\ stage' = [stage EXCEPT ![First] = "handled"]
    /\ channel' = IF kind[First] = "stop" THEN [channel EXCEPT ![First] = "sent"]
                  ELSE channel
    /\ UNCHANGED <<style, sent, receiver, held>>

TakeStop ==
    /\ style = "callback" /\ Ready /\ kind[First] \in StopKind
    /\ received' = received + 1
    /\ receiver' = "closed"
    /\ stage' = [stage EXCEPT ![First] = "handled"]
    /\ channel' = IF kind[First] = "stop" THEN [channel EXCEPT ![First] = "sent"]
                  ELSE channel
    /\ UNCHANGED <<style, sent, held>>

TakeUserMessage ==
    /\ style = "callback" /\ Ready /\ kind[First] \notin StopKind
    /\ received' = received + 1
    /\ stage' = [stage EXCEPT ![First] = "handling"]
    /\ UNCHANGED <<style, sent, receiver, channel, held>>

\* The step function returns; a `post' is acknowledged after it.
StepReturns(m) ==
    /\ stage[m] = "handling"
    /\ stage' = [stage EXCEPT ![m] = "handled"]
    /\ channel' = IF kind[m] = "post" THEN [channel EXCEPT ![m] = "sent"] ELSE channel
    /\ UNCHANGED <<style, sent, received, receiver, held>>

\* The step function panics: the task of the mailbox ends with it.
StepPanics(m) ==
    /\ stage[m] = "handling"
    /\ DropReceiver({m})

\* A slip: the messages left in the channel are forgotten with their callers.
LoopEnds_leaks ==
    /\ receiver = "closed"
    /\ receiver' = "dropped"
    /\ UNCHANGED <<style, stage, sent, received, channel, held>>

\* The task ends after the loop was left.
LoopEnds ==
    /\ receiver = "closed"
    /\ DropReceiver({})
-----------------------------------------------------------------------------
(* The body of a plain mailbox, and replies.                               *)

receive ==
    /\ style = "plain" /\ Ready
    /\ received' = received + 1
    /\ stage' = [stage EXCEPT ![First] = "handled"]
    /\ UNCHANGED <<style, sent, receiver, channel, held>>

\* Nothing can be sent any more: recv gives None and the body returns.  The
\* task of a callback mailbox holds a copy of it and never sees this.
receive_none ==
    /\ style = "plain" /\ receiver = "open" /\ received = Len(sent)
    /\ ~held /\ \A m \in Message : stage[m] # "sending"
    /\ DropReceiver({})

\* A body also returns of its own accord, after its stop message.
BodyReturns ==
    /\ style = "plain" /\ receiver = "open" /\ received > 0
    /\ DropReceiver({})

Replying(m) ==
    /\ kind[m] = "post_and_reply" /\ channel[m] = "open"
    /\ stage[m] \in {"handling", "handled"}

reply(m) ==
    /\ Replying(m)
    /\ channel' = [channel EXCEPT ![m] = "sent"]
    /\ UNCHANGED <<style, stage, sent, received, receiver, held>>

\* Whoever was to reply gives the channel up.
DropReply(m) ==
    /\ Replying(m)
    /\ channel' = [channel EXCEPT ![m] = "dropped"]
    /\ UNCHANGED <<style, stage, sent, received, receiver, held>>
-----------------------------------------------------------------------------
Call(m) ==
    \/ post(m)
    \/ post_and_reply(m)
    \/ post_and_forget(m)
    \/ stop(m)
    \/ stop_and_forget(m)

Loop ==
    \/ TakeStop
    \/ TakeUserMessage
    \/ LoopEnds
    \/ receive
    \/ receive_none

Next ==
    \/ \E m \in Message :
        \/ Call(m) \/ Send(m) \/ SendFails(m)
        \/ StepReturns(m) \/ StepPanics(m)
        \/ reply(m) \/ DropReply(m)
    \/ Abandon
    \/ Loop
    \/ BodyReturns

\* Tasks are scheduled: a send that can proceed does, the loop goes on, a step
\* function comes to its end, and a reply channel is used or dropped.
Fairness ==
    /\ WF_vars(Loop)
    /\ \A m \in Message :
        /\ WF_vars(Send(m)) /\ WF_vars(SendFails(m))
        /\ WF_vars(StepReturns(m) \/ StepPanics(m))
        /\ WF_vars(reply(m) \/ DropReply(m))

Spec == Init /\ [][Next]_vars /\ Fairness
-----------------------------------------------------------------------------
\* A mailbox keeps the contract of MailboxContract: messages are taken once and
\* in the order they entered the channel, none after a stop; `post' returns Ok
\* after its step, `stop' when nothing will be taken any more, and an error
\* says that the message is not waiting (callback.rs, plain.rs).
Contract ==
    INSTANCE MailboxContract WITH
        Stop <- {m \in Message : kind[m] \in StopKind},
        Complete <- {m \in Message : kind[m] = "post"},
        accepted <- sent,
        taken <- received,
        busy <- \E m \in Message : stage[m] = "handling",
        stopped <- receiver # "open"

KeepsContract == Contract!Spec

\* Every call returns: a message that waits in the channel when the mailbox
\* stops, or that never gets into it, is answered with MailboxStopped and does
\* not leave its caller waiting (callback.rs:165-196).
EveryCallReturns ==
    \A m \in Message : stage[m] # "idle" ~> Returned(m)
=============================================================================
