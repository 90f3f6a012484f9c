--------------------------- MODULE MailboxContract ---------------------------
(***************************************************************************)
(* What a mailbox promises to those who post to it, whatever it does       *)
(* inside: it takes the messages it accepted, each once, in the order in   *)
(* which it accepted them, and none after a stop; whoever waits for a      *)
(* message is told "ok" only when the mailbox is done with it, and is told *)
(* that the mailbox is stopped only about a message it will not take.      *)
(***************************************************************************)
EXTENDS Naturals, Sequences

CONSTANTS
    Message,
    Stop,       \* the messages that ask the mailbox to stop
    Complete    \* the messages that are acknowledged once their work is done

VARIABLES
    accepted,   \* the messages accepted and not discarded, in order
    taken,      \* how many of them the mailbox has taken
    busy,       \* the last one taken is still being worked on
    stopped,
    answer      \* what the sender of each message has been told

contract == <<accepted, taken, busy, stopped, answer>>

Init ==
    /\ accepted = <<>> /\ taken = 0
    /\ busy = FALSE /\ stopped = FALSE
    /\ answer = [m \in Message |-> "none"]

Taken(m) == \E i \in 1..taken : accepted[i] = m

Waiting(m) == \E i \in taken + 1..Len(accepted) : accepted[i] = m

UnderWork(m) == busy /\ accepted[taken] = m

Accept(m) ==
    /\ ~stopped /\ ~Taken(m) /\ ~Waiting(m)
    /\ accepted' = Append(accepted, m)
    /\ UNCHANGED <<taken, busy, stopped>>

Take ==
    /\ ~stopped /\ ~busy /\ taken < Len(accepted)
    /\ taken' = taken + 1
    /\ stopped' = (accepted[taken'] \in Stop)
    /\ stopped' => ~busy'
    /\ UNCHANGED accepted

Finish ==
    /\ busy /\ ~busy'
    /\ UNCHANGED <<accepted, taken, stopped>>

\* The mailbox ends; what it had not taken is gone.
Discard ==
    /\ stopped' /\ ~busy'
    /\ accepted' = SubSeq(accepted, 1, taken)
    /\ UNCHANGED taken

Told(m) ==
    \/ answer'[m] = answer[m]
    \/ /\ answer[m] = "none" /\ answer'[m] = "ok"
       /\ IF m \in Stop THEN stopped' /\ ~Waiting(m)'
          ELSE Taken(m)' /\ ~(m \in Complete /\ UnderWork(m)')
    \/ /\ answer[m] = "none" /\ answer'[m] = "MailboxStopped"
       /\ ~Waiting(m)'
       /\ stopped' \/ (Taken(m)' /\ m \notin Complete)

Next ==
    /\ (\E m \in Message : Accept(m)) \/ Take \/ Finish \/ Discard
           \/ UNCHANGED <<accepted, taken, busy, stopped>>
    /\ \A m \in Message : Told(m)

Spec == Init /\ [][Next]_contract
=============================================================================
