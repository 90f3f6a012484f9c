--------------------------- MODULE MailboxProofs ---------------------------
(***************************************************************************)
(* A mailbox keeps its contract, for any number of clients, calls and any  *)
(* buffer size.  The invariant says where in the channel each message is   *)
(* and what its one-shot channel can be at that stage.                     *)
(***************************************************************************)
EXTENDS Mailbox, TLAPS

\* The stage of a message tells which part of the channel it is in.
Order ==
    \A i \in 1..Len(sent) :
        /\ i <= received => stage[sent[i]] \in {"handling", "handled"}
        /\ i > received => stage[sent[i]] = "queued"

Distinct == \A i, j \in 1..Len(sent) : sent[i] = sent[j] => i = j

Located ==
    \A m \in Message :
        /\ stage[m] = "handling" =>
               received > 0 /\ sent[received] = m /\ receiver = "open"
        /\ stage[m] = "handled" => \E i \in 1..received : sent[i] = m

Channels ==
    \A m \in Message :
        /\ stage[m] \in {"idle", "sending", "queued"} => channel[m] \in {"none", "open"}
        /\ stage[m] = "lost" => receiver # "open"
        /\ kind[m] \in StopKind /\ stage[m] = "handled" => receiver # "open"
        /\ kind[m] \in StopKind => stage[m] # "handling"
        /\ kind[m] = "post" /\ stage[m] = "handling" => channel[m] \in {"none", "open"}

\* A plain mailbox knows neither stop messages nor step functions.
Styles ==
    style = "plain" =>
        \A m \in Message :
            /\ stage[m] # "handling"
            /\ stage[m] # "idle" => kind[m] \in {"post_and_reply", "post_and_forget"}

Inv == TypeOK /\ Order /\ Distinct /\ Located /\ Channels /\ Styles

LEMMA InitInv == Init => Inv
BY MailboxAssumption DEF Init, Inv, TypeOK, Order, Distinct, Located, Channels, Styles, Stage
-----------------------------------------------------------------------------
(* The steps that change the channel, one lemma each.                      *)

\* A message that enters the channel is its last, and was not in it before.
LEMMA SendInv ==
    ASSUME Inv, NEW m \in Message, Send(m) PROVE Inv'
<1> USE DEF Inv
<1>1. /\ Len(sent') = Len(sent) + 1 /\ sent'[Len(sent) + 1] = m
      /\ \A i \in 1..Len(sent) : sent'[i] = sent[i]
      /\ sent' \in Seq(Message) /\ Len(sent) \in Nat /\ received \in Nat
  BY DEF Send, TypeOK
<1>2. \A i \in 1..Len(sent) : sent[i] # m /\ sent[i] \in Message
  BY DEF Send, TypeOK, Order
<1>3. TypeOK'
  BY <1>1 DEF Send, TypeOK, Stage
<1>4. Order'
  BY <1>1, <1>2 DEF Send, Order, TypeOK
<1>5. Distinct'
  BY <1>1, <1>2 DEF Send, Distinct
<1>6. Located'
  <2> SUFFICES ASSUME NEW n \in Message
               PROVE /\ stage'[n] = "handling" =>
                          received' > 0 /\ sent'[received'] = n /\ receiver' = "open"
                     /\ stage'[n] = "handled" => \E i \in 1..received' : sent'[i] = n
    BY DEF Located
  <2>1. received \in 0..Len(sent) /\ received' = received /\ receiver' = receiver
    BY DEF Send, TypeOK
  <2>2. stage'[n] \in {"handling", "handled"} => stage'[n] = stage[n]
    BY DEF Send, TypeOK
  <2> QED BY <1>1, <2>1, <2>2 DEF Located
<1>7. Channels'
  BY DEF Send, Channels, TypeOK
<1>8. Styles'
  BY DEF Send, Styles, TypeOK
<1> QED BY <1>3, <1>4, <1>5, <1>6, <1>7, <1>8

\* Taking the first message of the channel moves it, and nothing else.
LEMMA TakeInv ==
    ASSUME Inv, Ready,
           received' = received + 1,
           NEW s \in {"handling", "handled"},
           stage' = [stage EXCEPT ![First] = s],
           UNCHANGED <<style, sent, held>>,
           s = "handling" => receiver' = "open" /\ kind[First] \notin StopKind,
           s = "handled" /\ kind[First] \in StopKind => receiver' # "open",
           receiver' \in {"open", "closed"},
           channel' \in [Message -> {"none", "open", "sent", "dropped"}],
           \A m \in Message \ {First} : channel'[m] = channel[m],
           s = "handling" => style = "callback" /\ channel' = channel
    PROVE  Inv'
<1> USE DEF Inv
<1>1. /\ First \in Message /\ stage[First] = "queued"
      /\ received \in Nat /\ received + 1 \in 1..Len(sent) /\ Len(sent) \in Nat
  BY DEF Ready, First, TypeOK, Order
<1>2. /\ stage'[First] = s
      /\ \A m \in Message \ {First} : stage'[m] = stage[m]
      /\ \A m \in Message : stage[m] # "handling"
  BY <1>1 DEF TypeOK, Ready
<1>3. TypeOK'
  <2>1. stage' \in [Message -> Stage]
    BY <1>1 DEF TypeOK, Stage
  <2>2. received' \in 0..Len(sent')
    BY <1>1
  <2>3. /\ style' \in {"callback", "plain"} /\ sent' \in Seq(Message) /\ held' \in BOOLEAN
        /\ receiver' \in {"open", "closed", "dropped"}
    BY DEF TypeOK
  <2> QED BY <2>1, <2>2, <2>3 DEF TypeOK
<1>4. Order'
  <2> SUFFICES ASSUME NEW i \in 1..Len(sent)
               PROVE /\ i <= received + 1 => stage'[sent[i]] \in {"handling", "handled"}
                     /\ i > received + 1 => stage'[sent[i]] = "queued"
    BY DEF Order
  <2>1. CASE i = received + 1
    BY <2>1, <1>1, <1>2 DEF First
  <2>2. CASE i # received + 1
    <3>1. sent[i] # First /\ sent[i] \in Message
      BY <2>2, <1>1 DEF Distinct, First, TypeOK
    <3> QED BY <3>1, <2>2, <1>1, <1>2 DEF Order
  <2> QED BY <2>1, <2>2
<1>5. Distinct'
  BY DEF Distinct
<1>6. Located'
  <2> SUFFICES ASSUME NEW n \in Message
               PROVE /\ stage'[n] = "handling" =>
                          received' > 0 /\ sent'[received'] = n /\ receiver' = "open"
                     /\ stage'[n] = "handled" => \E i \in 1..received' : sent'[i] = n
    BY DEF Located
  <2>1. CASE n = First
    BY <2>1, <1>1, <1>2 DEF First
  <2>2. CASE n # First
    BY <2>2, <1>1, <1>2 DEF Located
  <2> QED BY <2>1, <2>2
<1>7. Channels'
  <2> SUFFICES ASSUME NEW n \in Message
               PROVE  /\ stage'[n] \in {"idle", "sending", "queued"} => channel'[n] \in {"none", "open"}
                      /\ stage'[n] = "lost" => receiver' # "open"
                      /\ kind[n] \in StopKind /\ stage'[n] = "handled" => receiver' # "open"
                      /\ kind[n] \in StopKind => stage'[n] # "handling"
                      /\ kind[n] = "post" /\ stage'[n] = "handling" => channel'[n] \in {"none", "open"}
    BY DEF Channels
  <2>1. CASE n = First
    BY <2>1, <1>1, <1>2 DEF Channels
  <2>2. CASE n # First
    BY <2>2, <1>1, <1>2 DEF Channels, Ready
  <2> QED BY <2>1, <2>2
<1>8. Styles'
  BY <1>1, <1>2 DEF Styles
<1> QED BY <1>3, <1>4, <1>5, <1>6, <1>7, <1>8

\* When the receiving end goes away only the messages already taken remain.
LEMMA DropInv ==
    ASSUME Inv, NEW ended \in SUBSET Message, DropReceiver(ended),
           \A m \in Message : m \in ended <=> stage[m] = "handling"
    PROVE  Inv'
<1> USE DEF Inv
<1>1. /\ received \in Nat /\ Len(sent) \in Nat /\ received <= Len(sent)
      /\ Len(sent') = received /\ sent' \in Seq(Message)
      /\ \A i \in 1..received : sent'[i] = sent[i] /\ sent[i] \in Message
      /\ received' = received /\ receiver' = "dropped"
  BY DEF DropReceiver, TypeOK
<1>2. \A m \in Message : stage'[m] = IF stage[m] = "queued" THEN "lost"
                                     ELSE IF stage[m] = "handling" THEN "handled" ELSE stage[m]
  BY DEF DropReceiver, Waiting
<1>3. TypeOK'
  BY <1>1 DEF TypeOK, DropReceiver, Stage, Dropped, Waiting
<1>4. Order'
  BY <1>1, <1>2 DEF Order
<1>5. Distinct'
  BY <1>1 DEF Distinct
<1>6. Located'
  <2> SUFFICES ASSUME NEW n \in Message
               PROVE /\ stage'[n] # "handling"
                     /\ stage'[n] = "handled" => \E i \in 1..received' : sent'[i] = n
    BY DEF Located
  <2>1. CASE stage[n] = "handling"
    BY <2>1, <1>1, <1>2 DEF Located
  <2>2. CASE stage[n] # "handling"
    BY <2>2, <1>1, <1>2 DEF Located
  <2> QED BY <2>1, <2>2
<1>7. Channels'
  BY <1>1, <1>2 DEF Channels, DropReceiver, Dropped, Waiting, TypeOK
<1>8. Styles'
  BY <1>2 DEF DropReceiver, Styles
<1> QED BY <1>3, <1>4, <1>5, <1>6, <1>7, <1>8
-----------------------------------------------------------------------------
\* Every step of the mailbox and of its clients preserves the invariant.
LEMMA NextInv ==
    Inv /\ [Next]_vars => Inv'
<1> SUFFICES ASSUME Inv, [Next]_vars PROVE Inv'
  OBVIOUS
<1> USE DEF Inv
<1>1. ASSUME NEW m \in Message, Call(m) PROVE Inv'
  <2>1. /\ stage[m] = "idle" /\ stage' = [stage EXCEPT ![m] = "sending"]
        /\ style = "plain" => kind[m] \in {"post_and_reply", "post_and_forget"}
        /\ UNCHANGED <<style, sent, received, receiver, held>>
        /\ channel' \in {channel, [channel EXCEPT ![m] = "open"]}
    BY <1>1 DEF Call, post, post_and_reply, post_and_forget, stop, stop_and_forget,
                Turn, Called, WithChannel
  <2>2. stage' \in [Message -> Stage] /\ channel' \in [Message -> {"none", "open", "sent", "dropped"}]
    BY <2>1 DEF TypeOK, Stage
  <2>3. TypeOK'
    BY <2>1, <2>2 DEF TypeOK
  <2>4. Order' /\ Distinct'
    BY <2>1 DEF TypeOK, Order, Distinct
  <2>5. Located' /\ Channels'
    BY <2>1 DEF TypeOK, Located, Channels
  <2>6. Styles'
    BY <2>1 DEF TypeOK, Styles
  <2> QED BY <2>3, <2>4, <2>5, <2>6
<1>2. ASSUME NEW m \in Message, SendFails(m) PROVE Inv'
  <2>1. TypeOK'
    BY <1>2 DEF SendFails, Dropped, TypeOK, Stage
  <2>2. Order' /\ Distinct'
    BY <1>2 DEF SendFails, TypeOK, Order, Distinct
  <2>3. Located' /\ Channels'
    BY <1>2 DEF SendFails, Dropped, TypeOK, Located, Channels
  <2>4. Styles'
    BY <1>2 DEF SendFails, TypeOK, Styles
  <2> QED BY <2>1, <2>2, <2>3, <2>4
<1>3. ASSUME NEW m \in Message, StepReturns(m) PROVE Inv'
  <2>1. TypeOK'
    BY <1>3 DEF StepReturns, TypeOK, Stage
  <2>2. Order' /\ Distinct'
    BY <1>3 DEF StepReturns, TypeOK, Order, Distinct
  <2>3. Located'
    <3>1. received \in 1..received
      BY <1>3 DEF StepReturns, Located, TypeOK
    <3> QED BY <1>3, <3>1 DEF StepReturns, TypeOK, Located
  <2>4. Channels'
    BY <1>3 DEF StepReturns, TypeOK, Channels, Styles
  <2>5. Styles'
    BY <1>3 DEF StepReturns, TypeOK, Styles
  <2> QED BY <2>1, <2>2, <2>3, <2>4, <2>5
<1>4. ASSUME NEW m \in Message, StepPanics(m) PROVE Inv'
  <2>1. \A n \in Message : n \in {m} <=> stage[n] = "handling"
    BY <1>4 DEF StepPanics, Located
  <2> QED BY <1>4, <2>1, DropInv DEF StepPanics
<1>5. ASSUME NEW m \in Message, reply(m) \/ DropReply(m) PROVE Inv'
  <2>1. TypeOK'
    BY <1>5 DEF reply, DropReply, TypeOK
  <2>2. Order' /\ Distinct' /\ Located' /\ Styles'
    BY <1>5 DEF reply, DropReply, Order, Distinct, Located, Styles
  <2>3. Channels'
    BY <1>5 DEF reply, DropReply, Replying, TypeOK, Channels
  <2> QED BY <2>1, <2>2, <2>3
<1>6. CASE Abandon
  <2>1. held' \in BOOLEAN
    BY <1>6, Zenon DEF Abandon
  <2>2. TypeOK'
    BY <1>6, <2>1 DEF Abandon, TypeOK
  <2>3. Order' /\ Distinct' /\ Located' /\ Channels' /\ Styles'
    BY <1>6 DEF Abandon, Order, Distinct, Located, Channels, Styles
  <2> QED BY <2>2, <2>3
<1>7. CASE TakeStop
  <2>1. channel' \in [Message -> {"none", "open", "sent", "dropped"}]
        /\ \A m \in Message \ {First} : channel'[m] = channel[m]
    BY <1>7, Zenon DEF TakeStop, TypeOK
  <2> QED BY <1>7, <2>1, TakeInv DEF TakeStop
<1>8. CASE TakeUserMessage
  BY <1>8, TakeInv DEF TakeUserMessage, TypeOK, Ready
<1>9. CASE receive
  <2>1. First \in Message /\ stage[First] = "queued"
    BY <1>9 DEF receive, Ready, First, TypeOK, Order
  <2>2. kind[First] \notin StopKind
    BY <1>9, <2>1 DEF receive, Styles, StopKind
  <2> QED BY <1>9, <2>2, TakeInv DEF receive, TypeOK, Ready
<1>10. CASE LoopEnds \/ receive_none \/ BodyReturns
  <2>1. DropReceiver({}) /\ \A m \in Message : m \in {} <=> stage[m] = "handling"
    BY <1>10 DEF LoopEnds, receive_none, BodyReturns, Located, Styles
  <2> QED BY <2>1, DropInv
<1>11. CASE UNCHANGED vars
  BY <1>11 DEF vars, TypeOK, Order, Distinct, Located, Channels, Styles
<1> QED BY <1>1, <1>2, <1>3, <1>4, <1>5, <1>6, <1>7, <1>8, <1>9, <1>10, <1>11, SendInv
        DEF Next, Loop
-----------------------------------------------------------------------------
(* The refinement.  A step of the mailbox is a step of the contract in     *)
(* which those it answers are told what the contract allows.               *)

Busy == \E m \in Message : stage[m] = "handling"

CTaken(m) == \E i \in 1..received : sent[i] = m

CWaiting(m) == \E i \in received + 1..Len(sent) : sent[i] = m

\* Whom a step may tell what, in the words of the mailbox.
MayTell(m) ==
    \/ channel'[m] = channel[m]
    \/ channel[m] = "none" /\ channel'[m] = "open"
    \/ /\ channel[m] \in {"none", "open"} /\ channel'[m] = "sent"
       /\ IF kind[m] \in StopKind THEN receiver' # "open" /\ ~CWaiting(m)'
          ELSE CTaken(m)' /\ ~(kind[m] = "post" /\ Busy' /\ sent'[received'] = m)
    \/ /\ channel[m] \in {"none", "open"} /\ channel'[m] = "dropped"
       /\ ~CWaiting(m)'
       /\ receiver' # "open" \/ (CTaken(m)' /\ kind[m] \notin StopKind \cup {"post"})

LEMMA TellsAsAllowed ==
    ASSUME Inv, Inv', NEW m \in Message, MayTell(m)
    PROVE  Contract!Told(m)
<1> USE DEF Inv
<1>1. kind[m] \in Kind /\ channel[m] \in {"none", "open", "sent", "dropped"}
      /\ channel'[m] \in {"none", "open", "sent", "dropped"}
  BY MailboxAssumption DEF TypeOK
<1>2. answer[m] = CASE channel[m] = "sent" -> "ok"
          [] channel[m] = "dropped" ->
                 IF kind[m] = "stop" THEN "ok" ELSE "MailboxStopped"
          [] OTHER -> "none"
  BY DEF answer
<1>3. answer'[m] = CASE channel'[m] = "sent" -> "ok"
          [] channel'[m] = "dropped" ->
                 IF kind[m] = "stop" THEN "ok" ELSE "MailboxStopped"
          [] OTHER -> "none"
  BY DEF answer
<1> DEFINE s == {n \in Message : kind[n] \in StopKind}
           c == {n \in Message : kind[n] = "post"}
<1>4. (m \in s <=> kind[m] \in StopKind) /\ (m \in c <=> kind[m] = "post")
  OBVIOUS
<1>5. CASE channel'[m] = channel[m] \/ channel'[m] = "open"
  BY <1>1, <1>2, <1>3, <1>5 DEF Contract!Told, MayTell
<1>6. CASE channel[m] \in {"none", "open"} /\ channel'[m] = "sent"
  <2>1. answer[m] = "none" /\ answer'[m] = "ok"
    BY <1>2, <1>3, <1>6
  <2>2. IF m \in s THEN (receiver # "open")' /\ ~Contract!Waiting(m)'
        ELSE Contract!Taken(m)' /\ ~(m \in c /\ Contract!UnderWork(m)')
    BY <1>6, <1>4 DEF MayTell, CTaken, CWaiting, Busy,
                 Contract!Taken, Contract!Waiting, Contract!UnderWork
  <2> QED BY <2>1, <2>2 DEF Contract!Told
<1>7. CASE channel[m] \in {"none", "open"} /\ channel'[m] = "dropped"
  <2>1. answer[m] = "none" /\ answer'[m] = IF kind[m] = "stop" THEN "ok" ELSE "MailboxStopped"
    BY <1>2, <1>3, <1>7
  <2>2. ~Contract!Waiting(m)' /\ ((receiver # "open")' \/ (Contract!Taken(m)' /\ m \notin s /\ m \notin c))
    BY <1>7, <1>4 DEF MayTell, CTaken, CWaiting, Contract!Taken, Contract!Waiting
  <2>3. kind[m] = "stop" => m \in s /\ (receiver # "open")'
    BY <2>2, <1>4 DEF StopKind
  <2> QED BY <2>1, <2>2, <2>3, <1>4 DEF Contract!Told
<1> QED BY <1>5, <1>6, <1>7 DEF MayTell

\* What the contract sees of a step besides the answers.
ContractStep ==
    (\E m \in Message : Contract!Accept(m)) \/ Contract!Take \/ Contract!Finish
        \/ Contract!Discard
        \/ UNCHANGED <<sent, received, Busy, receiver # "open">>

LEMMA StepRefines ==
    ASSUME Inv, Inv', ContractStep, \A m \in Message : MayTell(m)
    PROVE  Contract!Next
BY TellsAsAllowed DEF ContractStep, Contract!Next, Busy

\* A message that is not queued is not in the waiting part of the channel.
LEMMA NotWaiting ==
    ASSUME Inv', NEW m \in Message, stage'[m] # "queued" PROVE ~CWaiting(m)'
<1> SUFFICES ASSUME NEW i \in received' + 1..Len(sent'), sent'[i] = m PROVE FALSE
  BY DEF CWaiting
<1>1. received' \in Nat /\ Len(sent') \in Nat
  BY DEF Inv, TypeOK
<1>2. i \in 1..Len(sent') /\ i > received'
  BY <1>1
<1> QED BY <1>2 DEF Inv, Order

LEMMA SendRefines ==
    ASSUME Inv, Inv', NEW m \in Message, Send(m) PROVE Contract!Next
<1> USE DEF Inv
<1>1. Contract!Accept(m)
  <2>1. ~Contract!Taken(m) /\ ~Contract!Waiting(m)
    <3>1. stage[m] \notin {"queued", "handling", "handled"} /\ received \in 0..Len(sent)
      BY DEF Send, TypeOK
    <3>2. ASSUME NEW i \in 1..Len(sent) PROVE sent[i] # m
      <4>1. i <= received \/ i > received
        BY <3>1
      <4> QED
        BY <3>1, <4>1, Zenon DEF Order
    <3>3. \A i \in 1..received : i \in 1..Len(sent)
      BY <3>1
    <3>4. \A i \in received + 1..Len(sent) : i \in 1..Len(sent)
      BY <3>1
    <3> QED
      BY <3>2, <3>3, <3>4, Zenon DEF Contract!Taken, Contract!Waiting
  <2>2. Busy' = Busy
    BY DEF Busy, Send, TypeOK
  <2> QED BY <2>1, <2>2 DEF Contract!Accept, Send, Busy
<1> QED BY <1>1, StepRefines DEF ContractStep, MayTell, Send

LEMMA TakeRefines ==
    ASSUME Inv, Inv', TakeStop \/ TakeUserMessage \/ receive PROVE Contract!Next
<1> USE DEF Inv
<1>1. First \in Message /\ stage[First] = "queued" /\ received \in Nat
      /\ Len(sent) \in Nat /\ received < Len(sent) /\ received' = received + 1 /\ sent' = sent
      /\ receiver = "open" /\ sent[received + 1] = First /\ ~Busy
  BY DEF TakeStop, TakeUserMessage, receive, Ready, First, TypeOK, Order, Busy
<1>2. receiver' # "open" <=> kind[First] \in StopKind
  <2>1. CASE TakeStop
    BY <2>1 DEF TakeStop
  <2>2. CASE TakeUserMessage
    BY <2>2, <1>1 DEF TakeUserMessage
  <2>3. CASE receive
    BY <2>3, <1>1 DEF receive, Styles, StopKind
  <2> QED BY <2>1, <2>2, <2>3
<1>3. receiver' # "open" => ~Busy'
  BY <1>1 DEF Busy, Located
<1>4. Contract!Take
  BY <1>1, <1>2, <1>3 DEF Contract!Take, Busy
<1>5. ASSUME NEW m \in Message PROVE MayTell(m)
  <2>1. CASE TakeStop /\ m = First /\ kind[m] = "stop"
    <3>1. channel[m] \in {"none", "open"} /\ channel'[m] = "sent" /\ stage'[m] # "queued"
      BY <2>1, <1>1 DEF TakeStop, Channels, TypeOK
    <3>2. receiver' # "open" /\ kind[m] \in StopKind
      BY <2>1, <1>2 DEF StopKind
    <3> QED BY <3>1, <3>2, NotWaiting DEF MayTell
  <2>2. CASE ~(TakeStop /\ m = First /\ kind[m] = "stop")
    <3>1. channel'[m] = channel[m]
      BY <2>2, <1>1 DEF TakeStop, TakeUserMessage, receive, TypeOK
    <3> QED BY <3>1 DEF MayTell
  <2> QED BY <2>1, <2>2
<1> QED BY <1>4, <1>5, StepRefines DEF ContractStep

LEMMA DropRefines ==
    ASSUME Inv, Inv', NEW ended \in SUBSET Message, DropReceiver(ended),
           \A m \in Message : m \in ended <=> stage[m] = "handling"
    PROVE  Contract!Next
<1> USE DEF Inv
<1>1. receiver' = "dropped" /\ ~Busy'
  BY DEF DropReceiver, Busy, Located
<1>2. Contract!Discard
  BY <1>1 DEF Contract!Discard, DropReceiver, Busy
<1>3. ASSUME NEW m \in Message PROVE MayTell(m)
  <2>1. stage'[m] # "queued"
    BY DEF DropReceiver, Waiting
  <2>2. channel'[m] # channel[m] => channel[m] = "open" /\ channel'[m] = "dropped"
    BY DEF DropReceiver, Dropped
  <2> QED BY <2>1, <2>2, <1>1, NotWaiting DEF MayTell
<1> QED BY <1>2, <1>3, StepRefines DEF ContractStep

\* Every step of the mailbox is a step of its contract.
LEMMA NextRefines ==
    ASSUME Inv, Inv', [Next]_vars PROVE [Contract!Next]_(Contract!contract)
<1> USE DEF Inv
<1>1. ASSUME NEW m \in Message, Call(m) PROVE Contract!Next
  <2>1. /\ stage[m] = "idle" /\ stage' = [stage EXCEPT ![m] = "sending"]
        /\ UNCHANGED <<sent, received, receiver>>
        /\ channel' \in {channel, [channel EXCEPT ![m] = "open"]}
    BY <1>1 DEF Call, post, post_and_reply, post_and_forget, stop, stop_and_forget,
                Turn, Called, WithChannel
  <2>2. Busy' = Busy
    BY <2>1 DEF Busy, TypeOK
  <2>3. \A n \in Message : MayTell(n)
    BY <2>1 DEF MayTell, TypeOK, Channels
  <2> QED BY <2>1, <2>2, <2>3, StepRefines DEF ContractStep
<1>2. ASSUME NEW m \in Message, SendFails(m) PROVE Contract!Next
  <2>1. Busy' = Busy /\ UNCHANGED <<sent, received, receiver>> /\ receiver' # "open"
    BY <1>2 DEF SendFails, Busy, TypeOK
  <2>2. stage'[m] # "queued"
    BY <1>2 DEF SendFails, TypeOK
  <2>3. ASSUME NEW n \in Message PROVE MayTell(n)
    <3>1. channel'[n] # channel[n] => n = m /\ channel[n] = "open" /\ channel'[n] = "dropped"
      BY <1>2 DEF SendFails, Dropped
    <3> QED BY <3>1, <2>1, <2>2, NotWaiting DEF MayTell
  <2> QED BY <2>1, <2>3, StepRefines DEF ContractStep
<1>3. ASSUME NEW m \in Message, StepReturns(m) PROVE Contract!Next
  <2>1. Busy /\ ~Busy' /\ UNCHANGED <<sent, received, receiver>>
    BY <1>3 DEF StepReturns, Busy, TypeOK, Located
  <2>2. Contract!Finish
    BY <2>1 DEF Contract!Finish, Busy
  <2>3. received \in 1..received /\ sent[received] = m /\ kind[m] \notin StopKind
    BY <1>3 DEF StepReturns, Located, TypeOK, Channels
  <2>4. ASSUME NEW n \in Message PROVE MayTell(n)
    <3>1. channel'[n] = channel[n] \/ (n = m /\ channel'[n] = "sent")
      BY <1>3 DEF StepReturns, TypeOK
    <3>2. CTaken(m)'
      BY <2>1, <2>3 DEF CTaken
    <3>3. channel'[n] # channel[n] => channel[n] \in {"none", "open"}
      BY <1>3 DEF StepReturns, TypeOK, Channels
    <3> QED BY <3>1, <3>2, <3>3, <2>1, <2>3 DEF MayTell
  <2> QED BY <2>2, <2>4, StepRefines DEF ContractStep
<1>4. ASSUME NEW m \in Message, StepPanics(m) PROVE Contract!Next
  <2>1. \A n \in Message : n \in {m} <=> stage[n] = "handling"
    BY <1>4 DEF StepPanics, Located
  <2> QED BY <1>4, <2>1, DropRefines DEF StepPanics
<1>5. ASSUME NEW m \in Message, reply(m) \/ DropReply(m) PROVE Contract!Next
  <2>1. Busy' = Busy /\ UNCHANGED <<sent, received, receiver, stage>>
    BY <1>5 DEF reply, DropReply, Busy
  <2>2. CTaken(m)' /\ ~CWaiting(m)' /\ kind[m] \notin StopKind \cup {"post"}
    <3>1. received \in Nat /\ (stage[m] = "handling" => received \in 1..received /\ sent[received] = m)
      BY DEF TypeOK, Located
    <3>2. CTaken(m)
      BY <1>5, <3>1 DEF reply, DropReply, Replying, Located, CTaken
    <3>3. CTaken(m)'
      BY <3>2, <2>1 DEF CTaken
    <3>4. ~CWaiting(m)'
      BY <1>5, <2>1, NotWaiting DEF reply, DropReply, Replying
    <3> QED BY <3>3, <3>4, <1>5 DEF reply, DropReply, Replying, StopKind
  <2>3. ASSUME NEW n \in Message PROVE MayTell(n)
    <3>1. channel'[n] = channel[n] \/ (n = m /\ channel[n] = "open" /\ channel'[n] \in {"sent", "dropped"})
      BY <1>5 DEF reply, DropReply, Replying, TypeOK
    <3> QED BY <3>1, <2>2 DEF MayTell
  <2> QED BY <2>1, <2>3, StepRefines DEF ContractStep
<1>6. CASE LoopEnds \/ receive_none \/ BodyReturns
  <2>1. DropReceiver({}) /\ \A m \in Message : m \in {} <=> stage[m] = "handling"
    BY <1>6 DEF LoopEnds, receive_none, BodyReturns, Located, Styles
  <2> QED BY <2>1, DropRefines
<1>7. CASE Abandon \/ UNCHANGED vars
  <2>1. UNCHANGED <<sent, received, receiver, stage, channel>>
    BY <1>7 DEF Abandon, vars
  <2>2. answer' = answer
    BY <2>1 DEF answer
  <2> QED BY <2>1, <2>2 DEF Contract!contract
<1> QED BY <1>1, <1>2, <1>3, <1>4, <1>5, <1>6, <1>7, SendRefines, TakeRefines DEF Next, Loop
-----------------------------------------------------------------------------
\* A mailbox keeps its contract whatever its clients, calls and buffer size are:
\* the channel, the loop and the one-shot channels of callback.rs and plain.rs
\* together take every message once, in order and not after a stop, and tell
\* every caller the truth.
THEOREM MailboxKeepsContract == Spec => KeepsContract
<1>1. Init => Contract!Init
  BY DEF Init, Contract!Init, answer
<1>2. Inv /\ Inv' /\ [Next]_vars => [Contract!Next]_(Contract!contract)
  BY NextRefines
<1> QED BY <1>1, <1>2, InitInv, NextInv, PTL DEF Spec, KeepsContract, Contract!Spec
=============================================================================
