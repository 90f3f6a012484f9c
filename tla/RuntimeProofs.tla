--------------------------- MODULE RuntimeProofs ---------------------------
(***************************************************************************)
(* Proofs about the function runtime, for any number of calls, assemblies  *)
(* and revisions, any requests a function may make and any memory limits.  *)
(* A call is answered, billed and given a module as its instance and the   *)
(* definitions decide; what an instance may be doing (Sound) is the        *)
(* invariant of one function and its host, and is shown step by step of    *)
(* either of them.                                                         *)
(***************************************************************************)
EXTENDS Runtime, TLAPS

(***************************************************************************)
(* The protocol                                                            *)
(***************************************************************************)

\* A kind that was read was written as its code.
LEMMA ReadIsWritten ==
    ASSUME NEW code, NEW k, ReadOutgoing(code) = k, k # "InvalidData"
    PROVE  WriteOutgoing(k) = code
<1>1. \E l \in DOMAIN OutgoingMessageKind : OutgoingMessageKind[l] = code
  BY Zenon DEF ReadOutgoing, Decode
<1>2. k = CHOOSE l \in DOMAIN OutgoingMessageKind : OutgoingMessageKind[l] = code
  BY <1>1, Zenon DEF ReadOutgoing, Decode
<1> QED
  BY <1>1, <1>2, Zenon DEF WriteOutgoing

\* The code of a request is none of those a function ends or logs with.
LEMMA RequestCodes ==
    /\ WriteOutgoing("FatalError") = 1 /\ WriteOutgoing("FunctionResult") = 2
    /\ WriteOutgoing("Log") = 3
    /\ \A k \in Request : WriteOutgoing(k) \in Nat /\ WriteOutgoing(k) > 1000
BY DEF WriteOutgoing, OutgoingMessageKind, Request, DbRequest, StorageRequest

\* No two requests have the same code.
LEMMA RequestsDiffer ==
    ASSUME NEW k \in Request, NEW l \in Request, WriteOutgoing(k) = WriteOutgoing(l)
    PROVE  k = l
BY DEF WriteOutgoing, OutgoingMessageKind, Request, DbRequest, StorageRequest

\* No two answers have the same code.
LEMMA AnswersDiffer ==
    ASSUME NEW k \in DOMAIN IncomingMessageKind, NEW l \in DOMAIN IncomingMessageKind,
           IncomingMessageKind[k] = IncomingMessageKind[l]
    PROVE  k = l
BY DEF IncomingMessageKind

\* A message to a function is read as it was written.
LEMMA WrittenIsRead ==
    ASSUME NEW k \in DOMAIN IncomingMessageKind
    PROVE  ReadIncoming(WriteIncoming(k)) = k
<1> DEFINE code == IncomingMessageKind[k]
           read == CHOOSE l \in DOMAIN IncomingMessageKind : IncomingMessageKind[l] = code
<1>1. ReadIncoming(WriteIncoming(k)) = read
  BY Zenon DEF ReadIncoming, WriteIncoming, Decode
<1>2. read \in DOMAIN IncomingMessageKind /\ IncomingMessageKind[read] = code
  BY Zenon
<1> QED
  BY <1>1, <1>2, AnswersDiffer, Zenon

\* What the host answers a request with.
IsAnswer(kind, answer) ==
    /\ answer \in DOMAIN IncomingMessageKind /\ IncomingMessageKind[answer] \in Nat
    /\ Understands(kind, answer)

\* Whatever a database request comes to, the SDK takes the message it is answered with.
LEMMA DbAnswers ==
    ASSUME NEW kind \in DbRequest, NEW answer \in handle_db_request(kind) \cup {"DbError"}
    PROVE  IsAnswer(kind, answer)
<1>1. answer \in db_expects(kind) \cup {"DbError"}
  BY DEF DbRequest, handle_db_request, db_expects
<1>2. answer \in {"DbError", "EmptyResult", "SingleResult", "KeyValueListResult", "ListResult",
                  "TableKeyValueListResult", "TableKeyListResult", "CasResult"}
  BY <1>1 DEF DbRequest, db_expects
<1>3. answer \in DOMAIN IncomingMessageKind /\ IncomingMessageKind[answer] \in Nat
  BY <1>2 DEF IncomingMessageKind
<1>4. ErrorOf(kind) = {"DbError"}
  BY DEF ErrorOf, DbRequest, StorageRequest
<1> QED
  BY <1>1, <1>3, <1>4, Zenon DEF IsAnswer, Understands

\* Whatever a storage request comes to, the SDK takes the message it is answered with.
LEMMA StorageAnswers ==
    ASSUME NEW kind \in StorageRequest,
           NEW answer \in storage_answers(kind) \cup {"StorageError"}
    PROVE  IsAnswer(kind, answer)
<1>1. answer \in storage_expects(kind) \cup {"StorageError"}
  BY DEF StorageRequest, storage_answers, storage_expects
<1>2. answer \in {"StorageError", "StorageEmptyResult", "StorageGetResult", "ObjectListResult"}
  BY <1>1 DEF StorageRequest, storage_expects
<1>3. answer \in DOMAIN IncomingMessageKind /\ IncomingMessageKind[answer] \in Nat
  BY <1>2 DEF IncomingMessageKind
<1>4. ErrorOf(kind) = {"StorageError"}
  BY DEF ErrorOf, DbRequest, StorageRequest
<1> QED
  BY <1>1, <1>3, <1>4, Zenon DEF IsAnswer, Understands

\* An HTTP request is answered with a message that the SDK takes.
LEMMA HttpAnswers == IsAnswer("HttpRequest", "HttpResponse")
BY DEF IsAnswer, Understands, IncomingMessageKind

(***************************************************************************)
(* An instance                                                             *)
(***************************************************************************)
\* The types of an instance; a pipe is any sequence of codes.
InstanceRecord ==
    [host : Host, guest : Guest, stdin : Seq(Nat), stdout : Seq(Nat), closed : BOOLEAN,
     outcome : Outcome,
     pending : {"none", "eof", "FailedToReadMessage", "ok", "FatalError"},
     result : Outcome \cup {"FailedToReadMessage", "FatalError"},
     asked : Request \cup {"none"}, confused : BOOLEAN, written : 0..MaxMessages,
     db_client : BOOLEAN, storage_client : BOOLEAN]

\* What is in the pipe to the host: logs, and at the end of them what the guest is
\* waiting for or has ended with.
Outgoing(r) ==
    /\ r.guest \in {"none", "initializing", "first"} => r.stdout = <<>>
    /\ r.guest = "running" => \A i \in 1..Len(r.stdout) : r.stdout[i] = 3
    /\ \A i \in 1..Len(r.stdout) - 1 : r.stdout[i] = 3
    /\ r.guest \in {"returning", "ended"} => \A i \in 1..Len(r.stdout) : r.stdout[i] <= 3
    /\ \A i \in 1..Len(r.stdout) :
          r.stdout[i] = 2 => r.stdin = <<>> /\ r.host # "starting" /\ r.guest \in {"returning", "ended"}

\* A question is either on its way to the host or its answer on the way back.
Conversation(r) ==
    IF r.guest = "asking"
    THEN /\ r.asked \in Request
         /\ \/ /\ r.stdin = <<>> /\ r.stdout # <<>>
               /\ r.stdout[Len(r.stdout)] = WriteOutgoing(r.asked)
            \/ /\ r.stdout = <<>>
               /\ \E answer \in DOMAIN IncomingMessageKind :
                     IsAnswer(r.asked, answer) /\ r.stdin = <<WriteIncoming(answer)>>
    ELSE r.asked = "none"

\* How far the two tasks are.
Progress(r) ==
    /\ r.host = "none" => r.guest = "none"
    /\ r.host \in {"none", "starting"} =>
          r.stdin = <<>> /\ r.guest \in {"none", "initializing", "first", "returning", "ended"}
    /\ r.guest \in {"none", "initializing", "first"} =>
          r.host \in {"none", "starting", "reading"} /\ Len(r.stdin) <= 1
    /\ r.guest = "running" => r.stdin = <<>>
    /\ r.guest \in {"running", "asking"} => r.host = "reading"
    /\ r.guest = "ended" <=> r.outcome # "none"
    /\ r.closed => r.guest = "ended"
    /\ r.pending = "ok" => r.stdin = <<>> /\ r.host \in {"joining", "done"}
    /\ r.host = "done" => r.guest = "ended"
    /\ r.result = "ok" => r.pending = "ok" /\ r.outcome = "ok" /\ r.host = "done"

\* The invariant of one instance.
Sound(r) ==
    /\ r \in InstanceRecord
    /\ Outgoing(r) /\ Conversation(r) /\ Progress(r) /\ ~r.confused

\* An instance is sound before it starts and when it starts.
LEMMA UnstartedSound == Sound(Unstarted) /\ Sound(Started)
<1> USE MessagesAssumption DEF InstanceRecord, Host, Guest, Outcome, Unstarted, Started
<1>1. Unstarted \in InstanceRecord /\ Started \in InstanceRecord
  <2>1. <<>> \in Seq(Nat) /\ 0 \in 0..MaxMessages
    OBVIOUS
  <2>2. Unstarted \in InstanceRecord
    BY <2>1
  <2>3. Started = [Unstarted EXCEPT !.host = "starting", !.guest = "initializing"]
    OBVIOUS
  <2> HIDE DEF Unstarted
  <2> QED
    BY <2>2, <2>3, Zenon
<1>2. Outgoing(Unstarted) /\ Outgoing(Started)
  BY DEF Outgoing
<1>3. Conversation(Unstarted) /\ Conversation(Started)
  BY DEF Conversation
<1>4. Progress(Unstarted) /\ Progress(Started)
  BY DEF Progress
<1> QED
  BY <1>1, <1>2, <1>3, <1>4 DEF Sound

\* A pipe after one more message.
LEMMA Appended ==
    ASSUME NEW q \in Seq(Nat), NEW x \in Nat, NEW p, p = Append(q, x)
    PROVE  /\ p \in Seq(Nat) /\ Len(p) = Len(q) + 1 /\ Len(q) \in Nat /\ p # <<>>
           /\ \A i \in 1..Len(q) : p[i] = q[i]
           /\ p[Len(p)] = x
OBVIOUS

\* Whatever the guest writes comes after logs only.
Writes(r, d, x) ==
    /\ r.guest \in {"first", "running"} /\ x \in Nat
    /\ d.stdout = Append(r.stdout, x) /\ d.guest \in {"running", "asking", "returning"}
    /\ d.guest = "running" => x = 3
    /\ d.guest = "returning" => x <= 3
    /\ x = 2 => d.stdin = <<>> /\ d.host # "starting" /\ d.guest = "returning"

Wrote(d, x) ==
    Outgoing(d) /\ d.stdout \in Seq(Nat) /\ d.stdout # <<>> /\ d.stdout[Len(d.stdout)] = x

\* What a write of the function leaves in the pipe to the host.
LEMMA WriteKeeps ==
    ASSUME NEW r, Sound(r), NEW d, NEW x, Writes(r, d, x)
    PROVE  Wrote(d, x)
<1> DEFINE p == r.stdout
           q == d.stdout
<1>1. p \in Seq(Nat) /\ \A i \in 1..Len(p) : p[i] = 3
  BY DEF Sound, InstanceRecord, Outgoing, Writes
<1>0. q = Append(p, x) /\ x \in Nat
  BY DEF Writes
<1> HIDE DEF p, q
<1>2. /\ q \in Seq(Nat) /\ Len(q) = Len(p) + 1 /\ Len(p) \in Nat /\ q # <<>>
      /\ \A i \in 1..Len(p) : q[i] = p[i]
      /\ q[Len(q)] = x
  BY <1>0, <1>1, Appended
<1>3. \A i \in 1..Len(q) : q[i] = 3 \/ (i = Len(q) /\ q[i] = x)
  <2> SUFFICES ASSUME NEW i \in 1..Len(q) PROVE q[i] = 3 \/ (i = Len(q) /\ q[i] = x)
    OBVIOUS
  <2>1. i \in 1..Len(p) \/ i = Len(q)
    BY <1>2
  <2> QED
    BY <1>1, <1>2, <2>1, Zenon
<1>4. \A i \in 1..Len(q) - 1 : q[i] = 3
  <2>1. Len(q) - 1 = Len(p)
    BY <1>2
  <2> QED
    BY <1>1, <1>2, <2>1
<1>5. /\ d.guest \in {"running", "asking", "returning"}
      /\ d.guest = "running" => \A i \in 1..Len(q) : q[i] = 3
      /\ d.guest = "returning" => \A i \in 1..Len(q) : q[i] <= 3
  BY <1>0, <1>3 DEF Writes
<1>6. \A i \in 1..Len(q) :
          q[i] = 2 => d.stdin = <<>> /\ d.host # "starting" /\ d.guest = "returning"
  BY <1>3 DEF Writes
<1>7. Outgoing(d)
  BY <1>4, <1>5, <1>6 DEF Outgoing, q
<1> QED
  BY <1>2, <1>7, Zenon DEF Wrote, q

\* What no step of the guest changes.
HostsPart(r, d) ==
    /\ d.host = r.host /\ d.pending = r.pending /\ d.result = r.result
    /\ d.confused => r.confused

\* Each step of a function keeps its instance sound.
LEMMA GuestSound ==
    ASSUME NEW c \in Call, inst \in [Call -> InstanceRecord], Sound(inst[c]), GuestStep(c)
    PROVE  Sound(inst'[c])
<1> DEFINE r == inst[c]
           d == inst'[c]
<1>0. Sound(r)
  OBVIOUS
<1>a. r \in InstanceRecord /\ Outgoing(r) /\ Conversation(r) /\ Progress(r) /\ ~r.confused
  BY <1>0, Zenon DEF Sound
<1>1. CASE InitializationFails(c) \/ StartIsMissing(c)
  <2>1. PICK outcome \in Outcome \ {"none", "ok"} :
            r.guest = "initializing" /\ d = [r EXCEPT !.guest = "ended", !.outcome = outcome, !.closed = FALSE]
    BY <1>1, Zenon DEF InitializationFails, StartIsMissing, Set, Ends, Outcome
  <2> HIDE DEF r, d
  <2>2. d \in InstanceRecord
    BY <1>a, <2>1, Zenon DEF InstanceRecord, Guest
  <2>3. /\ HostsPart(r, d) /\ r.guest = "initializing" /\ d.guest = "ended" /\ ~d.closed
        /\ d.outcome \notin {"none", "ok"} /\ d.stdin = r.stdin /\ d.stdout = r.stdout
        /\ d.asked = r.asked
    BY <1>a, <2>1 DEF InstanceRecord, HostsPart
  <2>4. Outgoing(d)
    BY <1>a, <2>3 DEF Outgoing
  <2>5. Conversation(d)
    BY <1>a, <2>3 DEF Conversation
  <2>6. Progress(d) /\ ~d.confused
    BY <1>a, <2>3 DEF Progress, HostsPart
  <2> QED
    BY <2>2, <2>4, <2>5, <2>6 DEF Sound, d
<1>2. CASE CallStart(c)
  <2>1. r.guest = "initializing" /\ d = [r EXCEPT !.guest = "first"]
    BY <1>2 DEF CallStart, Set
  <2> HIDE DEF r, d
  <2>2. d \in InstanceRecord
    BY <1>a, <2>1, Zenon DEF InstanceRecord, Guest
  <2>3. /\ HostsPart(r, d) /\ r.guest = "initializing" /\ d.guest = "first"
        /\ d.outcome = r.outcome /\ (d.closed => r.closed) /\ d.stdin = r.stdin
        /\ d.stdout = r.stdout /\ d.asked = r.asked
    BY <1>a, <2>1 DEF InstanceRecord, HostsPart
  <2>4. Outgoing(d)
    BY <1>a, <2>3 DEF Outgoing
  <2>5. Conversation(d)
    BY <1>a, <2>3 DEF Conversation
  <2>6. Progress(d) /\ ~d.confused
    BY <1>a, <2>3 DEF Progress, HostsPart
  <2> QED
    BY <2>2, <2>4, <2>5, <2>6 DEF Sound, d
<1>3. ASSUME NEW outcome \in Outcome, StartEnds(c, outcome)
      PROVE  Sound(d)
  <2>1. /\ r.guest \in {"first", "running", "returning"} /\ outcome # "none"
        /\ d = [r EXCEPT !.guest = "ended", !.outcome = outcome, !.closed = TRUE]
    BY <1>3 DEF StartEnds, Set, Ends, Running
  <2> HIDE DEF r, d
  <2>2. d \in InstanceRecord
    BY <1>a, <2>1, Zenon DEF InstanceRecord, Guest
  <2>3. /\ HostsPart(r, d) /\ d.guest = "ended" /\ d.outcome # "none"
        /\ d.stdin = r.stdin /\ d.stdout = r.stdout /\ d.asked = r.asked
    BY <1>a, <2>1 DEF InstanceRecord, HostsPart
  <2>7. r.guest \in {"first", "running", "returning"}
    BY <2>1
  <2>4. Outgoing(d)
    BY <1>a, <2>3, <2>7 DEF Outgoing, HostsPart
  <2>5. Conversation(d)
    BY <1>a, <2>3, <2>7 DEF Conversation
  <2>6. Progress(d) /\ ~d.confused
    BY <1>a, <2>3, <2>7 DEF Progress, HostsPart
  <2> QED
    BY <2>2, <2>4, <2>5, <2>6 DEF Sound
<1>4. CASE WriteNonsense(c)
  <2>1. /\ r.guest \in {"first", "running"}
        /\ d = [r EXCEPT !.stdout = Append(r.stdout, 0), !.guest = "returning"]
    BY <1>4 DEF WriteNonsense, Set, Write, UnknownCode
  <2>2. Outgoing(d) /\ d.stdout \in Seq(Nat)
    <3>1. Writes(r, d, 0)
      BY <1>0, <2>1 DEF Sound, InstanceRecord, Writes
    <3>2. Wrote(d, 0)
      BY <1>0, <3>1, WriteKeeps, Zenon
    <3> QED
      BY <3>2, Zenon DEF Wrote
  <2> HIDE DEF r, d
  <2>3. d \in InstanceRecord
    BY <1>a, <2>1, <2>2, Zenon DEF InstanceRecord, Guest
  <2>4. Conversation(d) /\ Progress(d) /\ ~d.confused
    BY <1>0, <2>1 DEF Sound, InstanceRecord, Conversation, Progress
  <2> QED
    BY <2>2, <2>3, <2>4 DEF Sound, d
<1>5. CASE read_and_execute_function(c)
  <2>1. r.guest = "first" /\ r.stdin # <<>>
    BY <1>5 DEF read_and_execute_function
  <2> DEFINE left == Tail(r.stdin)
  <2>2. left = <<>> /\ left \in Seq(Nat) /\ r.host = "reading" /\ r.stdout = <<>>
    <3>1. r.stdin \in Seq(Nat) /\ Len(r.stdin) <= 1 /\ r.host \in Host
      BY <1>0, <2>1 DEF Sound, InstanceRecord, Progress
    <3>2. r.host = "reading" /\ r.stdout = <<>>
      BY <1>0, <2>1, <3>1 DEF Sound, Progress, Outgoing, Host
    <3> QED
      BY <2>1, <3>1, <3>2
  <2>3. CASE d = [r EXCEPT !.stdin = Tail(r.stdin), !.guest = "running"]
    <3>1. d = [r EXCEPT !.stdin = left, !.guest = "running"]
      BY <2>3
    <3> HIDE DEF r, d, left
    <3>2. d \in InstanceRecord
      BY <1>a, <2>2, <3>1, ZenonT(30) DEF InstanceRecord, Guest
    <3>3. /\ HostsPart(r, d) /\ d.guest = "running" /\ d.outcome = r.outcome
          /\ (d.closed => r.closed) /\ d.stdin = <<>> /\ d.stdout = <<>> /\ d.asked = r.asked
      <4>1. d.stdin = left
        BY <1>a, <3>1, Zenon DEF InstanceRecord
      <4>2. /\ HostsPart(r, d) /\ d.guest = "running" /\ d.outcome = r.outcome
            /\ (d.closed => r.closed) /\ d.stdout = r.stdout /\ d.asked = r.asked
        BY <1>a, <3>1 DEF InstanceRecord, HostsPart
      <4> QED
        BY <2>2, <4>1, <4>2
    <3>4. Outgoing(d)
      BY <3>3 DEF Outgoing
    <3>5. Conversation(d)
      BY <1>a, <2>1, <3>3 DEF Conversation
    <3>6. Progress(d) /\ ~d.confused
      BY <1>a, <2>1, <2>2, <3>3 DEF Progress, HostsPart
    <3> QED
      BY <3>2, <3>4, <3>5, <3>6 DEF Sound, d
  <2>4. CASE d = [r EXCEPT !.stdin = Tail(r.stdin), !.stdout = Append(r.stdout, 1),
                           !.guest = "returning"]
    <3>1. d = [r EXCEPT !.stdin = left, !.stdout = Append(r.stdout, 1), !.guest = "returning"]
      BY <2>4
    <3>2. Writes(r, d, 1)
      BY <1>0, <2>1, <3>1 DEF Sound, InstanceRecord, Writes
    <3>3. Wrote(d, 1)
      BY <1>0, <3>2, WriteKeeps, Zenon
    <3> HIDE DEF r, d, left
    <3>4. d \in InstanceRecord
      BY <1>a, <2>2, <3>1, <3>3, ZenonT(30) DEF InstanceRecord, Guest, Wrote
    <3>5. /\ HostsPart(r, d) /\ d.guest = "returning" /\ d.outcome = r.outcome
          /\ (d.closed => r.closed) /\ d.stdin = <<>> /\ d.asked = r.asked
      <4>1. d.stdin = left
        BY <1>a, <3>1, Zenon DEF InstanceRecord
      <4>2. /\ HostsPart(r, d) /\ d.guest = "returning" /\ d.outcome = r.outcome
            /\ (d.closed => r.closed) /\ d.asked = r.asked
        BY <1>a, <3>1 DEF InstanceRecord, HostsPart
      <4> QED
        BY <2>2, <4>1, <4>2
    <3>6. Conversation(d)
      BY <1>a, <2>1, <3>5 DEF Conversation
    <3>7. Progress(d) /\ ~d.confused
      BY <1>a, <2>1, <2>2, <3>5 DEF Progress, HostsPart
    <3> QED
      BY <3>3, <3>4, <3>6, <3>7 DEF Sound, Wrote, d
  <2>5. WriteOutgoing("FatalError") = 1
    BY RequestCodes
  <2> QED
    BY <1>5, <2>3, <2>4, <2>5, ZenonT(30) DEF read_and_execute_function, Set, Write
<1>6. CASE log(c)
  <2>1. /\ r.guest = "running" /\ r.written < MaxMessages
        /\ d = [r EXCEPT !.stdout = Append(r.stdout, 3), !.written = r.written + 1]
    BY <1>6, RequestCodes, ZenonT(30) DEF log, Set, Write
  <2>2. Outgoing(d) /\ d.stdout \in Seq(Nat)
    <3>1. Writes(r, d, 3)
      BY <1>0, <2>1 DEF Sound, InstanceRecord, Writes
    <3>2. Wrote(d, 3)
      BY <1>0, <3>1, WriteKeeps, Zenon
    <3> QED
      BY <3>2, Zenon DEF Wrote
  <2> HIDE DEF r, d
  <2>3. d \in InstanceRecord
    <3>1. r.written + 1 \in 0..MaxMessages /\ r \in InstanceRecord
      BY <1>0, <2>1, MessagesAssumption DEF Sound, InstanceRecord
    <3> QED
      BY <2>1, <2>2, <3>1, Zenon DEF InstanceRecord, Guest
  <2>4. /\ HostsPart(r, d) /\ r.guest = "running" /\ d.guest = "running"
        /\ d.outcome = r.outcome /\ (d.closed => r.closed) /\ d.stdin = r.stdin
        /\ d.asked = r.asked
    BY <1>a, <2>1 DEF InstanceRecord, HostsPart
  <2>5. Conversation(d)
    BY <1>a, <2>4 DEF Conversation
  <2>6. Progress(d) /\ ~d.confused
    BY <1>a, <2>4 DEF Progress, HostsPart
  <2> QED
    BY <2>2, <2>3, <2>5, <2>6 DEF Sound, d
<1>7. ASSUME NEW kind \in requests[c] \ {"Log"}, request(c, kind)
      PROVE  Sound(d)
  <2>1. /\ r.guest = "running" /\ r.written < MaxMessages /\ kind \in Request
        /\ d = [r EXCEPT !.stdout = Append(r.stdout, WriteOutgoing(kind)), !.guest = "asking",
                         !.asked = kind, !.written = r.written + 1]
    BY <1>7, RequestsAssumption, Zenon DEF request, Set, Write
  <2>2. /\ Outgoing(d) /\ d.stdout \in Seq(Nat) /\ d.stdout # <<>>
        /\ d.stdout[Len(d.stdout)] = WriteOutgoing(kind)
    <3>1. WriteOutgoing(kind) \in Nat /\ WriteOutgoing(kind) # 2
      BY <2>1, RequestCodes
    <3>2. Writes(r, d, WriteOutgoing(kind))
      BY <1>0, <2>1, <3>1 DEF Sound, InstanceRecord, Writes
    <3> QED
      BY <1>0, <3>2, WriteKeeps, Zenon DEF Wrote
  <2> HIDE DEF r, d
  <2>3. d \in InstanceRecord
    <3>1. r.written + 1 \in 0..MaxMessages /\ r \in InstanceRecord
      BY <1>0, <2>1, MessagesAssumption DEF Sound, InstanceRecord
    <3> QED
      BY <2>1, <2>2, <3>1, Zenon DEF InstanceRecord, Guest
  <2>4. Conversation(d)
    BY <1>0, <2>1, <2>2 DEF Sound, InstanceRecord, Conversation, Progress
  <2>5. Progress(d) /\ ~d.confused
    BY <1>0, <2>1 DEF Sound, InstanceRecord, Progress
  <2> QED
    BY <2>2, <2>3, <2>4, <2>5 DEF Sound
<1>8. CASE ReadAnswer(c)
  <2>1. r.guest = "asking" /\ r.stdin # <<>>
    BY <1>8 DEF ReadAnswer
  <2>2. PICK answer \in DOMAIN IncomingMessageKind :
            IsAnswer(r.asked, answer) /\ r.stdin = <<WriteIncoming(answer)>> /\ r.stdout = <<>>
    BY <1>0, <2>1, Zenon DEF Sound, Conversation
  <2> DEFINE left == Tail(r.stdin)
  <2>3. left = <<>> /\ left \in Seq(Nat) /\ Head(r.stdin) = WriteIncoming(answer)
    BY <2>2
  <2>4. Understands(r.asked, ReadIncoming(Head(r.stdin)))
    BY <2>2, <2>3, WrittenIsRead, Zenon DEF IsAnswer
  <2>5. d = [r EXCEPT !.stdin = left, !.guest = "running", !.asked = "none",
                      !.confused = r.confused \/ FALSE]
    BY <1>8, <2>4, Zenon DEF ReadAnswer, Set
  <2>6. d = [r EXCEPT !.stdin = left, !.guest = "running", !.asked = "none", !.confused = FALSE]
    BY <1>0, <2>5, Zenon DEF Sound
  <2> HIDE DEF r, d, left
  <2>7. d \in InstanceRecord
    BY <1>a, <2>3, <2>6, ZenonT(30) DEF InstanceRecord, Guest
  <2>8. /\ HostsPart(r, d) /\ d.guest = "running" /\ d.outcome = r.outcome
        /\ (d.closed => r.closed) /\ d.stdin = <<>> /\ d.stdout = <<>> /\ d.asked = "none"
    <3>1. d.stdin = left
      BY <1>a, <2>6, Zenon DEF InstanceRecord
    <3>2. /\ HostsPart(r, d) /\ d.guest = "running" /\ d.outcome = r.outcome
          /\ (d.closed => r.closed) /\ d.stdout = r.stdout /\ d.asked = "none"
      BY <1>a, <2>6 DEF InstanceRecord, HostsPart
    <3> QED
      BY <2>2, <2>3, <3>1, <3>2
  <2>9. Outgoing(d)
    BY <2>8 DEF Outgoing
  <2>10. Conversation(d)
    BY <2>8 DEF Conversation
  <2>11. Progress(d) /\ ~d.confused
    BY <1>a, <2>1, <2>8 DEF Progress, HostsPart
  <2> QED
    BY <2>7, <2>9, <2>10, <2>11 DEF Sound, d
<1>9. CASE WriteResult(c)
  <2>1. /\ r.guest = "running"
        /\ d = [r EXCEPT !.stdout = Append(r.stdout, 2), !.guest = "returning"]
    BY <1>9, RequestCodes, ZenonT(30) DEF WriteResult, Set, Write
  <2>2. Outgoing(d) /\ d.stdout \in Seq(Nat)
    <3>1. Writes(r, d, 2)
      BY <1>0, <2>1 DEF Sound, InstanceRecord, Progress, Writes
    <3>2. Wrote(d, 2)
      BY <1>0, <3>1, WriteKeeps, Zenon
    <3> QED
      BY <3>2, Zenon DEF Wrote
  <2> HIDE DEF r, d
  <2>3. d \in InstanceRecord
    BY <1>a, <2>1, <2>2, Zenon DEF InstanceRecord, Guest
  <2>4. Conversation(d) /\ Progress(d) /\ ~d.confused
    BY <1>0, <2>1 DEF Sound, InstanceRecord, Conversation, Progress
  <2> QED
    BY <2>2, <2>3, <2>4 DEF Sound, d
<1> QED
  BY <1>1, <1>2, <1>3, <1>4, <1>5, <1>6, <1>7, <1>8, <1>9 DEF GuestStep

\* The host can read what the SDK writes.
LEMMA KnownCodesAreRead ==
    /\ ReadOutgoing(3) # "InvalidData"
    /\ \A k \in Request : ReadOutgoing(WriteOutgoing(k)) # "InvalidData"
<1>1. ASSUME NEW k \in DOMAIN OutgoingMessageKind
      PROVE  ReadOutgoing(WriteOutgoing(k)) \in DOMAIN OutgoingMessageKind
  <2>1. ReadOutgoing(WriteOutgoing(k)) =
            CHOOSE l \in DOMAIN OutgoingMessageKind : OutgoingMessageKind[l] = OutgoingMessageKind[k]
    BY <1>1, Zenon DEF ReadOutgoing, WriteOutgoing, Decode
  <2> QED
    BY <1>1, <2>1, Zenon
<1>2. "InvalidData" \notin DOMAIN OutgoingMessageKind
  BY DEF OutgoingMessageKind
<1>3. "Log" \in DOMAIN OutgoingMessageKind /\ Request \subseteq DOMAIN OutgoingMessageKind
  BY DEF OutgoingMessageKind, Request, DbRequest, StorageRequest
<1> QED
  BY <1>1, <1>2, <1>3, RequestCodes

\* What is left in a pipe when its first message has been taken.
LEMMA Taken1 ==
    ASSUME NEW q \in Seq(Nat), q # <<>>, NEW t, t = Tail(q)
    PROVE  /\ t \in Seq(Nat) /\ Len(t) = Len(q) - 1 /\ Len(q) \in Nat \ {0} /\ Head(q) = q[1]
           /\ \A i \in 1..Len(t) : t[i] = q[i + 1]
OBVIOUS

\* What the host finds first in the pipe: a log, the end of the function, or what
\* the function is waiting to have answered.
Finds(r) ==
    \/ Head(r.stdout) = 3
    \/ r.guest \in {"returning", "ended"}
    \/ /\ r.guest = "asking" /\ r.asked \in Request /\ Head(r.stdout) = WriteOutgoing(r.asked)
       /\ r.stdin = <<>> /\ Tail(r.stdout) = <<>>

\* What the host finds first in the pipe tells what the function is doing.
LEMMA ReadsWhat ==
    ASSUME NEW r, Sound(r), r.stdout # <<>>
    PROVE  Finds(r)
<1> DEFINE q == r.stdout
           t == Tail(q)
<1>1. q \in Seq(Nat) /\ q # <<>> /\ r.guest \in Guest
  BY DEF Sound, InstanceRecord
<1>2. /\ t \in Seq(Nat) /\ Len(t) = Len(q) - 1 /\ Len(q) \in Nat \ {0} /\ Head(q) = q[1]
      /\ \A i \in 1..Len(t) : t[i] = q[i + 1]
  BY <1>1, Taken1
<1>3. \A i \in 1..Len(q) - 1 : q[i] = 3
  BY DEF Sound, Outgoing
<1>4. CASE r.guest \in {"none", "initializing", "first"}
  BY <1>1, <1>4 DEF Sound, Outgoing
<1>5. CASE r.guest = "running"
  <2>1. \A i \in 1..Len(q) : q[i] = 3
    BY <1>5 DEF Sound, Outgoing
  <2> HIDE DEF q, t
  <2>2. Head(q) = 3
    BY <1>2, <2>1
  <2> QED
    BY <2>2, Zenon DEF Finds, q
<1>6. CASE r.guest = "asking"
  <2>1. r.asked \in Request /\ r.stdin = <<>> /\ q[Len(q)] = WriteOutgoing(r.asked)
    BY <1>1, <1>6 DEF Sound, Conversation
  <2> HIDE DEF q, t
  <2>2. CASE Len(q) = 1
    <3>1. t = <<>> /\ Head(q) = WriteOutgoing(r.asked)
      BY <1>2, <2>1, <2>2
    <3> QED
      BY <1>6, <2>1, <3>1, Zenon DEF Finds, q, t
  <2>3. CASE Len(q) # 1
    <3>1. Head(q) = 3
      BY <1>2, <1>3, <2>3
    <3> QED
      BY <3>1, Zenon DEF Finds, q
  <2> QED
    BY <2>2, <2>3
<1> QED
  BY <1>1, <1>4, <1>5, <1>6 DEF Guest, Finds

\* The host takes a message: what is left is as it was.
LEMMA TakeKeeps ==
    ASSUME NEW r, Sound(r), r.stdout # <<>>, r.host = "reading", NEW d,
           d.stdout = Tail(r.stdout), d.guest = r.guest, d.stdin = r.stdin,
           d.host \in {"reading", "joining"}
    PROVE  d.stdout \in Seq(Nat) /\ Outgoing(d)
<1> DEFINE q == r.stdout
           t == d.stdout
<1>1. q \in Seq(Nat) /\ q # <<>> /\ t = Tail(q)
  BY DEF Sound, InstanceRecord
<1>2. /\ r.guest \notin {"none", "initializing", "first"}
      /\ r.guest = "running" => \A i \in 1..Len(q) : q[i] = 3
      /\ \A i \in 1..Len(q) - 1 : q[i] = 3
      /\ r.guest \in {"returning", "ended"} => \A i \in 1..Len(q) : q[i] <= 3
      /\ \A i \in 1..Len(q) :
            q[i] = 2 => r.stdin = <<>> /\ r.host # "starting" /\ r.guest \in {"returning", "ended"}
  BY <1>1 DEF Sound, Outgoing
<1> HIDE DEF q, t
<1>3. /\ t \in Seq(Nat) /\ Len(t) = Len(q) - 1 /\ Len(q) \in Nat \ {0}
      /\ \A i \in 1..Len(t) : t[i] = q[i + 1]
  BY <1>1, Taken1
<1>4. /\ \A i \in 1..Len(t) : i + 1 \in 1..Len(q)
      /\ \A i \in 1..Len(t) - 1 : i + 1 \in 1..Len(q) - 1 /\ t[i] = q[i + 1]
  BY <1>3
<1>5. /\ d.guest = "running" => \A i \in 1..Len(t) : t[i] = 3
      /\ \A i \in 1..Len(t) - 1 : t[i] = 3
      /\ d.guest \in {"returning", "ended"} => \A i \in 1..Len(t) : t[i] <= 3
      /\ \A i \in 1..Len(t) :
            t[i] = 2 => d.stdin = <<>> /\ d.host # "starting" /\ d.guest \in {"returning", "ended"}
  BY <1>2, <1>3, <1>4, Zenon
<1> QED
  BY <1>2, <1>3, <1>5, Zenon DEF Outgoing, t

\* The host stops reading only when the function is about to end.
LEMMA JoinSound ==
    ASSUME NEW r, Sound(r), r.host = "reading", r.stdout # <<>>, r.guest \in {"returning", "ended"},
           NEW pending \in {"FailedToReadMessage", "ok", "FatalError"},
           pending = "ok" => r.stdin = <<>>,
           NEW d, d = [r EXCEPT !.stdout = Tail(r.stdout), !.host = "joining", !.pending = pending]
    PROVE  Sound(d)
<1>1. /\ d.stdout = Tail(r.stdout) /\ d.guest = r.guest /\ d.stdin = r.stdin
      /\ d.host = "joining" /\ d.pending = pending
  BY DEF Sound, InstanceRecord
<1>2. d.stdout \in Seq(Nat) /\ Outgoing(d)
  BY <1>1, TakeKeeps, Zenon
<1>3. d \in InstanceRecord
  BY <1>1, <1>2, Zenon DEF Sound, InstanceRecord, Host
<1>4. Conversation(d) /\ Progress(d) /\ ~d.confused
  BY DEF Sound, InstanceRecord, Conversation, Progress
<1> QED
  BY <1>2, <1>3, <1>4, Zenon DEF Sound

\* The host answers a request: nothing else is on the way.
LEMMA AnswerSound ==
    ASSUME NEW r, Sound(r), r.host = "reading", r.guest = "asking", r.stdin = <<>>,
           Tail(r.stdout) = <<>>,
           NEW answer, IsAnswer(r.asked, answer),
           NEW db \in BOOLEAN, NEW storage \in BOOLEAN,
           NEW d, d = [r EXCEPT !.stdout = Tail(r.stdout),
                                !.stdin = Append(r.stdin, WriteIncoming(answer)),
                                !.db_client = db, !.storage_client = storage]
    PROVE  Sound(d)
<1> DEFINE t == Tail(r.stdout)
           q == Append(r.stdin, WriteIncoming(answer))
<1>1. WriteIncoming(answer) \in Nat /\ answer \in DOMAIN IncomingMessageKind
  BY Zenon DEF IsAnswer, WriteIncoming
<1>2. q = <<WriteIncoming(answer)>> /\ q \in Seq(Nat)
  BY <1>1
<1>3. t = <<>> /\ t \in Seq(Nat) /\ Len(t) = 0
  <2>1. t = <<>>
    OBVIOUS
  <2> HIDE DEF t
  <2> QED
    BY <2>1
<1>4. d = [r EXCEPT !.stdout = t, !.stdin = q, !.db_client = db, !.storage_client = storage]
  OBVIOUS
<1> HIDE DEF t, q
<1>5. d \in InstanceRecord
  BY <1>2, <1>3, <1>4, Zenon DEF Sound, InstanceRecord
<1>6. d.stdout = t /\ d.stdin = q /\ d.guest = "asking" /\ d.asked = r.asked /\ d.host = "reading"
  BY <1>4, Zenon DEF Sound, InstanceRecord
<1>7. Outgoing(d)
  BY <1>3, <1>6 DEF Outgoing
<1>8. Conversation(d)
  <2>1. r.asked \in Request
    BY DEF Sound, Conversation
  <2> QED
    BY <1>1, <1>2, <1>3, <1>6, <2>1, Zenon DEF Conversation
<1>9. Progress(d) /\ ~d.confused
  BY <1>4 DEF Sound, InstanceRecord, Progress
<1> QED
  BY <1>5, <1>7, <1>8, <1>9, Zenon DEF Sound

\* Each step of the host keeps its instance sound.
LEMMA HostSound ==
    ASSUME NEW c \in Call, inst \in [Call -> InstanceRecord], Sound(inst[c]), HostStep(c)
    PROVE  Sound(inst'[c])
<1> DEFINE r == inst[c]
           d == inst'[c]
<1>0. Sound(r) /\ r \in InstanceRecord
  BY DEF Sound
<1>1. CASE WriteRequest(c)
  <2> DEFINE q == Append(r.stdin, 1)
  <2>1. r.host = "starting" /\ d = [r EXCEPT !.stdin = q, !.host = "reading"]
    BY <1>1 DEF WriteRequest, Set, WriteIn, WriteIncoming, IncomingMessageKind
  <2>2. q \in Seq(Nat) /\ Len(q) = 1
    BY <1>0, <2>1 DEF Sound, Progress, InstanceRecord
  <2> HIDE DEF r, d, q
  <2>3. d \in InstanceRecord
    BY <1>0, <2>1, <2>2, Zenon DEF Sound, InstanceRecord, Host
  <2>4. d.stdout = r.stdout /\ d.guest = r.guest /\ d.stdin = q /\ d.host = "reading"
    BY <1>0, <2>1 DEF InstanceRecord
  <2>5. Outgoing(d)
    BY <1>0, <2>1, <2>4 DEF Sound, Outgoing
  <2>6. Conversation(d) /\ ~d.confused
    BY <1>0, <2>1 DEF Sound, InstanceRecord, Conversation, Progress
  <2>7. Progress(d)
    <3>1. /\ d.outcome = r.outcome /\ d.pending = r.pending /\ d.result = r.result
          /\ d.closed => r.closed
      BY <1>0, <2>1 DEF InstanceRecord
    <3>2. /\ r.guest \in {"none", "initializing", "first", "returning", "ended"}
          /\ r.guest = "ended" <=> r.outcome # "none"
          /\ r.closed => r.guest = "ended"
          /\ r.pending # "ok" /\ r.result # "ok"
      BY <1>0, <2>1 DEF Sound, Progress
    <3>0. Len(q) <= 1
      BY <2>2
    <3>3. /\ d.host = "reading" /\ Len(d.stdin) <= 1
          /\ d.guest \in {"none", "initializing", "first", "returning", "ended"}
          /\ d.guest = "ended" <=> d.outcome # "none"
          /\ d.closed => d.guest = "ended"
          /\ d.pending # "ok" /\ d.result # "ok"
      BY <2>4, <3>0, <3>1, <3>2, Zenon
    <3> QED
      BY <3>3 DEF Progress
  <2> QED
    BY <2>3, <2>5, <2>6, <2>7 DEF Sound, d
<1>2. ASSUME NEW kind \in {"InvalidData", "FunctionResult", "FatalError"},
             NEW pending \in {"FailedToReadMessage", "ok", "FatalError"},
             Reads(c, kind), Join(c, pending), pending = "ok" => kind = "FunctionResult"
      PROVE  Sound(d)
  <2>1. /\ r.host = "reading" /\ r.stdout # <<>> /\ ReadOutgoing(Head(r.stdout)) = kind
        /\ d = [r EXCEPT !.stdout = Tail(r.stdout), !.host = "joining", !.pending = pending]
    BY <1>2 DEF Reads, Join, Taken, Set
  <2>2. Finds(r)
    BY <1>0, <2>1, ReadsWhat, Zenon
  <2>3. /\ kind = "FunctionResult" => Head(r.stdout) = 2
        /\ kind = "FatalError" => Head(r.stdout) = 1
        /\ Head(r.stdout) # 3 /\ \A k \in Request : Head(r.stdout) # WriteOutgoing(k)
    <3>1. CASE kind = "InvalidData"
      BY <2>1, <3>1, KnownCodesAreRead
    <3>2. CASE kind # "InvalidData"
      <4>1. WriteOutgoing(kind) = Head(r.stdout)
        BY <2>1, <3>2, ReadIsWritten, Zenon
      <4> QED
        BY <1>2, <3>2, <4>1, RequestCodes
    <3> QED
      BY <3>1, <3>2
  <2>4. r.guest \in {"returning", "ended"}
    BY <2>2, <2>3, Zenon DEF Finds
  <2>5. pending = "ok" => r.stdin = <<>>
    <3>1. r.stdout \in Seq(Nat) /\ 1 \in 1..Len(r.stdout) /\ Head(r.stdout) = r.stdout[1]
      BY <1>0, <2>1 DEF InstanceRecord
    <3>2. \A i \in 1..Len(r.stdout) : r.stdout[i] = 2 => r.stdin = <<>>
      BY <1>0 DEF Sound, Outgoing
    <3> QED
      BY <1>2, <2>3, <3>1, <3>2, Zenon
  <2> HIDE DEF r, d
  <2> QED
    BY <1>0, <1>2, <2>1, <2>4, <2>5, JoinSound, Zenon
<1>3. CASE ReadLog(c)
  <2>1. /\ r.host = "reading" /\ r.stdout # <<>> /\ ReadOutgoing(Head(r.stdout)) = "Log"
        /\ d = [r EXCEPT !.stdout = Tail(r.stdout)]
    BY <1>3 DEF ReadLog, Reads, Taken, Set
  <2>2. Head(r.stdout) = 3
    BY <2>1, ReadIsWritten, RequestCodes
  <2>3. d.stdout = Tail(r.stdout) /\ d.guest = r.guest /\ d.stdin = r.stdin /\ d.host = "reading"
    BY <1>0, <2>1 DEF InstanceRecord
  <2> HIDE DEF r, d
  <2>4. d.stdout \in Seq(Nat) /\ Outgoing(d)
    BY <1>0, <2>1, <2>3, TakeKeeps, Zenon
  <2>5. d \in InstanceRecord
    BY <1>0, <2>1, <2>4, Zenon DEF InstanceRecord
  <2>6. Conversation(d)
    <3>1. d.asked = r.asked
      BY <1>0, <2>1 DEF InstanceRecord
    <3>2. CASE r.guest # "asking"
      BY <1>0, <2>3, <3>1, <3>2 DEF Sound, Conversation
    <3>3. CASE r.guest = "asking"
      <4> DEFINE q == r.stdout
                 t == d.stdout
      <4>1. r.asked \in Request /\ r.stdin = <<>> /\ q[Len(q)] = WriteOutgoing(r.asked)
        BY <1>0, <2>1, <3>3 DEF Sound, Conversation
      <4>2. q \in Seq(Nat) /\ q # <<>> /\ t = Tail(q)
        BY <1>0, <2>1, <2>3 DEF InstanceRecord
      <4> HIDE DEF q, t
      <4>3. /\ t \in Seq(Nat) /\ Len(t) = Len(q) - 1 /\ Len(q) \in Nat \ {0} /\ Head(q) = q[1]
            /\ \A i \in 1..Len(t) : t[i] = q[i + 1]
        BY <4>2, Taken1
      <4>4. Len(q) # 1
        <5>1. q[1] = 3
          BY <2>2, <4>3 DEF q
        <5> QED
          BY <4>1, <5>1, RequestCodes
      <4>5. t # <<>> /\ t[Len(t)] = q[Len(q)]
        BY <4>3, <4>4
      <4> QED
        BY <2>3, <3>1, <3>3, <4>1, <4>5, Zenon DEF Conversation, t
    <3> QED
      BY <3>2, <3>3
  <2>7. Progress(d) /\ ~d.confused
    BY <1>0, <2>1, Zenon DEF Sound, InstanceRecord, Progress
  <2> QED
    BY <2>4, <2>5, <2>6, <2>7 DEF Sound, d
<1>4. CASE ReadEndOfFile(c)
  <2>1. /\ r.host = "reading" /\ r.stdout = <<>> /\ r.closed
        /\ d = [r EXCEPT !.host = "joining", !.pending = "eof"]
    BY <1>4 DEF ReadEndOfFile, Set
  <2> HIDE DEF r, d
  <2>2. d \in InstanceRecord
    BY <1>0, <2>1, Zenon DEF Sound, InstanceRecord, Host
  <2>3. Outgoing(d) /\ Conversation(d) /\ Progress(d) /\ ~d.confused
    BY <1>0, <2>1 DEF Sound, InstanceRecord, Outgoing, Conversation, Progress
  <2> QED
    BY <2>2, <2>3 DEF Sound, d
<1>5. ASSUME NEW kind \in Request, NEW answer, Reads(c, kind), IsAnswer(kind, answer),
             NEW db \in BOOLEAN, NEW storage \in BOOLEAN,
             d = [r EXCEPT !.stdout = Tail(r.stdout),
                           !.stdin = Append(r.stdin, WriteIncoming(answer)),
                           !.db_client = db, !.storage_client = storage]
      PROVE  Sound(d)
  <2>1. /\ r.host = "reading" /\ r.stdout # <<>> /\ ReadOutgoing(Head(r.stdout)) = kind
    BY <1>5 DEF Reads
  <2>2. Finds(r)
    BY <1>0, <2>1, ReadsWhat, Zenon
  <2>3. Head(r.stdout) = WriteOutgoing(kind) /\ Head(r.stdout) > 1000
    <3>1. kind # "InvalidData"
      BY <1>5 DEF Request, DbRequest, StorageRequest
    <3> QED
      BY <1>5, <2>1, <3>1, ReadIsWritten, RequestCodes
  <2>4. r.guest = "asking" /\ r.asked = kind /\ r.stdin = <<>> /\ Tail(r.stdout) = <<>>
    <3>1. r.guest \notin {"returning", "ended"}
      <4>1. r.stdout \in Seq(Nat) /\ 1 \in 1..Len(r.stdout) /\ Head(r.stdout) = r.stdout[1]
        BY <1>0, <2>1 DEF InstanceRecord
      <4>2. r.guest \in {"returning", "ended"} => \A i \in 1..Len(r.stdout) : r.stdout[i] <= 3
        BY <1>0 DEF Sound, Outgoing
      <4> QED
        BY <2>3, <4>1, <4>2
    <3>2. Head(r.stdout) # 3
      BY <2>3
    <3>3. /\ r.guest = "asking" /\ r.asked \in Request /\ Head(r.stdout) = WriteOutgoing(r.asked)
          /\ r.stdin = <<>> /\ Tail(r.stdout) = <<>>
      BY <2>2, <3>1, <3>2, Zenon DEF Finds
    <3> QED
      BY <1>5, <2>3, <3>3, RequestsDiffer, Zenon
  <2> HIDE DEF r, d
  <2> QED
    BY <1>0, <1>5, <2>1, <2>4, AnswerSound, Zenon
<1>6. CASE execute_http_request(c)
  <2>1. /\ Reads(c, "HttpRequest") /\ "HttpRequest" \in Request
        /\ d = [r EXCEPT !.stdout = Tail(r.stdout),
                         !.stdin = Append(r.stdin, WriteIncoming("HttpResponse"))]
    BY <1>6 DEF execute_http_request, Set, WriteIn, Taken, Request, InstanceRecord
  <2>2. d = [r EXCEPT !.stdout = Tail(r.stdout),
                      !.stdin = Append(r.stdin, WriteIncoming("HttpResponse")),
                      !.db_client = r.db_client, !.storage_client = r.storage_client]
    BY <1>0, <2>1, Zenon DEF InstanceRecord
  <2>3. r.db_client \in BOOLEAN /\ r.storage_client \in BOOLEAN
    BY <1>0 DEF InstanceRecord
  <2> HIDE DEF r, d
  <2> QED
    BY <1>5, <2>1, <2>2, <2>3, HttpAnswers, Zenon DEF d
<1>7. CASE execute_db_request(c)
  <2>0. PICK kind \in DbRequest, db \in BOOLEAN :
            /\ Reads(c, kind)
            /\ \E answer \in handle_db_request(kind) \cup {"DbError"} :
                  d = [r EXCEPT !.stdout = Tail(r.stdout),
                               !.stdin = Append(r.stdin, WriteIncoming(answer)),
                               !.db_client = db, !.storage_client = r.storage_client]
    <3>1. PICK kind \in DbRequest :
              /\ Reads(c, kind)
              /\ \/ Set(c, WriteIn(Taken(c), "DbError"))
                 \/ \E answer \in handle_db_request(kind) \cup {"DbError"} :
                      Set(c, [WriteIn(Taken(c), answer) EXCEPT !.db_client = TRUE])
      BY <1>7, Zenon DEF execute_db_request
    <3>2. CASE Set(c, WriteIn(Taken(c), "DbError"))
      <4>1. d = [r EXCEPT !.stdout = Tail(r.stdout),
                          !.stdin = Append(r.stdin, WriteIncoming("DbError")),
                          !.db_client = r.db_client, !.storage_client = r.storage_client]
        BY <1>0, <3>2, Zenon DEF Set, WriteIn, Taken, InstanceRecord
      <4>2. r.db_client \in BOOLEAN
        BY <1>0 DEF InstanceRecord
      <4> HIDE DEF r, d
      <4> QED
        BY <3>1, <4>1, <4>2, Zenon
    <3>3. ASSUME NEW answer \in handle_db_request(kind) \cup {"DbError"},
                 Set(c, [WriteIn(Taken(c), answer) EXCEPT !.db_client = TRUE])
          PROVE  d = [r EXCEPT !.stdout = Tail(r.stdout),
                               !.stdin = Append(r.stdin, WriteIncoming(answer)),
                               !.db_client = TRUE, !.storage_client = r.storage_client]
      BY <1>0, <3>3, Zenon DEF Set, WriteIn, Taken, InstanceRecord
    <3> HIDE DEF r, d
    <3> QED
      BY <3>1, <3>2, <3>3, Zenon
  <2>1. PICK answer \in handle_db_request(kind) \cup {"DbError"} :
            d = [r EXCEPT !.stdout = Tail(r.stdout),
                          !.stdin = Append(r.stdin, WriteIncoming(answer)),
                          !.db_client = db, !.storage_client = r.storage_client]
    BY <2>0, Zenon
  <2>2. kind \in Request /\ IsAnswer(kind, answer)
    BY DbAnswers, Zenon DEF Request
  <2>3. r.storage_client \in BOOLEAN
    BY <1>0 DEF InstanceRecord
  <2> HIDE DEF r, d
  <2> QED
    BY <1>5, <2>0, <2>1, <2>2, <2>3, Zenon DEF d
<1>8. CASE storage_request(c)
  <2>0. PICK kind \in StorageRequest, storage \in BOOLEAN :
            /\ Reads(c, kind)
            /\ \E answer \in storage_answers(kind) \cup {"StorageError"} :
                  d = [r EXCEPT !.stdout = Tail(r.stdout),
                               !.stdin = Append(r.stdin, WriteIncoming(answer)),
                               !.db_client = r.db_client, !.storage_client = storage]
    <3>1. PICK kind \in StorageRequest :
              /\ Reads(c, kind)
              /\ \/ Set(c, WriteIn(Taken(c), "StorageError"))
                 \/ \E answer \in storage_answers(kind) \cup {"StorageError"} :
                      Set(c, [WriteIn(Taken(c), answer) EXCEPT !.storage_client = TRUE])
      BY <1>8, Zenon DEF storage_request
    <3>2. CASE Set(c, WriteIn(Taken(c), "StorageError"))
      <4>1. d = [r EXCEPT !.stdout = Tail(r.stdout),
                          !.stdin = Append(r.stdin, WriteIncoming("StorageError")),
                          !.db_client = r.db_client, !.storage_client = r.storage_client]
        BY <1>0, <3>2, Zenon DEF Set, WriteIn, Taken, InstanceRecord
      <4>2. r.storage_client \in BOOLEAN
        BY <1>0 DEF InstanceRecord
      <4> HIDE DEF r, d
      <4> QED
        BY <3>1, <4>1, <4>2, Zenon
    <3>3. ASSUME NEW answer \in storage_answers(kind) \cup {"StorageError"},
                 Set(c, [WriteIn(Taken(c), answer) EXCEPT !.storage_client = TRUE])
          PROVE  d = [r EXCEPT !.stdout = Tail(r.stdout),
                               !.stdin = Append(r.stdin, WriteIncoming(answer)),
                               !.db_client = r.db_client, !.storage_client = TRUE]
      BY <1>0, <3>3, Zenon DEF Set, WriteIn, Taken, InstanceRecord
    <3> HIDE DEF r, d
    <3> QED
      BY <3>1, <3>2, <3>3, Zenon
  <2>1. PICK answer \in storage_answers(kind) \cup {"StorageError"} :
            d = [r EXCEPT !.stdout = Tail(r.stdout),
                          !.stdin = Append(r.stdin, WriteIncoming(answer)),
                          !.db_client = r.db_client, !.storage_client = storage]
    BY <2>0, Zenon
  <2>2. kind \in Request /\ IsAnswer(kind, answer)
    BY StorageAnswers, Zenon DEF Request
  <2>3. r.db_client \in BOOLEAN
    BY <1>0 DEF InstanceRecord
  <2> HIDE DEF r, d
  <2> QED
    BY <1>5, <2>0, <2>1, <2>2, <2>3, Zenon DEF d
<1>9. CASE wait_to_finish(c)
  <2>1. PICK result \in Outcome \cup {"FailedToReadMessage", "FatalError"} :
            /\ r.host = "joining" /\ r.outcome # "none"
            /\ d = [r EXCEPT !.host = "done", !.result = result]
            /\ result = "ok" => r.pending = "ok" /\ r.outcome = "ok"
    <3> DEFINE result == IF r.pending = "FatalError" THEN "FatalError"
                         ELSE IF r.outcome # "ok" THEN r.outcome
                         ELSE IF r.pending = "eof" THEN "FunctionDidntTerminateCleanly"
                         ELSE r.pending
    <3>1. /\ r.host = "joining" /\ r.outcome # "none"
          /\ d = [r EXCEPT !.host = "done", !.result = result]
      BY <1>9, Zenon DEF wait_to_finish, Set
    <3>2. result \in Outcome \cup {"FailedToReadMessage", "FatalError"}
      BY <1>0 DEF InstanceRecord, Outcome
    <3>3. result = "ok" => r.pending = "ok" /\ r.outcome = "ok"
      OBVIOUS
    <3> HIDE DEF r, d, result
    <3> QED
      BY <3>1, <3>2, <3>3, Zenon
  <2> HIDE DEF r, d
  <2>2. d \in InstanceRecord
    BY <1>0, <2>1, Zenon DEF InstanceRecord, Host
  <2>3. d.stdout = r.stdout /\ d.guest = r.guest /\ d.stdin = r.stdin /\ d.host = "done"
    BY <1>0, <2>1 DEF InstanceRecord
  <2>4. Outgoing(d)
    BY <1>0, <2>3, Zenon DEF Sound, Outgoing
  <2>5. Conversation(d) /\ Progress(d) /\ ~d.confused
    BY <1>0, <2>1 DEF Sound, InstanceRecord, Conversation, Progress
  <2> QED
    BY <2>2, <2>4, <2>5 DEF Sound, d
<1> QED
  <2>1. CASE ReadNonsense(c)
    BY <1>2, <2>1 DEF ReadNonsense, Request, DbRequest, StorageRequest
  <2>2. CASE ReadFunctionResult(c)
    BY <1>2, <2>2 DEF ReadFunctionResult, Request, DbRequest, StorageRequest
  <2>3. CASE ReadFatalError(c)
    BY <1>2, <2>3 DEF ReadFatalError, Request, DbRequest, StorageRequest
  <2> QED
    BY <1>1, <1>3, <1>4, <1>6, <1>7, <1>8, <1>9, <2>1, <2>2, <2>3 DEF HostStep

(***************************************************************************)
(* Types                                                                   *)
(***************************************************************************)
CallRecord ==
    [state : {"idle", "posted", "running", "reported", "answered", "gone"},
     id : AssemblyID \cup {None}, answer : Error \cup {"ok", "none"}]

\* An answer keeps the types and leaves the other calls alone.
LEMMA AnswerType ==
    ASSUME NEW c \in Call, calls \in [Call -> CallRecord], NEW answer \in Error \cup {"ok", "none"},
           Answer(c, answer)
    PROVE  /\ calls' \in [Call -> CallRecord]
           /\ calls'[c].state = "answered" /\ calls'[c].answer = answer
           /\ \A b \in Call \ {c} : calls'[b] = calls[b]
BY Zenon DEF Answer, CallRecord

LoadErrors == {"RequestedMemorySizeTooBig", "SerializeCachedWasmModule", "CompileWasmModule",
               "InvalidAssembly"}

\* What loading a module comes to.
Failed(a, limit, load) ==
    /\ load.error \in LoadErrors /\ load.cache = cache /\ load.stored
    /\ create_memory(limit) > MaxPages \/ hashkey_dict[a] # Unset \/ provider[a] \notin Compiles

Found(a, limit, load) ==
    /\ load.error = "none" /\ ~(create_memory(limit) > MaxPages) /\ hashkey_dict[a] # Unset
    /\ cache[a] # Unloaded
    /\ load.module = cache[a] /\ load.cache = cache /\ load.stored

Compiled(a, load) ==
    /\ load.error = "none" /\ provider[a] \in Compiles /\ load.module = ModuleOf(a)
    /\ \/ load.stored /\ load.cache = [cache EXCEPT ![a] = ModuleOf(a)]
       \/ ~load.stored /\ load.cache = cache

\* load_module either fails, or finds the module that is kept, or compiles one.
LEMMA Loading ==
    ASSUME NEW a, NEW limit, NEW load \in load_module(a, limit)
    PROVE  Failed(a, limit, load) \/ Found(a, limit, load) \/ Compiled(a, load)
<1> DEFINE m == ModuleOf(a)
           stored == [cache EXCEPT ![a] = m]
           Loads(x, d, s) == [module |-> x, error |-> "none", cache |-> d, stored |-> s]
           Fails(e) == [module |-> Unloaded, error |-> e, cache |-> cache, stored |-> TRUE]
<1>1. CASE create_memory(limit) > MaxPages
  <2>1. load = Fails("RequestedMemorySizeTooBig")
    BY <1>1, Zenon DEF load_module
  <2> QED
    BY <1>1, <2>1 DEF Failed, LoadErrors
<1>2. CASE ~(create_memory(limit) > MaxPages) /\ hashkey_dict[a] # Unset
  <2>1. \/ load = Loads(cache[a], cache, TRUE) /\ cache[a] # Unloaded
        \/ provider[a] \in Compiles /\ load = Loads(m, stored, TRUE)
        \/ load = Fails("SerializeCachedWasmModule")
        \/ load = Fails("CompileWasmModule")
    BY <1>2, Zenon DEF load_module
  <2> HIDE DEF m, stored
  <2> QED
    BY <1>2, <2>1 DEF Failed, Found, Compiled, LoadErrors, m, stored
<1>3. CASE ~(create_memory(limit) > MaxPages) /\ hashkey_dict[a] = Unset
  <2>1. \/ /\ provider[a] \in Compiles
           /\ load = Loads(m, stored, TRUE) \/ load = Loads(m, cache, FALSE)
        \/ provider[a] \notin Compiles /\ load = Fails("InvalidAssembly")
    BY <1>3, Zenon DEF load_module
  <2> QED
    BY <1>3, <2>1 DEF Failed, Compiled, LoadErrors
<1> QED
  BY <1>1, <1>2, <1>3

\* The types of the runtime's own state.
Types ==
    /\ provider \in [AssemblyID -> Revision \cup {None}]
    /\ hashkey_dict \in [AssemblyID -> Nat \cup {Unset}]
    /\ cache \in [AssemblyID -> Module]
    /\ mailbox \in {"running", "shut_down", "stopped"}
    /\ calls \in [Call -> CallRecord]
    /\ loaded \in [Call -> [module : Module, limit : Nat \cup {Unset}]]
    /\ reports \in [Call -> Nat]
    /\ plain \subseteq AssemblyID
    /\ made \in 0..MaxCalls /\ restarts \in 0..MaxRestarts /\ changes \in 0..MaxChanges

\* The usage of a call is reported once it has run, and a result is the instance's.
Accounted(c) ==
    /\ Sound(inst[c])
    /\ calls[c].state \in {"idle", "posted", "gone"} => loaded[c] = Nothing /\ reports[c] = 0
    /\ calls[c].state = "posted" => calls[c].id \in AssemblyID
    /\ calls[c].state = "running" => loaded[c] # Nothing /\ reports[c] = 0
    /\ calls[c].state = "reported" => loaded[c] # Nothing /\ reports[c] = 1
    /\ calls[c].state = "answered" =>
          \/ loaded[c] = Nothing /\ reports[c] = 0
          \/ loaded[c] # Nothing /\ reports[c] = 1
    /\ calls[c].state = "answered" /\ calls[c].answer = "ok" => inst[c].result = "ok"

\* The module and the limit that are kept for an assembly are of its definition.
Kept(a) ==
    /\ cache[a] = Unloaded \/ cache[a].id = a
    /\ provider[a] = None => hashkey_dict[a] = Unset
    /\ a \in plain /\ hashkey_dict[a] # Unset =>
          /\ hashkey_dict[a] = memory_limit[provider[a]]
          /\ provider[a] \in Compiles /\ ~(create_memory(hashkey_dict[a]) > MaxPages) =>
                cache[a] = ModuleOf(a)

\* The inductive invariant.
Inv ==
    /\ Types
    /\ inst \in [Call -> InstanceRecord]
    /\ \A c \in Call : Accounted(c)
    /\ \A a \in AssemblyID : Kept(a)

\* The invariant holds at the start of the process.
LEMMA InvInit == Init => Inv
<1> SUFFICES ASSUME Init PROVE Inv
  OBVIOUS
<1>1. Types
  BY BoundsAssumption DEF Init, Types, CallRecord, Module, Nothing, Unset
<1>2. inst = [c \in Call |-> Unstarted] /\ Unstarted \in InstanceRecord
  BY UnstartedSound DEF Init, InstanceInit, Sound
<1>3. ASSUME NEW c \in Call PROVE Accounted(c)
  <2>1. Sound(inst[c])
    BY <1>2, UnstartedSound
  <2> QED
    BY <2>1 DEF Init, Accounted
<1>4. ASSUME NEW a \in AssemblyID PROVE Kept(a)
  BY DEF Init, Kept
<1> QED
  BY <1>1, <1>2, <1>3, <1>4 DEF Inv

\* A call that nothing happens to.
LEMMA AccountedStays ==
    ASSUME NEW c \in Call, Accounted(c), UNCHANGED <<inst[c], calls[c], loaded[c], reports[c]>>
    PROVE  Accounted(c)'
BY DEF Accounted

\* An assembly that nothing happens to.
LEMMA KeptStays ==
    ASSUME NEW a \in AssemblyID, Kept(a), a \in plain' => a \in plain,
           UNCHANGED <<cache[a], hashkey_dict[a], provider[a]>>
    PROVE  Kept(a)'
BY Zenon DEF Kept, ModuleOf

\* AddFunctions.
LEMMA AddInv ==
    ASSUME Inv, NEW a \in AssemblyID, NEW revision \in Revision, AddFunctions(a, revision)
    PROVE  Inv'
<1>1. Types'
  <2>1. changes' \in 0..MaxChanges
    BY BoundsAssumption DEF AddFunctions, Change, Inv, Types
  <2>2. /\ provider' \in [AssemblyID -> Revision \cup {None}] /\ plain' \subseteq AssemblyID
        /\ UNCHANGED <<hashkey_dict, cache, mailbox, calls, loaded, reports, made, restarts>>
    BY DEF AddFunctions, Change, Inv, Types
  <2> QED
    BY <2>1, <2>2 DEF Inv, Types
<1>2. UNCHANGED <<inst, calls, loaded, reports>>
  BY DEF AddFunctions, Change
<1>3. ASSUME NEW c \in Call PROVE Accounted(c)'
  BY <1>2, AccountedStays DEF Inv
<1>4. ASSUME NEW b \in AssemblyID PROVE Kept(b)'
  <2>1. Kept(b) /\ UNCHANGED <<cache, hashkey_dict>>
    BY DEF Inv, AddFunctions, Change
  <2>2. CASE b # a \/ provider[a] = revision
    <3>1. provider'[b] = provider[b] /\ (b \in plain' => b \in plain)
      BY <2>2, RevisionAssumption DEF Inv, Types, AddFunctions
    <3> QED
      BY <2>1, <3>1, KeptStays
  <2>3. CASE b = a /\ provider[a] = None
    <3>1. hashkey_dict'[b] = Unset
      BY <2>1, <2>3 DEF Kept
    <3> QED
      BY <2>1, <3>1 DEF Kept
  <2>4. CASE b = a /\ provider[a] # None /\ provider[a] # revision
    <3>1. b \notin plain' /\ provider'[b] = revision /\ provider'[b] # None
      BY <2>4, RevisionAssumption DEF AddFunctions, Inv, Types
    <3> QED
      BY <2>1, <3>1, Zenon DEF Kept
  <2> QED
    BY <2>2, <2>3, <2>4
<1> QED
  BY <1>1, <1>2, <1>3, <1>4 DEF Inv

\* RemoveFunctions and RemoveAllFunctions.
LEMMA RemoveInv ==
    ASSUME Inv, NEW A, Remove(A)
    PROVE  Inv'
<1>1. Types'
  <2>1. changes' \in 0..MaxChanges
    BY BoundsAssumption DEF Remove, Change, Inv, Types
  <2>2. provider' \in [AssemblyID -> Revision \cup {None}]
    BY DEF Remove, Inv, Types
  <2>3. hashkey_dict' \in [AssemblyID -> Nat \cup {Unset}]
    BY DEF Remove, Inv, Types
  <2>4. UNCHANGED <<plain, cache, mailbox, calls, loaded, reports, made, restarts>>
    BY DEF Remove, Change
  <2> QED
    BY <2>1, <2>2, <2>3, <2>4 DEF Inv, Types
<1>2. UNCHANGED <<inst, calls, loaded, reports, cache, plain>>
  BY DEF Remove, Change
<1>3. ASSUME NEW c \in Call PROVE Accounted(c)'
  BY <1>2, AccountedStays DEF Inv
<1>4. ASSUME NEW b \in AssemblyID PROVE Kept(b)'
  <2>1. Kept(b)
    BY DEF Inv
  <2>2. CASE b \in A
    <3>1. hashkey_dict'[b] = Unset
      BY <2>2, Zenon DEF Remove
    <3> QED
      BY <1>2, <2>1, <3>1, Zenon DEF Kept
  <2>3. CASE b \notin A
    <3>1. hashkey_dict'[b] = hashkey_dict[b] /\ provider'[b] = provider[b]
      BY <2>3 DEF Remove
    <3> QED
      BY <1>2, <2>1, <3>1, KeptStays
  <2> QED
    BY <2>2, <2>3
<1> QED
  BY <1>1, <1>2, <1>3, <1>4 DEF Inv

\* invoke_function posts a call.
LEMMA InvokeInv ==
    ASSUME Inv, NEW c \in Call, NEW a \in AssemblyID, invoke_function(c, a)
    PROVE  Inv'
<1>0. Nothing \in [module : Module, limit : Nat \cup {Unset}] /\ Unstarted \in InstanceRecord
  BY UnstartedSound DEF Nothing, Module, Sound
<1>1. Types'
  <2>1. [state |-> "posted", id |-> a, answer |-> "none"] \in CallRecord
    BY DEF CallRecord
  <2> QED
    BY <1>0, <2>1, BoundsAssumption DEF invoke_function, Inv, Types
<1>2. inst' \in [Call -> InstanceRecord]
  BY <1>0 DEF invoke_function, Inv
<1>3. ASSUME NEW b \in Call PROVE Accounted(b)'
  <2>1. CASE b = c
    <3>1. /\ inst'[c] = Unstarted /\ calls'[c] = [state |-> "posted", id |-> a, answer |-> "none"]
          /\ loaded'[c] = Nothing /\ reports'[c] = 0
      BY DEF invoke_function, Inv, Types
    <3> QED
      BY <2>1, <3>1, UnstartedSound DEF Accounted
  <2>2. CASE b # c
    <3>1. UNCHANGED <<inst[b], calls[b], loaded[b], reports[b]>>
      BY <2>2 DEF invoke_function, Inv, Types
    <3> QED
      BY <3>1, AccountedStays, Zenon DEF Inv
  <2> QED
    BY <2>1, <2>2
<1>4. ASSUME NEW b \in AssemblyID PROVE Kept(b)'
  BY KeptStays, Zenon DEF Inv, invoke_function
<1> QED
  BY <1>1, <1>2, <1>3, <1>4 DEF Inv

\* An answer without a run.
LEMMA RefusalInv ==
    ASSUME Inv, NEW c \in Call, RefuseCall(c) \/ CallIsLost(c)
    PROVE  Inv'
<1>1. PICK answer \in Error : Answer(c, answer) /\ calls[c].state = "posted"
  BY DEF RefuseCall, CallIsLost, Error
<1>2. UNCHANGED <<inst, provider, hashkey_dict, cache, mailbox, loaded, reports, plain,
                  made, restarts, changes>>
  BY DEF RefuseCall, CallIsLost
<1>3. /\ calls' \in [Call -> CallRecord] /\ calls'[c].state = "answered"
      /\ calls'[c].answer = answer
      /\ \A b \in Call \ {c} : calls'[b] = calls[b]
  BY <1>1, AnswerType DEF Inv, Types
<1>4. Types'
  BY <1>2, <1>3 DEF Inv, Types
<1>5. ASSUME NEW b \in Call PROVE Accounted(b)'
  <2>1. CASE b = c
    BY <1>1, <1>2, <1>3, <2>1, Zenon DEF Accounted, Inv, Error
  <2>2. CASE b # c
    BY <1>2, <1>3, <2>2, AccountedStays, Zenon DEF Inv
  <2> QED
    BY <2>1, <2>2
<1>6. ASSUME NEW b \in AssemblyID PROVE Kept(b)'
  BY <1>2, KeptStays, Zenon DEF Inv
<1> QED
  BY <1>2, <1>4, <1>5, <1>6 DEF Inv

\* execute_function gives a call its module, or an error.
LEMMA ExecuteInv ==
    ASSUME Inv, NEW c \in Call, execute_function(c)
    PROVE  Inv'
<1> DEFINE a == calls[c].id
           limit == IF hashkey_dict[a] = Unset THEN memory_limit[provider[a]] ELSE hashkey_dict[a]
<1>0. /\ calls[c].state = "posted" /\ a \in AssemblyID /\ loaded[c] = Nothing /\ reports[c] = 0
      /\ UNCHANGED <<provider, mailbox, reports, made, restarts, changes>>
  BY Zenon DEF execute_function, Inv, Accounted
<1>1. CASE provider[a] = None
  <2>1. Answer(c, "AssemblyNotFound") /\ UNCHANGED <<inst, hashkey_dict, cache, loaded, plain>>
    BY <1>1 DEF execute_function, start_function
  <2>2. /\ calls' \in [Call -> CallRecord] /\ calls'[c].state = "answered"
        /\ calls'[c].answer = "AssemblyNotFound"
        /\ \A b \in Call \ {c} : calls'[b] = calls[b]
    BY <2>1, AnswerType, Zenon DEF Inv, Types, Error
  <2>3. Types'
    BY <1>0, <2>1, <2>2 DEF Inv, Types
  <2>4. ASSUME NEW b \in Call PROVE Accounted(b)'
    <3>1. CASE b = c
      BY <1>0, <2>1, <2>2, <3>1, Zenon DEF Accounted, Inv
    <3>2. CASE b # c
      BY <1>0, <2>1, <2>2, <3>2, AccountedStays, Zenon DEF Inv
    <3> QED
      BY <3>1, <3>2
  <2>5. ASSUME NEW b \in AssemblyID PROVE Kept(b)'
    BY <1>0, <2>1, KeptStays, Zenon DEF Inv
  <2> QED
    BY <2>1, <2>3, <2>4, <2>5 DEF Inv
<1>2. CASE provider[a] # None
  <2>1. PICK load \in load_module(a, limit) :
            /\ hashkey_dict' = [hashkey_dict EXCEPT ![a] = limit]
            /\ cache' = load.cache
            /\ plain' = IF load.stored THEN plain ELSE plain \ {a}
            /\ \/ /\ load.error = "none" /\ Fits(load.module, limit)
                  /\ start(c)
                  /\ calls' = [calls EXCEPT ![c].state = "running"]
                  /\ loaded' = [loaded EXCEPT ![c] = [module |-> load.module, limit |-> limit]]
               \/ /\ Answer(c, IF load.error = "none" THEN "FailedToStart" ELSE load.error)
                  /\ UNCHANGED <<inst, loaded>>
    BY <1>2, Zenon DEF execute_function, start_function
  <2>2. Failed(a, limit, load) \/ Found(a, limit, load) \/ Compiled(a, load)
    BY Loading, Zenon
  <2>3. limit \in Nat
    BY <1>0, <1>2, LimitAssumption, Zenon DEF Inv, Types
  <2>4. /\ load.error \in LoadErrors \cup {"none"}
        /\ load.error = "none" => load.module \in Module
        /\ cache' \in [AssemblyID -> Module]
        /\ \A b \in AssemblyID \ {a} : cache'[b] = cache[b]
    <3>1. ModuleOf(a) \in Module
      BY <1>0, <1>2, Zenon DEF ModuleOf, Module, Inv, Types
    <3>2. cache \in [AssemblyID -> Module]
      BY DEF Inv, Types
    <3>3. CASE Failed(a, limit, load)
      BY <2>1, <3>2, <3>3 DEF Failed, LoadErrors
    <3>4. CASE Found(a, limit, load)
      BY <1>0, <2>1, <3>2, <3>4 DEF Found
    <3>5. CASE Compiled(a, load)
      BY <2>1, <3>1, <3>2, <3>5, Zenon DEF Compiled
    <3> QED
      BY <2>2, <3>3, <3>4, <3>5, Zenon
  <2>5. /\ calls' \in [Call -> CallRecord] /\ inst' \in [Call -> InstanceRecord]
        /\ loaded' \in [Call -> [module : Module, limit : Nat \cup {Unset}]]
        /\ \A b \in Call : Accounted(b)'
    <3>0. /\ calls \in [Call -> CallRecord] /\ inst \in [Call -> InstanceRecord]
          /\ loaded \in [Call -> [module : Module, limit : Nat \cup {Unset}]]
          /\ reports \in [Call -> Nat]
      BY DEF Inv, Types
    <3>1. CASE load.error = "none" /\ start(c)
               /\ calls' = [calls EXCEPT ![c].state = "running"]
               /\ loaded' = [loaded EXCEPT ![c] = [module |-> load.module, limit |-> limit]]
      <4> HIDE DEF limit
      <4>1. /\ calls' \in [Call -> CallRecord] /\ calls'[c].state = "running"
            /\ \A b \in Call \ {c} : calls'[b] = calls[b]
        BY <3>0, <3>1, Zenon DEF CallRecord
      <4>2. /\ loaded' \in [Call -> [module : Module, limit : Nat \cup {Unset}]]
            /\ loaded'[c].limit = limit
            /\ \A b \in Call \ {c} : loaded'[b] = loaded[b]
        BY <2>3, <2>4, <3>0, <3>1
      <4>3. loaded'[c] # Nothing
        BY <2>3, <4>2 DEF Nothing, Unset
      <4>4. /\ inst' \in [Call -> InstanceRecord] /\ inst'[c] = Started
            /\ \A b \in Call \ {c} : inst'[b] = inst[b]
        BY <3>0, <3>1, UnstartedSound DEF start, Set, Sound
      <4>5. ASSUME NEW b \in Call PROVE Accounted(b)'
        <5>1. CASE b = c
          BY <1>0, <4>1, <4>3, <4>4, <5>1, UnstartedSound, Zenon DEF Accounted
        <5>2. CASE b # c
          BY <1>0, <4>1, <4>2, <4>4, <5>2, AccountedStays, Zenon DEF Inv
        <5> QED
          BY <5>1, <5>2
      <4> QED
        BY <4>1, <4>2, <4>4, <4>5, Zenon
    <3>2. CASE Answer(c, IF load.error = "none" THEN "FailedToStart" ELSE load.error)
               /\ UNCHANGED <<inst, loaded>>
      <4> DEFINE answer == IF load.error = "none" THEN "FailedToStart" ELSE load.error
      <4>1. answer \in Error /\ Answer(c, answer)
        BY <2>4, <3>2 DEF Error, LoadErrors
      <4> HIDE DEF limit, answer
      <4>2. /\ calls' \in [Call -> CallRecord] /\ calls'[c].state = "answered"
            /\ calls'[c].answer = answer
            /\ \A b \in Call \ {c} : calls'[b] = calls[b]
        BY <3>0, <4>1, AnswerType
      <4>3. ASSUME NEW b \in Call PROVE Accounted(b)'
        <5>1. CASE b = c
          BY <1>0, <3>2, <4>1, <4>2, <5>1, Zenon DEF Accounted, Inv, Error
        <5>2. CASE b # c
          BY <1>0, <3>2, <4>2, <5>2, AccountedStays, Zenon DEF Inv
        <5> QED
          BY <5>1, <5>2
      <4> QED
        BY <3>0, <3>2, <4>2, <4>3
    <3> QED
      BY <2>1, <3>1, <3>2, Zenon
  <2>6. Types'
    <3>1. hashkey_dict' \in [AssemblyID -> Nat \cup {Unset}] /\ plain' \subseteq AssemblyID
      BY <2>1, <2>3, Zenon DEF Inv, Types
    <3> QED
      BY <1>0, <2>4, <2>5, <3>1, Zenon DEF Inv, Types
  <2>7. ASSUME NEW b \in AssemblyID PROVE Kept(b)'
    <3>0. Kept(b)
      BY Zenon DEF Inv
    <3>1. CASE b # a
      <4>1. hashkey_dict'[b] = hashkey_dict[b] /\ (b \in plain' => b \in plain)
        BY <2>1, <3>1 DEF Inv, Types
      <4> QED
        BY <1>0, <2>4, <3>0, <3>1, <4>1, KeptStays, Zenon
    <3>2. CASE b = a
      <4>0. /\ cache \in [AssemblyID -> Module] /\ hashkey_dict'[b] = limit
            /\ ModuleOf(b)' = ModuleOf(b) /\ ModuleOf(b).id = b
            /\ b \in plain' => b \in plain /\ load.stored
            /\ provider'[b] = provider[b] /\ provider[b] # None
        <5>1. cache \in [AssemblyID -> Module] /\ hashkey_dict'[b] = limit
          BY <2>1, <3>2 DEF Inv, Types
        <5>2. ModuleOf(b)' = ModuleOf(b) /\ ModuleOf(b).id = b /\ provider'[b] = provider[b]
          BY <1>0, Zenon DEF ModuleOf
        <5>3. b \in plain' => b \in plain /\ load.stored
          BY <2>1, <3>2
        <5> QED
          BY <1>2, <3>2, <5>1, <5>2, <5>3, Zenon
      <4>1. b \in plain => limit = memory_limit[provider[b]]
        BY <1>0, <3>0, <3>2, Zenon DEF Kept
      <4>2. cache'[b] = Unloaded \/ cache'[b].id = b
        <5>1. CASE Failed(a, limit, load) \/ Found(a, limit, load)
          BY <2>1, <3>0, <3>2, <5>1, Zenon DEF Kept, Failed, Found
        <5>2. CASE Compiled(a, load)
          BY <1>0, <2>1, <3>0, <3>2, <4>0, <5>2, Zenon DEF Kept, Compiled
        <5> QED
          BY <2>2, <5>1, <5>2, Zenon
      <4>3. ASSUME b \in plain', provider[b] \in Compiles, ~(create_memory(limit) > MaxPages)
            PROVE  cache'[b] = ModuleOf(b)
        <5>1. CASE hashkey_dict[b] = Unset
          BY <1>0, <2>1, <2>2, <3>2, <4>0, <4>3, <5>1, Zenon DEF Failed, Found, Compiled
        <5>2. CASE hashkey_dict[b] # Unset
          <6>1. cache[b] = ModuleOf(b)
            BY <3>0, <3>2, <4>0, <4>3, <5>2, Zenon DEF Kept
          <6> QED
            BY <1>0, <2>1, <2>2, <3>2, <4>0, <6>1, Zenon DEF Failed, Found, Compiled
        <5> QED
          BY <5>1, <5>2, Zenon
      <4> HIDE DEF limit
      <4> QED
        BY <4>0, <4>1, <4>2, <4>3, Zenon DEF Kept, create_memory
    <3> QED
      BY <3>1, <3>2, Zenon
  <2> QED
    BY <2>5, <2>6, <2>7, Zenon DEF Inv
<1> QED
  BY <1>1, <1>2

\* An instance whose result is known takes no step any more.
LEMMA ResultIsFinal ==
    ASSUME NEW c \in Call, Sound(inst[c]), inst[c].result = "ok"
    PROVE  ~HostStep(c) /\ ~GuestStep(c)
<1>1. inst[c].host = "done" /\ inst[c].guest = "ended"
  BY Zenon DEF Sound, Progress
<1>2. ~HostStep(c)
  BY <1>1 DEF HostStep, WriteRequest, ReadNonsense, ReadFunctionResult, ReadFatalError, ReadLog,
              ReadEndOfFile, execute_http_request, execute_db_request, storage_request,
              wait_to_finish, Reads
<1>3. ~GuestStep(c)
  BY <1>1 DEF GuestStep, InitializationFails, StartIsMissing, CallStart, StartEnds, WriteNonsense,
              read_and_execute_function, log, request, ReadAnswer, WriteResult, Running
<1> QED
  BY <1>2, <1>3, Zenon

\* A step about one call leaves the others as they are.
LEMMA OthersStay ==
    ASSUME NEW c \in Call, inst \in [Call -> InstanceRecord], HostStep(c) \/ GuestStep(c)
    PROVE  \E r : inst' = [inst EXCEPT ![c] = r]
<1>1. CASE HostStep(c)
  BY <1>1, Zenon DEF HostStep, WriteRequest, ReadNonsense, ReadFunctionResult, ReadFatalError,
              ReadLog, ReadEndOfFile, execute_http_request, execute_db_request, storage_request,
              wait_to_finish, Join, Set
<1>2. CASE GuestStep(c)
  BY <1>2, Zenon DEF GuestStep, InitializationFails, StartIsMissing, CallStart, StartEnds,
              WriteNonsense, read_and_execute_function, log, request, ReadAnswer, WriteResult, Set
<1> QED
  BY <1>1, <1>2

\* A step of an instance.
LEMMA InstanceInv ==
    ASSUME Inv, NEW c \in Call, HostStep(c) \/ GuestStep(c), UNCHANGED runtimeVars
    PROVE  Inv'
<1>0. inst \in [Call -> InstanceRecord] /\ Accounted(c) /\ Sound(inst[c])
  BY Zenon DEF Inv, Accounted
<1>1. UNCHANGED <<provider, hashkey_dict, cache, mailbox, calls, loaded, reports, plain,
                  made, restarts, changes>>
  BY DEF runtimeVars
<1>2. Sound(inst'[c])
  BY <1>0, HostSound, GuestSound, Zenon
<1>3. inst[c].result # "ok"
  BY <1>0, ResultIsFinal
<1>4. PICK r : inst' = [inst EXCEPT ![c] = r]
  BY <1>0, OthersStay
<1>5. inst' \in [Call -> InstanceRecord] /\ \A b \in Call \ {c} : inst'[b] = inst[b]
  <2>1. inst'[c] \in InstanceRecord /\ inst'[c] = r
    BY <1>0, <1>2, <1>4 DEF Sound
  <2> QED
    BY <1>0, <1>4, <2>1
<1>6. Types'
  BY <1>1 DEF Inv, Types
<1>7. ASSUME NEW b \in Call PROVE Accounted(b)'
  <2>1. CASE b = c
    BY <1>0, <1>1, <1>2, <1>3, <2>1, Zenon DEF Accounted
  <2>2. CASE b # c
    BY <1>1, <1>5, <2>2, AccountedStays, Zenon DEF Inv
  <2> QED
    BY <2>1, <2>2
<1>8. ASSUME NEW b \in AssemblyID PROVE Kept(b)'
  BY <1>1, KeptStays, Zenon DEF Inv
<1> QED
  BY <1>5, <1>6, <1>7, <1>8 DEF Inv

\* The usage of a call is reported.
LEMMA ReportInv ==
    ASSUME Inv, NEW c \in Call, ReportUsage(c)
    PROVE  Inv'
<1>0. /\ calls \in [Call -> CallRecord] /\ reports \in [Call -> Nat] /\ Accounted(c)
      /\ calls[c].state = "running"
  BY DEF Inv, Types, ReportUsage, Served
<1>1. UNCHANGED <<inst, provider, hashkey_dict, cache, mailbox, loaded, plain, made, restarts, changes>>
  BY DEF ReportUsage
<1>2. /\ calls' \in [Call -> CallRecord] /\ calls'[c].state = "reported"
      /\ \A b \in Call \ {c} : calls'[b] = calls[b]
  BY <1>0 DEF ReportUsage, CallRecord
<1>3. /\ reports' \in [Call -> Nat] /\ reports'[c] = 1
      /\ \A b \in Call \ {c} : reports'[b] = reports[b]
  BY <1>0 DEF ReportUsage, Accounted
<1>4. Types'
  BY <1>1, <1>2, <1>3, Zenon DEF Inv, Types
<1>5. ASSUME NEW b \in Call PROVE Accounted(b)'
  <2>1. CASE b = c
    BY <1>0, <1>1, <1>2, <1>3, <2>1, Zenon DEF Accounted
  <2>2. CASE b # c
    BY <1>1, <1>2, <1>3, <2>2, AccountedStays, Zenon DEF Inv
  <2> QED
    BY <2>1, <2>2
<1>6. ASSUME NEW b \in AssemblyID PROVE Kept(b)'
  BY <1>1, KeptStays, Zenon DEF Inv
<1> QED
  BY <1>1, <1>4, <1>5, <1>6 DEF Inv

\* A call is answered with what its instance resulted in.
LEMMA ReplyInv ==
    ASSUME Inv, NEW c \in Call, Reply(c)
    PROVE  Inv'
<1>0. calls[c].state = "reported" /\ Answer(c, inst[c].result) /\ Accounted(c)
  BY DEF Reply, Inv
<1>1. UNCHANGED <<inst, provider, hashkey_dict, cache, mailbox, loaded, reports, plain,
                  made, restarts, changes>>
  BY DEF Reply
<1>2. inst[c].result \in Error \cup {"ok", "none"}
  BY DEF Inv, InstanceRecord, Outcome, Error
<1>3. /\ calls' \in [Call -> CallRecord] /\ calls'[c].state = "answered"
      /\ calls'[c].answer = inst[c].result
      /\ \A b \in Call \ {c} : calls'[b] = calls[b]
  BY <1>0, <1>2, AnswerType, Zenon DEF Inv, Types
<1>4. Types'
  BY <1>1, <1>3, Zenon DEF Inv, Types
<1>5. ASSUME NEW b \in Call PROVE Accounted(b)'
  <2>1. CASE b = c
    BY <1>0, <1>1, <1>3, <2>1, Zenon DEF Accounted
  <2>2. CASE b # c
    BY <1>1, <1>3, <2>2, AccountedStays, Zenon DEF Inv
  <2> QED
    BY <2>1, <2>2
<1>6. ASSUME NEW b \in AssemblyID PROVE Kept(b)'
  BY <1>1, KeptStays, Zenon DEF Inv
<1> QED
  BY <1>1, <1>4, <1>5, <1>6 DEF Inv

\* The process starts again, with the modules left on disk.
LEMMA RestartInv ==
    ASSUME Inv, Restart
    PROVE  Inv'
<1> DEFINE cut == {c \in Call : calls[c].state \in {"posted", "running", "reported"}}
<1>1. /\ calls' = [c \in Call |-> IF c \in cut THEN [calls[c] EXCEPT !.state = "gone"] ELSE calls[c]]
      /\ inst' = [c \in Call |-> IF c \in cut THEN Unstarted ELSE inst[c]]
      /\ loaded' = [c \in Call |-> IF c \in cut THEN Nothing ELSE loaded[c]]
      /\ reports' = [c \in Call |-> IF c \in cut THEN 0 ELSE reports[c]]
      /\ UNCHANGED <<cache, made, changes>>
  BY Zenon DEF Restart
<1>2. /\ provider' = [a \in AssemblyID |-> None] /\ hashkey_dict' = [a \in AssemblyID |-> Unset]
      /\ plain' = {} /\ mailbox' = "running" /\ restarts' \in 0..MaxRestarts
  BY BoundsAssumption DEF Restart, Inv, Types
<1>3. ASSUME NEW c \in Call, c \in cut
      PROVE  /\ calls'[c] \in CallRecord /\ calls'[c].state = "gone"
             /\ inst'[c] = Unstarted /\ loaded'[c] = Nothing /\ reports'[c] = 0
  <2>1. /\ calls'[c] = [calls[c] EXCEPT !.state = "gone"] /\ calls[c] \in CallRecord
        /\ inst'[c] = Unstarted /\ loaded'[c] = Nothing /\ reports'[c] = 0
    BY <1>1, <1>3 DEF Inv, Types
  <2> QED
    BY <2>1 DEF CallRecord
<1>4. ASSUME NEW c \in Call, c \notin cut
      PROVE  UNCHANGED <<inst[c], calls[c], loaded[c], reports[c]>>
  BY <1>1, <1>4
<1> HIDE DEF cut
<1>5. Unstarted \in InstanceRecord /\ Nothing \in [module : Module, limit : Nat \cup {Unset}]
  BY UnstartedSound DEF Sound, Nothing, Module
<1>6. inst' \in [Call -> InstanceRecord]
  BY <1>1, <1>5 DEF Inv
<1>7. Types'
  <2>1. calls' \in [Call -> CallRecord]
    <3>1. \A c \in Call : calls'[c] \in CallRecord
      BY <1>3, <1>4, Zenon DEF Inv, Types
    <3> QED
      BY <1>1, <3>1
  <2>2. loaded' \in [Call -> [module : Module, limit : Nat \cup {Unset}]]
    BY <1>1, <1>5 DEF Inv, Types
  <2>3. reports' \in [Call -> Nat]
    BY <1>1 DEF Inv, Types
  <2>4. /\ provider' \in [AssemblyID -> Revision \cup {None}]
        /\ hashkey_dict' \in [AssemblyID -> Nat \cup {Unset}]
    BY <1>2
  <2> QED
    BY <1>1, <1>2, <2>1, <2>2, <2>3, <2>4 DEF Inv, Types
<1>8. ASSUME NEW c \in Call PROVE Accounted(c)'
  <2>1. CASE c \in cut
    BY <1>3, <2>1, UnstartedSound, Zenon DEF Accounted
  <2>2. CASE c \notin cut
    BY <1>4, <2>2, AccountedStays, Zenon DEF Inv
  <2> QED
    BY <2>1, <2>2
<1>9. ASSUME NEW a \in AssemblyID PROVE Kept(a)'
  BY <1>1, <1>2 DEF Inv, Kept
<1> QED
  BY <1>6, <1>7, <1>8, <1>9 DEF Inv

\* Each step keeps the invariant.
LEMMA InvStep == Inv /\ [Next]_vars => Inv'
<1> SUFFICES ASSUME Inv, [Next]_vars PROVE Inv'
  OBVIOUS
<1>1. CASE \E a \in AssemblyID : (\E r \in Revision : AddFunctions(a, r)) \/ RemoveFunctions(a)
  BY <1>1, AddInv, RemoveInv, Zenon DEF RemoveFunctions
<1>2. CASE \E s \in StackID : RemoveAllFunctions(s)
  BY <1>2, RemoveInv, Zenon DEF RemoveAllFunctions
<1>3. ASSUME NEW c \in Call,
             \/ \E a \in AssemblyID : invoke_function(c, a)
             \/ MailboxStep(c)
             \/ (HostStep(c) \/ GuestStep(c)) /\ UNCHANGED runtimeVars
             \/ ReportUsage(c) \/ Reply(c)
      PROVE  Inv'
  BY <1>3, InvokeInv, RefusalInv, ExecuteInv, InstanceInv, ReportInv, ReplyInv, Zenon
     DEF MailboxStep
<1>4. CASE Shutdown \/ StopMailbox \/ UNCHANGED vars
  <2>1. /\ UNCHANGED <<inst, provider, hashkey_dict, cache, calls, loaded, reports, plain,
                       made, restarts, changes>>
        /\ mailbox' \in {mailbox, "shut_down", "stopped"}
    BY <1>4 DEF Shutdown, StopMailbox, vars, runtimeVars
  <2>2. Types'
    BY <2>1, Zenon DEF Inv, Types
  <2>3. ASSUME NEW c \in Call PROVE Accounted(c)'
    BY <2>1, AccountedStays, Zenon DEF Inv
  <2>4. ASSUME NEW a \in AssemblyID PROVE Kept(a)'
    BY <2>1, KeptStays, Zenon DEF Inv
  <2> QED
    BY <2>1, <2>2, <2>3, <2>4 DEF Inv
<1>5. CASE Restart
  BY <1>5, RestartInv
<1> QED
  BY <1>1, <1>2, <1>3, <1>4, <1>5, Zenon DEF Next

\* The invariant holds of every reachable state.
LEMMA InvAlways == Spec => []Inv
BY InvInit, InvStep, PTL DEF Spec

\* Every reachable state of the runtime and its instances has its types; among
\* them are the errors that a call may end in.
THEOREM TypeCorrect == Spec => []TypeOK
<1>1. Inv => TypeOK
  BY Zenon DEF Inv, Types, CallRecord, TypeOK, InstanceType, InstanceRecord
<1> QED
  BY <1>1, InvAlways, PTL

\* Instance::run: a call that is answered with a result ran a function that ended
\* cleanly and read all it had asked for, whatever else it wrote, in whatever order
\* the tasks of host and function ran.
THEOREM CleanEnds == Spec => []ResultMeansCleanEnd
<1>1. Inv => ResultMeansCleanEnd
  <2> SUFFICES ASSUME Inv, NEW c \in Call, calls[c].state = "answered", calls[c].answer = "ok"
               PROVE  /\ inst[c].outcome = "ok" /\ inst[c].guest = "ended"
                      /\ inst[c].asked = "none" /\ inst[c].stdin = <<>>
    BY DEF ResultMeansCleanEnd
  <2>1. Sound(inst[c]) /\ inst[c].result = "ok"
    BY Zenon DEF Inv, Accounted
  <2>2. inst[c].outcome = "ok" /\ inst[c].guest = "ended" /\ inst[c].stdin = <<>>
    BY <2>1, Zenon DEF Sound, Progress
  <2> QED
    BY <2>1, <2>2, Zenon DEF Sound, Conversation
<1> QED
  BY <1>1, InvAlways, PTL

\* The host answers each request of a function once, with a message that the SDK
\* takes for an answer to that request.
THEOREM AlwaysUnderstood == Spec => []AnswersAreUnderstood
<1>1. Inv => AnswersAreUnderstood
  BY Zenon DEF Inv, Accounted, Sound, AnswersAreUnderstood
<1> QED
  BY <1>1, InvAlways, PTL

\* The usage of a call is reported exactly once if its function ran, and not at all
\* otherwise, before the call is answered.
THEOREM ReportedOnce == Spec => []UsageIsReportedOnce
<1>1. Inv => UsageIsReportedOnce
  <2> SUFFICES ASSUME Inv, NEW c \in Call
               PROVE  /\ reports[c] <= 1
                      /\ reports[c] = 1 => loaded[c] # Nothing
                      /\ calls[c].state = "answered" /\ loaded[c] # Nothing => reports[c] = 1
    BY DEF UsageIsReportedOnce
  <2>1. /\ Accounted(c)
        /\ calls[c].state \in {"idle", "posted", "running", "reported", "answered", "gone"}
    BY DEF Inv, Types, CallRecord
  <2> QED
    BY <2>1 DEF Accounted
<1> QED
  BY <1>1, InvAlways, PTL

\* What a call that starts to run is made of.
RunsItself ==
    \A c \in Call : LET a == calls[c].id IN
        loaded'[c] \notin {loaded[c], Nothing} =>
            /\ loaded'[c].module.id = a
            /\ a \in plain /\ provider[a] \in Compiles =>
                  loaded'[c] = [module |-> ModuleOf(a), limit |-> memory_limit[provider[a]]]

\* A call is given its module when it is executed and at no other time.
LEMMA OnlyExecuteLoads ==
    ASSUME Inv, [Next]_vars, NEW c \in Call, loaded'[c] \notin {loaded[c], Nothing}
    PROVE  execute_function(c)
<1>0. loaded \in [Call -> [module : Module, limit : Nat \cup {Unset}]]
  BY Zenon DEF Inv, Types
<1>1. CASE \E a \in AssemblyID : (\E r \in Revision : AddFunctions(a, r)) \/ RemoveFunctions(a)
  BY <1>1, Zenon DEF AddFunctions, RemoveFunctions, Remove, Change
<1>2. CASE \E s \in StackID : RemoveAllFunctions(s)
  BY <1>2, Zenon DEF RemoveAllFunctions, Remove, Change
<1>3. ASSUME NEW b \in Call,
             \/ \E a \in AssemblyID : invoke_function(b, a)
             \/ MailboxStep(b)
             \/ (HostStep(b) \/ GuestStep(b)) /\ UNCHANGED runtimeVars
             \/ ReportUsage(b) \/ Reply(b)
      PROVE  execute_function(c)
  <2>1. CASE \E a \in AssemblyID : invoke_function(b, a)
    BY <1>0, <2>1, Zenon DEF invoke_function
  <2>2. CASE RefuseCall(b) \/ CallIsLost(b) \/ ReportUsage(b) \/ Reply(b)
    BY <2>2 DEF RefuseCall, CallIsLost, ReportUsage, Reply
  <2>3. CASE UNCHANGED runtimeVars
    BY <2>3 DEF runtimeVars
  <2>4. CASE execute_function(b)
    <3>1. \/ UNCHANGED loaded
          \/ \E m : loaded' = [loaded EXCEPT ![b] = m]
      BY <2>4, Zenon DEF execute_function, start_function
    <3>2. b = c
      BY <1>0, <3>1
    <3> QED
      BY <2>4, <3>2
  <2> QED
    BY <1>3, <2>1, <2>2, <2>3, <2>4, Zenon DEF MailboxStep
<1>4. CASE Shutdown \/ StopMailbox \/ UNCHANGED vars
  BY <1>4, Zenon DEF Shutdown, StopMailbox, vars, runtimeVars
<1>5. CASE Restart
  <2>1. \E cut \in SUBSET Call :
            loaded' = [b \in Call |-> IF b \in cut THEN Nothing ELSE loaded[b]]
    <3> DEFINE cut == {b \in Call : calls[b].state \in {"posted", "running", "reported"}}
    <3>1. loaded' = [b \in Call |-> IF b \in cut THEN Nothing ELSE loaded[b]]
      BY <1>5, Zenon DEF Restart
    <3> QED
      BY <3>1
  <2> QED
    BY <2>1
<1> QED
  BY <1>1, <1>2, <1>3, <1>4, <1>5, Zenon DEF Next

\* Each step gives a call the module it is to run, or none.
LEMMA RunsItselfStep == Inv /\ [Next]_vars => RunsItself
<1> SUFFICES ASSUME Inv, [Next]_vars, NEW c \in Call, NEW a, a = calls[c].id,
                    loaded'[c] \notin {loaded[c], Nothing}
             PROVE  /\ loaded'[c].module.id = a
                    /\ a \in plain /\ provider[a] \in Compiles =>
                          loaded'[c] = [module |-> ModuleOf(a), limit |-> memory_limit[provider[a]]]
  BY Zenon DEF RunsItself
<1> DEFINE limit == IF hashkey_dict[a] = Unset THEN memory_limit[provider[a]] ELSE hashkey_dict[a]
<1>1. execute_function(c)
  BY OnlyExecuteLoads, Zenon
<1>2. a \in AssemblyID /\ Kept(a) /\ loaded \in [Call -> [module : Module, limit : Nat \cup {Unset}]]
  BY <1>1, Zenon DEF execute_function, Inv, Types, Accounted
<1>3. PICK load \in load_module(a, limit) :
          /\ load.error = "none"
          /\ loaded' = [loaded EXCEPT ![c] = [module |-> load.module, limit |-> limit]]
  BY <1>1, Zenon DEF execute_function, start_function
<1>4. loaded'[c] = [module |-> load.module, limit |-> limit]
  BY <1>2, <1>3, Zenon
<1>5. Found(a, limit, load) \/ Compiled(a, load)
  <2>1. Failed(a, limit, load) \/ Found(a, limit, load) \/ Compiled(a, load)
    BY Loading, Zenon
  <2>2. ~Failed(a, limit, load)
    BY <1>3, Zenon DEF Failed, LoadErrors
  <2> QED
    BY <2>1, <2>2, Zenon
<1>6. load.module.id = a
  BY <1>2, <1>5 DEF Found, Compiled, Kept, ModuleOf
<1>7. ASSUME a \in plain, provider[a] \in Compiles
      PROVE  load.module = ModuleOf(a) /\ limit = memory_limit[provider[a]]
  <2>1. limit = memory_limit[provider[a]]
    BY <1>2, <1>7, Zenon DEF Kept
  <2>2. load.module = ModuleOf(a)
    BY <1>2, <1>5, <1>7, Zenon DEF Kept, Found, Compiled
  <2> QED
    BY <2>1, <2>2, Zenon
<1> HIDE DEF limit
<1> QED
  BY <1>4, <1>6, <1>7

\* load_module: a call runs the module and the limit of the definition of its
\* assembly, whatever modules are on disk, if that definition took no other's place
\* and its module could be stored; and always a module of its own assembly.
THEOREM PlainRunsItself == Spec => PlainDefinitionRunsItself
<1>1. Inv /\ [Next]_vars => [RunsItself]_vars
  BY RunsItselfStep
<1>2. RunsItself <=>
          \A c \in Call : LET a == calls[c].id IN
              loaded'[c] \notin {loaded[c], Nothing} =>
                  /\ loaded'[c].module.id = a
                  /\ a \in plain /\ provider[a] \in Compiles =>
                        loaded'[c] = [module |-> ModuleOf(a), limit |-> memory_limit[provider[a]]]
  BY Zenon DEF RunsItself
<1> QED
  BY <1>1, <1>2, InvInit, InvStep, PTL DEF Spec, PlainDefinitionRunsItself
=============================================================================
