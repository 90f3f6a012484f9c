------------------------ MODULE UsageReportingProofs ------------------------
(***************************************************************************)
(* Every item of usage is accounted for, for any number of requests and    *)
(* stacks, however posts, requests for the sums and reports overtake each  *)
(* other and wherever the process ends.                                    *)
(***************************************************************************)
EXTENDS UsageReporting, FiniteSetTheorems, TLAPS

----------------------------------------------------------------------------
(* How often an item occurs in a queue.                                    *)

LEMMA OccurrencesType ==
    ASSUME NEW S, NEW q \in Seq(S), NEW i
    PROVE  /\ IsFiniteSet({k \in DOMAIN q : q[k] = i})
           /\ Occurrences(q, i) \in Nat
<1>1. DOMAIN q = 1 .. Len(q) /\ Len(q) \in Nat
  OBVIOUS
<1>2. IsFiniteSet(DOMAIN q)
  BY <1>1, FS_Interval
<1>3. IsFiniteSet({k \in DOMAIN q : q[k] = i})
  BY <1>2, FS_Subset
<1> QED
  BY <1>3, FS_CardinalityType DEF Occurrences

LEMMA OccurrencesEmpty ==
    ASSUME NEW i
    PROVE  Occurrences(<<>>, i) = 0
<1>1. {k \in DOMAIN <<>> : <<>>[k] = i} = {}
  OBVIOUS
<1> QED
  BY <1>1, FS_EmptySet DEF Occurrences

LEMMA OneMore ==
    ASSUME NEW S, IsFiniteSet(S), NEW x, x \notin S
    PROVE  Cardinality(S \cup {x}) = Cardinality(S) + 1
BY FS_AddElement

LEMMA OccurrencesAppend ==
    ASSUME NEW S, NEW q \in Seq(S), NEW j \in S, NEW i
    PROVE  Occurrences(Append(q, j), i) = Occurrences(q, i) + (IF i = j THEN 1 ELSE 0)
<1> DEFINE old == {k \in DOMAIN q : q[k] = i}
           new == {k \in DOMAIN Append(q, j) : Append(q, j)[k] = i}
<1>1. IsFiniteSet(old) /\ Cardinality(old) \in Nat
  BY OccurrencesType, Zenon DEF Occurrences
<1>2. new = IF i = j THEN old \cup {Len(q) + 1} ELSE old
  OBVIOUS
<1>3. Len(q) + 1 \notin old
  OBVIOUS
<1> HIDE DEF old, new
<1>4. Cardinality(new) = Cardinality(old) + (IF i = j THEN 1 ELSE 0)
  <2>1. CASE i = j
    BY <1>1, <1>2, <1>3, <2>1, OneMore
  <2>2. CASE i # j
    BY <1>1, <1>2, <2>2
  <2> QED
    BY <2>1, <2>2
<1> QED
  BY <1>4, Zenon DEF Occurrences, old, new

LEMMA OccurrencesTail ==
    ASSUME NEW S, NEW q \in Seq(S), q # <<>>, NEW i
    PROVE  Occurrences(q, i) = Occurrences(Tail(q), i) + (IF Head(q) = i THEN 1 ELSE 0)
<1> DEFINE all == {k \in DOMAIN q : q[k] = i}
           rest == {k \in DOMAIN Tail(q) : Tail(q)[k] = i}
           moved == {k \in DOMAIN q : k # 1 /\ q[k] = i}
           f == [k \in rest |-> k + 1]
<1>0. /\ Len(q) \in Nat \ {0} /\ DOMAIN q = 1 .. Len(q)
      /\ Tail(q) \in Seq(S) /\ DOMAIN Tail(q) = 1 .. Len(q) - 1
      /\ \A k \in 1 .. Len(q) - 1 : Tail(q)[k] = q[k + 1]
      /\ Head(q) = q[1]
  OBVIOUS
<1>1. IsFiniteSet(rest) /\ Cardinality(rest) \in Nat
  BY <1>0, OccurrencesType, Zenon DEF Occurrences
<1>2. ExistsBijection(rest, moved)
  <2>1. f \in [rest -> moved]
    BY <1>0
  <2>2. \A a, b \in rest : f[a] = f[b] => a = b
    BY <1>0
  <2>3. \A t \in moved : \E a \in rest : f[a] = t
    <3> SUFFICES ASSUME NEW t \in moved PROVE \E a \in rest : f[a] = t
      OBVIOUS
    <3>1. t - 1 \in rest /\ f[t - 1] = t
      BY <1>0
    <3> QED
      BY <3>1
  <2> HIDE DEF f, rest, moved
  <2> QED
    BY <2>1, <2>2, <2>3
    DEF ExistsBijection, Bijection, Injection, Surjection, IsInjective
<1>3. IsFiniteSet(moved) /\ Cardinality(moved) = Cardinality(rest)
  BY <1>1, <1>2, FS_Bijection, Zenon
<1>4. all = (IF Head(q) = i THEN moved \cup {1} ELSE moved) /\ 1 \notin moved
  BY <1>0
<1> HIDE DEF all, rest, moved
<1>5. Cardinality(all) = Cardinality(rest) + (IF Head(q) = i THEN 1 ELSE 0)
  <2>1. CASE Head(q) = i
    BY <1>3, <1>4, <2>1, OneMore
  <2>2. CASE Head(q) # i
    BY <1>1, <1>3, <1>4, <2>2
  <2> QED
    BY <2>1, <2>2
<1> QED
  BY <1>5, Zenon DEF Occurrences, all, rest

----------------------------------------------------------------------------
(* The inductive invariant.                                                *)

Message == Item \cup {GetAndResetUsages}

\* Every queue and every sum holds only items that belong there, the monitor
\* waits for exactly as many replies as it has asked for, and it holds a report
\* only while it reports.
OwnItem(set, s) == \A i \in set : StackOf[i[1]] = s

PipelineInv ==
    /\ TypeOK
    /\ \A c \in Source : \A k \in DOMAIN channel[c] : channel[c][k][2] = c
    /\ \A s \in Stack : OwnItem(usages[s], s) /\ OwnItem(report[s], s)
    /\ Occurrences(mailbox, GetAndResetUsages) = IF monitor = "waiting" THEN 1 ELSE 0
    /\ monitor # "reporting" => report = Nothing

Total(i) == OnItsWay(i) + Settled(i)

Accounted(i) ==
    /\ Total(i) <= 1
    /\ Total(i) = 1 => Caused(i)
    /\ i[2] = "gateway" /\ Caused(i) => Total(i) = 1

LEMMA ItemParts ==
    ASSUME NEW i \in Item
    PROVE  /\ i[1] \in Request /\ i[2] \in Source /\ StackOf[i[1]] \in Stack
           /\ i = <<i[1], i[2]>>
BY StackOfAssumption DEF Item

LEMMA NotAnItem == GetAndResetUsages \notin Item
BY DEF GetAndResetUsages, Item

LEMMA WithinType ==
    ASSUME NEW set, NEW i
    PROVE  Within(set, i) \in Nat /\ (Within(set, i) = 1 <=> i \in set)
           /\ (Within(set, i) = 0 <=> i \notin set)
BY DEF Within

\* The places of an item are counted by natural numbers.
LEMMA Places ==
    ASSUME TypeOK, NEW i \in Item
    PROVE  /\ Occurrences(channel[i[2]], i) \in Nat
           /\ Occurrences(mailbox, i) \in Nat
           /\ Within(spawned, i) \in Nat /\ Within(usages[StackOf[i[1]]], i) \in Nat
           /\ Within(report[StackOf[i[1]]], i) \in Nat
           /\ Within(charged[StackOf[i[1]]], i) \in Nat /\ Within(lost, i) \in Nat
           /\ Total(i) \in Nat
<1>1. channel[i[2]] \in Seq(Item) /\ mailbox \in Seq(Message)
  BY ItemParts DEF TypeOK, Message
<1>2. Occurrences(channel[i[2]], i) \in Nat /\ Occurrences(mailbox, i) \in Nat
  BY <1>1, OccurrencesType, Zenon
<1> QED
  BY <1>2, WithinType DEF Total, OnItsWay, Settled

\* Whatever is in one place is nowhere else.
LEMMA OnlyPlace ==
    ASSUME NEW a \in Nat, NEW b \in Nat, NEW c \in Nat, NEW d \in Nat, NEW e \in Nat,
           NEW f \in Nat, NEW g \in Nat, a + b + c + d + e + (f + g) <= 1
    PROVE  /\ a > 0 => b = 0
           /\ b > 0 => c = 0
           /\ c > 0 => d = 0
           /\ d > 0 => e = 0
           /\ e > 0 => f = 0 /\ g = 0
OBVIOUS

\* The steps of an item's way: when it is in one place, it is not in the next.
NextPlaceIsFree(i) ==
    LET s == StackOf[i[1]]
    IN  /\ Occurrences(channel[i[2]], i) > 0 => Within(spawned, i) = 0
        /\ Within(spawned, i) > 0 => Occurrences(mailbox, i) = 0
        /\ Occurrences(mailbox, i) > 0 => Within(usages[s], i) = 0
        /\ Within(usages[s], i) > 0 => Within(report[s], i) = 0
        /\ Within(report[s], i) > 0 => Within(charged[s], i) = 0 /\ Within(lost, i) = 0

LEMMA NextIsFree ==
    ASSUME TypeOK, NEW i \in Item, Accounted(i)
    PROVE  NextPlaceIsFree(i)
<1> DEFINE s == StackOf[i[1]]
           a == Occurrences(channel[i[2]], i)
           b == Within(spawned, i)
           c == Occurrences(mailbox, i)
           d == Within(usages[s], i)
           e == Within(report[s], i)
           f == Within(charged[s], i)
           g == Within(lost, i)
<1>1. /\ a \in Nat /\ b \in Nat /\ c \in Nat /\ d \in Nat /\ e \in Nat /\ f \in Nat
      /\ g \in Nat
  BY Places
<1>2. a + b + c + d + e + (f + g) <= 1
  BY DEF Accounted, Total, OnItsWay, Settled
<1> HIDE DEF a, b, c, d, e, f, g
<1>3. /\ a > 0 => b = 0
      /\ b > 0 => c = 0
      /\ c > 0 => d = 0
      /\ d > 0 => e = 0
      /\ e > 0 => f = 0 /\ g = 0
  BY <1>1, <1>2, OnlyPlace
<1> QED
  BY <1>3 DEF NextPlaceIsFree, a, b, c, d, e, f, g

LEMMA PipelineInit == Init => PipelineInv
<1> SUFFICES ASSUME Init PROVE PipelineInv
  OBVIOUS
<1>1. TypeOK
  BY DEF Init, TypeOK, Nothing
<1>2. Occurrences(mailbox, GetAndResetUsages) = 0
  BY OccurrencesEmpty DEF Init
<1>3. \A c \in Source : channel[c] = <<>>
  BY DEF Init
<1> QED
  BY <1>1, <1>2, <1>3 DEF Init, PipelineInv, Nothing, OwnItem

LEMMA AccountedInit ==
    ASSUME Init, NEW i \in Item
    PROVE  Accounted(i)
<1>1. /\ Occurrences(channel[i[2]], i) = 0 /\ Occurrences(mailbox, i) = 0
      /\ request[i[1]] = "new"
  BY ItemParts, OccurrencesEmpty DEF Init
<1>2. Total(i) = 0
  BY <1>1, ItemParts, WithinType DEF Init, Total, OnItsWay, Settled, Nothing
<1> QED
  BY <1>1, <1>2 DEF Accounted, Caused

----------------------------------------------------------------------------
(* The pipeline's invariant, step by step.                                 *)

\* An item of its own source is appended to a channel.
LEMMA NotifyPipeline ==
    ASSUME PipelineInv, NEW c \in Source, NEW r \in Request, Notify(c, r),
           UNCHANGED <<stage, spawned, mailbox, usages, reporting>>,
           request' \in [Request -> {"new", "accepted", "executing", "answered",
                                     "done", "given_up"}]
    PROVE  PipelineInv'
<1>0. TypeOK /\ channel \in [Source -> Seq(Item)] /\ <<r, c>> \in Item
  BY DEF PipelineInv, TypeOK, Item
<1>1. channel' = [channel EXCEPT ![c] = Append(channel[c], <<r, c>>)]
  BY DEF Notify
<1>2. channel' \in [Source -> Seq(Item)]
  BY <1>0, <1>1
<1>3. TypeOK'
  BY <1>0, <1>2 DEF TypeOK, reporting
<1>4. \A d \in Source : \A k \in DOMAIN channel'[d] : channel'[d][k][2] = d
  <2> SUFFICES ASSUME NEW d \in Source, NEW k \in DOMAIN channel'[d]
               PROVE  channel'[d][k][2] = d
    OBVIOUS
  <2>1. \A n \in DOMAIN channel[d] : channel[d][n][2] = d
    BY DEF PipelineInv
  <2>2. CASE d # c
    BY <1>0, <1>1, <2>1, <2>2
  <2>3. CASE d = c
    <3>1. channel'[d] = Append(channel[d], <<r, c>>) /\ channel[d] \in Seq(Item)
      BY <1>0, <1>1, <2>3
    <3>2. k \in DOMAIN channel[d] \/ k = Len(channel[d]) + 1
      BY <3>1
    <3> QED
      BY <2>1, <2>3, <3>1, <3>2
  <2> QED
    BY <2>2, <2>3
<1> QED
  BY <1>3, <1>4 DEF PipelineInv, reporting

LEMMA RequestPipeline ==
    ASSUME PipelineInv, NEW r \in Request,
           handle_request(r) \/ execute_function(r) \/ run_request(r) \/ respond(r)
    PROVE  PipelineInv'
<1>0. request \in [Request -> {"new", "accepted", "executing", "answered", "done",
                               "given_up"}]
  BY DEF PipelineInv, TypeOK
<1>1. request' \in [Request -> {"new", "accepted", "executing", "answered", "done",
                                "given_up"}]
  BY <1>0 DEF handle_request, execute_function, run_request, respond
<1>2. CASE run_request(r) \/ respond(r)
  BY <1>1, <1>2, NotifyPipeline DEF run_request, respond, Source
<1>3. CASE handle_request(r) \/ execute_function(r)
  <2>1. UNCHANGED <<stage, pipeline, reporting>>
    BY <1>3 DEF handle_request, execute_function
  <2>2. TypeOK'
    BY <1>1, <2>1 DEF PipelineInv, TypeOK, pipeline, reporting
  <2> QED
    BY <2>1, <2>2 DEF PipelineInv, pipeline, reporting
<1> QED
  BY <1>2, <1>3

LEMMA NotificationPipeline ==
    ASSUME PipelineInv, NEW c \in Source, handle_notification(c)
    PROVE  PipelineInv' /\ Head(channel[c]) \in Item /\ Head(channel[c])[2] = c
<1>0. TypeOK /\ channel \in [Source -> Seq(Item)] /\ channel[c] # <<>>
  BY DEF PipelineInv, TypeOK, handle_notification
<1>1. /\ channel' = [channel EXCEPT ![c] = Tail(channel[c])]
      /\ spawned' = spawned \cup {Head(channel[c])}
      /\ UNCHANGED <<stage, request, mailbox, usages, reporting>>
  BY DEF handle_notification
<1>2. /\ Head(channel[c]) \in Item /\ Tail(channel[c]) \in Seq(Item)
      /\ 1 \in DOMAIN channel[c] /\ Head(channel[c]) = channel[c][1]
  BY <1>0
<1>3. TypeOK'
  <2>1. channel' \in [Source -> Seq(Item)] /\ spawned' \in SUBSET Item
    BY <1>0, <1>1, <1>2 DEF TypeOK
  <2> QED
    BY <1>0, <1>1, <2>1 DEF TypeOK, reporting
<1>4. \A d \in Source : \A k \in DOMAIN channel'[d] : channel'[d][k][2] = d
  <2> SUFFICES ASSUME NEW d \in Source, NEW k \in DOMAIN channel'[d]
               PROVE  channel'[d][k][2] = d
    OBVIOUS
  <2>1. \A n \in DOMAIN channel[d] : channel[d][n][2] = d
    BY DEF PipelineInv
  <2>2. CASE d # c
    BY <1>0, <1>1, <2>1, <2>2
  <2>3. CASE d = c
    <3>1. channel'[d] = Tail(channel[d]) /\ channel[d] \in Seq(Item) /\ channel[d] # <<>>
      BY <1>0, <1>1, <2>3
    <3>2. k + 1 \in DOMAIN channel[d] /\ channel'[d][k] = channel[d][k + 1]
      BY <3>1
    <3> QED
      BY <2>1, <3>2
  <2> QED
    BY <2>2, <2>3
<1>5. Head(channel[c])[2] = c
  BY <1>2 DEF PipelineInv
<1> QED
  BY <1>1, <1>2, <1>3, <1>4, <1>5 DEF PipelineInv, reporting

LEMMA PostPipeline ==
    ASSUME PipelineInv, NEW j \in Item, post_and_forget(j)
    PROVE  PipelineInv'
<1>0. TypeOK /\ mailbox \in Seq(Message)
  BY DEF PipelineInv, TypeOK, Message
<1>1. /\ mailbox' = Append(mailbox, j) /\ spawned' = spawned \ {j}
      /\ UNCHANGED <<stage, request, channel, usages, reporting>>
  BY DEF post_and_forget
<1>2. TypeOK'
  <2>1. spawned' \in SUBSET Item /\ mailbox' \in Seq(Message)
    BY <1>0, <1>1 DEF TypeOK, Message
  <2> QED
    BY <1>0, <1>1, <2>1 DEF TypeOK, Message, reporting
<1>3. Occurrences(mailbox', GetAndResetUsages) = Occurrences(mailbox, GetAndResetUsages)
  <2>1. Occurrences(mailbox, GetAndResetUsages) \in Nat
    BY <1>0, OccurrencesType, Zenon
  <2>2. j \in Message /\ GetAndResetUsages # j
    BY NotAnItem DEF Message
  <2> QED
    BY <1>0, <1>1, <2>1, <2>2, OccurrencesAppend
<1> QED
  BY <1>1, <1>2, <1>3 DEF PipelineInv, reporting

\* The request for the sums is the one message the monitor waits for.
LEMMA MailboxPipeline ==
    ASSUME PipelineInv, mailbox_step
    PROVE  /\ PipelineInv'
           /\ Head(mailbox) = GetAndResetUsages => monitor = "waiting" /\ report = Nothing
           /\ Head(mailbox) # GetAndResetUsages => Head(mailbox) \in Item
<1>0. TypeOK /\ mailbox \in Seq(Message) /\ mailbox # <<>>
  BY DEF PipelineInv, TypeOK, Message, mailbox_step
<1>1. mailbox' = Tail(mailbox) /\ UNCHANGED <<stage, request, channel, spawned, charged, lost>>
  BY DEF mailbox_step
<1>2. Head(mailbox) \in Message /\ Tail(mailbox) \in Seq(Message)
  BY <1>0
<1>3. /\ Occurrences(mailbox, GetAndResetUsages) \in Nat
      /\ Occurrences(mailbox', GetAndResetUsages) \in Nat
      /\ Occurrences(mailbox, GetAndResetUsages) =
             Occurrences(mailbox', GetAndResetUsages)
                 + (IF Head(mailbox) = GetAndResetUsages THEN 1 ELSE 0)
  BY <1>0, <1>1, <1>2, OccurrencesType, OccurrencesTail, Zenon
<1>4. /\ Occurrences(mailbox, GetAndResetUsages) = IF monitor = "waiting" THEN 1 ELSE 0
      /\ monitor # "reporting" => report = Nothing
      /\ \A c \in Source : \A k \in DOMAIN channel[c] : channel[c][k][2] = c
      /\ \A s \in Stack : OwnItem(usages[s], s) /\ OwnItem(report[s], s)
      /\ usages \in [Stack -> SUBSET Item] /\ report \in [Stack -> SUBSET Item]
  BY DEF PipelineInv, TypeOK
<1>5. CASE Head(mailbox) = GetAndResetUsages
  <2>1. monitor' = "reporting" /\ report' = usages /\ usages' = Nothing
    BY <1>5 DEF mailbox_step, ReplyAndReset
  <2>2. TypeOK'
    BY <1>0, <1>1, <1>2, <2>1 DEF TypeOK, Nothing, Message
  <2>3. \A s \in Stack : OwnItem(usages'[s], s) /\ OwnItem(report'[s], s)
    BY <1>4, <2>1 DEF OwnItem, Nothing
  <2>4. monitor = "waiting" /\ report = Nothing
    BY <1>3, <1>4, <1>5
  <2>5. Occurrences(mailbox', GetAndResetUsages) = 0
    BY <1>3, <1>4, <1>5
  <2> QED
    BY <1>1, <1>4, <1>5, <2>1, <2>2, <2>3, <2>4, <2>5 DEF PipelineInv
<1>6. CASE Head(mailbox) # GetAndResetUsages
  <2> DEFINE i == Head(mailbox)
  <2>1. /\ usages' = [usages EXCEPT ![StackOf[i[1]]] = usages[StackOf[i[1]]] \cup {i}]
        /\ UNCHANGED <<monitor, report>> /\ i \in Item
    BY <1>2, <1>6 DEF mailbox_step, RegisterUsage, Message
  <2> HIDE DEF i
  <2>2. usages' \in [Stack -> SUBSET Item]
    BY <1>4, <2>1, ItemParts
  <2>3. TypeOK'
    BY <1>0, <1>1, <1>2, <2>1, <2>2 DEF TypeOK, Message
  <2>4. \A s \in Stack : OwnItem(usages'[s], s)
    BY <1>4, <2>1 DEF OwnItem
  <2>5. Occurrences(mailbox', GetAndResetUsages) = Occurrences(mailbox, GetAndResetUsages)
    BY <1>3, <1>6
  <2> QED
    BY <1>1, <1>4, <1>6, <2>1, <2>3, <2>4, <2>5, Zenon DEF PipelineInv, i
<1> QED
  BY <1>5, <1>6

LEMMA AskPipeline ==
    ASSUME PipelineInv, get_and_reset_usages, stage' = stage \/ stage' = "stopping"
    PROVE  PipelineInv'
<1>0. TypeOK /\ mailbox \in Seq(Message) /\ GetAndResetUsages \in Message
  BY DEF PipelineInv, TypeOK, Message
<1>1. /\ monitor = "idle" /\ monitor' = "waiting"
      /\ mailbox' = Append(mailbox, GetAndResetUsages)
      /\ UNCHANGED <<request, channel, spawned, usages, report, charged, lost>>
  BY DEF get_and_reset_usages
<1>2. TypeOK'
  <2>1. mailbox' \in Seq(Message)
    BY <1>0, <1>1
  <2> QED
    BY <1>0, <1>1, <2>1 DEF TypeOK, Message
<1>3. Occurrences(mailbox', GetAndResetUsages) = 1
  <2>1. Occurrences(mailbox, GetAndResetUsages) = 0
    BY <1>1 DEF PipelineInv
  <2> QED
    BY <1>0, <1>1, <2>1, OccurrencesAppend
<1> QED
  BY <1>1, <1>2, <1>3 DEF PipelineInv

LEMMA ReportPipeline ==
    ASSUME PipelineInv, ReportFails \/ (\E s \in Stack : report_usage(s)) \/ ReportEnds
    PROVE  PipelineInv'
<1>0. /\ TypeOK /\ \A s \in Stack : OwnItem(report[s], s)
      /\ report \in [Stack -> SUBSET Item] /\ charged \in [Stack -> SUBSET Item]
      /\ lost \in SUBSET Item
  BY DEF PipelineInv, TypeOK
<1>1. /\ UNCHANGED <<request, channel, spawned, mailbox, usages>>
      /\ monitor = "reporting" /\ monitor' \in {"reporting", "idle"}
      /\ stage' \in {stage, "monitor_stopped"}
  BY DEF ReportFails, report_usage, ReportEnds, pipeline
<1>2. /\ report' \in [Stack -> SUBSET Item] /\ \A s \in Stack : OwnItem(report'[s], s)
      /\ monitor' = "idle" => report' = Nothing
      /\ charged' \in [Stack -> SUBSET Item] /\ lost' \in SUBSET Item
  <2>1. CASE ReportFails
    BY <1>0, <1>1, <2>1 DEF ReportFails, Nothing, OwnItem
  <2>2. CASE ReportEnds
    BY <1>0, <2>2 DEF ReportEnds
  <2>3. ASSUME NEW s \in Stack, report_usage(s)
        PROVE  /\ report' \in [Stack -> SUBSET Item]
               /\ \A t \in Stack : OwnItem(report'[t], t)
               /\ monitor' = "reporting"
               /\ charged' \in [Stack -> SUBSET Item] /\ lost' \in SUBSET Item
    <3>1. /\ report' = [report EXCEPT ![s] = {}] /\ monitor' = "reporting"
          /\ \/ /\ charged' = [charged EXCEPT ![s] = charged[s] \cup report[s]]
                /\ lost' = lost
             \/ lost' = lost \cup report[s] /\ charged' = charged
      BY <2>3 DEF report_usage
    <3>2. report' \in [Stack -> SUBSET Item] /\ \A t \in Stack : OwnItem(report'[t], t)
      BY <1>0, <3>1 DEF OwnItem
    <3>3. charged' \in [Stack -> SUBSET Item] /\ lost' \in SUBSET Item
      BY <1>0, <3>1
    <3> QED
      BY <3>1, <3>2, <3>3
  <2> QED
    BY <2>1, <2>2, <2>3
<1>3. TypeOK'
  BY <1>0, <1>1, <1>2 DEF TypeOK
<1> QED
  BY <1>1, <1>2, <1>3 DEF PipelineInv

LEMMA StagePipeline ==
    ASSUME PipelineInv, Cancel \/ StopRuntime \/ StopGateway \/ Exit \/ Crash
    PROVE  PipelineInv'
<1>1. UNCHANGED <<channel, spawned, mailbox, usages, monitor, report, charged, lost>>
  BY DEF Cancel, StopRuntime, StopGateway, Exit, Crash, StageEnds, pipeline, reporting
<1>2. /\ stage' \in {"cancelled", "runtime_stopped", "draining", "exited", "crashed"}
      /\ request' \in [Request -> {"new", "accepted", "executing", "answered", "done",
                                   "given_up"}]
  BY DEF Cancel, StopRuntime, StopGateway, Exit, Crash, StageEnds, PipelineInv, TypeOK
<1>3. TypeOK'
  BY <1>1, <1>2 DEF PipelineInv, TypeOK
<1> QED
  BY <1>1, <1>3 DEF PipelineInv

LEMMA PipelineStep ==
    ASSUME PipelineInv, [Next]_vars
    PROVE  PipelineInv'
<1>1. CASE UNCHANGED vars
  <2>1. TypeOK'
    BY <1>1 DEF PipelineInv, TypeOK, vars, pipeline, reporting
  <2> QED
    BY <1>1, <2>1 DEF PipelineInv, vars, pipeline, reporting
<1>2. CASE Tick \/ StopMonitor
  BY <1>2, AskPipeline DEF Tick, StopMonitor
<1>3. CASE ReportFails \/ (\E s \in Stack : report_usage(s)) \/ ReportEnds
  BY <1>3, ReportPipeline
<1> QED
  BY <1>1, <1>2, <1>3, RequestPipeline, NotificationPipeline, PostPipeline,
     MailboxPipeline, StagePipeline
  DEF Next, Shutdown

----------------------------------------------------------------------------
(* An item moves, and is never copied or dropped.                          *)

LEMMA Kept ==
    ASSUME NEW i \in Item, Accounted(i), Total(i)' = Total(i),
           Caused(i) => Caused(i)', i[2] = "gateway" /\ Caused(i)' => Caused(i)
    PROVE  Accounted(i)'
BY DEF Accounted

LEMMA SameCause ==
    ASSUME NEW i \in Item, Accounted(i), Total(i)' = Total(i), UNCHANGED request
    PROVE  Accounted(i)'
<1>1. Caused(i)' <=> Caused(i)
  BY DEF Caused
<1> QED
  BY <1>1, Kept

LEMMA SamePlaces ==
    ASSUME NEW i \in Item,
           UNCHANGED <<channel, spawned, mailbox, usages, report, charged, lost>>
    PROVE  Total(i)' = Total(i)
BY DEF Total, OnItsWay, Settled, Occurrences, Within

\* A request's progress, seen from item i.
LEMMA Progress ==
    ASSUME TypeOK, NEW i \in Item, NEW r \in Request, NEW to,
           request' = [request EXCEPT ![r] = to]
    PROVE  /\ i[1] # r => request'[i[1]] = request[i[1]]
           /\ i[1] = r => request'[i[1]] = to
BY ItemParts DEF TypeOK

\* The one item that a step causes is appended to the channel of its source.
LEMMA NotifyAccounted ==
    ASSUME TypeOK, NEW c \in Source, NEW r \in Request, Notify(c, r),
           UNCHANGED <<spawned, mailbox, usages, report, charged, lost>>,
           NEW i \in Item
    PROVE  Total(i)' = Total(i) + (IF i = <<r, c>> THEN 1 ELSE 0)
<1> DEFINE j == <<r, c>>
<1>1. /\ channel \in [Source -> Seq(Item)] /\ j \in Item /\ j[2] = c
      /\ channel' = [channel EXCEPT ![c] = Append(channel[c], j)]
  BY DEF TypeOK, Notify, Item
<1> HIDE DEF j
<1>2. Occurrences(channel'[i[2]], i)
          = Occurrences(channel[i[2]], i) + (IF i = j THEN 1 ELSE 0)
  <2>1. CASE i[2] = c
    <3>1. channel'[i[2]] = Append(channel[i[2]], j) /\ channel[i[2]] \in Seq(Item)
      BY <1>1, <2>1
    <3> QED
      BY <1>1, <3>1, OccurrencesAppend
  <2>2. CASE i[2] # c
    <3>1. channel'[i[2]] = channel[i[2]] /\ i # j
      BY <1>1, <2>2, ItemParts
    <3>2. Occurrences(channel[i[2]], i) \in Nat
      BY Places
    <3> QED
      BY <3>1, <3>2
  <2> QED
    BY <2>1, <2>2
<1>3. /\ Occurrences(channel[i[2]], i) \in Nat /\ Occurrences(mailbox, i) \in Nat
  BY Places
<1> QED
  BY <1>2, <1>3, WithinType DEF Total, OnItsWay, Settled, j

LEMMA RequestAccounted ==
    ASSUME PipelineInv, NEW i \in Item, Accounted(i), NEW r \in Request,
           handle_request(r) \/ execute_function(r) \/ run_request(r) \/ respond(r)
    PROVE  Accounted(i)'
<1>0. TypeOK /\ Total(i) \in Nat /\ i[1] \in Request /\ i[2] \in Source
      /\ i = <<i[1], i[2]>>
  BY Places, ItemParts DEF PipelineInv
<1>1. CASE handle_request(r)
  <2>1. request[r] = "new" /\ request' = [request EXCEPT ![r] = "accepted"]
    BY <1>1 DEF handle_request
  <2>2. Total(i)' = Total(i)
    BY <1>1, SamePlaces DEF handle_request, pipeline, reporting
  <2>3. Caused(i)' <=> Caused(i)
    BY <1>0, <2>1, Progress DEF Caused
  <2> QED
    BY <2>2, <2>3, Kept
<1>2. CASE execute_function(r)
  <2>1. PICK to \in {"executing", "answered"} :
            request[r] = "accepted" /\ request' = [request EXCEPT ![r] = to]
    BY <1>2 DEF execute_function
  <2>2. Total(i)' = Total(i)
    BY <1>2, SamePlaces DEF execute_function, pipeline, reporting
  <2>3. (Caused(i) => Caused(i)') /\ (i[2] = "gateway" /\ Caused(i)' => Caused(i))
    BY <1>0, <2>1, Progress DEF Caused
  <2> QED
    BY <2>2, <2>3, Kept
<1>3. CASE run_request(r)
  <2>1. /\ request[r] = "executing" /\ request' = [request EXCEPT ![r] = "answered"]
        /\ Notify("runtime", r)
        /\ UNCHANGED <<spawned, mailbox, usages, report, charged, lost>>
    BY <1>3 DEF run_request, reporting
  <2>2. Total(i)' = Total(i) + (IF i = <<r, "runtime">> THEN 1 ELSE 0)
    BY <1>0, <2>1, NotifyAccounted DEF Source
  <2>3. CASE i = <<r, "runtime">>
    <3>1. ~Caused(i) /\ Caused(i)' /\ i[2] # "gateway"
      BY <1>0, <2>1, <2>3, Progress, ZenonT(30) DEF Caused
    <3> QED
      BY <1>0, <2>2, <2>3, <3>1 DEF Accounted
  <2>4. CASE i # <<r, "runtime">>
    <3>1. Caused(i)' <=> Caused(i)
      <4>1. CASE i[1] # r
        BY <1>0, <2>1, <4>1, Progress DEF Caused
      <4>2. CASE i[1] = r /\ i[2] = "gateway"
        BY <1>0, <2>1, <4>2, Progress DEF Caused
      <4> QED
        BY <1>0, <2>4, <4>1, <4>2 DEF Source
    <3> QED
      BY <1>0, <2>2, <2>4, <3>1, Kept
  <2> QED
    BY <2>3, <2>4
<1>4. CASE respond(r)
  <2>1. /\ request[r] = "answered" /\ request' = [request EXCEPT ![r] = "done"]
        /\ Notify("gateway", r)
        /\ UNCHANGED <<spawned, mailbox, usages, report, charged, lost>>
    BY <1>4 DEF respond, reporting
  <2>2. Total(i)' = Total(i) + (IF i = <<r, "gateway">> THEN 1 ELSE 0)
    BY <1>0, <2>1, NotifyAccounted DEF Source
  <2>3. CASE i = <<r, "gateway">>
    <3>0. i[1] = r /\ i[2] = "gateway"
      BY <2>3
    <3>1. ~Caused(i) /\ Caused(i)'
      BY <1>0, <2>1, <3>0, Progress, ZenonT(30) DEF Caused
    <3> QED
      BY <1>0, <2>2, <2>3, <3>1 DEF Accounted
  <2>4. CASE i # <<r, "gateway">>
    <3>1. Caused(i)' <=> Caused(i)
      <4>1. CASE i[1] # r
        BY <1>0, <2>1, <4>1, Progress DEF Caused
      <4>2. CASE i[1] = r /\ i[2] = "runtime"
        BY <1>0, <2>1, <4>2, Progress DEF Caused
      <4> QED
        BY <1>0, <2>4, <4>1, <4>2 DEF Source
    <3> QED
      BY <1>0, <2>2, <2>4, <3>1, Kept
  <2> QED
    BY <2>3, <2>4
<1> QED
  BY <1>1, <1>2, <1>3, <1>4

LEMMA NotificationAccounted ==
    ASSUME PipelineInv, NEW i \in Item, Accounted(i), NEW c \in Source,
           handle_notification(c)
    PROVE  Accounted(i)'
<1> DEFINE j == Head(channel[c])
<1>0. /\ TypeOK /\ Total(i) <= 1 /\ channel \in [Source -> Seq(Item)]
      /\ j \in Item /\ j[2] = c /\ i[2] \in Source
  BY NotificationPipeline, ItemParts DEF PipelineInv, TypeOK, Accounted
<1>1. /\ channel[c] # <<>> /\ channel' = [channel EXCEPT ![c] = Tail(channel[c])]
      /\ spawned' = spawned \cup {j}
      /\ UNCHANGED <<request, mailbox, usages, report, charged, lost>>
  BY DEF handle_notification, reporting
<1>2. /\ Occurrences(channel[i[2]], i) \in Nat /\ Occurrences(mailbox, i) \in Nat
  BY <1>0, Places, Zenon
<1>3. CASE i = j
  <2>1. /\ channel'[i[2]] = Tail(channel[i[2]]) /\ channel[i[2]] \in Seq(Item)
        /\ channel[i[2]] # <<>> /\ Head(channel[i[2]]) = i
    BY <1>0, <1>1, <1>3
  <2>2. /\ Tail(channel[i[2]]) \in Seq(Item)
        /\ Occurrences(channel[i[2]], i) = Occurrences(channel'[i[2]], i) + 1
    BY <2>1, OccurrencesTail
  <2>3. Occurrences(channel'[i[2]], i) \in Nat
    BY <2>1, <2>2, OccurrencesType, Zenon
  <2>4. Within(spawned, i) = 0
    BY <1>0, <2>2, <2>3, NextIsFree DEF NextPlaceIsFree
  <2>5. Within(spawned', i) = 1
    BY <1>1, <1>3 DEF Within
  <2>6. Total(i)' = Total(i)
    BY <1>1, <1>2, <2>2, <2>3, <2>4, <2>5, WithinType DEF Total, OnItsWay, Settled
  <2> QED
    BY <1>1, <2>6, SameCause
<1>4. CASE i # j
  <2>1. Within(spawned', i) = Within(spawned, i)
    BY <1>1, <1>4 DEF Within
  <2>2. Occurrences(channel'[i[2]], i) = Occurrences(channel[i[2]], i)
    <3>1. CASE i[2] = c
      <4>1. /\ channel'[i[2]] = Tail(channel[i[2]]) /\ channel[i[2]] \in Seq(Item)
            /\ channel[i[2]] # <<>> /\ Head(channel[i[2]]) # i
        BY <1>0, <1>1, <1>4, <3>1
      <4>2. Tail(channel[i[2]]) \in Seq(Item)
        BY <4>1
      <4>3. Occurrences(channel'[i[2]], i) \in Nat
        BY <4>1, <4>2, OccurrencesType, Zenon
      <4> QED
        BY <1>2, <4>1, <4>3, OccurrencesTail
    <3>2. CASE i[2] # c
      BY <1>0, <1>1, <3>2
    <3> QED
      BY <3>1, <3>2
  <2>3. Total(i)' = Total(i)
    BY <1>1, <2>1, <2>2, Zenon DEF Total, OnItsWay, Settled
  <2> QED
    BY <1>1, <2>3, SameCause
<1> QED
  BY <1>3, <1>4

LEMMA PostAccounted ==
    ASSUME PipelineInv, NEW i \in Item, Accounted(i), NEW j \in Item, post_and_forget(j)
    PROVE  Accounted(i)'
<1>0. TypeOK /\ mailbox \in Seq(Message) /\ j \in Message
  BY DEF PipelineInv, TypeOK, Message
<1>1. /\ j \in spawned /\ mailbox' = Append(mailbox, j) /\ spawned' = spawned \ {j}
      /\ UNCHANGED <<request, channel, usages, report, charged, lost>>
  BY DEF post_and_forget, reporting
<1>2. /\ Occurrences(channel[i[2]], i) \in Nat /\ Occurrences(mailbox, i) \in Nat
      /\ Occurrences(mailbox', i) = Occurrences(mailbox, i) + (IF i = j THEN 1 ELSE 0)
  BY <1>0, <1>1, Places, OccurrencesAppend
<1>3. Occurrences(mailbox', i) + Within(spawned', i)
          = Occurrences(mailbox, i) + Within(spawned, i)
  <2>1. CASE i = j
    BY <1>1, <1>2, <2>1 DEF Within
  <2>2. CASE i # j
    BY <1>1, <1>2, <2>2 DEF Within
  <2> QED
    BY <2>1, <2>2
<1>4. Total(i)' = Total(i)
  <2> DEFINE a == Occurrences(channel[i[2]], i)
             b == Within(spawned, i)
             c == Occurrences(mailbox, i)
             d == Within(usages[StackOf[i[1]]], i)
             e == Within(report[StackOf[i[1]]], i)
             x == Settled(i)
             b2 == Within(spawned', i)
             c2 == Occurrences(mailbox', i)
  <2>1. a \in Nat /\ b \in Nat /\ c \in Nat /\ b2 \in Nat /\ c2 \in Nat /\ c2 + b2 = c + b
    BY <1>2, <1>3, WithinType
  <2>2. Total(i) = a + b + c + d + e + x /\ Total(i)' = a + b2 + c2 + d + e + x
    BY <1>1, Zenon DEF Total, OnItsWay, Settled
  <2> HIDE DEF a, b, c, d, e, x, b2, c2
  <2>3. a + b + c = a + b2 + c2
    BY <2>1
  <2> QED
    BY <2>2, <2>3
<1> QED
  BY <1>1, <1>4, SameCause

LEMMA MailboxAccounted ==
    ASSUME PipelineInv, NEW i \in Item, Accounted(i), mailbox_step
    PROVE  Accounted(i)'
<1> DEFINE s == StackOf[i[1]]
           j == Head(mailbox)
<1>0. /\ TypeOK /\ mailbox \in Seq(Message) /\ mailbox # <<>> /\ s \in Stack
      /\ Tail(mailbox) \in Seq(Message)
      /\ usages \in [Stack -> SUBSET Item]
  BY ItemParts DEF PipelineInv, TypeOK, Message, mailbox_step
<1>1. mailbox' = Tail(mailbox) /\ UNCHANGED <<request, channel, spawned, charged, lost>>
  BY DEF mailbox_step
<1>2. /\ Occurrences(channel[i[2]], i) \in Nat /\ Occurrences(mailbox, i) \in Nat
      /\ Occurrences(mailbox', i) \in Nat
      /\ Occurrences(mailbox, i) = Occurrences(mailbox', i) + (IF j = i THEN 1 ELSE 0)
  BY <1>0, <1>1, Places, OccurrencesType, OccurrencesTail, Zenon
<1>3. CASE j = GetAndResetUsages
  <2>1. report' = usages /\ usages' = Nothing /\ report = Nothing
    BY <1>3, MailboxPipeline DEF mailbox_step, ReplyAndReset
  <2>2. j # i
    BY <1>3, NotAnItem
  <2>3. /\ Within(report'[s], i) = Within(usages[s], i)
        /\ Within(usages'[s], i) = 0 /\ Within(report[s], i) = 0
    BY <1>0, <2>1 DEF Nothing, Within
  <2>4. Total(i)' = Total(i)
    <3> DEFINE a == Occurrences(channel[i[2]], i)
               b == Within(spawned, i)
               c == Occurrences(mailbox, i)
               d == Within(usages[s], i)
               x == Settled(i)
    <3>1. a \in Nat /\ b \in Nat /\ c \in Nat /\ d \in Nat
      BY <1>2, WithinType
    <3>2. Occurrences(mailbox', i) = c
      BY <1>2, <2>2
    <3>3. Total(i) = a + b + c + d + 0 + x /\ Total(i)' = a + b + c + 0 + d + x
      BY <1>1, <2>3, <3>2, Zenon DEF Total, OnItsWay, Settled
    <3> HIDE DEF a, b, c, d, x
    <3>4. a + b + c + d + 0 = a + b + c + 0 + d
      BY <3>1
    <3> QED
      BY <3>3, <3>4
  <2> QED
    BY <1>1, <2>4, SameCause
<1>4. CASE j # GetAndResetUsages
  <2>1. /\ usages' = [usages EXCEPT ![StackOf[j[1]]] = usages[StackOf[j[1]]] \cup {j}]
        /\ report' = report /\ j \in Item
    BY <1>4, MailboxPipeline DEF mailbox_step, RegisterUsage
  <2>2. StackOf[j[1]] \in Stack
    BY <2>1, ItemParts
  <2> HIDE DEF j
  <2>3. Within(usages'[s], i) + Occurrences(mailbox', i)
            = Within(usages[s], i) + Occurrences(mailbox, i)
    <3>1. CASE i = j
      <4>1. Within(usages[s], i) = 0
        BY <1>0, <1>2, <3>1, NextIsFree DEF NextPlaceIsFree
      <4>2. Within(usages'[s], i) = 1
        BY <1>0, <2>1, <3>1 DEF Within
      <4> QED
        BY <1>2, <3>1, <4>1, <4>2
    <3>2. CASE i # j
      <4>1. Within(usages'[s], i) = Within(usages[s], i)
        BY <1>0, <2>1, <2>2, <3>2 DEF Within
      <4> QED
        BY <1>2, <3>2, <4>1
    <3> QED
      BY <3>1, <3>2
  <2>4. Total(i)' = Total(i)
    <3> DEFINE a == Occurrences(channel[i[2]], i)
               b == Within(spawned, i)
               c == Occurrences(mailbox, i)
               d == Within(usages[s], i)
               e == Within(report[s], i)
               x == Settled(i)
               c2 == Occurrences(mailbox', i)
               d2 == Within(usages'[s], i)
    <3>1. /\ a \in Nat /\ b \in Nat /\ c \in Nat /\ d \in Nat /\ c2 \in Nat /\ d2 \in Nat
          /\ d2 + c2 = d + c
      BY <1>2, <2>3, WithinType, Zenon
    <3>2. Total(i) = a + b + c + d + e + x /\ Total(i)' = a + b + c2 + d2 + e + x
      BY <1>1, <2>1, Zenon DEF Total, OnItsWay, Settled
    <3> HIDE DEF a, b, c, d, e, x, c2, d2
    <3>3. a + b + c + d = a + b + c2 + d2
      BY <3>1
    <3> QED
      BY <3>2, <3>3
  <2> QED
    BY <1>1, <2>4, SameCause
<1> QED
  BY <1>3, <1>4

LEMMA AskAccounted ==
    ASSUME PipelineInv, NEW i \in Item, Accounted(i), get_and_reset_usages
    PROVE  Accounted(i)'
<1>0. TypeOK /\ mailbox \in Seq(Message) /\ GetAndResetUsages \in Message
  BY DEF PipelineInv, TypeOK, Message
<1>1. /\ mailbox' = Append(mailbox, GetAndResetUsages)
      /\ UNCHANGED <<request, channel, spawned, usages, report, charged, lost>>
  BY DEF get_and_reset_usages
<1>2. Occurrences(mailbox', i) = Occurrences(mailbox, i)
  <2>1. Occurrences(mailbox, i) \in Nat /\ i # GetAndResetUsages
    BY <1>0, Places, NotAnItem, Zenon
  <2> QED
    BY <1>0, <1>1, <2>1, OccurrencesAppend
<1>3. Total(i)' = Total(i)
  BY <1>1, <1>2, Zenon DEF Total, OnItsWay, Settled
<1> QED
  BY <1>1, <1>3, SameCause

\* The part of an item's way that a report is about.
LEMMA ReportMoves ==
    ASSUME TypeOK, NEW i \in Item, Accounted(i), NEW s, s = StackOf[i[1]],
           UNCHANGED <<request, channel, spawned, mailbox, usages>>,
           Within(report'[s], i) + (Within(charged'[s], i) + Within(lost', i))
               = Within(report[s], i) + (Within(charged[s], i) + Within(lost, i))
    PROVE  Accounted(i)'
<1> DEFINE a == Occurrences(channel[i[2]], i) + Within(spawned, i)
                + Occurrences(mailbox, i) + Within(usages[s], i)
           e == Within(report[s], i)
           x == Within(charged[s], i) + Within(lost, i)
           e2 == Within(report'[s], i)
           x2 == Within(charged'[s], i) + Within(lost', i)
<1>1. Occurrences(channel[i[2]], i) \in Nat /\ Occurrences(mailbox, i) \in Nat
  BY Places, Zenon
<1>2. a \in Nat /\ e \in Nat /\ x \in Nat /\ e2 \in Nat /\ x2 \in Nat
  BY <1>1, WithinType
<1>3. Total(i) = a + e + x /\ Total(i)' = a + e2 + x2
  BY Zenon DEF Total, OnItsWay, Settled
<1>4. e2 + x2 = e + x
  BY Zenon
<1> HIDE DEF a, e, x, e2, x2
<1>5. Total(i)' = Total(i)
  BY <1>2, <1>3, <1>4
<1> QED
  BY <1>5, SameCause

LEMMA ReportedIsUnsettled ==
    ASSUME TypeOK, NEW i \in Item, Accounted(i), NEW s, s = StackOf[i[1]],
           Within(report[s], i) = 1
    PROVE  Within(charged[s], i) = 0 /\ Within(lost, i) = 0
BY NextIsFree DEF NextPlaceIsFree

LEMMA ReportFailsAccounted ==
    ASSUME PipelineInv, NEW i \in Item, Accounted(i), ReportFails
    PROVE  Accounted(i)'
<1> DEFINE s == StackOf[i[1]]
<1>0. TypeOK /\ (\A t \in Stack : OwnItem(report[t], t)) /\ s \in Stack
  BY ItemParts DEF PipelineInv
<1>1. /\ lost' = lost \cup UNION {report[t] : t \in Stack} /\ report' = Nothing
      /\ UNCHANGED <<request, channel, spawned, mailbox, usages, charged>>
  BY DEF ReportFails, pipeline
<1>2. Within(report'[s], i) = 0 /\ Within(charged'[s], i) = Within(charged[s], i)
  BY <1>0, <1>1 DEF Nothing, Within
<1>3. i \in UNION {report[t] : t \in Stack} <=> i \in report[s]
  BY <1>0 DEF OwnItem
<1>4. CASE i \in report[s]
  <2>1. Within(report[s], i) = 1 /\ Within(lost', i) = 1
    BY <1>1, <1>3, <1>4 DEF Within
  <2>2. Within(charged[s], i) = 0 /\ Within(lost, i) = 0
    BY <1>0, <2>1, ReportedIsUnsettled
  <2>3. Within(report'[s], i) + (Within(charged'[s], i) + Within(lost', i))
            = Within(report[s], i) + (Within(charged[s], i) + Within(lost, i))
    BY <1>2, <2>1, <2>2
  <2> QED
    BY <1>0, <1>1, <2>3, ReportMoves, Zenon
<1>5. CASE i \notin report[s]
  <2>1. Within(report[s], i) = 0 /\ Within(lost', i) = Within(lost, i)
    BY <1>1, <1>3, <1>5 DEF Within
  <2> QED
    BY <1>0, <1>1, <1>2, <2>1, ReportMoves, Zenon
<1> QED
  BY <1>4, <1>5

LEMMA ReportUsageAccounted ==
    ASSUME PipelineInv, NEW i \in Item, Accounted(i), NEW t \in Stack, report_usage(t)
    PROVE  Accounted(i)'
<1> DEFINE s == StackOf[i[1]]
<1>0. /\ TypeOK /\ OwnItem(report[t], t) /\ s \in Stack
      /\ report \in [Stack -> SUBSET Item] /\ charged \in [Stack -> SUBSET Item]
  BY ItemParts DEF PipelineInv, TypeOK
<1>1. /\ report' = [report EXCEPT ![t] = {}]
      /\ \/ /\ charged' = [charged EXCEPT ![t] = charged[t] \cup report[t]]
            /\ lost' = lost
         \/ lost' = lost \cup report[t] /\ charged' = charged
      /\ UNCHANGED <<request, channel, spawned, mailbox, usages>>
  BY DEF report_usage, pipeline
<1>2. CASE i \in report[t]
  <2>1. t = s
    BY <1>0, <1>2 DEF OwnItem
  <2>2. Within(report[s], i) = 1
    BY <1>2, <2>1 DEF Within
  <2>3. Within(charged[s], i) = 0 /\ Within(lost, i) = 0
    BY <1>0, <2>2, ReportedIsUnsettled
  <2>4. Within(report'[s], i) = 0
    BY <1>0, <1>1, <2>1 DEF Within
  <2>5. Within(charged'[s], i) + Within(lost', i) = 1
    BY <1>0, <1>1, <1>2, <2>1, <2>3 DEF Within
  <2>6. Within(report'[s], i) + (Within(charged'[s], i) + Within(lost', i))
            = Within(report[s], i) + (Within(charged[s], i) + Within(lost, i))
    BY <2>2, <2>3, <2>4, <2>5
  <2> QED
    BY <1>0, <1>1, <2>6, ReportMoves, Zenon
<1>3. CASE i \notin report[t]
  <2>1. /\ Within(report'[s], i) = Within(report[s], i)
        /\ Within(charged'[s], i) = Within(charged[s], i)
        /\ Within(lost', i) = Within(lost, i)
    BY <1>0, <1>1, <1>3 DEF Within
  <2> QED
    BY <1>0, <1>1, <2>1, ReportMoves, Zenon
<1> QED
  BY <1>2, <1>3

LEMMA StageAccounted ==
    ASSUME PipelineInv, NEW i \in Item, Accounted(i),
           Cancel \/ StopRuntime \/ StopGateway \/ Exit \/ Crash
    PROVE  Accounted(i)'
<1>0. TypeOK /\ i[1] \in Request
  BY ItemParts DEF PipelineInv
<1>1. UNCHANGED <<channel, spawned, mailbox, usages, report, charged, lost>>
  BY DEF Cancel, StopRuntime, StopGateway, Exit, Crash, StageEnds, pipeline, reporting
<1>2. Total(i)' = Total(i)
  BY <1>1, SamePlaces
<1>3. CASE Exit
  <2>1. request'[i[1]] = IF request[i[1]] \in {"new", "done"} THEN request[i[1]] ELSE "given_up"
    BY <1>0, <1>3 DEF Exit, Finished
  <2>2. (Caused(i) => Caused(i)') /\ (i[2] = "gateway" /\ Caused(i)' => Caused(i))
    BY <2>1 DEF Caused
  <2> QED
    BY <1>2, <2>2, Kept
<1>4. CASE Cancel \/ StopRuntime \/ StopGateway \/ Crash
  <2>1. UNCHANGED request
    BY <1>4 DEF Cancel, StopRuntime, StopGateway, Crash, StageEnds
  <2> QED
    BY <1>2, <2>1, SameCause
<1> QED
  BY <1>3, <1>4

LEMMA AccountedStep ==
    ASSUME PipelineInv, NEW i \in Item, Accounted(i), [Next]_vars
    PROVE  Accounted(i)'
<1>1. CASE UNCHANGED vars \/ ReportEnds
  <2>1. UNCHANGED <<request, channel, spawned, mailbox, usages, report, charged, lost>>
    BY <1>1 DEF vars, pipeline, reporting, ReportEnds
  <2> QED
    BY <2>1, SamePlaces, SameCause
<1>2. CASE Tick \/ StopMonitor
  BY <1>2, AskAccounted DEF Tick, StopMonitor
<1> QED
  BY <1>1, <1>2, RequestAccounted, NotificationAccounted, PostAccounted,
     MailboxAccounted, ReportFailsAccounted, ReportUsageAccounted, StageAccounted
  DEF Next, Shutdown

\* Whatever overtakes what between the gateway, the runtime, the aggregator and the
\* monitor, wherever the shutdown or a crash cuts in and whichever reports fail, an
\* item of usage is in exactly one place from the moment its request caused it, and
\* is charged at most once, to its own stack.
THEOREM EveryItemIsAccountedFor == Spec => []UsageIsAccountedFor
<1> DEFINE AllAccounted == \A i \in Item : Accounted(i)
<1>1. Init => PipelineInv /\ AllAccounted
  BY PipelineInit, AccountedInit
<1>2. PipelineInv /\ AllAccounted /\ [Next]_vars => (PipelineInv /\ AllAccounted)'
  <2> SUFFICES ASSUME PipelineInv, AllAccounted, [Next]_vars
               PROVE  PipelineInv' /\ \A i \in Item : Accounted(i)'
    OBVIOUS
  <2> QED
    BY PipelineStep, AccountedStep
<1>3. AllAccounted => UsageIsAccountedFor
  BY DEF Accounted, Total, UsageIsAccountedFor
<1> HIDE DEF AllAccounted
<1> QED
  BY <1>1, <1>2, <1>3, PTL DEF Spec

\* Type correctness of the pipeline.
THEOREM TypeCorrect == Spec => []TypeOK
<1>1. PipelineInv /\ [Next]_vars => PipelineInv'
  BY PipelineStep
<1>2. PipelineInv => TypeOK
  BY DEF PipelineInv
<1> QED
  BY PipelineInit, <1>1, <1>2, PTL DEF Spec
=============================================================================
