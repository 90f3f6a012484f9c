---------------------- MODULE BlockchainMonitorProofs ----------------------
(***************************************************************************)
(* For any number of owners, stacks and signers, of transactions and of    *)
(* failures: the collection of stacks stays consistent, the scheduler is   *)
(* told of the stacks of active owners, and what the monitor knows of the  *)
(* stacks, the owners and the signers is what is on chain, but for the     *)
(* updates that are on their way or were lost.                             *)
(***************************************************************************)
EXTENDS BlockchainMonitor, TLAPS

(***************************************************************************)
(* What each operation makes of the fields of a collection, and that it    *)
(* keeps the collection consistent.                                        *)
(***************************************************************************)

\* The indexes of a collection agree, and its fields have their types.
Typed(st, ow, active, inactive) ==
    /\ st \in [Stack -> {0} \cup Revision] /\ ow \in [Owner -> OwnerData]
    /\ active \in SUBSET Owner /\ inactive \in SUBSET Owner

Agree(st, ow, active, inactive) ==
    /\ \A s \in Stack : st[s] # 0 <=> s \in ow[OwnerOf[s]].stacks
    /\ \A o \in Owner : \A s \in ow[o].stacks : OwnerOf[s] = o
    /\ \A o \in Owner : ow[o].state = "Vacant" <=> ow[o].stacks = {}
    /\ \A o \in Owner : ow[o].state = "Active" => o \in active
    /\ \A o \in Owner : ow[o].state = "Inactive" => o \in inactive

Good(c) ==
    /\ c = [stacks |-> c.stacks, owners |-> c.owners, active_owners |-> c.active_owners,
            inactive_owners |-> c.inactive_owners]
    /\ Typed(c.stacks, c.owners, c.active_owners, c.inactive_owners)
    /\ Agree(c.stacks, c.owners, c.active_owners, c.inactive_owners)

LEMMA GoodIsConsistent == ASSUME NEW c, Good(c) PROVE Consistent(c)
<1>1. \A o \in owners(c) : c.owners[o].state \in {"Active", "Inactive"}
  BY DEF owners, OwnerData, OwnerState, Good, Typed
<1> QED BY <1>1 DEF Good, Agree, Consistent, owners

LEMMA GoodFields ==
    ASSUME NEW st, NEW ow, NEW active, NEW inactive,
           Typed(st, ow, active, inactive), Agree(st, ow, active, inactive)
    PROVE  Good([stacks |-> st, owners |-> ow, active_owners |-> active,
                 inactive_owners |-> inactive])
BY DEF Good

LEMMA NewGood == Good(new)
<1> DEFINE st == [s \in Stack |-> 0]
           ow == [o \in Owner |-> NoOwner]
<1>1. Typed(st, ow, {}, {}) /\ Agree(st, ow, {}, {})
  BY OwnerOfAssumption DEF NoOwner, OwnerData, Typed, Agree
<1> QED BY <1>1, GoodFields DEF new

LEMMA FromKnownGood ==
    ASSUME NEW known \in [Stack -> {0} \cup Revision], NEW state \in [Owner -> OwnerState]
    PROVE  Good(from_known(known, state))
<1> DEFINE of(o) == {s \in Stack : OwnerOf[s] = o /\ known[s] # 0}
           found == {o \in Owner : of(o) # {}}
           ow == [o \in Owner |-> IF o \in found THEN [state |-> state[o], stacks |-> of(o)]
                                  ELSE NoOwner]
           active == {o \in found : state[o] = "Active"}
           inactive == {o \in found : state[o] = "Inactive"}
<1>1. from_known(known, state) = [stacks |-> known, owners |-> ow, active_owners |-> active,
                                  inactive_owners |-> inactive]
  BY DEF from_known
<1>2. \A o \in Owner : ow[o].stacks = of(o)
  BY DEF NoOwner
<1>3. \A o \in Owner : ow[o].state = IF o \in found THEN state[o] ELSE "Vacant"
  BY DEF NoOwner
<1>4. ow \in [Owner -> OwnerData]
  BY DEF NoOwner, OwnerData
<1>5. \A s \in Stack : OwnerOf[s] \in Owner
  BY OwnerOfAssumption
<1>6. \A o \in Owner : state[o] \in {"Active", "Inactive"}
  BY DEF OwnerState
<1>7. Typed(known, ow, active, inactive)
  BY <1>4 DEF Typed
<1> HIDE DEF ow
<1>8. Agree(known, ow, active, inactive)
  BY <1>2, <1>3, <1>5, <1>6 DEF Agree
<1> HIDE DEF active, inactive
<1> QED BY <1>1, <1>7, <1>8, GoodFields

\* make_active and make_inactive change nothing but the owner's state.
LEMMA FromKnownState ==
    ASSUME NEW known, NEW state, NEW o \in Owner, NEW d, d = from_known(known, state),
           d.owners[o].state # "Vacant"
    PROVE  d.owners[o].state = state[o]
<1> DEFINE of == {s \in Stack : OwnerOf[s] = o /\ known[s] # 0}
<1>1. d.owners[o] = IF of # {} THEN [state |-> state[o], stacks |-> of] ELSE NoOwner
  BY DEF from_known
<1> QED BY <1>1 DEF NoOwner

LEMMA MakeGood ==
    ASSUME NEW c, Good(c), NEW o \in Owner, NEW state \in OwnerState,
           NEW d, d = IF state = "Active" THEN make_active(c, o) ELSE make_inactive(c, o)
    PROVE  /\ Good(d) /\ d.stacks = c.stacks
           /\ \A p \in Owner \ {o} : d.owners[p] = c.owners[p]
           /\ c.owners[o].state = "Vacant" => d = c
           /\ c.owners[o].state # "Vacant" => d.owners[o].state = state
<1>0. state \in {"Active", "Inactive"} /\ c.owners[o].state \in {"Active", "Inactive", "Vacant"}
  BY DEF OwnerState, OwnerData, Good, Typed
<1>1. CASE c.owners[o].state \in {"Vacant", state}
  BY <1>0, <1>1 DEF make_active, make_inactive
<1>2. CASE c.owners[o].state \notin {"Vacant", state}
  <2> DEFINE ow == [c.owners EXCEPT ![o] = [c.owners[o] EXCEPT !.state = state]]
             active == IF state = "Active" THEN c.active_owners \cup {o} ELSE c.active_owners \ {o}
             inactive == IF state = "Active" THEN c.inactive_owners \ {o}
                                             ELSE c.inactive_owners \cup {o}
  <2>1. /\ d.stacks = c.stacks /\ d.owners = ow
        /\ d.active_owners = active /\ d.inactive_owners = inactive
    BY <1>0, <1>2 DEF make_active, make_inactive, Good
  <2>2. d = [stacks |-> d.stacks, owners |-> d.owners, active_owners |-> d.active_owners,
             inactive_owners |-> d.inactive_owners]
    BY <1>0, <1>2, Zenon DEF make_active, make_inactive, Good
  <2>3. /\ \A p \in Owner \ {o} : ow[p] = c.owners[p]
        /\ ow[o].state = state /\ ow[o].stacks = c.owners[o].stacks
    BY DEF Good, Typed, OwnerData
  <2>4. Typed(c.stacks, ow, active, inactive)
    BY DEF Good, Typed, OwnerData
  <2>5. \A p \in Owner : ow[p].stacks = c.owners[p].stacks
    BY <2>3
  <2>6. /\ \A p \in Owner : ow[p].state = "Active" => p \in active
        /\ \A p \in Owner : ow[p].state = "Inactive" => p \in inactive
    BY <1>0, <2>3 DEF Good, Agree
  <2>7. \A p \in Owner : ow[p].state = "Vacant" <=> ow[p].stacks = {}
    <3> SUFFICES ASSUME NEW p \in Owner PROVE ow[p].state = "Vacant" <=> ow[p].stacks = {}
      OBVIOUS
    <3> HIDE DEF ow
    <3>1. CASE p = o
      BY <1>0, <1>2, <2>3, <3>1 DEF Good, Agree
    <3>2. CASE p # o
      BY <2>3, <3>2 DEF Good, Agree
    <3> QED BY <3>1, <3>2
  <2> HIDE DEF ow, active, inactive
  <2>8. Agree(c.stacks, ow, active, inactive)
    BY <2>5, <2>6, <2>7, OwnerOfAssumption DEF Good, Agree
  <2>9. Good(d)
    BY <2>1, <2>2, <2>4, <2>8 DEF Good
  <2> QED BY <1>2, <2>1, <2>3, <2>9
<1> QED BY <1>1, <1>2

\* What a collection becomes, as one fact.
Switched(c, o, state, d) ==
    /\ Good(d) /\ d.stacks = c.stacks
    /\ \A p \in Owner \ {o} : d.owners[p] = c.owners[p]
    /\ c.owners[o].state = "Vacant" => d = c
    /\ c.owners[o].state # "Vacant" => d.owners[o].state = state

LEMMA MakeSwitches ==
    ASSUME NEW c, Good(c), NEW o \in Owner, NEW state \in OwnerState,
           NEW d, d = IF state = "Active" THEN make_active(c, o) ELSE make_inactive(c, o)
    PROVE  Switched(c, o, state, d)
BY MakeGood DEF Switched

\* A stack of an owner, known or new, is added with a revision that is news.
LEMMA AddGood ==
    ASSUME NEW c, Good(c), NEW s \in Stack, NEW r \in Revision, IsNews(c, s, r),
           NEW state \in OwnerState, NEW active \in SUBSET Owner, NEW inactive \in SUBSET Owner,
           c.active_owners \subseteq active, c.inactive_owners \subseteq inactive,
           state = "Active" => OwnerOf[s] \in active,
           state = "Inactive" => OwnerOf[s] \in inactive,
           NEW d,
           d = [stacks |-> [c.stacks EXCEPT ![s] = r],
                owners |-> [c.owners EXCEPT ![OwnerOf[s]] =
                               [state |-> state, stacks |-> c.owners[OwnerOf[s]].stacks \cup {s}]],
                active_owners |-> active, inactive_owners |-> inactive]
    PROVE  Good(d)
<1> DEFINE o == OwnerOf[s]
           st == [c.stacks EXCEPT ![s] = r]
           ow == [c.owners EXCEPT ![o] = [state |-> state, stacks |-> c.owners[o].stacks \cup {s}]]
<1>1. o \in Owner /\ r # 0 /\ state \in {"Active", "Inactive"}
  BY OwnerOfAssumption, RevisionAssumption DEF Revision, OwnerState
<1>2. /\ \A p \in Owner \ {o} : ow[p] = c.owners[p]
      /\ ow[o].state = state /\ ow[o].stacks = c.owners[o].stacks \cup {s}
  BY <1>1 DEF Good, Typed
<1>3. st[s] = r /\ \A t \in Stack \ {s} : st[t] = c.stacks[t]
  BY DEF Good, Typed
<1>4. Typed(st, ow, active, inactive)
  BY <1>1 DEF Good, Typed, OwnerData
<1> HIDE DEF st, ow
<1>5. \A t \in Stack : st[t] # 0 <=> t \in ow[OwnerOf[t]].stacks
  BY <1>1, <1>2, <1>3, OwnerOfAssumption DEF Good, Agree
<1>6. \A p \in Owner : \A t \in ow[p].stacks : OwnerOf[t] = p
  BY <1>1, <1>2 DEF Good, Agree
<1>7. ASSUME NEW p \in Owner PROVE ow[p].state = "Vacant" <=> ow[p].stacks = {}
  <2>1. CASE p = o
    BY <1>1, <1>2, <2>1
  <2>2. CASE p # o
    BY <1>2, <2>2 DEF Good, Agree
  <2> QED BY <2>1, <2>2
<1>8. /\ \A p \in Owner : ow[p].state = "Active" => p \in active
      /\ \A p \in Owner : ow[p].state = "Inactive" => p \in inactive
  BY <1>1, <1>2 DEF Good, Agree
<1>9. Agree(st, ow, active, inactive)
  BY <1>5, <1>6, <1>7, <1>8 DEF Agree
<1> QED BY <1>4, <1>9, GoodFields DEF st, ow

LEMMA AddStackFields ==
    ASSUME NEW c, NEW s, NEW r, IsNews(c, s, r), NEW d, d = add_stack(c, s, r),
           c = [stacks |-> c.stacks, owners |-> c.owners, active_owners |-> c.active_owners,
                inactive_owners |-> c.inactive_owners]
    PROVE  /\ d.stacks = [c.stacks EXCEPT ![s] = r]
           /\ d.owners = [c.owners EXCEPT ![OwnerOf[s]] =
                  [c.owners[OwnerOf[s]] EXCEPT !.stacks = c.owners[OwnerOf[s]].stacks \cup {s}]]
           /\ d.active_owners = c.active_owners /\ d.inactive_owners = c.inactive_owners
           /\ d = [stacks |-> d.stacks, owners |-> d.owners, active_owners |-> d.active_owners,
                   inactive_owners |-> d.inactive_owners]
BY Zenon DEF add_stack

LEMMA AddStackGood ==
    ASSUME NEW c, Good(c), NEW s \in Stack, NEW r \in Revision, OwnerOf[s] \in owners(c),
           NEW d, d = add_stack(c, s, r)
    PROVE  /\ Good(d)
           /\ d.stacks = IF IsNews(c, s, r) THEN [c.stacks EXCEPT ![s] = r] ELSE c.stacks
           /\ \A p \in Owner : d.owners[p].state = c.owners[p].state
<1> DEFINE o == OwnerOf[s]
<1>1. o \in Owner /\ c.owners[o].state \in OwnerState
  BY DEF owners, Good, Typed, OwnerData
<1>2. CASE ~IsNews(c, s, r)
  BY <1>2 DEF add_stack
<1>3. CASE IsNews(c, s, r)
  <2> DEFINE ow == [c.owners EXCEPT ![o] = [c.owners[o] EXCEPT !.stacks = c.owners[o].stacks \cup {s}]]
  <2>1. /\ d.stacks = [c.stacks EXCEPT ![s] = r] /\ d.owners = ow
        /\ d.active_owners = c.active_owners /\ d.inactive_owners = c.inactive_owners
        /\ d = [stacks |-> d.stacks, owners |-> d.owners, active_owners |-> d.active_owners,
                inactive_owners |-> d.inactive_owners]
    BY <1>3, AddStackFields DEF Good
  <2>2. ow = [c.owners EXCEPT ![o] = [state |-> c.owners[o].state,
                                      stacks |-> c.owners[o].stacks \cup {s}]]
    <3> DEFINE e == c.owners[o]
    <3>1. e \in OwnerData
      BY <1>1 DEF Good, Typed
    <3> HIDE DEF e
    <3>2. [e EXCEPT !.stacks = e.stacks \cup {s}] = [state |-> e.state, stacks |-> e.stacks \cup {s}]
      BY <3>1 DEF OwnerData
    <3> QED BY <3>2 DEF e
  <2>3. \A p \in Owner : ow[p].state = c.owners[p].state
    BY <1>1, <2>2 DEF Good, Typed
  <2>4. /\ c.owners[o].state = "Active" => o \in c.active_owners
        /\ c.owners[o].state = "Inactive" => o \in c.inactive_owners
        /\ c.active_owners \in SUBSET Owner /\ c.inactive_owners \in SUBSET Owner
    BY <1>1 DEF Good, Typed, Agree
  <2> HIDE DEF ow
  <2>5. d = [stacks |-> [c.stacks EXCEPT ![s] = r],
             owners |-> [c.owners EXCEPT ![o] = [state |-> c.owners[o].state,
                                                 stacks |-> c.owners[o].stacks \cup {s}]],
             active_owners |-> c.active_owners, inactive_owners |-> c.inactive_owners]
    BY <2>1, <2>2
  <2>6. Good(d)
    BY <1>1, <1>3, <2>4, <2>5, AddGood, Zenon
  <2> QED BY <1>3, <2>1, <2>3, <2>6
<1> QED BY <1>2, <1>3

Added(c, s, r, d) ==
    /\ Good(d)
    /\ d.stacks = IF IsNews(c, s, r) THEN [c.stacks EXCEPT ![s] = r] ELSE c.stacks
    /\ \A p \in Owner : d.owners[p].state = c.owners[p].state

LEMMA AddStackAdds ==
    ASSUME NEW c, Good(c), NEW s \in Stack, NEW r \in Revision, OwnerOf[s] \in owners(c),
           NEW d, d = add_stack(c, s, r)
    PROVE  Added(c, s, r, d)
BY AddStackGood DEF Added

LEMMA InsertFirstGood ==
    ASSUME NEW c, Good(c), NEW s \in Stack, NEW r \in Revision, OwnerOf[s] \notin owners(c),
           NEW state \in OwnerState, NEW d, d = insert_first(c, state, s, r)
    PROVE  /\ Good(d)
           /\ d.stacks = [c.stacks EXCEPT ![s] = r]
           /\ d.owners[OwnerOf[s]].state = state
           /\ \A p \in Owner \ {OwnerOf[s]} : d.owners[p].state = c.owners[p].state
           /\ \A t \in Stack \ {s} : OwnerOf[t] = OwnerOf[s] => c.stacks[t] = 0
<1> DEFINE o == OwnerOf[s]
           b == [c EXCEPT !.owners[o] = [state |-> state, stacks |-> {}]]
           i == Indexed(b, o, state)
           active == IF state = "Active" THEN c.active_owners \cup {o} ELSE c.active_owners
           inactive == IF state = "Active" THEN c.inactive_owners ELSE c.inactive_owners \cup {o}
           new1 == [state |-> state, stacks |-> {}]
           new2 == [state |-> state, stacks |-> {} \cup {s}]
<1>1. o \in Owner /\ state \in {"Active", "Inactive"}
  BY OwnerOfAssumption DEF OwnerState
<1>2. c.owners[o].stacks = {} /\ \A t \in Stack : OwnerOf[t] = o => c.stacks[t] = 0
  BY <1>1 DEF owners, Good, Agree
<1>3. 0 < r /\ c.stacks[s] = 0
  BY <1>2, RevisionAssumption DEF Revision
<1>4. b = [stacks |-> c.stacks, owners |-> [c.owners EXCEPT ![o] = new1],
           active_owners |-> c.active_owners, inactive_owners |-> c.inactive_owners]
  BY DEF Good
<1>5. i = [stacks |-> c.stacks, owners |-> [c.owners EXCEPT ![o] = new1],
           active_owners |-> active, inactive_owners |-> inactive]
  BY <1>1, <1>4, Zenon DEF Indexed
<1>6. d = add_stack(i, s, r)
  BY DEF insert_first
<1>7. [c.owners EXCEPT ![o] = new1][o] = new1
  BY <1>1 DEF Good, Typed
<1> HIDE DEF b, i, active, inactive
<1>8. /\ d.stacks = [c.stacks EXCEPT ![s] = r]
      /\ d.owners = [[c.owners EXCEPT ![o] = new1] EXCEPT ![o] = [new1 EXCEPT !.stacks = {} \cup {s}]]
      /\ d.active_owners = active /\ d.inactive_owners = inactive
      /\ d = [stacks |-> d.stacks, owners |-> d.owners, active_owners |-> d.active_owners,
              inactive_owners |-> d.inactive_owners]
  <2>1. /\ i.stacks = c.stacks /\ i.owners = [c.owners EXCEPT ![o] = new1]
        /\ i.active_owners = active /\ i.inactive_owners = inactive
        /\ i.owners[o] = new1 /\ new1.stacks = {}
    BY <1>5, <1>7
  <2>2. IsNews(i, s, r)
    BY <1>3, <2>1 DEF IsNews
  <2>3. i = [stacks |-> i.stacks, owners |-> i.owners, active_owners |-> i.active_owners,
             inactive_owners |-> i.inactive_owners]
    BY <1>5, <2>1
  <2>4. /\ d.stacks = [i.stacks EXCEPT ![s] = r]
        /\ d.owners = [i.owners EXCEPT ![o] = [i.owners[o] EXCEPT !.stacks = i.owners[o].stacks \cup {s}]]
        /\ d.active_owners = i.active_owners /\ d.inactive_owners = i.inactive_owners
        /\ d = [stacks |-> d.stacks, owners |-> d.owners, active_owners |-> d.active_owners,
                inactive_owners |-> d.inactive_owners]
    BY ONLY <1>6, <2>2, <2>3, AddStackFields
  <2> HIDE DEF new1
  <2> QED BY <2>1, <2>4
<1>9. [new1 EXCEPT !.stacks = {} \cup {s}] = new2
  OBVIOUS
<1> HIDE DEF new1
<1>10. d.owners = [c.owners EXCEPT ![o] = new2]
  BY <1>1, <1>8, <1>9 DEF Good, Typed
<1>11. d = [stacks |-> [c.stacks EXCEPT ![s] = r],
            owners |-> [c.owners EXCEPT ![o] = [state |-> state,
                                                stacks |-> c.owners[o].stacks \cup {s}]],
            active_owners |-> active, inactive_owners |-> inactive]
  BY <1>2, <1>8, <1>10
<1>12. /\ active \in SUBSET Owner /\ inactive \in SUBSET Owner
       /\ c.active_owners \subseteq active /\ c.inactive_owners \subseteq inactive
       /\ state = "Active" => o \in active
       /\ state = "Inactive" => o \in inactive
  BY <1>1 DEF Good, Typed, active, inactive
<1>13. Good(d)
  BY <1>3, <1>11, <1>12, AddGood, Zenon DEF IsNews
<1>14. d.owners[o].state = state
  BY <1>1, <1>10 DEF Good, Typed
<1> QED BY <1>2, <1>8, <1>10, <1>13, <1>14 DEF Good, Typed

Begun(c, state, s, r, d) ==
    /\ Good(d)
    /\ d.stacks = [c.stacks EXCEPT ![s] = r]
    /\ d.owners[OwnerOf[s]].state = state
    /\ \A p \in Owner \ {OwnerOf[s]} : d.owners[p].state = c.owners[p].state

LEMMA InsertFirstBegins ==
    ASSUME NEW c, Good(c), NEW s \in Stack, NEW r \in Revision, OwnerOf[s] \notin owners(c),
           NEW state \in OwnerState, NEW d, d = insert_first(c, state, s, r)
    PROVE  Begun(c, state, s, r, d)
BY InsertFirstGood DEF Begun

LEMMA RemoveStackFields ==
    ASSUME NEW c, NEW s, NEW left, NEW d,
           d = [c EXCEPT !.stacks[s] = 0, !.owners[OwnerOf[s]] = left],
           c = [stacks |-> c.stacks, owners |-> c.owners, active_owners |-> c.active_owners,
                inactive_owners |-> c.inactive_owners]
    PROVE  /\ d.stacks = [c.stacks EXCEPT ![s] = 0]
           /\ d.owners = [c.owners EXCEPT ![OwnerOf[s]] = left]
           /\ d.active_owners = c.active_owners /\ d.inactive_owners = c.inactive_owners
           /\ d = [stacks |-> d.stacks, owners |-> d.owners, active_owners |-> d.active_owners,
                   inactive_owners |-> d.inactive_owners]
BY Zenon

LEMMA RemoveStackGood ==
    ASSUME NEW c, Good(c), NEW s \in Stack, NEW d, d = remove_stack(c, s)
    PROVE  /\ Good(d)
           /\ d.stacks = [c.stacks EXCEPT ![s] = 0]
           /\ \A p \in Owner : d.owners[p].state \in {c.owners[p].state, "Vacant"}
<1> DEFINE o == OwnerOf[s]
           e == c.owners[o]
           left == IF RemovesOwner(c, s) THEN NoOwner ELSE [e EXCEPT !.stacks = e.stacks \ {s}]
           st == [c.stacks EXCEPT ![s] = 0]
           ow == [c.owners EXCEPT ![o] = left]
<1>1. o \in Owner /\ e \in OwnerData
  BY OwnerOfAssumption DEF Good, Typed
<1>2. CASE s \notin e.stacks
  <2>1. c.stacks[s] = 0 /\ d = c
    BY <1>2 DEF remove_stack, Good, Agree
  <2> QED BY <2>1 DEF Good, Typed
<1>3. CASE s \in e.stacks
  <2>1. /\ d.stacks = st /\ d.owners = ow
        /\ d.active_owners = c.active_owners /\ d.inactive_owners = c.inactive_owners
        /\ d = [stacks |-> d.stacks, owners |-> d.owners, active_owners |-> d.active_owners,
                inactive_owners |-> d.inactive_owners]
    <3>1. d = [c EXCEPT !.stacks[s] = 0, !.owners[o] = left]
      <4>1. CASE RemovesOwner(c, s)
        BY <1>3, <4>1 DEF remove_stack
      <4>2. CASE ~RemovesOwner(c, s)
        BY <1>3, <4>2 DEF remove_stack
      <4> QED BY <4>1, <4>2
    <3> HIDE DEF left
    <3> QED BY <3>1, RemoveStackFields, Zenon DEF Good
  <2>2. /\ left \in OwnerData
        /\ left.stacks = e.stacks \ {s}
        /\ left.state = IF e.stacks = {s} THEN "Vacant" ELSE e.state
    <3> HIDE DEF e
    <3>1. RemovesOwner(c, s) <=> e.stacks = {s}
      BY DEF RemovesOwner, e
    <3> QED BY <1>1, <3>1 DEF NoOwner, OwnerData
  <2> HIDE DEF left
  <2>3. Typed(st, ow, c.active_owners, c.inactive_owners)
    BY <1>1, <2>2 DEF Good, Typed
  <2>4. ow[o] = left /\ \A p \in Owner \ {o} : ow[p] = c.owners[p]
    BY <1>1 DEF Good, Typed
  <2>5. st[s] = 0 /\ \A t \in Stack \ {s} : st[t] = c.stacks[t]
    BY DEF Good, Typed
  <2> HIDE DEF st, ow
  <2>6. \A t \in Stack : st[t] # 0 <=> t \in ow[OwnerOf[t]].stacks
    BY <1>1, <2>2, <2>4, <2>5, OwnerOfAssumption DEF Good, Agree
  <2>7. \A p \in Owner : \A t \in ow[p].stacks : OwnerOf[t] = p
    BY <1>1, <2>2, <2>4 DEF Good, Agree
  <2>8. e.state # "Vacant"
    BY <1>1, <1>3 DEF Good, Agree
  <2>9. ASSUME NEW p \in Owner PROVE ow[p].state = "Vacant" <=> ow[p].stacks = {}
    <3>1. CASE p = o
      BY <1>3, <2>2, <2>4, <2>8, <3>1
    <3>2. CASE p # o
      BY <2>4, <3>2 DEF Good, Agree
    <3> QED BY <3>1, <3>2
  <2>10. \A p \in Owner : ow[p].state \in {c.owners[p].state, "Vacant"}
    BY <2>2, <2>4
  <2>11. Agree(st, ow, c.active_owners, c.inactive_owners)
    BY <2>6, <2>7, <2>9, <2>10 DEF Good, Agree
  <2>12. Good(d)
    BY <2>1, <2>3, <2>11 DEF Good
  <2> QED BY <2>1, <2>10, <2>12 DEF st
<1> QED BY <1>2, <1>3

(***************************************************************************)
(* The monitor                                                             *)
(***************************************************************************)

Update == [stack : Stack, revision : {0} \cup Revision]

\* av holds every stack of an active owner in the revision of the collection.
Told(c, av) == \A s \in Stack : entry(c, s) = "Active" => av[s] = c.stacks[s]

Inv ==
    /\ account \in [Stack -> {0} \cup Revision]
    /\ stack_stream \in Seq(Update)
    /\ Good(stacks)
    /\ available \in [Stack -> {0} \cup Revision]
    /\ pc \in {"running", "disconnected"} => Told(stacks, available)

LEMMA InitInv == Init => Inv
<1> SUFFICES ASSUME Init PROVE Inv
  OBVIOUS
<1>1. \A s \in Stack : account[s] \in {0} \cup Revision
  <2>1. \A s \in Stack : account[s] \in {0, 1}
    BY DEF Init
  <2> QED BY <2>1, RevisionAssumption DEF Revision
<1>2. account \in [Stack -> {0} \cup Revision]
  BY <1>1 DEF Init
<1> QED BY <1>2, NewGood DEF Init, Inv

LEMMA States == \A balance : StateFor(balance) \in OwnerState
BY DEF StateFor, OwnerState

LEMMA StackTransactionInv ==
    ASSUME Inv, NEW s \in Stack, NEW r \in {0} \cup Revision, StackChanges(s, r)
    PROVE  Inv'
<1>1. [stack |-> s, revision |-> r] \in Update
  BY DEF Update
<1>2. stack_stream' \in Seq(Update)
  BY <1>1 DEF StackChanges, Inv
<1>3. account' \in [Stack -> {0} \cup Revision]
  BY DEF StackChanges, Inv
<1> QED BY <1>2, <1>3 DEF StackChanges, Inv, monitor

LEMMA FetchInv == ASSUME Inv, FetchExisting PROVE Inv'
<1>1. PICK order : stacks' = from_known(Kept(order), [o \in Owner |-> StateFor(escrow[o])])
  BY DEF FetchExisting
<1>2. Kept(order) \in [Stack -> {0} \cup Revision]
  BY DEF Kept, Inv
<1>3. [o \in Owner |-> StateFor(escrow[o])] \in [Owner -> OwnerState]
  BY States
<1>4. Good(stacks')
  BY <1>1, <1>2, <1>3, FromKnownGood
<1> QED BY <1>4 DEF FetchExisting, Inv, chain, streams

LEMMA SubscribeInv == ASSUME Inv, SubscribeToEscrows PROVE Inv'
<1>1. ASSUME NEW s \in Stack, entry(stacks, s) = "Active"
      PROVE  s \in all_active(stacks)
  <2>1. stacks.stacks[s] # 0 /\ stacks.owners[OwnerOf[s]].state = "Active" /\ OwnerOf[s] \in Owner
    BY <1>1, OwnerOfAssumption DEF entry
  <2>2. s \in stacks.owners[OwnerOf[s]].stacks /\ OwnerOf[s] \in stacks.active_owners
    BY <2>1 DEF Inv, Good, Agree
  <2> QED BY <2>2 DEF all_active
<1>2. available' \in [Stack -> {0} \cup Revision]
  BY DEF SubscribeToEscrows, Inv, Good, Typed
<1>3. Told(stacks, available')
  BY <1>1 DEF SubscribeToEscrows, Told
<1> QED BY <1>2, <1>3 DEF SubscribeToEscrows, Inv, chain, streams

LEMMA UpdateInv == ASSUME Inv, on_new_stack_received PROVE Inv'
<1> DEFINE s == Head(stack_stream).stack
           r == Head(stack_stream).revision
           o == OwnerOf[s]
<1>1. s \in Stack /\ r \in {0} \cup Revision /\ stack_stream' \in Seq(Update)
  <2>1. Head(stack_stream) \in Update /\ Tail(stack_stream) \in Seq(Update)
    BY DEF on_new_stack_received, Inv
  <2> QED BY <2>1 DEF on_new_stack_received, Update
<1>2. pc = "running" /\ pc' = pc /\ account' = account /\ Told(stacks, available)
  BY DEF on_new_stack_received, Inv, chain
<1>3. \/ r = 0 /\ DeletedStack(s)
      \/ r \in Revision /\ (KnownOwnersStack(s, r) \/ NewOwnersStack(s, r) \/ NewOwnersBalanceUnknown(s))
  BY <1>1 DEF on_new_stack_received
<1> HIDE DEF s, r
<1>4. ASSUME Good(stacks'), available' \in [Stack -> {0} \cup Revision], Told(stacks', available')
      PROVE  Inv'
  BY <1>1, <1>2, <1>4 DEF Inv
<1>5. o \in Owner
  BY <1>1, OwnerOfAssumption
<1>6. CASE DeletedStack(s)
  <2>1. /\ Good(stacks')
        /\ stacks'.stacks = [stacks.stacks EXCEPT ![s] = 0]
        /\ \A p \in Owner : stacks'.owners[p].state \in {stacks.owners[p].state, "Vacant"}
    BY <1>1, <1>6, RemoveStackGood, Zenon DEF DeletedStack, Inv
  <2>2. available' \in [Stack -> {0} \cup Revision]
        /\ \A t \in Stack \ {s} : available'[t] = available[t]
    BY <1>6, Zenon DEF DeletedStack, Inv
  <2>3. stacks'.stacks[s] = 0 /\ \A t \in Stack \ {s} : stacks'.stacks[t] = stacks.stacks[t]
    BY <1>1, <2>1 DEF Inv, Good, Typed
  <2>4. Told(stacks', available')
    BY <1>2, <2>1, <2>2, <2>3, OwnerOfAssumption DEF Told, entry
  <2> QED BY <1>4, <2>1, <2>2, <2>4
<1>7. CASE r \in Revision /\ KnownOwnersStack(s, r)
  <2>1. /\ Good(stacks')
        /\ stacks'.stacks = IF IsNews(stacks, s, r) THEN [stacks.stacks EXCEPT ![s] = r]
                                                    ELSE stacks.stacks
        /\ \A p \in Owner : stacks'.owners[p].state = stacks.owners[p].state
    BY <1>1, <1>7, AddStackGood DEF KnownOwnersStack, Inv
  <2>2. available' = IF IsNews(stacks, s, r) THEN [available EXCEPT ![s] = r] ELSE available
    BY <1>7 DEF KnownOwnersStack
  <2>3. CASE ~IsNews(stacks, s, r)
    <3>1. Told(stacks', available')
      BY <1>2, <2>1, <2>2, <2>3, OwnerOfAssumption DEF Told, entry
    <3> QED BY <1>4, <2>1, <2>2, <2>3, <3>1 DEF Inv
  <2>4. CASE IsNews(stacks, s, r)
    <3>1. /\ available' \in [Stack -> {0} \cup Revision]
          /\ available'[s] = r /\ stacks'.stacks[s] = r
          /\ \A t \in Stack \ {s} : /\ available'[t] = available[t]
                                    /\ stacks'.stacks[t] = stacks.stacks[t]
      BY <1>1, <1>7, <2>1, <2>2, <2>4 DEF Inv, Good, Typed
    <3>2. Told(stacks', available')
      BY <1>2, <2>1, <3>1, OwnerOfAssumption DEF Told, entry
    <3> QED BY <1>4, <2>1, <3>1, <3>2
  <2> QED BY <2>3, <2>4
<1>8. CASE r \in Revision /\ NewOwnersStack(s, r)
  <2>1. /\ Good(stacks')
        /\ stacks'.stacks = [stacks.stacks EXCEPT ![s] = r]
        /\ \A p \in Owner \ {o} : stacks'.owners[p].state = stacks.owners[p].state
        /\ \A t \in Stack \ {s} : OwnerOf[t] = o => stacks.stacks[t] = 0
    <3>1. Good(stacks) /\ OwnerOf[s] \notin owners(stacks)
      BY <1>8 DEF NewOwnersStack, Inv
    <3>2. PICK state \in OwnerState : stacks' = insert_first(stacks, state, s, r)
      BY <1>8, States DEF NewOwnersStack
    <3> QED BY <1>1, <1>8, <3>1, <3>2, InsertFirstGood
  <2>2. /\ available' \in [Stack -> {0} \cup Revision]
        /\ available'[s] = r /\ stacks'.stacks[s] = r
        /\ \A t \in Stack \ {s} : /\ available'[t] = available[t]
                                  /\ stacks'.stacks[t] = stacks.stacks[t]
    BY <1>1, <1>8, <2>1, Zenon DEF NewOwnersStack, Inv, Good, Typed
  <2>3. Told(stacks', available')
    BY <1>2, <2>1, <2>2, OwnerOfAssumption, Zenon DEF Told, entry
  <2> QED BY <1>4, <2>1, <2>2, <2>3
<1>9. CASE NewOwnersBalanceUnknown(s)
  BY <1>2, <1>4, <1>9 DEF NewOwnersBalanceUnknown, Inv
<1> QED BY <1>3, <1>6, <1>7, <1>8, <1>9

LEMMA EscrowInv == ASSUME Inv, NEW o \in Owner, on_solana_escrow_updated(o) PROVE Inv'
<1> DEFINE state == StateFor(Head(escrow_stream[o]))
           old == stacks.owners[o].state
<1>1. /\ pc = "running" /\ pc' = pc /\ UNCHANGED <<account, stack_stream>>
      /\ stacks' = IF state = "Active" THEN make_active(stacks, o) ELSE make_inactive(stacks, o)
      /\ available' = [s \in Stack |->
             IF old # "Vacant" /\ old # state /\ s \in stacks.owners[o].stacks
             THEN IF state = "Active" THEN stacks.stacks[s] ELSE 0
             ELSE available[s]]
  BY DEF on_solana_escrow_updated, chain
<1>2. state \in OwnerState
  BY States
<1> HIDE DEF state
<1>3. /\ Good(stacks') /\ stacks'.stacks = stacks.stacks
      /\ \A p \in Owner \ {o} : stacks'.owners[p] = stacks.owners[p]
      /\ old = "Vacant" => stacks' = stacks
      /\ old # "Vacant" => stacks'.owners[o].state = state
  BY <1>1, <1>2, MakeGood DEF Inv
<1>4. available' \in [Stack -> {0} \cup Revision]
  BY <1>1 DEF Inv, Good, Typed
<1>5. ASSUME NEW s \in Stack, entry(stacks', s) = "Active" PROVE available'[s] = stacks'.stacks[s]
  <2>1. stacks.stacks[s] # 0 /\ stacks'.owners[OwnerOf[s]].state = "Active" /\ OwnerOf[s] \in Owner
    BY <1>3, <1>5, OwnerOfAssumption DEF entry
  <2>2. s \in stacks.owners[OwnerOf[s]].stacks
        /\ \A p \in Owner : s \in stacks.owners[p].stacks => p = OwnerOf[s]
    BY <2>1 DEF Inv, Good, Agree
  <2>3. entry(stacks, s) = "Active" => available[s] = stacks.stacks[s]
    BY <1>1 DEF Inv, Told
  <2>4. CASE OwnerOf[s] # o
    BY <1>1, <1>3, <2>1, <2>2, <2>3, <2>4, Zenon DEF entry
  <2>5. CASE OwnerOf[s] = o
    BY <1>1, <1>3, <2>1, <2>2, <2>3, <2>5 DEF entry
  <2> QED BY <2>4, <2>5
<1>6. Told(stacks', available')
  BY <1>5 DEF Told
<1> QED BY <1>1, <1>3, <1>4, <1>6, Zenon DEF Inv

LEMMA NextInv == Inv /\ [Next]_vars => Inv'
<1> SUFFICES ASSUME Inv, [Next]_vars PROVE Inv'
  OBVIOUS
<1>1. ASSUME NEW s \in Stack, StackDeployed(s) PROVE Inv'
  <2>1. account[s] + 1 \in Revision
    BY <1>1, RevisionAssumption DEF StackDeployed, Inv, Revision
  <2> QED BY <1>1, <2>1, StackTransactionInv, Zenon DEF StackDeployed
<1>2. ASSUME NEW s \in Stack, StackDeleted(s) PROVE Inv'
  BY <1>2, StackTransactionInv DEF StackDeleted
<1>3. ASSUME NEW o \in Owner, NEW balance \in Balance, EscrowChanges(o, balance) PROVE Inv'
  BY <1>3 DEF EscrowChanges, Inv, monitor
<1>4. ASSUME NEW o \in Owner, NEW k \in Signer, NEW state, SignerChanges(o, k, state) PROVE Inv'
  BY <1>4 DEF SignerChanges, Inv, monitor, streams
<1>5. CASE Subscribe
  BY <1>5 DEF Subscribe, Inv, chain, streams
<1>6. CASE FetchExisting
  BY <1>6, FetchInv
<1>7. CASE SubscribeToEscrows
  BY <1>7, SubscribeInv
<1>8. CASE on_new_stack_received
  BY <1>8, UpdateInv
<1>9. CASE on_request_signer_received
  BY <1>9 DEF on_request_signer_received, Inv, chain, streams, monitor
<1>10. ASSUME NEW o \in Owner, on_solana_escrow_updated(o) PROVE Inv'
  BY <1>10, EscrowInv
<1>11. CASE Disconnect
  BY <1>11 DEF Disconnect, Inv, chain
<1>12. CASE reconnect_solana_subscriber
  BY <1>12 DEF reconnect_solana_subscriber, Inv, chain, streams
<1>13. CASE UNCHANGED vars
  BY <1>13 DEF vars, Inv, chain, streams, monitor
<1> QED BY <1>1, <1>2, <1>3, <1>4, <1>5, <1>6, <1>7, <1>8, <1>9, <1>10, <1>11, <1>12, <1>13
        DEF Next, Transaction, Start

\* No lookup of the collection panics, whatever the order in which the chain,
\* the streams and the failures come.
THEOREM CollectionIsAlwaysConsistent == Spec => []CollectionIsConsistent
<1>1. Inv => CollectionIsConsistent
  BY GoodIsConsistent DEF Inv, CollectionIsConsistent
<1> QED BY <1>1, InitInv, NextInv, PTL DEF Spec

\* The scheduler is always told of every stack of an active owner, in the
\* revision that the monitor knows.
THEOREM ActiveStacksAreAlwaysAvailable == Spec => []ActiveStacksAreAvailable
<1>1. Inv => ActiveStacksAreAvailable
  BY DEF Inv, ActiveStacksAreAvailable, Told
<1> QED BY <1>1, InitInv, NextInv, PTL DEF Spec
----------------------------------------------------------------------------
(***************************************************************************)
(* Streams.  The messages about one thing are a set M; what is true of the *)
(* last of them that is still in a stream is what the monitor will know.   *)
(***************************************************************************)
Mentions(q, M) == \E i \in DOMAIN q : q[i] \in M
EndsIn(q, M, V) ==
    \A i \in DOMAIN q : q[i] \in M /\ (\A j \in DOMAIN q : j > i => q[j] \notin M) => q[i] \in V

LEMMA EmptyStream ==
    ASSUME NEW M, NEW V
    PROVE  ~Mentions(<<>>, M) /\ EndsIn(<<>>, M, V)
BY DEF Mentions, EndsIn

LEMMA SentMessage ==
    ASSUME NEW Message, NEW q \in Seq(Message), NEW m \in Message, NEW M, NEW V
    PROVE  /\ Mentions(Append(q, m), M) <=> Mentions(q, M) \/ m \in M
           /\ m \in M /\ m \in V => EndsIn(Append(q, m), M, V)
           /\ m \notin M /\ EndsIn(q, M, V) => EndsIn(Append(q, m), M, V)
<1> DEFINE n == Len(q)
           p == Append(q, m)
<1>1. /\ n \in Nat /\ DOMAIN q = 1 .. n /\ DOMAIN p = 1 .. n + 1
      /\ p[n + 1] = m /\ \A i \in 1 .. n : p[i] = q[i]
  OBVIOUS
<1> HIDE DEF n, p
<1>2. Mentions(p, M) <=> Mentions(q, M) \/ m \in M
  BY <1>1 DEF Mentions
<1>3. ASSUME m \in M, m \in V  PROVE EndsIn(p, M, V)
  BY <1>1, <1>3 DEF EndsIn
<1>4. ASSUME m \notin M, EndsIn(q, M, V)  PROVE EndsIn(p, M, V)
  BY <1>1, <1>4 DEF EndsIn
<1> QED
  BY <1>2, <1>3, <1>4 DEF p

LEMMA ReadMessage ==
    ASSUME NEW Message, NEW q \in Seq(Message), q # <<>>, NEW M, NEW V
    PROVE  /\ Mentions(q, M) <=> Mentions(Tail(q), M) \/ Head(q) \in M
           /\ EndsIn(q, M, V) => EndsIn(Tail(q), M, V)
           /\ EndsIn(q, M, V) /\ Head(q) \in M /\ ~Mentions(Tail(q), M) => Head(q) \in V
<1> DEFINE n == Len(q)
           p == Tail(q)
<1>1. /\ n \in Nat \ {0} /\ DOMAIN q = 1 .. n /\ DOMAIN p = 1 .. n - 1
      /\ q[1] = Head(q) /\ \A i \in 1 .. n - 1 : p[i] = q[i + 1]
  OBVIOUS
<1> HIDE DEF n, p
<1>2. \A j \in 1 .. n : j # 1 => j - 1 \in 1 .. n - 1 /\ q[j] = p[j - 1]
  BY <1>1
<1>3. Mentions(q, M) <=> Mentions(p, M) \/ Head(q) \in M
  <2>1. ASSUME NEW i \in 1 .. n, q[i] \in M
        PROVE  Head(q) \in M \/ \E k \in 1 .. n - 1 : p[k] \in M
    <3>1. CASE i = 1
      BY <1>1, <2>1, <3>1
    <3>2. CASE i # 1
      <4>1. i - 1 \in 1 .. n - 1 /\ p[i - 1] \in M
        BY <1>2, <2>1, <3>2
      <4> QED
        BY <4>1
    <3> QED
      BY <3>1, <3>2
  <2>2. ASSUME NEW i \in 1 .. n - 1, p[i] \in M
        PROVE  \E k \in 1 .. n : q[k] \in M
    <3>1. i + 1 \in 1 .. n /\ q[i + 1] \in M
      BY <1>1, <2>2
    <3> QED
      BY <3>1
  <2>3. 1 \in 1 .. n
    BY <1>1
  <2> QED
    BY <1>1, <2>1, <2>2, <2>3, Zenon DEF Mentions
<1>4. ASSUME EndsIn(q, M, V)  PROVE EndsIn(p, M, V)
  <2> SUFFICES ASSUME NEW i \in 1 .. n - 1, p[i] \in M,
                      \A j \in 1 .. n - 1 : j > i => p[j] \notin M
               PROVE  p[i] \in V
    BY <1>1, Zenon DEF EndsIn
  <2>1. i + 1 \in 1 .. n /\ q[i + 1] = p[i]
    BY <1>1
  <2>2. \A j \in 1 .. n : j > i + 1 => q[j] \notin M
    BY <1>1, <1>2
  <2> QED
    BY <1>1, <1>4, <2>1, <2>2, Zenon DEF EndsIn
<1>5. ASSUME EndsIn(q, M, V), Head(q) \in M, ~Mentions(p, M)  PROVE Head(q) \in V
  <2>1. \A k \in 1 .. n - 1 : p[k] \notin M
    BY <1>1, <1>5 DEF Mentions
  <2>2. \A j \in 1 .. n : j > 1 => q[j] \notin M
    BY <1>2, <2>1
  <2>3. 1 \in 1 .. n /\ q[1] \in M
    BY <1>1, <1>5
  <2> QED
    BY <1>1, <1>5, <2>2, <2>3 DEF EndsIn
<1> QED
  BY <1>3, <1>4, <1>5 DEF p

(***************************************************************************)
(* The stacks.                                                             *)
(***************************************************************************)
UpdatesOf(s) == {m \in Update : m.stack = s}
Showing(r) == {m \in Update : m.revision = r}
Above(s, r) == {m \in Update : m.stack = s /\ m.revision > r}
Informed == pc \in {"fetched", "running", "disconnected"}

\* What the monitor knows of a stack, and what the stream still says, against the
\* chain.  A stack that is there is never known in a later revision; one that is
\* not, and was not deleted, has not been heard of.
StackFollows(s) ==
    /\ EndsIn(stack_stream, UpdatesOf(s), Showing(account[s]))
    /\ account[s] # 0 => /\ stacks.stacks[s] <= account[s]
                         /\ ~Mentions(stack_stream, Above(s, account[s]))
    /\ account[s] = 0 /\ s \notin deleted => /\ stacks.stacks[s] = 0
                                             /\ ~Mentions(stack_stream, UpdatesOf(s))
    /\ Informed /\ s \notin lost_stacks /\ ~Mentions(stack_stream, UpdatesOf(s))
           => stacks.stacks[s] = account[s]

StacksInv ==
    /\ ~Connected => stack_stream = <<>>
    /\ \A s \in Stack : StackFollows(s)

LEMMA PendingMeans ==
    ASSUME Inv, NEW s \in Stack
    PROVE  s \in PendingStacks <=> Mentions(stack_stream, UpdatesOf(s))
<1>1. \A i \in DOMAIN stack_stream : stack_stream[i] \in Update
  BY DEF Inv
<1> QED
  BY <1>1 DEF PendingStacks, Range, Mentions, UpdatesOf

LEMMA KnownType ==
    ASSUME Inv, NEW s \in Stack
    PROVE  stacks.stacks[s] \in Nat /\ account[s] \in Nat /\ account[s] \in {0} \cup Revision
BY DEF Inv, Good, Typed, Revision

LEMMA StacksInit == Init => StacksInv
<1> SUFFICES ASSUME Init, NEW s \in Stack PROVE StackFollows(s)
  BY DEF Init, StacksInv
<1>1. stack_stream = <<>> /\ account[s] \in Nat /\ stacks.stacks[s] = 0 /\ ~Informed
  BY DEF Init, new, Informed
<1> QED
  BY <1>1, EmptyStream DEF StackFollows

LEMMA StackTransactionFollows ==
    ASSUME Inv, StacksInv, NEW s \in Stack, NEW r \in {0} \cup Revision, StackChanges(s, r),
           \/ r = account[s] + 1 /\ s \notin deleted /\ deleted' = deleted
           \/ r = 0 /\ deleted' = deleted \cup {s}
    PROVE  StacksInv'
<1> DEFINE m == [stack |-> s, revision |-> r]
<1>1. /\ account' = [account EXCEPT ![s] = r] /\ UNCHANGED <<pc, stacks>>
      /\ Connected => stack_stream' = Append(stack_stream, m)
      /\ ~Connected => stack_stream' = stack_stream
      /\ lost_stacks \subseteq lost_stacks'
      /\ pc = "disconnected" => s \in lost_stacks'
  BY DEF StackChanges, monitor
<1>2. /\ stack_stream \in Seq(Update) /\ m \in Update /\ account \in [Stack -> {0} \cup Revision]
      /\ m.stack = s /\ m.revision = r /\ account'[s] = r
      /\ \A t \in Stack \ {s} : account'[t] = account[t]
  BY <1>1 DEF Inv, Update
<1>3. ASSUME Connected, NEW M, NEW V
      PROVE  /\ Mentions(stack_stream', M) <=> Mentions(stack_stream, M) \/ m \in M
             /\ m \in M /\ m \in V => EndsIn(stack_stream', M, V)
             /\ m \notin M /\ EndsIn(stack_stream, M, V) => EndsIn(stack_stream', M, V)
  <2> HIDE DEF m
  <2>1. stack_stream' = Append(stack_stream, m)
    BY <1>3, <1>1
  <2> HIDE DEF Mentions, EndsIn
  <2> QED
    BY <1>2, <2>1, SentMessage, Zenon
<1> HIDE DEF m
<1>4. /\ Connected' = Connected /\ Informed' = Informed
      /\ Informed /\ ~Connected => s \in lost_stacks'
      /\ ~Connected => stack_stream' = <<>>
  BY <1>1 DEF Connected, Informed, StacksInv
<1>5. ASSUME NEW t \in Stack, t # s
      PROVE  StackFollows(t)'
  <2>1. StackFollows(t) /\ account'[t] = account[t] /\ (t \in deleted' <=> t \in deleted)
    BY <1>2, <1>5, Zenon DEF StacksInv
  <2>2. m \notin UpdatesOf(t) /\ m \notin Above(t, account[t])
    BY <1>2, <1>5 DEF UpdatesOf, Above
  <2>3. /\ Mentions(stack_stream', UpdatesOf(t)) <=> Mentions(stack_stream, UpdatesOf(t))
        /\ Mentions(stack_stream', Above(t, account[t]))
               <=> Mentions(stack_stream, Above(t, account[t]))
        /\ EndsIn(stack_stream', UpdatesOf(t), Showing(account[t]))
    <3>1. EndsIn(stack_stream, UpdatesOf(t), Showing(account[t]))
      BY <2>1, Zenon DEF StackFollows
    <3>2. CASE Connected
      BY <1>3, <2>2, <3>1, <3>2
    <3>3. CASE ~Connected
      BY <1>1, <3>1, <3>3
    <3> QED
      BY <3>2, <3>3
  <2> QED
    BY <1>1, <1>4, <2>1, <2>3, Zenon DEF StackFollows
<1>6. StackFollows(s)'
  <2>1. EndsIn(stack_stream', UpdatesOf(s), Showing(r))
    <3>1. m \in UpdatesOf(s) /\ m \in Showing(r)
      BY <1>2 DEF UpdatesOf, Showing
    <3>2. CASE Connected
      BY <1>3, <3>1, <3>2
    <3>3. CASE ~Connected
      BY <1>4, <3>3, EmptyStream
    <3> QED
      BY <3>2, <3>3
  <2>2. Informed /\ s \notin lost_stacks' => Mentions(stack_stream', UpdatesOf(s))
    <3>1. m \in UpdatesOf(s)
      BY <1>2 DEF UpdatesOf
    <3>2. CASE Connected
      BY <1>3, <3>1, <3>2
    <3> QED
      BY <1>4, <3>2
  <2>3. ASSUME r # 0
        PROVE  stacks.stacks[s] <= r /\ ~Mentions(stack_stream', Above(s, r))
    <3>1. r = account[s] + 1 /\ s \notin deleted /\ StackFollows(s)
      BY <2>3 DEF StacksInv
    <3>2. stacks.stacks[s] \in Nat /\ account[s] \in Nat
      BY KnownType
    <3>3. stacks.stacks[s] <= account[s]
      BY <3>1, <3>2 DEF StackFollows
    <3>4. ~Mentions(stack_stream, Above(s, r))
      <4>1. \A u \in Above(s, r) : u \in UpdatesOf(s) /\ u \in Above(s, account[s])
        BY <3>1, <3>2 DEF Above, UpdatesOf, Update, Revision
      <4> QED
        BY <3>1, <4>1, Zenon DEF StackFollows, Mentions
    <3>5. m \notin Above(s, r)
      BY <1>2, <3>1, <3>2 DEF Above
    <3>6. ~Mentions(stack_stream', Above(s, r))
      <4>1. CASE Connected
        BY <1>3, <3>4, <3>5, <4>1
      <4>2. CASE ~Connected
        BY <1>1, <3>4, <4>2
      <4> QED
        BY <4>1, <4>2
    <3> QED
      BY <3>1, <3>2, <3>3, <3>6
  <2>4. r = 0 => s \in deleted'
    BY KnownType
  <2> QED
    BY <1>1, <1>2, <1>4, <2>1, <2>2, <2>3, <2>4, Zenon DEF StackFollows
<1> QED
  BY <1>4, <1>5, <1>6 DEF StacksInv

\* The accounts come in some order, and all of them come.
LEMMA AllAreListed ==
    ASSUME NEW S, NEW order \in Listings(S), NEW s \in S
    PROVE  \E i \in DOMAIN order : order[i] = s
BY DEF Listings, Bijection, Surjection

\* get_owner_states: an account that was not replaced is known as it is on chain.
LEMMA FetchFollows ==
    ASSUME Inv, StacksInv, FetchExisting
    PROVE  StacksInv'
<1> DEFINE S == {s \in Stack : account[s] # 0}
<1>1. PICK order \in Listings(S) :
          /\ stacks' = from_known(Kept(order), [o \in Owner |-> StateFor(escrow[o])])
          /\ lost_stacks' = {order[i] : i \in {j \in DOMAIN order : GroupReplaced(order, j)}}
  BY Zenon DEF FetchExisting
<1>2. /\ UNCHANGED <<account, deleted, stack_stream>>
      /\ pc = "subscribed" /\ pc' = "fetched"
  BY Zenon DEF FetchExisting, chain, streams
<1>3. stacks'.stacks = Kept(order)
  BY <1>1, Zenon DEF from_known
<1>4. ASSUME NEW s \in Stack
      PROVE  StackFollows(s)'
  <2>1. stacks'.stacks[s] \in {0, account[s]}
    BY <1>3 DEF Kept
  <2>2. ASSUME account[s] # 0, s \notin lost_stacks'
        PROVE  stacks'.stacks[s] = account[s]
    <3>1. PICK i \in DOMAIN order : order[i] = s
      <4>1. s \in S
        BY <2>2
      <4> HIDE DEF S
      <4> QED
        BY <4>1, AllAreListed
    <3>2. ~GroupReplaced(order, i)
      BY <1>1, <2>2, <3>1, Zenon
    <3> QED
      BY <1>3, <3>1, <3>2 DEF Kept
  <2>3. StackFollows(s) /\ account[s] \in Nat
    BY KnownType DEF StacksInv
  <2>4. /\ stacks'.stacks[s] <= account[s]
        /\ account[s] = 0 => stacks'.stacks[s] = 0
        /\ s \notin lost_stacks' => stacks'.stacks[s] = account[s]
    BY <2>1, <2>2, <2>3
  <2> QED
    BY <1>2, <2>3, <2>4, Zenon DEF StackFollows
<1> QED
  BY <1>2, <1>4 DEF StacksInv, Connected

\* What a stack update makes of the stacks that the monitor knows.
LEMMA UpdateEffect ==
    ASSUME Inv, on_new_stack_received,
           NEW s, s = Head(stack_stream).stack, NEW r, r = Head(stack_stream).revision
    PROVE  /\ s \in Stack /\ r \in {0} \cup Revision
           /\ \A t \in Stack \ {s} : /\ stacks'.stacks[t] = stacks.stacks[t]
                                     /\ t \in lost_stacks' <=> t \in lost_stacks
           /\ s \in lost_stacks' \/
              stacks'.stacks[s] = IF r = 0 \/ stacks.stacks[s] < r THEN r ELSE stacks.stacks[s]
           /\ s \in lost_stacks' => stacks' = stacks
<1>1. s \in Stack /\ r \in {0} \cup Revision /\ Good(stacks)
  <2>1. Head(stack_stream) \in Update
    BY DEF on_new_stack_received, Inv
  <2> QED
    BY <2>1 DEF Update, Inv
<1>2. stacks.stacks \in [Stack -> {0} \cup Revision]
  BY <1>1 DEF Good, Typed
<1>3. \/ r = 0 /\ DeletedStack(s)
      \/ r \in Revision /\ (KnownOwnersStack(s, r) \/ NewOwnersStack(s, r) \/ NewOwnersBalanceUnknown(s))
  BY <1>1 DEF on_new_stack_received
<1>4. CASE r = 0 /\ DeletedStack(s)
  <2>1. stacks'.stacks = [stacks.stacks EXCEPT ![s] = 0] /\ lost_stacks' = lost_stacks \ {s}
    BY <1>1, <1>4, RemoveStackGood, Zenon DEF DeletedStack
  <2> QED
    BY <1>1, <1>2, <1>4, <2>1, Zenon
<1>5. CASE r \in Revision /\ KnownOwnersStack(s, r)
  <2>1. /\ stacks'.stacks = IF IsNews(stacks, s, r) THEN [stacks.stacks EXCEPT ![s] = r]
                                                    ELSE stacks.stacks
        /\ lost_stacks' = lost_stacks \ {s}
    <3>1. stacks' = add_stack(stacks, s, r) /\ OwnerOf[s] \in owners(stacks)
      BY <1>5, Zenon DEF KnownOwnersStack
    <3>2. Added(stacks, s, r, stacks')
      BY <1>1, <1>5, <3>1, AddStackAdds, Zenon
    <3> QED
      BY <1>5, <3>2, Zenon DEF Added, KnownOwnersStack
  <2>2. r # 0
    BY <1>5, RevisionAssumption DEF Revision
  <2> QED
    BY <1>1, <1>2, <2>1, <2>2, Zenon DEF IsNews
<1>6. CASE r \in Revision /\ NewOwnersStack(s, r)
  <2>1. PICK state \in OwnerState : stacks' = insert_first(stacks, state, s, r)
    BY <1>6, States, Zenon DEF NewOwnersStack
  <2>2. OwnerOf[s] \notin owners(stacks) /\ lost_stacks' = lost_stacks \ {s}
    BY <1>6, Zenon DEF NewOwnersStack
  <2>3. stacks'.stacks = [stacks.stacks EXCEPT ![s] = r]
    <3>1. Begun(stacks, state, s, r, stacks')
      BY <1>1, <1>6, <2>1, <2>2, InsertFirstBegins, Zenon
    <3> QED
      BY <3>1, Zenon DEF Begun
  <2>4. stacks.stacks[s] = 0
    <3>1. stacks.owners[OwnerOf[s]].state = "Vacant"
      BY <1>1, <2>2, OwnerOfAssumption, Zenon DEF owners
    <3> QED
      BY <1>1, <3>1, OwnerOfAssumption, Zenon DEF Good, Agree
  <2>5. r # 0 /\ 0 < r
    BY <1>6, RevisionAssumption DEF Revision
  <2> QED
    BY <1>1, <1>2, <2>2, <2>3, <2>4, <2>5, Zenon
<1>7. CASE r \in Revision /\ NewOwnersBalanceUnknown(s)
  BY <1>1, <1>7, Zenon DEF NewOwnersBalanceUnknown
<1> QED
  BY <1>3, <1>4, <1>5, <1>6, <1>7, Zenon

LEMMA UpdateFollows ==
    ASSUME Inv, StacksInv, on_new_stack_received
    PROVE  StacksInv'
<1> DEFINE s == Head(stack_stream).stack
           r == Head(stack_stream).revision
           m == Head(stack_stream)
<1>1. /\ stack_stream \in Seq(Update) /\ stack_stream # <<>> /\ m \in Update
      /\ m.stack = s /\ m.revision = r /\ stack_stream' = Tail(stack_stream)
      /\ UNCHANGED <<account, deleted, pc>> /\ pc = "running"
  BY DEF on_new_stack_received, Inv, chain
<1>2. /\ s \in Stack /\ r \in {0} \cup Revision
      /\ \A t \in Stack \ {s} : /\ stacks'.stacks[t] = stacks.stacks[t]
                                /\ t \in lost_stacks' <=> t \in lost_stacks
      /\ s \in lost_stacks' \/
         stacks'.stacks[s] = IF r = 0 \/ stacks.stacks[s] < r THEN r ELSE stacks.stacks[s]
      /\ s \in lost_stacks' => stacks' = stacks
  BY UpdateEffect, Zenon
<1> HIDE DEF s, r, m
<1>3. ASSUME NEW M, NEW V
      PROVE  /\ Mentions(stack_stream, M) <=> Mentions(stack_stream', M) \/ m \in M
             /\ EndsIn(stack_stream, M, V) => EndsIn(stack_stream', M, V)
             /\ EndsIn(stack_stream, M, V) /\ m \in M /\ ~Mentions(stack_stream', M) => m \in V
  BY <1>1, ReadMessage, Zenon DEF m
<1>4. ASSUME NEW t \in Stack, t # s
      PROVE  StackFollows(t)'
  <2>1. StackFollows(t) /\ stacks'.stacks[t] = stacks.stacks[t]
        /\ (t \in lost_stacks' <=> t \in lost_stacks)
    BY <1>2, <1>4, Zenon DEF StacksInv
  <2>2. m \notin UpdatesOf(t) /\ m \notin Above(t, account[t])
    BY <1>1, <1>4 DEF UpdatesOf, Above
  <2>3. /\ Mentions(stack_stream', UpdatesOf(t)) <=> Mentions(stack_stream, UpdatesOf(t))
        /\ Mentions(stack_stream', Above(t, account[t]))
               <=> Mentions(stack_stream, Above(t, account[t]))
        /\ EndsIn(stack_stream', UpdatesOf(t), Showing(account[t]))
    BY <1>3, <2>1, <2>2, Zenon DEF StackFollows
  <2> QED
    BY <1>1, <2>1, <2>3, Zenon DEF StackFollows, Informed
<1>5. ASSUME NEW t \in Stack, t = s
      PROVE  StackFollows(t)'
  <2>1. StackFollows(t) /\ stacks.stacks[t] \in Nat /\ account[t] \in Nat /\ r \in Nat
    <3>1. r \in Nat
      BY <1>2 DEF Revision
    <3> QED
      BY <3>1, KnownType, Zenon DEF StacksInv
  <2>2. /\ EndsIn(stack_stream', UpdatesOf(t), Showing(account[t]))
        /\ Mentions(stack_stream, UpdatesOf(t))
        /\ ~Mentions(stack_stream', UpdatesOf(t)) => r = account[t]
    <3>1. m \in UpdatesOf(t) /\ (m \in Showing(account[t]) => r = account[t])
      BY <1>1, <1>5 DEF UpdatesOf, Showing
    <3> QED
      BY <1>3, <2>1, <3>1, Zenon DEF StackFollows
  <2>3. account[t] = 0 => t \in deleted
    BY <2>1, <2>2, Zenon DEF StackFollows
  <2>4. ASSUME account[t] # 0
        PROVE  /\ stacks'.stacks[t] <= account[t]
               /\ ~Mentions(stack_stream', Above(t, account[t]))
    <3>1. stacks.stacks[t] <= account[t] /\ ~Mentions(stack_stream, Above(t, account[t]))
      BY <2>1, <2>4, Zenon DEF StackFollows
    <3>2. m \notin Above(t, account[t]) /\ ~Mentions(stack_stream', Above(t, account[t]))
      BY <1>3, <3>1, Zenon
    <3>3. r <= account[t]
      BY <1>1, <1>5, <2>1, <3>2 DEF Above
    <3> QED
      BY <1>2, <1>5, <2>1, <3>1, <3>2, <3>3, Zenon
  <2>5. ASSUME t \notin lost_stacks', ~Mentions(stack_stream', UpdatesOf(t))
        PROVE  stacks'.stacks[t] = account[t]
    <3>1. r = account[t] /\ (r # 0 => stacks.stacks[t] <= r)
      BY <2>1, <2>2, <2>5, Zenon DEF StackFollows
    <3> QED
      BY <1>2, <1>5, <2>1, <2>5, <3>1
  <2> QED
    BY <1>1, <2>1, <2>2, <2>3, <2>4, <2>5, Zenon DEF StackFollows
<1> QED
  BY <1>1, <1>4, <1>5 DEF StacksInv, Connected

LEMMA DisconnectFollows ==
    ASSUME Inv, StacksInv, Disconnect
    PROVE  StacksInv'
<1>1. /\ UNCHANGED <<account, deleted, stacks>> /\ stack_stream' = <<>>
      /\ lost_stacks' = lost_stacks \cup PendingStacks
      /\ pc = "running" /\ pc' = "disconnected"
  BY Zenon DEF Disconnect, chain
<1>2. ASSUME NEW s \in Stack
      PROVE  StackFollows(s)'
  <2>1. StackFollows(s) /\ (s \in PendingStacks <=> Mentions(stack_stream, UpdatesOf(s)))
    BY PendingMeans DEF StacksInv
  <2>2. /\ ~Mentions(stack_stream', UpdatesOf(s))
        /\ ~Mentions(stack_stream', Above(s, account[s]))
        /\ EndsIn(stack_stream', UpdatesOf(s), Showing(account[s]))
    BY <1>1, EmptyStream
  <2> QED
    BY <1>1, <2>1, <2>2, Zenon DEF StackFollows, Informed
<1> QED
  BY <1>1, <1>2 DEF StacksInv

LEMMA StacksStep == Inv /\ StacksInv /\ [Next]_vars => StacksInv'
<1> SUFFICES ASSUME Inv, StacksInv, [Next]_vars PROVE StacksInv'
  OBVIOUS
<1>1. ASSUME NEW s \in Stack, StackDeployed(s) PROVE StacksInv'
  <2>1. account[s] + 1 \in Revision
    BY <1>1, RevisionAssumption DEF StackDeployed, Inv, Revision
  <2>2. StackChanges(s, account[s] + 1) /\ s \notin deleted /\ deleted' = deleted
    BY <1>1 DEF StackDeployed
  <2> QED
    BY <2>1, <2>2, StackTransactionFollows, Zenon
<1>2. ASSUME NEW s \in Stack, StackDeleted(s) PROVE StacksInv'
  <2>1. StackChanges(s, 0) /\ deleted' = deleted \cup {s}
    BY <1>2 DEF StackDeleted
  <2> QED
    BY <2>1, StackTransactionFollows
<1>3. CASE FetchExisting
  BY <1>3, FetchFollows
<1>4. CASE on_new_stack_received
  BY <1>4, UpdateFollows
<1>5. CASE Disconnect
  BY <1>5, DisconnectFollows
<1> DEFINE Others ==
        /\ UNCHANGED <<account, deleted, stack_stream, stacks, lost_stacks>>
        /\ pc' = pc \/ <<pc, pc'>> \in {<<"off", "subscribed">>, <<"fetched", "running">>,
                                      <<"disconnected", "running">>}
<1>6. ASSUME Others PROVE StacksInv'
  BY <1>6, Zenon DEF StacksInv, StackFollows, Connected, Informed
<1>7. ASSUME NEW o \in Owner, NEW balance \in Balance, EscrowChanges(o, balance) PROVE Others
  BY <1>7 DEF EscrowChanges, monitor
<1>8. ASSUME NEW o \in Owner, NEW k \in Signer, NEW state, SignerChanges(o, k, state) PROVE Others
  BY <1>8, Zenon DEF SignerChanges, monitor, streams, lost
<1>9. ASSUME Subscribe PROVE Others
  BY <1>9 DEF Subscribe, chain, streams, lost
<1>10. ASSUME SubscribeToEscrows PROVE Others
  BY <1>10, Zenon DEF SubscribeToEscrows, chain, streams, lost
<1>11. ASSUME on_request_signer_received PROVE Others
  BY <1>11 DEF on_request_signer_received, chain, streams, monitor, lost
<1>12. ASSUME reconnect_solana_subscriber PROVE Others
  BY <1>12 DEF reconnect_solana_subscriber, chain, streams, lost
<1>13. ASSUME UNCHANGED vars PROVE Others
  BY <1>13 DEF vars, chain, streams, monitor, lost
<1>14. ASSUME NEW o \in Owner, on_solana_escrow_updated(o) PROVE StacksInv'
  <2>1. UNCHANGED <<account, deleted, stack_stream, lost_stacks, pc>>
    BY <1>14, Zenon DEF on_solana_escrow_updated, chain, lost
  <2>2. PICK state \in OwnerState :
            stacks' = IF state = "Active" THEN make_active(stacks, o) ELSE make_inactive(stacks, o)
    BY <1>14, States, Zenon DEF on_solana_escrow_updated
  <2>3. stacks'.stacks = stacks.stacks
    <3>1. Switched(stacks, o, state, stacks')
      BY <2>2, MakeSwitches, Zenon DEF Inv
    <3> QED
      BY <3>1, Zenon DEF Switched
  <2> QED
    BY <2>1, <2>3, Zenon DEF StacksInv, StackFollows, Connected, Informed
<1> HIDE DEF Others
<1> QED
  BY <1>1, <1>2, <1>3, <1>4, <1>5, <1>6, <1>7, <1>8, <1>9, <1>10, <1>11, <1>12, <1>13, <1>14
     DEF Next, Transaction, Start

\* The subscription before the fetch, old revisions and repeated deletions: for
\* any number of stacks and failures, what the monitor knows of a stack is what
\* is on chain, unless an update of it is on its way or was lost.
THEOREM StacksAlwaysCatchUp == Spec => []StacksCatchUp
<1>1. Inv /\ StacksInv => StacksCatchUp
  <2> SUFFICES ASSUME Inv, StacksInv, pc \in {"running", "disconnected"},
                      NEW s \in Stack, s \notin lost_stacks \cup PendingStacks
               PROVE  stacks.stacks[s] = account[s]
    BY Zenon DEF StacksCatchUp
  <2> QED
    BY PendingMeans, Zenon DEF StacksInv, StackFollows, Informed
<1> QED
  BY <1>1, InitInv, NextInv, StacksInit, StacksStep, PTL DEF Spec

(***************************************************************************)
(* The owners.                                                             *)
(***************************************************************************)

Latest(q) == q[Len(q)]

\* The balances on their way are those of a subscription, and the last of them
\* is the one on chain.
OwnerFollows(o) ==
    /\ escrow_stream[o] # <<>> => /\ pc = "running" /\ o \in escrow_subscriptions
                                  /\ Latest(escrow_stream[o]) = escrow[o]
    /\ Informed /\ o \notin lost_owners /\ escrow_stream[o] = <<>>
           => stacks.owners[o].state \in {"Vacant", StateFor(escrow[o])}

OwnersInv ==
    /\ escrow \in [Owner -> Balance]
    /\ escrow_stream \in [Owner -> Seq(Balance)]
    /\ \A o \in Owner : OwnerFollows(o)

LEMMA OwnersInit == Init => OwnersInv
<1> SUFFICES ASSUME Init PROVE OwnersInv
  OBVIOUS
<1>1. escrow \in [Owner -> Balance] /\ escrow_stream \in [Owner -> Seq(Balance)]
  BY DEF Init
<1>2. \A o \in Owner : OwnerFollows(o)
  BY Zenon DEF Init, OwnerFollows, Informed
<1> QED
  BY <1>1, <1>2 DEF OwnersInv

\* A step that tells of no balance: no owner becomes known or changes its state.
LEMMA OwnersStay ==
    ASSUME OwnersInv, UNCHANGED <<escrow, escrow_stream, lost_owners>>,
           \A o \in Owner : stacks'.owners[o].state \in {stacks.owners[o].state, "Vacant"},
           \/ UNCHANGED <<pc, escrow_subscriptions>>
           \/ <<pc, pc'>> \in {<<"off", "subscribed">>, <<"fetched", "running">>,
                               <<"disconnected", "running">>}
    PROVE  OwnersInv'
<1>1. ASSUME NEW o \in Owner
      PROVE  OwnerFollows(o)'
  <2>1. OwnerFollows(o)
    BY Zenon DEF OwnersInv
  <2> QED
    BY <2>1, Zenon DEF OwnerFollows, Informed, StateFor
<1> QED
  BY <1>1, Zenon DEF OwnersInv

LEMMA LastOfAppend ==
    ASSUME NEW Message, NEW q \in Seq(Message), NEW m \in Message
    PROVE  Append(q, m) # <<>> /\ Latest(Append(q, m)) = m
BY DEF Latest

LEMMA EscrowTransactionFollows ==
    ASSUME OwnersInv, NEW o \in Owner, NEW balance \in Balance, EscrowChanges(o, balance)
    PROVE  OwnersInv'
<1>1. /\ escrow' = [escrow EXCEPT ![o] = balance] /\ UNCHANGED <<pc, stacks, escrow_subscriptions>>
      /\ pc = "running" /\ o \in escrow_subscriptions
             => escrow_stream' = [escrow_stream EXCEPT ![o] = Append(escrow_stream[o], balance)]
      /\ ~(pc = "running" /\ o \in escrow_subscriptions) => escrow_stream' = escrow_stream
      /\ lost_owners \subseteq lost_owners'
      /\ pc \in {"disconnected", "fetched"} => o \in lost_owners'
      /\ pc = "running" /\ o \in owners(stacks) /\ o \notin escrow_subscriptions
             => o \in lost_owners'
  BY Zenon DEF EscrowChanges, monitor
<1>2. /\ escrow \in [Owner -> Balance] /\ escrow_stream \in [Owner -> Seq(Balance)]
      /\ OwnerFollows(o)
  BY DEF OwnersInv
<1>3. escrow' \in [Owner -> Balance] /\ escrow_stream' \in [Owner -> Seq(Balance)]
  <2>1. Append(escrow_stream[o], balance) \in Seq(Balance)
    BY <1>2
  <2> QED
    BY <1>1, <1>2, <2>1, Zenon
<1>4. ASSUME NEW p \in Owner, p # o
      PROVE  OwnerFollows(p)'
  <2>1. escrow'[p] = escrow[p] /\ escrow_stream'[p] = escrow_stream[p] /\ OwnerFollows(p)
    BY <1>1, <1>2, <1>4, Zenon DEF OwnersInv
  <2> QED
    BY <1>1, <2>1, Zenon DEF OwnerFollows, Informed, StateFor
<1>5. OwnerFollows(o)'
  <2>1. CASE pc = "running" /\ o \in escrow_subscriptions
    <3>1. escrow_stream'[o] = Append(escrow_stream[o], balance) /\ escrow'[o] = balance
      BY <1>1, <1>2, <2>1
    <3>2. escrow_stream'[o] # <<>> /\ Latest(escrow_stream'[o]) = balance
      BY <1>2, <3>1, LastOfAppend
    <3> QED
      BY <1>1, <2>1, <3>1, <3>2, Zenon DEF OwnerFollows
  <2>2. CASE ~(pc = "running" /\ o \in escrow_subscriptions)
    <3>1. escrow_stream'[o] = <<>>
      BY <1>1, <1>2, <2>2, Zenon DEF OwnerFollows
    <3>2. Informed /\ stacks.owners[o].state # "Vacant" => o \in lost_owners'
      BY <1>1, <2>2 DEF Informed, owners
    <3>3. Informed' = Informed
      BY <1>1 DEF Informed
    <3> QED
      BY <1>1, <3>1, <3>2, <3>3, Zenon DEF OwnerFollows
  <2> QED
    BY <2>1, <2>2
<1> QED
  BY <1>3, <1>4, <1>5 DEF OwnersInv

LEMMA FetchOwnersFollow ==
    ASSUME OwnersInv, FetchExisting
    PROVE  OwnersInv'
<1> DEFINE state == [o \in Owner |-> StateFor(escrow[o])]
<1>1. PICK known : stacks' = from_known(known, state)
  BY Zenon DEF FetchExisting
<1>2. UNCHANGED <<escrow, escrow_stream>> /\ pc = "subscribed"
  BY Zenon DEF FetchExisting, chain, streams
<1>3. ASSUME NEW o \in Owner
      PROVE  OwnerFollows(o)'
  <2>1. OwnerFollows(o)
    BY DEF OwnersInv
  <2>2. escrow_stream[o] = <<>>
    BY <1>2, <2>1 DEF OwnerFollows
  <2>3. stacks'.owners[o].state # "Vacant" => stacks'.owners[o].state = state[o]
    BY <1>1, FromKnownState
  <2>4. state[o] = StateFor(escrow[o])
    OBVIOUS
  <2> QED
    BY <1>2, <2>2, <2>3, <2>4, Zenon DEF OwnerFollows, StateFor
<1> QED
  BY <1>2, <1>3 DEF OwnersInv

\* The first stack of an owner comes with the balance of that moment.
LEMMA UpdateOwnersFollow ==
    ASSUME Inv, OwnersInv, on_new_stack_received
    PROVE  OwnersInv'
<1> DEFINE s == Head(stack_stream).stack
           r == Head(stack_stream).revision
<1>1. s \in Stack /\ r \in {0} \cup Revision /\ Good(stacks)
  <2>1. Head(stack_stream) \in Update
    BY DEF on_new_stack_received, Inv
  <2> QED
    BY <2>1 DEF Update, Inv
<1>2. \/ r = 0 /\ DeletedStack(s)
      \/ r \in Revision /\ (KnownOwnersStack(s, r) \/ NewOwnersStack(s, r) \/ NewOwnersBalanceUnknown(s))
  BY <1>1, Zenon DEF on_new_stack_received
<1>3. UNCHANGED <<escrow, escrow_stream, pc, escrow_subscriptions>>
  BY DEF on_new_stack_received, chain
<1> HIDE DEF s, r
<1>4. CASE DeletedStack(s)
  <2>1. /\ \A o \in Owner : stacks'.owners[o].state \in {stacks.owners[o].state, "Vacant"}
        /\ lost_owners' = lost_owners
    BY <1>1, <1>4, RemoveStackGood, Zenon DEF DeletedStack
  <2> QED
    BY <1>3, <2>1, OwnersStay
<1>5. CASE r \in Revision /\ KnownOwnersStack(s, r)
  <2>1. /\ stacks' = add_stack(stacks, s, r) /\ OwnerOf[s] \in owners(stacks)
        /\ lost_owners' = lost_owners
    BY <1>5 DEF KnownOwnersStack
  <2>2. /\ Good(stacks')
        /\ stacks'.stacks = IF IsNews(stacks, s, r) THEN [stacks.stacks EXCEPT ![s] = r]
                                                    ELSE stacks.stacks
        /\ \A o \in Owner : stacks'.owners[o].state = stacks.owners[o].state
    <3>1. Added(stacks, s, r, stacks')
      BY <1>1, <1>5, <2>1, AddStackAdds, Zenon
    <3> QED
      BY <3>1, Zenon DEF Added
  <2> QED
    BY <1>3, <2>1, <2>2, OwnersStay, Zenon
<1>6. CASE r \in Revision /\ NewOwnersStack(s, r)
  <2>1. /\ OwnerOf[s] \notin owners(stacks) /\ lost_owners' = lost_owners \ {OwnerOf[s]}
        /\ stacks' = insert_first(stacks, StateFor(escrow[OwnerOf[s]]), s, r)
    BY <1>6, Zenon DEF NewOwnersStack
  <2>2. /\ stacks'.owners[OwnerOf[s]].state = StateFor(escrow[OwnerOf[s]])
        /\ \A p \in Owner \ {OwnerOf[s]} : stacks'.owners[p].state = stacks.owners[p].state
    <3> DEFINE state == StateFor(escrow[OwnerOf[s]])
    <3>1. state \in OwnerState /\ stacks' = insert_first(stacks, state, s, r)
      BY <2>1, States, Zenon
    <3> HIDE DEF state
    <3>2. /\ Good(stacks') /\ stacks'.stacks = [stacks.stacks EXCEPT ![s] = r]
          /\ stacks'.owners[OwnerOf[s]].state = state
          /\ \A p \in Owner \ {OwnerOf[s]} : stacks'.owners[p].state = stacks.owners[p].state
      <4>1. Begun(stacks, state, s, r, stacks')
        BY <1>1, <1>6, <2>1, <3>1, InsertFirstBegins, Zenon
      <4> QED
        BY <4>1, Zenon DEF Begun
    <3> QED
      BY <3>2, Zenon DEF state
  <2>3. ASSUME NEW p \in Owner
        PROVE  OwnerFollows(p)'
    <3>1. OwnerFollows(p)
      BY DEF OwnersInv
    <3>2. CASE p = OwnerOf[s]
      BY <1>3, <2>1, <2>2, <3>1, <3>2, Zenon DEF OwnerFollows, StateFor
    <3>3. CASE p # OwnerOf[s]
      BY <1>3, <2>1, <2>2, <3>1, <3>3, Zenon DEF OwnerFollows, Informed, StateFor
    <3> QED
      BY <3>2, <3>3
  <2> QED
    BY <1>3, <2>3 DEF OwnersInv
<1>7. CASE NewOwnersBalanceUnknown(s)
  <2>1. UNCHANGED <<stacks, lost_owners>>
    BY <1>7 DEF NewOwnersBalanceUnknown
  <2> QED
    BY <1>3, <2>1, OwnersStay
<1> QED
  BY <1>2, <1>4, <1>5, <1>6, <1>7

LEMMA LastOfTail ==
    ASSUME NEW Message, NEW q \in Seq(Message), q # <<>>
    PROVE  /\ Tail(q) = <<>> => Head(q) = Latest(q)
           /\ Tail(q) # <<>> => Latest(Tail(q)) = Latest(q)
           /\ Tail(q) \in Seq(Message)
<1> DEFINE n == Len(q)
           p == Tail(q)
<1>1. /\ n \in Nat \ {0} /\ Len(p) = n - 1 /\ p \in Seq(Message) /\ q[1] = Head(q)
      /\ \A i \in 1 .. n - 1 : p[i] = q[i + 1]
  OBVIOUS
<1>2. ASSUME p = <<>> PROVE Head(q) = Latest(q)
  <2> HIDE DEF n, p
  <2>1. Len(p) = 0
    BY <1>2
  <2>2. n = 1
    BY <1>1, <2>1
  <2> QED
    BY <1>1, <2>2 DEF Latest, n
<1>3. ASSUME p # <<>> PROVE Latest(p) = Latest(q)
  <2>1. n - 1 \in 1 .. n - 1 /\ (n - 1) + 1 = n
    BY <1>1, <1>3
  <2>2. p[n - 1] = q[(n - 1) + 1]
    BY <1>1, <2>1
  <2> QED
    BY <1>1, <2>1, <2>2 DEF Latest
<1> QED
  BY <1>1, <1>2, <1>3

\* The last balance of a stream is the one on chain.
LEMMA BalanceFollows ==
    ASSUME Inv, OwnersInv, NEW o \in Owner, on_solana_escrow_updated(o)
    PROVE  OwnersInv'
<1> DEFINE q == escrow_stream[o]
           state == StateFor(Head(q))
<1>1. /\ q # <<>> /\ pc = "running"
      /\ UNCHANGED <<escrow, pc, escrow_subscriptions, lost_owners>>
      /\ escrow_stream' = [escrow_stream EXCEPT ![o] = Tail(q)]
      /\ stacks' = IF state = "Active" THEN make_active(stacks, o) ELSE make_inactive(stacks, o)
  BY Zenon DEF on_solana_escrow_updated, chain, lost
<1>2. /\ escrow_stream \in [Owner -> Seq(Balance)] /\ q \in Seq(Balance)
      /\ OwnerFollows(o) /\ Latest(q) = escrow[o] /\ o \in escrow_subscriptions
  BY <1>1, Zenon DEF OwnersInv, OwnerFollows
<1>3. state \in OwnerState
  BY States
<1>4. /\ Tail(q) = <<>> => Head(q) = Latest(q)
      /\ Tail(q) # <<>> => Latest(Tail(q)) = Latest(q)
      /\ Tail(q) \in Seq(Balance)
  BY <1>1, <1>2, LastOfTail, Zenon
<1> HIDE DEF q
<1>5. Tail(q) = <<>> => state = StateFor(escrow[o])
  BY <1>2, <1>4
<1>6. escrow_stream'[o] = Tail(q) /\ \A p \in Owner \ {o} : escrow_stream'[p] = escrow_stream[p]
  BY <1>1, <1>2
<1>7. escrow_stream' \in [Owner -> Seq(Balance)]
  BY <1>1, <1>2, <1>4
<1> HIDE DEF state
<1>8. /\ Good(stacks') /\ stacks'.stacks = stacks.stacks
      /\ \A p \in Owner \ {o} : stacks'.owners[p] = stacks.owners[p]
      /\ stacks.owners[o].state = "Vacant" => stacks' = stacks
      /\ stacks.owners[o].state # "Vacant" => stacks'.owners[o].state = state
  <2>1. Switched(stacks, o, state, stacks')
    BY <1>1, <1>3, MakeSwitches, Zenon DEF Inv
  <2> QED
    BY <2>1, Zenon DEF Switched
<1>9. ASSUME NEW p \in Owner, p # o
      PROVE  OwnerFollows(p)'
  <2>1. OwnerFollows(p)
    BY DEF OwnersInv
  <2> QED
    BY <1>1, <1>6, <1>8, <1>9, <2>1, Zenon DEF OwnerFollows, Informed, StateFor
<1>10. OwnerFollows(o)'
  <2>1. Tail(q) # <<>> => Latest(escrow_stream'[o]) = escrow'[o]
    BY <1>1, <1>2, <1>4, <1>6
  <2>2. Tail(q) = <<>> => stacks'.owners[o].state \in {"Vacant", StateFor(escrow'[o])}
    BY <1>1, <1>5, <1>8, Zenon
  <2> QED
    BY <1>1, <1>2, <1>6, <2>1, <2>2, Zenon DEF OwnerFollows
<1> QED
  BY <1>1, <1>7, <1>9, <1>10 DEF OwnersInv

LEMMA DisconnectOwnersFollow ==
    ASSUME OwnersInv, Disconnect
    PROVE  OwnersInv'
<1>1. /\ UNCHANGED <<escrow, stacks>> /\ pc = "running"
      /\ escrow_stream' = [o \in Owner |-> <<>>]
      /\ lost_owners' = lost_owners \cup {o \in Owner : escrow_stream[o] # <<>>}
  BY DEF Disconnect, chain
<1>2. ASSUME NEW o \in Owner
      PROVE  OwnerFollows(o)'
  <2>1. OwnerFollows(o) /\ escrow_stream'[o] = <<>>
    BY <1>1 DEF OwnersInv
  <2> QED
    BY <1>1, <2>1, Zenon DEF OwnerFollows, Informed, StateFor
<1> QED
  BY <1>1, <1>2 DEF OwnersInv

LEMMA OwnersStep == Inv /\ OwnersInv /\ [Next]_vars => OwnersInv'
<1> SUFFICES ASSUME Inv, OwnersInv, [Next]_vars PROVE OwnersInv'
  OBVIOUS
<1>1. ASSUME NEW o \in Owner, NEW balance \in Balance, EscrowChanges(o, balance) PROVE OwnersInv'
  BY <1>1, EscrowTransactionFollows
<1>2. CASE FetchExisting
  BY <1>2, FetchOwnersFollow
<1>3. CASE on_new_stack_received
  BY <1>3, UpdateOwnersFollow
<1>4. ASSUME NEW o \in Owner, on_solana_escrow_updated(o) PROVE OwnersInv'
  BY <1>4, BalanceFollows
<1>5. CASE Disconnect
  BY <1>5, DisconnectOwnersFollow
<1> DEFINE Others ==
        /\ UNCHANGED <<escrow, escrow_stream, lost_owners, stacks>>
        /\ \/ UNCHANGED <<pc, escrow_subscriptions>>
           \/ <<pc, pc'>> \in {<<"off", "subscribed">>, <<"fetched", "running">>,
                               <<"disconnected", "running">>}
<1>6. ASSUME Others PROVE OwnersInv'
  BY <1>6, OwnersStay
<1>7. ASSUME NEW s \in Stack, NEW r, StackChanges(s, r) PROVE Others
  BY <1>7, Zenon DEF StackChanges, monitor
<1>8. ASSUME NEW s \in Stack, StackDeployed(s) \/ StackDeleted(s) PROVE Others
  BY <1>7, <1>8 DEF StackDeployed, StackDeleted
<1>9. ASSUME NEW o \in Owner, NEW k \in Signer, NEW state, SignerChanges(o, k, state) PROVE Others
  BY <1>9, Zenon DEF SignerChanges, monitor, streams, lost
<1>10. ASSUME Subscribe PROVE Others
  BY <1>10 DEF Subscribe, chain, streams, lost
<1>11. ASSUME SubscribeToEscrows PROVE Others
  BY <1>11, Zenon DEF SubscribeToEscrows, chain, streams, lost
<1>12. ASSUME on_request_signer_received PROVE Others
  BY <1>12 DEF on_request_signer_received, chain, streams, monitor, lost
<1>13. ASSUME reconnect_solana_subscriber PROVE Others
  BY <1>13 DEF reconnect_solana_subscriber, chain, streams, lost
<1>14. ASSUME UNCHANGED vars PROVE Others
  BY <1>14 DEF vars, chain, streams, monitor, lost
<1> HIDE DEF Others
<1> QED
  BY <1>1, <1>2, <1>3, <1>4, <1>5, <1>6, <1>8, <1>9, <1>10, <1>11, <1>12, <1>13, <1>14
     DEF Next, Transaction, Start

\* For any number of owners and failures, whether the monitor takes a known owner
\* to be active is decided by the balance on chain, unless a balance is on its way
\* or was lost, or changed while nobody listened.
THEOREM OwnersAlwaysCatchUp == Spec => []OwnersCatchUp
<1>1. OwnersInv => OwnersCatchUp
  BY Zenon DEF OwnersInv, OwnerFollows, OwnersCatchUp, owners, Informed
<1> QED
  BY <1>1, InitInv, NextInv, OwnersInit, OwnersStep, PTL DEF Spec

(***************************************************************************)
(* The request signers.                                                    *)
(***************************************************************************)
SignerUpdate == [owner : Owner, signer : Signer, state : {"active", "inactive"}]
UpdatesOfSigner(o, k) == {m \in SignerUpdate : m.owner = o /\ m.signer = k}
Saying(state) == {m \in SignerUpdate : m.state = state}

\* A map of signers to their owners is right about an owner and a signer.
OnlyOwner(o, k) == \A p \in Owner \ {o} : request_signer[<<p, k>>] = "none"
HoldsSigner(f, o, k) ==
    /\ f[k] = o => request_signer[<<o, k>>] = "active"
    /\ request_signer[<<o, k>>] = "active" /\ OnlyOwner(o, k) => f[k] = o

\* An update that is on its way is about an account that there is, and the last
\* one tells its state.
SignerFollows(o, k) ==
    /\ EndsIn(signer_stream, UpdatesOfSigner(o, k), Saying(request_signer[<<o, k>>]))
    /\ Mentions(signer_stream, UpdatesOfSigner(o, k)) => request_signer[<<o, k>>] # "none"
    /\ <<o, k>> \notin lost_signers /\ ~Mentions(signer_stream, UpdatesOfSigner(o, k)) =>
           /\ pc = "fetched" => HoldsSigner(existing_signers, o, k)
           /\ pc \in {"running", "disconnected"} => HoldsSigner(signers, o, k)

SignersInv ==
    /\ request_signer \in [Owner \X Signer -> SignerState]
    /\ signer_stream \in Seq(SignerUpdate)
    /\ existing_signers \in [Signer -> Owner \cup {Nobody}]
    /\ signers \in [Signer -> Owner \cup {Nobody}]
    /\ ~Connected => signer_stream = <<>>
    /\ \A o \in Owner, k \in Signer : SignerFollows(o, k)

LEMMA SignersInit == Init => SignersInv
<1> SUFFICES ASSUME Init PROVE SignersInv
  OBVIOUS
<1>1. /\ request_signer \in [Owner \X Signer -> SignerState]
      /\ existing_signers \in [Signer -> Owner \cup {Nobody}]
      /\ signers \in [Signer -> Owner \cup {Nobody}]
  BY DEF Init, SignerState
<1>2. signer_stream = <<>> /\ signer_stream \in Seq(SignerUpdate)
  BY DEF Init
<1>3. ASSUME NEW o \in Owner, NEW k \in Signer
      PROVE  SignerFollows(o, k)
  <2>1. pc = "off"
    BY DEF Init
  <2> QED
    BY <1>2, <2>1, EmptyStream, Zenon DEF SignerFollows
<1> QED
  BY <1>1, <1>2, <1>3 DEF SignersInv

LEMMA PendingSignersMean ==
    ASSUME SignersInv, NEW o \in Owner, NEW k \in Signer
    PROVE  <<o, k>> \in PendingSigners <=> Mentions(signer_stream, UpdatesOfSigner(o, k))
<1>1. \A i \in DOMAIN signer_stream : signer_stream[i] \in SignerUpdate
  BY DEF SignersInv
<1>2. <<o, k>> \in PendingSigners
          <=> \E i \in DOMAIN signer_stream :
                  <<o, k>> = <<signer_stream[i].owner, signer_stream[i].signer>>
  BY DEF PendingSigners, Range
<1> QED
  BY <1>1, <1>2 DEF Mentions, UpdatesOfSigner

LEMMA SignerTransactionFollows ==
    ASSUME SignersInv, NEW o \in Owner, NEW k \in Signer, NEW state \in SignerState \ {"none"},
           SignerChanges(o, k, state)
    PROVE  SignersInv'
<1> DEFINE m == [owner |-> o, signer |-> k, state |-> state]
<1>1. /\ request_signer' = [request_signer EXCEPT ![<<o, k>>] = state]
      /\ UNCHANGED <<pc, existing_signers, signers>>
      /\ Connected => signer_stream' = Append(signer_stream, m)
      /\ ~Connected => signer_stream' = signer_stream
      /\ lost_signers \subseteq lost_signers'
      /\ pc = "disconnected" => <<o, k>> \in lost_signers'
  BY Zenon DEF SignerChanges, monitor
<1>2. /\ signer_stream \in Seq(SignerUpdate) /\ m \in SignerUpdate
      /\ m.owner = o /\ m.signer = k /\ m.state = state
      /\ request_signer \in [Owner \X Signer -> SignerState]
      /\ signers \in [Signer -> Owner \cup {Nobody}]
      /\ Connected' = Connected /\ (~Connected => signer_stream = <<>>)
  BY <1>1, Zenon DEF SignersInv, SignerUpdate, SignerState, Connected
<1>3. /\ request_signer' \in [Owner \X Signer -> SignerState]
      /\ request_signer'[<<o, k>>] = state /\ state # "none"
      /\ \A p \in Owner, l \in Signer :
             <<p, l>> # <<o, k>> => request_signer'[<<p, l>>] = request_signer[<<p, l>>]
  BY <1>1, <1>2, Zenon
<1>4. ASSUME Connected, NEW M, NEW V
      PROVE  /\ Mentions(signer_stream', M) <=> Mentions(signer_stream, M) \/ m \in M
             /\ m \in M /\ m \in V => EndsIn(signer_stream', M, V)
             /\ m \notin M /\ EndsIn(signer_stream, M, V) => EndsIn(signer_stream', M, V)
  <2> HIDE DEF m
  <2>1. signer_stream' = Append(signer_stream, m)
    BY <1>1, <1>4
  <2> QED
    BY <1>2, <2>1, SentMessage, Zenon
<1>5. signer_stream' \in Seq(SignerUpdate)
  <2> HIDE DEF m
  <2>1. Append(signer_stream, m) \in Seq(SignerUpdate)
    BY <1>2
  <2> QED
    BY <1>1, <1>2, <2>1, Zenon
<1> HIDE DEF m
<1>6. ASSUME NEW p \in Owner, NEW l \in Signer, <<p, l>> # <<o, k>>
      PROVE  SignerFollows(p, l)'
  <2>1. SignerFollows(p, l) /\ request_signer'[<<p, l>>] = request_signer[<<p, l>>]
    BY <1>3, <1>6 DEF SignersInv
  <2>2. m \notin UpdatesOfSigner(p, l)
    BY <1>2, <1>6, Zenon DEF UpdatesOfSigner
  <2>3. /\ Mentions(signer_stream', UpdatesOfSigner(p, l))
               <=> Mentions(signer_stream, UpdatesOfSigner(p, l))
        /\ EndsIn(signer_stream', UpdatesOfSigner(p, l), Saying(request_signer[<<p, l>>]))
    <3>1. EndsIn(signer_stream, UpdatesOfSigner(p, l), Saying(request_signer[<<p, l>>]))
      BY <2>1, Zenon DEF SignerFollows
    <3>2. CASE Connected
      BY <1>4, <2>2, <3>1, <3>2, Zenon
    <3>3. CASE ~Connected
      BY <1>1, <3>1, <3>3, Zenon
    <3> QED
      BY <3>2, <3>3, Zenon
  <2>4. OnlyOwner(p, l)' => OnlyOwner(p, l)
    <3>1. ASSUME NEW q \in Owner \ {p}, request_signer'[<<q, l>>] = "none"
          PROVE  request_signer[<<q, l>>] = "none"
      BY <1>3, <3>1, Zenon
    <3> QED
      BY <3>1, Zenon DEF OnlyOwner
  <2> QED
    BY <1>1, <2>1, <2>3, <2>4, Zenon DEF SignerFollows, HoldsSigner
<1>7. SignerFollows(o, k)'
  <2>1. m \in UpdatesOfSigner(o, k) /\ m \in Saying(state)
    BY <1>2, Zenon DEF UpdatesOfSigner, Saying
  <2>2. EndsIn(signer_stream', UpdatesOfSigner(o, k), Saying(state))
    <3>1. CASE Connected
      BY <1>4, <2>1, <3>1
    <3>2. CASE ~Connected
      BY <1>1, <1>2, <3>2, EmptyStream, Zenon
    <3> QED
      BY <3>1, <3>2
  <2>3. CASE Connected
    <3>1. Mentions(signer_stream', UpdatesOfSigner(o, k))
      BY <1>4, <2>1, <2>3
    <3> QED
      BY <1>3, <2>2, <3>1, Zenon DEF SignerFollows
  <2>4. CASE ~Connected
    <3>1. pc' # "fetched" /\ pc' # "running"
      BY <1>1, <2>4 DEF Connected
    <3> QED
      BY <1>1, <1>3, <2>2, <3>1, Zenon DEF SignerFollows
  <2> QED
    BY <2>3, <2>4
<1>8. \A p \in Owner, l \in Signer : SignerFollows(p, l)'
  BY <1>6, <1>7
<1> QED
  BY <1>1, <1>2, <1>3, <1>5, <1>8, Zenon DEF SignersInv

LEMMA FetchSignersFollow ==
    ASSUME SignersInv, FetchExisting
    PROVE  SignersInv'
<1> DEFINE Active(k) == {o \in Owner : request_signer[<<o, k>>] = "active"}
<1>1. /\ pc = "subscribed" /\ pc' = "fetched"
      /\ UNCHANGED <<request_signer, signer_stream, signers, lost_signers>>
      /\ existing_signers' \in [Signer -> Owner \cup {Nobody}]
      /\ \A k \in Signer : existing_signers'[k] \in IF Active(k) = {} THEN {Nobody} ELSE Active(k)
  BY Zenon DEF FetchExisting
<1>2. Connected' = Connected
  BY <1>1 DEF Connected
<1>3. ASSUME NEW o \in Owner, NEW k \in Signer
      PROVE  SignerFollows(o, k)'
  <2>1. SignerFollows(o, k)
    BY DEF SignersInv
  <2>2. existing_signers'[k] = o => request_signer[<<o, k>>] = "active"
    BY <1>1, NobodyAssumption, Zenon
  <2>3. request_signer[<<o, k>>] = "active" /\ OnlyOwner(o, k) => existing_signers'[k] = o
    <3>1. ASSUME request_signer[<<o, k>>] = "active", OnlyOwner(o, k)
          PROVE  Active(k) = {o}
      BY <3>1 DEF OnlyOwner
    <3> QED
      BY <1>1, <3>1, Zenon
  <2>4. HoldsSigner(existing_signers, o, k)'
    BY <1>1, <2>2, <2>3, Zenon DEF HoldsSigner, OnlyOwner
  <2> QED
    BY <1>1, <2>1, <2>4, Zenon DEF SignerFollows
<1> QED
  BY <1>1, <1>2, <1>3, Zenon DEF SignersInv

\* The cache is sent what the fetch has found.
LEMMA SubscribeSignersFollow ==
    ASSUME SignersInv, SubscribeToEscrows
    PROVE  SignersInv'
<1>1. /\ pc = "fetched" /\ pc' = "running" /\ signers' = existing_signers
      /\ existing_signers' = [k \in Signer |-> Nobody]
      /\ UNCHANGED <<request_signer, signer_stream, lost_signers>>
  BY Zenon DEF SubscribeToEscrows
<1>2. Connected' = Connected
  BY <1>1 DEF Connected
<1>3. ASSUME NEW o \in Owner, NEW k \in Signer
      PROVE  SignerFollows(o, k)'
  <2>1. SignerFollows(o, k)
    BY DEF SignersInv
  <2> QED
    BY <1>1, <2>1, Zenon DEF SignerFollows, HoldsSigner, OnlyOwner
<1> QED
  BY <1>1, <1>2, <1>3 DEF SignersInv

LEMMA SignerUpdateFollows ==
    ASSUME SignersInv, on_request_signer_received
    PROVE  SignersInv'
<1> DEFINE m == Head(signer_stream)
<1>1. /\ signer_stream \in Seq(SignerUpdate) /\ signer_stream # <<>> /\ m \in SignerUpdate
      /\ signer_stream' = Tail(signer_stream) /\ signer_stream' \in Seq(SignerUpdate)
  BY DEF on_request_signer_received, SignersInv
<1>2. /\ signers' = [signers EXCEPT ![m.signer] = IF m.state = "active" THEN m.owner ELSE Nobody]
      /\ lost_signers' = lost_signers \ {<<m.owner, m.signer>>}
      /\ UNCHANGED <<request_signer, existing_signers, pc>> /\ pc = "running"
  BY Zenon DEF on_request_signer_received, AfterSignerUpdate, monitor
<1>3. ASSUME NEW M, NEW V
      PROVE  /\ Mentions(signer_stream, M) <=> Mentions(signer_stream', M) \/ m \in M
             /\ EndsIn(signer_stream, M, V) => EndsIn(signer_stream', M, V)
             /\ EndsIn(signer_stream, M, V) /\ m \in M /\ ~Mentions(signer_stream', M) => m \in V
  BY <1>1, ReadMessage, Zenon
<1> HIDE DEF m
<1>4. /\ m.owner \in Owner /\ m.signer \in Signer /\ m.state \in {"active", "inactive"}
      /\ existing_signers \in [Signer -> Owner \cup {Nobody}]
      /\ signers \in [Signer -> Owner \cup {Nobody}]
      /\ request_signer \in [Owner \X Signer -> SignerState]
  BY <1>1 DEF SignerUpdate, SignersInv
<1> DEFINE new_owner == IF m.state = "active" THEN m.owner ELSE Nobody
<1>5. new_owner \in Owner \cup {Nobody}
  BY <1>4, Zenon
<1>6. /\ signers' \in [Signer -> Owner \cup {Nobody}]
      /\ \A k \in Signer : signers'[k] = IF k = m.signer THEN new_owner ELSE signers[k]
  <2> HIDE DEF new_owner
  <2>1. signers' = [signers EXCEPT ![m.signer] = new_owner]
    BY <1>2 DEF new_owner
  <2> QED
    BY <1>4, <1>5, <2>1, Zenon
<1>7. ASSUME NEW o \in Owner, NEW k \in Signer
      PROVE  SignerFollows(o, k)'
  <2>1. SignerFollows(o, k)
    BY <1>7 DEF SignersInv
  <2>2. EndsIn(signer_stream', UpdatesOfSigner(o, k), Saying(request_signer[<<o, k>>]))
    BY <1>3, <2>1, Zenon DEF SignerFollows
  <2>3. Mentions(signer_stream', UpdatesOfSigner(o, k)) => request_signer[<<o, k>>] # "none"
    BY <1>3, <2>1, Zenon DEF SignerFollows
  <2>4. ASSUME <<o, k>> \notin lost_signers', ~Mentions(signer_stream', UpdatesOfSigner(o, k))
        PROVE  /\ signers'[k] = o => request_signer[<<o, k>>] = "active"
               /\ request_signer[<<o, k>>] = "active" /\ OnlyOwner(o, k) => signers'[k] = o
    <3>1. CASE m.signer # k
      <4>1. m \notin UpdatesOfSigner(o, k) /\ signers'[k] = signers[k]
        BY <1>6, <3>1, Zenon DEF UpdatesOfSigner
      <4>2. <<o, k>> \notin lost_signers
        BY <1>2, <2>4, <3>1
      <4>3. HoldsSigner(signers, o, k)
        BY <1>2, <1>3, <2>1, <2>4, <4>1, <4>2, Zenon DEF SignerFollows
      <4> QED
        BY <4>1, <4>3, Zenon DEF HoldsSigner
    <3>2. CASE m.signer = k /\ m.owner = o
      <4>1. m \in UpdatesOfSigner(o, k)
        BY <1>1, <3>2 DEF UpdatesOfSigner
      <4>2. m \in Saying(request_signer[<<o, k>>])
        BY <1>3, <2>1, <2>4, <4>1, Zenon DEF SignerFollows
      <4>3. m.state = request_signer[<<o, k>>]
        BY <4>2, Zenon DEF Saying
      <4> QED
        BY <1>4, <1>6, <3>2, <4>3, NobodyAssumption, Zenon
    <3>3. CASE m.signer = k /\ m.owner # o
      <4>1. signers'[k] # o
        BY <1>6, <3>3, NobodyAssumption
      <4>2. request_signer[<<m.owner, k>>] # "none"
        <5>1. m \in UpdatesOfSigner(m.owner, k) /\ SignerFollows(m.owner, k)
          BY <1>1, <1>4, <3>3, Zenon DEF UpdatesOfSigner, SignersInv
        <5> QED
          BY <1>3, <5>1, Zenon DEF SignerFollows
      <4>3. ~OnlyOwner(o, k)
        BY <1>4, <3>3, <4>2, Zenon DEF OnlyOwner
      <4> QED
        BY <4>1, <4>3, Zenon
    <3> QED
      BY <3>1, <3>2, <3>3, Zenon
  <2>5. OnlyOwner(o, k)' <=> OnlyOwner(o, k)
    BY <1>2 DEF OnlyOwner
  <2> QED
    BY <1>2, <2>2, <2>3, <2>4, <2>5, Zenon DEF SignerFollows, HoldsSigner
<1> QED
  BY <1>1, <1>2, <1>4, <1>6, <1>7, Zenon DEF SignersInv, Connected

LEMMA DisconnectSignersFollow ==
    ASSUME SignersInv, Disconnect
    PROVE  SignersInv'
<1>1. /\ UNCHANGED <<request_signer, existing_signers, signers>> /\ signer_stream' = <<>>
      /\ lost_signers' = lost_signers \cup PendingSigners
      /\ pc = "running" /\ pc' = "disconnected"
  BY Zenon DEF Disconnect
<1>2. ASSUME NEW o \in Owner, NEW k \in Signer
      PROVE  SignerFollows(o, k)'
  <2>1. /\ SignerFollows(o, k)
        /\ <<o, k>> \in PendingSigners <=> Mentions(signer_stream, UpdatesOfSigner(o, k))
    BY PendingSignersMean, Zenon DEF SignersInv
  <2>2. /\ ~Mentions(signer_stream', UpdatesOfSigner(o, k))
        /\ EndsIn(signer_stream', UpdatesOfSigner(o, k), Saying(request_signer[<<o, k>>]))
    BY <1>1, EmptyStream, Zenon
  <2>3. OnlyOwner(o, k)' <=> OnlyOwner(o, k)
    BY <1>1, Zenon DEF OnlyOwner
  <2> QED
    BY <1>1, <2>1, <2>2, <2>3, Zenon DEF SignerFollows, HoldsSigner
<1>3. signer_stream' \in Seq(SignerUpdate)
  BY <1>1
<1> QED
  BY <1>1, <1>2, <1>3, Zenon DEF SignersInv

\* Nothing that concerns the signers happens in the other steps.
LEMMA SignersStay ==
    ASSUME SignersInv,
           UNCHANGED <<request_signer, signer_stream, existing_signers, signers, lost_signers>>,
           \/ UNCHANGED pc
           \/ <<pc, pc'>> \in {<<"off", "subscribed">>, <<"disconnected", "running">>}
    PROVE  SignersInv'
<1>1. /\ pc' = "fetched" => pc = "fetched"
      /\ pc' \in {"running", "disconnected"} => pc \in {"running", "disconnected"}
      /\ Connected => Connected'
  BY DEF Connected
<1>2. ASSUME NEW o \in Owner, NEW k \in Signer
      PROVE  SignerFollows(o, k)'
  <2>1. SignerFollows(o, k)
    BY DEF SignersInv
  <2> QED
    BY <1>1, <2>1, Zenon DEF SignerFollows, HoldsSigner, OnlyOwner
<1> QED
  BY <1>1, <1>2, Zenon DEF SignersInv

LEMMA SignersStep == SignersInv /\ [Next]_vars => SignersInv'
<1> SUFFICES ASSUME SignersInv, [Next]_vars PROVE SignersInv'
  OBVIOUS
<1>1. ASSUME NEW o \in Owner, NEW k \in Signer, NEW state \in SignerState \ {"none"},
             SignerChanges(o, k, state)
      PROVE  SignersInv'
  BY <1>1, SignerTransactionFollows DEF SignerState
<1>2. CASE FetchExisting
  BY <1>2, FetchSignersFollow
<1>3. CASE SubscribeToEscrows
  BY <1>3, SubscribeSignersFollow
<1>4. CASE on_request_signer_received
  BY <1>4, SignerUpdateFollows
<1>5. CASE Disconnect
  BY <1>5, DisconnectSignersFollow
<1> DEFINE Others ==
        /\ UNCHANGED <<request_signer, signer_stream, existing_signers, signers, lost_signers>>
        /\ \/ UNCHANGED pc
           \/ <<pc, pc'>> \in {<<"off", "subscribed">>, <<"disconnected", "running">>}
<1>6. ASSUME Others PROVE SignersInv'
  BY <1>6, SignersStay
<1>7. ASSUME NEW s \in Stack, NEW r, StackChanges(s, r) PROVE Others
  BY <1>7, Zenon DEF StackChanges, monitor, signing
<1>8. ASSUME NEW s \in Stack, StackDeployed(s) \/ StackDeleted(s) PROVE Others
  BY <1>7, <1>8 DEF StackDeployed, StackDeleted
<1>9. ASSUME NEW o \in Owner, NEW balance, EscrowChanges(o, balance) PROVE Others
  BY <1>9, Zenon DEF EscrowChanges, monitor, signing
<1>10. ASSUME Subscribe PROVE Others
  BY <1>10 DEF Subscribe, signing
<1>11. ASSUME on_new_stack_received PROVE Others
  BY <1>11 DEF on_new_stack_received, signing
<1>12. ASSUME NEW o \in Owner, on_solana_escrow_updated(o) PROVE Others
  BY <1>12, Zenon DEF on_solana_escrow_updated, signing
<1>13. ASSUME reconnect_solana_subscriber PROVE Others
  BY <1>13 DEF reconnect_solana_subscriber, signing
<1>14. ASSUME UNCHANGED vars PROVE Others
  BY <1>14 DEF vars, monitor, signing
<1> HIDE DEF Others
<1> QED
  BY <1>1, <1>2, <1>3, <1>4, <1>5, <1>6, <1>8, <1>9, <1>10, <1>11, <1>12, <1>13, <1>14, Zenon
     DEF Next, Transaction, Start

\* For any number of owners, signers and failures, the cache accepts a signer for a
\* stack of another owner's only while that owner has it active, and accepts an
\* active one that nobody else has registered, unless the signer's last change is
\* on its way or was lost.
THEOREM SignersAlwaysCatchUp == Spec => []SignersCatchUp
<1>1. SignersInv => SignersCatchUp
  <2> SUFFICES ASSUME SignersInv, pc \in {"running", "disconnected"},
                      NEW s \in Stack, NEW k \in Signer, k # OwnerOf[s],
                      <<OwnerOf[s], k>> \notin lost_signers \cup PendingSigners
               PROVE  /\ is_valid_signer(s, k) => request_signer[<<OwnerOf[s], k>>] = "active"
                      /\ /\ available[s] # 0
                         /\ OnlyOwner(OwnerOf[s], k)
                         /\ request_signer[<<OwnerOf[s], k>>] = "active"
                         => is_valid_signer(s, k)
    BY Zenon DEF SignersCatchUp, OnlyOwner
  <2>1. OwnerOf[s] \in Owner
    BY OwnerOfAssumption
  <2>2. SignerFollows(OwnerOf[s], k) /\ ~Mentions(signer_stream, UpdatesOfSigner(OwnerOf[s], k))
    BY <2>1, PendingSignersMean DEF SignersInv
  <2>3. HoldsSigner(signers, OwnerOf[s], k)
    BY <2>2, Zenon DEF SignerFollows
  <2> QED
    BY <2>3, Zenon DEF HoldsSigner, is_valid_signer
<1> QED
  BY <1>1, SignersInit, SignersStep, PTL DEF Spec
=============================================================================
