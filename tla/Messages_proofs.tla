--------------------------- MODULE Messages_proofs ---------------------------
(***************************************************************************)
(* Proofs about Messages, for any stores of messages and dates, any numbers a  *)
(* message is sent to, and whatever the router and its page do: ReportsOwed,   *)
(* DeletesKeep and SendsAreTold.                                             *)
(*                                                                         *)
(* The three speak of different variables and share only what the router       *)
(* holds, so the strengthening has three parts.  Reporting ties what was       *)
(* reported to what is tracked; Asked says where the ids of a delete come      *)
(* from; Told says what the counters of a send told before its message, and    *)
(* so what they tell after it.                                               *)
(***************************************************************************)
EXTENDS Messages, FiniteSetTheorems, TLAPS

-----------------------------------------------------------------------------
(* Finite sets of messages.                                                  *)

LEMMA IdsFacts == IsFiniteSet(Ids) /\ Ids \subseteq Nat
  <1> DEFINE sent == {SentId[i] : i \in Targets}
  <1>1. Numbers \in Nat /\ SentId \in [Targets -> Nat]
        /\ IsFiniteSet(Received \cup PageSent \cup PageDraft)
        /\ Received \cup PageSent \cup PageDraft \subseteq Nat
    BY MessagesConstants
  <1>2. IsFiniteSet(Targets)
    BY <1>1, FS_Interval DEF Targets
  <1>3. SentId \in Surjection(Targets, sent)
    BY <1>1 DEF Surjection
  <1>4. IsFiniteSet(sent)
    BY <1>2, <1>3, FS_Surjection
  <1>5. IsFiniteSet(sent \cup (Received \cup PageSent \cup PageDraft))
    BY <1>1, <1>4, FS_Union
  <1>6. Ids = sent \cup (Received \cup PageSent \cup PageDraft)
    BY DEF Ids, Copies
  <1> QED
    BY <1>1, <1>5, <1>6

LEMMA Counted ==
  ASSUME NEW list \in SUBSET Ids
  PROVE  IsFiniteSet(list) /\ Cardinality(list) \in Nat
  BY IdsFacts, FS_Subset, FS_CardinalityType

\* A message of a list that has the least of a count.
LEMMA Least ==
  ASSUME NEW list, list # {}, NEW count \in [list -> Nat]
  PROVE  \E m \in list : \A n \in list : count[m] <= count[n]
  <1> DEFINE counts == {count[m] : m \in list}
  <1>1. counts \subseteq Nat /\ counts # {}
    OBVIOUS
  <1>2. IsWellFoundedOn(OpToRel(<, Nat), Nat)
    BY NatLessThanWellFounded
  <1>3. \E x \in counts : \A y \in counts : <<y, x>> \notin OpToRel(<, Nat)
    BY <1>1, <1>2, WFMin
  <1>4. PICK x \in counts : \A y \in counts : ~(y < x)
    BY <1>1, <1>3 DEF OpToRel
  <1>5. PICK m \in list : count[m] = x
    BY <1>4
  <1> QED
    BY <1>1, <1>4, <1>5

\* One set of messages inside another that has one more.
LEMMA Fewer ==
  ASSUME NEW list \in SUBSET Ids, NEW fewer \in SUBSET list, NEW m \in list \ fewer
  PROVE  Cardinality(fewer) < Cardinality(list)
  <1>1. IsFiniteSet(list)
    BY Counted
  <1>2. Cardinality(fewer) <= Cardinality(list) /\ Cardinality(fewer) # Cardinality(list)
    BY <1>1, FS_Subset
  <1>3. Cardinality(fewer) \in Nat /\ Cardinality(list) \in Nat
    BY Counted
  <1> QED
    BY <1>2, <1>3

LEMMA DateType == \A m \in Ids : Date[m] \in Nat
  BY MessagesConstants

\* A list has a latest date.
LEMMA LatestIs ==
  ASSUME NEW list \in SUBSET Ids, list # {}
  PROVE  /\ \E m \in list : Date[m] = Latest(list)
         /\ \A m \in list : Date[m] <= Latest(list)
         /\ Latest(list) \in Nat
  <1> DEFINE after(m) == {n \in list : Date[n] > Date[m]}
             count == [m \in list |-> Cardinality(after(m))]
  <1>1. count \in [list -> Nat]
    BY Counted
  <1>2. PICK m \in list : \A n \in list : count[m] <= count[n]
    <2> HIDE DEF count
    <2> QED
      BY <1>1, Least
  <1>3. \A n \in list : Date[n] <= Date[m]
    <2> SUFFICES ASSUME NEW n \in list, Date[n] > Date[m] PROVE FALSE
      BY DateType
    <2>1. after(n) \subseteq after(m) /\ n \in after(m) /\ n \notin after(n)
      BY DateType
    <2>2. count[n] < count[m]
      <3>1. after(m) \in SUBSET Ids /\ after(n) \in SUBSET after(m)
            /\ n \in after(m) \ after(n)
        BY <2>1
      <3> HIDE DEF after
      <3> QED
        BY <3>1, Fewer
    <2> HIDE DEF count
    <2> QED
      BY <1>1, <1>2, <2>2
  <1>4. Date[m] \in {Date[n] : n \in list}
    OBVIOUS
  <1>5. /\ Latest(list) \in {Date[n] : n \in list}
        /\ \A n \in list : Date[n] <= Latest(list)
    <2> HIDE DEF after, count
    <2> QED
      BY <1>3, <1>4 DEF Latest
  <1> QED
    BY <1>5, DateType

-----------------------------------------------------------------------------
(* The newest of a list.                                                     *)

LEMMA NewerIsOrder ==
  ASSUME NEW a \in Ids, NEW b \in Ids, NEW c \in Ids
  PROVE  /\ ~Newer(a, a)
         /\ Newer(a, b) /\ Newer(b, c) => Newer(a, c)
         /\ a # b => Newer(a, b) \/ Newer(b, a)
  BY IdsFacts, DateType DEF Newer

\* What goes is older than all that stays, and what stays is as much as was told.
LEMMA NewestAreKept ==
  ASSUME NEW list \in SUBSET Ids, NEW keep \in Nat
  PROVE  LET gone == BeyondTheNewest(list, keep)
         IN  /\ gone \subseteq list
             /\ \A m \in list \ gone, n \in gone : Newer(m, n)
             /\ gone # {} => Cardinality(list \ gone) = keep
  <1> DEFINE gone == BeyondTheNewest(list, keep)
             kept == list \ gone
             newer(m) == {n \in list : Newer(n, m)}
             rank == [m \in list |-> Cardinality(newer(m))]
  <1>1. rank \in [list -> Nat]
    BY Counted
  <1>2. /\ gone = {m \in list : rank[m] >= keep}
        /\ kept = {m \in list : rank[m] < keep}
    <2>1. gone = {m \in list : rank[m] >= keep}
      BY DEF BeyondTheNewest
    <2> HIDE DEF rank, gone
    <2> QED
      BY <1>1, <2>1
  <1>3. ASSUME NEW a \in list, NEW b \in list, Newer(a, b)
        PROVE  rank[a] < rank[b]
    <2>1. newer(a) \subseteq newer(b) /\ a \in newer(b) \ newer(a)
      BY <1>3, NewerIsOrder
    <2>2. newer(b) \in SUBSET Ids /\ newer(a) \in SUBSET newer(b)
          /\ a \in newer(b) \ newer(a)
      BY <2>1
    <2>3. Cardinality(newer(a)) < Cardinality(newer(b))
      <3> HIDE DEF newer
      <3> QED
        BY <2>2, Fewer
    <2> QED
      BY <2>3
  <1>4. \A m \in list : rank[m] = Cardinality(newer(m))
    OBVIOUS
  <1> HIDE DEF rank, gone
  <1>5. \A m \in kept, n \in gone : Newer(m, n)
    <2> TAKE m \in kept, n \in gone
    <2>1. m \in list /\ n \in list /\ rank[m] < rank[n] /\ ~(rank[n] < rank[m])
      BY <1>1, <1>2
    <2> QED
      BY <1>3, <2>1, NewerIsOrder
  <1>6. ASSUME gone # {}
        PROVE  Cardinality(kept) = keep
    <2>1. PICK m \in gone : \A n \in gone : rank[m] <= rank[n]
      <3> DEFINE count == [n \in gone |-> rank[n]]
      <3>1. count \in [gone -> Nat]
        BY <1>1, <1>2
      <3>2. \E m \in gone : \A n \in gone : count[m] <= count[n]
        <4> HIDE DEF count
        <4> QED
          BY <1>6, <3>1, Least
      <3> QED
        BY <3>2
    <2>2. newer(m) = kept
      <3>1. ASSUME NEW n \in newer(m) PROVE n \in kept
        <4>1. n \in list /\ rank[n] < rank[m] /\ rank[n] \in Nat /\ rank[m] \in Nat
          BY <1>1, <1>2, <1>3, <2>1
        <4> QED
          BY <2>1, <4>1
      <3>2. ASSUME NEW n \in kept PROVE n \in newer(m)
        BY <1>5, <2>1
      <3> QED
        BY <3>1, <3>2
    <2>3. Cardinality(kept) = rank[m] /\ rank[m] >= keep /\ rank[m] \in Nat
      BY <1>1, <1>2, <1>4, <2>1, <2>2
    <2>4. Cardinality(kept) <= keep
      <3>1. CASE kept = {}
        BY <3>1, FS_EmptySet
      <3>2. CASE kept # {}
        <4>1. PICK k \in kept : \A n \in kept : rank[n] <= rank[k]
          <5> DEFINE count == [n \in kept |-> keep - rank[n]]
          <5>1. count \in [kept -> Nat]
            BY <1>1, <1>2
          <5>2. \E k \in kept : \A n \in kept : count[k] <= count[n]
            <6> HIDE DEF count
            <6> QED
              BY <3>2, <5>1, Least
          <5>3. PICK k \in kept : \A n \in kept : keep - rank[k] <= keep - rank[n]
            BY <5>2
          <5> QED
            BY <1>1, <1>2, <5>3
        <4>2. kept \subseteq newer(k) \cup {k}
          <5> SUFFICES ASSUME NEW n \in kept, n # k PROVE Newer(n, k)
            OBVIOUS
          <5>1. ~Newer(k, n)
            BY <1>1, <1>3, <4>1
          <5> QED
            BY <5>1, NewerIsOrder
        <4>3. /\ IsFiniteSet(newer(k)) /\ Cardinality(newer(k)) \in Nat
              /\ Cardinality(newer(k)) < keep
          BY <1>2, <1>4, Counted
        <4>4. /\ IsFiniteSet(newer(k) \cup {k})
              /\ Cardinality(newer(k) \cup {k}) <= Cardinality(newer(k)) + 1
          <5> HIDE DEF newer
          <5> QED
            BY <4>3, FS_AddElement
        <4>5. Cardinality(kept) <= Cardinality(newer(k) \cup {k})
              /\ Cardinality(newer(k) \cup {k}) \in Nat
          <5> HIDE DEF newer, kept
          <5> QED
            BY <4>2, <4>4, FS_Subset, FS_CardinalityType
        <4>6. Cardinality(kept) \in Nat
          BY Counted
        <4> QED
          BY <4>3, <4>4, <4>5, <4>6
      <3> QED
        BY <3>1, <3>2
    <2> QED
      BY <2>3, <2>4
  <1> QED
    BY <1>2, <1>5, <1>6 DEF gone

-----------------------------------------------------------------------------
(* New messages.                                                             *)

EventsTyped ==
    /\ tracking \in [last : Nat, seen : SUBSET Ids, there : SUBSET Ids]
    /\ held \in [has : BOOLEAN, list : SUBSET Ids] /\ fired \in [Ids -> Nat]

\* Reported is what is dated before the latest, or tracked with that date; what
\* is tracked was reported, or there at first.
Reporting ==
    /\ tracking.last = 0 => tracking = Untracked /\ \A m \in Ids : fired[m] = 0
    /\ \A m \in Ids : fired[m] > 0 =>
           \/ Date[m] < tracking.last
           \/ Date[m] = tracking.last /\ m \in tracking.seen
    /\ \A m \in tracking.seen : fired[m] > 0 \/ m \in tracking.there

EventsInv == EventsTyped /\ Reporting /\ ReportedOnce /\ NonePassedOver

LEMMA EventsRest ==
  ASSUME EventsInv, UNCHANGED events
  PROVE  EventsInv'
  BY DEF EventsInv, events, EventsTyped, Reporting, ReportedOnce, NonePassedOver

LEMMA EventsStart ==
  ASSUME tracking = Untracked, held = [has |-> FALSE, list |-> {}],
         fired = [m \in Ids |-> 0]
  PROVE  EventsInv
  <1>1. EventsTyped
    BY DEF EventsTyped, Untracked
  <1> QED
    BY <1>1 DEF EventsInv, Reporting, ReportedOnce, NonePassedOver, Untracked

LEMMA EventsRestart ==
  ASSUME tracking' = Untracked, held' = [has |-> FALSE, list |-> {}],
         fired' = [m \in Ids |-> 0]
  PROVE  EventsInv'
  <1>1. EventsTyped'
    BY DEF EventsTyped, Untracked
  <1> QED
    BY <1>1 DEF EventsInv, Reporting, ReportedOnce, NonePassedOver, Untracked

\* A list is reported from: nothing twice, and nothing of it is passed over.
LEMMA CheckInv ==
  ASSUME EventsInv, NEW listed \in SUBSET Ids, Check(listed),
         held' \in [has : BOOLEAN, list : SUBSET Ids],
         held'.list = listed
  PROVE  EventsInv'
  <1> DEFINE list == {m \in listed : Date[m] # 0}
  <1>1. EventsTyped /\ \A m \in Ids : Date[m] \in Nat /\ fired[m] \in Nat
    BY DateType DEF EventsInv, EventsTyped
  <1>2. CASE list = {}
    <2>1. UNCHANGED <<tracking, fired>>
      BY <1>2 DEF Check
    <2> QED
      BY <1>2, <2>1 DEF EventsInv, EventsTyped, Reporting, ReportedOnce, NonePassedOver
  <1>3. CASE list # {}
    <2> DEFINE top == Latest(list)
    <2>1. /\ \E m \in list : Date[m] = top
          /\ \A m \in list : Date[m] <= top
          /\ top \in Nat /\ top > 0
      <3>1. list \in SUBSET Ids
        OBVIOUS
      <3>2. /\ \E m \in list : Date[m] = top
            /\ \A m \in list : Date[m] <= top
            /\ top \in Nat
        BY <1>3, <3>1, LatestIs
      <3>3. \A m \in list : Date[m] \in Nat /\ Date[m] # 0
        BY <1>1
      <3> HIDE DEF top, list
      <3> QED
        BY <3>2, <3>3
    <2>2. /\ tracking' = Sees(list)
          /\ fired' = IF tracking.last = 0 THEN fired
                      ELSE [m \in Ids |-> fired[m] + IF m \in New(list) THEN 1 ELSE 0]
      BY <1>3 DEF Check
    <2> HIDE DEF top
    <2>3. CASE tracking.last = 0
      <3>1. /\ tracking' = [last |-> top, seen |-> {m \in list : Date[m] = top},
                            there |-> list]
            /\ fired' = fired /\ \A m \in Ids : fired[m] = 0
        BY <2>2, <2>3 DEF Sees, top, EventsInv, Reporting
      <3>2. EventsTyped'
        BY <1>1, <2>1, <3>1 DEF EventsTyped
      <3>3. Reporting' /\ ReportedOnce'
        BY <2>1, <3>1 DEF Reporting, ReportedOnce
      <3>4. NonePassedOver'
        BY <3>1 DEF NonePassedOver
      <3> QED
        BY <3>2, <3>3, <3>4 DEF EventsInv
    <2>4. CASE tracking.last # 0
      <3>0. tracking.last \in Nat /\ tracking.seen \subseteq Ids
            /\ tracking.there \subseteq Ids
        BY <1>1 DEF EventsTyped
      <3>1. /\ fired' = [m \in Ids |-> fired[m] + IF m \in New(list) THEN 1 ELSE 0]
            /\ \A m \in Ids : fired'[m] = IF m \in New(list) THEN fired[m] + 1 ELSE fired[m]
            /\ New(list) \subseteq list
            /\ \A m \in New(list) : \/ Date[m] > tracking.last
                                    \/ Date[m] = tracking.last /\ m \notin tracking.seen
            /\ \A m \in list \ New(list) :
                  \/ Date[m] < tracking.last
                  \/ Date[m] = tracking.last /\ m \in tracking.seen
        BY <1>1, <2>2, <2>4, <3>0 DEF New
      <3>2. \A m \in New(list) : fired[m] = 0
        BY <1>1, <3>0, <3>1 DEF EventsInv, Reporting
      <3>3. ReportedOnce' /\ fired' \in [Ids -> Nat]
        BY <1>1, <3>1, <3>2 DEF EventsInv, ReportedOnce
      <3>4. CASE top > tracking.last
        <4>1. /\ tracking'.last = top /\ tracking'.there = tracking.there
              /\ tracking'.seen = {m \in list : Date[m] = top}
              /\ tracking' \in [last : Nat, seen : SUBSET Ids, there : SUBSET Ids]
          <5>1. tracking' = [last |-> top, seen |-> {m \in list : Date[m] = top},
                             there |-> tracking.there]
            BY <2>2, <2>4, <3>4 DEF Sees, top
          <5> QED
            BY <2>1, <3>0, <5>1
        <4>2. \A m \in Ids : fired'[m] > 0 =>
                 Date[m] < top \/ (Date[m] = top /\ m \in tracking'.seen)
          BY <1>1, <2>1, <3>0, <3>1, <3>4, <4>1 DEF EventsInv, Reporting
        <4>3. \A m \in tracking'.seen : fired'[m] > 0
          BY <1>1, <2>1, <3>0, <3>1, <3>2, <3>4, <4>1
        <4>4. NonePassedOver'
          BY <1>1, <2>1, <3>0, <3>1, <3>2, <3>4, <4>1 DEF NonePassedOver
        <4> QED
          BY <2>1, <3>3, <4>1, <4>2, <4>3, <4>4 DEF EventsInv, EventsTyped, Reporting
      <3>5. CASE top <= tracking.last
        <4>1. /\ tracking'.last = tracking.last /\ tracking'.there = tracking.there
              /\ tracking'.seen = tracking.seen \cup New(list)
              /\ tracking' \in [last : Nat, seen : SUBSET Ids, there : SUBSET Ids]
          <5>1. tracking' = [tracking EXCEPT !.seen = @ \cup New(list)]
            BY <2>1, <2>2, <2>4, <3>0, <3>5 DEF Sees, top
          <5> HIDE DEF list
          <5> QED
            BY <1>1, <3>0, <3>1, <5>1 DEF EventsTyped, list
        <4>2. \A m \in Ids : fired'[m] > 0 =>
                 \/ Date[m] < tracking.last
                 \/ Date[m] = tracking.last /\ m \in tracking'.seen
          BY <1>1, <2>1, <3>0, <3>1, <3>5, <4>1 DEF EventsInv, Reporting
        <4>3. \A m \in tracking'.seen : fired'[m] > 0 \/ m \in tracking'.there
          BY <1>1, <3>0, <3>1, <3>2, <4>1 DEF EventsInv, Reporting
        <4>4. NonePassedOver'
          BY <1>1, <3>0, <3>1, <3>2, <4>1 DEF EventsInv, Reporting, NonePassedOver
        <4> QED
          BY <2>4, <3>3, <4>1, <4>2, <4>3, <4>4 DEF EventsInv, EventsTyped, Reporting
      <3> QED
        BY <2>1, <3>0, <3>4, <3>5
    <2> QED
      BY <2>3, <2>4
  <1> QED
    BY <1>2, <1>3

-----------------------------------------------------------------------------
(* Deleting.                                                                 *)

BankTyped == bank \subseteq arrived /\ arrived \subseteq Ids /\ doomed \subseteq bank

DeleteTyped ==
    /\ del \in [at : {"idle", "listing", "posting", "verifying"}, keep : Keeps \cup {0},
                listed : SUBSET Ids, ids : SUBSET Ids, pass : 0..Passes,
                result : {"none", "done", "failed"}]
    /\ asked \subseteq Ids

\* What the router is to delete was asked for, of messages it has held; a delete
\* that has a result is over, and one that lists has chosen nothing.
Asked ==
    /\ doomed \subseteq asked \cup del.ids
    /\ del.ids \subseteq arrived
    /\ del.at # "idle" => del.result = "none"
    /\ del.at = "listing" => del.ids = {} /\ del.listed = {}

DeleteInv == BankTyped /\ DeleteTyped /\ Asked /\ DoneIsGone /\ NewestStay

LEMMA DeleteRests ==
  ASSUME DeleteInv, UNCHANGED <<router, del, asked>>
  PROVE  DeleteInv'
  BY DEF DeleteInv, router, BankTyped, DeleteTyped, Asked, DoneIsGone, NewestStay

LEMMA NoDeleteTyped ==
    /\ NoDelete.at = "idle" /\ NoDelete.keep = 0 /\ NoDelete.listed = {}
    /\ NoDelete.ids = {} /\ NoDelete.pass = 0 /\ NoDelete.result = "none"
    /\ NoDelete \in [at : {"idle", "listing", "posting", "verifying"},
                     keep : Keeps \cup {0}, listed : SUBSET Ids, ids : SUBSET Ids,
                     pass : 0..Passes, result : {"none", "done", "failed"}]
  <1>1. 0 \in 0..Passes
    BY MessagesConstants
  <1> QED
    BY <1>1 DEF NoDelete

\* A new message is in nothing that was chosen, and disturbs nothing.
LEMMA GrowsInv ==
  ASSUME DeleteInv, NEW m \in Ids \ arrived, UNCHANGED <<doomed, del, asked>>,
         bank' = bank \cup {m}, arrived' = arrived \cup {m}
  PROVE  DeleteInv'
  <1>1. BankTyped' /\ DeleteTyped' /\ Asked'
    BY DEF DeleteInv, BankTyped, DeleteTyped, Asked
  <1>2. DoneIsGone'
    BY DEF DeleteInv, Asked, DoneIsGone
  <1>3. NewestStay'
    BY DEF DeleteInv, NewestStay
  <1> QED
    BY <1>1, <1>2, <1>3 DEF DeleteInv

\* What the router deletes was asked for, by this delete or an earlier one.
LEMMA RouterDeletesInv ==
  ASSUME DeleteInv, NEW m, RouterDeletes(m)
  PROVE  DeleteInv'
  <1>1. /\ bank' = bank \ {m} /\ doomed' = doomed \ {m} /\ m \in doomed
        /\ UNCHANGED <<arrived, del, asked>>
    BY DEF RouterDeletes
  <1>2. BankTyped' /\ DeleteTyped' /\ Asked'
    BY <1>1 DEF DeleteInv, BankTyped, DeleteTyped, Asked
  <1>3. DoneIsGone'
    BY <1>1 DEF DeleteInv, DoneIsGone
  <1>4. NewestStay'
    BY <1>1 DEF DeleteInv, Asked, NewestStay
  <1> QED
    BY <1>2, <1>3, <1>4 DEF DeleteInv

LEMMA DeleteCalledInv ==
  ASSUME DeleteInv, NEW keep \in Keeps, DeleteCalled(keep)
  PROVE  DeleteInv'
  <1>1. /\ del' = [NoDelete EXCEPT !.at = "listing", !.keep = keep]
        /\ asked' = asked \cup del.ids /\ UNCHANGED router
    BY DEF DeleteCalled
  <1>2. /\ del'.at = "listing" /\ del'.listed = {} /\ del'.ids = {}
        /\ del'.result = "none"
        /\ del' \in [at : {"idle", "listing", "posting", "verifying"},
                     keep : Keeps \cup {0}, listed : SUBSET Ids, ids : SUBSET Ids,
                     pass : 0..Passes, result : {"none", "done", "failed"}]
    BY <1>1, NoDeleteTyped
  <1>3. BankTyped' /\ DeleteTyped' /\ Asked'
    BY <1>1, <1>2 DEF DeleteInv, router, BankTyped, DeleteTyped, Asked
  <1> QED
    BY <1>1, <1>2, <1>3 DEF DeleteInv, router, DoneIsGone, NewestStay

LEMMA DeleteOneCalledInv ==
  ASSUME DeleteInv, NEW m \in Received \cap arrived, DeleteOneCalled(m)
  PROVE  DeleteInv'
  <1>1. /\ del' = [NoDelete EXCEPT !.at = "posting", !.ids = {m}]
        /\ asked' = asked \cup del.ids /\ UNCHANGED router
    BY DEF DeleteOneCalled
  <1>2. /\ del'.at = "posting" /\ del'.listed = {} /\ del'.ids = {m}
        /\ del'.result = "none" /\ del'.keep = 0
        /\ del' \in [at : {"idle", "listing", "posting", "verifying"},
                     keep : Keeps \cup {0}, listed : SUBSET Ids, ids : SUBSET Ids,
                     pass : 0..Passes, result : {"none", "done", "failed"}]
    BY <1>1, NoDeleteTyped DEF Ids
  <1>3. BankTyped' /\ DeleteTyped' /\ Asked'
    BY <1>1, <1>2 DEF DeleteInv, router, BankTyped, DeleteTyped, Asked
  <1>4. del'.listed \ del'.ids = {}
    BY <1>2
  <1> QED
    BY <1>1, <1>2, <1>3, <1>4, FS_EmptySet
       DEF DeleteInv, router, DoneIsGone, NewestStay

LEMMA DeleteListsInv ==
  ASSUME DeleteInv, DeleteLists
  PROVE  DeleteInv'
  <1> DEFINE ids == BeyondTheNewest(bank, del.keep)
  <1>1. /\ del.at = "listing" /\ UNCHANGED <<router, asked>>
        /\ del.ids = {} /\ del.listed = {} /\ del.result = "none"
        /\ del' = IF ids = {} THEN [del EXCEPT !.at = "idle", !.listed = bank,
                                               !.result = "done"]
                  ELSE [del EXCEPT !.at = "posting", !.listed = bank, !.ids = ids]
    BY DEF DeleteLists, DeleteInv, Asked
  <1>2. del.keep \in Nat /\ bank \in SUBSET Ids
    <2>1. Keeps \subseteq Nat /\ del.keep \in Keeps \cup {0}
      BY MessagesConstants DEF DeleteInv, DeleteTyped
    <2>2. bank \in SUBSET Ids
      BY DEF DeleteInv, BankTyped
    <2>3. Keeps \cup {0} \subseteq Nat
      BY <2>1
    <2>4. del.keep \in Nat
      BY <2>1, <2>3, Zenon
    <2> QED
      BY <2>2, <2>4, Zenon
  <1>3. /\ ids \subseteq bank
        /\ \A m \in bank \ ids, n \in ids : Newer(m, n)
        /\ ids # {} => Cardinality(bank \ ids) = del.keep
    BY <1>2, NewestAreKept
  <1> HIDE DEF ids
  <1>4. /\ del'.listed = bank /\ del'.ids = ids /\ del'.keep = del.keep
        /\ del'.at = (IF ids = {} THEN "idle" ELSE "posting")
        /\ del'.result = (IF ids = {} THEN "done" ELSE "none")
        /\ DeleteTyped'
    <2>1. CASE ids = {}
      BY <1>1, <1>2, <2>1 DEF DeleteInv, DeleteTyped
    <2>2. CASE ids # {}
      BY <1>1, <1>2, <1>3, <2>2 DEF DeleteInv, DeleteTyped
    <2> QED
      BY <2>1, <2>2
  <1>5. BankTyped' /\ Asked'
    BY <1>1, <1>3, <1>4 DEF DeleteInv, BankTyped, Asked, router
  <1>6. DoneIsGone'
    BY <1>4 DEF DoneIsGone
  <1>7. NewestStay'
    BY <1>1, <1>3, <1>4 DEF DeleteInv, NewestStay, router
  <1> QED
    BY <1>4, <1>5, <1>6, <1>7 DEF DeleteInv

LEMMA DeletePostsInv ==
  ASSUME DeleteInv, NEW accepted \in BOOLEAN, DeletePosts(accepted)
  PROVE  DeleteInv'
  <1>1. PICK carried \in SUBSET (del.ids \cap bank) : doomed' = doomed \cup carried
    BY DEF DeletePosts
  <1>2. /\ del.at = "posting" /\ UNCHANGED <<bank, arrived, asked>>
        /\ del'.ids = del.ids /\ del'.listed = del.listed /\ del'.keep = del.keep
        /\ \/ del'.at = "verifying" /\ del'.result = del.result
           \/ del'.at = "idle" /\ del'.result = "failed"
        /\ DeleteTyped'
    <2>1. CASE accepted
      BY <2>1 DEF DeletePosts, DeleteInv, DeleteTyped
    <2>2. CASE ~accepted
      BY <2>2 DEF DeletePosts, DeleteInv, DeleteTyped
    <2> QED
      BY <2>1, <2>2
  <1>3. BankTyped' /\ Asked'
    BY <1>1, <1>2 DEF DeleteInv, BankTyped, Asked
  <1>4. DoneIsGone'
    BY <1>2 DEF DeleteInv, Asked, DoneIsGone
  <1>5. NewestStay'
    BY <1>2 DEF DeleteInv, NewestStay
  <1> QED
    BY <1>2, <1>3, <1>4, <1>5 DEF DeleteInv

LEMMA DeleteFailsInv ==
  ASSUME DeleteInv, DeleteFails
  PROVE  DeleteInv'
  <1>1. /\ del.at # "idle" /\ UNCHANGED <<router, asked>>
        /\ del'.ids = del.ids /\ del'.listed = del.listed /\ del'.keep = del.keep
        /\ del'.at = "idle" /\ del'.result = "failed"
        /\ DeleteTyped'
    BY DEF DeleteFails, DeleteInv, DeleteTyped
  <1>2. BankTyped' /\ Asked' /\ DoneIsGone'
    BY <1>1 DEF DeleteInv, BankTyped, Asked, DoneIsGone, router
  <1>3. NewestStay'
    <2>1. CASE del.at = "listing"
      <3>1. del.ids = {} /\ del.listed = {}
        BY <2>1 DEF DeleteInv, Asked
      <3> QED
        BY <1>1, <3>1 DEF DeleteInv, NewestStay, router
    <2>2. CASE del.at # "listing"
      <3>1. del.at \in {"posting", "verifying"}
        BY <1>1, <2>2 DEF DeleteInv, DeleteTyped
      <3> QED
        BY <1>1, <3>1 DEF DeleteInv, NewestStay, router
    <2> QED
      BY <2>1, <2>2
  <1> QED
    BY <1>1, <1>2, <1>3 DEF DeleteInv

LEMMA VerifyInv ==
  ASSUME DeleteInv, Verify
  PROVE  DeleteInv'
  <1>1. /\ del.at = "verifying" /\ UNCHANGED <<router, asked>>
        /\ del' = IF Gone THEN [del EXCEPT !.at = "idle", !.result = "done"]
                  ELSE IF del.pass >= Passes
                       THEN [del EXCEPT !.at = "idle", !.result = "failed"]
                       ELSE [del EXCEPT !.pass = @ + 1]
        /\ DeleteTyped
    BY DEF Verify, DeleteInv
  <1>2. /\ del'.ids = del.ids /\ del'.listed = del.listed /\ del'.keep = del.keep
        /\ \/ del'.at = "idle" /\ del'.result = "done" /\ Gone
           \/ del'.at = "idle" /\ del'.result = "failed"
           \/ del'.at = "verifying" /\ del'.result = del.result
        /\ DeleteTyped'
    <2>1. CASE Gone
      BY <1>1, <2>1 DEF DeleteTyped
    <2>2. CASE ~Gone /\ del.pass >= Passes
      BY <1>1, <2>2 DEF DeleteTyped
    <2>3. CASE ~Gone /\ ~(del.pass >= Passes)
      <3>1. del.pass + 1 \in 0..Passes
        BY <1>1, <2>3, MessagesConstants DEF DeleteTyped
      <3> QED
        BY <1>1, <2>3, <3>1 DEF DeleteTyped
    <2> QED
      BY <2>1, <2>2, <2>3
  <1>3. BankTyped' /\ Asked'
    BY <1>1, <1>2 DEF DeleteInv, BankTyped, Asked, router
  <1>4. DoneIsGone'
    BY <1>1, <1>2 DEF DeleteInv, Asked, DoneIsGone, Gone, router
  <1>5. NewestStay'
    BY <1>1, <1>2 DEF DeleteInv, NewestStay, router
  <1> QED
    BY <1>2, <1>3, <1>4, <1>5 DEF DeleteInv

LEMMA DeleteRestart ==
  ASSUME DeleteInv, UNCHANGED router, del' = NoDelete, asked' = asked \cup del.ids
  PROVE  DeleteInv'
  <1>1. BankTyped' /\ DeleteTyped' /\ Asked'
    BY NoDeleteTyped DEF DeleteInv, router, BankTyped, DeleteTyped, Asked
  <1> QED
    BY <1>1, NoDeleteTyped DEF DeleteInv, router, DoneIsGone, NewestStay

-----------------------------------------------------------------------------
(* Sending.                                                                  *)

SendTyped ==
    /\ send \in [at : {"idle", "counting", "posting", "judging"}, next : Targets,
                 named : SUBSET Targets, quiet : BOOLEAN,
                 before : [read : BOOLEAN, sent : Nat, draft : Nat],
                 result : {"none", "done", "failed", "stored"}]
    /\ out \in [reached : SUBSET Targets, stored : SUBSET Targets, unsure : SUBSET Targets]

Over == send.at = "idle" /\ send.result # "none"

\* How far a send has got: the numbers named come before the next, and of those
\* still to come there is no copy.
Underway ==
    /\ send.at # "idle" => send.result = "none"
    /\ send.at = "idle" /\ send.result = "none" =>
           send.next = 1 /\ send.named = {} /\ out = Nobody
    /\ ~Over => /\ \A i \in send.named : i < send.next
                /\ \A i \in Targets : i > send.next => SentId[i] \notin arrived
    /\ send.at # "judging" /\ ~Over =>
           /\ SentId[send.next] \notin arrived
           /\ out.reached \cup out.stored \subseteq send.named
    /\ send.at = "judging" => send.next \in out.reached \cup out.stored
    /\ out.reached \cap out.stored = {}

\* What the counters told before the message, and so what they tell after it.
Told ==
    /\ send.at = "posting" /\ send.quiet =>
           SentTotal = send.before.sent /\ DraftTotal = send.before.draft
    /\ send.at = "judging" /\ send.quiet =>
           /\ send.next \in out.stored =>
                 SentTotal = send.before.sent /\ DraftTotal = send.before.draft + 1
           /\ send.next \in out.reached => DraftTotal = send.before.draft

SendInv == SendTyped /\ Underway /\ Told /\ NamedAreReached /\ StoredIsTold

LEMMA SendRests ==
  ASSUME SendInv, UNCHANGED <<bank, arrived, send, out>>
  PROVE  SendInv'
  BY DEF SendInv, SendTyped, Over, Underway, Told, NamedAreReached, StoredIsTold,
         SentTotal, DraftTotal

LEMMA TotalsTyped ==
  ASSUME BankTyped
  PROVE  SentTotal \in Nat /\ DraftTotal \in Nat
  <1>1. /\ bank \cap (PageSent \cup {SentId[i] : i \in out.reached}) \in SUBSET Ids
        /\ bank \cap (PageDraft \cup {SentId[i] : i \in out.stored}) \in SUBSET Ids
    BY DEF BankTyped
  <1> QED
    BY <1>1, Counted DEF SentTotal, DraftTotal

LEMMA TargetsFacts ==
    /\ Targets \subseteq Nat /\ 1 \in Targets /\ Numbers \in Targets
    /\ \A i \in Targets : i <= Numbers /\ (i < Numbers => i + 1 \in Targets)
    /\ \A i \in Targets : SentId[i] \in Copies /\ SentId[i] \in Ids
    /\ \A i \in Targets : SentId[i] \notin PageSent \cup PageDraft \cup Received
    /\ \A i, j \in Targets : SentId[i] = SentId[j] => i = j
  <1>1. Numbers \in Nat /\ Numbers >= 1
    BY MessagesConstants
  <1>2. SentId \in [Targets -> Nat \ (Received \cup PageSent \cup PageDraft)]
        /\ \A i, j \in Targets : SentId[i] = SentId[j] => i = j
    BY MessagesConstants
  <1> QED
    BY <1>1, <1>2 DEF Targets, Copies, Ids

\* What stirs the bank, and is no copy, leaves the counters.
LEMMA StirredInv ==
  ASSUME SendInv, BankTyped, NEW m, Stirs(m), out' = out,
         \/ /\ bank' = bank \cup {m} /\ arrived' = arrived \cup {m}
            /\ m \in Received \cup PageSent \cup PageDraft
         \/ bank' = bank \ {m} /\ arrived' = arrived
  PROVE  SendInv'
  <1> DEFINE quiet == send.quiet /\ m \notin Copies
  <1>1. /\ send' = [send EXCEPT !.quiet = quiet] /\ quiet \in BOOLEAN
        /\ SendTyped
    BY DEF Stirs, SendInv, SendTyped
  <1> HIDE DEF quiet
  <1>2. /\ send'.at = send.at /\ send'.next = send.next /\ send'.named = send.named
        /\ send'.before = send.before /\ send'.result = send.result
        /\ send'.quiet = quiet /\ SendTyped'
    BY <1>1 DEF SendTyped
  <1>3. \A i \in Targets : SentId[i] \notin arrived => SentId[i] \notin arrived'
    BY TargetsFacts
  <1>4. Underway'
    BY <1>2, <1>3 DEF SendInv, SendTyped, Underway, Over
  <1>5. quiet => SentTotal' = SentTotal /\ DraftTotal' = DraftTotal
    <2> SUFFICES ASSUME quiet PROVE SentTotal' = SentTotal /\ DraftTotal' = DraftTotal
      OBVIOUS
    <2>1. m \notin Copies
      BY DEF quiet
    <2>2. /\ PageSent \cup {SentId[i] : i \in out.reached} \subseteq Copies
          /\ PageDraft \cup {SentId[i] : i \in out.stored} \subseteq Copies
      BY TargetsFacts, <1>1 DEF SendTyped, Copies
    <2>3. /\ bank' \cap (PageSent \cup {SentId[i] : i \in out.reached})
               = bank \cap (PageSent \cup {SentId[i] : i \in out.reached})
          /\ bank' \cap (PageDraft \cup {SentId[i] : i \in out.stored})
               = bank \cap (PageDraft \cup {SentId[i] : i \in out.stored})
      BY <2>1, <2>2
    <2> QED
      BY <2>3 DEF SentTotal, DraftTotal
  <1>6. Told'
    BY <1>2, <1>5 DEF SendInv, Told, quiet
  <1>7. NamedAreReached' /\ StoredIsTold'
    BY <1>2 DEF SendInv, NamedAreReached, StoredIsTold, quiet
  <1> QED
    BY <1>2, <1>4, <1>6, <1>7 DEF SendInv

LEMMA NoSendTyped ==
    /\ NoSend.at = "idle" /\ NoSend.next = 1 /\ NoSend.named = {} /\ NoSend.quiet
    /\ NoSend.result = "none"
    /\ NoSend \in [at : {"idle", "counting", "posting", "judging"}, next : Targets,
                   named : SUBSET Targets, quiet : BOOLEAN,
                   before : [read : BOOLEAN, sent : Nat, draft : Nat],
                   result : {"none", "done", "failed", "stored"}]
    /\ Nobody \in [reached : SUBSET Targets, stored : SUBSET Targets,
                   unsure : SUBSET Targets]
    /\ Nobody.reached = {} /\ Nobody.stored = {} /\ Nobody.unsure = {}
  <1>1. [read |-> FALSE, sent |-> 0, draft |-> 0]
            \in [read : BOOLEAN, sent : Nat, draft : Nat]
    OBVIOUS
  <1> QED
    BY <1>1, TargetsFacts DEF NoSend, Nobody

LEMMA SendCalledInv ==
  ASSUME SendInv, SendCalled
  PROVE  SendInv'
  <1>1. /\ send.at = "idle" /\ send.result = "none"
        /\ send' = [NoSend EXCEPT !.at = "counting"]
        /\ UNCHANGED <<bank, arrived, out>>
    BY DEF SendCalled, router
  <1>2. /\ send'.at = "counting" /\ send'.next = 1 /\ send'.named = {}
        /\ send'.result = "none"
        /\ send' \in [at : {"idle", "counting", "posting", "judging"}, next : Targets,
                      named : SUBSET Targets, quiet : BOOLEAN,
                      before : [read : BOOLEAN, sent : Nat, draft : Nat],
                      result : {"none", "done", "failed", "stored"}]
    BY <1>1, NoSendTyped
  <1>3. SendTyped'
    BY <1>1, <1>2 DEF SendInv, SendTyped
  <1>4. out = Nobody /\ send.next = 1 /\ send.named = {}
    BY <1>1 DEF SendInv, Underway
  <1>5. Underway'
    BY <1>1, <1>2, <1>4, NoSendTyped DEF SendInv, Underway, Over
  <1> QED
    BY <1>1, <1>2, <1>3, <1>4, <1>5, NoSendTyped
       DEF SendInv, Told, NamedAreReached, StoredIsTold

LEMMA CountBeforeInv ==
  ASSUME SendInv, BankTyped, CountBefore
  PROVE  SendInv'
  <1>1. PICK read \in BOOLEAN :
          send' = [send EXCEPT !.at = "posting", !.quiet = TRUE,
                               !.before = [read |-> read, sent |-> SentTotal,
                                           draft |-> DraftTotal]]
    BY DEF CountBefore
  <1> DEFINE before == [read |-> read, sent |-> SentTotal, draft |-> DraftTotal]
  <1>2. before \in [read : BOOLEAN, sent : Nat, draft : Nat]
        /\ before.sent = SentTotal /\ before.draft = DraftTotal
    BY TotalsTyped
  <1>3. /\ send.at = "counting" /\ UNCHANGED <<bank, arrived, out>>
        /\ send' = [send EXCEPT !.at = "posting", !.quiet = TRUE, !.before = before]
    BY <1>1 DEF CountBefore, router
  <1> HIDE DEF before
  <1>4. /\ send'.at = "posting" /\ send'.quiet /\ send'.before = before
        /\ send'.next = send.next /\ send'.named = send.named
        /\ send'.result = send.result /\ SendTyped' /\ SendTyped
    BY <1>2, <1>3 DEF SendInv, SendTyped
  <1>5. Underway'
    BY <1>3, <1>4 DEF SendInv, Underway, Over
  <1>6. Told'
    BY <1>2, <1>3, <1>4 DEF Told, SentTotal, DraftTotal
  <1>7. NamedAreReached' /\ StoredIsTold'
    BY <1>3, <1>4 DEF SendInv, Underway, NamedAreReached, StoredIsTold
  <1> QED
    BY <1>4, <1>5, <1>6, <1>7 DEF SendInv

\* A send that gives up for a reason of its own; nothing else has changed.
LEMMA FailedSendInv ==
  ASSUME SendInv, UNCHANGED <<bank, arrived, out>>,
         send.at # "idle", GiveUp("failed")
  PROVE  SendInv'
  <1>1. /\ send'.at = "idle" /\ send'.result = "failed"
        /\ send'.next = send.next /\ send'.named = send.named
        /\ send'.quiet = send.quiet /\ SendTyped'
    BY DEF GiveUp, SendInv, SendTyped
  <1> QED
    BY <1>1 DEF SendInv, Underway, Over, Told, NamedAreReached, StoredIsTold

\* A message posted is counted where it was put, and nowhere else.
LEMMA PostedTold ==
  ASSUME SendInv, BankTyped, send.at = "posting", send.quiet,
         bank' = bank \cup {SentId[send.next]}, NEW fate \in {"reached", "stored"},
         out' = [out EXCEPT ![fate] = @ \cup {send.next}]
  PROVE  /\ fate = "stored" =>
              SentTotal' = send.before.sent /\ DraftTotal' = send.before.draft + 1
         /\ fate = "reached" => DraftTotal' = send.before.draft
  <1> DEFINE id == SentId[send.next]
             sent == {SentId[i] : i \in out.reached}
             draft == {SentId[i] : i \in out.stored}
  <1>1. /\ send.next \in Targets /\ out.reached \subseteq Targets
        /\ out.stored \subseteq Targets /\ SendTyped
        /\ out.reached \cup out.stored \subseteq send.named
        /\ \A i \in send.named : i < send.next
        /\ id \notin arrived
        /\ SentTotal = send.before.sent /\ DraftTotal = send.before.draft
    BY DEF SendInv, SendTyped, Underway, Told, Over
  <1>2. send.next \notin out.reached \cup out.stored /\ id \notin bank
    BY <1>1, TargetsFacts DEF BankTyped
  <1>3. id \notin PageSent \cup sent /\ id \notin PageDraft \cup draft
    BY <1>1, <1>2, TargetsFacts
  <1>4. CASE fate = "stored"
    <2>1. out'.reached = out.reached /\ out'.stored = out.stored \cup {send.next}
      BY <1>1, <1>4 DEF SendTyped
    <2>2. SentTotal' = SentTotal
      <3>1. bank' \cap (PageSent \cup sent) = bank \cap (PageSent \cup sent)
        BY <1>3
      <3> QED
        BY <2>1, <3>1 DEF SentTotal
    <2>3. bank' \cap (PageDraft \cup {SentId[i] : i \in out'.stored})
            = (bank \cap (PageDraft \cup draft)) \cup {id}
      BY <1>3, <2>1
    <2>4. /\ bank \cap (PageDraft \cup draft) \in SUBSET Ids
          /\ id \notin bank \cap (PageDraft \cup draft)
      BY <1>2 DEF BankTyped
    <2>5. DraftTotal' = DraftTotal + 1
      <3> HIDE DEF id
      <3> QED
        BY <2>3, <2>4, Counted, FS_AddElement DEF DraftTotal
    <2> QED
      BY <1>1, <1>4, <2>2, <2>5
  <1>5. CASE fate = "reached"
    <2>1. out'.stored = out.stored
      BY <1>1, <1>5 DEF SendTyped
    <2>2. bank' \cap (PageDraft \cup draft) = bank \cap (PageDraft \cup draft)
      BY <1>3
    <2>3. DraftTotal' = DraftTotal
      BY <2>1, <2>2 DEF DraftTotal
    <2> QED
      BY <1>1, <1>5, <2>3
  <1> QED
    BY <1>4, <1>5

LEMMA SendPostsInv ==
  ASSUME SendInv, BankTyped, NEW fate \in {"reached", "stored"},
         NEW answered \in BOOLEAN, SendPosts(fate, answered)
  PROVE  SendInv' /\ SentId[send.next] \in Ids \ arrived
  <1>1. /\ send.at = "posting" /\ out' = [out EXCEPT ![fate] = @ \cup {send.next}]
        /\ bank' = bank \cup {SentId[send.next]}
        /\ arrived' = arrived \cup {SentId[send.next]}
    BY DEF SendPosts
  <1>2. /\ SendTyped /\ send.next \in Targets /\ send.result = "none"
        /\ out.reached \cup out.stored \subseteq send.named
        /\ \A i \in send.named : i < send.next
        /\ SentId[send.next] \notin arrived
        /\ \A i \in Targets : i > send.next => SentId[i] \notin arrived
        /\ out.reached \cap out.stored = {}
    BY <1>1 DEF SendInv, SendTyped, Underway, Over
  <1>3. send.next \notin send.named
    <2>1. send.next \in Nat
      BY <1>2, TargetsFacts, Zenon
    <2>2. ~(send.next < send.next)
      BY <2>1
    <2> QED
      BY <1>2, <2>2
  <1>4. /\ send'.next = send.next /\ send'.named = send.named
        /\ send'.before = send.before /\ send'.quiet = send.quiet
        /\ \/ send'.at = "judging" /\ send'.result = "none"
           \/ send'.at = "idle" /\ send'.result = "failed"
        /\ send' \in [at : {"idle", "counting", "posting", "judging"}, next : Targets,
                      named : SUBSET Targets, quiet : BOOLEAN,
                      before : [read : BOOLEAN, sent : Nat, draft : Nat],
                      result : {"none", "done", "failed", "stored"}]
    <2>1. CASE send' = [send EXCEPT !.at = "judging"]
      BY <1>2, <2>1 DEF SendTyped
    <2>2. CASE GiveUp("failed")
      BY <1>2, <2>2 DEF SendTyped, GiveUp
    <2> QED
      BY <2>1, <2>2 DEF SendPosts
  <1>5. /\ \/ /\ fate = "reached"
              /\ out'.reached = out.reached \cup {send.next} /\ out'.stored = out.stored
           \/ /\ fate = "stored"
              /\ out'.stored = out.stored \cup {send.next} /\ out'.reached = out.reached
        /\ out'.unsure = out.unsure
        /\ out' \in [reached : SUBSET Targets, stored : SUBSET Targets,
                     unsure : SUBSET Targets]
    <2>1. CASE fate = "reached"
      BY <1>1, <1>2, <2>1 DEF SendTyped
    <2>2. CASE fate = "stored"
      BY <1>1, <1>2, <2>2 DEF SendTyped
    <2> QED
      BY <2>1, <2>2
  <1>6. SendTyped'
    BY <1>4, <1>5 DEF SendTyped
  <1>7. Underway'
    <2>1. \A i \in Targets : i > send.next => SentId[i] \notin arrived'
      BY <1>1, <1>2, TargetsFacts
    <2> QED
      BY <1>2, <1>3, <1>4, <1>5, <2>1 DEF Underway, Over
  <1>8. Told'
    <2>1. ASSUME send'.at = "judging", send.quiet
          PROVE  /\ fate = "stored" =>
                      SentTotal' = send.before.sent /\ DraftTotal' = send.before.draft + 1
                 /\ fate = "reached" => DraftTotal' = send.before.draft
      BY <1>1, <2>1, PostedTold
    <2>2. /\ send.next \in out'.stored => fate = "stored"
          /\ send.next \in out'.reached => fate = "reached"
      BY <1>2, <1>3, <1>5
    <2> QED
      BY <1>4, <2>1, <2>2 DEF Told
  <1>9. NamedAreReached' /\ StoredIsTold'
    BY <1>2, <1>3, <1>4, <1>5 DEF SendInv, NamedAreReached, StoredIsTold
  <1>10. SentId[send.next] \in Ids
    BY <1>2, TargetsFacts
  <1> QED
    BY <1>2, <1>6, <1>7, <1>8, <1>9, <1>10 DEF SendInv

LEMMA JudgeInv ==
  ASSUME SendInv, BankTyped, NEW read \in BOOLEAN, Judge(read)
  PROVE  SendInv'
  <1>1. /\ send.at = "judging" /\ UNCHANGED <<bank, arrived>>
        /\ SendTyped /\ send.next \in Targets /\ send.result = "none"
        /\ send.next \in out.reached \cup out.stored
        /\ out.reached \cap out.stored = {}
        /\ \A i \in send.named : i < send.next
        /\ \A i \in Targets : i > send.next => SentId[i] \notin arrived
        /\ send.before.draft \in Nat /\ send.before.sent \in Nat
        /\ NamedAreReached /\ StoredIsTold
    BY DEF Judge, router, SendInv, SendTyped, Underway, Over
  <1>2. send.quiet => (Stored <=> send.next \in out.stored)
    <2>1. SentTotal \in Nat /\ DraftTotal \in Nat
      BY TotalsTyped
    <2> QED
      BY <1>1, <2>1 DEF SendInv, Told, Stored
  <1>3. CASE GiveUp("stored") /\ UNCHANGED out /\ Stored
    <2>1. /\ send'.at = "idle" /\ send'.result = "stored"
          /\ send'.next = send.next /\ send'.named = send.named
          /\ send'.quiet = send.quiet /\ SendTyped'
      BY <1>1, <1>3 DEF GiveUp, SendTyped
    <2> QED
      BY <1>1, <1>2, <1>3, <2>1
         DEF SendInv, Underway, Over, Told, NamedAreReached, StoredIsTold
  <1>4. CASE ~(read /\ send.before.read /\ Stored)
    <2> DEFINE last == ~(send.next < Numbers)
    <2>1. /\ send' = [send EXCEPT !.at = IF last THEN "idle" ELSE "counting",
                                  !.named = @ \cup {send.next},
                                  !.next = IF last THEN @ ELSE @ + 1,
                                  !.result = IF last THEN "done" ELSE @]
          /\ out' = IF read /\ send.before.read /\ send.quiet THEN out
                    ELSE [out EXCEPT !.unsure = @ \cup {send.next}]
      BY <1>1, <1>4 DEF Judge, SendTyped
    <2>2. ~last => send.next + 1 \in Targets
      BY <1>1, TargetsFacts
    <2> HIDE DEF last
    <2>3. /\ send'.at = (IF last THEN "idle" ELSE "counting")
          /\ send'.result = (IF last THEN "done" ELSE "none")
          /\ send'.next = (IF last THEN send.next ELSE send.next + 1)
          /\ send'.named = send.named \cup {send.next}
          /\ send' \in [at : {"idle", "counting", "posting", "judging"}, next : Targets,
                        named : SUBSET Targets, quiet : BOOLEAN,
                        before : [read : BOOLEAN, sent : Nat, draft : Nat],
                        result : {"none", "done", "failed", "stored"}]
      <3>1. CASE last
        BY <1>1, <2>1, <3>1 DEF SendTyped
      <3>2. CASE ~last
        BY <1>1, <2>1, <2>2, <3>2 DEF SendTyped
      <3> QED
        BY <3>1, <3>2
    <2>4. /\ out'.reached = out.reached /\ out'.stored = out.stored
          /\ out.unsure \subseteq out'.unsure
          /\ (read /\ send.before.read /\ send.quiet) \/ send.next \in out'.unsure
          /\ out' \in [reached : SUBSET Targets, stored : SUBSET Targets,
                       unsure : SUBSET Targets]
      <3>1. CASE read /\ send.before.read /\ send.quiet
        BY <1>1, <2>1, <3>1 DEF SendTyped
      <3>2. CASE ~(read /\ send.before.read /\ send.quiet)
        BY <1>1, <2>1, <3>2 DEF SendTyped
      <3> QED
        BY <3>1, <3>2
    <2>5. SendTyped'
      BY <2>3, <2>4 DEF SendTyped
    <2>6. NamedAreReached'
      BY <1>1, <2>3, <2>4 DEF NamedAreReached
    <2>7. StoredIsTold'
      <3>1. send.next \in out.stored => send.next \in out'.unsure
        BY <1>2, <1>4, <2>4
      <3> QED
        BY <1>1, <2>3, <2>4, <3>1 DEF StoredIsTold
    <2>8. Underway'
      <3>1. ASSUME ~last
            PROVE  /\ \A i \in send'.named : i < send'.next
                   /\ \A i \in Targets : i > send'.next => SentId[i] \notin arrived'
                   /\ SentId[send'.next] \notin arrived'
        <4>1. /\ send'.next = send.next + 1 /\ send'.named = send.named \cup {send.next}
              /\ send.next \in Nat /\ send.next + 1 \in Targets /\ Targets \subseteq Nat
              /\ send.named \subseteq Nat /\ arrived' = arrived
          BY <1>1, <2>2, <2>3, <3>1, TargetsFacts DEF SendTyped
        <4>2. \A i \in send.named \cup {send.next} : i < send.next + 1
          BY <1>1, <4>1
        <4>3. \A i \in Targets : i >= send.next + 1 => SentId[i] \notin arrived
          BY <1>1, <4>1
        <4> QED
          BY <4>1, <4>2, <4>3
      <3>2. out'.reached \cup out'.stored \subseteq send'.named
        BY <1>1, <2>3, <2>4 DEF NamedAreReached
      <3> QED
        BY <1>1, <2>3, <2>4, <3>1, <3>2 DEF Underway, Over
    <2>9. Told'
      BY <2>3 DEF Told
    <2> QED
      BY <2>5, <2>6, <2>7, <2>8, <2>9 DEF SendInv
  <1> QED
    BY <1>3, <1>4 DEF Judge

-----------------------------------------------------------------------------
(* Together.                                                                 *)

MessagesIInv == EventsInv /\ DeleteInv /\ SendInv /\ moves \in 0..MaxMoves

LEMMA MovesStay == Moves /\ moves \in 0..MaxMoves => moves' \in 0..MaxMoves
  BY MessagesConstants DEF Moves

LEMMA MessagesInitInv == Init => MessagesIInv
  <1> SUFFICES ASSUME Init PROVE MessagesIInv
    OBVIOUS
  <1>1. EventsInv
    BY EventsStart DEF Init
  <1>2. DeleteInv
    <2>1. BankTyped /\ DeleteTyped /\ Asked
      BY NoDeleteTyped DEF Init, BankTyped, DeleteTyped, Asked, Ids
    <2> QED
      BY <2>1, NoDeleteTyped DEF Init, DeleteInv, DoneIsGone, NewestStay
  <1>3. SendInv
    <2>1. \A i \in Targets : SentId[i] \notin arrived
      BY TargetsFacts DEF Init
    <2> QED
      BY <2>1, NoSendTyped, TargetsFacts
         DEF Init, SendInv, SendTyped, Underway, Over, Told, NamedAreReached, StoredIsTold
  <1>4. moves \in 0..MaxMoves
    BY MessagesConstants DEF Init
  <1> QED
    BY <1>1, <1>2, <1>3, <1>4 DEF MessagesIInv

LEMMA MessagesNextInv == MessagesIInv /\ [Next]_vars => MessagesIInv'
  <1> SUFFICES ASSUME MessagesIInv, [Next]_vars PROVE MessagesIInv'
    OBVIOUS
  <1>0. EventsInv /\ DeleteInv /\ SendInv /\ BankTyped /\ moves \in 0..MaxMoves
    BY DEF MessagesIInv, DeleteInv
  <1>1. CASE UNCHANGED vars
    BY <1>0, <1>1, EventsRest, DeleteRests, SendRests
       DEF vars, router, sending, MessagesIInv
  <1>2. CASE Polls
    <2>1. EventsInv'
      <3>1. CASE PollLists
        <4>1. /\ bank \in SUBSET Ids /\ Check(bank)
              /\ held' = [has |-> TRUE, list |-> bank]
          BY <1>0, <3>1 DEF PollLists, BankTyped
        <4> QED
          BY <1>0, <4>1, CheckInv
      <3>2. CASE PollHolds
        <4>1. /\ Check(held.list) /\ held' = held
              /\ held \in [has : BOOLEAN, list : SUBSET Ids]
          BY <1>0, <3>2 DEF PollHolds, EventsInv, EventsTyped
        <4> QED
          BY <1>0, <4>1, CheckInv
      <3> QED
        BY <1>2, <3>1, <3>2 DEF Polls
    <2> QED
      BY <1>0, <1>2, <2>1, DeleteRests, SendRests
         DEF Polls, PollLists, PollHolds, router, sending, MessagesIInv
  <1>3. CASE Deletes
    <2>1. DeleteInv'
      BY <1>0, <1>3, DeleteListsInv, DeletePostsInv, DeleteFailsInv, VerifyInv
         DEF Deletes
    <2> QED
      BY <1>0, <1>3, <2>1, EventsRest, SendRests
         DEF Deletes, DeleteLists, DeletePosts, DeleteFails, Verify, router, sending,
             MessagesIInv
  <1>4. CASE \E keep \in Keeps : DeleteCalled(keep)
    <2>1. DeleteInv' /\ moves' \in 0..MaxMoves
      BY <1>0, <1>4, DeleteCalledInv, MovesStay DEF DeleteCalled
    <2> QED
      BY <1>0, <1>4, <2>1, EventsRest, SendRests
         DEF DeleteCalled, router, sending, MessagesIInv
  <1>5. CASE \E m \in Received \cap arrived : DeleteOneCalled(m)
    <2>1. DeleteInv' /\ moves' \in 0..MaxMoves
      BY <1>0, <1>5, DeleteOneCalledInv, MovesStay DEF DeleteOneCalled
    <2> QED
      BY <1>0, <1>5, <2>1, EventsRest, SendRests
         DEF DeleteOneCalled, router, sending, MessagesIInv
  <1>6. CASE SendCalled \/ CountBefore \/ SendFails
    <2>1. SendInv' /\ moves' \in 0..MaxMoves
      <3>1. CASE SendCalled
        BY <1>0, <3>1, SendCalledInv, MovesStay DEF SendCalled
      <3>2. CASE CountBefore
        BY <1>0, <3>2, CountBeforeInv DEF CountBefore
      <3>3. CASE SendFails
        BY <1>0, <3>3, FailedSendInv DEF SendFails, router
      <3> QED
        BY <1>6, <3>1, <3>2, <3>3
    <2> QED
      BY <1>0, <1>6, <2>1, EventsRest, DeleteRests
         DEF SendCalled, CountBefore, SendFails, MessagesIInv
  <1>7. CASE \E fate \in {"reached", "stored"}, b \in BOOLEAN : SendPosts(fate, b)
    <2> PICK fate \in {"reached", "stored"}, b \in BOOLEAN : SendPosts(fate, b)
      BY <1>7
    <2>1. SendInv' /\ SentId[send.next] \in Ids \ arrived
      BY <1>0, SendPostsInv
    <2>2. DeleteInv'
      BY <1>0, <2>1, GrowsInv DEF SendPosts
    <2>3. EventsInv' /\ moves' \in 0..MaxMoves
      BY <1>0, EventsRest DEF SendPosts
    <2> QED
      BY <2>1, <2>2, <2>3 DEF MessagesIInv
  <1>8. CASE \E b \in BOOLEAN : Judge(b)
    <2>1. SendInv'
      BY <1>0, <1>8, JudgeInv
    <2> QED
      BY <1>0, <1>8, <2>1, EventsRest, DeleteRests DEF Judge, MessagesIInv
  <1>9. CASE \E m \in Received \cup PageSent \cup PageDraft : Arrives(m)
    <2> PICK m \in Received \cup PageSent \cup PageDraft : Arrives(m)
      BY <1>9
    <2>1. /\ m \in Ids \ arrived /\ bank' = bank \cup {m}
          /\ arrived' = arrived \cup {m} /\ UNCHANGED <<doomed, events, del, asked, out>>
          /\ Stirs(m) /\ moves' \in 0..MaxMoves
      BY <1>0, MovesStay DEF Arrives, Ids, Copies
    <2>2. EventsInv' /\ DeleteInv'
      BY <1>0, <2>1, EventsRest, GrowsInv
    <2>3. SendInv'
      BY <1>0, <2>1, StirredInv
    <2> QED
      BY <2>1, <2>2, <2>3 DEF MessagesIInv
  <1>10. CASE \E m \in Ids : RouterDeletes(m)
    <2> PICK m \in Ids : RouterDeletes(m)
      BY <1>10
    <2>1. DeleteInv'
      BY <1>0, RouterDeletesInv
    <2>2. EventsInv'
      BY <1>0, EventsRest DEF RouterDeletes
    <2>3. SendInv'
      BY <1>0, StirredInv DEF RouterDeletes
    <2> QED
      BY <1>0, <2>1, <2>2, <2>3 DEF RouterDeletes, MessagesIInv
  <1>11. CASE Restart
    <2>1. EventsInv'
      BY <1>11, EventsRestart DEF Restart
    <2>2. DeleteInv'
      BY <1>0, <1>11, DeleteRestart DEF Restart
    <2>3. SendInv'
      <3>1. UNCHANGED <<bank, arrived, out>>
        BY <1>11 DEF Restart, router
      <3>2. CASE send.at = "idle"
        BY <1>0, <1>11, <3>1, <3>2, SendRests DEF Restart
      <3>3. CASE send.at # "idle"
        BY <1>0, <1>11, <3>1, <3>3, FailedSendInv DEF Restart, GiveUp
      <3> QED
        BY <3>2, <3>3
    <2> QED
      BY <1>0, <1>11, <2>1, <2>2, <2>3, MovesStay DEF Restart, MessagesIInv
  <1> QED
    BY <1>1, <1>2, <1>3, <1>4, <1>5, <1>6, <1>7, <1>8, <1>9, <1>10, <1>11 DEF Next

\* The strengthening holds in every state.
THEOREM MessagesInductive == Spec => []MessagesIInv
  BY MessagesInitInv, MessagesNextInv, PTL DEF Spec

\* For any messages and dates, and polls that list or hold in any order: the state
\* has its types, no message is reported twice between two starts, and none of the
\* latest date of a list is passed over (_check_new_sms).
THEOREM ReportsAreOwed == Spec => []ReportsOwed
  <1>1. MessagesIInv => ReportsOwed
    BY DEF MessagesIInv, EventsInv, EventsTyped, DeleteInv, BankTyped, DeleteTyped,
           SendInv, SendTyped, ReportsOwed, TypeOK
  <1> QED
    BY <1>1, MessagesInductive, PTL

\* For any messages, any number of them to keep and however late the router
\* carries a delete out: a delete that is reported done has left nothing of what
\* it was asked to delete, what was to stay are the newest, as many as asked for,
\* and nothing goes that no delete asked for (async_delete_all_sms, _verify_deleted).
THEOREM DeletesAreKept == Spec => []DeletesKeep
  <1>1. MessagesIInv => DeletesKeep
    BY DEF MessagesIInv, DeleteInv, DeletesKeep
  <1> QED
    BY <1>1, MessagesInductive, PTL

\* For any numbers, and whatever the counters are moved by: a send that stopped
\* names everyone who was reached before the number it stopped at, and a message
\* the router stored is told from one it sent, where the counters could be read
\* and nobody else moved them (async_send_sms).
THEOREM SendsTold == Spec => []SendsAreTold
  <1>1. MessagesIInv => SendsAreTold
    BY DEF MessagesIInv, SendInv, SendsAreTold
  <1> QED
    BY <1>1, MessagesInductive, PTL
=============================================================================
