---------------------------- MODULE PollPlan_proofs ----------------------------
(***************************************************************************)
(* Proofs about PollPlan: IInv is inductive; with it type correctness,       *)
(* AnsweredHere and OwedUntilServed hold for every universe, every set of     *)
(* entities, whatever they read, and every answer of every firmware.         *)
(***************************************************************************)
EXTENDS PollPlan, TLAPS

-----------------------------------------------------------------------------
(* What a payload of the router's teaches. *)

LEMMA NamesAreNumbers == \A n \in Names : n \in Int
  BY DEF Names

LEMMA LimitIsNatural == StrikeLimit \in Nat
  BY PollPlanConstants

LEMMA NeitherFirst ==
  ASSUME NEW a \in Int, NEW b \in Int, ~(a < b), ~(b < a)
  PROVE  a = b
  OBVIOUS

\* Only names the router has an answer to are learned, and of those an entity
\* reads at once only the ones it accepts: two names an entity takes are one.
LEMMA TaughtAnswers ==
  ASSUME NEW f \in Firmwares, NEW known, NEW data,
         \A e \in Entities : Spellings[e] \subseteq known[e],
         \A n \in Names : data[n] # "" => data[n] = Gives[f][n]
  PROVE  Answers(f, Taught(known, data))
  <1> SUFFICES ASSUME NEW n \in Taught(known, data)
               PROVE  /\ f # None /\ Gives[f][n] # ""
                      /\ n \in Firsthand => Gives[f][n] = "good"
    BY DEF Answers
  <1>1. n \in Names /\ data[n] # "" /\ data[n] = Gives[f][n]
    BY DEF Taught
  <1>2. f # None
    BY PollPlanConstants
  <1>3. ASSUME n \in Firsthand PROVE data[n] = "good"
    <2>1. PICK s \in Entities : n \in Spellings[s]
      BY <1>3, Zenon DEF Firsthand
    <2>2. \A e \in Entities : n \notin Behind[e]
      BY <1>3 DEF Firsthand
    <2>3. PICK e \in Entities : Accepts(e, data) /\ n \in ReadsOf(e, data)
      BY <2>1 DEF Taught, Consumers
    <2>4. Reached(e, n, data)
      BY <2>2, <2>3 DEF ReadsOf
    <2>5. PICK m \in Names : Takes(e, m, data) /\ data[m] = "good"
      BY <2>3 DEF Accepts
    <2>6. n \in Int /\ m \in Int
      BY <1>1, <2>5, NamesAreNumbers
    <2>7. n \in Spellings[e] /\ m \in Spellings[e] /\ data[m] # ""
      BY <2>4, <2>5 DEF Reached, Takes
    <2>8. ~(m < n)
      BY <2>4, <2>7 DEF Reached
    <2>9. ~(n < m)
      BY <1>1, <2>5, <2>7 DEF Reached, Takes
    <2>10. n = m
      BY <2>6, <2>8, <2>9, NeitherFirst
    <2> QED
      BY <2>5, <2>10
  <1> QED
    BY <1>1, <1>2, <1>3

LEMMA TaughtTyped ==
  ASSUME NEW known, NEW data
  PROVE  Taught(known, data) \subseteq Names
  BY DEF Taught

LEMMA ReadersTyped ==
  ASSUME NEW known \in [Entities -> SUBSET Names], NEW data
  PROVE  /\ LearnReaders(known, data) \in [Entities -> SUBSET Names]
         /\ \A e \in Entities : known[e] \subseteq LearnReaders(known, data)[e]
  BY PollPlanConstants DEF LearnReaders, ReadsOf

LEMMA BothAnswer ==
  ASSUME NEW f, NEW A, NEW B, Answers(f, A), Answers(f, B)
  PROVE  Answers(f, A \cup B)
  BY DEF Answers

LEMMA EverythingTyped ==
  ASSUME NEW every
  PROVE  Everything(every) \subseteq Names
  BY DEF Everything

-----------------------------------------------------------------------------
(* The poll under way, as a record. *)

LEMMA BlankTyped == Blank \in [Names -> Values]
  BY DEF Blank, Values

LEMMA IdleTyped == Idle \in Poll /\ Idle.stage = "idle"
  <1>1. FALSE \in BOOLEAN
    OBVIOUS
  <1> QED
    BY <1>1, BlankTyped DEF Idle, Poll

LEMMA ChosenIs ==
  ASSUME NEW again \in BOOLEAN
  PROVE  LET c == Chosen(again) IN
         /\ c \in Poll /\ c.stage = "asking" /\ c.late = {}
         /\ c.full = Due /\ c.every = Every
         /\ Due => c.asked = Everything(c.every)
  <1>1. FALSE \in BOOLEAN /\ Due \in BOOLEAN /\ Every \in BOOLEAN
    BY DEF Due, Every
  <1>2. Everything(Every) \subseteq Names /\ Narrowed \subseteq Names
    BY EverythingTyped DEF Narrowed, Swept, Turn, Unresolved
  <1> DEFINE asked == IF Due THEN Everything(Every) ELSE Narrowed
             b == Due
             v == Every
  <1>3. asked \in SUBSET Names
    BY <1>2
  <1>4. Chosen(again) = [Idle EXCEPT !.stage = "asking", !.full = b, !.every = v,
                                     !.again = again, !.asked = asked]
    BY DEF Chosen
  <1>5. b \in BOOLEAN /\ v \in BOOLEAN
    BY <1>1
  <1>6. Due => asked = Everything(v)
    OBVIOUS
  <1>7. b = Due /\ v = Every
    OBVIOUS
  <1> HIDE DEF asked, b, v
  <1>8. LET c == Chosen(again) IN
        /\ c \in Poll /\ c.stage = "asking" /\ c.late = {}
        /\ c.full = b /\ c.every = v /\ c.asked = asked
    BY <1>1, <1>3, <1>4, <1>5, BlankTyped DEF Idle, Poll
  <1> QED
    BY <1>6, <1>7, <1>8

-----------------------------------------------------------------------------
(* Steps that leave the plan's names alone. *)

LEMMA NowStays ==
  ASSUME router' = router
  PROVE  \A n : Now(n)' = Now(n)
  BY DEF Now

LEMMA NowTyped ==
  ASSUME TypeOK, NEW n \in Names
  PROVE  Now(n) \in Values /\ (Now(n) # "" => Now(n) = Gives[router.runs][n])
  <1>1. router.runs \in Firmwares
    BY DEF TypeOK
  <1>2. Gives[router.runs][n] \in Values
    BY <1>1, PollPlanConstants
  <1> QED
    BY <1>2 DEF Now, Values

LEMMA AnsweredHereStays ==
  ASSUME AnsweredHere, firmware' = firmware, answered' = answered, store' = store
  PROVE  AnsweredHere'
  BY DEF AnsweredHere, Answers

\* A poll stays full for the reasons it was chosen for while the plan rests.
LEMMA StillFull ==
  ASSUME FullForItsReasons, poll.stage # "idle",
         poll'.full = poll.full, poll'.every = poll.every,
         poll'.asked = poll.asked, poll'.late = poll.late,
         reasons' = reasons, reads' = reads, disabled' = disabled
  PROVE  FullForItsReasons'
  <1>1. (reasons \ poll.late)' = reasons \ poll.late
    OBVIOUS
  <1>2. Everything(poll.every)' = Everything(poll.every)
    BY DEF Everything, Attributed, Live, Consumers
  <1> QED
    BY <1>1, <1>2 DEF FullForItsReasons

LEMMA ChooseKeeps ==
  ASSUME IInv, NEW again \in BOOLEAN, Choose(again)
  PROVE  IInv'
  <1> USE DEF IInv
  <1>1. poll' = Chosen(again)
    BY DEF Choose
  <1>2. /\ poll' \in Poll /\ poll'.stage = "asking" /\ poll'.late = {}
        /\ poll'.full = Due /\ poll'.every = Every
        /\ Due => poll'.asked = Everything(poll'.every)
    BY <1>1, ChosenIs
  <1>3. TypeOK'
    BY <1>2 DEF TypeOK, Choose, world, endpoint
  <1>4. AnsweredHere' /\ SpellingsKnown'
    BY AnsweredHereStays DEF SpellingsKnown, Choose
  <1>5. Honest'
    BY <1>2 DEF Honest
  <1>6. FullForItsReasons'
    <2>1. reasons' = reasons /\ reads' = reads /\ disabled' = disabled
      BY DEF Choose
    <2>2. reasons # {} => poll'.full
      BY <1>2 DEF Due
    <2>3. "diagnostics download" \in reasons => poll'.every
      BY <1>2 DEF Every, Due
    <2>4. (poll.full => poll.asked = Everything(poll.every))'
      BY <1>2, <2>1 DEF Everything, Attributed, Live, Consumers
    <2>5. (reasons \ poll.late)' = reasons
      BY <1>2, <2>1
    <2> QED
      BY <2>2, <2>3, <2>4, <2>5 DEF FullForItsReasons
  <1> QED
    BY <1>3, <1>4, <1>5, <1>6

\* The whole payload is the router's, blank where nothing was asked.
LEMMA RouterAnswersKeeps ==
  ASSUME IInv, RouterAnswers
  PROVE  IInv'
  <1> USE DEF IInv
  <1> DEFINE extended == [n \in Names |-> IF n \in Core THEN "" ELSE Answer(n)]
             whole == [n \in Names |-> IF n \in Core THEN CoreHalf[n] ELSE extended[n]]
  <1>1. /\ poll' = [poll EXCEPT !.stage = "answered", !.data = whole, !.events = pending]
        /\ cache' = extended
    BY DEF RouterAnswers, Answered
  <1>2. \A n \in Names : Answer(n) \in Values
    BY NowTyped DEF Answer, Values
  <1>3. extended \in [Names -> Values] /\ \A n \in Names : whole[n] = Answer(n)
    BY <1>2 DEF CoreHalf, Values
  <1>4. whole \in [Names -> Values]
    BY <1>2, <1>3
  <1>5. pending \in SUBSET Reasons /\ poll \in Poll /\ poll.asked \subseteq Names
    BY DEF TypeOK, Poll
  <1> HIDE DEF extended, whole
  <1>6. /\ poll' \in Poll /\ poll'.stage = "answered" /\ poll'.data = whole
        /\ poll'.full = poll.full /\ poll'.every = poll.every
        /\ poll'.asked = poll.asked /\ poll'.late = poll.late
    BY <1>1, <1>4, <1>5 DEF Poll
  <1>7. TypeOK'
    <2>1. strikes' = 0
      BY DEF RouterAnswers
    <2>2. strikes' \in 0..StrikeLimit + 1
      BY <2>1, LimitIsNatural
    <2> QED
      BY <1>1, <1>3, <1>6, <2>2 DEF TypeOK, RouterAnswers, world, plan
  <1>8. AnsweredHere' /\ SpellingsKnown'
    BY AnsweredHereStays DEF SpellingsKnown, RouterAnswers, plan
  <1>9. Honest'
    <2>1. router' = router
      BY DEF RouterAnswers, world
    <2>2. \A n \in Names : whole[n] # "" => whole[n] = Now(n)
      BY <1>3 DEF Answer
    <2>3. \A n \in poll.asked : whole[n] = Now(n)
      BY <1>3, <1>5 DEF Answer
    <2> QED
      BY <1>6, <2>1, <2>2, <2>3, NowStays DEF Honest
  <1>10. FullForItsReasons'
    <2>1. poll.stage # "idle"
      BY DEF RouterAnswers
    <2>2. reasons' = reasons /\ reads' = reads /\ disabled' = disabled
      BY DEF RouterAnswers, plan
    <2> QED
      BY <1>6, <2>1, <2>2, StillFull
  <1> QED
    BY <1>7, <1>8, <1>9, <1>10

\* The held payload may be another firmware's, but then a strike stands against it.
LEMMA ExtendedFailsKeeps ==
  ASSUME IInv, ExtendedFails
  PROVE  IInv'
  <1> USE DEF IInv
  <1> DEFINE extended == IF strikes' <= StrikeLimit THEN cache ELSE Blank
             mixed == [n \in Names |-> IF n \in Core THEN CoreHalf[n] ELSE extended[n]]
  <1>1. /\ poll' = [poll EXCEPT !.stage = "answered", !.data = mixed, !.events = pending]
        /\ poll.stage = "asking"
    BY DEF ExtendedFails, Answered
  <1>2. \A n \in Names : Answer(n) \in Values
    BY NowTyped DEF Answer, Values
  <1>3. extended \in [Names -> Values]
    BY BlankTyped DEF TypeOK
  <1>4. mixed \in [Names -> Values] /\ \A n \in Core : mixed[n] = Answer(n)
    BY <1>2, <1>3, PollPlanConstants DEF CoreHalf
  <1>5. pending \in SUBSET Reasons /\ poll \in Poll
    BY DEF TypeOK
  <1>6. strikes' \in 0..StrikeLimit + 1 /\ strikes' # 0
    <2>1. strikes \in 0..StrikeLimit + 1
      BY DEF TypeOK
    <2>2. strikes' = IF strikes > StrikeLimit THEN strikes ELSE strikes + 1
      BY DEF ExtendedFails
    <2> QED
      BY <2>1, <2>2, LimitIsNatural
  <1>7. strikes' > StrikeLimit => \A n \in Names \ Core : mixed[n] = ""
    <2>1. ASSUME strikes' > StrikeLimit PROVE extended = Blank
      <3>1. ~(strikes' <= StrikeLimit)
        BY <1>6, <2>1, LimitIsNatural
      <3> QED
        BY <3>1
    <2> QED
      BY <2>1 DEF Blank
  <1> HIDE DEF extended, mixed
  <1>8. /\ poll' \in Poll /\ poll'.stage = "answered" /\ poll'.data = mixed
        /\ poll'.full = poll.full /\ poll'.every = poll.every
        /\ poll'.asked = poll.asked /\ poll'.late = poll.late
    BY <1>1, <1>4, <1>5 DEF Poll
  <1>9. TypeOK'
    BY <1>6, <1>8 DEF TypeOK, ExtendedFails, world, plan
  <1>10. AnsweredHere' /\ SpellingsKnown'
    BY AnsweredHereStays DEF SpellingsKnown, ExtendedFails, plan
  <1>11. Honest'
    <2>1. router' = router
      BY DEF ExtendedFails, world
    <2>2. \A n \in Core : mixed[n] # "" => mixed[n] = Now(n)
      BY <1>4 DEF Answer
    <2>3. Fresh' => \A n \in Names \ Core : mixed[n] = ""
      BY <1>6, <1>7 DEF Fresh
    <2> QED
      BY <1>6, <1>8, <2>1, <2>2, <2>3, NowStays DEF Honest
  <1>12. FullForItsReasons'
    <2>1. reasons' = reasons /\ reads' = reads /\ disabled' = disabled
      BY DEF ExtendedFails, plan
    <2> QED
      BY <1>1, <1>8, <2>1, StillFull
  <1> QED
    BY <1>9, <1>10, <1>11, <1>12

LEMMA PollFailsKeeps ==
  ASSUME IInv, PollFails
  PROVE  IInv'
  <1> USE DEF IInv
  <1>1. poll' \in Poll /\ poll'.stage = "idle"
    BY IdleTyped DEF PollFails
  <1>2. TypeOK'
    BY <1>1 DEF TypeOK, PollFails, world, plan, endpoint
  <1>3. AnsweredHere' /\ SpellingsKnown'
    BY AnsweredHereStays DEF SpellingsKnown, PollFails, plan
  <1>4. Honest' /\ FullForItsReasons'
    BY <1>1 DEF Honest, FullForItsReasons
  <1> QED
    BY <1>2, <1>3, <1>4

-----------------------------------------------------------------------------
(* The end of a poll. *)

\* A payload that is learned from is the router's own on every name.
LEMMA FreshIsNow ==
  ASSUME IInv, poll.stage = "answered", Fresh, NEW n \in Names, poll.data[n] # ""
  PROVE  poll.data[n] = Gives[router.runs][n]
  <1>1. poll.data[n] = Now(n)
    BY DEF IInv, Honest
  <1> QED
    BY <1>1, NowTyped DEF IInv

\* What is kept was learned on the firmware the poll has found again.
LEMMA KeptAnswers ==
  ASSUME IInv
  PROVE  Kept \subseteq Names /\ Answers(router.runs, Kept)
  <1>1. CASE NewFirmware
    BY <1>1 DEF Kept, Answers
  <1>2. CASE ~NewFirmware
    <2>1. Kept = answered /\ answered \subseteq Names
      BY <1>2 DEF Kept, IInv, TypeOK
    <2>2. CASE firmware = router.runs
      BY <2>1, <2>2 DEF IInv, AnsweredHere
    <2>3. CASE firmware = None
      BY <2>1, <2>3 DEF IInv, AnsweredHere, Answers
    <2> QED
      BY <1>2, <2>2, <2>3 DEF NewFirmware
  <1> QED
    BY <1>1, <1>2

LEMMA SucceedsTyped ==
  ASSUME IInv, PollSucceeds
  PROVE  TypeOK'
  <1> USE DEF IInv
  <1>1. router.runs \in Firmwares /\ poll \in Poll /\ poll.events \subseteq Reasons
    BY DEF TypeOK, Poll
  <1>2. Learn /\ Advance
    BY DEF PollSucceeds
  <1>3. NowReads \in [Entities -> SUBSET Names]
    BY ReadersTyped DEF NowReads, TypeOK
  <1>4. reads' \in [Entities -> SUBSET Names]
    BY <1>2, <1>3 DEF Learn, TypeOK
  <1>5. answered' \subseteq Names
    BY <1>2, KeptAnswers, TaughtTyped DEF Learn
  <1>6. disabled' \subseteq Entities
    BY <1>2 DEF Learn, TypeOK
  <1>7. dirty' \in BOOLEAN
    <2>1. CASE Fresh
      <3>1. dirty' = (dirty \/ ~(Taught(NowReads, poll.data) \subseteq Kept))
        BY <1>2, <2>1 DEF Learn
      <3> QED
        BY <3>1
    <2>2. CASE ~Fresh
      BY <1>2, <2>2 DEF Learn, TypeOK
    <2> QED
      BY <2>1, <2>2
  <1>8. polls' \in 0..FullEvery
    <2>1. polls' = IF polls = FullEvery THEN 1 ELSE polls + 1
      BY <1>2 DEF Advance
    <2>2. polls \in 0..FullEvery
      BY DEF TypeOK
    <2>3. FullEvery \in Nat \ {0}
      BY PollPlanConstants
    <2> QED
      BY <2>1, <2>2, <2>3
  <1>9. reasons' \subseteq Reasons
    <2>1. Owed \subseteq Reasons
      BY <1>1 DEF Owed, TypeOK, Reasons
    <2> QED
      BY <1>2, <2>1 DEF Advance
  <1>10. sweep' \in BOOLEAN
    <2>1. sweep' = (last5g = "no" /\ router.nr)
      BY <1>2 DEF Advance
    <2> QED
      BY <2>1
  <1>11. last5g' \in {"unknown", "no", "yes"} /\ clock' \in {"unset", "today", "day"}
    BY <1>2 DEF Advance, TypeOK
  <1>12. poll' \in Poll
    BY IdleTyped DEF PollSucceeds
  <1>13. /\ firmware' \in Firmwares \cup {None} /\ pending' \subseteq Reasons
    BY <1>1 DEF PollSucceeds, TypeOK
  <1>14. UNCHANGED <<router, registry, moves, strikes, cache, store>>
    BY DEF PollSucceeds, endpoint
  <1> QED
    BY <1>4, <1>5, <1>6, <1>7, <1>8, <1>9, <1>10, <1>11, <1>12, <1>13, <1>14 DEF TypeOK

LEMMA SucceedsKeeps ==
  ASSUME IInv, PollSucceeds
  PROVE  IInv'
  <1>1. /\ firmware' = router.runs /\ store' = store /\ poll' = Idle
        /\ poll.stage = "answered" /\ Learn /\ router.runs \in Firmwares
    BY DEF PollSucceeds, IInv, TypeOK
  <1>2. \A e \in Entities : Spellings[e] \subseteq NowReads[e]
    BY ReadersTyped DEF NowReads, IInv, SpellingsKnown, TypeOK
  <1>3. SpellingsKnown'
    BY <1>1, <1>2 DEF Learn, IInv, SpellingsKnown
  <1>4. AnsweredHere'
    <2>1. Answers(router.runs, answered')
      <3>1. CASE Fresh
        <4>1. \A n \in Names :
                 poll.data[n] # "" => poll.data[n] = Gives[router.runs][n]
          BY <1>1, <3>1, FreshIsNow
        <4>2. Answers(router.runs, Taught(NowReads, poll.data))
          BY <1>1, <1>2, <4>1, TaughtAnswers
        <4> QED
          BY <1>1, <3>1, <4>2, KeptAnswers, BothAnswer DEF Learn
      <3>2. CASE ~Fresh
        BY <1>1, <3>2, KeptAnswers DEF Learn
      <3> QED
        BY <3>1, <3>2
    <2>2. Answers(store.runs, store.names)
      BY DEF IInv, AnsweredHere
    <2> QED
      BY <1>1, <2>1, <2>2 DEF AnsweredHere, Answers
  <1>5. Honest' /\ FullForItsReasons'
    BY <1>1, IdleTyped DEF Honest, FullForItsReasons
  <1> QED
    BY <1>3, <1>4, <1>5, SucceedsTyped DEF IInv

-----------------------------------------------------------------------------
(* Requests, storage, restarts, and the world around. *)

LEMMA RequestKeeps ==
  ASSUME IInv, NEW r \in Requests, Request(r)
  PROVE  IInv'
  <1> USE DEF IInv
  <1>1. r \in Reasons
    BY PollPlanConstants DEF Reasons
  <1>2. /\ poll' \in Poll
        /\ poll'.stage = poll.stage /\ poll'.data = poll.data
        /\ poll'.full = poll.full /\ poll'.every = poll.every
        /\ poll'.asked = poll.asked
        /\ poll.stage # "idle" => (reasons \ poll.late)' = reasons \ poll.late
    <2>1. poll \in Poll /\ reasons' = reasons \cup {r}
      BY DEF TypeOK, Request
    <2>2. CASE poll.stage = "idle" \/ r \in reasons
      <3>1. poll' = poll
        BY <2>2 DEF Request
      <3> QED
        BY <2>1, <2>2, <3>1
    <2>3. CASE poll.stage # "idle" /\ r \notin reasons
      <3>1. poll' = [poll EXCEPT !.late = @ \cup {r}]
        BY <2>3 DEF Request
      <3>2. /\ poll' \in Poll /\ poll'.late = poll.late \cup {r}
            /\ poll'.stage = poll.stage /\ poll'.data = poll.data
            /\ poll'.full = poll.full /\ poll'.every = poll.every
            /\ poll'.asked = poll.asked
        BY <1>1, <2>1, <3>1 DEF Poll
      <3> QED
        BY <2>1, <2>3, <3>2
    <2> QED
      BY <2>2, <2>3
  <1>3. TypeOK'
    BY <1>1, <1>2 DEF TypeOK, Request, world, endpoint
  <1>4. AnsweredHere' /\ SpellingsKnown'
    BY AnsweredHereStays DEF SpellingsKnown, Request
  <1>5. Honest'
    <2>1. router' = router /\ strikes' = strikes
      BY DEF Request, world, endpoint
    <2> QED
      BY <1>2, <2>1, NowStays DEF Honest, Fresh
  <1>6. FullForItsReasons'
    <2>1. reads' = reads /\ disabled' = disabled
      BY DEF Request
    <2>2. Everything(poll.every)' = Everything(poll.every)
      BY <1>2, <2>1 DEF Everything, Attributed, Live, Consumers
    <2> QED
      BY <1>2, <2>2 DEF FullForItsReasons
  <1> QED
    BY <1>3, <1>4, <1>5, <1>6

\* Steps that leave the poll, the router and the plan's names as they are.
LEMMA RestKeeps ==
  ASSUME IInv, TypeOK', UNCHANGED <<poll, strikes, answered, reads, disabled,
                                    reasons, firmware>>,
         store' = store \/ store' = Record,
         router' = router \/ poll.stage = "idle"
  PROVE  IInv'
  <1> USE DEF IInv
  <1>1. AnsweredHere'
    <2>1. CASE store' = store
      BY <2>1, AnsweredHereStays
    <2>2. CASE store' = Record
      BY <2>2 DEF AnsweredHere, Answers, Record
    <2> QED
      BY <2>1, <2>2
  <1>2. SpellingsKnown'
    BY DEF SpellingsKnown
  <1>3. Honest'
    BY NowStays DEF Honest, Fresh
  <1>4. FullForItsReasons'
    BY StillFull DEF FullForItsReasons
  <1> QED
    BY <1>1, <1>2, <1>3, <1>4

LEMMA RestartKeeps ==
  ASSUME IInv, Restart
  PROVE  IInv'
  <1> USE DEF IInv
  <1>1. store.runs \in Firmwares \cup {None} /\ store.names \subseteq Names
    BY DEF TypeOK
  <1>2. /\ reads' = [e \in Entities |-> Spellings[e]]
        /\ reads' \in [Entities -> SUBSET Names]
    BY PollPlanConstants DEF Restart
  <1>3. poll' \in Poll /\ poll'.stage = "idle"
    BY IdleTyped DEF Restart
  <1>4. moves' \in 0..MaxMoves
    <2>1. moves < MaxMoves /\ moves' = moves + 1 /\ moves \in 0..MaxMoves
      BY DEF Restart, TypeOK
    <2>2. MaxMoves \in Nat
      BY PollPlanConstants
    <2> QED
      BY <2>1, <2>2
  <1>5. polls' \in 0..FullEvery /\ strikes' \in 0..StrikeLimit + 1
    <2>1. polls' = 0 /\ strikes' = 0
      BY DEF Restart
    <2>2. FullEvery \in Nat
      BY PollPlanConstants
    <2> QED
      BY <2>1, <2>2, LimitIsNatural
  <1>6. cache' \in [Names -> Values]
    BY BlankTyped DEF Restart
  <1>7. dirty' \in BOOLEAN /\ sweep' \in BOOLEAN
    BY DEF Restart
  <1>8. TypeOK'
    BY <1>1, <1>2, <1>3, <1>4, <1>5, <1>6, <1>7 DEF TypeOK, Restart, Reasons
  <1>9. AnsweredHere'
    BY DEF AnsweredHere, Answers, Restart
  <1>10. SpellingsKnown'
    BY <1>2 DEF SpellingsKnown
  <1>11. Honest' /\ FullForItsReasons'
    BY <1>3 DEF Honest, FullForItsReasons
  <1> QED
    BY <1>8, <1>9, <1>10, <1>11

LEMMA MovesTyped ==
  ASSUME IInv, moves < MaxMoves, moves' = moves + 1
  PROVE  moves' \in 0..MaxMoves
  <1>1. moves \in 0..MaxMoves
    BY DEF IInv, TypeOK
  <1>2. MaxMoves \in Nat
    BY PollPlanConstants
  <1> QED
    BY <1>1, <1>2

LEMMA SaveKeeps ==
  ASSUME IInv, SaveRuns
  PROVE  IInv'
  <1>1. TypeOK'
    <2>1. dirty' \in BOOLEAN
      BY DEF SaveRuns
    <2>2. store' \in [runs : Firmwares \cup {None}, names : SUBSET Names]
      BY DEF SaveRuns, Record, IInv, TypeOK
    <2> QED
      BY <2>1, <2>2 DEF SaveRuns, IInv, TypeOK, world, plan, endpoint
  <1> QED
    BY <1>1, RestKeeps DEF SaveRuns, world, plan, endpoint

LEMMA DayKeeps ==
  ASSUME IInv, DayPasses
  PROVE  IInv'
  <1>1. TypeOK'
    BY DEF DayPasses, IInv, TypeOK, world, endpoint
  <1> QED
    BY <1>1, RestKeeps DEF DayPasses, world, endpoint

LEMMA RouterChangesKeeps ==
  ASSUME IInv, RouterChanges
  PROVE  IInv'
  <1>1. router' \in [runs : Firmwares, nr : BOOLEAN]
    <2>1. router \in [runs : Firmwares, nr : BOOLEAN]
      BY DEF IInv, TypeOK
    <2>2. CASE \E f \in Firmwares : router' = [router EXCEPT !.runs = f]
      BY <2>1, <2>2
    <2>3. CASE router' = router
      BY <2>1, <2>3
    <2>4. CASE router' = [router EXCEPT !.nr = ~@]
      <3>1. (~router.nr) \in BOOLEAN
        OBVIOUS
      <3> DEFINE b == ~router.nr
      <3>2. router' = [router EXCEPT !.nr = b] /\ b \in BOOLEAN
        BY <2>4, <3>1
      <3> HIDE DEF b
      <3> QED
        BY <2>1, <3>2
    <2> QED
      BY <2>2, <2>3, <2>4 DEF RouterChanges
  <1>2. pending' \subseteq Reasons
    BY DEF RouterChanges, IInv, TypeOK, Reasons
  <1>3. moves' \in 0..MaxMoves
    BY MovesTyped DEF RouterChanges
  <1>4. TypeOK'
    BY <1>1, <1>2, <1>3 DEF RouterChanges, IInv, TypeOK, plan, endpoint
  <1> QED
    BY <1>4, RestKeeps DEF RouterChanges, plan, endpoint

LEMMA RegistryKeeps ==
  ASSUME IInv, RegistryChanges
  PROVE  IInv'
  <1>1. registry' \subseteq Entities
    BY DEF RegistryChanges, IInv, TypeOK
  <1>2. moves' \in 0..MaxMoves
    BY MovesTyped DEF RegistryChanges
  <1>3. TypeOK'
    BY <1>1, <1>2 DEF RegistryChanges, IInv, TypeOK, plan, endpoint
  <1> QED
    BY <1>3, RestKeeps DEF RegistryChanges, plan, endpoint

-----------------------------------------------------------------------------
(* The theorems. *)

LEMMA InitHolds == Init => IInv
  <1> SUFFICES ASSUME Init PROVE IInv
    OBVIOUS
  <1>1. reads = [e \in Entities |-> Spellings[e]] /\ reads \in [Entities -> SUBSET Names]
    BY PollPlanConstants DEF Init
  <1>2. poll \in Poll /\ poll.stage = "idle" /\ cache \in [Names -> Values]
    BY IdleTyped, BlankTyped DEF Init
  <1>3. 0 \in 0..FullEvery /\ 0 \in 0..StrikeLimit + 1 /\ 0 \in 0..MaxMoves
    <2>1. FullEvery \in Nat /\ MaxMoves \in Nat
      BY PollPlanConstants
    <2> QED
      BY <2>1, LimitIsNatural
  <1>4. FALSE \in BOOLEAN
    OBVIOUS
  <1>5. TypeOK
    BY <1>1, <1>2, <1>3, <1>4 DEF Init, TypeOK, Reasons
  <1>6. AnsweredHere /\ SpellingsKnown
    BY <1>1 DEF Init, AnsweredHere, Answers, SpellingsKnown
  <1>7. Honest /\ FullForItsReasons
    BY <1>2 DEF Honest, FullForItsReasons
  <1> QED
    BY <1>5, <1>6, <1>7 DEF IInv

LEMMA StepKeeps == IInv /\ [Next]_vars => IInv'
  <1> SUFFICES ASSUME IInv, [Next]_vars PROVE IInv'
    OBVIOUS
  <1>1. CASE PollStarts
    BY <1>1, ChooseKeeps DEF PollStarts
  <1>2. CASE PollStartsAgain
    BY <1>2, ChooseKeeps DEF PollStartsAgain
  <1>3. CASE RouterAnswers
    BY <1>3, RouterAnswersKeeps
  <1>4. CASE ExtendedFails
    BY <1>4, ExtendedFailsKeeps
  <1>5. CASE PollFails
    BY <1>5, PollFailsKeeps
  <1>6. CASE PollSucceeds
    BY <1>6, SucceedsKeeps
  <1>7. CASE \E r \in Requests : Request(r)
    BY <1>7, RequestKeeps
  <1>8. CASE SaveRuns
    BY <1>8, SaveKeeps
  <1>9. CASE Restart
    BY <1>9, RestartKeeps
  <1>10. CASE DayPasses
    BY <1>10, DayKeeps
  <1>11. CASE RouterChanges
    BY <1>11, RouterChangesKeeps
  <1>12. CASE RegistryChanges
    BY <1>12, RegistryKeeps
  <1>13. CASE UNCHANGED vars
    <2>1. TypeOK'
      BY <1>13 DEF vars, world, plan, endpoint, IInv, TypeOK
    <2> QED
      BY <1>13, <2>1, RestKeeps DEF vars, world, plan, endpoint
  <1> QED
    BY <1>1, <1>2, <1>3, <1>4, <1>5, <1>6, <1>7, <1>8, <1>9, <1>10, <1>11, <1>12,
       <1>13 DEF Next

\* IInv holds in every state the plan reaches.
THEOREM Inductive == Spec => []IInv
  BY InitHolds, StepKeeps, PTL DEF Spec

\* Type correctness, for every universe and every set of entities.
THEOREM TypeCorrect == Spec => []TypeOK
  <1>1. IInv => TypeOK
    BY DEF IInv
  <1> QED
    BY <1>1, Inductive, PTL

\* The names asked for again, and the names stored, are names that answered on
\* the firmware they are kept for.
THEOREM LearnedHere == Spec => []AnsweredHere
  <1>1. IInv => AnsweredHere
    BY DEF IInv
  <1> QED
    BY <1>1, Inductive, PTL

LEMMA StepServes ==
  ASSUME IInv, Next, moves' = moves, NEW r \in reasons \ poll.late, r \notin reasons'
  PROVE  /\ Everything(r = "diagnostics download") \subseteq poll.asked
         /\ \A n \in poll.asked \ Core : poll.data[n] = Now(n) \/ strikes > StrikeLimit
  <1>1. ~Restart
    <2> SUFFICES ASSUME Restart PROVE FALSE
      OBVIOUS
    <2>1. moves \in 0..MaxMoves
      BY DEF IInv, TypeOK
    <2>2. moves + 1 = moves
      BY DEF Restart
    <2> QED
      BY <2>1, <2>2
  <1>2. PollSucceeds
    BY <1>1 DEF Next, PollStarts, PollStartsAgain, Choose, RouterAnswers, ExtendedFails,
       PollFails, Request, SaveRuns, DayPasses, RouterChanges, RegistryChanges, plan
  <1>3. poll.stage = "answered" /\ Served
    BY <1>2 DEF PollSucceeds, Advance, Owed
  <1>4. poll.full /\ poll.asked = Everything(poll.every)
    BY <1>3 DEF IInv, FullForItsReasons, Served
  <1>5. Everything(r = "diagnostics download") \subseteq poll.asked
    <2>1. CASE r = "diagnostics download"
      <3>1. poll.every
        BY <1>3, <2>1 DEF IInv, FullForItsReasons
      <3> QED
        BY <1>4, <2>1, <3>1 DEF Everything
    <2>2. CASE r # "diagnostics download"
      BY <1>4, <2>2 DEF Everything
    <2> QED
      BY <2>1, <2>2
  <1>6. \A n \in poll.asked \ Core : poll.data[n] = Now(n) \/ strikes > StrikeLimit
    BY <1>3 DEF IInv, Honest, Served, Fresh
  <1> QED
    BY <1>5, <1>6

\* A reason for a full poll, once a poll is chosen for it, goes away in a poll
\* that asked everything it stands for and was answered.
THEOREM OwedIsServed == Spec => OwedUntilServed
  <1>1. IInv /\ [Next]_vars
           => [moves' = moves =>
                 \A r \in reasons \ poll.late :
                    r \notin reasons' =>
                       /\ Everything(r = "diagnostics download") \subseteq poll.asked
                       /\ \A n \in poll.asked \ Core :
                             poll.data[n] = Now(n) \/ strikes > StrikeLimit]_vars
    <2> SUFFICES ASSUME IInv, Next, moves' = moves,
                        NEW r \in reasons \ poll.late, r \notin reasons'
                 PROVE  /\ Everything(r = "diagnostics download") \subseteq poll.asked
                        /\ \A n \in poll.asked \ Core :
                              poll.data[n] = Now(n) \/ strikes > StrikeLimit
      OBVIOUS
    <2> QED
      BY StepServes
  <1> QED
    BY <1>1, Inductive, PTL DEF Spec, OwedUntilServed

=============================================================================
