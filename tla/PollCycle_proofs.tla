--------------------------- MODULE PollCycle_proofs ---------------------------
(***************************************************************************)
(* Proofs about PollCycle, for every list of optional endpoints, both limits  *)
(* and any number of moves: LossIsShown and ValuesKept hold, and the cycle      *)
(* implements Reachability.                                                  *)
(*                                                                         *)
(* NoSilentLoss is about the moments between two polls; for it to come back   *)
(* after each, the verdict must already be that of the strikes when the       *)
(* success path has been taken (Told), since what follows may fail.  That a    *)
(* paused poll which already has something to lose was forced (OnlyForced) is  *)
(* what the skip test gives ValuesKept.                                       *)
(***************************************************************************)
EXTENDS PollCycle, TLAPS

\* The endpoints past their strikes are in the verdict.
Listed == \A e \in Range(Optional) : strikes[e] > Limit => e \in health.degraded

Told ==
    /\ life = "loaded" /\ poll.at = "idle" /\ ~poll.closing =>
          /\ ~up => health.problem \/ data = "none"
          /\ Listed
    /\ poll.at \in {"provisioning", "observe"} => failures = 0 /\ Listed

OnlyForced ==
    poll.at # "idle" /\ poll.paused /\ ~poll.closing /\ data # "none" => poll.forced

IInv == TypeOK /\ OwnCards /\ Told /\ OnlyForced

-----------------------------------------------------------------------------
(* Parts of the type. *)

PollTyped == poll \in Poll /\ (poll.at = "optional" => poll.next \in DOMAIN Optional)

EndpointTyped == strikes \in [Endpoints -> 0..Limit + 1] /\ asked \in BOOLEAN

RepairTyped == raised \subseteq Repairs /\ card \subseteq Repairs /\ leftover \subseteq card

CycleTyped ==
    /\ data \in {"none", "empty", "values"} /\ up \in BOOLEAN /\ stopped \in BOOLEAN
    /\ failures \in 0..UnreachableLimit
    /\ health \in [problem : BOOLEAN, degraded : SUBSET Endpoints]

RestTyped ==
    /\ life \in {"loaded", "unloading", "unloaded"}
    /\ options \in [paused : BOOLEAN, outage : BOOLEAN]
    /\ force \in BOOLEAN /\ moves \in 0..MaxMoves

LEMMA TypeParts ==
    TypeOK <=> PollTyped /\ EndpointTyped /\ RepairTyped /\ CycleTyped /\ RestTyped
  BY DEF TypeOK, PollTyped, EndpointTyped, RepairTyped, CycleTyped, RestTyped

\* What a poll under way leaves alone: all but itself and the endpoints' strikes.
Proceeds ==
    /\ poll.at # "idle" /\ poll'.at \notin {"idle", "provisioning", "observe"}
    /\ poll'.paused = poll.paused /\ poll'.forced = poll.forced
    /\ poll'.closing = poll.closing
    /\ PollTyped' /\ EndpointTyped'
    /\ UNCHANGED <<life, options, force, cycle, moves>>

-----------------------------------------------------------------------------
(* The operators. *)

LEMMA OptionalRange ==
    /\ DOMAIN Optional = 1..Len(Optional) /\ Len(Optional) \in Nat
    /\ \A i \in 1..Len(Optional) : Optional[i] \in Range(Optional)
  BY PollCycleConstants DEF Range

LEMMA NoPollTyped == NoPoll \in Poll /\ NoPoll.at = "idle" /\ NoPoll.closing = FALSE
  <1>1. FALSE \in BOOLEAN /\ 1 \in Nat
    OBVIOUS
  <1> QED
    BY <1>1 DEF NoPoll, Poll

LEMMA DegradedTyped == Degraded \in SUBSET Endpoints
  BY DEF Degraded, Endpoints

\* Whatever the repairs are set to, the cards stay those of their flags.
LEMMA SetRepairsOwn ==
  ASSUME RepairTyped, NEW now \in SUBSET Repairs, SetRepairs(now)
  PROVE  /\ RepairTyped' /\ raised' = now
         /\ card \ leftover \subseteq raised => card' \ leftover' \subseteq raised'
         /\ ("conn_error" \in raised => "conn_error" \in card)
                => ("conn_error" \in raised' => "conn_error" \in card')
  BY DEF RepairTyped, SetRepairs

LEMMA TallyTyped ==
  ASSUME failures \in 0..UnreachableLimit
  PROVE  Tally \in 0..UnreachableLimit
  BY PollCycleConstants DEF Tally

LEMMA EndedTyped ==
  ASSUME PollTyped, Ended
  PROVE  PollTyped' /\ poll'.at = "idle" /\ poll'.closing = poll.closing
  <1>1. FALSE \in BOOLEAN /\ 1 \in Nat /\ poll.closing \in BOOLEAN
    BY DEF PollTyped, Poll
  <1> QED
    BY <1>1 DEF Ended, NoPoll, PollTyped, Poll

LEMMA ClosesTyped ==
  ASSUME options \in [paused : BOOLEAN, outage : BOOLEAN], Closes
  PROVE  options' \in [paused : BOOLEAN, outage : BOOLEAN]
  <1>1. FALSE \in BOOLEAN
    OBVIOUS
  <1> QED
    BY <1>1 DEF Closes

-----------------------------------------------------------------------------
(* A poll under way. *)

LEMMA ProceedsInv ==
  ASSUME IInv, Proceeds
  PROVE  IInv'
  <1>1. TypeOK'
    <2>1. PollTyped' /\ EndpointTyped'
      BY DEF Proceeds
    <2>2. RepairTyped' /\ CycleTyped' /\ RestTyped'
      BY TypeParts DEF IInv, Proceeds, RepairTyped, CycleTyped, RestTyped, cycle
    <2> QED
      BY <2>1, <2>2 DEF TypeOK, PollTyped, EndpointTyped, RepairTyped, CycleTyped, RestTyped
  <1>2. OwnCards'
    BY DEF IInv, OwnCards, Proceeds, cycle
  <1>3. Told'
    BY DEF Told, Proceeds
  <1>4. OnlyForced'
    BY DEF IInv, OnlyForced, Proceeds, cycle
  <1> QED
    BY <1>1, <1>2, <1>3, <1>4 DEF IInv

LEMMA CoreReadsInv ==
  ASSUME IInv, CoreReads
  PROVE  IInv'
  <1> DEFINE stage == IF Len(Optional) = 0 THEN "answered" ELSE "optional"
  <1>1. poll \in Poll /\ EndpointTyped
    BY DEF IInv, TypeOK, EndpointTyped
  <1>2. poll' = [poll EXCEPT !.at = stage, !.next = 1]
    BY DEF CoreReads
  <1>3. stage = "optional" => 1 \in DOMAIN Optional
    BY OptionalRange
  <1>4. PollTyped'
    BY <1>1, <1>2, <1>3 DEF PollTyped, Poll
  <1>5. EndpointTyped'
    BY <1>1 DEF CoreReads, endpoint, EndpointTyped
  <1>6. Proceeds
    BY <1>1, <1>2, <1>4, <1>5 DEF Proceeds, CoreReads, Poll
  <1> QED
    BY <1>6, ProceedsInv

LEMMA LogsInInv ==
  ASSUME IInv, LogsIn
  PROVE  IInv'
  <1>1. poll \in Poll /\ EndpointTyped
    BY DEF IInv, TypeOK, EndpointTyped
  <1>2. TRUE \in BOOLEAN
    OBVIOUS
  <1>3. PollTyped'
    BY <1>1, <1>2 DEF PollTyped, Poll, LogsIn
  <1>4. EndpointTyped'
    BY <1>1 DEF LogsIn, endpoint, EndpointTyped
  <1>5. Proceeds
    BY <1>1, <1>3, <1>4 DEF Proceeds, LogsIn, Poll
  <1> QED
    BY <1>5, ProceedsInv

\* The poll after a read that went on.
LEMMA GoesOnTyped ==
  ASSUME PollTyped, poll.at \in {"optional", "provisioning"}, NEW c \in BOOLEAN, GoesOn(c)
  PROVE  /\ PollTyped'
         /\ poll.at = "optional" => poll'.at \in {"optional", "answered"}
         /\ poll.at = "provisioning" => poll'.at = "observe"
         /\ poll'.paused = poll.paused /\ poll'.forced = poll.forced
         /\ poll'.closing = poll.closing
  <1> DEFINE stage == IF NextRead THEN "optional"
                      ELSE IF poll.at = "optional" THEN "answered" ELSE "observe"
             place == IF NextRead THEN poll.next + 1 ELSE poll.next
  <1>1. poll \in Poll
    BY DEF PollTyped
  <1>2. place \in Nat
    BY <1>1 DEF Poll
  <1>3. NextRead => place \in DOMAIN Optional
    BY <1>1, OptionalRange DEF NextRead, Poll
  <1>4. (poll.clean /\ c) \in BOOLEAN
    OBVIOUS
  <1>5. poll' = [poll EXCEPT !.at = stage, !.next = place, !.clean = poll.clean /\ c]
    BY <1>1 DEF GoesOn, Poll
  <1>6. stage \in {"optional", "answered", "observe"}
    OBVIOUS
  <1>7. poll' \in Poll
    BY <1>1, <1>2, <1>4, <1>5, <1>6 DEF Poll
  <1>8. poll'.at = stage /\ poll'.next = place
    BY <1>1, <1>5 DEF Poll
  <1>9. PollTyped'
    BY <1>3, <1>7, <1>8 DEF PollTyped
  <1>10. /\ poll'.paused = poll.paused /\ poll'.forced = poll.forced
         /\ poll'.closing = poll.closing
    BY <1>1, <1>5 DEF Poll
  <1> QED
    BY <1>8, <1>9, <1>10 DEF NextRead

\* A read changes the strikes of the endpoint it asked, and of no other.
LEMMA EndpointInv ==
  ASSUME IInv, poll.at \in {"optional", "provisioning"}, NEW c \in BOOLEAN, GoesOn(c),
         NEW n \in 0..Limit + 1, strikes' = [strikes EXCEPT ![Reading] = n],
         asked' \in BOOLEAN,
         UNCHANGED <<life, options, force, cycle, moves>>
  PROVE  IInv'
  <1>1. PollTyped /\ EndpointTyped
    BY TypeParts DEF IInv
  <1>2. EndpointTyped'
    BY <1>1 DEF EndpointTyped
  <1>3. CASE poll.at = "optional"
    <2>1. Proceeds
      BY <1>1, <1>2, <1>3, GoesOnTyped DEF Proceeds
    <2> QED
      BY <2>1, ProceedsInv
  <1>4. CASE poll.at = "provisioning"
    <2>1. PollTyped' /\ poll'.at = "observe" /\ poll'.paused = poll.paused
          /\ poll'.forced = poll.forced /\ poll'.closing = poll.closing
      BY <1>1, <1>4, GoesOnTyped
    <2>2. TypeOK'
      BY <1>2, <2>1, TypeParts DEF IInv, TypeOK, PollTyped, EndpointTyped, cycle
    <2>3. OwnCards'
      BY DEF IInv, OwnCards, cycle
    <2>4. Reading = Provisioning /\ Provisioning \notin Range(Optional)
      BY <1>4, PollCycleConstants DEF Reading
    <2>5. \A e \in Range(Optional) : strikes'[e] = strikes[e]
      BY <1>1, <2>4 DEF EndpointTyped, Endpoints
    <2>6. failures = 0 /\ Listed
      BY <1>4 DEF IInv, Told
    <2>7. Told'
      BY <2>1, <2>5, <2>6 DEF Told, Listed, cycle
    <2>8. OnlyForced'
      BY <1>4, <2>1 DEF IInv, OnlyForced, cycle
    <2> QED
      BY <2>2, <2>3, <2>7, <2>8 DEF IInv
  <1> QED
    BY <1>3, <1>4

LEMMA EndpointReadsInv ==
  ASSUME IInv, EndpointReads
  PROVE  IInv'
  <1>1. 0 \in 0..Limit + 1 /\ TRUE \in BOOLEAN
    BY PollCycleConstants
  <1>2. asked \in BOOLEAN
    BY DEF IInv, TypeOK
  <1>3. asked' \in BOOLEAN
    BY <1>2 DEF EndpointReads
  <1>4. /\ poll.at \in {"optional", "provisioning"} /\ GoesOn(TRUE)
        /\ strikes' = [strikes EXCEPT ![Reading] = 0]
        /\ UNCHANGED <<life, options, force, cycle, moves>>
    BY DEF EndpointReads
  <1> QED
    BY <1>1, <1>3, <1>4, EndpointInv

LEMMA EndpointFailsInv ==
  ASSUME IInv, EndpointFails
  PROVE  IInv'
  <1> DEFINE n == IF strikes[Reading] > Limit THEN strikes[Reading] ELSE strikes[Reading] + 1
  <1>1. PollTyped /\ strikes \in [Endpoints -> 0..Limit + 1] /\ asked \in BOOLEAN
    BY DEF IInv, TypeOK, PollTyped
  <1>2. poll.at \in {"optional", "provisioning"}
    BY DEF EndpointFails
  <1>3. Reading \in Endpoints
    BY <1>1, <1>2, OptionalRange DEF Reading, Endpoints, PollTyped
  <1>4. n \in 0..Limit + 1
    BY <1>1, <1>3, PollCycleConstants
  <1>5. strikes' = [strikes EXCEPT ![Reading] = n]
    BY <1>1, <1>3 DEF EndpointFails
  <1>6. /\ GoesOn(FALSE) /\ asked' = asked
        /\ UNCHANGED <<life, options, force, cycle, moves>>
    BY DEF EndpointFails
  <1>7. FALSE \in BOOLEAN
    OBVIOUS
  <1> HIDE DEF n
  <1> QED
    BY <1>1, <1>2, <1>4, <1>5, <1>6, <1>7, EndpointInv

-----------------------------------------------------------------------------
(* How a poll ends. *)

LEMMA HealthFailureTyped ==
  ASSUME NEW count, NEW lockout, HealthFailure(count, lockout)
  PROVE  /\ health' \in [problem : BOOLEAN, degraded : SUBSET Endpoints]
         /\ health'.degraded = Degraded
         /\ data = "none" \/ count >= Limit => health'.problem
  <1> DEFINE p == \/ data = "none" \/ count >= Limit \/ lockout
                  \/ Degraded # {}
  <1>1. p \in BOOLEAN
    OBVIOUS
  <1>2. health' = [problem |-> p, degraded |-> Degraded]
    BY DEF HealthFailure
  <1>3. data = "none" \/ count >= Limit => p
    OBVIOUS
  <1> HIDE DEF p
  <1> QED
    BY <1>1, <1>2, <1>3, DegradedTyped

\* The failure path leaves its types, and the repairs those of its count.
LEMMA FailsInv ==
  ASSUME IInv, poll.at # "idle", NEW err, Fails(err)
  PROVE  IInv'
  <1> DEFINE count == IF Counted THEN Tally ELSE failures
             rejected == err = "credentials" /\ ~Holds(count)
             auth == IF rejected THEN {"auth_failed"} ELSE {}
             conn == IF count >= UnreachableLimit THEN {"conn_error"} ELSE {}
             now == IF Counted THEN (raised \ {"conn_error"}) \cup conn \cup auth
                    ELSE raised \cup auth
  <1>1. PollTyped /\ EndpointTyped /\ RepairTyped /\ CycleTyped /\ RestTyped
    BY TypeParts DEF IInv
  <1>2. count \in 0..UnreachableLimit
    BY <1>1, TallyTyped DEF CycleTyped
  <1>3. now \in SUBSET Repairs
    BY <1>1 DEF RepairTyped, Repairs
  <1>4. SetRepairs(now)
    BY DEF Fails
  <1>5. failures' = count /\ stopped' = rejected
        /\ up' = (Holds(count) \/ Bypass(err))
        /\ data' = (IF ~Holds(count) /\ Bypass(err) THEN "empty" ELSE data)
        /\ Closes /\ Ended /\ UNCHANGED <<life, force, endpoint, moves>>
    BY DEF Fails
  <1>6. PollTyped' /\ poll'.at = "idle" /\ poll'.closing = poll.closing
    BY <1>1, <1>5, EndedTyped
  <1>7. RepairTyped' /\ raised' = now
        /\ (card \ leftover \subseteq raised => card' \ leftover' \subseteq raised')
        /\ (("conn_error" \in raised => "conn_error" \in card)
               => ("conn_error" \in raised' => "conn_error" \in card'))
    BY <1>1, <1>3, <1>4, SetRepairsOwn
  <1>8. ASSUME Counted
        PROVE  Told' /\ health' \in [problem : BOOLEAN, degraded : SUBSET Endpoints]
    <2>1. PICK lockout \in BOOLEAN : HealthFailure(count, lockout)
      BY <1>8 DEF Fails
    <2>2. /\ health' \in [problem : BOOLEAN, degraded : SUBSET Endpoints]
          /\ health'.degraded = Degraded
          /\ data = "none" \/ count >= Limit => health'.problem
      BY <2>1, HealthFailureTyped
    <2>3. Listed'
      BY <1>5, <2>2 DEF Listed, Degraded, endpoint
    <2>4. ~up' => data = "none" \/ count >= Limit
      <3>1. ~up' => ~Holds(count)
        BY <1>5
      <3>2. ~Holds(count) => data = "none" \/ ~(count <= Limit)
        BY DEF Holds
      <3>3. ~(count <= Limit) => count >= Limit
        BY <1>2, PollCycleConstants
      <3> QED
        BY <3>1, <3>2, <3>3
    <2>5. Told'
      BY <1>6, <2>2, <2>3, <2>4 DEF Told
    <2> QED
      BY <2>2, <2>5
  <1>9. ASSUME ~Counted
        PROVE  Told' /\ health' \in [problem : BOOLEAN, degraded : SUBSET Endpoints]
    <2>1. health' = health /\ poll.closing
      BY <1>9 DEF Fails, Counted
    <2>2. Told'
      BY <1>6, <2>1 DEF Told
    <2>3. health' \in [problem : BOOLEAN, degraded : SUBSET Endpoints]
      BY <1>1, <2>1 DEF CycleTyped
    <2> QED
      BY <2>2, <2>3
  <1>10. Told' /\ health' \in [problem : BOOLEAN, degraded : SUBSET Endpoints]
    BY <1>8, <1>9
  <1>11. (Holds(count) \/ Bypass(err)) \in BOOLEAN /\ rejected \in BOOLEAN
    BY DEF Holds, Bypass
  <1>12. CycleTyped'
    BY <1>1, <1>2, <1>5, <1>10, <1>11 DEF CycleTyped
  <1>13. RestTyped'
    BY <1>1, <1>5, ClosesTyped DEF RestTyped
  <1>14. EndpointTyped'
    BY <1>1, <1>5 DEF EndpointTyped, endpoint
  <1>15. TypeOK'
    BY <1>6, <1>7, <1>12, <1>13, <1>14
       DEF TypeOK, PollTyped, EndpointTyped, RepairTyped, CycleTyped, RestTyped
  <1>17. OwnCards'
    <2> SUFFICES ASSUME life = "loaded"
                 PROVE  /\ card' \ leftover' \subseteq raised'
                        /\ "conn_error" \in raised' <=> failures' >= UnreachableLimit
                        /\ "conn_error" \in raised' => "conn_error" \in card'
      BY <1>5 DEF OwnCards
    <2>1. /\ card \ leftover \subseteq raised
          /\ "conn_error" \in raised <=> failures >= UnreachableLimit
          /\ "conn_error" \in raised => "conn_error" \in card
      BY DEF IInv, OwnCards
    <2>2. "conn_error" \in now <=> count >= UnreachableLimit
      <3>1. CASE Counted
        BY <3>1
      <3>2. CASE ~Counted
        BY <2>1, <3>2
      <3> QED
        BY <3>1, <3>2
    <2> QED
      BY <1>5, <1>7, <2>1, <2>2
  <1>18. OnlyForced'
    BY <1>6 DEF OnlyForced
  <1> QED
    BY <1>10, <1>15, <1>17, <1>18 DEF IInv

\* A rejected session is renewed once, or the poll fails.
LEMMA SessionRejectedInv ==
  ASSUME IInv, NEW err, SessionRejected(err)
  PROVE  IInv'
  <1>1. poll.at \in {"core", "optional", "provisioning"} /\ Rejected(err)
    BY DEF SessionRejected
  <1>2. CASE poll.at \in {"core", "optional"} /\ ~poll.renewed
    <2>1. /\ poll' = [poll EXCEPT !.at = "login", !.clean = FALSE]
          /\ UNCHANGED <<life, options, force, cycle, endpoint, moves>>
      BY <1>1, <1>2 DEF Rejected
    <2>2. poll \in Poll /\ EndpointTyped /\ FALSE \in BOOLEAN
      BY DEF IInv, TypeOK, EndpointTyped
    <2>3. PollTyped'
      BY <2>1, <2>2 DEF PollTyped, Poll
    <2>4. EndpointTyped'
      BY <2>1, <2>2 DEF endpoint, EndpointTyped
    <2>5. Proceeds
      BY <1>2, <2>1, <2>2, <2>3, <2>4 DEF Proceeds, Poll
    <2> QED
      BY <2>5, ProceedsInv
  <1>3. CASE ~(poll.at \in {"core", "optional"} /\ ~poll.renewed)
    <2>1. Fails(err)
      BY <1>1, <1>3 DEF Rejected
    <2> QED
      BY <1>1, <2>1, FailsInv
  <1> QED
    BY <1>2, <1>3

\* Every other step that ends a poll in failure.
LEMMA EndsInv ==
  ASSUME IInv,
         \/ CoreFails \/ ObserveFails \/ TimesOut
         \/ \E err \in {"auth", "credentials", "other"} : LoginFails(err)
  PROVE  IInv'
  <1>1. poll.at # "idle" /\ \E err : Fails(err)
    BY DEF CoreFails, ObserveFails, TimesOut, LoginFails, Running
  <1> QED
    BY <1>1, FailsInv

\* The success path: the count ends, the verdict is that of the strikes.
LEMMA AnsweredInv ==
  ASSUME IInv, Answered
  PROVE  IInv'
  <1> DEFINE stage == poll'.at
  <1>1. PollTyped /\ EndpointTyped /\ RepairTyped /\ CycleTyped /\ RestTyped
    BY TypeParts DEF IInv
  <1>2. /\ failures' = 0 /\ SetRepairs({})
        /\ health' = [problem |-> Degraded # {}, degraded |-> Degraded]
        /\ UNCHANGED <<life, options, force, data, up, stopped, endpoint, moves>>
    BY DEF Answered, Resets, HealthSuccess
  <1>3. PICK due \in BOOLEAN :
           poll' = [poll EXCEPT !.at = IF due THEN "provisioning" ELSE "observe"]
    BY DEF Answered, _read_provisioning
  <1>4. /\ poll' \in Poll /\ poll'.at \in {"provisioning", "observe"}
        /\ poll'.paused = poll.paused /\ poll'.forced = poll.forced
        /\ poll'.closing = poll.closing
    BY <1>1, <1>3 DEF PollTyped, Poll
  <1>5. RepairTyped' /\ raised' = {} /\ (card \ leftover \subseteq raised => card' \ leftover' \subseteq raised')
    BY <1>1, <1>2, SetRepairsOwn
  <1>6. health' \in [problem : BOOLEAN, degraded : SUBSET Endpoints]
    <2>1. (Degraded # {}) \in BOOLEAN
      OBVIOUS
    <2> QED
      BY <1>2, <2>1, DegradedTyped
  <1>7. CycleTyped' /\ RestTyped' /\ EndpointTyped' /\ PollTyped'
    BY <1>1, <1>2, <1>4, <1>6, PollCycleConstants
       DEF CycleTyped, RestTyped, EndpointTyped, PollTyped, endpoint
  <1>8. TypeOK'
    BY <1>5, <1>7 DEF TypeOK, PollTyped, EndpointTyped, RepairTyped, CycleTyped, RestTyped
  <1>9. OwnCards'
    BY <1>2, <1>5, PollCycleConstants DEF IInv, OwnCards
  <1>10. Listed'
    BY <1>2 DEF Listed, Degraded, endpoint
  <1>11. Told'
    BY <1>2, <1>4, <1>10 DEF Told
  <1>12. poll.at = "answered"
    BY DEF Answered
  <1>13. OnlyForced'
    BY <1>2, <1>4, <1>12 DEF IInv, OnlyForced
  <1> QED
    BY <1>8, <1>9, <1>11, <1>13 DEF IInv

LEMMA ObservedInv ==
  ASSUME IInv, Observed
  PROVE  IInv'
  <1>1. PollTyped /\ EndpointTyped /\ RepairTyped /\ CycleTyped /\ RestTyped
    BY TypeParts DEF IInv
  <1>2. /\ poll.at = "observe" /\ data' = "values" /\ up' = TRUE /\ stopped' = FALSE
        /\ Closes /\ Ended
        /\ UNCHANGED <<life, force, failures, health, raised, card, leftover, endpoint, moves>>
    BY DEF Observed, Shown
  <1>3. PollTyped' /\ poll'.at = "idle" /\ poll'.closing = poll.closing
    BY <1>1, <1>2, EndedTyped
  <1>4. TRUE \in BOOLEAN /\ FALSE \in BOOLEAN
    OBVIOUS
  <1>5. RepairTyped' /\ CycleTyped' /\ EndpointTyped'
    BY <1>1, <1>2, <1>4 DEF RepairTyped, CycleTyped, EndpointTyped, endpoint
  <1>6. RestTyped'
    BY <1>1, <1>2, ClosesTyped DEF RestTyped
  <1>7. TypeOK'
    BY <1>3, <1>5, <1>6
       DEF TypeOK, PollTyped, EndpointTyped, RepairTyped, CycleTyped, RestTyped
  <1>8. OwnCards'
    BY <1>2 DEF IInv, OwnCards
  <1>9. Listed'
    BY <1>2 DEF IInv, Told, Listed, endpoint
  <1>10. Told'
    BY <1>2, <1>3, <1>9 DEF Told
  <1>11. OnlyForced'
    BY <1>3 DEF OnlyForced
  <1> QED
    BY <1>7, <1>8, <1>10, <1>11 DEF IInv

\* A poll is skipped, or begins; one that begins paused was forced or has
\* nothing to lose.
LEMMA PollBeginsInv ==
  ASSUME IInv, NEW closing \in BOOLEAN, PollBegins(closing)
  PROVE  IInv'
  <1>1. PollTyped /\ EndpointTyped /\ RepairTyped /\ CycleTyped /\ RestTyped
    BY TypeParts DEF IInv
  <1>2. life = "loaded" /\ poll.at = "idle" /\ force' = FALSE
        /\ UNCHANGED <<life, options, endpoint, moves>>
    BY DEF PollBegins
  <1>3. TRUE \in BOOLEAN /\ FALSE \in BOOLEAN
    OBVIOUS
  <1>4. EndpointTyped' /\ RestTyped'
    BY <1>1, <1>2, <1>3 DEF EndpointTyped, RestTyped, endpoint
  <1>5. CASE Skipped(closing)
    <2>1. up' = TRUE /\ stopped' = FALSE
          /\ UNCHANGED <<poll, data, failures, health, raised, card, leftover>>
      BY <1>5 DEF PollBegins, Shown
    <2>2. PollTyped' /\ RepairTyped' /\ CycleTyped'
      BY <1>1, <1>3, <2>1 DEF PollTyped, RepairTyped, CycleTyped
    <2>3. TypeOK'
      BY <1>4, <2>2 DEF TypeOK, PollTyped, EndpointTyped, RepairTyped, CycleTyped, RestTyped
    <2>4. OwnCards'
      BY <1>2, <2>1 DEF IInv, OwnCards
    <2>5. ~poll.closing => Listed'
      BY <1>2, <2>1 DEF IInv, Told, Listed, endpoint
    <2>6. Told' /\ OnlyForced'
      BY <1>2, <2>1, <2>5 DEF Told, OnlyForced
    <2> QED
      BY <2>3, <2>4, <2>6 DEF IInv
  <1>6. CASE ~Skipped(closing)
    <2>1. /\ poll' = [NoPoll EXCEPT !.at = "core", !.forced = force,
                                    !.paused = options.paused,
                                    !.closing = closing, !.clean = TRUE]
          /\ UNCHANGED cycle
      BY <1>6 DEF PollBegins
    <2>2. force \in BOOLEAN /\ options.paused \in BOOLEAN
      BY <1>1 DEF RestTyped
    <2>3. /\ poll' \in Poll /\ poll'.at = "core" /\ poll'.forced = force
          /\ poll'.paused = options.paused /\ poll'.closing = closing
      BY <1>3, <2>1, <2>2, NoPollTyped DEF Poll
    <2>4. PollTyped' /\ RepairTyped' /\ CycleTyped'
      BY <1>1, <2>1, <2>3 DEF PollTyped, RepairTyped, CycleTyped, cycle
    <2>5. TypeOK'
      BY <1>4, <2>4 DEF TypeOK, PollTyped, EndpointTyped, RepairTyped, CycleTyped, RestTyped
    <2>6. OwnCards'
      BY <1>2, <2>1 DEF IInv, OwnCards, cycle
    <2>7. Told'
      BY <2>3 DEF Told
    <2>8. data' # "none" /\ ~closing /\ options.paused => force
      BY <1>6, <2>1 DEF Skipped, cycle
    <2>9. OnlyForced'
      BY <2>3, <2>8 DEF OnlyForced
    <2> QED
      BY <2>5, <2>6, <2>7, <2>9 DEF IInv
  <1> QED
    BY <1>5, <1>6

-----------------------------------------------------------------------------
(* Users, Home Assistant, crashes. *)

LEMMA ForceRefreshInv ==
  ASSUME IInv, ForceRefresh
  PROVE  IInv'
  <1>1. /\ force' = TRUE /\ moves' = moves + 1 /\ moves < MaxMoves
        /\ UNCHANGED <<life, options, poll, cycle, endpoint>>
    BY DEF ForceRefresh, Moves
  <1>2. TypeOK'
    <2>1. TRUE \in BOOLEAN
      OBVIOUS
    <2>2. moves' \in 0..MaxMoves
      BY <1>1, PollCycleConstants DEF IInv, TypeOK
    <2> QED
      BY <1>1, <2>1, <2>2 DEF IInv, TypeOK, cycle, endpoint
  <1>3. OwnCards' /\ Told' /\ OnlyForced'
    BY <1>1 DEF IInv, OwnCards, Told, Listed, OnlyForced, cycle, endpoint
  <1> QED
    BY <1>2, <1>3 DEF IInv

LEMMA OptionsChangeInv ==
  ASSUME IInv, OptionsChange
  PROVE  IInv'
  <1>1. /\ moves' = moves + 1 /\ moves < MaxMoves
        /\ UNCHANGED <<life, force, poll, cycle, endpoint>>
        /\ \/ options' = [options EXCEPT !.paused = ~options.paused]
           \/ options' = [options EXCEPT !.outage = ~options.outage]
    BY DEF OptionsChange, Moves
  <1>2. TypeOK'
    <2>1. options' \in [paused : BOOLEAN, outage : BOOLEAN]
      <3>1. (~options.paused) \in BOOLEAN /\ (~options.outage) \in BOOLEAN
        OBVIOUS
      <3>2. options \in [paused : BOOLEAN, outage : BOOLEAN]
        BY DEF IInv, TypeOK
      <3> QED
        BY <1>1, <3>1, <3>2
    <2>2. moves' \in 0..MaxMoves
      BY <1>1, PollCycleConstants DEF IInv, TypeOK
    <2> QED
      BY <1>1, <2>1, <2>2 DEF IInv, TypeOK, cycle, endpoint
  <1>3. OwnCards' /\ Told' /\ OnlyForced'
    BY <1>1 DEF IInv, OwnCards, Told, Listed, OnlyForced, cycle, endpoint
  <1> QED
    BY <1>2, <1>3 DEF IInv

LEMMA ConfirmFixInv ==
  ASSUME IInv, ConfirmFix
  PROVE  IInv'
  <1>1. /\ moves' = moves + 1 /\ moves < MaxMoves
        /\ card' = card \ {"auth_failed"} /\ leftover' = leftover \ {"auth_failed"}
        /\ UNCHANGED <<life, options, force, poll, data, up, stopped, failures, health,
                       raised, endpoint>>
    BY DEF ConfirmFix, Moves
  <1>2. TypeOK'
    <2>1. moves' \in 0..MaxMoves
      BY <1>1, PollCycleConstants DEF IInv, TypeOK
    <2>2. card' \subseteq Repairs /\ leftover' \subseteq card'
      BY <1>1 DEF IInv, TypeOK
    <2> QED
      BY <1>1, <2>1, <2>2 DEF IInv, TypeOK, endpoint
  <1>3. OwnCards'
    BY <1>1 DEF IInv, OwnCards
  <1>4. Told' /\ OnlyForced'
    BY <1>1 DEF IInv, Told, Listed, OnlyForced, endpoint
  <1> QED
    BY <1>2, <1>3, <1>4 DEF IInv

LEMMA UnloadBeginsInv ==
  ASSUME IInv, UnloadBegins
  PROVE  IInv'
  <1>1. /\ life' = "unloading" /\ raised' = {} /\ card' = {} /\ leftover' = {}
        /\ moves' \in {moves, moves + 1} /\ (moves' = moves + 1 => moves < MaxMoves \/ moves' = moves)
        /\ UNCHANGED <<options, force, poll, data, up, stopped, failures, health, endpoint>>
    BY DEF UnloadBegins, Moves
  <1>2. TypeOK'
    <2>1. moves' \in 0..MaxMoves
      BY <1>1, PollCycleConstants DEF IInv, TypeOK
    <2> QED
      BY <1>1, <2>1 DEF IInv, TypeOK, endpoint
  <1>3. OwnCards'
    BY <1>1 DEF OwnCards
  <1>4. Told' /\ OnlyForced'
    BY <1>1 DEF IInv, Told, Listed, OnlyForced, endpoint
  <1> QED
    BY <1>2, <1>3, <1>4 DEF IInv

LEMMA UnloadEndsInv ==
  ASSUME IInv, UnloadEnds
  PROVE  IInv'
  <1>1. /\ life' = "unloaded" /\ poll' = NoPoll
        /\ UNCHANGED <<options, force, cycle, endpoint, moves>>
    BY DEF UnloadEnds
  <1>2. TypeOK'
    BY <1>1, NoPollTyped DEF IInv, TypeOK, cycle, endpoint
  <1>3. OwnCards' /\ Told' /\ OnlyForced'
    BY <1>1, NoPollTyped DEF OwnCards, Told, OnlyForced
  <1> QED
    BY <1>2, <1>3 DEF IInv

\* A new coordinator has nothing to show and nothing to tell, whatever cards it
\* finds: they are left over.
LEMMA FreshInv ==
  ASSUME IInv, Fresh, moves' \in 0..MaxMoves, card' \subseteq Repairs, leftover' = card'
  PROVE  IInv'
  <1>1. TRUE \in BOOLEAN /\ FALSE \in BOOLEAN /\ options \in [paused : BOOLEAN, outage : BOOLEAN]
    BY DEF IInv, TypeOK
  <1>2. options' \in [paused : BOOLEAN, outage : BOOLEAN]
    BY <1>1 DEF Fresh
  <1>3. PollTyped' /\ poll'.at = "idle"
    BY NoPollTyped DEF Fresh, PollTyped
  <1>4. EndpointTyped'
    <2>1. 0 \in 0..Limit + 1
      BY PollCycleConstants
    <2>2. strikes' = [e \in Endpoints |-> 0] /\ asked' = FALSE
      BY DEF Fresh
    <2> QED
      BY <1>1, <2>1, <2>2 DEF EndpointTyped
  <1>5. health' \in [problem : BOOLEAN, degraded : SUBSET Endpoints]
    BY <1>1 DEF Fresh, Healthy
  <1>6. CycleTyped' /\ RestTyped' /\ RepairTyped'
    <2>1. 0 \in 0..UnreachableLimit /\ 0 \in 0..MaxMoves
      BY PollCycleConstants
    <2>2. CycleTyped'
      BY <1>1, <1>5, <2>1 DEF Fresh, CycleTyped
    <2>3. RestTyped'
      BY <1>1, <1>2, <2>1 DEF Fresh, IInv, TypeOK, RestTyped
    <2>4. RepairTyped'
      BY DEF Fresh, RepairTyped
    <2> QED
      BY <2>2, <2>3, <2>4
  <1>7. TypeOK'
    BY <1>3, <1>4, <1>6 DEF TypeOK, PollTyped, EndpointTyped, RepairTyped, CycleTyped, RestTyped
  <1>8. OwnCards'
    BY PollCycleConstants DEF Fresh, OwnCards
  <1>9. Listed'
    <2>1. \A e \in Range(Optional) : strikes'[e] = 0
      BY DEF Fresh, Endpoints
    <2> QED
      BY <2>1, PollCycleConstants DEF Listed
  <1>10. Told' /\ OnlyForced'
    BY <1>3, <1>9 DEF Fresh, Told, OnlyForced
  <1> QED
    BY <1>7, <1>8, <1>10 DEF IInv

LEMMA SetUpInv ==
  ASSUME IInv, SetUp
  PROVE  IInv'
  <1>1. Fresh /\ leftover' = card' /\ card' \subseteq Repairs /\ moves' \in 0..MaxMoves
    BY DEF SetUp, IInv, TypeOK
  <1> QED
    BY <1>1, FreshInv

LEMMA CrashInv ==
  ASSUME IInv, Crash
  PROVE  IInv'
  <1>1. Fresh /\ leftover' = card' /\ card' \subseteq Repairs
    BY DEF Crash, IInv, TypeOK
  <1>2. moves' \in 0..MaxMoves
    BY PollCycleConstants DEF Crash, Moves, IInv, TypeOK
  <1> QED
    BY <1>1, <1>2, FreshInv

LEMMA InitInv ==
  ASSUME Init
  PROVE  IInv
  <1>1. TRUE \in BOOLEAN /\ FALSE \in BOOLEAN
    OBVIOUS
  <1>2. options \in [paused : BOOLEAN, outage : BOOLEAN]
    BY <1>1 DEF Init
  <1>3. PollTyped /\ poll.at = "idle"
    BY NoPollTyped DEF Init, PollTyped
  <1>4. EndpointTyped
    <2>1. 0 \in 0..Limit + 1
      BY PollCycleConstants
    <2>2. strikes = [e \in Endpoints |-> 0] /\ asked = FALSE
      BY DEF Init
    <2> QED
      BY <1>1, <2>1, <2>2 DEF EndpointTyped
  <1>5. health \in [problem : BOOLEAN, degraded : SUBSET Endpoints]
    BY <1>1 DEF Init, Healthy
  <1>6. CycleTyped /\ RestTyped /\ RepairTyped
    <2>1. 0 \in 0..UnreachableLimit /\ 0 \in 0..MaxMoves
      BY PollCycleConstants
    <2>2. CycleTyped
      BY <1>1, <1>5, <2>1 DEF Init, CycleTyped
    <2>3. RestTyped
      BY <1>1, <1>2, <2>1 DEF Init, RestTyped
    <2>4. RepairTyped
      BY DEF Init, RepairTyped
    <2> QED
      BY <2>2, <2>3, <2>4
  <1>7. TypeOK
    BY <1>3, <1>4, <1>6, TypeParts
  <1>8. OwnCards
    BY PollCycleConstants DEF Init, OwnCards
  <1>9. Listed
    <2>1. \A e \in Range(Optional) : strikes[e] = 0
      BY DEF Init, Endpoints
    <2> QED
      BY <2>1, PollCycleConstants DEF Listed
  <1>10. Told /\ OnlyForced
    BY <1>3, <1>9 DEF Init, Told, OnlyForced
  <1> QED
    BY <1>7, <1>8, <1>10 DEF IInv

LEMMA StutterInv ==
  ASSUME IInv, UNCHANGED vars
  PROVE  IInv'
  <1>1. TypeOK'
    BY DEF IInv, TypeOK, vars, cycle, endpoint
  <1>2. OwnCards' /\ Told' /\ OnlyForced'
    BY DEF IInv, OwnCards, Told, Listed, OnlyForced, vars, cycle, endpoint
  <1> QED
    BY <1>1, <1>2 DEF IInv

LEMMA StepInv ==
  ASSUME IInv, [Next]_vars
  PROVE  IInv'
  <1>1. CASE Begins
    BY <1>1, PollBeginsInv DEF Begins
  <1>2. CASE CoreReads \/ LogsIn \/ EndpointReads \/ EndpointFails
    BY <1>2, CoreReadsInv, LogsInInv, EndpointReadsInv, EndpointFailsInv
  <1>3. CASE \E err \in {"auth", "credentials"} : SessionRejected(err)
    BY <1>3, SessionRejectedInv
  <1>4. CASE \/ CoreFails \/ ObserveFails \/ TimesOut
             \/ \E err \in {"auth", "credentials", "other"} : LoginFails(err)
    BY <1>4, EndsInv
  <1>5. CASE Answered \/ Observed
    BY <1>5, AnsweredInv, ObservedInv
  <1>6. CASE ForceRefresh \/ OptionsChange \/ ConfirmFix
    BY <1>6, ForceRefreshInv, OptionsChangeInv, ConfirmFixInv
  <1>7. CASE UnloadBegins \/ UnloadEnds \/ SetUp \/ Crash
    BY <1>7, UnloadBeginsInv, UnloadEndsInv, SetUpInv, CrashInv
  <1>8. CASE UNCHANGED vars
    BY <1>8, StutterInv
  <1> QED
    BY <1>1, <1>2, <1>3, <1>4, <1>5, <1>6, <1>7, <1>8 DEF Next

-----------------------------------------------------------------------------
(* The theorems. *)

\* IInv is an invariant of every behaviour, whatever requests fail and whatever users,
\* Home Assistant and crashes do between them.
THEOREM Inductive == Spec => []IInv
  <1>1. Init => IInv
    BY InitInv
  <1>2. IInv /\ [Next]_vars => IInv'
    BY StepInv
  <1> QED
    BY <1>1, <1>2, PTL DEF Spec

\* Between two steps the repairs shown are the coordinator's own and no loss of
\* values is silent, whatever failed after whatever.
THEOREM LossIsTold == Spec => []LossIsShown
  <1>1. IInv => LossIsShown
    <2> SUFFICES ASSUME IInv PROVE LossIsShown
      OBVIOUS
    <2>1. \A e \in Range(Optional) : ~(strikes[e] <= Limit) => strikes[e] > Limit
      <3>1. strikes \in [Endpoints -> 0..Limit + 1]
        BY DEF IInv, TypeOK
      <3> QED
        BY <3>1, PollCycleConstants DEF Endpoints
    <2>2. NoSilentLoss
      BY <2>1 DEF IInv, Told, Listed, NoSilentLoss, Available
    <2> QED
      BY <2>2 DEF IInv, LossIsShown
  <1> QED
    BY <1>1, Inductive, PTL

\* A failure that leaves nothing of what was held.
LEMMA FailsKeeps ==
  ASSUME IInv, poll.at # "idle", NEW err, Fails(err), data = "values", data' = "empty"
  PROVE  poll.paused /\ poll.forced /\ failures' > Limit
  <1> DEFINE count == IF Counted THEN Tally ELSE failures
  <1>1. failures' = count /\ data' = (IF ~Holds(count) /\ Bypass(err) THEN "empty" ELSE data)
    BY DEF Fails
  <1>2. ~Holds(count) /\ Bypass(err)
    BY <1>1
  <1>3. Counted /\ ~(count <= Limit)
    BY <1>2 DEF Holds
  <1>4. count \in 0..UnreachableLimit
    BY TallyTyped DEF IInv, TypeOK
  <1>5. failures' > Limit
    <2> HIDE DEF count
    <2> QED
      BY <1>1, <1>3, <1>4, PollCycleConstants
  <1>6. poll.paused /\ ~poll.closing
    BY <1>2, <1>3 DEF Bypass, Counted
  <1>7. poll.forced
    BY <1>6 DEF IInv, OnlyForced
  <1> QED
    BY <1>5, <1>6, <1>7

\* _async_update_data: values are replaced by nothing only where a forced poll
\* failed under paused polling, its strikes spent.
THEOREM ValuesAreKept == Spec => ValuesKept
  <1> DEFINE Emptied == data = "values" /\ data' = "empty"
             Excused == poll.paused /\ poll.forced /\ failures' > Limit
  <1>1. IInv /\ [Next]_vars => [Emptied => Excused]_vars
    <2> SUFFICES ASSUME IInv, [Next]_vars, Emptied PROVE Excused
      OBVIOUS
    <2>1. data' # data
      OBVIOUS
    <2>2. ASSUME NEW err, poll.at # "idle", Fails(err)
          PROVE  Excused
      BY <2>2, FailsKeeps
    <2>3. CASE Begins
      BY <2>1, <2>3 DEF Begins, PollBegins, Shown, cycle
    <2>4. CASE CoreReads \/ LogsIn \/ EndpointReads \/ EndpointFails \/ Answered
      BY <2>1, <2>4 DEF CoreReads, LogsIn, EndpointReads, EndpointFails, Answered, cycle
    <2>5. CASE \E err \in {"auth", "credentials"} : SessionRejected(err)
      <3>1. PICK err : SessionRejected(err)
        BY <2>5
      <3>2. Fails(err) /\ poll.at # "idle"
        BY <2>1, <3>1 DEF SessionRejected, Rejected, cycle
      <3> QED
        BY <2>2, <3>2
    <2>6. CASE \/ CoreFails \/ ObserveFails \/ TimesOut
               \/ \E err \in {"auth", "credentials", "other"} : LoginFails(err)
      <3>1. \E err : Fails(err) /\ poll.at # "idle"
        BY <2>6 DEF CoreFails, ObserveFails, TimesOut, LoginFails, Running
      <3> QED
        BY <2>2, <3>1
    <2>7. CASE Observed
      BY <2>7 DEF Observed
    <2>8. CASE ForceRefresh \/ OptionsChange \/ ConfirmFix
      BY <2>1, <2>8 DEF ForceRefresh, OptionsChange, ConfirmFix, cycle
    <2>9. CASE UnloadBegins \/ UnloadEnds
      BY <2>1, <2>9 DEF UnloadBegins, UnloadEnds, cycle
    <2>10. CASE SetUp \/ Crash
      BY <2>10 DEF SetUp, Crash, Fresh
    <2>11. CASE UNCHANGED vars
      BY <2>1, <2>11 DEF vars, cycle
    <2> QED
      BY <2>3, <2>4, <2>5, <2>6, <2>7, <2>8, <2>9, <2>10, <2>11 DEF Next
  <1> QED
    BY <1>1, Inductive, PTL DEF Spec, ValuesKept

-----------------------------------------------------------------------------
(* The cycle implements Reachability: a poll that fails is a Miss, or leaves    *)
(* nothing while paused, or, if it is a closing poll, only shows what is held;    *)
(* the success path is the Answer, its publication the Show.                     *)

known == data # "none"
shownCard == "conn_error" \in raised

\* What Reachability does not see.
Unseen == UNCHANGED <<failures, known, up, shownCard>>

LEMMA CycleUnseen ==
  ASSUME UNCHANGED cycle
  PROVE  Unseen
  BY DEF cycle, Unseen, known, shownCard

LEMMA FailsReach ==
  ASSUME IInv, NEW err, Fails(err)
  PROVE  Reach!Next
  <1> DEFINE count == IF Counted THEN Tally ELSE failures
             rejected == err = "credentials" /\ ~Holds(count)
             auth == IF rejected THEN {"auth_failed"} ELSE {}
             conn == IF count >= UnreachableLimit THEN {"conn_error"} ELSE {}
             now == IF Counted THEN (raised \ {"conn_error"}) \cup conn \cup auth
                    ELSE raised \cup auth
  <1>1. SetRepairs(now)
    BY DEF Fails
  <1>2. /\ failures' = count
        /\ up' = (Holds(count) \/ Bypass(err))
        /\ data' = (IF ~Holds(count) /\ Bypass(err) THEN "empty" ELSE data)
    BY DEF Fails
  <1>3. raised' = now
    BY <1>1 DEF SetRepairs
  <1>4. CASE Counted /\ ~Holds(count) /\ Bypass(err)
    <2>1. data' = "empty" /\ up' = TRUE
      BY <1>2, <1>4
    <2>2. failures' = Reach!Counted(failures)
      BY <1>2, <1>4 DEF Tally, Reach!Counted
    <2>3. ("conn_error" \in raised') = (failures' >= UnreachableLimit)
      BY <1>2, <1>3, <1>4
    <2>4. Reach!EmptyWhilePaused
      BY <2>1, <2>2, <2>3 DEF Reach!EmptyWhilePaused
    <2> QED
      BY <2>4 DEF Reach!Next
  <1>5. CASE Counted /\ ~(~Holds(count) /\ Bypass(err))
    <2>1. data' = data /\ up' = Holds(count)
      <3>1. (Holds(count) \/ Bypass(err)) = Holds(count)
        BY <1>5 DEF Holds, Bypass
      <3>2. data' = data
        BY <1>2, <1>5
      <3>3. up' = Holds(count)
        BY <1>2, <3>1
      <3> QED
        BY <3>2, <3>3
    <2>2. failures' = Reach!Counted(failures)
      BY <1>2, <1>5 DEF Tally, Reach!Counted
    <2>3. ("conn_error" \in raised') = (failures' >= UnreachableLimit)
      BY <1>2, <1>3, <1>5
    <2>4. up' = (data # "none" /\ failures' <= Limit)
      BY <1>2, <1>5, <2>1 DEF Holds
    <2>5. Reach!Miss
      BY <2>1, <2>2, <2>3, <2>4 DEF Reach!Miss
    <2> QED
      BY <2>5 DEF Reach!Next
  <1>6. CASE ~Counted /\ ~Holds(count) /\ Bypass(err)
    <2>1. data = "none" /\ data' = "empty" /\ up' = TRUE /\ failures' = failures
      BY <1>2, <1>6 DEF Holds
    <2>2. ("conn_error" \in raised') = ("conn_error" \in raised)
      BY <1>3, <1>6
    <2>3. Reach!EmptyWhilePaused
      BY <2>1, <2>2 DEF Reach!EmptyWhilePaused
    <2> QED
      BY <2>3 DEF Reach!Next
  <1>7. CASE ~Counted /\ ~(~Holds(count) /\ Bypass(err))
    <2>1. data' = data /\ failures' = failures /\ up' = Holds(count)
      <3>1. (Holds(count) \/ Bypass(err)) = Holds(count)
        BY <1>7 DEF Holds, Bypass
      <3>2. data' = data /\ failures' = failures
        BY <1>2, <1>7
      <3>3. up' = Holds(count)
        BY <1>2, <3>1
      <3> QED
        BY <3>2, <3>3
    <2>2. up' = (data # "none")
      BY <1>7, <2>1 DEF Holds
    <2>3. ("conn_error" \in raised') = ("conn_error" \in raised)
      BY <1>3, <1>7
    <2>4. Reach!Skip
      BY <2>1, <2>2, <2>3 DEF Reach!Skip
    <2> QED
      BY <2>4 DEF Reach!Next
  <1> QED
    BY <1>4, <1>5, <1>6, <1>7

\* Every step is one that Reachability allows, or one it does not see.
LEMMA StepReach ==
  ASSUME IInv, [Next]_vars
  PROVE  Reach!Next \/ Unseen
  <1>1. ASSUME NEW closing, PollBegins(closing)
        PROVE  Reach!Next \/ Unseen
    <2>1. CASE Skipped(closing)
      <3>1. up' = TRUE /\ UNCHANGED <<data, failures, raised>> /\ data # "none"
        BY <1>1, <2>1 DEF PollBegins, Shown, Skipped
      <3>2. Reach!Skip
        BY <3>1 DEF Reach!Skip
      <3> QED
        BY <3>2 DEF Reach!Next
    <2>2. CASE ~Skipped(closing)
      BY <1>1, <2>2, CycleUnseen DEF PollBegins
    <2> QED
      BY <2>1, <2>2
  <1>2. ASSUME NEW err, SessionRejected(err)
        PROVE  Reach!Next \/ Unseen
    <2>1. Fails(err) \/ UNCHANGED cycle
      BY <1>2 DEF SessionRejected, Rejected
    <2> QED
      BY <2>1, FailsReach, CycleUnseen
  <1>3. CASE Begins
    BY <1>1, <1>3 DEF Begins
  <1>4. CASE CoreReads \/ LogsIn \/ EndpointReads \/ EndpointFails
             \/ ForceRefresh \/ OptionsChange \/ UnloadEnds
    BY <1>4, CycleUnseen
       DEF CoreReads, LogsIn, EndpointReads, EndpointFails, ForceRefresh, OptionsChange,
           UnloadEnds
  <1>5. CASE \E err \in {"auth", "credentials"} : SessionRejected(err)
    BY <1>2, <1>5
  <1>6. CASE \/ CoreFails \/ ObserveFails \/ TimesOut
             \/ \E err \in {"auth", "credentials", "other"} : LoginFails(err)
    <2>1. \E err : Fails(err)
      BY <1>6 DEF CoreFails, ObserveFails, TimesOut, LoginFails
    <2> QED
      BY <2>1, FailsReach
  <1>7. CASE Answered
    <2>1. failures' = 0 /\ SetRepairs({}) /\ UNCHANGED <<data, up>>
      BY <1>7 DEF Answered, Resets, HealthSuccess
    <2>2. Reach!Answer
      BY <2>1 DEF SetRepairs, Reach!Answer
    <2> QED
      BY <2>2 DEF Reach!Next
  <1>8. CASE Observed
    <2>1. failures = 0 /\ data' = "values" /\ up' = TRUE /\ UNCHANGED <<failures, raised>>
      BY <1>8 DEF Observed, Shown, IInv, Told
    <2>2. Reach!Show
      BY <2>1 DEF Reach!Show
    <2> QED
      BY <2>2 DEF Reach!Next
  <1>9. CASE ConfirmFix
    BY <1>9 DEF ConfirmFix, Unseen, known, shownCard
  <1>10. CASE UnloadBegins
    <2>1. raised' = {} /\ UNCHANGED <<data, up, failures>>
      BY <1>10 DEF UnloadBegins
    <2>2. Reach!Withdraw
      BY <2>1 DEF Reach!Withdraw
    <2> QED
      BY <2>2 DEF Reach!Next
  <1>11. CASE SetUp \/ Crash
    <2>1. failures' = 0 /\ data' = "none" /\ up' = FALSE /\ raised' = {}
      BY <1>11 DEF SetUp, Crash, Fresh
    <2>2. Reach!Start
      BY <2>1 DEF Reach!Start
    <2> QED
      BY <2>2 DEF Reach!Next
  <1>12. CASE UNCHANGED vars
    BY <1>12, CycleUnseen DEF vars
  <1> QED
    BY <1>3, <1>4, <1>5, <1>6, <1>7, <1>8, <1>9, <1>10, <1>11, <1>12 DEF Next

\* Whatever requests fail in whatever order, users see of a router that does not
\* answer what Reachability promises.
THEOREM Implements == Spec => KeepsPromise
  <1>1. Init => Reach!Init
    BY DEF Init, Reach!Init
  <1>2. IInv /\ [Next]_vars => [Reach!Next]_(Reach!vars)
    BY StepReach DEF Unseen, known, shownCard, Reach!vars
  <1> QED
    BY <1>1, <1>2, Inductive, PTL DEF Spec, KeepsPromise, Reach!Spec
=============================================================================
