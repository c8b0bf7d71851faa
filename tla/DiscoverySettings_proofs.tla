---------------------- MODULE DiscoverySettings_proofs ----------------------
(***************************************************************************)
(* Proofs about what is learned of a router's keys and about what is written  *)
(* to it: of Discovery, for any routers, keys and names, chunks, canaries and   *)
(* budgets of any size, and any number of sessions taken, VerdictsAreTrue and   *)
(* DeadIsCaught; of Settings, for any profiles, APNs and intervals, and any     *)
(* number of moves, RefusalsStand and FieldsKept.  The two specifications share *)
(* no variable: each theorem is about one of them.                            *)
(*                                                                         *)
(* A name is published as silent for what became of one request among many; the *)
(* strengthening follows it there.  FreeKnown says that what a pass measured is  *)
(* all that is served to anyone, and CanariesTell that its canaries are          *)
(* therefore blank without a session; NamesKnown that a name neither answered    *)
(* for, given up, nor still to come is silent.                               *)
(*                                                                         *)
(* A command carries what a poll had read when its action began, so the          *)
(* strengthening follows it from there: what was read is what the router has or  *)
(* the router was changed since (ReadsCurrent), and so is what the command under *)
(* way keeps (FormHeld, ApnHeld).                                            *)
(***************************************************************************)
EXTENDS Discovery, Settings, FiniteSetTheorems, TLAPS


Before == {"idle", "logout", "measure", "measuring", "login", "canaries", "aborted"}

SessionTyped ==
    /\ device \in Devices /\ cookie \in {"none", "good", "dead"}
    /\ cookie = "good" => live
    /\ measured \subseteq Keys /\ ~(Sentinels \subseteq measured)
    /\ stage \in Before \cup {"chunks", "again", "over"}
    /\ canaries \subseteq Keys /\ Cardinality(canaries) <= CanaryCount

\* Only an acknowledged logout has ended the session, and only such a one is
\* followed by a measurement; what is measured is all that is served to anyone, and
\* no more, unless a session was made meanwhile.
FreeKnown ==
    /\ stage \in {"idle", "logout"} => ~acked /\ cookie # "none"
    /\ stage = "measure" /\ cookie = "none" /\ acked => ~live
    /\ stage = "measuring" =>
           /\ sample \subseteq Core /\ device.free \cap Core \subseteq sample
           /\ ~crossed => ~live /\ sample \subseteq device.free
    /\ fresh => measured # {} /\ device.free \cap Keys \subseteq measured

\* A canary shows a value with a session, and, after a measurement, none without.
CanariesTell ==
    /\ stage \in Before => canaries = {}
    /\ canaries \subseteq device.held
    /\ fresh => canaries \cap device.free = {}

SessionInv == SessionTyped /\ FreeKnown /\ MeasuredIsFree /\ CanariesTell

ProbeTyped ==
    /\ todo \subseteq Names /\ queue \subseteq Names /\ retry \subseteq Names
    /\ relogins \in 0..ReloginLimit /\ rounds \in 0..MaxRounds
    /\ phase \in {"chunks", "singles"}
    /\ stage = "chunks" => queue = {}
    /\ stage = "again" => todo = {} /\ early = {}

\* The names still to be asked.
ToCome == todo \cup queue \cup retry \cup (IF phase = "chunks" THEN Declining ELSE {})

NamesKnown ==
    canaries # {} /\ fresh =>
        /\ stage \in {"chunks", "again"} =>
             \A n \in Names \ (found \cup refused \cup early \cup unasked \cup dropped
                                 \cup ToCome) : device.names[n] = "silent"
        /\ stage = "over" =>
             \A n \in Names \ (found \cup refused \cup unasked \cup dropped) :
                 device.names[n] = "silent"

NamesInv == ProbeTyped /\ RefusedIsOwn /\ NamesKnown

DiscoveryIInv == SessionInv /\ NamesInv /\ DeadIsCaught

-----------------------------------------------------------------------------
(* Devices and keys.                                                         *)

LEMMA DeviceFacts ==
  ASSUME SessionTyped
  PROVE  /\ device.held \subseteq Keys /\ device.free \subseteq device.held
         /\ device.omits \cap device.held = {}
         /\ \A n \in Names : device.names[n] \in {"held", "free", "silent", "refused", "slow"}
  <1>1. device \in Device /\ device.free \subseteq device.held
        /\ device.omits \cap device.held = {}
    BY DiscoveryConstants DEF SessionTyped
  <1> QED
    BY <1>1 DEF Device

LEMMA KeysFinite ==
  /\ IsFiniteSet(Keys) /\ IsFiniteSet(Core)
  /\ CanaryCount \in Nat /\ Cardinality({}) <= CanaryCount
  <1>1. IsFiniteSet(Core) /\ IsFiniteSet(Extended) /\ CanaryCount \in Nat
    BY DiscoveryConstants
  <1>2. IsFiniteSet(Keys)
    BY <1>1, FS_Union DEF Keys
  <1> QED
    BY <1>1, <1>2, FS_EmptySet

LEMMA InForceFacts ==
  ASSUME SessionTyped
  PROVE  InForce \subseteq Keys /\ ~(Sentinels \subseteq InForce)
  <1>1. ConstantFree \subseteq Keys /\ Sentinels # {} /\ Sentinels \cap ConstantFree = {}
    BY DiscoveryConstants
  <1> QED
    BY <1>1 DEF InForce, SessionTyped

-----------------------------------------------------------------------------
(* A poll.                                                                   *)

\* What a blind read shows belongs to the keys in force: it is judged good only
\* where most of the others were left out.
LEMMA BlindPoll ==
  ASSUME SessionTyped, device.free \cap Core \subseteq InForce,
         Judge(Core, Valued(Core, FALSE)) = "good"
  PROVE  2 * Cardinality(device.omits \cap (Core \ InForce)) > Cardinality(Core \ InForce)
  <1> DEFINE valued == Valued(Core, FALSE)
             present == Core \ device.omits
             wanted == Core \ InForce
  <1>1. valued = Core \cap device.free /\ valued \subseteq InForce
        /\ valued \subseteq present
    BY DeviceFacts DEF Valued
  <1>2. wanted # {} /\ Core \cap Sentinels # {}
    <2>1. Sentinels \subseteq Core /\ Sentinels # {}
      BY DiscoveryConstants
    <2> QED
      BY <2>1, InForceFacts
  <1>3. Classifiable(Core)
    BY <1>2 DEF Classifiable
  <1>4. Verdict(Core, valued) = "undecidable" /\ valued # {}
    <2>1. Verdict(Core, valued) # "live"
      BY <1>1 DEF Verdict
    <2>2. Verdict(Core, valued) \in {"undecidable", "live", "not_ready", "expired"}
      BY DEF Verdict
    <2> HIDE DEF valued
    <2> QED
      BY <1>3, <2>1, <2>2 DEF Judge, valued
  <1>5. device.omits \cap wanted = wanted \ present
    OBVIOUS
  <1>6. IsFiniteSet(wanted) /\ Cardinality(wanted) \in Nat /\ Cardinality(wanted) # 0
    BY <1>2, KeysFinite, FS_Subset, FS_CardinalityType, FS_EmptySet
  <1>7. CASE present \ InForce = {}
    <2>1. wanted \ present = wanted
      BY <1>7
    <2> QED
      BY <1>5, <1>6, <2>1
  <1>8. CASE present \ InForce # {}
    <2>1. ~(present \subseteq wanted)
      BY <1>1, <1>4
    <2>2. 2 * Cardinality(wanted \ present) > Cardinality(wanted)
      <3> HIDE DEF valued
      <3> QED
        BY <1>1, <1>4, <1>8, <2>1 DEF Verdict
    <2> QED
      BY <1>5, <2>2
  <1> QED
    BY <1>7, <1>8

LEMMA PollCaught ==
  ASSUME SessionTyped, Poll
  PROVE  DeadIsCaught'
  <1> DEFINE verdict == Judge(Core, Valued(Core, cookie = "good"))
  <1>1. judged' = [verdict |-> verdict, blind |-> cookie # "good",
                   known |-> device.free \cap Core \subseteq InForce,
                   wanted |-> Core \ InForce]
        /\ device' = device
    BY DEF Poll
  <1> HIDE DEF verdict
  <1>2. ASSUME verdict = "good", cookie # "good",
               device.free \cap Core \subseteq InForce
        PROVE  2 * Cardinality(device.omits \cap (Core \ InForce))
                 > Cardinality(Core \ InForce)
    <2>1. (cookie = "good") = FALSE
      BY <1>2
    <2> QED
      BY <1>2, <2>1, BlindPoll DEF verdict
  <1> QED
    BY <1>1, <1>2 DEF DeadIsCaught

-----------------------------------------------------------------------------
(* The session, what is measured and the canaries.                           *)

\* A step of the probing, or one between passes, whatever it does to the session.
LEMMA SessionMoves ==
  ASSUME SessionInv, stage \in {"canaries", "chunks", "again", "over"},
         stage' \in {"chunks", "again", "over"},
         UNCHANGED <<device, measured, fresh, crossed, canaries>>,
         cookie' \in {"none", "good", "dead"}, cookie' = "good" => live'
  PROVE  SessionInv'
  <1>1. SessionTyped'
    BY DEF SessionInv, SessionTyped, Keys
  <1>2. FreeKnown'
    BY DEF SessionInv, FreeKnown, Keys
  <1>3. MeasuredIsFree' /\ CanariesTell'
    BY DEF SessionInv, MeasuredIsFree, CanariesTell, Before
  <1> QED
    BY <1>1, <1>2, <1>3 DEF SessionInv

LEMMA PollKeepsSession ==
  ASSUME SessionInv, Poll
  PROVE  SessionInv'
  <1>1. stage \in {"idle", "over"} /\ cookie # "none"
        /\ UNCHANGED <<device, acked, measured, stage, sample, fresh, crossed, canaries>>
        /\ \/ live' = TRUE /\ cookie' = "good"
           \/ live' = live /\ cookie' = cookie
    <2> DEFINE verdict == Judge(Core, Valued(Core, cookie = "good"))
    <2>1. IF verdict = "renew" THEN LogsIn ELSE UNCHANGED session
      BY DEF Poll
    <2> HIDE DEF verdict
    <2> QED
      BY <2>1 DEF Poll, LogsIn, session, pass
  <1>2. SessionTyped'
    BY <1>1 DEF SessionInv, SessionTyped, Keys
  <1>3. FreeKnown'
    BY <1>1 DEF SessionInv, FreeKnown, Keys
  <1>4. MeasuredIsFree' /\ CanariesTell'
    BY <1>1 DEF SessionInv, MeasuredIsFree, CanariesTell
  <1> QED
    BY <1>2, <1>3, <1>4 DEF SessionInv

\* A command that logs in while the pass measures is remembered as a crossing.
LEMMA CommandKeepsSession ==
  ASSUME SessionInv, CommandLogsIn
  PROVE  SessionInv'
  <1>1. live' = TRUE /\ cookie' = "good"
        /\ UNCHANGED <<device, acked, measured, stage, sample, fresh, canaries>>
        /\ (~crossed' => ~crossed /\ stage # "measuring")
    BY DEF CommandLogsIn, LogsIn
  <1>2. SessionTyped'
    BY <1>1 DEF SessionInv, SessionTyped, Keys
  <1>3. FreeKnown'
    BY <1>1 DEF SessionInv, FreeKnown, Keys
  <1>4. MeasuredIsFree' /\ CanariesTell'
    BY <1>1 DEF SessionInv, MeasuredIsFree, CanariesTell
  <1> QED
    BY <1>2, <1>3, <1>4 DEF SessionInv

LEMMA EvictionKeepsSession ==
  ASSUME SessionInv, Evicted
  PROVE  SessionInv'
  <1>1. live' = FALSE /\ cookie' = (IF cookie = "none" THEN "none" ELSE "dead")
        /\ UNCHANGED <<device, acked, measured, stage, sample, fresh, crossed, canaries>>
    BY DEF Evicted, pass
  <1>2. SessionTyped'
    BY <1>1 DEF SessionInv, SessionTyped, Keys
  <1>3. FreeKnown'
    BY <1>1 DEF SessionInv, FreeKnown, Keys
  <1>4. MeasuredIsFree' /\ CanariesTell'
    BY <1>1 DEF SessionInv, MeasuredIsFree, CanariesTell
  <1> QED
    BY <1>2, <1>3, <1>4 DEF SessionInv

LEMMA BeginningKeepsSession ==
  ASSUME SessionInv, PassBegins
  PROVE  SessionInv'
  <1>1. stage = "idle" /\ stage' = "logout"
        /\ UNCHANGED <<device, live, cookie, acked, measured, sample, fresh, crossed, canaries>>
    BY DEF PassBegins, session
  <1>2. SessionTyped'
    BY <1>1 DEF SessionInv, SessionTyped, Keys, Before
  <1>3. FreeKnown'
    BY <1>1 DEF SessionInv, FreeKnown, Keys
  <1>4. MeasuredIsFree' /\ CanariesTell'
    BY <1>1 DEF SessionInv, MeasuredIsFree, CanariesTell, Before
  <1> QED
    BY <1>2, <1>3, <1>4 DEF SessionInv

\* Only a logout the router acknowledged lets the pass measure.
LEMMA LogoutKeepsSession ==
  ASSUME SessionInv, NEW answer \in {"success", "refused", "lost"}, LogsOut(answer)
  PROVE  SessionInv'
  <1>1. stage = "logout" /\ stage' = "measure" /\ cookie' = "none"
        /\ (acked' => ~live')
        /\ UNCHANGED <<device, measured, sample, fresh, crossed, canaries>>
    <2>1. stage = "logout" /\ ~acked /\ cookie # "none"
      BY DEF LogsOut, SessionInv, FreeKnown
    <2>2. acked' = (IF answer = "lost" THEN acked ELSE answer = "success")
          /\ live' \in (IF answer = "success" THEN {FALSE} ELSE {live, FALSE})
      BY <2>1 DEF LogsOut
    <2>3. acked' => ~live'
      <3>1. CASE answer = "success"
        BY <2>2, <3>1
      <3>2. CASE answer # "success"
        BY <2>1, <2>2, <3>2
      <3> QED
        BY <3>1, <3>2
    <2> QED
      BY <2>1, <2>3 DEF LogsOut
  <1>2. SessionTyped'
    BY <1>1 DEF SessionInv, SessionTyped, Keys, Before
  <1>3. FreeKnown'
    BY <1>1 DEF SessionInv, FreeKnown, Keys
  <1>4. MeasuredIsFree' /\ CanariesTell'
    BY <1>1 DEF SessionInv, MeasuredIsFree, CanariesTell, Before
  <1> QED
    BY <1>2, <1>3, <1>4 DEF SessionInv

LEMMA MeasuringKeepsSession ==
  ASSUME SessionInv, NEW answered \in BOOLEAN, Measures(answered)
  PROVE  SessionInv'
  <1>1. stage = "measure" /\ stage' \in {"measuring", "login"}
        /\ UNCHANGED <<device, live, cookie, measured, fresh, crossed, canaries>>
    BY DEF Measures, session
  <1>2. stage' = "measuring" =>
          ~live' /\ sample' \subseteq Core /\ device.free \cap Core \subseteq sample'
          /\ sample' \subseteq device.free
    <2>1. SUFFICES ASSUME stage' = "measuring"
                   PROVE  ~live' /\ sample' = Core \cap device.free
      BY <2>1
    <2>2. cookie = "none" /\ acked /\ sample' = Valued(Core, Sessionless)
      BY <2>1 DEF Measures, MayMeasure
    <2>3. ~live
      BY <1>1, <2>2 DEF SessionInv, FreeKnown
    <2> QED
      BY <1>1, <2>2, <2>3 DEF Valued, Sessionless
  <1>3. SessionTyped'
    BY <1>1 DEF SessionInv, SessionTyped, Keys, Before
  <1>4. FreeKnown'
    BY <1>1, <1>2 DEF SessionInv, FreeKnown, Keys
  <1>5. MeasuredIsFree' /\ CanariesTell'
    BY <1>1 DEF SessionInv, MeasuredIsFree, CanariesTell, Before
  <1> QED
    BY <1>3, <1>4, <1>5 DEF SessionInv

\* What both requests read, with a session or without, holds all that is served to
\* anyone; without one, nothing else.
LEMMA MeasuredKeepsSession ==
  ASSUME SessionInv, NEW answered \in BOOLEAN, Measured(answered)
  PROVE  SessionInv'
  <1> DEFINE keys == sample \cup Valued(Extended, Sessionless)
  <1>1. stage = "measuring" /\ stage' = "login"
        /\ UNCHANGED <<device, live, cookie, crossed, canaries>>
        /\ \/ fresh' = FALSE /\ measured' = measured
           \/ fresh' = TRUE /\ measured' = keys /\ Usable(keys)
    <2>1. CASE answered /\ Usable(keys)
      BY <2>1 DEF Measured, session
    <2>2. CASE ~(answered /\ Usable(keys))
      BY <2>2 DEF Measured, session
    <2> QED
      BY <2>1, <2>2
  <1>2. keys \subseteq Keys /\ device.free \cap Keys \subseteq keys
        /\ (~crossed => keys \subseteq device.free)
    <2>1. sample \subseteq Core /\ device.free \cap Core \subseteq sample
          /\ (~crossed => ~live /\ sample \subseteq device.free)
      BY <1>1 DEF SessionInv, FreeKnown
    <2>2. device.free \subseteq device.held
      BY DeviceFacts DEF SessionInv
    <2> QED
      BY <2>1, <2>2 DEF Keys, Valued, Sessionless
  <1>3. Usable(keys) => keys # {} /\ ~(Sentinels \subseteq keys)
    BY DEF Usable
  <1> HIDE DEF keys
  <1>4. SessionTyped'
    BY <1>1, <1>2, <1>3 DEF SessionInv, SessionTyped, Keys, Before
  <1>5. FreeKnown'
    BY <1>1, <1>2, <1>3 DEF SessionInv, FreeKnown, Keys
  <1>6. MeasuredIsFree' /\ CanariesTell'
    BY <1>1, <1>2 DEF SessionInv, MeasuredIsFree, CanariesTell, Before
  <1> QED
    BY <1>4, <1>5, <1>6 DEF SessionInv

LEMMA LoginKeepsSession ==
  ASSUME SessionInv, NEW granted \in BOOLEAN, PassLogsIn(granted)
  PROVE  SessionInv'
  <1>1. stage = "login" /\ stage' \in {"canaries", "aborted"}
        /\ UNCHANGED <<device, measured, fresh, crossed, canaries>>
        /\ \/ live' = TRUE /\ cookie' = "good"
           \/ live' = live /\ cookie' = cookie
    BY DEF PassLogsIn, LogsIn, session
  <1>2. SessionTyped'
    BY <1>1 DEF SessionInv, SessionTyped, Keys, Before
  <1>3. FreeKnown'
    BY <1>1 DEF SessionInv, FreeKnown, Keys
  <1>4. MeasuredIsFree' /\ CanariesTell'
    BY <1>1 DEF SessionInv, MeasuredIsFree, CanariesTell, Before
  <1> QED
    BY <1>2, <1>3, <1>4 DEF SessionInv

\* A canary is a key with a value that is not served to anyone, as far as known.
LEMMA CanariesKeepSession ==
  ASSUME SessionInv, NEW core \in BOOLEAN, NEW extended \in BOOLEAN,
         PicksCanaries(core, extended)
  PROVE  SessionInv'
  <1> DEFINE pool == UNION {Eligible(batch) : batch \in
                 {b \in {Core, Extended} : /\ (b = Core => core) /\ (b = Extended => extended)
                                           /\ Judge(b, Valued(b, TRUE)) = "good"}}
  <1>1. stage = "canaries" /\ stage' = "chunks" /\ live' = TRUE /\ cookie' = "good"
        /\ UNCHANGED <<device, measured, fresh, crossed>>
    BY DEF PicksCanaries, LogsIn
  <1>2. canaries' \subseteq pool
        /\ (Cardinality(canaries') = CanaryCount \/ Cardinality(canaries') < CanaryCount)
    <2>1. canaries' \in {c \in SUBSET pool :
               Cardinality(c) = CanaryCount \/ (Cardinality(c) < CanaryCount /\ c = pool)}
      BY Zenon DEF PicksCanaries
    <2> HIDE DEF pool
    <2> QED
      BY <2>1
  <1>3. pool \subseteq Keys /\ pool \subseteq device.held \ InForce
    <2>1. \A b \in {Core, Extended} : /\ Eligible(b) \subseteq Keys
                                      /\ Eligible(b) \subseteq device.held \ InForce
      BY DEF Eligible, Valued, Keys
    <2> SUFFICES ASSUME NEW k \in pool
                 PROVE  k \in Keys /\ k \in device.held \ InForce
      OBVIOUS
    <2>2. PICK b \in {Core, Extended} : k \in Eligible(b)
      OBVIOUS
    <2> QED
      BY <2>1, <2>2
  <1> HIDE DEF pool
  <1>4. Cardinality(canaries') <= CanaryCount
    <2>1. IsFiniteSet(canaries')
      BY <1>2, <1>3, KeysFinite, FS_Subset
    <2> QED
      BY <1>2, <2>1, KeysFinite, FS_CardinalityType
  <1>5. fresh => canaries' \cap device.free = {}
    <2>1. fresh => InForce = measured /\ device.free \cap Keys \subseteq measured
      BY DEF SessionInv, FreeKnown, InForce
    <2> QED
      BY <1>2, <1>3, <2>1
  <1>6. SessionTyped'
    BY <1>1, <1>2, <1>3, <1>4 DEF SessionInv, SessionTyped, Keys
  <1>7. FreeKnown'
    BY <1>1 DEF SessionInv, FreeKnown, Keys
  <1>8. MeasuredIsFree' /\ CanariesTell'
    BY <1>1, <1>2, <1>3, <1>5 DEF SessionInv, MeasuredIsFree, CanariesTell, Before
  <1> QED
    BY <1>6, <1>7, <1>8 DEF SessionInv

-----------------------------------------------------------------------------
(* One request of the probing.                                               *)

Kinds == {"failed", "answered", "refused", "lost"}

\* A decline is of one of the names asked.  An answer that carries a canary's value
\* was read with a session: the names it leaves blank have none to show.
LEMMA AnswersTell ==
  ASSUME SessionTyped, NEW chunk \in SUBSET Names, NEW with \in BOOLEAN,
         NEW answer \in Answers(chunk, with)
  PROVE  /\ answer.kind \in Kinds
         /\ answer.kind = "refused" => \E n \in chunk : device.names[n] = "refused"
         /\ answer.kind = "answered" /\ CanariesTell /\ fresh /\ canaries # {} =>
               \A n \in chunk : n \in answer.names \/ device.names[n] = "silent"
  <1> DEFINE kinds == {device.names[n] : n \in chunk}
             serves == {"free"} \cup (IF with THEN {"held"} ELSE {})
             lost == [kind |-> "lost", names |-> {}]
             nothing == [kind |-> "answered", names |-> {}]
             blank == IF canaries # {} THEN lost ELSE nothing
             values == {n \in chunk : device.names[n] \in serves}
             some == [kind |-> "answered", names |-> values]
             served == IF canaries # {} /\ Valued(canaries, with) = {} THEN blank ELSE some
  <1>1. \/ answer = [kind |-> "failed", names |-> {}]
        \/ "refused" \in kinds /\ answer = [kind |-> "refused", names |-> {}]
        \/ "refused" \notin kinds /\ "slow" \in kinds /\ answer = blank
        \/ "refused" \notin kinds /\ "slow" \notin kinds /\ answer = served
    BY Zenon DEF Answers
  <1>2. "refused" \in kinds => \E n \in chunk : device.names[n] = "refused"
    OBVIOUS
  <1>3. canaries # {} =>
          \/ answer.kind \in {"failed", "refused", "lost"}
          \/ /\ "refused" \notin kinds /\ "slow" \notin kinds
             /\ Valued(canaries, with) # {} /\ answer.names = values
    <2> HIDE DEF kinds, values
    <2> QED
      BY <1>1
  <1>4. ASSUME CanariesTell, fresh, Valued(canaries, with) # {},
               "refused" \notin kinds, "slow" \notin kinds, NEW n \in chunk
        PROVE  n \in values \/ device.names[n] = "silent"
    <2>1. with
      BY <1>4 DEF CanariesTell, Valued
    <2>2. device.names[n] \in {"held", "free", "silent", "refused", "slow"}
      BY DeviceFacts
    <2>3. device.names[n] \notin {"refused", "slow"}
      BY <1>4
    <2> QED
      BY <2>1, <2>2, <2>3
  <1>5. answer.kind \in Kinds /\ (answer.kind = "refused" => "refused" \in kinds)
    <2> HIDE DEF kinds, values
    <2> QED
      BY <1>1 DEF Kinds
  <1> HIDE DEF kinds, values
  <1> QED
    BY <1>2, <1>3, <1>4, <1>5

LEMMA SessionAfterRequest ==
  ASSUME SessionInv, NEW chunk, NEW answer, Asked(chunk, answer) \/ Renews(TRUE)
  PROVE  cookie' \in {"none", "good", "dead"} /\ (cookie' = "good" => live')
  <1>1. cookie \in {"none", "good", "dead"} /\ (cookie = "good" => live)
    BY DEF SessionInv, SessionTyped
  <1>2. \/ live' = TRUE /\ cookie' = "good"
        \/ cookie' = "none"
        \/ live' = live /\ cookie' = cookie
    BY DEF Asked, Renews, LogsIn, _reestablish_session, session
  <1> QED
    BY <1>1, <1>2

-----------------------------------------------------------------------------
(* The names.                                                                *)

LEMMA NamesRest ==
  ASSUME NamesInv, UNCHANGED <<device, probe, results>>,
         \/ stage' \in Before
         \/ UNCHANGED <<stage, fresh, canaries>>
  PROVE  NamesInv'
  <1>1. ProbeTyped'
    BY DEF NamesInv, ProbeTyped, Before, probe, results
  <1>2. RefusedIsOwn'
    BY DEF NamesInv, RefusedIsOwn, results
  <1>3. ToCome' = ToCome
    BY DEF ToCome, probe
  <1>4. NamesKnown'
    BY <1>3 DEF NamesInv, NamesKnown, Before, results
  <1> QED
    BY <1>1, <1>2, <1>4 DEF NamesInv

\* A phase that ends leaves nothing to come but the next one's names.
LEMMA PhaseFacts ==
  ASSUME ProbeTyped, PhaseEnds
  PROVE  \/ /\ phase = "chunks" /\ phase' = "singles" /\ stage' = "chunks"
            /\ todo' = Declining /\ queue' = {} /\ retry' = {}
            /\ relogins' \in 0..ReloginLimit /\ rounds' \in 0..MaxRounds
         \/ /\ phase = "singles" /\ stage' = "over" /\ UNCHANGED probe
  <1>1. 0 \in 0..ReloginLimit /\ 0 \in 0..MaxRounds
    BY DiscoveryConstants
  <1>2. ToProbe("singles") = Declining
    BY DEF ToProbe
  <1> QED
    BY <1>1, <1>2 DEF PhaseEnds, ProbeBegins, ProbeTyped

\* What a phase that ends leaves, if it forgets or gives up all it still had to ask.
LEMMA PhaseKeepsNames ==
  ASSUME NamesInv, stage \in {"chunks", "again"}, PhaseEnds,
         UNCHANGED <<device, found, refused, fresh, canaries>>,
         unasked \subseteq unasked', dropped \subseteq dropped',
         todo \cup queue \cup retry \cup early \subseteq unasked' \cup dropped',
         early' = {}
  PROVE  NamesInv'
  <1>1. Declining \subseteq Names
    BY DiscoveryConstants
  <1>2. ProbeTyped'
    BY <1>1, PhaseFacts DEF NamesInv, ProbeTyped, probe
  <1>3. RefusedIsOwn'
    BY DEF NamesInv, RefusedIsOwn
  <1>4. CASE phase = "chunks"
    <2>1. stage' = "chunks" /\ ToCome' = Declining
          /\ ToCome = todo \cup queue \cup retry \cup Declining
      BY <1>4, PhaseFacts DEF NamesInv, ToCome
    <2>2. NamesKnown'
      BY <2>1 DEF NamesInv, NamesKnown
    <2> QED
      BY <1>2, <1>3, <2>2 DEF NamesInv
  <1>5. CASE phase = "singles"
    <2>1. stage' = "over" /\ ToCome = todo \cup queue \cup retry
      BY <1>5, PhaseFacts DEF NamesInv, ToCome
    <2>2. NamesKnown'
      BY <2>1 DEF NamesInv, NamesKnown
    <2> QED
      BY <1>2, <1>3, <2>2 DEF NamesInv
  <1> QED
    BY <1>4, <1>5 DEF NamesInv, ProbeTyped

LEMMA CanariesKeepNames ==
  ASSUME NamesInv, NEW core \in BOOLEAN, NEW extended \in BOOLEAN,
         PicksCanaries(core, extended)
  PROVE  NamesInv'
  <1>1. stage' = "chunks" /\ phase' = "chunks" /\ todo' = Names \ Declining
        /\ queue' = {} /\ retry' = {} /\ relogins' = 0 /\ rounds' = 0
        /\ UNCHANGED <<device, results>>
    BY DEF PicksCanaries, ProbeBegins, ToProbe
  <1>2. ProbeTyped'
    BY <1>1, DiscoveryConstants DEF ProbeTyped
  <1>3. RefusedIsOwn'
    BY <1>1 DEF NamesInv, RefusedIsOwn, results
  <1>4. Names \subseteq ToCome'
    BY <1>1 DEF ToCome
  <1>5. NamesKnown'
    BY <1>1, <1>4 DEF NamesKnown
  <1> QED
    BY <1>2, <1>3, <1>5 DEF NamesInv

\* A chunk: each of its names is answered for, asked again, declined or silent.
LEMMA ChunkKeepsInv ==
  ASSUME SessionInv, NamesInv, NEW chunk \in Chunks, NEW answer, ChunkAsked(chunk, answer)
  PROVE  SessionInv' /\ NamesInv'
  <1>1. stage = "chunks" /\ chunk \subseteq todo /\ chunk \subseteq Names
        /\ UNCHANGED <<device, measured, judged, stage, fresh, crossed, canaries, phase, queue,
                       rounds, refused, unasked, dropped>>
    BY DEF ChunkAsked, pass, Chunks, NamesInv, ProbeTyped
  <1>2. todo' = todo \ chunk /\ found' = found \cup answer.names
        /\ early' = (IF answer.kind = "refused" THEN early \cup Declined(chunk) ELSE early)
        /\ retry' = IF \/ answer.kind \in {"failed", "lost"}
                       \/ (answer.kind = "refused" /\ Declined(chunk) = {})
                       \/ (answer.kind = "answered" /\ answer.names = {}
                             /\ Cardinality(chunk) > 1)
                    THEN retry \cup chunk ELSE retry
    BY DEF ChunkAsked
  <1>3. /\ \E with \in BOOLEAN : answer \in Answers(chunk, with)
        /\ Asked(chunk, answer) \/ Renews(TRUE)
        /\ relogins' = relogins \/ (relogins < ReloginLimit /\ relogins' = relogins + 1)
    <2>1. \/ answer \in Answers(chunk, cookie # "dead") /\ Renews(TRUE)
          \/ Asked(chunk, answer) /\ relogins' = relogins
      BY DEF ChunkAsked
    <2>2. (cookie # "dead") \in BOOLEAN /\ TRUE \in BOOLEAN
      OBVIOUS
    <2>3. Asked(chunk, answer) => \E with \in BOOLEAN : answer \in Answers(chunk, with)
      BY <2>2 DEF Asked
    <2>4. Renews(TRUE) =>
             relogins' = relogins \/ (relogins < ReloginLimit /\ relogins' = relogins + 1)
      BY DEF Renews
    <2> QED
      BY <2>1, <2>2, <2>3, <2>4
  <1>4. PICK with \in BOOLEAN : answer \in Answers(chunk, with)
    BY <1>3
  <1>5. /\ answer.kind \in Kinds
        /\ answer.kind = "refused" => \E n \in chunk : device.names[n] = "refused"
        /\ answer.kind = "answered" /\ fresh /\ canaries # {} =>
              \A n \in chunk : n \in answer.names \/ device.names[n] = "silent"
    BY <1>1, <1>4, AnswersTell DEF SessionInv
  <1>6. SessionInv'
    BY <1>1, <1>3, SessionAfterRequest, SessionMoves
  <1>7. ProbeTyped'
    BY <1>1, <1>2, <1>3, DiscoveryConstants DEF NamesInv, ProbeTyped
  <1>8. RefusedIsOwn'
    <2>1. answer.kind = "refused" => \A n \in Declined(chunk) : device.names[n] = "refused"
      BY <1>5 DEF Declined
    <2> QED
      BY <1>1, <1>2, <2>1 DEF NamesInv, RefusedIsOwn
  <1>9. NamesKnown'
    <2>1. SUFFICES ASSUME canaries # {}, fresh,
                          NEW n \in Names \ (found' \cup refused \cup early' \cup unasked
                                               \cup dropped \cup ToCome')
                   PROVE  device.names[n] = "silent"
      BY <1>1 DEF NamesKnown
    <2>2. n \notin todo' \cup queue \cup retry'
          /\ n \notin (IF phase = "chunks" THEN Declining ELSE {})
      BY <1>1 DEF ToCome
    <2>3. CASE n \notin chunk
      <3>1. n \notin ToCome
        BY <1>2, <2>2, <2>3 DEF ToCome
      <3> QED
        BY <1>1, <1>2, <2>1, <3>1 DEF NamesInv, NamesKnown
    <2>4. CASE n \in chunk
      <3>1. n \notin retry' /\ n \notin found' /\ n \notin early'
        BY <2>2
      <3>2. answer.kind \notin {"failed", "lost"}
        BY <1>2, <2>4, <3>1
      <3>3. answer.kind # "refused"
        <4>1. SUFFICES ASSUME answer.kind = "refused"
                       PROVE  FALSE
          OBVIOUS
        <4>2. Declined(chunk) # {}
          BY <1>2, <2>4, <3>1, <4>1
        <4>3. n \in Declined(chunk)
          BY <2>4, <4>2 DEF Declined
        <4> QED
          BY <1>2, <3>1, <4>1, <4>3
      <3> QED
        BY <1>2, <1>5, <2>1, <2>4, <3>1, <3>2, <3>3 DEF Kinds
    <2> QED
      BY <2>3, <2>4
  <1> QED
    BY <1>6, <1>7, <1>8, <1>9 DEF NamesInv

\* A name asked alone.
LEMMA NameKeepsInv ==
  ASSUME SessionInv, NamesInv, NEW n \in queue, NEW answer, NameAsked(n, answer)
  PROVE  SessionInv' /\ NamesInv'
  <1>1. stage = "again" /\ {n} \in SUBSET Names /\ Asked({n}, answer)
        /\ UNCHANGED <<device, measured, judged, stage, fresh, crossed, canaries, phase, todo,
                       relogins, rounds, early, unasked, dropped>>
    BY DEF NameAsked, pass, NamesInv, ProbeTyped
  <1>2. queue' = queue \ {n} /\ found' = found \cup answer.names
        /\ refused' = (IF answer.kind = "refused" THEN refused \cup {n} ELSE refused)
        /\ retry' = (IF answer.kind \in {"failed", "lost"} THEN retry \cup {n} ELSE retry)
    BY DEF NameAsked, Still
  <1>3. PICK with \in BOOLEAN : answer \in Answers({n}, with)
    <2>1. (cookie # "dead") \in BOOLEAN /\ TRUE \in BOOLEAN
      OBVIOUS
    <2> QED
      BY <1>1, <2>1 DEF Asked
  <1>4. /\ answer.kind \in Kinds
        /\ answer.kind = "refused" => device.names[n] = "refused"
        /\ answer.kind = "answered" /\ fresh /\ canaries # {} =>
              n \in answer.names \/ device.names[n] = "silent"
    <2>1. /\ answer.kind \in Kinds
          /\ answer.kind = "refused" => \E m \in {n} : device.names[m] = "refused"
          /\ answer.kind = "answered" /\ fresh /\ canaries # {} =>
                \A m \in {n} : m \in answer.names \/ device.names[m] = "silent"
      BY <1>1, <1>3, AnswersTell DEF SessionInv
    <2> QED
      BY <2>1
  <1>5. SessionInv'
    BY <1>1, SessionAfterRequest, SessionMoves
  <1>6. ProbeTyped'
    BY <1>1, <1>2 DEF NamesInv, ProbeTyped
  <1>7. RefusedIsOwn'
    BY <1>1, <1>2, <1>4 DEF NamesInv, RefusedIsOwn
  <1>8. NamesKnown'
    <2>1. SUFFICES ASSUME canaries # {}, fresh,
                          NEW m \in Names \ (found' \cup refused' \cup early \cup unasked
                                               \cup dropped \cup ToCome')
                   PROVE  device.names[m] = "silent"
      BY <1>1 DEF NamesKnown
    <2>2. m \notin todo \cup queue' \cup retry'
          /\ m \notin (IF phase = "chunks" THEN Declining ELSE {})
      BY <1>1 DEF ToCome
    <2>3. CASE m # n
      <3>1. m \notin ToCome
        BY <1>2, <2>2, <2>3 DEF ToCome
      <3> QED
        BY <1>1, <1>2, <2>1, <3>1 DEF NamesInv, NamesKnown
    <2>4. CASE m = n
      BY <1>2, <1>4, <2>1, <2>2, <2>4 DEF Kinds
    <2> QED
      BY <2>3, <2>4
  <1> QED
    BY <1>5, <1>6, <1>7, <1>8 DEF NamesInv

LEMMA ChunksLateKeepsInv ==
  ASSUME SessionInv, NamesInv, ChunksLate
  PROVE  SessionInv' /\ NamesInv'
  <1>1. stage = "chunks" /\ PhaseEnds /\ early' = {}
        /\ unasked' = unasked \cup todo /\ dropped' = dropped \cup retry \cup early
        /\ UNCHANGED <<device, session, measured, fresh, crossed, canaries, found, refused>>
    BY DEF ChunksLate
  <1>2. queue = {}
    BY <1>1 DEF NamesInv, ProbeTyped
  <1>3. stage' \in {"chunks", "over"}
    BY <1>1, PhaseFacts DEF NamesInv
  <1>4. SessionInv'
    BY <1>1, <1>3, SessionMoves DEF SessionInv, SessionTyped, session
  <1>5. NamesInv'
    BY <1>1, <1>2, PhaseKeepsNames
  <1> QED
    BY <1>4, <1>5

LEMMA ChunksEndKeepsInv ==
  ASSUME SessionInv, NamesInv, ChunksEnd
  PROVE  SessionInv' /\ NamesInv'
  <1>1. stage = "chunks" /\ todo = {} /\ stage' = "again" /\ queue' = retry /\ retry' = {}
        /\ refused' = refused \cup early /\ early' = {}
        /\ UNCHANGED <<device, session, measured, fresh, crossed, canaries, phase, todo,
                       relogins, rounds, found, unasked, dropped>>
    BY DEF ChunksEnd
  <1>2. SessionInv'
    BY <1>1, SessionMoves DEF SessionInv, SessionTyped, session
  <1>3. ProbeTyped'
    BY <1>1 DEF NamesInv, ProbeTyped
  <1>4. RefusedIsOwn'
    BY <1>1 DEF NamesInv, RefusedIsOwn
  <1>5. ToCome' = ToCome
    BY <1>1 DEF ToCome, NamesInv, ProbeTyped
  <1>6. NamesKnown'
    BY <1>1, <1>5 DEF NamesInv, NamesKnown
  <1> QED
    BY <1>2, <1>3, <1>4, <1>6 DEF NamesInv

LEMMA NamesLateKeepsInv ==
  ASSUME SessionInv, NamesInv, NamesLate
  PROVE  SessionInv' /\ NamesInv'
  <1>1. stage = "again" /\ PhaseEnds /\ todo = {} /\ early = {} /\ early' = early
        /\ unasked' = unasked \cup queue /\ dropped' = dropped \cup retry
        /\ UNCHANGED <<device, session, measured, fresh, crossed, canaries, found, refused>>
    BY DEF NamesLate, NamesInv, ProbeTyped
  <1>2. stage' \in {"chunks", "over"}
    BY <1>1, PhaseFacts DEF NamesInv
  <1>3. SessionInv'
    BY <1>1, <1>2, SessionMoves DEF SessionInv, SessionTyped, session
  <1>4. NamesInv'
    BY <1>1, PhaseKeepsNames
  <1> QED
    BY <1>3, <1>4

LEMMA RoundKeepsInv ==
  ASSUME SessionInv, NamesInv, RoundEnds
  PROVE  SessionInv' /\ NamesInv'
  <1>1. stage = "again" /\ queue = {} /\ todo = {} /\ early = {}
        /\ UNCHANGED <<device, session, measured, fresh, crossed, canaries, found, refused,
                       early, dropped>>
    BY DEF RoundEnds, NamesInv, ProbeTyped
  <1>2. CASE retry # {} /\ NextRound < MaxRounds
    <2>1. queue' = retry /\ retry' = {} /\ rounds' = rounds + 1 /\ rounds + 1 < MaxRounds
          /\ UNCHANGED <<stage, phase, todo, relogins, unasked>>
      BY <1>2 DEF RoundEnds, NextRound
    <2>2. SessionInv'
      BY <1>1, <2>1, SessionMoves DEF SessionInv, SessionTyped, session
    <2>3. ProbeTyped'
      BY <1>1, <2>1, DiscoveryConstants DEF NamesInv, ProbeTyped
    <2>4. RefusedIsOwn'
      BY <1>1 DEF NamesInv, RefusedIsOwn
    <2>5. ToCome' = ToCome
      BY <1>1, <2>1 DEF ToCome
    <2>6. NamesKnown'
      BY <1>1, <2>1, <2>5 DEF NamesInv, NamesKnown
    <2> QED
      BY <2>2, <2>3, <2>4, <2>6 DEF NamesInv
  <1>3. CASE ~(retry # {} /\ NextRound < MaxRounds)
    <2>1. PhaseEnds /\ unasked' = unasked \cup retry
      BY <1>3 DEF RoundEnds
    <2>2. stage' \in {"chunks", "over"}
      BY <2>1, PhaseFacts DEF NamesInv
    <2>3. SessionInv'
      BY <1>1, <2>2, SessionMoves DEF SessionInv, SessionTyped, session
    <2>4. NamesInv'
      BY <1>1, <2>1, PhaseKeepsNames
    <2> QED
      BY <2>3, <2>4
  <1> QED
    BY <1>2, <1>3

-----------------------------------------------------------------------------
(* The theorems.                                                             *)

LEMMA InitInv ==
  ASSUME Init
  PROVE  DiscoveryIInv
  <1>1. SessionTyped
    BY KeysFinite, DiscoveryConstants DEF Init, SessionTyped, Before
  <1>2. FreeKnown /\ MeasuredIsFree /\ CanariesTell
    BY DEF Init, FreeKnown, MeasuredIsFree, CanariesTell
  <1>3. ProbeTyped
    BY DiscoveryConstants DEF Init, ProbeTyped
  <1>4. RefusedIsOwn /\ NamesKnown
    BY DEF Init, RefusedIsOwn, NamesKnown
  <1>5. DeadIsCaught
    BY DEF Init, NoPoll, DeadIsCaught
  <1> QED
    BY <1>1, <1>2, <1>3, <1>4, <1>5 DEF DiscoveryIInv, SessionInv, NamesInv

\* Only a poll judges, and the pass forgets what one judged.
LEMMA JudgedRests ==
  ASSUME DeadIsCaught, device' = device, judged' = judged
  PROVE  DeadIsCaught'
  BY DEF DeadIsCaught

LEMMA StepInv ==
  ASSUME DiscoveryIInv, [Next]_vars
  PROVE  DiscoveryIInv'
  <1> USE DEF DiscoveryIInv
  <1>1. CASE Poll
    <2>1. SessionTyped
      BY DEF SessionInv
    <2>2. NamesInv'
      BY <1>1, NamesRest DEF Poll, pass
    <2> QED
      BY <1>1, <2>1, <2>2, PollKeepsSession, PollCaught
  <1>2. CASE CommandLogsIn
    <2>1. NamesInv'
      BY <1>2, NamesRest DEF CommandLogsIn
    <2> QED
      BY <1>2, <2>1, CommandKeepsSession, JudgedRests DEF CommandLogsIn
  <1>3. CASE Evicted
    <2>1. NamesInv'
      BY <1>3, NamesRest DEF Evicted, pass
    <2> QED
      BY <1>3, <2>1, EvictionKeepsSession, JudgedRests DEF Evicted
  <1>4. CASE Deadline
    <2>1. NamesInv'
      BY <1>4, NamesRest DEF Deadline, pass
    <2>2. SessionInv'
      BY <1>4, SessionMoves DEF Deadline, pass, session, SessionInv, SessionTyped
    <2> QED
      BY <1>4, <2>1, <2>2, JudgedRests DEF Deadline
  <1>5. CASE PassBegins
    <2>1. stage' \in Before /\ UNCHANGED <<device, probe, results>> /\ judged' = NoPoll
      BY <1>5 DEF PassBegins, Before
    <2>2. NamesInv'
      BY <2>1, NamesRest
    <2>3. DeadIsCaught'
      BY <2>1 DEF DeadIsCaught, NoPoll
    <2> QED
      BY <1>5, <2>2, <2>3, BeginningKeepsSession
  <1>6. CASE ChunksEnd
    BY <1>6, ChunksEndKeepsInv, JudgedRests DEF ChunksEnd
  <1>7. CASE ChunksLate
    BY <1>7, ChunksLateKeepsInv, JudgedRests DEF ChunksLate
  <1>8. CASE NamesLate
    BY <1>8, NamesLateKeepsInv, JudgedRests DEF NamesLate
  <1>9. CASE RoundEnds
    BY <1>9, RoundKeepsInv, JudgedRests DEF RoundEnds
  <1>10. ASSUME NEW answer \in {"success", "refused", "lost"}, LogsOut(answer)
         PROVE  DiscoveryIInv'
    <2>1. stage' \in Before /\ UNCHANGED <<device, judged, probe, results>>
      BY <1>10 DEF LogsOut, Before
    <2> QED
      BY <1>10, <2>1, LogoutKeepsSession, NamesRest, JudgedRests
  <1>11. ASSUME NEW answered \in BOOLEAN, Measures(answered)
         PROVE  DiscoveryIInv'
    <2>1. stage' \in Before /\ UNCHANGED <<device, judged, probe, results>>
      BY <1>11 DEF Measures, Before
    <2> QED
      BY <1>11, <2>1, MeasuringKeepsSession, NamesRest, JudgedRests
  <1>12. ASSUME NEW answered \in BOOLEAN, Measured(answered)
         PROVE  DiscoveryIInv'
    <2>1. stage' \in Before /\ UNCHANGED <<device, judged, probe, results>>
      BY <1>12 DEF Measured, Before
    <2> QED
      BY <1>12, <2>1, MeasuredKeepsSession, NamesRest, JudgedRests
  <1>13. ASSUME NEW granted \in BOOLEAN, PassLogsIn(granted)
         PROVE  DiscoveryIInv'
    <2>1. stage' \in Before /\ UNCHANGED <<device, judged, probe, results>>
      BY <1>13 DEF PassLogsIn, Before
    <2> QED
      BY <1>13, <2>1, LoginKeepsSession, NamesRest, JudgedRests
  <1>14. ASSUME NEW core \in BOOLEAN, NEW extended \in BOOLEAN, PicksCanaries(core, extended)
         PROVE  DiscoveryIInv'
    <2>1. UNCHANGED <<device, judged>>
      BY <1>14 DEF PicksCanaries
    <2> QED
      BY <1>14, <2>1, CanariesKeepSession, CanariesKeepNames, JudgedRests
  <1>15. ASSUME NEW chunk \in Chunks, NEW answer, ChunkAsked(chunk, answer)
         PROVE  DiscoveryIInv'
    <2>1. UNCHANGED <<device, judged>>
      BY <1>15 DEF ChunkAsked
    <2> QED
      BY <1>15, <2>1, ChunkKeepsInv, JudgedRests
  <1>16. ASSUME NEW n \in queue, NEW answer, NameAsked(n, answer)
         PROVE  DiscoveryIInv'
    <2>1. UNCHANGED <<device, judged>>
      BY <1>16 DEF NameAsked
    <2> QED
      BY <1>16, <2>1, NameKeepsInv, JudgedRests
  <1>17. CASE UNCHANGED vars
    <2>1. NamesInv'
      BY <1>17, NamesRest DEF vars, pass
    <2>2. SessionInv'
      <3>1. SessionTyped'
        BY <1>17 DEF vars, session, pass, SessionInv, SessionTyped, Keys
      <3>2. FreeKnown'
        BY <1>17 DEF vars, session, pass, SessionInv, FreeKnown, Keys
      <3>3. MeasuredIsFree' /\ CanariesTell'
        BY <1>17 DEF vars, pass, SessionInv, MeasuredIsFree, CanariesTell
      <3> QED
        BY <3>1, <3>2, <3>3 DEF SessionInv
    <2> QED
      BY <1>17, <2>1, <2>2, JudgedRests DEF vars
  <1> QED
    BY <1>1, <1>2, <1>3, <1>4, <1>5, <1>6, <1>7, <1>8, <1>9, <1>10, <1>11, <1>12,
       <1>13, <1>14, <1>15, <1>16, <1>17 DEF Next, Steps

\* The inductive invariant: what a session, a measurement and its canaries prove,
\* and what becomes of every name, at every step of a discovery pass
\* (async_discover_supported_keys, probe_names).
THEOREM DiscoveryInductive == Spec => []DiscoveryIInv
  <1>1. Init => DiscoveryIInv
    BY InitInv
  <1>2. DiscoveryIInv /\ [Next]_vars => DiscoveryIInv'
    BY StepInv
  <1> QED
    BY <1>1, <1>2, PTL DEF Spec

\* What a pass publishes of a name is true of it, whoever took the session
\* meanwhile: a silent one has no value to show, a declined one was declined for
\* itself, and the keys measured are served to anyone (async_discover_supported_keys).
THEOREM VerdictsProved == Spec => []VerdictsAreTrue
  <1>1. DiscoveryIInv => VerdictsAreTrue
    <2> SUFFICES ASSUME DiscoveryIInv
                 PROVE  VerdictsAreTrue
      OBVIOUS
    <2>1. TypeOK
      BY DEF DiscoveryIInv, SessionInv, NamesInv, SessionTyped, ProbeTyped, TypeOK, Before
    <2>2. SilentIsSilent
      BY DEF DiscoveryIInv, NamesInv, NamesKnown, SilentIsSilent, NoAnswer
    <2>3. RefusedIsOwn /\ MeasuredIsFree
      BY DEF DiscoveryIInv, SessionInv, NamesInv
    <2> QED
      BY <2>1, <2>2, <2>3 DEF VerdictsAreTrue
  <1> QED
    BY <1>1, DiscoveryInductive, PTL

\* A read without a session is taken for a good one only from a router that leaves
\* out most of what only a session shows (_classify_session).
THEOREM DeadSessionsCaught == Spec => []DeadIsCaught
  <1>1. DiscoveryIInv => DeadIsCaught
    BY DEF DiscoveryIInv
  <1> QED
    BY <1>1, DiscoveryInductive, PTL

-----------------------------------------------------------------------------
(* Settings.                                                                 *)

Modes == {"auto", "manual"}
Profiles == [Slots -> Apns \cup {None}]
Routers == [limit : BOOLEAN, size : {1, 2}, mode : Modes, index : Slots, slots : Profiles,
            form : Nat, apn : Nat]
PollAnswers == [limit : BOOLEAN, size : {1, 2, None}, mode : Modes, index : Slots,
            slots : Profiles, active : Apns \cup {None}, form : Nat, apn : Nat]

\* What a platform may be asked, and send.
Asking(p) == Asks(p) \cup {None}
Commands(p) == IF p = "switch" THEN [limit : BOOLEAN, size : {1, 2} \ {None}]
               ELSE [mode : Modes, index : Slots \cup {None}]

Actions(p) ==
    [at : {"idle", "sending", "refused", "lost", "refreshing"}
              \cup (IF p = "switch" THEN {"confirming"} ELSE {}),
     ask : Asking(p), body : Commands(p) \cup {None}, seen : Nat, tried : 0..1,
     reads : 0..1, landed : BOOLEAN,
     result : {"none", "done", "failed", "refused", "not applied"}]

SettingsTyped ==
    /\ router \in Routers
    /\ data \in PollAnswers \cup {None} /\ snap \in PollAnswers \cup {None}
    /\ polling \in BOOLEAN /\ shown \in BOOLEAN
    /\ DOMAIN act = Platforms /\ \A p \in Platforms : act[p] \in Actions(p)
    /\ options \in Intervals
    /\ slider \in [shown : Intervals, waiting : Intervals \cup {None}]

\* What was read is what the router has, or the router was changed since.
Current(d) ==
    /\ d.form <= router.form
    /\ d.form = router.form => d.size \in {router.size, None}
    /\ d.apn <= router.apn
    /\ d.apn = router.apn => /\ d.slots = router.slots /\ d.mode = router.mode
                             /\ d.index = router.index /\ d.active = Active(router)

ReadsCurrent == /\ data # None => Current(data)
                /\ snap # None => polling /\ Current(snap)

Underway(p) == act[p].at \in {"sending", "refused", "lost"}

\* The command under way keeps what its action was not asked to change, while the
\* router is as its action read it.
FormHeld == Underway("switch") =>
    LET a == act["switch"]
    IN /\ a.body \in Commands("switch") /\ a.seen <= router.form
       /\ a.seen = router.form => a.body.size = router.size

ApnHeld == Underway("select") =>
    LET a == act["select"]
    IN /\ a.body \in Commands("select") /\ a.seen <= router.apn
       /\ a.seen = router.apn /\ a.ask = [kind |-> "mode", to |-> "manual"] =>
             /\ a.body.mode = "manual" /\ a.body.index \in Slots
             /\ router.slots[a.body.index] = Active(router)

\* An action that was refused, and not yet answered otherwise, changed nothing.
NotLanded == \A p \in Platforms :
    /\ act[p].at \in {"sending", "refused"} \/ act[p].result = "refused" => ~act[p].landed
    /\ act[p].at # "idle" => act[p].result = "none"

SliderHolds == IF slider.waiting = None THEN slider.shown = options
               ELSE slider.waiting = slider.shown

SettingsIInv == /\ SettingsTyped /\ ReadsCurrent /\ FormHeld /\ ApnHeld
                /\ NotLanded /\ SliderHolds

-----------------------------------------------------------------------------
(* What the router reports, and what is made of it.                          *)

LEMMA Constants ==
  /\ None \notin Slots /\ None \notin Apns /\ None \notin Intervals
  /\ Network \in Apns /\ Stored \subseteq Profiles /\ DefaultInterval \in Intervals
  BY SettingsConstants DEF Profiles

\* An answer is what the router has.
LEMMA ReportCurrent ==
  ASSUME router \in Routers, NEW sized \in BOOLEAN
  PROVE  Report(sized) \in PollAnswers /\ Current(Report(sized))
  <1>1. Active(router) \in Apns \cup {None}
    BY Constants DEF Active, Routers, Profiles
  <1> QED
    BY <1>1 DEF Report, PollAnswers, Current, Routers

\* The profile resolved from an answer is that of the APN it names.
LEMMA ResolvedFacts ==
  ASSUME SettingsTyped, data # None, NEW s \in Resolved(data)
  PROVE  /\ s \in Slots
         /\ data.active = Active(data) => data.slots[s] = Active(data)
  <1>1. data \in PollAnswers
    BY DEF SettingsTyped
  <1>2. data.index \in Slots
    BY <1>1 DEF PollAnswers
  <1> QED
    BY <1>1, <1>2 DEF Resolved, Active

\* What a platform sends is of its kind; the manual mode is sent with the profile of
\* the APN in use.
LEMMA BodyFacts ==
  ASSUME SettingsTyped, data # None, NEW p \in Platforms, NEW ask \in Asks(p),
         NEW body \in Bodies(p, ask)
  PROVE  /\ body \in Commands(p)
         /\ p = "switch" => body.size = data.size
         /\ p = "select" /\ ask = [kind |-> "mode", to |-> "manual"] =>
               /\ body.mode = "manual" /\ body.index \in Slots
               /\ data.active = Active(data) => data.slots[body.index] = Active(data)
  <1>1. data \in PollAnswers
    BY DEF SettingsTyped
  <1>2. CASE p = "switch"
    <2>1. body \in Form(data, ask) /\ ask \in BOOLEAN
      BY <1>2 DEF Bodies, Asks
    <2>2. PICK size \in {data.size} \ {None} : body = [limit |-> ask, size |-> size]
      BY <2>1 DEF Form
    <2>3. data.size \in {1, 2, None}
      BY <1>1 DEF PollAnswers
    <2> QED
      BY <2>1, <2>2, <2>3, <1>2 DEF Commands
  <1>3. CASE p = "select" /\ ask.kind = "mode"
    <2>1. body \in Mode(data, ask.to) /\ ask.to \in Modes
      BY <1>3 DEF Bodies, Asks, Modes
    <2>2. CASE Resolved(data) # {}
      <3>1. PICK s \in Resolved(data) : body = [mode |-> ask.to, index |-> s]
        BY <2>1, <2>2 DEF Mode
      <3>2. s \in Slots /\ (data.active = Active(data) => data.slots[s] = Active(data))
        BY ResolvedFacts
      <3> QED
        BY <1>3, <2>1, <3>1, <3>2 DEF Commands
    <2>3. CASE Resolved(data) = {}
      <3>1. PICK m \in {ask.to} \cap {"auto"} : body = [mode |-> m, index |-> None]
        BY <2>1, <2>3 DEF Mode
      <3> QED
        BY <1>3, <2>1, <3>1 DEF Commands, Modes
    <2> QED
      BY <2>2, <2>3
  <1>4. CASE p = "select" /\ ask.kind # "mode"
    <2>1. ask.kind = "profile" /\ ask.to \in Slots /\ body \in Profile(data, ask.to)
      BY <1>4 DEF Bodies, Asks
    <2>2. body = [mode |-> "manual", index |-> ask.to]
      BY <2>1 DEF Profile
    <2>3. ask # [kind |-> "mode", to |-> "manual"]
      BY <1>4
    <2> QED
      BY <1>4, <2>1, <2>2, <2>3 DEF Commands, Modes
  <1> QED
    BY <1>2, <1>3, <1>4 DEF Platforms

-----------------------------------------------------------------------------
(* Each action keeps the invariant.                                          *)

LEMMA IdleFacts ==
  ASSUME NEW p \in Platforms
  PROVE  Idle \in Actions(p)
  BY DEF Idle, Actions, Asking, Platforms

LEMMA SettingsInitInv == SettingsInit => SettingsIInv
  <1> SUFFICES ASSUME SettingsInit PROVE SettingsIInv
    OBVIOUS
  <1>1. PICK mode \in {"auto", "manual"}, slots \in Stored, index \in Slots :
           router = [limit |-> FALSE, size |-> 1, mode |-> mode, index |-> index,
                     slots |-> slots, form |-> 0, apn |-> 0]
    BY DEF SettingsInit
  <1>2. router \in Routers
    BY <1>1, Constants DEF Routers, Modes
  <1>3. \A p \in Platforms : act[p] = Idle /\ act[p] \in Actions(p)
    BY IdleFacts DEF SettingsInit
  <1>4. SettingsTyped
    BY <1>2, <1>3, Constants DEF SettingsTyped, SettingsInit
  <1>5. FormHeld /\ ApnHeld /\ NotLanded
    BY <1>3 DEF FormHeld, ApnHeld, NotLanded, Underway, Idle, Platforms
  <1> QED
    BY <1>4, <1>5 DEF SettingsIInv, ReadsCurrent, SliderHolds, SettingsInit

\* An action that leaves the world alone and takes its platform to a rest, or on
\* with what it holds, keeps the invariant.
LEMMA ActMoves ==
  ASSUME SettingsIInv, NEW p \in Platforms, NEW next \in Actions(p),
         act' = [act EXCEPT ![p] = next],
         UNCHANGED <<router, data, snap, polling, slider, options>>, shown' \in BOOLEAN,
         next.at \in {"sending", "refused", "lost"} =>
            Underway(p) /\ next.body = act[p].body /\ next.seen = act[p].seen
                        /\ next.ask = act[p].ask,
         next.at \in {"sending", "refused"} \/ next.result = "refused" => ~next.landed,
         next.at # "idle" => next.result = "none"
  PROVE  SettingsIInv'
  <1>1. /\ act'[p] = next
        /\ \A q \in Platforms \ {p} : act'[q] = act[q]
        /\ DOMAIN act' = Platforms
    BY DEF SettingsIInv, SettingsTyped
  <1>2. SettingsTyped'
    <2>1. \A q \in Platforms : act'[q] \in Actions(q)
      BY <1>1 DEF SettingsIInv, SettingsTyped
    <2> QED
      BY <1>1, <2>1 DEF SettingsIInv, SettingsTyped, Actions, Asking, Asks
  <1>3. ReadsCurrent' /\ SliderHolds'
    BY DEF SettingsIInv, ReadsCurrent, Current, Active, SliderHolds
  <1>4. FormHeld'
    BY <1>1 DEF SettingsIInv, FormHeld, Underway, Platforms, Commands
  <1>5. ApnHeld'
    BY <1>1 DEF SettingsIInv, ApnHeld, Underway, Platforms, Commands, Active
  <1>6. NotLanded'
    BY <1>1 DEF SettingsIInv, NotLanded
  <1> QED
    BY <1>2, <1>3, <1>4, <1>5, <1>6 DEF SettingsIInv

LEMMA CalledInv ==
  ASSUME SettingsIInv, NEW p \in Platforms, NEW ask \in Asks(p), Called(p, ask)
  PROVE  SettingsIInv'
  <1> DEFINE seen == IF p = "switch" THEN data.form ELSE data.apn
             called == [Idle EXCEPT !.ask = ask, !.seen = seen]
  <1>1. data \in PollAnswers /\ seen \in Nat
    BY DEF Called, SettingsIInv, SettingsTyped, PollAnswers
  <1>s. seen = IF p = "switch" THEN data.form ELSE data.apn
    OBVIOUS
  <1> HIDE DEF seen
  <1>b. \/ act' = [act EXCEPT ![p] = [called EXCEPT !.result = "failed"]]
        \/ \E body \in Bodies(p, ask) :
               act' = [act EXCEPT ![p] = [called EXCEPT !.at = "sending", !.body = body]]
    BY Zenon DEF Called, seen
  <1>c. called = [Idle EXCEPT !.ask = ask, !.seen = seen]
    OBVIOUS
  <1> HIDE DEF called
  <1>2. /\ called \in Actions(p) /\ called.ask = ask /\ called.body = None
        /\ called.seen = seen /\ called.at = "idle" /\ ~called.landed
        /\ called.result = "none"
    <2>1. Idle \in Actions(p) /\ ask \in Asking(p)
      BY IdleFacts DEF Asking
    <2>2. called \in Actions(p)
      BY <1>1, <1>c, <2>1 DEF Actions
    <2> QED
      BY <1>c, <2>2 DEF Idle
  <1>3. CASE act' = [act EXCEPT ![p] = [called EXCEPT !.result = "failed"]]
    <2> DEFINE next == [called EXCEPT !.result = "failed"]
    <2>1. next.at = "idle" /\ next.result = "failed" /\ next \in Actions(p)
      BY <1>2 DEF Actions
    <2> HIDE DEF next
    <2>3. act' = [act EXCEPT ![p] = next]
      BY <1>3 DEF next
    <2>4. shown' \in BOOLEAN
      BY DEF Called, SettingsIInv, SettingsTyped
    <2> QED
      BY <2>1, <2>3, <2>4, ActMoves DEF Called
  <1>4. ASSUME NEW body \in Bodies(p, ask),
               act' = [act EXCEPT ![p] = [called EXCEPT !.at = "sending", !.body = body]]
        PROVE  SettingsIInv'
    <2> DEFINE next == [called EXCEPT !.at = "sending", !.body = body]
    <2>1. /\ next.at = "sending" /\ next.ask = ask /\ next.body = body
          /\ next.seen = seen /\ ~next.landed /\ next.result = "none"
      BY <1>2 DEF Actions
    <2>2. /\ body \in Commands(p)
          /\ p = "switch" => body.size = data.size
          /\ p = "select" /\ ask = [kind |-> "mode", to |-> "manual"] =>
                /\ body.mode = "manual" /\ body.index \in Slots
                /\ data.active = Active(data) => data.slots[body.index] = Active(data)
      BY BodyFacts DEF Called, SettingsIInv
    <2>3. Current(data)
      BY DEF Called, SettingsIInv, ReadsCurrent
    <2>6. next \in Actions(p)
      BY <1>2, <2>2 DEF Actions
    <2> HIDE DEF next
    <2>5. /\ act' = [act EXCEPT ![p] = next]
          /\ act'[p] = next /\ DOMAIN act' = Platforms
          /\ \A q \in Platforms \ {p} : act'[q] = act[q]
      BY <1>4 DEF next, SettingsIInv, SettingsTyped
    <2>7. SettingsTyped'
      <3>1. \A q \in Platforms : act'[q] \in Actions(q)
        BY <2>5, <2>6 DEF SettingsIInv, SettingsTyped
      <3> QED
        BY <2>5, <3>1 DEF Called, SettingsIInv, SettingsTyped, Actions, Asking, Asks
    <2>8. ReadsCurrent' /\ SliderHolds'
      BY DEF Called, SettingsIInv, ReadsCurrent, Current, Active, SliderHolds
    <2>9. NotLanded'
      BY <2>1, <2>5 DEF SettingsIInv, NotLanded
    <2>10. FormHeld'
      <3>1. CASE p = "switch"
        <4>1. data.form <= router.form /\ (data.form = router.form => data.size \in {router.size, None})
          BY <2>3 DEF Current
        <4>2. body.size # None
          BY <2>2, <3>1 DEF Commands
        <4>3. router' = router
          BY DEF Called
        <4> QED
          BY <2>1, <2>2, <1>s, <2>5, <3>1, <4>1, <4>2, <4>3 DEF FormHeld, Commands
      <3>2. CASE p # "switch"
        BY <2>5, <3>2 DEF Called, SettingsIInv, FormHeld, Underway, Platforms, Commands
      <3> QED
        BY <3>1, <3>2
    <2>11. ApnHeld'
      <3>1. CASE p = "select"
        <4>1. /\ data.apn <= router.apn
              /\ data.apn = router.apn =>
                    /\ data.slots = router.slots /\ data.active = Active(data)
                    /\ Active(data) = Active(router)
          BY <2>3 DEF Current, Active
        <4>2. router' = router /\ Active(router)' = Active(router)
          BY DEF Called, Active
        <4> QED
          BY <2>1, <2>2, <1>s, <2>5, <3>1, <4>1, <4>2 DEF ApnHeld, Commands
      <3>2. CASE p # "select"
        BY <2>5, <3>2 DEF Called, SettingsIInv, ApnHeld, Underway, Platforms, Commands, Active
      <3> QED
        BY <3>1, <3>2
    <2> QED
      BY <2>7, <2>8, <2>9, <2>10, <2>11 DEF SettingsIInv
  <1> QED
    BY <1>b, <1>3, <1>4

LEMMA SendsInv ==
  ASSUME SettingsIInv, NEW p \in Platforms, NEW lands \in BOOLEAN,
         NEW answer \in {"success", "refused", "lost"}, Sends(p, lands, answer)
  PROVE  SettingsIInv'
  <1> DEFINE at == CASE answer = "success" -> IF p = "switch" THEN "confirming" ELSE "refreshing"
                     [] answer = "refused" -> "refused"
                     [] answer = "lost" -> "lost"
             next == [act[p] EXCEPT !.landed = @ \/ lands, !.at = at]
  <1>1. /\ act[p].at = "sending" /\ (answer = "refused" => ~lands)
        /\ router' = IF lands THEN Carried(p, act[p].body) ELSE router
        /\ UNCHANGED <<data, snap, polling, forced, paused, shown, slider, options, moves>>
    BY DEF Sends
  <1>2. act[p] \in Actions(p) /\ ~act[p].landed /\ act[p].body \in Commands(p)
    BY <1>1 DEF SettingsIInv, SettingsTyped, NotLanded, FormHeld, ApnHeld, Underway, Platforms
  <1>3. act' = [act EXCEPT ![p] = next]
    BY DEF Sends, SettingsIInv, SettingsTyped
  <1>4. /\ at \in {"refused", "lost", "refreshing"} \cup (IF p = "switch" THEN {"confirming"} ELSE {})
        /\ at = "refused" => ~lands
    BY <1>1
  <1> HIDE DEF at
  <1>5. /\ next \in Actions(p) /\ next.at = at /\ next.landed = lands
        /\ next.body = act[p].body /\ next.ask = act[p].ask /\ next.seen = act[p].seen
        /\ next.result = act[p].result
    BY <1>2, <1>4 DEF Actions
  <1>6. act[p].result = "none"
    BY <1>1 DEF SettingsIInv, NotLanded
  <1>7. /\ act'[p] = next
        /\ \A q \in Platforms \ {p} : act'[q] = act[q]
        /\ DOMAIN act' = Platforms
    BY <1>3 DEF SettingsIInv, SettingsTyped
  <1> HIDE DEF next
  <1>8. CASE ~lands
    BY <1>1, <1>3, <1>4, <1>5, <1>6, <1>8, ActMoves DEF SettingsIInv, SettingsTyped, Underway
  <1>9. CASE lands
    <2> DEFINE a == act[p]
    <2>1. /\ router' \in Routers /\ router'.slots = router.slots
          /\ p = "switch" =>
                /\ router'.form = router.form + 1 /\ router'.apn = router.apn
                /\ router'.mode = router.mode /\ router'.index = router.index
          /\ p = "select" =>
                /\ router'.apn = router.apn + 1 /\ router'.form = router.form
                /\ router'.size = router.size
      <3>1. router \in Routers
        BY DEF SettingsIInv, SettingsTyped
      <3>2. CASE p = "switch"
        <4>1. router' = [router EXCEPT !.limit = a.body.limit, !.size = a.body.size,
                                       !.form = @ + 1]
          BY <1>1, <1>9, <3>2 DEF Carried
        <4>2. a.body.limit \in BOOLEAN /\ a.body.size \in {1, 2}
          BY <1>2, <3>2 DEF Commands
        <4> DEFINE form == router.form + 1
        <4>3. form \in Nat
          BY <3>1 DEF Routers
        <4>4. router' = [router EXCEPT !.limit = a.body.limit, !.size = a.body.size,
                                       !.form = form]
          BY <4>1
        <4> HIDE DEF a, form
        <4>5. router' \in Routers
          BY <3>1, <4>2, <4>3, <4>4 DEF Routers
        <4>6. /\ router'.slots = router.slots /\ router'.form = form
              /\ router'.apn = router.apn
              /\ router'.mode = router.mode /\ router'.index = router.index
          BY <3>1, <4>4 DEF Routers
        <4> QED
          BY <3>2, <4>5, <4>6 DEF form
      <3>3. CASE p = "select"
        <4>1. router' = [router EXCEPT !.mode = a.body.mode, !.apn = @ + 1,
                            !.index = IF a.body.index = None THEN @ ELSE a.body.index]
          BY <1>1, <1>9, <3>3 DEF Carried
        <4>2. a.body.mode \in Modes /\ a.body.index \in Slots \cup {None}
          BY <1>2, <3>3 DEF Commands
        <4> DEFINE index == IF a.body.index = None THEN router.index ELSE a.body.index
                   apn == router.apn + 1
        <4>3. index \in Slots /\ apn \in Nat
          BY <3>1, <4>2 DEF Routers
        <4>4. router' = [router EXCEPT !.mode = a.body.mode, !.apn = apn, !.index = index]
          BY <4>1
        <4> HIDE DEF a, index, apn
        <4>5. router' \in Routers
          BY <3>1, <4>2, <4>3, <4>4 DEF Routers
        <4>6. /\ router'.slots = router.slots /\ router'.apn = apn
              /\ router'.form = router.form /\ router'.size = router.size
          BY <3>1, <4>4 DEF Routers
        <4> QED
          BY <3>3, <4>5, <4>6 DEF apn
      <3> QED
        BY <3>2, <3>3 DEF Platforms
    <2>2. router \in Routers
      BY DEF SettingsIInv, SettingsTyped
    <2>3. SettingsTyped'
      <3>1. \A q \in Platforms : act'[q] \in Actions(q)
        BY <1>5, <1>7 DEF SettingsIInv, SettingsTyped
      <3> QED
        BY <1>1, <1>7, <2>1, <3>1 DEF SettingsIInv, SettingsTyped, Actions, Asking, Asks
    <2>4. \A d \in PollAnswers : Current(d) => Current(d)'
      <3> SUFFICES ASSUME NEW d \in PollAnswers, Current(d) PROVE Current(d)'
        BY Zenon
      <3>1. CASE p = "switch"
        <4>1. Active(router)' = Active(router)
          BY <2>1, <3>1 DEF Active
        <4> QED
          BY <2>1, <2>2, <3>1, <4>1 DEF Current, Routers, PollAnswers
      <3>2. CASE p = "select"
        BY <2>1, <2>2, <3>2 DEF Current, Routers, PollAnswers
      <3> QED
        BY <3>1, <3>2 DEF Platforms
    <2>5. ReadsCurrent' /\ SliderHolds'
      <3>1. SliderHolds'
        BY <1>1 DEF SettingsIInv, SliderHolds
      <3>2. ReadsCurrent'
        BY <1>1, <2>4 DEF SettingsIInv, SettingsTyped, ReadsCurrent, Current
      <3> QED
        BY <3>1, <3>2
    <2>6. NotLanded'
      BY <1>4, <1>5, <1>6, <1>7 DEF SettingsIInv, NotLanded
    <2>7. FormHeld'
      <3>1. CASE p = "switch"
        <4>1. a.seen \in Nat /\ router.form \in Nat
          BY <1>2, <2>2 DEF Actions, Routers
        <4>2. a.seen <= router.form
          BY <1>1, <3>1 DEF SettingsIInv, FormHeld, Underway
        <4> HIDE DEF a
        <4> QED
          BY <1>2, <1>5, <1>7, <2>1, <3>1, <4>1, <4>2 DEF FormHeld, Commands, a
      <3>2. CASE p = "select"
        BY <1>7, <2>1, <3>2 DEF SettingsIInv, FormHeld, Underway, Commands, Platforms
      <3> QED
        BY <3>1, <3>2 DEF Platforms
    <2>8. ApnHeld'
      <3>1. CASE p = "select"
        <4>1. a.seen \in Nat /\ router.apn \in Nat
          BY <1>2, <2>2 DEF Actions, Routers
        <4>2. a.seen <= router.apn
          BY <1>1, <3>1 DEF SettingsIInv, ApnHeld, Underway
        <4> QED
          BY <1>2, <1>5, <1>7, <2>1, <3>1, <4>1, <4>2 DEF ApnHeld, Commands
      <3>2. CASE p = "switch"
        <4>1. Active(router)' = Active(router)
          BY <2>1, <3>2 DEF Active
        <4> QED
          BY <1>7, <2>1, <3>2, <4>1 DEF SettingsIInv, ApnHeld, Underway, Commands, Platforms
      <3> QED
        BY <3>1, <3>2 DEF Platforms
    <2> QED
      BY <2>3, <2>5, <2>6, <2>7, <2>8 DEF SettingsIInv
  <1> QED
    BY <1>8, <1>9

\* An action that is over has nothing under way.
LEMMA OverFacts ==
  ASSUME SettingsIInv, NEW p \in Platforms,
         NEW result \in {"done", "failed", "refused", "not applied"}
  PROVE  /\ Over(p, result) \in Actions(p) /\ Over(p, result).at = "idle"
         /\ Over(p, result).landed = act[p].landed /\ Over(p, result).result = result
  <1> DEFINE landed == act[p].landed
  <1>1. landed \in BOOLEAN /\ Idle \in Actions(p)
    BY IdleFacts DEF SettingsIInv, SettingsTyped, Actions
  <1>2. Over(p, result) = [Idle EXCEPT !.landed = landed, !.result = result]
    BY DEF Over
  <1> HIDE DEF landed
  <1>3. Over(p, result) \in Actions(p)
    BY <1>1, <1>2 DEF Actions
  <1>4. Idle.at = "idle"
    BY DEF Idle
  <1>5. /\ Over(p, result).at = Idle.at /\ Over(p, result).landed = landed
        /\ Over(p, result).result = result
    BY <1>1, <1>2 DEF Actions
  <1> QED
    BY <1>3, <1>4, <1>5 DEF landed

LEMMA RetriesInv ==
  ASSUME SettingsIInv, NEW p \in Platforms, Retries(p)
  PROVE  SettingsIInv'
  <1> DEFINE next == [act[p] EXCEPT !.at = "sending", !.tried = 1]
  <1>1. act' = [act EXCEPT ![p] = next] /\ act[p].at = "refused"
    BY DEF Retries, Again, SettingsIInv, SettingsTyped
  <1>2. act[p] \in Actions(p)
    BY DEF SettingsIInv, SettingsTyped
  <1>3. /\ next \in Actions(p) /\ next.at = "sending" /\ next.body = act[p].body
        /\ next.seen = act[p].seen /\ next.ask = act[p].ask
        /\ next.landed = act[p].landed /\ next.result = act[p].result
    <2>1. 1 \in 0..1
      OBVIOUS
    <2>2. next \in Actions(p)
      BY <1>2, <2>1 DEF Actions
    <2> QED
      BY <1>2, <2>2 DEF Actions
  <1>4. ~act[p].landed /\ act[p].result = "none"
    BY <1>1 DEF SettingsIInv, NotLanded
  <1> HIDE DEF next
  <1> QED
    BY <1>1, <1>3, <1>4, ActMoves DEF Retries, Underway, SettingsIInv, SettingsTyped

LEMMA GivesUpInv ==
  ASSUME SettingsIInv, NEW p \in Platforms, GivesUp(p)
  PROVE  SettingsIInv'
  <1> DEFINE result == IF act[p].at = "refused" THEN "refused" ELSE "failed"
             next == Over(p, result)
  <1>1. act' = [act EXCEPT ![p] = next]
    BY DEF GivesUp
  <1>2. /\ next \in Actions(p) /\ next.at = "idle" /\ next.landed = act[p].landed
        /\ next.result = result
    BY OverFacts
  <1>3. result = "refused" => ~act[p].landed
    BY DEF SettingsIInv, NotLanded
  <1> HIDE DEF next, result
  <1> QED
    BY <1>1, <1>2, <1>3, ActMoves DEF GivesUp, SettingsIInv, SettingsTyped

LEMMA RefreshesInv ==
  ASSUME SettingsIInv, NEW p \in Platforms, Refreshes(p)
  PROVE  SettingsIInv'
  <1> DEFINE next == Over(p, "done")
  <1>1. act' = [act EXCEPT ![p] = next]
    BY DEF Refreshes
  <1>2. next \in Actions(p) /\ next.at = "idle" /\ next.result = "done"
    BY OverFacts
  <1> HIDE DEF next
  <1> QED
    BY <1>1, <1>2, ActMoves DEF Refreshes, SettingsIInv, SettingsTyped

LEMMA ConfirmsInv ==
  ASSUME SettingsIInv, NEW answered \in BOOLEAN, Confirms(answered)
  PROVE  SettingsIInv'
  <1>1. /\ act["switch"].at = "confirming" /\ "switch" \in Platforms
        /\ act["switch"] \in Actions("switch") /\ router.limit \in BOOLEAN
        /\ UNCHANGED <<router, data, snap, polling, slider, options>>
    BY DEF Confirms, SettingsIInv, SettingsTyped, Platforms, Routers
  <1>2. shown' \in BOOLEAN
    BY <1>1 DEF Confirms, SettingsIInv, SettingsTyped
  <1>3. act["switch"].result = "none"
    BY <1>1 DEF SettingsIInv, NotLanded
  <1>4. CASE act' = [act EXCEPT !["switch"].at = "refreshing"]
    <2> DEFINE next == [act["switch"] EXCEPT !.at = "refreshing"]
    <2>1. next \in Actions("switch") /\ next.at = "refreshing" /\ next.result = "none"
      BY <1>1, <1>3 DEF Actions
    <2>2. act' = [act EXCEPT !["switch"] = next]
      BY <1>4 DEF SettingsIInv, SettingsTyped
    <2> HIDE DEF next
    <2> QED
      BY <1>1, <1>2, <2>1, <2>2, ActMoves
  <1>5. CASE act' = [act EXCEPT !["switch"] = Over("switch", "not applied")]
    <2> DEFINE next == Over("switch", "not applied")
    <2>1. next \in Actions("switch") /\ next.at = "idle" /\ next.result = "not applied"
      BY <1>1, OverFacts
    <2>2. act' = [act EXCEPT !["switch"] = next]
      BY <1>5
    <2> HIDE DEF next
    <2> QED
      BY <1>1, <1>2, <2>1, <2>2, ActMoves
  <1>6. CASE act' = [act EXCEPT !["switch"].reads = 1]
    <2> DEFINE next == [act["switch"] EXCEPT !.reads = 1]
    <2>1. next \in Actions("switch") /\ next.at = "confirming" /\ next.result = "none"
      <3>1. 1 \in 0..1
        OBVIOUS
      <3>2. next \in Actions("switch")
        BY <1>1, <3>1 DEF Actions
      <3> QED
        BY <1>1, <1>3, <3>2 DEF Actions
    <2>2. act' = [act EXCEPT !["switch"] = next]
      BY <1>6 DEF SettingsIInv, SettingsTyped
    <2> HIDE DEF next
    <2> QED
      BY <1>1, <1>2, <2>1, <2>2, ActMoves
  <1> QED
    BY <1>4, <1>5, <1>6 DEF Confirms

\* The polls and the world leave the actions alone; where they change the router,
\* what was read before is older.
LEMMA PollsInv ==
  ASSUME SettingsIInv, Polls
  PROVE  SettingsIInv'
  <1>1. UNCHANGED <<router, controls>>
    BY DEF Polls, PollBegins, PollReads, PollDelivers, PollFails
  <1>a. /\ router \in Routers /\ DOMAIN act' = Platforms
        /\ \A p \in Platforms : act'[p] \in Actions(p)
        /\ options' \in Intervals /\ slider' \in [shown : Intervals, waiting : Intervals \cup {None}]
    BY <1>1 DEF SettingsIInv, SettingsTyped, controls
  <1>2. FormHeld' /\ ApnHeld' /\ NotLanded' /\ SliderHolds'
    BY <1>1 DEF SettingsIInv, controls, FormHeld, ApnHeld, NotLanded, SliderHolds, Underway,
                Active, Commands
  <1>3. CASE PollBegins
    <2>1. SettingsTyped'
      BY <1>1, <1>a, <1>3 DEF PollBegins, SettingsIInv, SettingsTyped
    <2>2. ReadsCurrent'
      BY <1>1, <1>3 DEF PollBegins, SettingsIInv, ReadsCurrent, Current, Active
    <2> QED
      BY <1>2, <2>1, <2>2 DEF SettingsIInv
  <1>4. ASSUME NEW sized \in BOOLEAN, PollReads(sized) PROVE SettingsIInv'
    <2>1. Report(sized) \in PollAnswers /\ Current(Report(sized))
      BY ReportCurrent DEF SettingsIInv, SettingsTyped
    <2>2. SettingsTyped'
      BY <1>1, <1>a, <1>4, <2>1
         DEF PollReads, SettingsIInv, SettingsTyped
    <2>3. ReadsCurrent'
      BY <1>1, <1>4, <2>1 DEF PollReads, SettingsIInv, ReadsCurrent, Current, Active
    <2> QED
      BY <1>2, <2>2, <2>3 DEF SettingsIInv
  <1>5. CASE PollDelivers
    <2>1. Remembered(snap) \in BOOLEAN
      BY <1>5 DEF PollDelivers, Remembered, SettingsIInv, SettingsTyped, PollAnswers
    <2>2. SettingsTyped'
      BY <1>1, <1>a, <1>5, <2>1
         DEF PollDelivers, SettingsIInv, SettingsTyped
    <2>3. ReadsCurrent'
      BY <1>1, <1>5 DEF PollDelivers, SettingsIInv, ReadsCurrent, Current, Active
    <2> QED
      BY <1>2, <2>2, <2>3 DEF SettingsIInv
  <1>6. CASE PollFails
    <2>1. Remembered(data) \in BOOLEAN
      BY DEF Remembered, SettingsIInv, SettingsTyped, PollAnswers
    <2>2. SettingsTyped'
      BY <1>1, <1>a, <1>6, <2>1
         DEF PollFails, SettingsIInv, SettingsTyped
    <2>3. ReadsCurrent'
      BY <1>1, <1>6 DEF PollFails, SettingsIInv, ReadsCurrent, Current, Active
    <2> QED
      BY <1>2, <2>2, <2>3 DEF SettingsIInv
  <1> QED
    BY <1>3, <1>4, <1>5, <1>6 DEF Polls

LEMMA UserInv ==
  ASSUME SettingsIInv, Pause \/ SliderRests \/ \E v \in Intervals : SliderMoves(v)
  PROVE  SettingsIInv'
  <1>1. UNCHANGED <<router, data, snap, polling, shown, act>>
    BY DEF Pause, SliderRests, SliderMoves, controls
  <1>2. /\ options' \in Intervals
        /\ slider' \in [shown : Intervals, waiting : Intervals \cup {None}]
        /\ SliderHolds'
    <2>1. /\ options \in Intervals /\ None \notin Intervals /\ SliderHolds
          /\ slider \in [shown : Intervals, waiting : Intervals \cup {None}]
      BY Constants DEF SettingsIInv, SettingsTyped
    <2>2. CASE Pause
      BY <2>1, <2>2 DEF Pause, controls, SliderHolds
    <2>3. CASE SliderRests
      BY <2>1, <2>3 DEF SliderRests, Persist, SliderHolds
    <2>4. ASSUME NEW v \in Intervals, SliderMoves(v)
          PROVE  /\ options' \in Intervals
                 /\ slider' \in [shown : Intervals, waiting : Intervals \cup {None}]
                 /\ SliderHolds'
      BY <2>1, <2>4 DEF SliderMoves, SliderHolds
    <2> QED
      BY <2>2, <2>3, <2>4
  <1>3. SettingsTyped'
    BY <1>1, <1>2 DEF SettingsIInv, SettingsTyped, Actions, Asking, Asks
  <1>4. ReadsCurrent' /\ FormHeld' /\ ApnHeld' /\ NotLanded'
    BY <1>1 DEF SettingsIInv, ReadsCurrent, Current, FormHeld, ApnHeld, NotLanded, Underway,
                Active, Commands
  <1> QED
    BY <1>2, <1>3, <1>4 DEF SettingsIInv

LEMMA ReloadInv ==
  ASSUME SettingsIInv, Reload
  PROVE  SettingsIInv'
  <1>1. options' \in Intervals
    BY DEF Reload, Flush, Persist, SettingsIInv, SettingsTyped
  <1>2. \A p \in Platforms : act'[p] = Idle /\ Idle \in Actions(p)
    BY IdleFacts DEF Reload
  <1>3. SettingsTyped'
    BY <1>1, <1>2 DEF Reload, SettingsIInv, SettingsTyped, Actions, Asking, Asks
  <1>4. FormHeld' /\ ApnHeld' /\ NotLanded'
    BY <1>2 DEF FormHeld, ApnHeld, NotLanded, Underway, Idle, Platforms
  <1>5. ReadsCurrent' /\ SliderHolds'
    BY DEF Reload, ReadsCurrent, SliderHolds
  <1> QED
    BY <1>3, <1>4, <1>5 DEF SettingsIInv

LEMMA PageInv ==
  ASSUME SettingsIInv,
         \/ \E limit \in BOOLEAN, size \in {1, 2} : PageForm(limit, size)
         \/ \E mode \in {"auto", "manual"}, index \in Slots, slots \in Stored :
               PageApn(mode, index, slots)
  PROVE  SettingsIInv'
  <1>1. UNCHANGED <<data, snap, polling, shown, act, slider, options>>
    BY DEF PageForm, PageApn, controls
  <1>2. /\ router \in Routers
        /\ \A p \in Platforms : act[p].seen \in Nat
    BY DEF SettingsIInv, SettingsTyped, Actions
  <1>3. /\ router' \in Routers
        /\ \/ /\ router'.form = router.form + 1 /\ router'.apn = router.apn
              /\ router'.slots = router.slots /\ router'.mode = router.mode
              /\ router'.index = router.index
           \/ /\ router'.form = router.form /\ router'.size = router.size
              /\ router'.apn = router.apn + 1
    <2>1. ASSUME NEW limit \in BOOLEAN, NEW size \in {1, 2}, PageForm(limit, size)
          PROVE  /\ router' \in Routers
                 /\ router'.form = router.form + 1 /\ router'.apn = router.apn
                 /\ router'.slots = router.slots /\ router'.mode = router.mode
                 /\ router'.index = router.index
      <3> DEFINE form == router.form + 1
      <3>1. router' = [router EXCEPT !.limit = limit, !.size = size, !.form = form]
        BY <2>1 DEF PageForm
      <3>2. form \in Nat
        BY <1>2 DEF Routers
      <3> HIDE DEF form
      <3>3. router' \in Routers
        BY <1>2, <3>1, <3>2 DEF Routers
      <3>4. /\ router'.form = form /\ router'.apn = router.apn
            /\ router'.slots = router.slots /\ router'.mode = router.mode
            /\ router'.index = router.index
        BY <1>2, <3>1 DEF Routers
      <3> QED
        BY <3>3, <3>4 DEF form
    <2>2. ASSUME NEW mode \in {"auto", "manual"}, NEW index \in Slots, NEW slots \in Stored,
                 PageApn(mode, index, slots)
          PROVE  /\ router' \in Routers
                 /\ router'.form = router.form /\ router'.size = router.size
                 /\ router'.apn = router.apn + 1
      <3> DEFINE apn == router.apn + 1
      <3>1. router' = [router EXCEPT !.mode = mode, !.index = index, !.slots = slots,
                                     !.apn = apn]
        BY <2>2 DEF PageApn
      <3>2. apn \in Nat /\ slots \in Profiles /\ mode \in Modes
        BY <1>2, Constants DEF Routers, Modes
      <3> HIDE DEF apn
      <3>3. router' \in Routers
        BY <1>2, <3>1, <3>2 DEF Routers
      <3>4. /\ router'.form = router.form /\ router'.size = router.size
            /\ router'.apn = apn
        BY <1>2, <3>1 DEF Routers
      <3> QED
        BY <3>3, <3>4 DEF apn
    <2> QED
      BY <2>1, <2>2
  <1>4. SettingsTyped'
    BY <1>1, <1>3 DEF SettingsIInv, SettingsTyped, Actions, Asking, Asks
  <1>5. \A d \in PollAnswers : Current(d) => Current(d)'
    BY <1>2, <1>3 DEF Current, Routers, PollAnswers, Active
  <1>6. ReadsCurrent'
    BY <1>1, <1>5 DEF SettingsIInv, SettingsTyped, ReadsCurrent, Current
  <1>7. FormHeld'
    BY <1>1, <1>2, <1>3 DEF SettingsIInv, FormHeld, Underway, Commands, Routers, Platforms
  <1>8. ApnHeld'
    BY <1>1, <1>2, <1>3
       DEF SettingsIInv, ApnHeld, Underway, Commands, Routers, Platforms, Active
  <1>9. NotLanded' /\ SliderHolds'
    BY <1>1 DEF SettingsIInv, NotLanded, SliderHolds
  <1> QED
    BY <1>4, <1>6, <1>7, <1>8, <1>9 DEF SettingsIInv

LEMMA SettingsNextInv == SettingsIInv /\ [SettingsNext]_settingsVars => SettingsIInv'
  <1> SUFFICES ASSUME SettingsIInv, [SettingsNext]_settingsVars PROVE SettingsIInv'
    OBVIOUS
  <1>1. CASE Acts
    BY <1>1, CalledInv, SendsInv, RetriesInv, GivesUpInv, RefreshesInv, ConfirmsInv DEF Acts
  <1>2. CASE Polls
    BY <1>2, PollsInv
  <1>3. CASE Pause \/ SliderRests \/ \E v \in Intervals : SliderMoves(v)
    BY <1>3, UserInv
  <1>4. CASE Reload
    BY <1>4, ReloadInv
  <1>5. CASE \/ \E limit \in BOOLEAN, size \in {1, 2} : PageForm(limit, size)
             \/ \E mode \in {"auto", "manual"}, index \in Slots, slots \in Stored :
                   PageApn(mode, index, slots)
    BY <1>5, PageInv
  <1>6. CASE UNCHANGED settingsVars
    <2>1. SettingsTyped'
      BY <1>6 DEF settingsVars, SettingsIInv, SettingsTyped
    <2>2. ReadsCurrent' /\ FormHeld' /\ ApnHeld' /\ NotLanded' /\ SliderHolds'
      BY <1>6 DEF settingsVars, SettingsIInv, ReadsCurrent, Current, FormHeld, ApnHeld,
                  NotLanded, SliderHolds, Underway, Commands, Active
    <2> QED
      BY <2>1, <2>2 DEF SettingsIInv
  <1> QED
    BY <1>1, <1>2, <1>3, <1>4, <1>5, <1>6 DEF SettingsNext

\* The strengthening holds in every state.
THEOREM SettingsInductive == SettingsSpec => []SettingsIInv
  BY SettingsInitInv, SettingsNextInv, PTL DEF SettingsSpec

\* Only a command sent changes both what the router has and what is under way.
LEMMA OnlySends ==
  ASSUME [SettingsNext]_settingsVars
  PROVE  \/ router' = router
         \/ act' = act
         \/ \E p \in Platforms, lands \in BOOLEAN, answer \in {"success", "refused", "lost"} :
               Sends(p, lands, answer)
  <1>1. CASE Acts
    BY <1>1 DEF Acts, Called, Retries, GivesUp, Refreshes, Confirms
  <1>2. CASE Polls
    BY <1>2 DEF Polls, PollBegins, PollReads, PollDelivers, PollFails
  <1> QED
    BY <1>1, <1>2 DEF SettingsNext, Pause, SliderRests, Reload, SliderMoves, PageForm, PageApn,
                      controls, settingsVars

\* What a command sent does to the two platforms and to the router.
LEMMA SendsFacts ==
  ASSUME SettingsIInv, NEW p \in Platforms, NEW lands \in BOOLEAN,
         NEW answer \in {"success", "refused", "lost"}, Sends(p, lands, answer)
  PROVE  /\ act[p].at = "sending" /\ act[p].body \in Commands(p)
         /\ router' = IF lands THEN Carried(p, act[p].body) ELSE router
         /\ \A q \in Platforms \ {p} : act'[q] = act[q]
  BY DEF Sends, SettingsIInv, SettingsTyped, FormHeld, ApnHeld, Underway, Platforms

LEMMA OthersStep ==
  ASSUME SettingsIInv, [SettingsNext]_settingsVars, act["switch"].at = "sending",
         act'["switch"].landed, ~act["switch"].landed, act["switch"].seen = router.form
  PROVE  router'.size = router.size
  <1>1. CASE router' = router \/ act' = act
    BY <1>1
  <1>2. ASSUME NEW p \in Platforms, NEW lands \in BOOLEAN,
               NEW answer \in {"success", "refused", "lost"}, Sends(p, lands, answer)
        PROVE  router'.size = router.size
    <2>1. p = "switch"
      BY <1>2, SendsFacts DEF Platforms
    <2>2. CASE lands
      <3>1. /\ router' = [router EXCEPT !.limit = act["switch"].body.limit,
                            !.size = act["switch"].body.size, !.form = router.form + 1]
            /\ router \in Routers
        <4>1. router' = Carried("switch", act["switch"].body)
          BY <1>2, <2>1, <2>2, SendsFacts
        <4>2. router \in Routers
          BY DEF SettingsIInv, SettingsTyped
        <4> QED
          BY <4>1, <4>2 DEF Carried
      <3>2. act["switch"].body.size = router.size
        BY DEF SettingsIInv, FormHeld, Underway
      <3> QED
        BY <3>1, <3>2 DEF Routers
    <2>3. CASE ~lands
      BY <1>2, <2>3, SendsFacts
    <2> QED
      BY <2>2, <2>3
  <1> QED
    BY <1>1, <1>2, OnlySends

LEMMA ApnStep ==
  ASSUME SettingsIInv, [SettingsNext]_settingsVars, act["select"].at = "sending",
         router'.apn # router.apn, act["select"].seen = router.apn,
         act'["select"] # act["select"], act["select"].ask = [kind |-> "mode", to |-> "manual"]
  PROVE  Active(router') = Active(router)
  <1>1. CASE router' = router \/ act' = act
    BY <1>1
  <1>2. ASSUME NEW p \in Platforms, NEW lands \in BOOLEAN,
               NEW answer \in {"success", "refused", "lost"}, Sends(p, lands, answer)
        PROVE  Active(router') = Active(router)
    <2>1. p = "select" /\ lands
      BY <1>2, SendsFacts DEF Platforms
    <2> DEFINE body == act["select"].body
    <2>2. /\ body.mode = "manual" /\ body.index \in Slots
          /\ router.slots[body.index] = Active(router)
      BY DEF SettingsIInv, ApnHeld, Underway
    <2>3. body.index # None
      BY <2>2, Constants
    <2>4. router' = [router EXCEPT !.mode = body.mode, !.apn = router.apn + 1,
                                   !.index = body.index]
      BY <1>2, <2>1, <2>3, SendsFacts DEF Carried
    <2> HIDE DEF body
    <2>5. router \in Routers
      BY DEF SettingsIInv, SettingsTyped
    <2>6. router'.mode = "manual" /\ router'.index = body.index /\ router'.slots = router.slots
      BY <2>2, <2>4, <2>5 DEF Routers
    <2> QED
      BY <2>2, <2>6 DEF Active
  <1> QED
    BY <1>1, <1>2, OnlySends

LEMMA SliderStep ==
  ASSUME SettingsIInv, [SettingsNext]_settingsVars, slider'.shown # slider.shown
  PROVE  slider'.waiting = slider'.shown
  <1>1. slider \in [shown : Intervals, waiting : Intervals \cup {None}] /\ SliderHolds
    BY DEF SettingsIInv, SettingsTyped
  <1>2. CASE Reload
    BY <1>1, <1>2 DEF Reload, Flush, Persist, SliderHolds
  <1>3. CASE SliderRests
    BY <1>1, <1>3 DEF SliderRests
  <1>4. CASE \E v \in Intervals : SliderMoves(v)
    BY <1>4 DEF SliderMoves
  <1>5. CASE Acts
    BY <1>5 DEF Acts, Called, Sends, Retries, GivesUp, Refreshes, Confirms
  <1>6. CASE Polls
    BY <1>6 DEF Polls, PollBegins, PollReads, PollDelivers, PollFails, controls
  <1> QED
    BY <1>2, <1>3, <1>4, <1>5, <1>6 DEF SettingsNext, Pause, PageForm, PageApn, controls,
                                         settingsVars

\* For any profiles, APNs, intervals and number of moves: a command reported as
\* refused was carried out by neither of its sends (_retry_once_on_refusal).
THEOREM RefusalsProved == SettingsSpec => []RefusalsStand
  <1>1. SettingsIInv => RefusalsStand
    <2> SUFFICES ASSUME SettingsIInv PROVE RefusalsStand
      OBVIOUS
    <2>1. ASSUME NEW p \in Platforms
          PROVE  /\ act[p].at \in {"idle", "sending", "refused", "lost", "confirming",
                                   "refreshing"}
                 /\ act[p].tried \in 0..1 /\ act[p].reads \in 0..1
                 /\ act[p].body # None /\ p = "switch" => act[p].body.size # None
                 /\ act[p].result \in {"none", "done", "failed", "refused", "not applied"}
      <3>1. act[p] \in Actions(p)
        BY DEF SettingsIInv, SettingsTyped
      <3> QED
        BY <3>1 DEF Actions, Commands
    <2>2. act["select"].at # "confirming"
      <3>1. act["select"] \in Actions("select")
        BY DEF SettingsIInv, SettingsTyped, Platforms
      <3> QED
        BY <3>1 DEF Actions
    <2>3. SettingsTypeOK
      BY <2>1, <2>2 DEF SettingsTypeOK, SettingsIInv, SettingsTyped, ReadsCurrent
    <2> QED
      BY <2>3 DEF RefusalsStand, RefusedIsNotDone, SettingsIInv, NotLanded
  <1> QED
    BY <1>1, SettingsInductive, PTL

\* For any profiles, APNs, intervals and number of moves: a command changes what was
\* asked and nothing else, the form's other field and the APN in use are kept where
\* the router is as it was read, and the slider shows what the user set
\* (set_data_volume_settings, set_apn_mode, async_will_remove_from_hass).
THEOREM FieldsProved == SettingsSpec => FieldsKept
  <1>1. SettingsIInv /\ [SettingsNext]_settingsVars =>
          [act["switch"].at = "sending" /\ act'["switch"].landed /\ ~act["switch"].landed
                /\ act["switch"].seen = router.form
            => router'.size = router.size]_settingsVars
    BY OthersStep
  <1>2. SettingsIInv /\ [SettingsNext]_settingsVars =>
          [act["select"].at = "sending" /\ router'.apn # router.apn
                /\ act["select"].seen = router.apn
                /\ act'["select"] # act["select"]
                /\ act["select"].ask = [kind |-> "mode", to |-> "manual"]
            => Active(router') = Active(router)]_settingsVars
    BY ApnStep
  <1>3. SettingsIInv /\ [SettingsNext]_settingsVars =>
          [slider'.shown # slider.shown => slider'.waiting = slider'.shown]_settingsVars
    BY SliderStep
  <1>4. SettingsSpec => OthersKept
    BY <1>1, SettingsInductive, PTL DEF OthersKept, SettingsSpec
  <1>5. SettingsSpec => ApnKept
    BY <1>2, SettingsInductive, PTL DEF ApnKept, SettingsSpec
  <1>6. SettingsSpec => SliderKept
    BY <1>3, SettingsInductive, PTL DEF SliderKept, SettingsSpec
  <1> QED
    BY <1>4, <1>5, <1>6 DEF FieldsKept
=============================================================================
