------------------------------ MODULE Discovery ------------------------------
(***************************************************************************)
(* Which keys a router answers, and what may be told from its silence.  A      *)
(* router without a session answers 200 with every value blank, except for    *)
(* the keys it serves to anyone; a discovery pass asks for hundreds of names,  *)
(* most of them unknown to the device, and must not take the blanks of a lost  *)
(* session for names the firmware does not report.  It measures the keys       *)
(* served to anyone while logged out, picks canaries among the others, and     *)
(* carries them in every request.  Polls wait for the pass; commands do not,   *)
(* and other clients take the session.                                       *)
(***************************************************************************)
EXTENDS Integers, FiniteSets

CONSTANTS
    Core, Extended,     \* the keys of the two polls
    Sentinels,          \* _SESSION_SENTINELS
    Contract,           \* _CONTRACT_KEYS
    ConstantFree,       \* _UNAUTHENTICATED_KEYS, measured on one device
    Names,              \* the names a pass probes
    Declining,          \* REFUSABLE_NAMES: those asked one by one
    Devices,            \* routers: see Device
    ChunkSize, CanaryCount, FallbackEvery, ReloginLimit, MaxRounds,
    MaxTaken            \* bound: sessions taken or made by others

Keys == Core \cup Extended

\* What a router holds a value for and serves to anyone; the keys it leaves out
\* of its answers; whether a session is bound to the client's address; and what
\* it makes of each name: one it cannot serve makes it decline the whole request,
\* a slow one makes it time out or answer blank.
Device == [held : SUBSET Keys, free : SUBSET Keys, omits : SUBSET Keys, bound : BOOLEAN,
           names : [Names -> {"held", "free", "silent", "refused", "slow"}]]

ASSUME DiscoveryConstants ==
    /\ Sentinels \subseteq Contract /\ Contract \subseteq Core /\ ConstantFree \subseteq Keys
    /\ Sentinels # {} /\ Sentinels \cap ConstantFree = {} /\ Declining \subseteq Names
    /\ IsFiniteSet(Core) /\ IsFiniteSet(Extended) /\ IsFiniteSet(Names)
    /\ Devices \subseteq Device
    /\ \A d \in Devices : d.free \subseteq d.held /\ d.omits \cap d.held = {}
    /\ {ChunkSize, CanaryCount, FallbackEvery, MaxRounds} \subseteq Nat \ {0}
    /\ {ReloginLimit, MaxTaken} \subseteq Nat

VARIABLES
    device,
    live,       \* the router holds a session for us
    cookie,     \* what the client believes: "none", or a session, "good" or "dead"
    acked,      \* logout_acknowledged
    measured,   \* unauthenticated_keys, empty where never measured
    judged,     \* the last poll: its verdict, whether it was read without a session,
                \* whether the keys then in force were all that are served to anyone,
                \* and those only a session shows
    stage,      \* of the pass
    sample,     \* what the measurement has read
    fresh,      \* the pass has measured
    crossed,    \* a session was made while it did
    canaries,
    phase,      \* of probe_names: "chunks", then "singles"
    todo, queue, retry,
    relogins, blanks, rounds,
    late,       \* the deadline has passed
    found, refused, early, unasked,
    dropped,    \* names whose failed requests are forgotten at the deadline
    taken

session == <<live, cookie>>
pass == <<stage, sample, fresh, crossed, canaries>>
probe == <<phase, todo, queue, retry, relogins, blanks, rounds>>
results == <<found, refused, early, unasked, dropped>>
vars == <<device, session, acked, measured, judged, pass, probe, late, results, taken>>

-----------------------------------------------------------------------------
(* What an answer proves. *)

\* unauthenticated_key_set.
InForce == IF measured # {} THEN measured ELSE ConstantFree

\* With a session, or without one.
Valued(asked, with) == asked \cap (IF with THEN device.held ELSE device.free)

\* The router gives a request without a cookie its client's session, if it binds
\* one to the address.
Sessionless == device.bound /\ live

\* Variant: an answer is blank only when all of it is.
VerdictWhole(asked, valued) == IF valued # {} THEN "live" ELSE "expired"

\* _classify_session.
Verdict(asked, valued) ==
    LET present == asked \ device.omits
        wanted == asked \ InForce
    IN CASE present \ InForce = {} -> "undecidable"
         [] valued \ InForce # {} -> "live"
         [] valued \ InForce = {} /\ present \subseteq wanted -> "undecidable"
         [] valued = {} -> "not_ready"
         [] 2 * Cardinality(wanted \ present) > Cardinality(wanted) -> "undecidable"
         [] OTHER -> "expired"

\* _is_classifiable.
Classifiable(asked) ==
    /\ asked \ InForce # {}
    /\ asked \cap Sentinels # {} \/ asked \cap InForce # {}

\* _session_rejected: the answer stands, the session is renewed, or it is an error.
Judge(asked, valued) ==
    LET verdict == IF Classifiable(asked) THEN Verdict(asked, valued) ELSE "live"
    IN CASE verdict = "not_ready" -> "failed"
         [] verdict = "expired" -> "renew"
         [] verdict = "undecidable" /\ valued = {} -> "renew"
         [] OTHER -> "good"

\* _measurement_is_usable.
Usable(keys) ==
    /\ keys # {}
    /\ \A batch \in {Core, Extended, Contract, Sentinels} : ~(batch \subseteq keys)

-----------------------------------------------------------------------------
(* Polls, commands and other clients. *)

NoPoll == [verdict |-> "none", blind |-> FALSE, known |-> FALSE, wanted |-> {}]

LogsIn == live' = TRUE /\ cookie' = "good"

\* A poll's core read.  On "renew" it logs in and reads again.
Poll ==
    /\ stage \in {"idle", "over"} /\ cookie # "none"
    /\ LET verdict == Judge(Core, Valued(Core, cookie = "good"))
       IN /\ judged' = [verdict |-> verdict, blind |-> cookie # "good",
                          known |-> device.free \cap Core \subseteq InForce,
                          wanted |-> Core \ InForce]
          /\ IF verdict = "renew" THEN LogsIn ELSE UNCHANGED session
    /\ UNCHANGED <<device, acked, measured, pass, probe, late, results, taken>>

\* A command finds no session, or a dead one, and logs in.
CommandLogsIn ==
    /\ taken < MaxTaken /\ cookie # "good" /\ stage # "over"
    /\ LogsIn /\ taken' = taken + 1 /\ crossed' = (crossed \/ stage = "measuring")
    /\ UNCHANGED <<device, acked, measured, judged, stage, sample, fresh, canaries,
                   probe, late, results>>

Evicted ==
    /\ taken < MaxTaken /\ live /\ stage # "over"
    /\ live' = FALSE /\ cookie' = IF cookie = "none" THEN "none" ELSE "dead"
    /\ taken' = taken + 1
    /\ UNCHANGED <<device, acked, measured, judged, pass, probe, late, results>>

-----------------------------------------------------------------------------
(* The pass, up to its canaries. *)

PassBegins ==
    /\ stage = "idle" /\ stage' = "logout"
    /\ judged' = NoPoll
    /\ UNCHANGED <<device, session, acked, measured, sample, fresh, crossed, canaries,
                   probe, late, results, taken>>

\* logout(): best effort; only an acknowledged one has ended the session.
LogsOut(answer) ==
    /\ stage = "logout" /\ stage' = "measure"
    /\ IF cookie = "none" THEN UNCHANGED <<session, acked>>
       ELSE /\ cookie' = "none"
            /\ acked' = IF answer = "lost" THEN acked ELSE answer = "success"
            /\ live' \in IF answer = "success" THEN {FALSE} ELSE {live, FALSE}
    /\ UNCHANGED <<device, measured, judged, sample, fresh, crossed, canaries,
                   probe, late, results, taken>>

MayMeasure == cookie = "none" /\ acked

\* measure_unauthenticated_keys, its first request.
Measures(answered) ==
    /\ stage = "measure"
    /\ IF MayMeasure /\ answered
       THEN stage' = "measuring" /\ sample' = Valued(Core, Sessionless)
       ELSE stage' = "login" /\ UNCHANGED sample
    /\ UNCHANGED <<device, session, acked, measured, judged, fresh, crossed, canaries,
                   probe, late, results, taken>>

\* Its second, and its verdict on them.
Measured(answered) ==
    /\ stage = "measuring" /\ stage' = "login"
    /\ LET keys == sample \cup Valued(Extended, Sessionless)
           taken_over == answered /\ Usable(keys)
       IN /\ measured' = IF taken_over THEN keys ELSE measured
          /\ fresh' = taken_over
    /\ sample' = {}
    /\ UNCHANGED <<device, session, acked, judged, crossed, canaries, probe, late, results, taken>>

PassLogsIn(granted) ==
    /\ stage = "login"
    /\ IF granted THEN LogsIn /\ stage' = "canaries" ELSE stage' = "aborted" /\ UNCHANGED session
    /\ UNCHANGED <<device, acked, measured, judged, sample, fresh, crossed, canaries,
                   probe, late, results, taken>>

\* Variant: the canaries are drawn against the constant.
EligibleByConstant(batch) == Valued(batch, TRUE) \ ConstantFree

Eligible(batch) == Valued(batch, TRUE) \ InForce

\* The names of probe_names' two calls.
ToProbe(ph) == IF ph = "chunks" THEN Names \ Declining ELSE Declining

ProbeBegins(ph) ==
    /\ phase' = ph /\ todo' = ToProbe(ph) /\ queue' = {} /\ retry' = {}
    /\ relogins' = 0 /\ blanks' = 0 /\ rounds' = 0

\* _pick_canaries: either poll's read may fail; a dead session is renewed.
PicksCanaries(core, extended) ==
    /\ stage = "canaries" /\ stage' = "chunks" /\ LogsIn
    /\ LET pool == UNION {Eligible(batch) : batch \in
                    {b \in {Core, Extended} : /\ (b = Core => core) /\ (b = Extended => extended)
                                              /\ Judge(b, Valued(b, TRUE)) = "good"}}
       IN canaries' \in {c \in SUBSET pool :
                Cardinality(c) = CanaryCount \/ (Cardinality(c) < CanaryCount /\ c = pool)}
    /\ ProbeBegins("chunks")
    /\ UNCHANGED <<device, acked, measured, judged, sample, fresh, crossed, late, results, taken>>

-----------------------------------------------------------------------------
(* probe_names. *)

\* _probe_chunk: what may come of a request for these names.
Answers(chunk, with) ==
    LET kinds == {device.names[n] : n \in chunk}
        serves == {"free"} \cup (IF with THEN {"held"} ELSE {})
        blank == IF canaries # {} THEN [kind |-> "lost", names |-> {}]
                 ELSE [kind |-> "answered", names |-> {}]
        served == IF canaries # {} /\ Valued(canaries, with) = {} THEN blank
                  ELSE [kind |-> "answered", names |-> {n \in chunk : device.names[n] \in serves}]
    IN {[kind |-> "failed", names |-> {}]} \cup
       {IF "refused" \in kinds THEN [kind |-> "refused", names |-> {}]
        ELSE IF "slow" \in kinds THEN blank ELSE served}

\* A request logs in where there is no session; one that fails ends the session.
Asked(chunk, answer) ==
    \/ /\ answer.kind = "failed" /\ answer \in Answers(chunk, TRUE)
       /\ cookie' = "none" /\ UNCHANGED live
    \/ /\ answer.kind # "failed" /\ answer \in Answers(chunk, cookie # "dead")
       /\ IF cookie = "none" THEN LogsIn ELSE UNCHANGED session

Size == IF phase = "chunks" THEN ChunkSize ELSE 1

Chunks == {c \in SUBSET todo : c # {} /\
              (Cardinality(c) = Size \/ (Cardinality(c) < Size /\ c = todo))}

\* logout, login and a read that shows it, or none of them.
_reestablish_session ==
    \/ LogsIn
    \/ cookie' = "none" /\ live' = FALSE

\* A session found lost is renewed within the limit, or cannot be.
Renews(lost) ==
    IF lost /\ relogins < ReloginLimit
    THEN relogins' = relogins + 1 /\ _reestablish_session
    ELSE UNCHANGED <<session, relogins>>

\* Asked alone and declined.
Declined(chunk) == {n \in chunk : chunk = {n}}

\* A chunk that fails, is declined or comes back blank says nothing of its names.
\* Without canaries every few blank ones are checked by a read that itself renews
\* the session.
ChunkAsked(chunk, answer) ==
    /\ stage = "chunks" /\ ~late /\ chunk \in Chunks
    /\ todo' = todo \ chunk
    /\ found' = found \cup answer.names
    /\ early' = IF answer.kind = "refused" THEN early \cup Declined(chunk) ELSE early
    /\ retry' = IF \/ answer.kind \in {"failed", "lost"}
                   \/ (answer.kind = "refused" /\ Declined(chunk) = {})
                   \/ (answer.kind = "answered" /\ answer.names = {} /\ Cardinality(chunk) > 1)
                THEN retry \cup chunk ELSE retry
    /\ IF answer.kind = "lost"
       THEN answer \in Answers(chunk, cookie # "dead") /\ Renews(TRUE) /\ UNCHANGED blanks
       ELSE IF answer.kind = "answered" /\ answer.names = {} /\ Cardinality(chunk) > 1
               /\ canaries = {} /\ blanks + 1 >= FallbackEvery
       THEN answer \in Answers(chunk, cookie # "dead") /\ blanks' = 0 /\ Renews(TRUE)
       ELSE /\ Asked(chunk, answer) /\ UNCHANGED relogins
            /\ blanks' = IF answer.kind = "answered" /\ answer.names = {} /\ Cardinality(chunk) > 1
                         THEN blanks + 1 ELSE blanks
    /\ UNCHANGED <<device, acked, measured, judged, pass, phase, queue, rounds, late, refused,
                   unasked, dropped, taken>>

Deadline ==
    /\ stage \in {"chunks", "again"} /\ ~late /\ late' = TRUE
    /\ UNCHANGED <<device, session, acked, measured, judged, pass, probe, results, taken>>

\* The second phase follows the first; then one classified read ends the pass.
PhaseEnds ==
    IF phase = "chunks" THEN stage' = "chunks" /\ ProbeBegins("singles")
    ELSE stage' = "over" /\ UNCHANGED probe

\* The deadline between chunks: what was to be asked again is forgotten.
ChunksLate ==
    /\ stage = "chunks" /\ late /\ todo # {}
    /\ unasked' = unasked \cup todo /\ dropped' = dropped \cup retry \cup early
    /\ early' = {} /\ PhaseEnds
    /\ UNCHANGED <<device, session, acked, measured, judged, sample, fresh, crossed, canaries,
                   late, found, refused, taken>>

ChunksEnd ==
    /\ stage = "chunks" /\ todo = {}
    /\ stage' = "again" /\ queue' = retry /\ retry' = {}
    /\ refused' = refused \cup early /\ early' = {}
    /\ UNCHANGED <<device, session, acked, measured, judged, sample, fresh, crossed, canaries,
                   phase, todo, relogins, blanks, rounds, late, found, unasked, dropped, taken>>

\* Not asked, as far as this device is concerned.
Still(answer) == answer.kind \in {"failed", "lost"}

\* _reprobe_singly, one name.
NameAsked(n, answer) ==
    /\ stage = "again" /\ ~late /\ n \in queue
    /\ Asked({n}, answer)
    /\ queue' = queue \ {n}
    /\ found' = found \cup answer.names
    /\ refused' = IF answer.kind = "refused" THEN refused \cup {n} ELSE refused
    /\ retry' = IF Still(answer) THEN retry \cup {n} ELSE retry
    /\ UNCHANGED <<device, acked, measured, judged, pass, phase, todo, relogins, blanks, rounds,
                   late, early, unasked, dropped, taken>>

\* The deadline within a round: its failures are forgotten.
NamesLate ==
    /\ stage = "again" /\ late /\ queue # {}
    /\ unasked' = unasked \cup queue /\ dropped' = dropped \cup retry /\ PhaseEnds
    /\ UNCHANGED <<device, session, acked, measured, judged, sample, fresh, crossed, canaries,
                   late, found, refused, early, taken>>

\* Variant: a round is not counted.
RoundNotCounted == rounds

NextRound == rounds + 1

RoundEnds ==
    /\ stage = "again" /\ queue = {}
    /\ IF retry # {} /\ NextRound < MaxRounds
       THEN /\ queue' = retry /\ retry' = {} /\ rounds' = NextRound
            /\ UNCHANGED <<stage, phase, todo, relogins, blanks, unasked>>
       ELSE unasked' = unasked \cup retry /\ PhaseEnds
    /\ UNCHANGED <<device, session, acked, measured, judged, sample, fresh, crossed, canaries,
                   late, found, refused, early, dropped, taken>>

Init ==
    /\ device \in Devices
    /\ live = TRUE /\ cookie = "good" /\ acked = FALSE /\ measured = {}
    /\ judged = NoPoll
    /\ stage = "idle" /\ sample = {} /\ fresh = FALSE /\ crossed = FALSE /\ canaries = {}
    /\ phase = "chunks" /\ todo = {} /\ queue = {} /\ retry = {}
    /\ relogins = 0 /\ blanks = 0 /\ rounds = 0 /\ late = FALSE
    /\ found = {} /\ refused = {} /\ early = {} /\ unasked = {} /\ dropped = {} /\ taken = 0

Steps ==
    \/ PassBegins \/ ChunksEnd \/ ChunksLate \/ NamesLate \/ RoundEnds
    \/ \E answer \in {"success", "refused", "lost"} : LogsOut(answer)
    \/ \E answered \in BOOLEAN : Measures(answered) \/ Measured(answered) \/ PassLogsIn(answered)
    \/ \E core, extended \in BOOLEAN : PicksCanaries(core, extended)
    \/ \E chunk \in Chunks :
          \E answer \in Answers(chunk, TRUE) \cup Answers(chunk, FALSE) : ChunkAsked(chunk, answer)
    \/ \E n \in queue :
          \E answer \in Answers({n}, TRUE) \cup Answers({n}, FALSE) : NameAsked(n, answer)

Next == Poll \/ CommandLogsIn \/ Evicted \/ Deadline \/ Steps

Spec == Init /\ [][Next]_vars

\* Requests are answered or time out, and the pass goes on.
FairSpec == Spec /\ WF_vars(Steps)

-----------------------------------------------------------------------------
(* Properties. *)

\* probed_no_answer.
NoAnswer == Names \ (found \cup refused \cup unasked)

\* A session is believed in, and measured keys leave one to prove it by.
TypeOK ==
    /\ device \in Devices /\ cookie \in {"none", "good", "dead"}
    /\ cookie = "good" => live
    /\ measured \subseteq Keys /\ ~(Sentinels \subseteq measured)
    /\ stage \in {"idle", "logout", "measure", "measuring", "login", "canaries", "aborted",
                  "chunks", "again", "over"}
    /\ canaries \subseteq Keys /\ Cardinality(canaries) <= CanaryCount
    /\ todo \subseteq Names /\ queue \subseteq Names /\ retry \subseteq Names
    /\ relogins \in 0..ReloginLimit /\ rounds \in 0..MaxRounds

\* A poll read without a session is not taken for a good one, if the keys held to be
\* served to anyone include all that are and the router answered at least half of
\* those that only a session shows.
DeadIsCaught ==
    judged.verdict = "good" /\ judged.blind /\ judged.known
        => 2 * Cardinality(device.omits \cap judged.wanted) > Cardinality(judged.wanted)

\* A name published as asked and silent has no value for a session to show, whoever
\* took the session meanwhile: where the pass measured and found canaries, and
\* unless its failed request was forgotten at the deadline.
SilentIsSilent ==
    stage = "over" /\ canaries # {} /\ fresh
        => \A n \in NoAnswer \ dropped : device.names[n] = "silent"

\* A name published as declined was declined for itself, not for another in its chunk.
RefusedIsOwn == \A n \in refused \cup early : device.names[n] = "refused"

\* The keys measured are served without a session, unless a command made one while
\* they were measured.
MeasuredIsFree == fresh /\ ~crossed => measured \subseteq device.free

\* The pass ends, though names fail for ever and the deadline never comes.
Ends == <>(stage \in {"over", "aborted"})

\* What a pass publishes of a name is true of it: silent, declined or served to
\* anyone; and the state has its types.
VerdictsAreTrue == TypeOK /\ SilentIsSilent /\ RefusedIsOwn /\ MeasuredIsFree
=============================================================================
