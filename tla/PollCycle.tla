------------------------------ MODULE PollCycle ------------------------------
(***************************************************************************)
(* One poll after another: the mandatory read, the optional ones with        *)
(* strikes of their own, the login a rejected session gets, the success      *)
(* path, and the reads that still follow it under the same time limit; what   *)
(* a failure holds or gives up; the health verdict and the two repairs.       *)
(*                                                                         *)
(* Every request is a step, so options, commands, the repair's Fix button,    *)
(* unloading and crashes come between them.  What the router answers is free. *)
(***************************************************************************)
EXTENDS Integers, Sequences, FiniteSets

CONSTANTS
    Optional,           \* the optional endpoints, in the order they are read
    Provisioning,       \* ENDPOINT_PROVISIONING
    Limit,              \* FETCH_STRIKE_LIMIT
    UnreachableLimit,   \* UNREACHABLE_STRIKE_LIMIT
    MaxMoves            \* bound: what users, HA and crashes do

Range(s) == {s[i] : i \in DOMAIN s}
Endpoints == Range(Optional) \cup {Provisioning}
Repairs == {"conn_error", "auth_failed"}

ASSUME PollCycleConstants ==
    /\ Optional \in Seq(Range(Optional))
    /\ Provisioning \notin Range(Optional)
    /\ Limit \in Nat /\ UnreachableLimit \in Nat /\ UnreachableLimit > Limit
    /\ MaxMoves \in Nat

VARIABLES
    life,       \* the entry: "loaded", "unloading", "unloaded"
    options,    \* CONF_STOP_POLLING, and whether an outage window is open
    data,       \* coordinator.data: "none", "empty" or "values"
    up,         \* last_update_success
    stopped,    \* HA schedules no poll after ConfigEntryAuthFailed
    force,      \* _force_refresh_once
    poll,       \* the poll under way
    failures,   \* consecutive_failures, counted up to UnreachableLimit
    strikes,    \* _endpoint_failures, counted up to Limit + 1
    asked,      \* _last_provisioning_read is set
    health,     \* health_snapshot
    raised,     \* _unreachable_repair_raised, _auth_repair_raised
    card,       \* the repairs in Home Assistant's issue registry
    leftover,   \* those that a coordinator before this one raised
    moves

cycle == <<data, up, stopped, failures, health, raised, card, leftover>>
endpoint == <<strikes, asked>>
vars == <<life, options, force, poll, cycle, endpoint, moves>>

NoPoll == [at |-> "idle", next |-> 1, forced |-> FALSE, paused |-> FALSE,
           closing |-> FALSE, renewed |-> FALSE, clean |-> FALSE]

Healthy == [problem |-> FALSE, degraded |-> {}]

-----------------------------------------------------------------------------
(* Repairs and health. *)

\* _degraded_endpoints; the provisioning endpoint is left out of it.
Degraded == {e \in Range(Optional) : strikes[e] > Limit}

\* Both setters return at once when their flag says what they were asked.
SetRepairs(now) ==
    /\ raised' = now
    /\ card' = (card \cup (now \ raised)) \ (raised \ now)
    /\ leftover' = leftover \ ((now \ raised) \cup (raised \ now))

\* _record_health_success
HealthSuccess ==
    /\ SetRepairs({})
    /\ health' = [problem |-> Degraded # {}, degraded |-> Degraded]

\* _record_health_failure; "lockout": the login counters forbid a login.
HealthFailure(count, lockout) ==
    health' = [problem |-> \/ data = "none" \/ count >= Limit \/ lockout
                           \/ Degraded # {},
               degraded |-> Degraded]

-----------------------------------------------------------------------------
(* How a poll ends. *)

\* Once ended, only what it was is kept.
Ended == poll' = [NoPoll EXCEPT !.closing = poll.closing]

\* A closing poll that got as far as the success path ends its window.
Closes ==
    options' = IF poll.closing /\ poll.at \in {"provisioning", "observe"}
               THEN [options EXCEPT !.outage = FALSE] ELSE options

\* The closing poll of an outage window is exempt from counting.  (Polls that
\* a closing poll finds under way are in ExpectedOutage.)
Counted == ~poll.closing

Tally == IF failures < UnreachableLimit THEN failures + 1 ELSE failures

\* Variant: the last strike is not held.
HoldsLess(count) == data # "none" /\ (Counted => count < Limit)

\* What the failure counter and the error make of a poll that failed: the
\* values are held, or the cycle fails.
Holds(count) == data # "none" /\ (Counted => count <= Limit)

\* Variant: the bypass is taken whether or not polling is paused.
BypassAlways(err) == err = "other"

\* The startup bypass: under paused polling an error that is neither a timeout
\* nor the session's leaves empty data.
Bypass(err) == err = "other" /\ poll.paused

Fails(err) ==
    LET count == IF Counted THEN Tally ELSE failures
        rejected == err = "credentials" /\ ~Holds(count)
        auth == IF rejected THEN {"auth_failed"} ELSE {}
        conn == IF count >= UnreachableLimit THEN {"conn_error"} ELSE {}
    IN /\ failures' = count
       /\ IF Counted
          THEN /\ \E lockout \in BOOLEAN : HealthFailure(count, lockout)
               /\ SetRepairs((raised \ {"conn_error"}) \cup conn \cup auth)
          ELSE UNCHANGED health /\ SetRepairs(raised \cup auth)
       /\ up' = (Holds(count) \/ Bypass(err))
       /\ data' = IF ~Holds(count) /\ Bypass(err) THEN "empty" ELSE data
       /\ stopped' = rejected
       /\ Closes
       /\ Ended
       /\ UNCHANGED <<life, force, endpoint, moves>>

\* A rejected session is renewed once, by a login and all the reads anew; after
\* the success path, or the second time, the poll fails.
Rejected(err) ==
    IF poll.at \in {"core", "optional"} /\ ~poll.renewed
    THEN /\ poll' = [poll EXCEPT !.at = "login", !.clean = FALSE]
         /\ UNCHANGED <<life, options, force, cycle, endpoint, moves>>
    ELSE Fails(err)

Running == poll.at # "idle" /\ life # "unloaded"

\* The time limit stands over every wait of the poll.
TimesOut == Running /\ poll.at # "answered" /\ Fails("timeout")

-----------------------------------------------------------------------------
(* A poll, request by request. *)

\* Paused, or in an outage window, with something to show for it.
Skipped(closing) ==
    /\ data # "none" /\ ~closing
    /\ (options.paused /\ ~force) \/ options.outage

\* Home Assistant takes whatever the cycle returns for a success.
Shown == up' = TRUE /\ stopped' = FALSE

\* A scheduled, forced or closing poll.  The flag is consumed before anything.
PollBegins(closing) ==
    /\ life = "loaded" /\ poll.at = "idle"
    /\ closing => options.outage
    /\ closing \/ force \/ ~stopped
    /\ force' = FALSE
    /\ IF Skipped(closing)
       THEN Shown /\ UNCHANGED <<poll, data, failures, health, raised, card, leftover>>
       ELSE /\ poll' = [NoPoll EXCEPT !.at = "core", !.forced = force,
                                      !.paused = options.paused,
                                      !.closing = closing, !.clean = TRUE]
            /\ UNCHANGED cycle
    /\ UNCHANGED <<life, options, endpoint, moves>>

\* _fetch_all; the names it asks for are in PollPlan.
CoreReads ==
    /\ Running /\ poll.at = "core"
    /\ poll' = [poll EXCEPT !.at = IF Len(Optional) = 0 THEN "answered" ELSE "optional",
                            !.next = 1]
    /\ UNCHANGED <<life, options, force, cycle, endpoint, moves>>

CoreFails == Running /\ poll.at = "core" /\ Fails("other")

\* An optional endpoint, or the provisioning read, answers or fails alone.
NextRead == poll.at = "optional" /\ poll.next < Len(Optional)

Reading == IF poll.at = "provisioning" THEN Provisioning ELSE Optional[poll.next]

GoesOn(clean) ==
    poll' = [poll EXCEPT !.at = IF NextRead THEN "optional"
                                ELSE IF poll.at = "optional" THEN "answered" ELSE "observe",
                         !.next = IF NextRead THEN @ + 1 ELSE @,
                         !.clean = @ /\ clean]

EndpointReads ==
    /\ Running /\ poll.at \in {"optional", "provisioning"}
    /\ strikes' = [strikes EXCEPT ![Reading] = 0]
    /\ asked' = (asked \/ poll.at = "provisioning")
    /\ GoesOn(TRUE)
    /\ UNCHANGED <<life, options, force, cycle, moves>>

\* Variant: another endpoint is struck along with the one that failed.
EndpointFailsAll ==
    /\ Running /\ poll.at \in {"optional", "provisioning"}
    /\ strikes' = [e \in Endpoints |-> IF strikes[e] > Limit THEN strikes[e]
                                       ELSE strikes[e] + 1]
    /\ GoesOn(FALSE)
    /\ UNCHANGED <<life, options, force, cycle, asked, moves>>

EndpointFails ==
    /\ Running /\ poll.at \in {"optional", "provisioning"}
    /\ strikes' = [strikes EXCEPT ![Reading] = IF @ > Limit THEN @ ELSE @ + 1]
    /\ GoesOn(FALSE)
    /\ UNCHANGED <<life, options, force, cycle, asked, moves>>

\* ZTEAuthError passes every endpoint's containment; a login that is part of a
\* request may have had its password refused.
SessionRejected(err) ==
    /\ Running /\ poll.at \in {"core", "optional", "provisioning"}
    /\ Rejected(err)

LogsIn ==
    /\ Running /\ poll.at = "login"
    /\ poll' = [poll EXCEPT !.at = "core", !.renewed = TRUE]
    /\ UNCHANGED <<life, options, force, cycle, endpoint, moves>>

LoginFails(err) == Running /\ poll.at = "login" /\ Fails(err)

\* Variant: the repairs and the counter wait for the end of the cycle.
ResetsNot == UNCHANGED <<failures, health, raised, card, leftover>>

Resets == failures' = 0 /\ HealthSuccess

\* Hourly, when forced, and until it was answered once.
_read_provisioning ==
    \E due \in BOOLEAN :
        /\ poll.forced \/ ~asked => due
        /\ poll' = [poll EXCEPT !.at = IF due THEN "provisioning" ELSE "observe"]

\* The success path, then the provisioning read.
Answered ==
    /\ Running /\ poll.at = "answered"
    /\ Resets
    /\ _read_provisioning
    /\ UNCHANGED <<life, options, force, data, up, stopped, endpoint, moves>>

\* _observe: the payload becomes coordinator.data, or is lost with its save.
Observed ==
    /\ Running /\ poll.at = "observe"
    /\ data' = "values" /\ Shown
    /\ Closes
    /\ Ended
    /\ UNCHANGED <<life, force, failures, health, raised, card, leftover, endpoint, moves>>

ObserveFails == Running /\ poll.at = "observe" /\ Fails("other")

-----------------------------------------------------------------------------
(* Users, Home Assistant, crashes. *)

Moves == moves < MaxMoves /\ moves' = moves + 1

\* async_force_refresh
ForceRefresh ==
    /\ Moves /\ life = "loaded" /\ force' = TRUE
    /\ UNCHANGED <<life, options, poll, cycle, endpoint>>

OptionsChange ==
    /\ Moves
    /\ \/ options' = [options EXCEPT !.paused = ~@]
       \/ options' = [options EXCEPT !.outage = ~@]
    /\ UNCHANGED <<life, force, poll, cycle, endpoint>>

\* The Fix button: Home Assistant deletes the card, the coordinator's flag stays.
ConfirmFix ==
    /\ Moves /\ "auth_failed" \in card
    /\ card' = card \ {"auth_failed"} /\ leftover' = leftover \ {"auth_failed"}
    /\ UNCHANGED <<life, options, force, poll, data, up, stopped, failures, health,
                   raised, endpoint>>

\* clear_repairs, then the logout, during which a poll in flight goes on.  Once
\* polling has stopped for the password, a reauth reloads the entry.
UnloadBegins ==
    /\ Moves \/ (stopped /\ UNCHANGED moves)
    /\ life = "loaded" /\ life' = "unloading"
    /\ raised' = {} /\ card' = {} /\ leftover' = {}
    /\ UNCHANGED <<options, force, poll, data, up, stopped, failures, health,
                   endpoint>>

UnloadEnds ==
    /\ life = "unloading" /\ life' = "unloaded"
    /\ poll' = NoPoll
    /\ UNCHANGED <<options, force, cycle, endpoint, moves>>

\* A new coordinator; a window is the API client's, and goes with it.
Fresh ==
    /\ life' = "loaded"
    /\ options' = [options EXCEPT !.outage = FALSE]
    /\ data' = "none" /\ up' = FALSE /\ stopped' = FALSE /\ force' = FALSE
    /\ poll' = NoPoll /\ failures' = 0
    /\ strikes' = [e \in Endpoints |-> 0] /\ asked' = FALSE
    /\ health' = Healthy /\ raised' = {}

SetUp ==
    /\ life = "unloaded"
    /\ Fresh
    /\ leftover' = card
    /\ UNCHANGED <<card, moves>>

\* Only the auth repair is persistent.
Crash ==
    /\ Moves
    /\ Fresh
    /\ card' = card \cap {"auth_failed"} /\ leftover' = card'

Init ==
    /\ life = "loaded"
    /\ options \in [paused : BOOLEAN, outage : {FALSE}]
    /\ data = "none" /\ up = FALSE /\ stopped = FALSE /\ force = FALSE
    /\ poll = NoPoll /\ failures = 0
    /\ strikes = [e \in Endpoints |-> 0] /\ asked = FALSE
    /\ health = Healthy /\ raised = {} /\ card = {} /\ leftover = {} /\ moves = 0

Begins == \E closing \in BOOLEAN : PollBegins(closing)

Next ==
    \/ Begins \/ CoreReads \/ CoreFails
    \/ EndpointReads \/ EndpointFails
    \/ \E err \in {"auth", "credentials"} : SessionRejected(err)
    \/ LogsIn \/ \E err \in {"auth", "credentials", "other"} : LoginFails(err)
    \/ Answered \/ Observed \/ ObserveFails \/ TimesOut
    \/ ForceRefresh \/ OptionsChange \/ ConfirmFix \/ UnloadBegins \/ UnloadEnds
    \/ SetUp \/ Crash

Spec == Init /\ [][Next]_vars

\* Polls are scheduled, end within their time limit, and unloading ends; and of
\* the polls, whatever becomes of the others, one is answered throughout at last.
CleanCore == CoreReads /\ poll.clean
CleanRead(e) == EndpointReads /\ poll.clean /\ Reading = e
CleanAnswer == Answered /\ poll.clean
CleanEnd == Observed /\ poll.clean
FairSpec ==
    /\ Spec
    /\ WF_vars(Begins) /\ WF_vars(Answered) /\ WF_vars(TimesOut)
    /\ WF_vars(UnloadEnds) /\ WF_vars(SetUp)
    /\ SF_vars(CleanCore) /\ \A e \in Endpoints : SF_vars(CleanRead(e))
    /\ SF_vars(CleanAnswer) /\ SF_vars(CleanEnd)

-----------------------------------------------------------------------------
(* Properties. *)

Poll == [at : {"idle", "core", "login", "optional", "answered", "provisioning",
               "observe"},
         next : Nat, forced : BOOLEAN, paused : BOOLEAN, closing : BOOLEAN, renewed : BOOLEAN,
         clean : BOOLEAN]

\* Every variable has its type, and a poll reads an endpoint there is.
TypeOK ==
    /\ life \in {"loaded", "unloading", "unloaded"}
    /\ options \in [paused : BOOLEAN, outage : BOOLEAN]
    /\ data \in {"none", "empty", "values"} /\ up \in BOOLEAN
    /\ stopped \in BOOLEAN /\ force \in BOOLEAN
    /\ poll \in Poll
    /\ poll.at = "optional" => poll.next \in DOMAIN Optional
    /\ failures \in 0..UnreachableLimit
    /\ strikes \in [Endpoints -> 0..Limit + 1] /\ asked \in BOOLEAN
    /\ health \in [problem : BOOLEAN, degraded : SUBSET Endpoints]
    /\ raised \subseteq Repairs /\ card \subseteq Repairs /\ leftover \subseteq card
    /\ moves \in 0..MaxMoves

\* The registry shows the repairs this coordinator believes it has raised, and
\* no others but those left from before a crash, or raised by a poll that went
\* on while its entry was unloaded; and the unreachable repair stands exactly
\* while that many polls were missed.
OwnCards ==
    life = "loaded" =>
        /\ card \ leftover \subseteq raised
        /\ "conn_error" \in raised <=> failures >= UnreachableLimit
        /\ "conn_error" \in raised => "conn_error" \in card

\* endpoint_available: what an endpoint feeds can be read.
Available(e) == up /\ strikes[e] <= Limit

\* Nothing becomes unavailable in silence: when no poll is under way and all the
\* entities, or those of one endpoint, are unavailable, the health verdict says
\* so, whichever request failed and whatever failed after it; save after a
\* closing poll, which tells nobody of what it lost.
NoSilentLoss ==
    life = "loaded" /\ poll.at = "idle" /\ ~poll.closing =>
        /\ ~up => health.problem \/ data = "none"
        /\ \A e \in Range(Optional) : up /\ ~Available(e) => e \in health.degraded

\* Values once read are replaced by nothing only by a forced poll that failed
\* under paused polling, with no strikes left.
ValuesKept ==
    [][data = "values" /\ data' = "empty" =>
          poll.paused /\ poll.forced /\ failures' > Limit]_vars

\* The cycle keeps the promise made of a router that does not answer.
Reach == INSTANCE Reachability
    WITH missed <- failures, known <- data # "none", card <- "conn_error" \in raised
KeepsPromise == Reach!Spec

\* As long as polls are wanted and the router answers one throughout now and
\* again, the entities come back and the verdict and the repair are withdrawn.
Wanted == life = "loaded" /\ ~options.paused /\ ~options.outage /\ ~stopped
Recovers ==
    <>[]Wanted => []<>(up /\ data = "values" /\ ~health.problem /\ raised = {})

\* The state between two steps is sound: it has its types, the repairs shown are
\* the coordinator's own, and no loss of values is silent.
LossIsShown == TypeOK /\ OwnCards /\ NoSilentLoss
=============================================================================
