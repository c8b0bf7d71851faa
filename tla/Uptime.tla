------------------------------- MODULE Uptime -------------------------------
(***************************************************************************)
(* The two start instants the integration shows: when the router booted and  *)
(* when its data session began.  Each is derived once from a counter, held    *)
(* in a latch, and derived again only when the counter shows a restart: by    *)
(* falling, by having fallen short across a stop of Home Assistant, or by     *)
(* disagreeing with the instant held.                                        *)
(*                                                                         *)
(* Time is in steps of 30 s.  The router's counters keep wall time; what the  *)
(* latch learns of their rate is modelled, and the restarts nobody saw are    *)
(* what disturbs it.  The rate's accumulators are not capped (30 days) and    *)
(* no counter is rejected as implausible (ten years).                        *)
(***************************************************************************)
EXTENDS Integers, FiniteSets

CONSTANTS
    Start,          \* the instant at which a behaviour begins
    Boots,          \* the instants before it at which the router may have booted
    Gaps,           \* by how much time may pass
    RebootMargin, MinInterval, MinAccumulated, MarginFloor, WriteInterval,
    SaveDelay,      \* the code's constants, in steps
    MaxTicks,       \* bounds: steps of time,
    MaxEvents       \* and restarts, reconnects and stops

ASSUME UptimeConstants ==
    /\ Start \in Nat \ {0} /\ Boots \subseteq 0..Start /\ Gaps \subseteq Nat \ {0}
    /\ {RebootMargin, MinInterval, MinAccumulated, MarginFloor, WriteInterval,
        SaveDelay} \subseteq Nat \ {0}
    /\ MaxTicks \in Nat /\ MaxEvents \in Nat

VARIABLES
    now,
    host,       \* rtc: the host's clock survives a stop; set: it is set now
    router,     \* boot, sess: when it booted and its data session began;
                \* total: it reports Total Connected Time, whose baseline is in the
                \* store as well (the baseline itself is not modelled)
    on,         \* Home Assistant runs the integration
    source,     \* _uptime_source of this run
    mem,        \* the latches
    entry,      \* entry.data: the instants, and uptime_source
    disk,       \* the uptime store's file
    saves,      \* the delayed saves armed: this run's, and those of the age-th
                \* run before it
    excused,    \* history: why an instant may be wrong.  untold: no reading could
                \* show the restart, and the rate it taught may be on disk ever
                \* after; deferred: a latch that started afresh could not derive
                \* it, the clock being unset
    polled,     \* there was a poll at this instant
    ticks, events

uptimeVars == <<now, host, router, on, source, mem, entry, disk, saves, excused, polled, ticks, events>>

Latches == {"system", "conn"}
None == -1

Larger(a, b) == IF a > b THEN a ELSE b

-----------------------------------------------------------------------------
(* A latch, and the judgements made of one reading s taken at t. *)

Fresh == [boot |-> None, last |-> None, lastAt |-> None, ready |-> FALSE,
          stored |-> None, storedAt |-> None, wroteAt |-> None, wall |-> 0, counter |-> 0]

\* _drift_rate, as the fraction of wall time the counter makes: 1 until known.
Known(l) == l.wall >= MinAccumulated
Num(l) == IF ~Known(l) THEN 1 ELSE IF 5 * l.counter < 4 * l.wall THEN 4 ELSE IF 5 * l.counter > 6 * l.wall THEN 6 ELSE l.counter
Den(l) == IF ~Known(l) THEN 1 ELSE IF 5 * l.counter < 4 * l.wall \/ 5 * l.counter > 6 * l.wall THEN 5 ELSE l.wall

Derived(l, s, t) == (t * Num(l) - s * Den(l)) \div Num(l)

\* One interval between two readings; a fall says nothing of the rate.
Sampled(l, s, t) ==
    IF l.last = None \/ t - l.lastAt < MinInterval \/ s <= l.last THEN l
    ELSE [l EXCEPT !.wall = @ + (t - l.lastAt), !.counter = @ + (s - l.last)]

Write(l, s, t) == [l EXCEPT !.stored = s, !.storedAt = t, !.wroteAt = t]

\* _latch_boot_time: the new instant is written at once.
Latched(l, s, t) == Write([l EXCEPT !.boot = Derived(l, s, t)], s, t)

Drops(l, s) == l.last # None /\ s < l.last - RebootMargin

\* Variant: the counter is compared with the stored one alone.
ShortOnly(l, s, t) == s < l.stored

\* _shortfall_test: expected less a margin of 2 %, at least five minutes.
Short(l, s, t) ==
    LET elapsed == t - l.storedAt
    IN 50 * s * Den(l) < 50 * (l.stored * Den(l) + elapsed * Num(l))
                          - Den(l) * Larger(50 * MarginFloor, elapsed)

ColdImplausible(l, s, t) ==
    LET elapsed == t - l.boot
    IN l.boot = None \/ elapsed <= 0 \/ 5 * s < 4 * elapsed \/ 5 * s > 6 * elapsed

\* The first reading of a run.
Reconciled(l, s, t) ==
    LET restarted ==
            IF l.stored # None /\ t >= l.storedAt THEN Short(l, s, t)
            ELSE ColdImplausible(l, s, t)
    IN [(IF restarted THEN Latched(l, s, t) ELSE l) EXCEPT !.ready = TRUE]

\* Variant: an earlier instant is taken as well.
MovesEither(l, s, t) ==
    LET elapsed == t - l.boot
        off == s * Den(l) - elapsed * Num(l)
    IN /\ Known(l) /\ l.boot # None /\ elapsed > 0
       /\ 20 * (IF off < 0 THEN -off ELSE off) > elapsed * Den(l)

\* _check_anchor_plausible: only ever to a later instant.
Moves(l, s, t) ==
    LET elapsed == t - l.boot
        off == s * Den(l) - elapsed * Num(l)
    IN /\ Known(l) /\ l.boot # None /\ elapsed > 0
       /\ 20 * (IF off < 0 THEN -off ELSE off) > elapsed * Den(l)
       /\ Derived(l, s, t) > l.boot

Judged(l, s, t) == IF Moves(l, s, t) THEN Latched(l, s, t) ELSE l

\* Variant: the counter is written only when an instant is.
PersistedSeldom(l, s, t) == l

\* _maybe_persist_counter.
Persisted(l, s, t) ==
    IF l.wroteAt # None /\ t - l.wroteAt < WriteInterval THEN l ELSE Write(l, s, t)

\* _apply_uptime, of a reading that counts.
Applied(l, s, t) ==
    LET sampled == Sampled(l, s, t)
        tested == IF ~sampled.ready THEN Reconciled(sampled, s, t)
                  ELSE IF Drops(sampled, s) THEN Latched(sampled, s, t) ELSE sampled
    IN Persisted([Judged(tested, s, t) EXCEPT !.last = s, !.lastAt = t], s, t)

-----------------------------------------------------------------------------
(* What a poll reads. *)

System == now - router.boot
Session == IF router.sess = None THEN 0 ELSE now - router.sess

\* _device_uptime_raw: one key is kept for the run; a key other than the saved
\* one makes the latch start afresh.
Chosen(blank) ==
    IF source # "none" THEN [key |-> source, afresh |-> FALSE]
    ELSE LET key == IF ~blank THEN "system"
                    ELSE IF Session > 0 THEN "session" ELSE "none"
         IN [key |-> key, afresh |-> key # "none" /\ key # entry.source]

\* A latch that reads another key than before starts afresh.
_reset_system_latch(ls) == [ls EXCEPT !["system"] = Fresh]

\* Readings that count; a session's counter at 0 means that there is none.
Reading(k, key, blank) ==
    IF k = "system" /\ key = "system" THEN IF blank THEN None ELSE System
    ELSE IF k = "system" /\ key = "none" THEN None
    ELSE IF Session = 0 THEN None ELSE Session

\* Where the counter of a latch began.
Began(k, key) == IF k = "system" /\ key = "system" THEN router.boot ELSE router.sess

\* No reading shows a restart after which the counter has again passed where it
\* was, nor one that cost less than the margin across a stop.
Untold(l, s, t) ==
    IF l.ready THEN l.last # None /\ t - s # l.lastAt - l.last /\ s >= l.last - RebootMargin
    ELSE IF l.stored # None
         THEN /\ t - s > l.storedAt - l.stored
              /\ 50 * (t - s - (l.storedAt - l.stored))
                     <= Larger(50 * MarginFloor, t - l.storedAt)
         ELSE l.boot # None /\ l.boot < t - s /\ 5 * s >= 4 * (t - l.boot)

-----------------------------------------------------------------------------
(* Saving: a delayed save is pushed back by every call made before it runs. *)

Record(ls) == [k \in Latches |-> [stored |-> ls[k].stored, storedAt |-> ls[k].storedAt,
                                  wall |-> ls[k].wall, counter |-> ls[k].counter]]

Mine == {s \in saves : s.age = 0}

\* live: the record is made when the save runs.
Armed(live, ls) ==
    (saves \ Mine) \cup
        {[due |-> now + SaveDelay, age |-> 0, live |-> live, rec |-> Record(ls),
          since |-> IF Mine = {} THEN now ELSE (CHOOSE s \in Mine : TRUE).since]}

_apply_uptime_readings(blank) ==
    /\ on /\ ~polled
    /\ LET chosen == Chosen(blank)
           before == IF chosen.afresh THEN _reset_system_latch(mem) ELSE mem
           reads == [k \in Latches |-> Reading(k, chosen.key, blank)]
           counts == {k \in Latches : reads[k] # None /\ host.set}
           after == [k \in Latches |-> IF k \in counts THEN Applied(before[k], reads[k], now)
                                       ELSE before[k]]
           wrote == \E k \in counts : after[k].storedAt = now
       IN /\ source' = chosen.key
          /\ mem' = after
          /\ entry' = [source |-> IF chosen.key = "none" THEN entry.source ELSE chosen.key,
                       boot |-> [k \in Latches |-> IF after[k].boot = None
                                                   THEN entry.boot[k] ELSE after[k].boot]]
          /\ saves' = IF router.total THEN Armed(TRUE, after)
                      ELSE IF wrote THEN Armed(FALSE, after) ELSE saves
          /\ excused' = [k \in Latches |->
                (IF k = "system" /\ chosen.afresh
                 THEN (excused[k] \cap {"untold"}) \cup IF host.set THEN {} ELSE {"deferred"}
                 ELSE excused[k])
                \cup IF k \in counts /\ Untold(before[k], reads[k], now)
                     THEN {"untold"} ELSE {}]
    /\ polled' = TRUE
    /\ UNCHANGED <<now, host, router, on, disk, ticks, events>>

\* What a save writes: the record of its call, or the latches as they are.
Written(s) == IF s.live THEN Record(mem) ELSE s.rec

\* Time passes; the saves that fall due run.
Tick(gap) ==
    /\ ticks < MaxTicks /\ ticks' = ticks + 1
    /\ now' = now + gap
    /\ LET ran == {s \in saves : s.due <= now + gap}
           final == CHOOSE s \in ran : \A r \in ran : r.age >= s.age
       IN /\ saves' = saves \ ran
          /\ disk' = IF ran = {} THEN disk ELSE Written(final)
    /\ polled' = FALSE
    /\ UNCHANGED <<host, router, on, source, mem, entry, excused, events>>

-----------------------------------------------------------------------------
(* Starting and stopping. *)

Event == events < MaxEvents /\ events' = events + 1

\* The constructor, then async_load_stored_uptime: a counter without an instant
\* is dropped.
Loaded(k) ==
    LET rec == disk[k]
        kept == entry.boot[k] # None
    IN [Fresh EXCEPT !.boot = entry.boot[k], !.wall = rec.wall, !.counter = rec.counter,
                     !.stored = IF kept THEN rec.stored ELSE None,
                     !.storedAt = IF kept THEN rec.storedAt ELSE None]

Begin == on' = TRUE /\ source' = "none" /\ polled' = FALSE /\ mem' = [k \in Latches |-> Loaded(k)]

\* A reload leaves the save of the coordinator before it armed.
Reload ==
    /\ Event /\ on /\ Begin
    /\ saves' = {[s EXCEPT !.age = @ + 1, !.live = FALSE, !.rec = Written(s)] : s \in saves}
    /\ UNCHANGED <<now, host, router, entry, disk, excused, ticks>>

\* An orderly stop runs the pending save; a crash loses it.
Stop(orderly) ==
    /\ Event /\ on
    /\ on' = FALSE /\ saves' = {}
    /\ disk' = IF orderly /\ Mine # {} THEN Written(CHOOSE s \in Mine : TRUE) ELSE disk
    /\ UNCHANGED <<now, host, router, source, mem, entry, excused, polled, ticks>>

\* A host without a battery-backed clock starts with it unset.
StartUp ==
    /\ ~on /\ Begin
    /\ host' = [host EXCEPT !.set = host.rtc]
    /\ UNCHANGED <<now, router, entry, disk, saves, excused, ticks, events>>

ClockSet ==
    /\ ~host.set /\ host' = [host EXCEPT !.set = TRUE]
    /\ UNCHANGED <<now, router, on, source, mem, entry, disk, saves, excused, polled, ticks, events>>

Reboot ==
    /\ Event /\ router.boot < now
    /\ router' = [router EXCEPT !.boot = now, !.sess = now]
    /\ UNCHANGED <<now, host, on, source, mem, entry, disk, saves, excused, polled, ticks>>

DataOff ==
    /\ Event /\ router.sess # None
    /\ router' = [router EXCEPT !.sess = None]
    /\ UNCHANGED <<now, host, on, source, mem, entry, disk, saves, excused, polled, ticks>>

DataOn ==
    /\ router.sess = None /\ router' = [router EXCEPT !.sess = now]
    /\ UNCHANGED <<now, host, on, source, mem, entry, disk, saves, excused, polled, ticks, events>>

UptimeInit ==
    /\ now = Start /\ host \in [rtc : BOOLEAN, set : {TRUE}]
    /\ \E b \in Boots : router \in [boot : {b}, sess : {s \in Boots : s >= b}, total : BOOLEAN]
    /\ on = TRUE /\ source = "none" /\ mem = [k \in Latches |-> Fresh]
    /\ entry = [source |-> "none", boot |-> [k \in Latches |-> None]]
    /\ disk = Record(mem) /\ saves = {}
    /\ excused = [k \in Latches |-> {}] /\ polled = FALSE /\ ticks = 0 /\ events = 0

UptimeNext ==
    \/ \E blank \in BOOLEAN : _apply_uptime_readings(blank)
    \/ \E gap \in Gaps : Tick(gap)
    \/ Reload \/ StartUp \/ ClockSet \/ Reboot \/ DataOff \/ DataOn
    \/ \E orderly \in BOOLEAN : Stop(orderly)

UptimeSpec == UptimeInit /\ [][UptimeNext]_uptimeVars

-----------------------------------------------------------------------------
(* Properties. *)

\* A latch holds instants and counters that have been, one save is this run's.
UptimeTypeOK ==
    /\ host \in [rtc : BOOLEAN, set : BOOLEAN] /\ on \in BOOLEAN
    /\ router \in [boot : 0..now, sess : None..now, total : BOOLEAN]
    /\ source \in {"none", "system", "session"}
    /\ \A k \in Latches :
          /\ mem[k].last # None => mem[k].last <= mem[k].lastAt /\ mem[k].lastAt <= now
          /\ mem[k].stored # None => mem[k].stored <= mem[k].storedAt
          /\ mem[k].counter <= mem[k].wall
    /\ Cardinality(Mine) <= 1
    /\ excused \in [Latches -> SUBSET {"untold", "deferred"}]

\* Once a reading has been taken of the counter's present run, the instant held
\* is the one it began at, across restarts of the router and of Home Assistant,
\* lost saves, blank answers and data being off; the exceptions are restarts no
\* reading can show.
InstantRight ==
    \A k \in Latches :
        on /\ mem[k].ready /\ excused[k] = {} /\ mem[k].lastAt - mem[k].last = Began(k, source)
            => mem[k].boot = Began(k, source)

\* No instant is later than the counter's present beginning, not even one derived
\* with a wrong rate; and none is that of the other counter, unless the clock was
\* unset when the latch changed to it.
NeverLate ==
    \A k \in Latches :
        on /\ mem[k].ready /\ "deferred" \notin excused[k] /\ Began(k, source) # None => mem[k].boot <= Began(k, source)

\* Within a run an instant only moves forward: no restart is dated before the one
\* shown until then, unless that one is of another counter (deferred).
NeverBack ==
    [][\A k \in Latches :
          /\ on /\ mem[k].ready /\ mem'[k].ready /\ source' = source /\ on'
          /\ "deferred" \notin excused[k]
          => mem'[k].boot >= mem[k].boot]_uptimeVars

\* What a crash leaves on disk is at most an interval older than the last
\* reading, once the save's delay has passed, and a save waits no longer than
\* its delay.
DiskHolds ==
    on /\ Mine = {} =>
        \A k \in Latches : mem[k].ready =>
            disk[k].storedAt # None /\ disk[k].storedAt > mem[k].lastAt - WriteInterval
NoneWaits == \A s \in saves : now - s.since <= SaveDelay
DiskFresh == DiskHolds /\ NoneWaits

\* An instant held is the counter's own beginning wherever a reading can show
\* it, and never later than that; and the state has its types.
InstantKept == UptimeTypeOK /\ InstantRight /\ NeverLate
=============================================================================
