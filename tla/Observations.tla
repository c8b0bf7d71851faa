---------------------------- MODULE Observations ----------------------------
(***************************************************************************)
(* What successive polls teach about one router and how it is kept           *)
(* (observations.py): the changes of a watched value, the entities that ever  *)
(* reported one, the baseline the user saved and how long sessions lasted.    *)
(* Two stores hold it, written one after the other, and a fault of either is  *)
(* never fatal.  Records are kept by device; until the first poll has named    *)
(* the device the recorder works under the entry's own id.                    *)
(***************************************************************************)
EXTENDS Integers, Sequences, FiniteSets

CONSTANTS Keys,          \* keys of the entity descriptions
          Payloads,      \* what polls answer: [found : SUBSET Keys, value]
          HistoryCap,    \* HISTORY_CAP
          Nil,           \* nothing saved, nothing reported
          Budgets        \* bounds: how many changes of the watched value, starts,
                         \* store faults, sessions that end and gestures of the
                         \* user one behaviour may have

ASSUME ObservationsAssumption ==
    /\ HistoryCap \in Nat \ {0} /\ Nil \notin BOOLEAN
    /\ \A p \in Payloads : p.found \subseteq Keys
    /\ Budgets \subseteq [changes : Nat, starts : Nat, faults : Nat,
                          lifetimes : Nat, gestures : Nat]

VARIABLES
    recorder,   \* the records in memory
    stored,     \* the two files
    writer,     \* the saves in flight, one of the poll and one of a service
    polled,     \* what the coordinator has: [data, success], and a poll's answer
                \* until it is published [next]
    lifetimes,  \* api.session_lifetimes
    left,       \* what is left of the budget
    told        \* what the router really said, for the properties

obsVars == <<recorder, stored, writer, polled, lifetimes, left, told>>

Ids == {"entry", "device"}
Writers == {"poll", "service"}
\* One device's part of the observed store, and one with nothing in it.
IsRecord(r) ==
    /\ r.populated \subseteq Keys
    /\ r.count \in Nat
    /\ r.snapshot = Nil \/ r.snapshot \in [DOMAIN r.snapshot -> BOOLEAN]
    /\ \A i \in 1..Len(r.lifetimes) : r.lifetimes[i] \in Nat
Blank == [populated |-> {}, count |-> 0, snapshot |-> Nil, lifetimes |-> <<>>]
NoRecords == [i \in Ids |-> Blank]
NoHistory == [i \in Ids |-> <<>>]

Mine == recorder.observed[recorder.device]
Series == recorder.history[recorder.device]
ever_populated == Mine.populated
snapshot == Mine.snapshot
session_lifetimes == Mine.lifetimes

Newest(s) == IF s = <<>> THEN Nil ELSE s[Len(s)]

Capped(s) == IF Len(s) > HistoryCap THEN Tail(s) ELSE s

-----------------------------------------------------------------------------
ObsInit ==
    /\ recorder = [device |-> "entry", history |-> NoHistory,
                   observed |-> NoRecords, faults |-> 0]
    /\ stored = [history |-> NoHistory, observed |-> NoRecords, faults |-> 0]
    /\ writer = [w \in Writers |-> "idle"]
    /\ polled = [data |-> Nil, success |-> TRUE, next |-> Nil]
    /\ lifetimes = <<>>
    /\ left \in Budgets
    /\ told = [value |-> Nil, changes |-> 0, kept |-> {}, reported |-> {},
               torn |-> FALSE, blind |-> FALSE, unread |-> FALSE, lost |-> FALSE]

\* Variant: the count is read off the capped series.
CountOfSeries(r, v) ==
    LET d == r.device
        series == r.history[d]
        grown == Capped(Append(series, v))
    IN  IF v = Nil \/ v = Newest(series) THEN r
        ELSE [r EXCEPT !.history[d] = grown,
                       !.observed[d].count = Len(grown) - 1]

\* The newest reading is a transition unless it is the one before it, and
\* counts as a change unless it is the first.
_observe_transitions(r, v) ==
    LET d == r.device
        series == r.history[d]
    IN  IF v = Nil \/ v = Newest(series) THEN r
        ELSE [r EXCEPT !.history[d] = Capped(Append(series, v)),
                       !.observed[d].count = IF series = <<>> THEN @ ELSE @ + 1]

\* Only ever added to.
_observe_populated(r, found) ==
    [r EXCEPT !.observed[r.device].populated = @ \union found]

observe(r, p) ==
    _observe_populated(_observe_transitions([r EXCEPT !.device = "device"], p.value),
                       p.found)

\* A poll that succeeds is folded into the records before its data is
\* published; they are saved when they changed, ahead of the lifetimes.
_observe(p) ==
    /\ writer["poll"] = "idle"
    /\ LET learned == observe(recorder, p)
           changed == told.value # Nil /\ p.value \notin {Nil, told.value}
       IN  /\ changed => left.changes > 0
           /\ recorder' = learned
           /\ writer' = [writer EXCEPT !["poll"] =
                  IF [learned EXCEPT !.device = recorder.device] # recorder
                  THEN "history" ELSE "lifetimes"]
           /\ told' = [told EXCEPT
                  !.changes = IF changed THEN @ + 1 ELSE @,
                  !.value = IF p.value = Nil THEN @ ELSE p.value,
                  !.reported = @ \union p.found]
           /\ left' = [left EXCEPT !.changes = IF changed THEN @ - 1 ELSE @]
           /\ polled' = [polled EXCEPT !.next = p]
    /\ UNCHANGED <<stored, lifetimes>>

\* A poll that fails teaches nothing and forgets nothing.
PollFails ==
    /\ writer["poll"] = "idle"
    /\ polled' = [polled EXCEPT !.success = FALSE]
    /\ UNCHANGED <<recorder, stored, writer, lifetimes, left, told>>

\* The two writes of async_save.  What is written is the record as it is then.
SavedHistory == [stored EXCEPT !.history = recorder.history]
SavedObserved ==
    [stored EXCEPT !.observed = recorder.observed, !.faults = recorder.faults]

AfterObserved(w) == IF w = "poll" THEN "lifetimes" ELSE "idle"

SaveHistory(w) ==
    /\ writer[w] = "history"
    /\ writer' = [writer EXCEPT ![w] = "observed"]
    /\ \/ /\ stored' = SavedHistory
          /\ told' = [told EXCEPT !.lost = @ \/ told.unread]
          /\ UNCHANGED left
       \/ /\ left.faults > 0
          /\ left' = [left EXCEPT !.faults = @ - 1]
          /\ told' = [told EXCEPT !.torn = TRUE]
          /\ UNCHANGED stored
    /\ UNCHANGED <<recorder, polled, lifetimes>>

SaveObserved(w) ==
    /\ writer[w] = "observed"
    /\ writer' = [writer EXCEPT ![w] = AfterObserved(w)]
    /\ \/ /\ stored' = SavedObserved
          /\ told' = [told EXCEPT !.kept = @ \union told.reported]
          /\ UNCHANGED left
       \/ /\ left.faults > 0
          /\ left' = [left EXCEPT !.faults = @ - 1]
          /\ told' = [told EXCEPT !.torn = TRUE]
          /\ UNCHANGED stored
    /\ UNCHANGED <<recorder, polled, lifetimes>>

\* _persist_session_lifetimes: what the client learned, when it differs; then
\* the poll's data is published.
_persist_session_lifetimes ==
    /\ writer["poll"] = "lifetimes"
    /\ IF lifetimes # <<>> /\ lifetimes # session_lifetimes
       THEN /\ recorder' = [recorder EXCEPT
                    !.observed[recorder.device].lifetimes = lifetimes]
            /\ writer' = [writer EXCEPT !["poll"] = "history"]
            /\ UNCHANGED polled
       ELSE /\ writer' = [writer EXCEPT !["poll"] = "idle"]
            /\ polled' = [polled EXCEPT !.data = polled.next, !.success = TRUE]
            /\ UNCHANGED recorder
    /\ UNCHANGED <<stored, lifetimes, left, told>>

\* The client sees a session end and remembers how long it lasted.
SessionEnds ==
    /\ left.lifetimes > 0
    /\ left' = [left EXCEPT !.lifetimes = @ - 1]
    /\ lifetimes' = Append(lifetimes, left.lifetimes)
    /\ UNCHANGED <<recorder, stored, writer, polled, told>>

\* async_load and the rest of the setup: each store is read or found
\* unreadable, which is counted; the count on disk is added to it.
Loaded(historyRead, observedRead) ==
    LET unread == (IF historyRead THEN 0 ELSE 1) + (IF observedRead THEN 0 ELSE 1)
    IN  [device |-> "entry",
         history |-> IF historyRead THEN stored.history ELSE NoHistory,
         observed |-> IF observedRead THEN stored.observed ELSE NoRecords,
         faults |-> unread + (IF observedRead THEN stored.faults ELSE 0)]

\* A restart, a reload or a crash at any point: what was not written is gone.
LoadFrom(budget) ==
    \E h, o \in BOOLEAN :
       LET unread == (IF h THEN 0 ELSE 1) + (IF o THEN 0 ELSE 1)
       IN  /\ unread <= left.faults
           /\ left' = [budget EXCEPT !.faults = @ - unread]
           /\ recorder' = Loaded(h, o)
           /\ lifetimes' = recorder'.observed["entry"].lifetimes
           /\ writer' = [w \in Writers |-> "idle"]
           /\ polled' = [data |-> Nil, success |-> TRUE, next |-> Nil]
           /\ told' = [told EXCEPT
                 !.unread = ~h /\ stored.history # NoHistory,
                 !.kept = IF o THEN @ ELSE {},
                 !.reported = IF o THEN told.kept ELSE {},
                 !.blind = @ \/ ~h \/ ~o,
                 !.torn = @ \/ \E w \in Writers : writer[w] \in {"history", "observed"}]
           /\ UNCHANGED stored

Start == left.starts > 0 /\ LoadFrom([left EXCEPT !.starts = @ - 1])

ObsNext ==
    \/ \E p \in Payloads : _observe(p)
    \/ PollFails
    \/ \E w \in Writers : SaveHistory(w) \/ SaveObserved(w)
    \/ _persist_session_lifetimes
    \/ SessionEnds
    \/ Start

-----------------------------------------------------------------------------
ObsTypeOK ==
    /\ recorder.device \in Ids
    /\ \A i \in Ids : /\ IsRecord(recorder.observed[i])
                      /\ Len(recorder.history[i]) <= HistoryCap
                      /\ IsRecord(stored.observed[i])
    /\ writer \in [Writers -> {"idle", "history", "observed", "lifetimes"}]
    /\ recorder.faults \in Nat /\ stored.faults \in Nat

\* Once an entity has reported a value and the record was written, no restart,
\* crash or failed poll makes it one that never did (the reset action's guard
\* rests on it, observations.py:17-21); only an unreadable store does.
Remembered ==
    /\ told.kept \subseteq stored.observed["device"].populated
    /\ recorder.device = "device" => told.reported \subseteq ever_populated

\* The counter of changes is exact, past the cap of the list too, over restarts
\* and reloads, as long as no save was cut short and no store failed.
Counted ==
    recorder.device = "device" /\ ~told.torn /\ ~told.blind
        => Mine.count = told.changes

\* A series that starts over because its file could not be read leaves its
\* trace in the count of faults, over restarts too (observations.py:216-222),
\* if the second write, which carries the count, came through.
LossIsTraced ==
    told.lost /\ ~told.torn /\ (\A w \in Writers : writer[w] # "observed")
        => stored.faults > 0 /\ recorder.faults > 0

=============================================================================
