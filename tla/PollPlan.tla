------------------------------- MODULE PollPlan -------------------------------
(***************************************************************************)
(* Which names a poll asks the router for.  A narrowed poll asks for what    *)
(* has answered on this firmware and for a rotating share of what has not; a *)
(* full poll asks for everything an enabled entity reads.  A full poll is    *)
(* owed for a reason and stays owed until one succeeds.  A poll lasts: its    *)
(* names are chosen at its start, and what it taught is learned at its end,  *)
(* with requests, restarts and changes of the router in between.             *)
(*                                                                         *)
(* Names are numbered in the order of the universe.  An entity takes the     *)
(* first of its spellings that is not blank and, once it has a value, also   *)
(* reads what stands behind it.  The router answers a name with nothing, a   *)
(* value its entity accepts ("good") or one that it rejects ("bad").         *)
(***************************************************************************)
EXTENDS Integers, FiniteSets

CONSTANTS
    N,              \* names in the universe
    Core,           \* those of get_all_data; the others are the extended half
    Always,         \* names read outside any entity
    FiveG,          \* names of the 5G prefix families
    Entities,
    Spellings,      \* Spellings[e]: the alias tuple an entity walks
    Behind,         \* Behind[e]: what it reads only once it has a value
    Firmwares,
    None,
    Gives,          \* Gives[f][n]: what firmware f answers, with 5G attached
    FullEvery,      \* FULL_POLL_EVERY
    Rotation,       \* ROTATION
    StrikeLimit,    \* FETCH_STRIKE_LIMIT
    Requests,       \* who asks for a full poll: Refresh Now, a download
    MaxMoves        \* bound: restarts and changes of router or registry

Names == 1..N
Values == {"", "bad", "good"}
Blank == [n \in Names |-> ""]
Reasons == {"first poll", "refresh now", "diagnostics download",
            "firmware changed", "reboot", "data connection returned"}

ASSUME PollPlanConstants ==
    /\ N \in Nat \ {0}
    /\ Core \subseteq Names /\ Always \subseteq Names /\ FiveG \subseteq Names
    /\ Spellings \in [Entities -> SUBSET Names]
    /\ Behind \in [Entities -> SUBSET Names]
    /\ None \notin Firmwares
    /\ Gives \in [Firmwares -> [Names -> Values]]
    /\ FullEvery \in Nat \ {0} /\ Rotation \in Nat \ {0}
    /\ FullEvery % Rotation = 0
    /\ Requests \subseteq {"refresh now", "diagnostics download"}
    /\ StrikeLimit \in Nat /\ MaxMoves \in Nat

VARIABLES
    router,     \* the firmware it runs and whether 5G is attached
    registry,   \* the entities disabled in the entity registry
    pending,    \* changes the next poll will see against the one before it
    answered, reads, disabled, polls, reasons, sweep, last5g,     \* PollPlan
    clock,      \* last_full: not set, less than a day ago, or a day or more
    firmware,   \* _poll_firmware
    strikes,    \* _endpoint_failures of the extended half
    cache,      \* _endpoint_cache of the extended half
    poll,       \* the poll under way
    store,      \* the stored record
    dirty,      \* whether its delayed save is armed
    moves

plan == <<answered, reads, disabled, polls, reasons, sweep, last5g, clock, firmware>>
endpoint == <<strikes, cache>>
world == <<router, registry, pending, moves>>
vars == <<world, plan, endpoint, poll, store, dirty>>

-----------------------------------------------------------------------------
(* What entities read, and what the plan makes of it. *)

\* get_first walks the spellings up to the first that is not blank.
Reached(e, n, data) ==
    n \in Spellings[e] /\ \A m \in Spellings[e] : m < n => data[m] = ""

Takes(e, n, data) == Reached(e, n, data) /\ data[n] # ""

Accepts(e, data) == \E n \in Names : Takes(e, n, data) /\ data[n] = "good"

ReadsOf(e, data) ==
    {n \in Names : \/ Reached(e, n, data)
                   \/ n \in Behind[e] /\ \E m \in Names : Takes(e, m, data)}

\* Readers are recorded against an empty payload and against the poll's.
LearnReaders(known, data) ==
    [e \in Entities |-> known[e] \cup Spellings[e] \cup ReadsOf(e, data)]

Consumers(known, n) == {e \in Entities : n \in known[e]}

\* A name no entity reads counts on any value; the others count where an
\* entity that read them accepted its value.
Taught(known, data) ==
    {n \in Names :
        /\ data[n] # ""
        /\ \/ Consumers(known, n) = {}
           \/ \E e \in Entities : Accepts(e, data) /\ n \in ReadsOf(e, data)}

-----------------------------------------------------------------------------
(* PollPlan.names *)

Due == \/ reasons # {}
       \/ polls # 0 /\ polls % FullEvery = 0
       \/ clock = "day"

Attributed(n) == n \notin Always /\ Consumers(reads, n) # {}
Live(n) == Consumers(reads, n) \ disabled
Resolved(e) == reads[e] \cap answered # {}

\* What a full poll asks; the one for a download also asks what only disabled
\* entities read.
Everything(every) == {n \in Names : Attributed(n) => every \/ Live(n) # {}}

Unresolved ==
    {n \in Names : /\ Attributed(n) /\ Live(n) # {} /\ n \notin answered
                   /\ \E e \in Live(n) : ~Resolved(e)}
Swept == IF sweep THEN Unresolved \cap FiveG ELSE {}

\* Every Rotation-th of the unresolved, counted in the order of the universe.
Turn == LET rest == Unresolved \ Swept
        IN {n \in rest :
               Cardinality({m \in rest : m < n}) % Rotation = polls % Rotation}

Narrowed == {n \in Names : Attributed(n) => Live(n) # {} /\ n \in answered}
                \cup Swept \cup Turn

Every == Due /\ "diagnostics download" \in reasons

Idle == [stage |-> "idle", full |-> FALSE, every |-> FALSE, again |-> FALSE,
         asked |-> {}, data |-> Blank, events |-> {}, late |-> {}]

Chosen(again) ==
    [Idle EXCEPT !.stage = "asking", !.full = Due, !.every = Every, !.again = again,
                 !.asked = IF Due THEN Everything(Every) ELSE Narrowed]

\* The daily clock starts at the first poll that owes nothing.
Choose(again) ==
    /\ poll' = Chosen(again)
    /\ clock' = IF reasons = {} /\ clock = "unset" THEN "today" ELSE clock
    /\ UNCHANGED <<world, answered, reads, disabled, polls, reasons, sweep, last5g,
                   firmware, endpoint, store, dirty>>

PollStarts ==
    /\ poll.stage = "idle"
    /\ Choose(FALSE)

\* The session was rejected: the coordinator logs in, and asks anew, once.
PollStartsAgain ==
    /\ poll.stage # "idle" /\ ~poll.again
    /\ Choose(TRUE)

-----------------------------------------------------------------------------
(* What the router answers. *)

Now(n) == IF n \in FiveG /\ ~router.nr THEN "" ELSE Gives[router.runs][n]

Answer(n) == IF n \in poll.asked THEN Now(n) ELSE ""

CoreHalf == [n \in Names |-> IF n \in Core THEN Answer(n) ELSE ""]

\* The poll's payload, the core half over the extended one, and with it the
\* changes it will show against the poll before.
Answered(extended) ==
    poll' = [poll EXCEPT !.stage = "answered",
                         !.data = [n \in Names |-> IF n \in Core THEN CoreHalf[n]
                                                   ELSE extended[n]],
                         !.events = pending]

RouterAnswers ==
    /\ poll.stage = "asking"
    /\ LET extended == [n \in Names |-> IF n \in Core THEN "" ELSE Answer(n)]
       IN Answered(extended) /\ cache' = extended
    /\ strikes' = 0
    /\ UNCHANGED <<world, plan, store, dirty>>

\* The extended half fails alone: it holds its last good payload while it has
\* strikes left.  Counting stops where the count makes no more difference.
ExtendedFails ==
    /\ poll.stage = "asking" /\ poll.asked \ Core # {}
    /\ strikes' = IF strikes > StrikeLimit THEN strikes ELSE strikes + 1
    /\ Answered(IF strikes' <= StrikeLimit THEN cache ELSE Blank)
    /\ UNCHANGED <<world, plan, cache, store, dirty>>

\* A failed poll teaches nothing and clears nothing.
PollFails ==
    /\ poll.stage # "idle"
    /\ poll' = Idle
    /\ UNCHANGED <<world, plan, endpoint, store, dirty>>

-----------------------------------------------------------------------------
(* _update_poll_plan *)

\* Neither a failure of the extended half nor its held payload counts, until
\* its strikes are spent.
Fresh == strikes = 0 \/ strikes > StrikeLimit

\* The core half of the payload names the firmware that answered it.
NewFirmware == firmware # None /\ firmware # router.runs

Owed == reasons \cup poll.events
            \cup (IF NewFirmware THEN {"firmware changed"} ELSE {})

\* Variant: names learned on another firmware are kept.
KeptAlways == answered

Kept == IF NewFirmware THEN {} ELSE answered

\* Readers behind a condition are learned from a full poll alone.
NowReads == IF poll.full THEN LearnReaders(reads, poll.data) ELSE reads

\* Variant: what the registry no longer disables is not taken off.
LearnDisabledOnly ==
    IF Fresh
    THEN /\ reads' = NowReads
         /\ answered' = Kept \cup Taught(NowReads, poll.data)
         /\ disabled' = disabled \cup registry
         /\ dirty' = (dirty \/ ~(Taught(NowReads, poll.data) \subseteq Kept))
    ELSE /\ answered' = Kept
         /\ UNCHANGED <<reads, disabled, dirty>>

Learn ==
    IF Fresh
    THEN /\ reads' = NowReads
         /\ answered' = Kept \cup Taught(NowReads, poll.data)
         /\ disabled' = registry
         /\ dirty' = (dirty \/ ~(Taught(NowReads, poll.data) \subseteq Kept))
    ELSE /\ answered' = Kept
         /\ UNCHANGED <<reads, disabled, dirty>>

\* Variant: a full poll counts whatever answered it.
ServedAnyhow == poll.full

\* after_poll: a full poll counts only on a fresh answer.
Served == poll.full /\ Fresh

Advance ==
    /\ polls' = IF polls = FullEvery THEN 1 ELSE polls + 1
    /\ reasons' = IF Served THEN {} ELSE Owed
    /\ clock' = IF Served THEN "today" ELSE clock
    /\ sweep' = (last5g = "no" /\ router.nr)
    /\ last5g' = IF router.nr THEN "yes" ELSE "no"

PollSucceeds ==
    /\ poll.stage = "answered"
    /\ Learn
    /\ Advance
    /\ firmware' = router.runs
    /\ pending' = pending \ poll.events
    /\ poll' = Idle
    /\ UNCHANGED <<router, registry, moves, endpoint, store>>

-----------------------------------------------------------------------------
(* Requests, storage, restarts, and the world around. *)

\* Refresh Now, and a diagnostics download.
Request(r) ==
    /\ reasons' = reasons \cup {r}
    /\ poll' = IF poll.stage = "idle" \/ r \in reasons THEN poll
               ELSE [poll EXCEPT !.late = @ \cup {r}]
    /\ UNCHANGED <<world, answered, reads, disabled, polls, sweep, last5g, clock,
                   firmware, endpoint, store, dirty>>

Record == [runs |-> firmware, names |-> answered]

\* The delayed save writes what is known when it runs.
SaveRuns ==
    /\ dirty
    /\ store' = Record
    /\ dirty' = FALSE
    /\ UNCHANGED <<world, plan, endpoint, poll>>

\* A new plan, with the names stored for a firmware if there are any.
Restart ==
    /\ moves < MaxMoves /\ moves' = moves + 1
    /\ answered' = store.names
    /\ firmware' = store.runs
    /\ reasons' = IF store.runs = None THEN {"first poll"} ELSE {}
    /\ reads' = [e \in Entities |-> Spellings[e]]
    /\ disabled' = {} /\ polls' = 0 /\ sweep' = FALSE /\ last5g' = "unknown"
    /\ clock' = "unset"
    /\ strikes' = 0 /\ cache' = Blank
    /\ poll' = Idle /\ pending' = {} /\ dirty' = FALSE
    /\ UNCHANGED <<router, registry, store>>

DayPasses ==
    /\ clock = "today"
    /\ clock' = "day"
    /\ UNCHANGED <<world, answered, reads, disabled, polls, reasons, sweep, last5g,
                   firmware, endpoint, poll, store, dirty>>

\* Between two polls: the router reboots, on the same firmware or another, or
\* its data connection comes back, or 5G does or goes.
RouterChanges ==
    /\ poll.stage = "idle"
    /\ moves < MaxMoves /\ moves' = moves + 1
    /\ \/ /\ \E f \in Firmwares : router' = [router EXCEPT !.runs = f]
          /\ pending' = pending \cup {"reboot"}
       \/ /\ pending' = pending \cup {"data connection returned"}
          /\ UNCHANGED router
       \/ /\ router' = [router EXCEPT !.nr = ~@]
          /\ UNCHANGED pending
    /\ UNCHANGED <<registry, plan, endpoint, poll, store, dirty>>

RegistryChanges ==
    /\ moves < MaxMoves /\ moves' = moves + 1
    /\ \E e \in Entities :
          registry' = IF e \in registry THEN registry \ {e} ELSE registry \cup {e}
    /\ UNCHANGED <<router, pending, plan, endpoint, poll, store, dirty>>

\* A first set-up: no entity is registered yet.
Init ==
    /\ router \in [runs : Firmwares, nr : BOOLEAN]
    /\ registry \in SUBSET Entities /\ pending = {} /\ moves = 0
    /\ answered = {} /\ reads = [e \in Entities |-> Spellings[e]] /\ disabled = {}
    /\ polls = 0 /\ reasons = {"first poll"} /\ sweep = FALSE /\ last5g = "unknown"
    /\ clock = "unset" /\ firmware = None
    /\ strikes = 0 /\ cache = Blank
    /\ poll = Idle
    /\ store = [runs |-> None, names |-> {}] /\ dirty = FALSE

Next ==
    \/ PollStarts \/ PollStartsAgain \/ RouterAnswers \/ ExtendedFails
    \/ PollFails \/ PollSucceeds
    \/ \E r \in Requests : Request(r)
    \/ SaveRuns \/ Restart \/ DayPasses \/ RouterChanges \/ RegistryChanges

Spec == Init /\ [][Next]_vars

\* Polls are scheduled and end within their time limit, days pass, and of the
\* full polls, whatever becomes of the others, one is answered whole at last.
WholeAnswer == RouterAnswers /\ poll.full
WholeSuccess == PollSucceeds /\ poll.full /\ strikes = 0
FairSpec == Spec /\ WF_vars(PollStarts) /\ WF_vars(PollFails \/ PollSucceeds)
                 /\ WF_vars(DayPasses)
                 /\ SF_vars(WholeAnswer) /\ SF_vars(WholeSuccess)

-----------------------------------------------------------------------------
(* Properties. *)

Poll == [stage : {"idle", "asking", "answered"}, full : BOOLEAN, every : BOOLEAN,
         again : BOOLEAN, asked : SUBSET Names, data : [Names -> Values],
         events : SUBSET Reasons, late : SUBSET Reasons]

\* Every part of the plan, of the poll under way and of the record has its type.
TypeOK ==
    /\ router \in [runs : Firmwares, nr : BOOLEAN]
    /\ registry \subseteq Entities /\ pending \subseteq Reasons
    /\ moves \in 0..MaxMoves
    /\ answered \subseteq Names /\ reads \in [Entities -> SUBSET Names]
    /\ disabled \subseteq Entities
    /\ polls \in 0..FullEvery /\ reasons \subseteq Reasons /\ sweep \in BOOLEAN
    /\ last5g \in {"unknown", "no", "yes"} /\ clock \in {"unset", "today", "day"}
    /\ firmware \in Firmwares \cup {None}
    /\ strikes \in 0..StrikeLimit + 1 /\ cache \in [Names -> Values]
    /\ poll \in Poll
    /\ store \in [runs : Firmwares \cup {None}, names : SUBSET Names]
    /\ dirty \in BOOLEAN

\* Every name the plan keeps asking for has answered on the firmware it holds
\* the names for, and where an entity reads it at once, with a value it accepts:
\* nothing is carried over an update, learned from a held payload, or stored
\* under the wrong firmware.
Firsthand == {n \in Names : /\ \E e \in Entities : n \in Spellings[e]
                            /\ \A e \in Entities : n \notin Behind[e]}
Answers(f, names) ==
    \A n \in names : /\ f # None /\ Gives[f][n] # ""
                     /\ n \in Firsthand => Gives[f][n] = "good"
AnsweredHere == Answers(firmware, answered) /\ Answers(store.runs, store.names)

\* What makes it inductive: an entity's spellings are always known to be read,
\* and a payload that will be learned from is the router's own, the one that
\* serves the reasons a poll was chosen for answering all it asked.
SpellingsKnown == \A e \in Entities : Spellings[e] \subseteq reads[e]
Honest ==
    poll.stage = "answered" =>
        /\ \A n \in Names : (n \in Core \/ Fresh) /\ poll.data[n] # "" => poll.data[n] = Now(n)
        /\ \A n \in poll.asked : strikes = 0 => poll.data[n] = Now(n)
FullForItsReasons ==
    poll.stage # "idle" =>
        /\ reasons \ poll.late # {} => poll.full
        /\ "diagnostics download" \in reasons \ poll.late => poll.every
        /\ poll.full => poll.asked = Everything(poll.every)

\* All of it holds at every step; the proofs rest on it.
IInv == TypeOK /\ AnsweredHere /\ SpellingsKnown /\ Honest /\ FullForItsReasons

\* A reason for a full poll goes away only in a poll that asked everything (for
\* a download, what disabled entities read too) and answered it: not in one that
\* failed, was narrowed when it began, or held its extended half.  Requests made
\* while that poll was under way are set apart.
OwedUntilServed ==
    [][moves' = moves =>
          \A r \in reasons \ poll.late :
             r \notin reasons' =>
                /\ Everything(r = "diagnostics download") \subseteq poll.asked
                /\ \A n \in poll.asked \ Core : poll.data[n] = Now(n) \/ strikes > StrikeLimit
      ]_vars

\* What the router gives an enabled entity in the end becomes a name that every
\* poll asks for, whichever spelling it is, whatever polls failed, whenever the
\* entity was enabled, the router updated or the integration restarted.
ValueFound ==
    LET all == [n \in Names |-> Now(n)]
    IN \A e \in Entities : \A n \in Names :
          <>[](e \notin registry /\ Takes(e, n, all) /\ all[n] = "good"
                  => n \in answered)
=============================================================================
