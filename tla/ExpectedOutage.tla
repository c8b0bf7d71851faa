--------------------------- MODULE ExpectedOutage ---------------------------
(***************************************************************************)
(* The expected-outage window: the coordinator opens it after a command    *)
(* that takes the router offline, the API client refuses ordinary requests *)
(* while it is open, and a timer-driven check closes it.                   *)
(*                                                                         *)
(* Every `await` of the code ends a step here, so commands, polls, the     *)
(* check and the follow-up interleave as tasks of one event loop do.  Time *)
(* is a countdown: Tick moves every armed timer and open window by one     *)
(* unit and waits for a due timer.  The router is not a variable: at every  *)
(* moment it may answer, stay silent or answer with nothing of use.        *)
(***************************************************************************)
EXTENDS Integers

CONSTANTS
    Commands,       \* the commands a user gives: a subset of Reasons
    Checks,         \* slots for check coroutines that may run at once
    MaxWindows,     \* bound: how many windows a behaviour may open
    MaxStrikes,     \* bound: where the failure counter saturates
    Cap,            \* Cap[reason]: OUTAGE_CAP_*, in ticks
    Hold,           \* OUTAGE_HOLD
    ProbeFast,      \* OUTAGE_PROBE_FAST
    CheckInterval,  \* OUTAGE_CHECK_INTERVAL
    FollowupDelay   \* DATA_CONNECT_FOLLOWUP_SECONDS

Reasons == {"data", "reboot"}
Background == "bg"
NoLock == "free"
Polls == Checks \cup {Background}

ASSUME OutageConstants ==
    /\ Commands \subseteq Reasons
    /\ Background \notin Checks /\ NoLock \notin Polls
    /\ MaxWindows \in Nat /\ MaxStrikes \in Nat
    /\ Cap \in [Reasons -> Nat \ {0}]
    /\ Hold \in Nat /\ ProbeFast \in Nat \ {0}
    /\ CheckInterval \in Nat \ {0} /\ FollowupDelay \in Nat \ {0}

Off == -1                       \* a timer that is not armed
NoReason == "none"
NoWindow == [reason |-> NoReason, left |-> 0]

VARIABLES
    command,    \* command[reason]: the task of the entity that sends it
    window,     \* api.expected_outage, with the time left to its deadline
    opened,     \* how many windows were opened: the last record's index
    record,     \* expected_outages: what is recorded of each window
    awaiting,   \* _outage_awaiting_drop
    held,       \* time since _outage_opened_mono, saturated at Hold
    timer,      \* _outage_unsub: ticks until the check runs
    followup,   \* _outage_followup_unsub
    check,      \* the check coroutines in flight
    closing,    \* _outage_closing
    poll,       \* coordinator updates: the background one, one per check
    lock,       \* _async_update_lock: the poll that holds it
    force,      \* _force_refresh_once
    paused,     \* entry.options[CONF_STOP_POLLING]
    strikes,    \* consecutive_failures
    shut        \* async_shutdown has run

outageVars == <<window, opened, record, awaiting, held, timer, followup>>
pollVars == <<poll, lock, force, paused, strikes>>
vars == <<command, outageVars, check, closing, pollVars, shut>>

Window == [reason : Reasons \cup {NoReason}, left : Nat]
Record == [clean : BOOLEAN,     \* opened while no check was in flight
           down : BOOLEAN,      \* down_at is set
           back : BOOLEAN,      \* back_at is set
           polled : BOOLEAN,    \* a poll succeeded since it opened
           by : {"open", "cap", "answer", "no_outage"}]     \* closed_by
CheckTask == [pc : {"idle", "probing", "no_outage", "answer"},
              rec : 0..MaxWindows,      \* the record it captured
              fresh : BOOLEAN]  \* last_update_success_time has moved
PollStates == {"idle", "queued", "fetching", "sent", "tail"}

EmptyRecord == [clean |-> FALSE, down |-> FALSE,
                back |-> FALSE, polled |-> FALSE, by |-> "open"]
IdleCheck == [pc |-> "idle", rec |-> 0, fresh |-> FALSE]

\* Type invariant: every timer, record and coroutine stays in its range.
TypeOK ==
    /\ command \in [Reasons -> {"idle", "sent", "probing"}]
    /\ window \in Window
    /\ opened \in 0..MaxWindows
    /\ record \in [1..MaxWindows -> Record]
    /\ awaiting \in BOOLEAN
    /\ held \in 0..Hold
    /\ timer \in Nat \cup {Off} /\ followup \in Nat \cup {Off}
    /\ check \in [Checks -> CheckTask]
    /\ closing \in BOOLEAN
    /\ poll \in [Polls -> PollStates]
    /\ lock \in Polls \cup {NoLock}
    /\ force \in BOOLEAN /\ paused \in BOOLEAN
    /\ strikes \in 0..MaxStrikes
    /\ shut \in BOOLEAN

Init ==
    /\ command = [r \in Reasons |-> "idle"]
    /\ window = NoWindow
    /\ opened = 0
    /\ record = [i \in 1..MaxWindows |-> EmptyRecord]
    /\ awaiting = FALSE /\ held = 0
    /\ timer = Off /\ followup = Off
    /\ check = [c \in Checks |-> IdleCheck]
    /\ closing = FALSE
    /\ poll = [p \in Polls |-> "idle"]
    /\ lock = NoLock
    /\ force = FALSE /\ paused \in BOOLEAN
    /\ strikes = 0
    /\ shut = FALSE

-----------------------------------------------------------------------------
(* The window and its gate. *)

Open == window.reason # NoReason

\* A window past its cap is treated as closed.
Active == Open /\ window.left > 0

Running(c) == check[c].pc # "idle"
InClosingPoll(c) == check[c].pc \in {"no_outage", "answer"}

NoneRunning == \A c \in Checks : ~Running(c)

\* refuse_during_outage: only a task under outage_bypass passes.
Refused(p) == Active /\ p \notin Checks

CheckDelay(waiting) == IF waiting THEN ProbeFast ELSE CheckInterval

OpenWindow(r) ==
    /\ opened < MaxWindows
    /\ window' = [reason |-> r, left |-> Cap[r]]
    /\ opened' = opened + 1
    /\ record' = [record EXCEPT ![opened + 1] =
                    [clean |-> NoneRunning, down |-> r = "reboot",
                     back |-> FALSE, polled |-> FALSE, by |-> "open"]]
    /\ awaiting' = (r # "reboot")
    /\ held' = 0
    /\ followup' = Off
    /\ timer' = CheckDelay(r # "reboot")

\* Arm the next check, replacing any already armed.
ScheduleOutageCheck ==
    /\ timer' = CheckDelay(awaiting)
    /\ UNCHANGED <<window, opened, record, awaiting, held, followup>>

\* The record written is the last one, whichever window it belongs to.
CloseWindow(by, unsettled) ==
    /\ window' = NoWindow
    /\ timer' = Off
    /\ awaiting' = FALSE
    /\ record' = [record EXCEPT ![opened].by = by]
    /\ followup' = IF by # "cap" /\ window.reason = "data" /\ unsettled
                   THEN FollowupDelay ELSE followup
    /\ UNCHANGED <<opened, held>>

-----------------------------------------------------------------------------
(* The commands that take the router offline. *)

\* The gate is passed and the router accepts the command.  No command is sent
\* that could open no further window.
SendCommand(r) ==
    /\ command[r] = "idle" /\ ~Active /\ ~shut /\ opened < MaxWindows
    /\ command' = [command EXCEPT ![r] = "sent"]
    /\ UNCHANGED <<outageVars, check, closing, pollVars, shut>>

\* The switch reads the state once, whatever comes of it, and opens.
OpenAfterDataCommand ==
    /\ command["data"] = "sent"
    /\ OpenWindow("data")
    /\ command' = [command EXCEPT !["data"] = "idle"]
    /\ UNCHANGED <<check, closing, pollVars, shut>>

\* reboot() watches for the router to go away.  A probe the gate refuses raises;
\* one that fails returns 200 and the button opens the window, whatever opened
\* while the probe was in flight.
RebootProbes ==
    /\ command["reboot"] = "sent" /\ ~Active
    /\ command' = [command EXCEPT !["reboot"] = "probing"]
    /\ UNCHANGED <<outageVars, check, closing, pollVars, shut>>

RebootProbeAnswered ==
    /\ command["reboot"] = "probing"
    /\ command' = [command EXCEPT !["reboot"] = "sent"]
    /\ UNCHANGED <<outageVars, check, closing, pollVars, shut>>

OpenAfterReboot ==
    /\ command["reboot"] = "probing"
    /\ OpenWindow("reboot")
    /\ command' = [command EXCEPT !["reboot"] = "idle"]
    /\ UNCHANGED <<check, closing, pollVars, shut>>

\* Refused by the gate, or still answering after REBOOT_VERIFY_SECONDS.
RebootFails ==
    /\ command["reboot"] = "sent"
    /\ command' = [command EXCEPT !["reboot"] = "idle"]
    /\ UNCHANGED <<outageVars, check, closing, pollVars, shut>>

-----------------------------------------------------------------------------
(* The check coroutine. *)

CheckEnds(c) == check' = [check EXCEPT ![c] = IdleCheck]

\* Variant: the cap is not looked at before probing.
CheckStartsUncapped(c) ==
    /\ timer = 0 /\ ~Running(c)
    /\ timer' = Off
    /\ check' = IF Open THEN [check EXCEPT ![c] =
                                [pc |-> "probing", rec |-> opened, fresh |-> FALSE]]
                        ELSE check
    /\ UNCHANGED <<command, window, opened, record, awaiting, held,
                   followup, closing, pollVars, shut>>

\* The timer fires.  No window: nothing to do.  Past the cap: close, and ask
\* for an ordinary refresh.  Otherwise probe.
CheckStarts(c) ==
    /\ timer = 0 /\ ~Running(c)
    /\ \/ ~Open /\ timer' = Off
          /\ UNCHANGED <<window, opened, record, awaiting, held, followup, check>>
       \/ Open /\ ~Active /\ CloseWindow("cap", FALSE) /\ UNCHANGED check
       \/ /\ Active /\ timer' = Off
          /\ check' = [check EXCEPT ![c] =
                [pc |-> "probing", rec |-> opened, fresh |-> FALSE]]
          /\ UNCHANGED <<window, opened, record, awaiting, held, followup>>
    /\ UNCHANGED <<command, closing, pollVars, shut>>

\* async_refresh returns at once after async_shutdown.
ClosingPollStarts(c, by) ==
    IF shut
    THEN /\ timer' = CheckDelay(awaiting) /\ closing' = FALSE
         /\ CheckEnds(c) /\ UNCHANGED poll
    ELSE /\ closing' = TRUE
         /\ check' = [check EXCEPT ![c] =
                [pc |-> by, rec |-> check[c].rec, fresh |-> FALSE]]
         /\ poll' = [poll EXCEPT ![c] = "queued"]
         /\ UNCHANGED timer

\* Variant: a check that found no router does not arm the next one.
ProbeUnansweredUnarmed(c) ==
    /\ check[c].pc = "probing"
    /\ awaiting' = FALSE
    /\ record' = [record EXCEPT ![check[c].rec].down = @ \/ awaiting]
    /\ CheckEnds(c)
    /\ UNCHANGED <<command, window, opened, held, timer, followup, closing,
                   pollVars, shut>>

\* Variant: the drop is not recorded.
ProbeUnansweredUnrecorded(c) ==
    /\ check[c].pc = "probing"
    /\ awaiting' = FALSE
    /\ timer' = CheckDelay(FALSE)
    /\ CheckEnds(c)
    /\ UNCHANGED <<command, window, opened, record, held, followup, closing,
                   pollVars, shut>>

ProbeUnanswered(c) ==
    /\ check[c].pc = "probing"
    /\ awaiting' = FALSE
    /\ record' = [record EXCEPT ![check[c].rec].down = @ \/ awaiting]
    /\ timer' = CheckDelay(FALSE)
    /\ CheckEnds(c)
    /\ UNCHANGED <<command, window, opened, held, followup, closing,
                   pollVars, shut>>

ProbeAnsweredBeforeDrop(c) ==
    /\ check[c].pc = "probing" /\ awaiting
    /\ IF held >= Hold
       THEN ClosingPollStarts(c, "no_outage")
       ELSE timer' = CheckDelay(TRUE) /\ CheckEnds(c) /\ UNCHANGED <<closing, poll>>
    /\ UNCHANGED <<command, window, opened, record, awaiting, held,
                   followup, lock, force, paused, strikes, shut>>

ProbeAnsweredAfterDrop(c) ==
    /\ check[c].pc = "probing" /\ ~awaiting
    /\ record' = [record EXCEPT ![check[c].rec].back = TRUE]
    /\ ClosingPollStarts(c, "answer")
    /\ UNCHANGED <<command, window, opened, awaiting, held, followup,
                   lock, force, paused, strikes, shut>>

\* The rest of the check, run when its closing poll returns: success is read
\* from last_update_success_time having moved, whichever poll moved it.
AfterClosingPoll(c) ==
    /\ closing' = FALSE
    /\ CheckEnds(c)
    /\ IF check[c].fresh
       THEN \E unsettled \in BOOLEAN : CloseWindow(check[c].pc, unsettled)
       ELSE ScheduleOutageCheck

-----------------------------------------------------------------------------
(* Coordinator updates. *)

\* A scheduled, requested or forced refresh.
BackgroundPollStarts ==
    /\ poll[Background] = "idle" /\ ~shut
    /\ poll' = [poll EXCEPT ![Background] = "queued"]
    /\ UNCHANGED <<command, outageVars, check, closing, lock, force,
                   paused, strikes, shut>>

\* The poll's coroutine returns, and with it the check that awaits it.
PollReturns(p) ==
    /\ poll' = [poll EXCEPT ![p] = "idle"]
    /\ IF p = Background THEN UNCHANGED <<outageVars, check, closing>>
                         ELSE AfterClosingPoll(p)

Skipped == \/ paused /\ ~force /\ ~closing
           \/ Active /\ ~closing

PollEnters(p) ==
    /\ poll[p] = "queued" /\ lock = NoLock
    /\ force' = FALSE
    /\ IF Skipped
       THEN PollReturns(p) /\ UNCHANGED lock
       ELSE /\ poll' = [poll EXCEPT ![p] = "fetching"]
            /\ lock' = p
            /\ UNCHANGED <<outageVars, check, closing>>
    /\ UNCHANGED <<command, paused, strikes, shut>>

\* The last request of the fetch passes the gate.
PollSends(p) ==
    /\ poll[p] = "fetching" /\ ~Refused(p)
    /\ poll' = [poll EXCEPT ![p] = "sent"]
    /\ UNCHANGED <<command, outageVars, check, closing, lock, force,
                   paused, strikes, shut>>

\* The success path up to its first await.
PollSucceeds(p) ==
    /\ poll[p] = "sent"
    /\ poll' = [poll EXCEPT ![p] = "tail"]
    /\ strikes' = 0
    /\ check' = [c \in Checks |->
                    IF InClosingPoll(c) THEN [check[c] EXCEPT !.fresh = TRUE] ELSE check[c]]
    /\ record' = [i \in 1..MaxWindows |->
                    IF i = opened THEN [record[i] EXCEPT !.polled = TRUE] ELSE record[i]]
    /\ UNCHANGED <<command, window, opened, awaiting, held, timer, followup,
                   closing, lock, force, paused, shut>>

PollFinishes(p) ==
    /\ poll[p] = "tail"
    /\ PollReturns(p)
    /\ lock' = NoLock
    /\ UNCHANGED <<command, force, paused, strikes, shut>>

\* Variant: every failure counts.
PollFailsCounted(p) ==
    /\ poll[p] \in {"fetching", "sent", "tail"}
    /\ strikes' = IF strikes = MaxStrikes THEN strikes ELSE strikes + 1
    /\ PollReturns(p)
    /\ lock' = NoLock
    /\ UNCHANGED <<command, force, paused, shut>>

\* A refusal, a transport error, an unusable answer, or the 30 s limit.
\* _hold_last_values counts it unless a closing poll is running.
PollFails(p) ==
    /\ poll[p] \in {"fetching", "sent", "tail"}
    /\ strikes' = IF closing \/ strikes = MaxStrikes THEN strikes ELSE strikes + 1
    /\ PollReturns(p)
    /\ lock' = NoLock
    /\ UNCHANGED <<command, force, paused, shut>>

-----------------------------------------------------------------------------
(* User actions, the follow-up, unloading, and the environment. *)

\* Refresh Now, refused while the window is active.
RefreshNow ==
    /\ ~Active /\ ~shut
    /\ force' = TRUE
    /\ UNCHANGED <<command, outageVars, check, closing, poll, lock,
                   paused, strikes, shut>>

\* The pause switch; resuming forces a refresh.
TogglePause ==
    /\ ~shut
    /\ paused' = ~paused
    /\ force' = (force \/ paused)
    /\ UNCHANGED <<command, outageVars, check, closing, poll, lock,
                   strikes, shut>>

\* Variant: the follow-up asks for an ordinary refresh.
FollowupFiresUnforced ==
    /\ followup = 0
    /\ followup' = Off
    /\ UNCHANGED <<command, window, opened, record, awaiting, held, timer,
                   check, closing, pollVars, shut>>

FollowupFires ==
    /\ followup = 0
    /\ followup' = Off
    /\ force' = TRUE
    /\ UNCHANGED <<command, window, opened, record, awaiting, held, timer,
                   check, closing, poll, lock, paused, strikes, shut>>

Shutdown ==
    /\ ~shut
    /\ shut' = TRUE
    /\ timer' = Off /\ followup' = Off
    /\ UNCHANGED <<command, window, opened, record, awaiting, held,
                   check, closing, pollVars>>

Countdown(n) == IF n > 0 THEN n - 1 ELSE n

Tick ==
    /\ timer # 0 /\ followup # 0
    /\ timer' = Countdown(timer) /\ followup' = Countdown(followup)
    /\ window' = [window EXCEPT !.left = Countdown(@)]
    /\ held' = IF held < Hold THEN held + 1 ELSE held
    /\ UNCHANGED <<command, opened, record, awaiting, check, closing,
                   pollVars, shut>>

CheckSteps(c) ==
    \/ CheckStarts(c) \/ ProbeUnanswered(c)
    \/ ProbeAnsweredBeforeDrop(c) \/ ProbeAnsweredAfterDrop(c)

PollSteps(p) ==
    \/ PollEnters(p) \/ PollSends(p) \/ PollSucceeds(p)
    \/ PollFinishes(p) \/ PollFails(p)

Next ==
    \/ \E r \in Commands : SendCommand(r)
    \/ OpenAfterDataCommand
    \/ RebootProbes \/ RebootProbeAnswered \/ OpenAfterReboot \/ RebootFails
    \/ \E c \in Checks : CheckSteps(c)
    \/ BackgroundPollStarts
    \/ \E p \in Polls : PollSteps(p)
    \/ RefreshNow \/ TogglePause \/ FollowupFires
    \/ Shutdown \/ Tick

Spec == Init /\ [][Next]_vars

\* Time passes, due timers run, and every await ends: a probe by its 2 s
\* timeout, a poll by its 30 s limit; scheduled polls keep coming.  Entering a
\* poll is strongly fair: asyncio.Lock serves its waiters first come first
\* served, so a queued poll is not overtaken for ever.
Fairness ==
    /\ WF_vars(Tick)
    /\ WF_vars(FollowupFires)
    /\ WF_vars(BackgroundPollStarts)
    /\ \A c \in Checks : WF_vars(CheckSteps(c))
    /\ \A p \in Polls : WF_vars(PollSteps(p)) /\ SF_vars(PollEnters(p))

FairSpec == Spec /\ Fairness

-----------------------------------------------------------------------------
(* Properties. *)

\* While a window is open something will look at it again: the check's timer is
\* armed or a check is in flight.  Otherwise nothing would enforce the cap and
\* the outage would stay open in diagnostics, its polls never resumed properly.
WindowWatched ==
    Open /\ ~shut => timer # Off \/ \E c \in Checks : Running(c)

\* A window that no earlier check overlapped is closed before its cap only by a
\* poll that succeeded since it opened, and "answer" only after its own check saw
\* the router go and come back.
ClosedOnEvidence ==
    \A i \in 1..opened : record[i].clean =>
        /\ record[i].by \in {"answer", "no_outage"} => record[i].polled
        /\ record[i].by = "answer" => record[i].down /\ record[i].back

\* What makes the two facts above inductive.  A poll of a check belongs to its
\* closing poll, and the lock to the poll between its entry and its return.
PollsOfChecks ==
    /\ \A c \in Checks : poll[c] # "idle" => InClosingPoll(c)
    /\ \A p \in Polls : poll[p] \in {"fetching", "sent", "tail"} => lock = p

\* While the last window is clean its check is alone: no timer is armed beside
\* it, it captured that window's record, and the phase it is in agrees with what
\* the record says.
LastClean == opened > 0 /\ record[opened].clean

CleanCheckAlone ==
    LastClean =>
        /\ Open /\ ~awaiting => record[opened].down
        /\ \A c \in Checks : Running(c) =>
            /\ Open /\ timer = Off /\ check[c].rec = opened
            /\ \A d \in Checks : Running(d) => d = c
            /\ InClosingPoll(c) => closing
            /\ check[c].pc = "answer" => record[opened].down /\ record[opened].back
            /\ check[c].fresh => record[opened].polled

\* The inductive invariant behind WindowWatched, ClosedOnEvidence and
\* ClosingPollCountsNothing.
IInv == TypeOK /\ PollsOfChecks /\ CleanCheckAlone /\ WindowWatched /\ ClosedOnEvidence

\* A closing poll of a window no other check overlapped never adds a strike: a
\* router still starting fails it without Integration Health noticing.
ClosingPollCountsNothing ==
    [][strikes' > strikes /\ lock \in Checks => ~LastClean]_vars

\* Every window is closed at last, whatever the router does: by its check or by
\* the cap.
WindowCloses == Open /\ ~shut ~> ~Open \/ shut

\* A data window that closed unsettled is followed by a real fetch, even while
\* polling is paused, unless a new window or an unload comes first.
FollowupFetches ==
    \A n \in 1..MaxWindows :
        followup # Off /\ opened = n
            ~> shut \/ opened > n \/ \E p \in Polls : poll[p] = "fetching"

\* What survives an unload ends: timers and checks stop for good.
UnloadQuiesces == shut ~> [](timer = Off /\ \A c \in Checks : ~Running(c))
=============================================================================
