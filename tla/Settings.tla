------------------------------ MODULE Settings ------------------------------
(***************************************************************************)
(* The controls that change the router's settings: a switch that rewrites a   *)
(* whole form, the selects of the access point (APN), and the slider of the   *)
(* polling interval.  A control acts on what a poll read some time before,    *)
(* sends its command, once more when it is refused, reads the position back,  *)
(* and asks for a poll; polls, the router's own page and the other platform   *)
(* go on meanwhile.                                                         *)
(***************************************************************************)
EXTENDS Integers, FiniteSets

CONSTANTS
    Slots,          \* the router's APN profiles
    Stored,         \* what they may store: functions from Slots to Apns or None
    Apns, None,
    Network,        \* the APN the network provides in auto mode
    Intervals, DefaultInterval,  \* polling intervals
    MaxMoves        \* bound: actions, edits on the router's page, reloads

ASSUME SettingsConstants ==
    /\ None \notin Slots /\ None \notin Apns /\ None \notin Intervals
    /\ Network \in Apns
    /\ Stored \subseteq [Slots -> Apns \cup {None}]
    /\ DefaultInterval \in Intervals /\ MaxMoves \in Nat

VARIABLES
    router,     \* its settings; form, apn: how often each was changed
    data,       \* coordinator.data
    snap,       \* what the poll in flight has read, None before it has
    polling, forced, paused,
    shown,      \* the switch's _last_known
    act,        \* what each platform is doing: one action at a time each
    slider,     \* the interval's entity: shown, waiting to be written (or None)
    options,    \* CONF_SCAN_INTERVAL in the entry's options
    moves

settingsVars == <<router, data, snap, polling, forced, paused, shown, act, slider, options, moves>>
controls == <<act, slider, options>>

Platforms == {"switch", "select"}
Idle == [at |-> "idle", ask |-> None, body |-> None, seen |-> 0, tried |-> 0,
         reads |-> 0, landed |-> FALSE, result |-> "none"]

Moves == moves < MaxMoves /\ moves' = moves + 1

-----------------------------------------------------------------------------
(* What is read and what is written. *)

Active(r) == IF r.mode = "auto" THEN Network ELSE r.slots[r.index]

\* A poll's answer; the form's size may be missing from it.
Report(sized) ==
    [limit |-> router.limit, size |-> IF sized THEN router.size ELSE None,
     mode |-> router.mode, index |-> router.index, slots |-> router.slots,
     active |-> Active(router), form |-> router.form, apn |-> router.apn]

\* _resolve_apn_profile: the profile of the active APN, or the index where it
\* can be trusted.
Resolved(d) ==
    LET matching == {s \in Slots : d.active # None /\ d.slots[s] = d.active}
    IN IF matching # {} THEN matching
       ELSE IF d.mode = "manual" /\ d.slots[d.index] # None THEN {d.index} ELSE {}

\* Variant: a size the poll did not read is written as none.
FormUnread(d, limit) == {[limit |-> limit, size |-> d.size]}

\* set_data_volume_settings: the whole form or nothing.
Form(d, limit) == {[limit |-> limit, size |-> size] : size \in {d.size} \ {None}}

\* set_apn_mode: with a profile, or the bare form for auto.
Mode(d, mode) ==
    IF Resolved(d) # {}
    THEN {[mode |-> mode, index |-> s] : s \in Resolved(d)}
    ELSE {[mode |-> m, index |-> None] : m \in {mode} \cap {"auto"}}

\* set_apn, of a profile in the list the poll read.
Profile(d, s) == {[mode |-> "manual", index |-> x] : x \in {y \in {s} : d.slots[y] # None}}

\* The router carries a command out.
Carried(p, body) ==
    IF p = "switch"
    THEN [router EXCEPT !.limit = body.limit, !.size = body.size, !.form = @ + 1]
    ELSE [router EXCEPT !.mode = body.mode, !.apn = @ + 1,
                        !.index = IF body.index = None THEN @ ELSE body.index]

Asks(p) == IF p = "switch" THEN BOOLEAN
           ELSE {[kind |-> "mode", to |-> m] : m \in {"auto", "manual"}}
                    \cup {[kind |-> "profile", to |-> s] : s \in Slots}

Bodies(p, ask) ==
    IF p = "switch" THEN Form(data, ask)
    ELSE IF ask.kind = "mode" THEN Mode(data, ask.to) ELSE Profile(data, ask.to)

-----------------------------------------------------------------------------
(* An action. *)

\* It builds its body from the data held now, and fails where it cannot.
Called(p, ask) ==
    /\ Moves /\ data # None /\ act[p].at = "idle"
    /\ LET called == [Idle EXCEPT !.ask = ask,
                                  !.seen = IF p = "switch" THEN data.form ELSE data.apn]
       IN \/ /\ Bodies(p, ask) = {}
             /\ act' = [act EXCEPT ![p] = [called EXCEPT !.result = "failed"]]
          \/ \E body \in Bodies(p, ask) :
                act' = [act EXCEPT ![p] = [called EXCEPT !.at = "sending", !.body = body]]
    /\ UNCHANGED <<router, data, snap, polling, forced, paused, shown, slider, options>>

\* The command is refused, carried out or not, answered or not.  The answer may
\* say that it was carried out when it was not.
Sends(p, lands, answer) ==
    /\ act[p].at = "sending" /\ (answer = "refused" => ~lands)
    /\ router' = IF lands THEN Carried(p, act[p].body) ELSE router
    /\ act' = [act EXCEPT ![p].landed = @ \/ lands,
                          ![p].at = CASE answer = "success" -> IF p = "switch" THEN "confirming"
                                                               ELSE "refreshing"
                                      [] answer = "refused" -> "refused"
                                      [] answer = "lost" -> "lost"]
    /\ UNCHANGED <<data, snap, polling, forced, paused, shown, slider, options, moves>>

\* What is left of an action that is over.
Over(p, result) == [Idle EXCEPT !.landed = act[p].landed, !.result = result]

\* Variant: a command with no answer is sent again, too.
AgainAlways(p) == act[p].at \in {"refused", "lost"} /\ act[p].tried = 0

\* _retry_once_on_refusal, unless the session is found to be gone.
Again(p) == act[p].at = "refused" /\ act[p].tried = 0

Retries(p) ==
    /\ Again(p)
    /\ act' = [act EXCEPT ![p].at = "sending", ![p].tried = 1]
    /\ UNCHANGED <<router, data, snap, polling, forced, paused, shown, slider, options, moves>>

GivesUp(p) ==
    /\ act[p].at \in {"refused", "lost", "sending"}
    /\ act' = [act EXCEPT ![p] = Over(p, IF act[p].at = "refused" THEN "refused" ELSE "failed")]
    /\ UNCHANGED <<router, data, snap, polling, forced, paused, shown, slider, options, moves>>

\* _async_confirm: two reads that disagree prove that it was not applied; one that
\* fails proves nothing.
Confirms(answered) ==
    /\ act["switch"].at = "confirming"
    /\ IF ~answered THEN act' = [act EXCEPT !["switch"].at = "refreshing"] /\ UNCHANGED shown
       ELSE IF router.limit = act["switch"].ask
       THEN act' = [act EXCEPT !["switch"].at = "refreshing"] /\ shown' = router.limit
       ELSE /\ UNCHANGED shown
            /\ act' = IF act["switch"].reads = 1
                      THEN [act EXCEPT !["switch"] = Over("switch", "not applied")]
                      ELSE [act EXCEPT !["switch"].reads = 1]
    /\ UNCHANGED <<router, data, snap, polling, forced, paused, slider, options, moves>>

\* async_force_refresh, and the action is over.
Refreshes(p) ==
    /\ act[p].at = "refreshing"
    /\ act' = [act EXCEPT ![p] = Over(p, "done")]
    /\ forced' = TRUE
    /\ UNCHANGED <<router, data, snap, polling, paused, shown, slider, options, moves>>

-----------------------------------------------------------------------------
(* Polls. *)

PollBegins ==
    /\ ~polling /\ (paused => forced)
    /\ polling' = TRUE /\ forced' = FALSE /\ snap' = None
    /\ UNCHANGED <<router, data, paused, shown, controls, moves>>

PollReads(sized) ==
    /\ polling /\ snap = None /\ snap' = Report(sized)
    /\ UNCHANGED <<router, data, polling, forced, paused, shown, controls, moves>>

\* Variant: an off position is taken for one that is not reported.
RememberedOn(d) == shown \/ (d # None /\ d.limit)

\* _remember_position.
Remembered(d) == IF d = None THEN shown ELSE d.limit

PollDelivers ==
    /\ polling /\ snap # None
    /\ polling' = FALSE /\ data' = snap /\ snap' = None /\ shown' = Remembered(snap)
    /\ UNCHANGED <<router, forced, paused, controls, moves>>

\* The data held are delivered again.
PollFails ==
    /\ polling
    /\ polling' = FALSE /\ snap' = None /\ shown' = Remembered(data)
    /\ UNCHANGED <<router, data, forced, paused, controls, moves>>

Pause ==
    /\ Moves /\ paused' = ~paused
    /\ UNCHANGED <<router, data, snap, polling, forced, shown, controls>>

-----------------------------------------------------------------------------
(* The slider. *)

\* It shows the value at once and writes it after two seconds of rest.
SliderMoves(v) ==
    /\ Moves /\ slider' = [shown |-> v, waiting |-> v]
    /\ UNCHANGED <<router, data, snap, polling, forced, paused, shown, act, options>>

Persist == options' = slider.waiting

SliderRests ==
    /\ slider.waiting # None /\ Persist
    /\ slider' = [slider EXCEPT !.waiting = None] /\ forced' = TRUE
    /\ UNCHANGED <<router, data, snap, polling, paused, shown, act, moves>>

\* async_will_remove_from_hass.
Flush == IF slider.waiting # None THEN Persist ELSE UNCHANGED options

\* The entry is reloaded: new entities, a new coordinator.
Reload ==
    /\ Moves /\ \A p \in Platforms : act[p].at = "idle"
    /\ Flush
    /\ slider' = [shown |-> options', waiting |-> None]
    /\ data' = None /\ snap' = None /\ polling' = FALSE /\ forced' = FALSE /\ shown' = FALSE
    /\ act' = [p \in Platforms |-> Idle]
    /\ UNCHANGED <<router, paused>>

-----------------------------------------------------------------------------
(* The router's own page. *)

PageForm(limit, size) ==
    /\ Moves /\ [limit |-> limit, size |-> size] # [limit |-> router.limit, size |-> router.size]
    /\ router' = [router EXCEPT !.limit = limit, !.size = size, !.form = @ + 1]
    /\ UNCHANGED <<data, snap, polling, forced, paused, shown, controls>>

PageApn(mode, index, slots) ==
    /\ Moves /\ (mode = "manual" => slots[index] # None)
    /\ <<mode, index, slots>> # <<router.mode, router.index, router.slots>>
    /\ router' = [router EXCEPT !.mode = mode, !.index = index, !.slots = slots, !.apn = @ + 1]
    /\ UNCHANGED <<data, snap, polling, forced, paused, shown, controls>>

SettingsInit ==
    /\ \E mode \in {"auto", "manual"}, slots \in Stored, index \in Slots :
          /\ mode = "manual" => slots[index] # None
          /\ router = [limit |-> FALSE, size |-> 1, mode |-> mode, index |-> index,
                       slots |-> slots, form |-> 0, apn |-> 0]
    /\ data = None /\ snap = None /\ polling = FALSE /\ forced = FALSE /\ paused = FALSE
    /\ shown = FALSE /\ act = [p \in Platforms |-> Idle]
    /\ options = DefaultInterval /\ slider = [shown |-> options, waiting |-> None]
    /\ moves = 0

Acts ==
    \/ \E p \in Platforms : \E ask \in Asks(p) : Called(p, ask)
    \/ \E p \in Platforms, lands \in BOOLEAN, answer \in {"success", "refused", "lost"} :
          Sends(p, lands, answer)
    \/ \E p \in Platforms : Retries(p) \/ GivesUp(p) \/ Refreshes(p)
    \/ \E answered \in BOOLEAN : Confirms(answered)

Polls == PollBegins \/ (\E sized \in BOOLEAN : PollReads(sized)) \/ PollDelivers \/ PollFails

SettingsNext ==
    \/ Acts \/ Polls \/ Pause \/ SliderRests \/ Reload
    \/ \E v \in Intervals : SliderMoves(v)
    \/ \E limit \in BOOLEAN, size \in {1, 2} : PageForm(limit, size)
    \/ \E mode \in {"auto", "manual"}, index \in Slots, slots \in Stored :
          PageApn(mode, index, slots)

SettingsSpec == SettingsInit /\ [][SettingsNext]_settingsVars

\* Requests end, timers fire, and polls succeed again and again.
FairSettingsSpec ==
    /\ SettingsSpec /\ WF_settingsVars(SliderRests) /\ WF_settingsVars(PollBegins)
    /\ SF_settingsVars(\E sized \in BOOLEAN : PollReads(sized)) /\ SF_settingsVars(PollDelivers)
    /\ \A p \in Platforms : WF_settingsVars(GivesUp(p)) /\ WF_settingsVars(Refreshes(p))
    /\ WF_settingsVars(\E answered \in BOOLEAN : Confirms(answered))

-----------------------------------------------------------------------------
(* Properties. *)

\* Each action is in a stage there is, and a poll in flight is all that has read.
SettingsTypeOK ==
    /\ \A p \in Platforms :
          /\ act[p].at \in {"idle", "sending", "refused", "lost", "confirming", "refreshing"}
          /\ act[p].tried \in 0..1 /\ act[p].reads \in 0..1
          /\ act[p].body # None /\ p = "switch" => act[p].body.size # None
          /\ act[p].result \in {"none", "done", "failed", "refused", "not applied"}
    /\ act["select"].at # "confirming"
    /\ snap # None => polling
    /\ slider.shown \in Intervals /\ slider.waiting \in Intervals \cup {None}
    /\ options \in Intervals

\* A command reported as refused was carried out neither by the first send nor by
\* the second: one whose answer was lost is never sent again by the same action, so
\* that the refusal of a repeat cannot hide that the first was carried out.
RefusedIsNotDone ==
    \A p \in Platforms : act[p].result = "refused" => ~act[p].landed

\* Rewriting the form changes the position asked for and nothing else, unless it was
\* changed after the poll the action took it from.
OthersKept ==
    [][act["switch"].at = "sending" /\ act'["switch"].landed /\ ~act["switch"].landed
            /\ act["switch"].seen = router.form
        => router'.size = router.size]_settingsVars

\* Changing the mode to manual keeps the APN that carries the traffic, unless the
\* profiles were changed after the poll the action took them from.
ApnKept ==
    [][act["select"].at = "sending" /\ router'.apn # router.apn /\ act["select"].seen = router.apn
            /\ act'["select"] # act["select"] /\ act["select"].ask = [kind |-> "mode", to |-> "manual"]
        => Active(router') = Active(router)]_settingsVars

\* The interval shown changes only when the user moves the slider: one let go just
\* before its entity is removed comes back with the entity that replaces it.
SliderKept == [][slider'.shown # slider.shown => slider'.waiting = slider'.shown]_settingsVars

\* The switch comes to show the position the router is in, whatever was sent,
\* refused, lost or changed on the page meanwhile, unless polling is paused.
Settles == <>[](paused \/ shown = router.limit)

\* A refusal is a refusal, and the state has its types.
RefusalsStand == SettingsTypeOK /\ RefusedIsNotDone

\* What the user did not ask to change is kept: the form's other field, the APN
\* in use, the interval in the slider.
FieldsKept == OthersKept /\ ApnKept /\ SliderKept
=============================================================================
