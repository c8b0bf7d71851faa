----------------------------- MODULE EntityReset -----------------------------
(***************************************************************************)
(* The reset_entities action (reset_entities.py): one call plans, from the   *)
(* registry, the saved baseline, the model's defaults and what is and was      *)
(* reported, which entities to enable and to disable, applies the plan and     *)
(* reloads the entry.  It works on the records of Observations, between and    *)
(* beside the polls that write them.                                          *)
(***************************************************************************)
EXTENDS Observations

CONSTANTS Entities,   \* [platform, key] of every entity this integration ships
          Default,    \* entity_registry_enabled_default of each
          Overlay,    \* MODEL_OVERLAY for this model: a partial [Keys -> BOOLEAN]
          Calls       \* the data of the calls, see CallType

VARIABLES registry,   \* disabled_by of each entity, or "on"
          taken       \* what the last saved baseline should hold, for the properties

resetVars == <<obsVars, registry, taken>>

CallType ==
    [save_snapshot : BOOLEAN, restore_snapshot : BOOLEAN,
     reset_to_default : BOOLEAN, enable_populated : BOOLEAN,
     disable_unavailable : BOOLEAN, disable_unknown : BOOLEAN,
     include_ever_populated : BOOLEAN, preserve_user_customized : BOOLEAN,
     exclude_entities : SUBSET Entities, dry_run : BOOLEAN]

ASSUME EntityResetAssumption ==
    /\ \A e \in Entities : e.key \in Keys
    /\ Default \in [Entities -> BOOLEAN]
    /\ DOMAIN Overlay \subseteq Keys /\ Overlay \in [DOMAIN Overlay -> BOOLEAN]
    /\ Calls \subseteq CallType

IsOn(e) == registry[e] = "on"
Registered == [e \in Entities |-> IsOn(e)]

\* The model's overlay speaks first, by key; the description's flag otherwise.
default_enabled(e) ==
    IF e.key \in DOMAIN Overlay THEN Overlay[e.key] ELSE Default[e]

\* A button, a number or the pause switch has no reading of the router.
_is_control(e) == e.platform \in {"button", "number"} \/ e.key = "pause_polling"

\* The keys that report a value from the coordinator's data now, and a state
\* of every entity that is on: a value, or one of the two blank ones.
reporting == IF polled.data = Nil THEN {} ELSE polled.data.found
States(unavailable) ==
    [e \in Entities |-> IF ~IsOn(e) THEN "none"
                        ELSE IF ~_is_control(e) /\ e.key \in reporting THEN "value"
                        ELSE IF e \in unavailable THEN "unavailable" ELSE "unknown"]

-----------------------------------------------------------------------------
\* Two baselines, or a capture beside a change, have no single meaning.
Changes(c) == c.reset_to_default \/ c.enable_populated \/ c.disable_unavailable
              \/ c.disable_unknown \/ c.restore_snapshot
_guard_combinations(c) ==
    /\ ~(c.reset_to_default /\ c.restore_snapshot)
    /\ ~(c.save_snapshot /\ Changes(c))

\* Variant: the guard asks what is reported now.
_maybe_disable_by_now(c, e, wanted) ==
    IF ~c.include_ever_populated /\ e.key \in reporting THEN wanted ELSE FALSE

\* A blank entity is turned off, unless it has reported a value before.
_maybe_disable(c, e, wanted) ==
    IF ~c.include_ever_populated /\ e.key \in ever_populated THEN wanted ELSE FALSE

\* What the chosen baseline says of an entity, Nil if nothing.
Baseline(c, e) ==
    IF c.restore_snapshot
    THEN IF e.key \in DOMAIN snapshot THEN snapshot[e.key] ELSE Nil
    ELSE IF c.reset_to_default THEN default_enabled(e) ELSE Nil

Blanked(c, state) == \/ c.disable_unavailable /\ state = "unavailable"
                     \/ c.disable_unknown /\ state = "unknown"

\* The state this entity should end in, Nil to leave it: the baseline, then
\* what reports now, then what is blank now.
_wanted(c, e, state) ==
    LET shown == IF c.enable_populated /\ e.key \in reporting THEN TRUE
                 ELSE Baseline(c, e)
    IN  IF _is_control(e) THEN Baseline(c, e)
        ELSE IF Blanked(c, state) THEN _maybe_disable(c, e, shown) ELSE shown

\* Excluded entities and, if asked, those the user turned off are out of it.
InScope(c, e) ==
    e \notin c.exclude_entities /\ ~(c.preserve_user_customized /\ registry[e] = "user")

\* What the call would change, and how.
plan(c, states) ==
    [e \in {x \in Entities : /\ InScope(c, x)
                             /\ _wanted(c, x, states[x]) \notin {Nil, IsOn(x)}}
        |-> _wanted(c, e, states[e])]

Applied(p) ==
    [e \in Entities |-> IF e \notin DOMAIN p THEN registry[e]
                        ELSE IF p[e] THEN "on" ELSE "user"]

-----------------------------------------------------------------------------
\* Platform setup registers every entity under its default.
ResetInit ==
    /\ ObsInit
    /\ registry = [e \in Entities |->
                      IF default_enabled(e) THEN "on" ELSE "integration"]
    /\ taken = [device |-> Nil, entry |-> Nil]

\* A gesture of the user, and one that reloads the entry.
Gesture == left.gestures > 0 /\ left' = [left EXCEPT !.gestures = @ - 1]
Reloading == left.gestures > 0 /\ LoadFrom([left EXCEPT !.gestures = @ - 1])

\* Variant: only an entity the user turned off is captured as off.
CapturesOfUser ==
    {m \in [{e.key : e \in Entities} -> BOOLEAN] :
        \A k \in DOMAIN m : \E e \in Entities :
            e.key = k /\ m[k] = (registry[e] # "user")}

\* _save: one flat map by key.  Of two entities with one key the later in the
\* registry is captured.
Captures ==
    {m \in [{e.key : e \in Entities} -> BOOLEAN] :
        \A k \in DOMAIN m : \E e \in Entities : e.key = k /\ m[k] = IsOn(e)}

SaveSnapshot(c) ==
    /\ c.save_snapshot /\ _guard_combinations(c) /\ ~c.dry_run
    /\ polled.success
    /\ writer["service"] = "idle"
    /\ Gesture
    /\ \E m \in Captures :
          recorder' = [recorder EXCEPT !.observed[recorder.device].snapshot = m]
    /\ taken' = [taken EXCEPT ![recorder.device] = Registered]
    /\ writer' = [writer EXCEPT !["service"] = "history"]
    /\ UNCHANGED <<stored, polled, lifetimes, told, registry>>

\* A call that changes something is written to the registry and reloads the
\* entry; one that plans nothing, a dry run and a refused one leave all as it is.
Reset(c) ==
    /\ ~c.save_snapshot /\ _guard_combinations(c) /\ ~c.dry_run
    /\ polled.success
    /\ c.restore_snapshot => snapshot # Nil
    /\ \E unavailable \in SUBSET {e \in Entities : IsOn(e) /\ ~_is_control(e)} :
          LET p == plan(c, States(unavailable))
          IN  DOMAIN p # {} /\ registry' = Applied(p)
    /\ Reloading
    /\ UNCHANGED taken

\* The user turns an entity on or off in Home Assistant.  Turning one on reloads
\* the entry.
UserTurnsOff(e) ==
    /\ IsOn(e) /\ Gesture
    /\ registry' = [registry EXCEPT ![e] = "user"]
    /\ UNCHANGED <<recorder, stored, writer, polled, lifetimes, told, taken>>
UserTurnsOn(e) ==
    /\ ~IsOn(e)
    /\ registry' = [registry EXCEPT ![e] = "on"]
    /\ Reloading
    /\ UNCHANGED taken

ResetNext ==
    \/ ObsNext /\ UNCHANGED <<registry, taken>>
    \/ \E c \in Calls : SaveSnapshot(c) \/ Reset(c)
    \/ \E e \in Entities : UserTurnsOff(e) \/ UserTurnsOn(e)

ResetSpec == ResetInit /\ [][ResetNext]_resetVars

-----------------------------------------------------------------------------
ResetTypeOK ==
    /\ ObsTypeOK
    /\ registry \in [Entities -> {"on", "user", "integration"}]
    /\ \A i \in Ids : taken[i] = Nil \/ taken[i] \in [Entities -> BOOLEAN]

TurnedOff(e) == IsOn(e) /\ registry'[e] # "on"

\* After a first poll, a call that does not ask for it never turns off an entity
\* that reported a value at any time, before restarts too, unless the baseline
\* says so: values that are only missing now are protected
\* (reset_entities.py:167-172).
ProtectedStay ==
    [][registry' # registry => \A c \in Calls :
          Reset(c) /\ ~c.include_ever_populated /\ recorder.device = "device"
          => \A e \in Entities :
                TurnedOff(e) => \/ Baseline(c, e) = FALSE
                                \/ e.key \notin told.reported]_resetVars

\* Restoring undoes every change to the set since it was saved, whatever was
\* polled, restarted or turned on and off in between, for every entity that is
\* alone under its key, if no save was cut short and no store failed.
Alone(e) == \A f \in Entities : f.key = e.key => f = e
Restores(c) == /\ c.restore_snapshot /\ c.exclude_entities = {}
               /\ ~c.enable_populated /\ ~c.disable_unavailable /\ ~c.disable_unknown
               /\ ~c.preserve_user_customized

RestoreIsIdentity ==
    [][registry' # registry => \A c \in Calls :
          Reset(c) /\ Restores(c) /\ recorder.device = "device"
          /\ ~told.torn /\ ~told.blind
          => \A e \in Entities :
                Alone(e) => (registry'[e] = "on") = taken.device[e]]_resetVars

\* What a call may not reach: an excluded entity, one the user turned off when
\* these are to be kept, and, except by a baseline, a control, so the button
\* that would repair a bad reset stays on (reset_entities.py:222-231).
OutOfReach ==
    [][registry' # registry => \A c \in Calls : Reset(c) =>
          \A e \in Entities : registry'[e] # registry[e] =>
             /\ e \notin c.exclude_entities
             /\ c.preserve_user_customized => registry[e] # "user"
             /\ _is_control(e) => Baseline(c, e) = (registry'[e] = "on")]_resetVars

\* What the recorder keeps can be relied on: values seen are remembered, changes
\* are counted, a loss is traced; and the state has its types.
RecordsHold == ResetTypeOK /\ Remembered /\ Counted /\ LossIsTraced

\* A call turns off nothing that is protected from it and reaches nothing it
\* must leave alone.
CallsAreBounded == ProtectedStay /\ OutOfReach
=============================================================================
