--------------------------- MODULE EntryLifecycle ---------------------------
(***************************************************************************)
(* One config entry from its creation to its removal (__init__.py,           *)
(* config_flow.py, repairs.py): its options edited by flows that validate      *)
(* against the router, by the pause switch and the interval slider; the        *)
(* client built from them, which an edit replaces by a reload or retunes       *)
(* live; the setup that goes on in the background beside polls and commands;    *)
(* and what an unload and a removal take away.                                 *)
(***************************************************************************)
EXTENDS Integers, FiniteSets

CONSTANTS Hosts, Secrets,  \* values of host and password
          Intervals,       \* values of a live option
          Flows,           \* the forms the user may have open
          SelfReloading,   \* those that reload the entry themselves: a
                           \* reconfiguration or a reauthentication
          Entered,         \* the hosts entered in each form
          Created,         \* the options the entry is created with
          None,            \* nothing running; a password left blank
          Edits            \* bound: options saved, passwords changed, restarts

Creds == [host : Hosts, secret : Secrets]
Clients == [creds : Creds, interval : Intervals, signature : Creds \cup {None},
            raised : BOOLEAN]

ASSUME EntryAssumption ==
    /\ None \notin Hosts \cup Secrets \cup Flows \cup Creds \cup Clients
    /\ SelfReloading \subseteq Flows
    /\ Entered \in [Flows -> SUBSET Hosts]
    /\ Created \in [host : Hosts, secret : Secrets, interval : Intervals]
    /\ Edits \in Nat

VARIABLES
    state,      \* of the entry, and what an unload in progress leads to
    options,    \* entry.options
    client,     \* the running coordinator and its client
    background, \* where the background setup stands
    reload,     \* a reload is scheduled
    flow,       \* each form: what it is doing and what it validated
    accepts,    \* the password the router accepts, per host
    holder,     \* who holds the router's session
    files,      \* the entry's stores
    armed,      \* delayed saves, which outlive the coordinator that armed them
    card,       \* the auth repair is shown
    edits,      \* the bound
    proved,     \* credentials a router has accepted, for the properties
    unheard     \* options changed while no listener was there, for the properties

entryVars == <<state, options, client, background, reload, flow, accepts, holder,
               files, armed, card, edits, proved, unheard>>
runVars == <<client, background, holder>>
worldVars == <<accepts, files, armed, card>>

\* The stores written at once (history, observed, profile), and the uptime's, whose
\* saves are delayed.  The poll plan's is PollPlan's.
Stores == {"records", "uptime"}
Idle == [typed |-> None, merged |-> None]

CredsOf(o) == [host |-> o.host, secret |-> o.secret]
Accepted(c) == accepts[c.host] = c.secret
Spend == edits > 0 /\ edits' = edits - 1

\* What must not change without a reload: all but the live options.
_reload_signature(o) == [host |-> o.host, secret |-> o.secret]

-----------------------------------------------------------------------------
\* The entry is created by a flow that logged in with what it stores.
EntryInit ==
    /\ accepts = [h \in Hosts |-> Created.secret]
    /\ options = Created
    /\ proved = {CredsOf(options)}
    /\ state = "setup" /\ client = None /\ background = "none" /\ reload = FALSE
    /\ flow = [f \in Flows |-> Idle]
    /\ holder = None /\ files = {} /\ armed = {} /\ card = FALSE
    /\ edits = Edits /\ unheard = FALSE

\* async_setup_entry up to its first wait: the client and the coordinator are
\* built from the options as they are.
Build ==
    /\ state = "setup"
    /\ state' = "loading"
    /\ client' = [creds |-> CredsOf(options), interval |-> options.interval,
                  signature |-> None, raised |-> FALSE]
    /\ unheard' = FALSE
    /\ UNCHANGED <<options, background, reload, flow, holder, worldVars, edits, proved>>

\* The stores are read; then the signature is taken, the listener added and the
\* background task started.
Listen ==
    /\ state = "loading"
    /\ state' = "loaded"
    /\ client' = [client EXCEPT !.signature = _reload_signature(options)]
    /\ background' = "login"
    /\ UNCHANGED <<options, reload, flow, holder, worldVars, edits, proved, unheard>>

Running == client # None /\ state # "loading"

\* A login with the client's password: granted, refused, or no answer.
Granted(next) == /\ Accepted(client.creds)
                 /\ holder' = "client" /\ background' = next
Missed == holder' \in {holder, None} /\ background' = "failed"

\* The task of the setup: a login, the first refresh, which is a Poll and raises
\* nothing, the profile, then a logout, the measurement of what is served without
\* a session, and a login again.
_async_background_setup ==
    /\ Running
    /\ \/ /\ background = "login" /\ (Granted("learn") \/ Missed)
          /\ UNCHANGED files
       \/ /\ background = "learn" /\ background' = "logout"
          /\ \/ UNCHANGED holder
             \/ Accepted(client.creds) /\ holder' = "client"
          /\ files' \in {files, files \cup {"records"}}
       \/ /\ background = "logout" /\ background' = "measure"
          /\ holder' \in {holder} \cup (IF holder = "client" THEN {None} ELSE {})
          /\ UNCHANGED files
       \/ /\ background = "measure" /\ (Granted("done") \/ Missed)
          /\ UNCHANGED files
    /\ UNCHANGED <<state, options, client, reload, flow, accepts, armed, card,
                   edits, proved, unheard>>

\* A poll of the running coordinator.  A success saves, arms delayed saves and
\* withdraws the repair if this coordinator raised it; a refused password raises it.
Poll ==
    /\ Running
    /\ \/ /\ Accepted(client.creds) \/ holder = "client"
          /\ holder' = "client"
          /\ files' = files \cup {"records"}
          /\ armed' = armed \cup {"uptime"}
          /\ card' = (card /\ ~client.raised)
          /\ client' = [client EXCEPT !.raised = FALSE]
       \/ /\ ~Accepted(client.creds) /\ holder # "client"
          /\ card' = (card \/ ~client.raised)
          /\ client' = [client EXCEPT !.raised = TRUE]
          /\ UNCHANGED <<holder, files, armed>>
    /\ UNCHANGED <<state, options, background, reload, flow, accepts, edits,
                   proved, unheard>>

\* A delayed save comes due, whether its coordinator is still there or not.
DelayedSave(s) ==
    /\ s \in armed
    /\ armed' = armed \ {s} /\ files' = files \cup {s}
    /\ UNCHANGED <<state, options, reload, flow, accepts, card, edits, proved,
                   unheard, runVars>>

-----------------------------------------------------------------------------
\* async_update_entry: the listener hears of a change of the options if it is
\* there.  Equal signatures are applied live; another one is remembered and
\* schedules a reload, as some flows do themselves.
Listening == client # None /\ client.signature # None

_async_options_updated(o, own) ==
    LET heard == Listening /\ o # options
        renewed == heard /\ _reload_signature(o) # client.signature
    IN  /\ options' = o
        /\ reload' = (reload \/ renewed \/ own)
        /\ unheard' = (unheard \/ (client # None /\ ~Listening /\ o # options))
        /\ client' = IF renewed
                     THEN [client EXCEPT !.signature = _reload_signature(o)]
                     ELSE IF heard THEN [client EXCEPT !.interval = o.interval]
                     ELSE client

\* The slider or the pause switch; a value the slider still holds is written as
\* its platform is unloaded.
Tune(i) ==
    /\ state \in {"loaded", "unloading", "leaving"} /\ i # options.interval
    /\ Spend
    /\ _async_options_updated([options EXCEPT !.interval = i], FALSE)
    /\ UNCHANGED <<state, background, flow, worldVars, holder, proved>>

\* A form is sent: a password left blank is filled in from the stored one.  A
\* host or a password that changes takes the others of the same form along.
_merge_credentials(host, secret) ==
    [host |-> host, secret |-> IF secret = None THEN options.secret ELSE secret]

Send(f, host, secret) ==
    /\ state # "removed" /\ flow[f] = Idle
    /\ flow' = [flow EXCEPT ![f] = [typed |-> secret,
                                    merged |-> _merge_credentials(host, secret)]]
    /\ UNCHANGED <<state, options, reload, edits, proved, unheard, worldVars, runVars>>

\* Variant: only what was typed is saved over the options of now.
SavedAsTyped(f) ==
    [host |-> flow[f].merged.host, interval |-> options.interval,
     secret |-> IF flow[f].typed = None THEN options.secret ELSE flow[f].typed]

\* What was validated, not what is stored by then, is saved over the options of
\* now.
Saved(f) ==
    [host |-> flow[f].merged.host, secret |-> flow[f].merged.secret,
     interval |-> options.interval]

\* _validate_credentials logs in with a client of its own, reads, and logs out.
\* A reconfiguration and a reauthentication reload by themselves.
Validated(f) ==
    /\ flow[f] # Idle /\ state # "removed"
    /\ Accepted(flow[f].merged)
    /\ Spend
    /\ holder' = None
    /\ proved' = proved \cup {flow[f].merged}
    /\ flow' = [flow EXCEPT ![f] = Idle]
    /\ _async_options_updated(Saved(f), f \in SelfReloading /\ client # None)
    /\ UNCHANGED <<state, background, worldVars>>

\* The router refuses or does not answer: the form is shown again, or given up.
NotValidated(f) ==
    /\ flow[f] # Idle
    /\ flow' = [flow EXCEPT ![f] = Idle]
    /\ holder' \in {holder, None}
    /\ UNCHANGED <<state, options, client, background, reload, worldVars, edits,
                   proved, unheard>>

\* The password is changed on the router.
PasswordChanged(h, s) ==
    /\ accepts[h] # s /\ Spend
    /\ accepts' = [accepts EXCEPT ![h] = s]
    /\ UNCHANGED <<state, options, reload, flow, files, armed, card, proved,
                   unheard, runVars>>

-----------------------------------------------------------------------------
\* async_unload_entry: the platforms go; then the repairs are cleared and the
\* session is given up, which takes a while.
Unload(next) ==
    \/ /\ state' = next
       /\ card' = FALSE
       /\ client' = [client EXCEPT !.raised = FALSE]
    \/ state' = "failed" /\ UNCHANGED <<card, client>>

\* Variant: a reload waits for the end of the background setup.
ReloadAfterSetup ==
    /\ reload /\ state = "loaded" /\ background = "done"
    /\ Unload("unloading")
    /\ reload' = FALSE
    /\ UNCHANGED <<options, background, flow, accepts, holder, files, armed, edits,
                   proved, unheard>>

\* A scheduled reload, which waits for a setup or another unload in progress.
Reload ==
    /\ reload /\ state = "loaded"
    /\ Unload("unloading")
    /\ reload' = FALSE
    /\ UNCHANGED <<options, background, flow, accepts, holder, files, armed, edits,
                   proved, unheard>>

\* The user disables the entry or removes it.
Leave ==
    /\ state = "loaded" /\ Spend
    /\ Unload("leaving")
    /\ UNCHANGED <<options, background, reload, flow, accepts, holder, files, armed,
                   proved, unheard>>

\* The logout has answered or not; Home Assistant drops the listener and the
\* entry's tasks, then sets the entry up again if that was a reload.
Unloaded ==
    /\ state \in {"unloading", "leaving"}
    /\ holder' \in {holder} \cup (IF holder = "client" THEN {None} ELSE {})
    /\ state' = IF state = "unloading" THEN "setup" ELSE "unloaded"
    /\ client' = None /\ background' = "none"
    /\ reload' = (reload /\ state = "unloading")
    /\ UNCHANGED <<options, flow, worldVars, edits, proved, unheard>>

Enable ==
    /\ state = "unloaded" /\ Spend
    /\ state' = "setup"
    /\ UNCHANGED <<options, reload, flow, worldVars, proved, unheard, runVars>>

\* Variant: the repairs are cleared through the coordinator, if it is there.
RemoveByCoordinator ==
    /\ state \in {"unloaded", "failed"}
    /\ state' = "removed"
    /\ files' = {}
    /\ card' = (card /\ client = None)
    /\ UNCHANGED <<options, reload, flow, accepts, armed, edits, proved, unheard, runVars>>

\* async_remove_entry, after an unload or after one that failed: the stores but
\* the poll plan's, and every repair by name.
async_remove_entry ==
    /\ state \in {"unloaded", "failed"}
    /\ state' = "removed"
    /\ files' = {}
    /\ card' = FALSE
    /\ UNCHANGED <<options, reload, flow, accepts, armed, edits, proved, unheard, runVars>>

\* Home Assistant restarts: the options, the files and the persistent repair stay.
Restart ==
    /\ state \in {"loading", "loaded", "unloading", "failed"} /\ Spend
    /\ files' \in {files, files \cup armed}
    /\ state' = "setup"
    /\ client' = None /\ background' = "none" /\ reload' = FALSE
    /\ flow' = [f \in Flows |-> Idle]
    /\ armed' = {}
    /\ UNCHANGED <<options, accepts, holder, card, proved, unheard>>

\* Another client logs in to the router.
Elsewhere ==
    /\ holder = "client" /\ holder' = None
    /\ UNCHANGED <<state, options, client, background, reload, flow, worldVars,
                   edits, proved, unheard>>

EntryNext ==
    \/ Build \/ Listen \/ _async_background_setup \/ Poll
    \/ \E s \in Stores : DelayedSave(s)
    \/ \E i \in Intervals : Tune(i)
    \/ \E f \in Flows, s \in Secrets \cup {None} : \E h \in Entered[f] : Send(f, h, s)
    \/ \E f \in Flows : Validated(f) \/ NotValidated(f)
    \/ \E h \in Hosts, s \in Secrets : PasswordChanged(h, s)
    \/ Reload \/ Leave \/ Unloaded \/ Enable \/ async_remove_entry \/ Restart \/ Elsewhere

EntrySpec == EntryInit /\ [][EntryNext]_entryVars

\* A setup, an unload and a scheduled reload go on by themselves.
EntryFairSpec ==
    /\ EntrySpec
    /\ WF_entryVars(Build) /\ WF_entryVars(Listen)
    /\ WF_entryVars(Reload) /\ WF_entryVars(Unloaded)

-----------------------------------------------------------------------------
EntryTypeOK ==
    /\ state \in {"setup", "loading", "loaded", "unloading", "leaving", "unloaded",
                 "failed", "removed"}
    /\ options \in [host : Hosts, secret : Secrets, interval : Intervals]
    /\ client \in Clients \cup {None}
    /\ client = None => background = "none"
    /\ holder \in {"client", None}
    /\ files \cup armed \subseteq Stores

\* The credentials stored are always a pair that a router accepted together,
\* however two open forms and changes of the password overlap: what a form
\* validated is what it saves.
SavedIsProved == CredsOf(options) \in proved

\* An entry that is set up, with no reload under way, runs on the credentials
\* and the interval that are stored, so a changed password never needs a
\* restart (__init__.py:514-525), unless the change fell between the building
\* of the client and the registration of the listener.
RunsOnWhatIsSaved ==
    state = "loaded" /\ ~reload /\ ~unheard
    => /\ client.creds = CredsOf(options)
       /\ client.interval = options.interval

\* Nothing but a removal, a failure or the user keeps a stored edit from taking
\* effect.
EditsTakeEffect ==
    (state = "loaded" /\ ~unheard /\ client.creds # CredsOf(options))
    ~> (\/ client # None /\ client.creds = CredsOf(options)
        \/ state \in {"failed", "leaving", "unloaded", "removed"} \/ unheard)

\* No repair of a removed entry is ever shown, though a poll may raise one
\* during the logout of its unload (__init__.py:670-675), if that unload worked.
NoCardLeft == state = "removed" /\ client = None => ~card

\* What is stored was accepted by a router and is what the entry runs on; and
\* the state has its types.
RunsOnWhatIsProved == EntryTypeOK /\ SavedIsProved /\ RunsOnWhatIsSaved
=============================================================================
