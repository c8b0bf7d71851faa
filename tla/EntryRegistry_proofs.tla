------------------------ MODULE EntryRegistry_proofs ------------------------
(***************************************************************************)
(* Proofs about the config entry and about the registry of its entities: of   *)
(* EntryLifecycle, for any hosts, passwords, intervals and forms open at once,  *)
(* RunsOnWhatIsProved and NoCardLeft; of EntityReset, for any entities, keys,   *)
(* payloads, calls and faults, RecordsHold, CallsAreBounded and               *)
(* RestoreIsIdentity.  The two specifications share no variable: each theorem   *)
(* is about one of them.                                                    *)
(*                                                                         *)
(* RunsOnWhatIsSaved speaks of a loaded entry; what the listener compares is    *)
(* taken later than what the client was built from.  The strengthening says    *)
(* so: once it listens, an entry's signature is that of the options whatever   *)
(* was unheard before (Heard), and what the client runs on is theirs from its  *)
(* building on, while nothing was unheard and no reload is due (Built).        *)
(*                                                                         *)
(* The records are in memory and in two files a save writes one after the       *)
(* other, so RegistryIInv says of both what RecordsHold says of memory: what    *)
(* they hold was reported (OnRecord), their counts are exact while no save was  *)
(* torn (Exact, OnDisk), and a baseline is that of some moment (Captured).      *)
(***************************************************************************)
EXTENDS EntryLifecycle, EntityReset, SequenceTheorems, TLAPS


\* The entry has a client from its building to the end of its unload, and after
\* an unload that failed; it listens once it was loaded.
Present ==
    /\ state \in {"setup", "unloaded"} => client = None
    /\ state \in {"loading", "loaded", "unloading", "leaving", "failed"} => client # None
    /\ client # None => (client.signature = None <=> state = "loading")

Heard == Listening => client.signature = CredsOf(options)

Built ==
    state \in {"loading", "loaded"} /\ ~reload /\ ~unheard =>
        client.creds = CredsOf(options) /\ client.interval = options.interval

\* What an open form has validated so far is a host and a password.
FlowTyped == flow \in [Flows -> [typed : Secrets \cup {None}, merged : Creds] \cup {Idle}]

EntryIInv ==
    /\ EntryTypeOK /\ FlowTyped
    /\ Present /\ Heard /\ Built /\ SavedIsProved /\ NoCardLeft

LEMMA CredsOfType ==
  ASSUME NEW o \in [host : Hosts, secret : Secrets, interval : Intervals]
  PROVE  /\ CredsOf(o) \in Creds /\ _reload_signature(o) = CredsOf(o)
         /\ CredsOf(o) # None
  BY EntryAssumption DEF CredsOf, _reload_signature, Creds

LEMMA ClientFacts ==
    /\ None \notin Clients /\ None \notin Creds
    /\ \A c \in Clients : /\ c.creds \in Creds /\ c.interval \in Intervals
                          /\ c.signature \in Creds \cup {None} /\ c.raised \in BOOLEAN
  BY EntryAssumption DEF Clients

LEMMA EntryInitInv == EntryInit => EntryIInv
  <1> SUFFICES ASSUME EntryInit PROVE EntryIInv
    OBVIOUS
  <1>1. EntryTypeOK
    BY EntryAssumption DEF EntryInit, EntryTypeOK
  <1>2. FlowTyped
    BY DEF EntryInit, FlowTyped
  <1> QED
    BY <1>1, <1>2
       DEF EntryInit, EntryIInv, Present, Heard, Listening, Built, SavedIsProved, NoCardLeft

LEMMA BuildInv ==
  ASSUME EntryIInv, Build
  PROVE  EntryIInv'
  <1>1. /\ state = "setup" /\ state' = "loading" /\ unheard' = FALSE
        /\ client' = [creds |-> CredsOf(options), interval |-> options.interval,
                      signature |-> None, raised |-> FALSE]
        /\ UNCHANGED <<options, background, reload, flow, holder, worldVars, edits, proved>>
    BY DEF Build
  <1>2. options \in [host : Hosts, secret : Secrets, interval : Intervals]
    BY DEF EntryIInv, EntryTypeOK
  <1>3. client' \in Clients
    BY <1>1, <1>2, CredsOfType DEF Clients
  <1>4. EntryTypeOK'
    BY <1>1, <1>3, ClientFacts DEF EntryIInv, EntryTypeOK, worldVars
  <1> QED
    BY <1>1, <1>3, <1>4, ClientFacts
       DEF EntryIInv, FlowTyped, Present, Heard, Listening, Built, SavedIsProved,
           NoCardLeft, worldVars, CredsOf

LEMMA ListenInv ==
  ASSUME EntryIInv, Listen
  PROVE  EntryIInv'
  <1>1. /\ state = "loading" /\ state' = "loaded" /\ background' = "login"
        /\ client' = [client EXCEPT !.signature = _reload_signature(options)]
        /\ UNCHANGED <<options, reload, flow, holder, worldVars, edits, proved, unheard>>
    BY DEF Listen
  <1>2. options \in [host : Hosts, secret : Secrets, interval : Intervals]
        /\ client \in Clients
    BY <1>1 DEF EntryIInv, EntryTypeOK, Present
  <1>3. /\ client' \in Clients /\ client'.signature = CredsOf(options)
        /\ client'.creds = client.creds /\ client'.interval = client.interval
    <2>1. client' = [client EXCEPT !.signature = CredsOf(options)]
          /\ CredsOf(options) \in Creds
      BY <1>1, <1>2, CredsOfType
    <2> QED
      BY <1>2, <2>1 DEF Clients
  <1>4. EntryTypeOK'
    BY <1>1, <1>3, ClientFacts DEF EntryIInv, EntryTypeOK, worldVars
  <1>5. CredsOf(options') = CredsOf(options) /\ CredsOf(options) # None
    BY <1>1, <1>2, CredsOfType
  <1> QED
    BY <1>1, <1>3, <1>4, <1>5, ClientFacts
       DEF EntryIInv, FlowTyped, Present, Heard, Listening, Built, SavedIsProved,
           NoCardLeft, worldVars, CredsOf

\* The options are saved: the listener, where there is one, makes the client the
\* options' again or asks for a reload; where there is none it is remembered.
LEMMA UpdatedInv ==
  ASSUME EntryIInv, NEW o \in [host : Hosts, secret : Secrets, interval : Intervals],
         NEW own, _async_options_updated(o, own), CredsOf(o) \in proved',
         state # "removed", FlowTyped', holder' \in {"client", None},
         UNCHANGED <<state, background, worldVars>>
  PROVE  EntryIInv'
  <1>1. /\ EntryTypeOK /\ Present /\ Heard /\ Built
        /\ options' = o /\ (reload' => TRUE)
        /\ SavedIsProved' /\ NoCardLeft'
    BY DEF EntryIInv, _async_options_updated, SavedIsProved, NoCardLeft
  <1>2. CredsOf(o) \in Creds /\ _reload_signature(o) = CredsOf(o) /\ CredsOf(o) # None
    BY CredsOfType
  <1>3. ASSUME client' \in Clients \cup {None}, client' = None <=> client = None
        PROVE  EntryTypeOK'
    BY <1>1, <1>3 DEF EntryTypeOK, worldVars
  <1>4. CASE client = None
    <2>1. client' = None
      BY <1>4 DEF _async_options_updated, Listening
    <2>2. state \notin {"loading", "loaded", "unloading", "leaving", "failed"}
      BY <1>1, <1>4 DEF Present
    <2> QED
      BY <1>1, <1>3, <1>4, <2>1, <2>2
         DEF EntryIInv, Present, Heard, Listening, Built
  <1>5. CASE client # None /\ (~Listening \/ o = options)
    <2>1. client' = client /\ client \in Clients
          /\ (~reload' => ~reload) /\ (~unheard' => ~unheard /\ o = options)
      BY <1>1, <1>5 DEF _async_options_updated, Listening, EntryTypeOK, Heard
    <2>2. Present' /\ Heard' /\ Built'
      BY <1>1, <1>5, <2>1 DEF Present, Heard, Listening, Built
    <2> QED
      BY <1>1, <1>3, <2>1, <2>2 DEF EntryIInv
  <1>6. CASE Listening /\ o # options
    <2>0. /\ client \in Clients /\ client.signature # None /\ client # None
          /\ client.signature = CredsOf(options)
          /\ (~unheard' => ~unheard)
      BY <1>1, <1>6 DEF Listening, EntryTypeOK, Heard, _async_options_updated
    <2>1. CASE CredsOf(o) # client.signature
      <3>1. client' = [client EXCEPT !.signature = CredsOf(o)] /\ reload'
        BY <1>2, <1>6, <2>1 DEF _async_options_updated
      <3>2. client' \in Clients /\ client'.signature = CredsOf(o)
        BY <1>2, <2>0, <3>1 DEF Clients
      <3>3. Present' /\ Heard' /\ Built'
        BY <1>1, <1>2, <2>0, <3>1, <3>2, ClientFacts DEF Present, Heard, Listening, Built
      <3> QED
        BY <1>1, <1>3, <2>0, <3>2, <3>3, ClientFacts DEF EntryIInv
    <2>2. CASE CredsOf(o) = client.signature
      <3>1. client' = [client EXCEPT !.interval = o.interval] /\ (~reload' => ~reload)
        BY <1>2, <1>6, <2>2 DEF _async_options_updated
      <3>2. /\ client' \in Clients /\ client'.signature = client.signature
            /\ client'.interval = o.interval /\ client'.creds = client.creds
        BY <2>0, <3>1 DEF Clients
      <3>3. Present' /\ Heard' /\ Built'
        BY <1>1, <1>2, <2>0, <2>2, <3>1, <3>2, ClientFacts
           DEF Present, Heard, Listening, Built
      <3> QED
        BY <1>1, <1>3, <2>0, <3>2, <3>3, ClientFacts DEF EntryIInv
    <2> QED
      BY <2>1, <2>2
  <1> QED
    BY <1>4, <1>5, <1>6

\* What neither builds the client, changes the options, nor moves the entry.
LEMMA BesideInv ==
  ASSUME EntryIInv, UNCHANGED <<state, options, reload, unheard>>, FlowTyped',
         proved' = proved,
         \/ client' = client
         \/ /\ client # None /\ state # "loading"
            /\ client' = [client EXCEPT !.raised = client'.raised]
            /\ client'.raised \in BOOLEAN,
         client = None => background' = background /\ card' = card,
         holder' \in {"client", None}, files' \cup armed' \subseteq Stores
  PROVE  EntryIInv'
  <1>1. EntryTypeOK /\ Present /\ Heard /\ Built /\ SavedIsProved /\ NoCardLeft
    BY DEF EntryIInv
  <1>2. CASE client' = client
    <2>1. EntryTypeOK'
      BY <1>1, <1>2 DEF EntryTypeOK
    <2>2. Present' /\ Heard' /\ Built' /\ SavedIsProved' /\ NoCardLeft'
      BY <1>1, <1>2 DEF Present, Heard, Listening, Built, SavedIsProved, NoCardLeft
    <2> QED
      BY <2>1, <2>2 DEF EntryIInv
  <1>3. CASE /\ client # None /\ state # "loading"
             /\ client' = [client EXCEPT !.raised = client'.raised]
             /\ client'.raised \in BOOLEAN
    <2>1. client \in Clients
      BY <1>1, <1>3 DEF EntryTypeOK
    <2>2. /\ client' \in Clients /\ client'.creds = client.creds
          /\ client'.interval = client.interval /\ client'.signature = client.signature
      BY <1>3, <2>1 DEF Clients
    <2>3. client' # None
      BY <2>2, ClientFacts
    <2>4. EntryTypeOK'
      BY <1>1, <2>2, <2>3 DEF EntryTypeOK
    <2>5. Present' /\ Heard' /\ Built' /\ SavedIsProved' /\ NoCardLeft'
      BY <1>1, <1>3, <2>2, <2>3
         DEF Present, Heard, Listening, Built, SavedIsProved, NoCardLeft
    <2> QED
      BY <2>4, <2>5 DEF EntryIInv
  <1> QED
    BY <1>2, <1>3

LEMMA BackgroundInv ==
  ASSUME EntryIInv, _async_background_setup
  PROVE  EntryIInv'
  <1>1. EntryTypeOK /\ FlowTyped
    BY DEF EntryIInv
  <1>2. /\ client # None
        /\ UNCHANGED <<state, options, client, reload, flow, accepts, armed, card,
                       edits, proved, unheard>>
    BY DEF _async_background_setup, Running
  <1>3. holder' \in {"client", None}
    BY <1>1 DEF _async_background_setup, Granted, Missed, EntryTypeOK
  <1>4. files' \cup armed' \subseteq Stores
    <2>1. files' \subseteq files \cup {"records"} /\ armed' = armed
      BY DEF _async_background_setup
    <2> QED
      BY <1>1, <2>1 DEF EntryTypeOK, Stores
  <1>5. FlowTyped'
    BY <1>1, <1>2 DEF FlowTyped
  <1> QED
    BY <1>2, <1>3, <1>4, <1>5, BesideInv

LEMMA PollInv ==
  ASSUME EntryIInv, Poll
  PROVE  EntryIInv'
  <1>1. EntryTypeOK /\ FlowTyped
    BY DEF EntryIInv
  <1>2. /\ client # None /\ state # "loading" /\ client \in Clients
        /\ UNCHANGED <<state, options, background, reload, flow, accepts, edits,
                       proved, unheard>>
    BY <1>1 DEF Poll, Running, EntryTypeOK
  <1>3. client' = [client EXCEPT !.raised = client'.raised] /\ client'.raised \in BOOLEAN
    BY <1>2 DEF Poll, Clients
  <1>4. holder' \in {"client", None} /\ files' \cup armed' \subseteq Stores
    BY <1>1 DEF Poll, EntryTypeOK, Stores
  <1>5. FlowTyped'
    BY <1>1, <1>2 DEF FlowTyped
  <1> QED
    BY <1>2, <1>3, <1>4, <1>5, BesideInv

\* The forms, and what happens outside the entry.
LEMMA SendInv ==
  ASSUME EntryIInv, NEW f \in Flows, NEW host \in Entered[f],
         NEW secret \in Secrets \cup {None}, Send(f, host, secret)
  PROVE  EntryIInv'
  <1>1. EntryTypeOK /\ FlowTyped /\ host \in Hosts
    BY EntryAssumption DEF EntryIInv
  <1>2. _merge_credentials(host, secret) \in Creds
    BY <1>1 DEF _merge_credentials, Creds, EntryTypeOK
  <1>3. FlowTyped'
    BY <1>1, <1>2 DEF Send, FlowTyped
  <1>4. UNCHANGED <<state, options, reload, unheard, client, background, card, holder,
                    files, armed, proved>>
    BY DEF Send, worldVars, runVars
  <1> QED
    BY <1>1, <1>3, <1>4, BesideInv DEF EntryTypeOK

LEMMA NotValidatedInv ==
  ASSUME EntryIInv, NEW f \in Flows, NotValidated(f)
  PROVE  EntryIInv'
  <1>1. EntryTypeOK /\ FlowTyped
    BY DEF EntryIInv
  <1>2. FlowTyped'
    BY <1>1 DEF NotValidated, FlowTyped
  <1>3. UNCHANGED <<state, options, reload, unheard, client, background, card,
                    files, armed, proved>>
        /\ holder' \in {holder, None}
    BY DEF NotValidated, worldVars
  <1> QED
    BY <1>1, <1>2, <1>3, BesideInv DEF EntryTypeOK

LEMMA OutsideInv ==
  ASSUME EntryIInv,
         \/ \E s \in Stores : DelayedSave(s)
         \/ \E h \in Hosts, s \in Secrets : PasswordChanged(h, s)
         \/ Elsewhere
  PROVE  EntryIInv'
  <1>1. EntryTypeOK /\ FlowTyped
    BY DEF EntryIInv
  <1>2. UNCHANGED <<state, options, reload, unheard, client, background, card,
                    flow, proved>>
        /\ holder' \in {holder, None} /\ files' \cup armed' \subseteq files \cup armed
    BY DEF DelayedSave, PasswordChanged, Elsewhere, worldVars, runVars
  <1>3. FlowTyped'
    BY <1>1, <1>2 DEF FlowTyped
  <1> QED
    BY <1>1, <1>2, <1>3, BesideInv DEF EntryTypeOK

LEMMA TuneInv ==
  ASSUME EntryIInv, NEW i \in Intervals, Tune(i)
  PROVE  EntryIInv'
  <1> DEFINE o == [options EXCEPT !.interval = i]
  <1>1. options \in [host : Hosts, secret : Secrets, interval : Intervals]
        /\ FlowTyped /\ CredsOf(options) \in proved
        /\ holder \in {"client", None}
    BY DEF EntryIInv, EntryTypeOK, SavedIsProved
  <1>2. /\ o \in [host : Hosts, secret : Secrets, interval : Intervals]
        /\ CredsOf(o) = CredsOf(options)
    BY <1>1 DEF CredsOf
  <1>3. /\ _async_options_updated(o, FALSE) /\ state # "removed"
        /\ UNCHANGED <<state, background, flow, worldVars, holder, proved>>
    BY DEF Tune
  <1>4. FlowTyped'
    BY <1>1, <1>3 DEF FlowTyped
  <1> HIDE DEF o
  <1> QED
    BY <1>1, <1>2, <1>3, <1>4, UpdatedInv

LEMMA ValidatedInv ==
  ASSUME EntryIInv, NEW f \in Flows, Validated(f)
  PROVE  EntryIInv'
  <1> DEFINE o == Saved(f)
             own == f \in SelfReloading /\ client # None
  <1>1. options \in [host : Hosts, secret : Secrets, interval : Intervals] /\ FlowTyped
    BY DEF EntryIInv, EntryTypeOK
  <1>2. /\ _async_options_updated(o, own) /\ state # "removed"
        /\ flow[f] # Idle /\ holder' = None /\ flow' = [flow EXCEPT ![f] = Idle]
        /\ proved' = proved \cup {flow[f].merged}
        /\ UNCHANGED <<state, background, worldVars>>
    BY DEF Validated
  <1>3. flow[f].merged \in Creds
    BY <1>1, <1>2 DEF FlowTyped
  <1>4. /\ o \in [host : Hosts, secret : Secrets, interval : Intervals]
        /\ CredsOf(o) = flow[f].merged
    BY <1>1, <1>3 DEF Saved, CredsOf, Creds
  <1>5. FlowTyped'
    BY <1>1, <1>2 DEF FlowTyped
  <1> HIDE DEF o, own
  <1> QED
    BY <1>2, <1>4, <1>5, UpdatedInv

-----------------------------------------------------------------------------
(* The entry's own moves.                                                    *)

\* An unload begins, or fails: the client stays, and is asked about no more.
LEMMA UnloadInv ==
  ASSUME EntryIInv, state = "loaded", NEW next \in {"unloading", "leaving"}, Unload(next),
         UNCHANGED <<options, background, flow, accepts, holder, files, armed, proved,
                     unheard>>
  PROVE  EntryIInv'
  <1>1. /\ EntryTypeOK /\ Present /\ Heard /\ SavedIsProved /\ FlowTyped
        /\ client \in Clients /\ client # None
    BY DEF EntryIInv, EntryTypeOK, Present
  <1>2. /\ state' \in {"unloading", "leaving", "failed"}
        /\ client' \in Clients /\ client'.signature = client.signature
    <2>1. CASE client' = client /\ state' = "failed"
      BY <1>1, <2>1
    <2>2. CASE client' = [client EXCEPT !.raised = FALSE] /\ state' = next
      BY <1>1, <2>2 DEF Clients
    <2> QED
      BY <2>1, <2>2 DEF Unload
  <1>3. client' # None
    BY <1>2, ClientFacts
  <1>4. EntryTypeOK' /\ FlowTyped'
    BY <1>1, <1>2, <1>3 DEF EntryTypeOK, FlowTyped
  <1>5. Present' /\ Heard' /\ Built' /\ SavedIsProved' /\ NoCardLeft'
    BY <1>1, <1>2, <1>3
       DEF Present, Heard, Listening, Built, SavedIsProved, NoCardLeft
  <1> QED
    BY <1>4, <1>5 DEF EntryIInv

\* The entry is left without a client.
LEMMA GoneInv ==
  ASSUME EntryIInv, client' = None, background' = "none", state' \in {"setup", "unloaded"},
         UNCHANGED <<options, proved>>, FlowTyped', holder' \in {"client", None},
         files' \cup armed' \subseteq Stores
  PROVE  EntryIInv'
  BY DEF EntryIInv, EntryTypeOK, Present, Heard, Listening, Built, SavedIsProved, NoCardLeft

LEMMA MovesInv ==
  ASSUME EntryIInv, Reload \/ Leave \/ Unloaded \/ Enable \/ async_remove_entry \/ Restart
  PROVE  EntryIInv'
  <1>1. EntryTypeOK /\ FlowTyped /\ Present
    BY DEF EntryIInv
  <1>2. CASE Reload \/ Leave
    BY <1>2, UnloadInv DEF Reload, Leave
  <1>3. CASE Unloaded
    <2>1. FlowTyped' /\ holder' \in {"client", None} /\ files' \cup armed' \subseteq Stores
      BY <1>1, <1>3 DEF Unloaded, FlowTyped, EntryTypeOK, worldVars
    <2> QED
      BY <1>3, <2>1, GoneInv DEF Unloaded
  <1>4. CASE Enable
    <2>1. FlowTyped' /\ client' = None /\ background' = "none"
          /\ holder' \in {"client", None} /\ files' \cup armed' \subseteq Stores
      BY <1>1, <1>4 DEF Enable, FlowTyped, EntryTypeOK, Present, worldVars, runVars
    <2> QED
      BY <1>4, <2>1, GoneInv DEF Enable
  <1>5. CASE async_remove_entry
    <2>1. /\ state \in {"unloaded", "failed"} /\ state' = "removed"
          /\ files' = {} /\ card' = FALSE
          /\ UNCHANGED <<options, reload, flow, armed, proved, unheard, client,
                         background, holder>>
      BY <1>5 DEF async_remove_entry, runVars
    <2>2. EntryTypeOK' /\ FlowTyped'
      BY <1>1, <2>1 DEF EntryTypeOK, FlowTyped
    <2> QED
      BY <2>1, <2>2 DEF EntryIInv, Present, Heard, Listening, Built, SavedIsProved,
                        NoCardLeft
  <1>6. CASE Restart
    <2>1. /\ client' = None /\ background' = "none" /\ state' = "setup"
          /\ flow' = [f \in Flows |-> Idle] /\ UNCHANGED <<options, proved, holder>>
          /\ armed' = {} /\ files' \subseteq files \cup armed
      BY <1>6 DEF Restart
    <2>2. FlowTyped'
      BY <2>1 DEF FlowTyped
    <2> QED
      BY <1>1, <2>1, <2>2, GoneInv DEF EntryTypeOK
  <1> QED
    BY <1>2, <1>3, <1>4, <1>5, <1>6

LEMMA EntryNextInv == EntryIInv /\ [EntryNext]_entryVars => EntryIInv'
  <1> SUFFICES ASSUME EntryIInv, [EntryNext]_entryVars PROVE EntryIInv'
    OBVIOUS
  <1>1. CASE UNCHANGED entryVars
    <2>1. FlowTyped' /\ EntryTypeOK
      BY <1>1 DEF entryVars, EntryIInv, FlowTyped
    <2> QED
      BY <1>1, <2>1, BesideInv DEF entryVars, EntryTypeOK
  <1>2. CASE Build \/ Listen \/ _async_background_setup \/ Poll
    BY <1>2, BuildInv, ListenInv, BackgroundInv, PollInv
  <1>3. CASE \/ \E s \in Stores : DelayedSave(s)
             \/ \E h \in Hosts, s \in Secrets : PasswordChanged(h, s)
             \/ Elsewhere
    BY <1>3, OutsideInv
  <1>4. CASE \E i \in Intervals : Tune(i)
    BY <1>4, TuneInv
  <1>5. CASE \E f \in Flows, s \in Secrets \cup {None} : \E h \in Entered[f] : Send(f, h, s)
    BY <1>5, SendInv
  <1>6. CASE \E f \in Flows : Validated(f) \/ NotValidated(f)
    BY <1>6, ValidatedInv, NotValidatedInv
  <1>7. CASE Reload \/ Leave \/ Unloaded \/ Enable \/ async_remove_entry \/ Restart
    BY <1>7, MovesInv
  <1> QED
    BY <1>1, <1>2, <1>3, <1>4, <1>5, <1>6, <1>7 DEF EntryNext

\* The strengthening holds in every state.
THEOREM EntryInductive == EntrySpec => []EntryIInv
  BY EntryInitInv, EntryNextInv, PTL DEF EntrySpec

\* For any forms open at once, hosts, passwords and edits: the credentials stored
\* are a pair a router accepted together, and an entry that is set up, with no
\* reload due, runs on them and on the interval stored, unless the change fell
\* before its listener was there (_async_options_updated, async_setup_entry).
THEOREM RunsOnProved == EntrySpec => []RunsOnWhatIsProved
  <1>1. EntryIInv => RunsOnWhatIsProved
    BY DEF EntryIInv, Built, RunsOnWhatIsProved, RunsOnWhatIsSaved
  <1> QED
    BY <1>1, EntryInductive, PTL

\* A removed entry that was unloaded shows no repair, whenever polls raised one
\* during its unload (async_unload_entry, async_remove_entry).
THEOREM RemovedIsClean == EntrySpec => []NoCardLeft
  <1>1. EntryIInv => NoCardLeft
    BY DEF EntryIInv
  <1> QED
    BY <1>1, EntryInductive, PTL

-----------------------------------------------------------------------------
(* The records and what is done with them.                                   *)

Vals == {p.value : p \in Payloads} \ {Nil}
Histories == {s \in Seq(Vals) : Len(s) <= HistoryCap}
EntityKeys == {e.key : e \in Entities}
Records == [populated : SUBSET Keys, count : Nat,
            snapshot : {Nil} \cup [EntityKeys -> BOOLEAN], lifetimes : Seq(Nat)]
Toll == [value : Vals \cup {Nil}, changes : Nat, kept : SUBSET Keys, reported : SUBSET Keys,
         torn : BOOLEAN, blind : BOOLEAN, unread : BOOLEAN, lost : BOOLEAN]

FilesTyped ==
    /\ recorder \in [device : Ids, history : [Ids -> Histories],
                     observed : [Ids -> Records], faults : Nat]
    /\ stored \in [history : [Ids -> Histories], observed : [Ids -> Records], faults : Nat]
    /\ writer \in [Writers -> {"idle", "history", "observed", "lifetimes"}]
    /\ lifetimes \in Seq(Nat)

RegistryTyped ==
    /\ FilesTyped
    /\ left \in [changes : Nat, starts : Nat, faults : Nat, lifetimes : Nat, gestures : Nat]
    /\ told \in Toll
    /\ registry \in [Entities -> {"on", "user", "integration"}]
    /\ taken \in [Ids -> {Nil} \cup [Entities -> BOOLEAN]]

\* What is on disk was reported, and what was reported is on record.
OnRecord ==
    /\ told.kept \subseteq told.reported
    /\ told.kept \subseteq stored.observed["device"].populated
    /\ told.reported \subseteq recorder.observed["device"].populated

\* No save was cut short and no store failed.
Whole == ~told.torn /\ ~told.blind

\* The records tell of the router what it said, before the first poll names it, too.
Exact == Whole =>
    /\ recorder.observed["device"].count = told.changes
    /\ Newest(recorder.history["device"]) = told.value

\* Where no save is under way, the files hold what is in memory.
OnDisk == Whole =>
    /\ (\A w \in Writers : writer[w] # "history") => stored.history = recorder.history
    /\ (\A w \in Writers : writer[w] \notin {"history", "observed"})
           => stored.observed = recorder.observed

Traced ==
    /\ told.unread => recorder.faults > 0
    /\ told.lost /\ ~told.torn =>
          /\ recorder.faults > 0
          /\ (\A w \in Writers : writer[w] # "observed") => stored.faults > 0

\* The baseline on record is what was captured.
Captured == Whole /\ recorder.observed["device"].snapshot # Nil =>
    \A e \in Entities : Alone(e) =>
        recorder.observed["device"].snapshot[e.key] = taken["device"][e]

RegistryIInv == RegistryTyped /\ OnRecord /\ Exact /\ OnDisk /\ Traced /\ Captured

-----------------------------------------------------------------------------
(* The series of a value.                                                    *)

LEMMA CapFacts == HistoryCap \in Nat /\ HistoryCap >= 1 /\ Nil \notin BOOLEAN /\ Nil \notin Vals
  BY ObservationsAssumption DEF Vals

\* A series that grows is capped at its oldest end.
LEMMA Grown ==
  ASSUME NEW s \in Histories, NEW v \in Vals
  PROVE  Capped(Append(s, v)) \in Histories /\ Newest(Capped(Append(s, v))) = v
  <1> DEFINE grown == Append(s, v)
  <1>1. s \in Seq(Vals) /\ Len(s) <= HistoryCap /\ Len(s) \in Nat
    BY DEF Histories
  <1>2. grown \in Seq(Vals) /\ Len(grown) = Len(s) + 1 /\ grown[Len(grown)] = v /\ grown # <<>>
    BY <1>1
  <1> HIDE DEF grown
  <1>3. CASE Len(grown) > HistoryCap
    <2>1. Capped(grown) = Tail(grown)
      BY <1>3 DEF Capped
    <2>2. Tail(grown) \in Seq(Vals) /\ Len(Tail(grown)) = Len(grown) - 1
          /\ Len(grown) >= 2
          /\ Tail(grown)[Len(grown) - 1] = grown[Len(grown)]
      <3>1. Len(grown) \in Nat /\ Len(grown) >= 2 /\ HistoryCap \in Nat
        BY <1>1, <1>2, <1>3, CapFacts
      <3>2. /\ Tail(grown) \in Seq(Vals) /\ Len(Tail(grown)) = Len(grown) - 1
            /\ \A i \in 1 .. Len(Tail(grown)) : Tail(grown)[i] = grown[i + 1]
        BY <1>2, HeadTailProperties
      <3>3. Len(grown) - 1 \in 1 .. Len(Tail(grown)) /\ (Len(grown) - 1) + 1 = Len(grown)
        BY <3>1, <3>2
      <3> QED
        BY <3>1, <3>2, <3>3
    <2>3. Tail(grown) # <<>>
      <3>1. \A t \in Seq(Vals) : Len(t) >= 1 => t # <<>>
        OBVIOUS
      <3>2. Len(Tail(grown)) >= 1
        BY <1>1, <1>2, <2>2
      <3> QED
        BY <2>2, <3>1, <3>2
    <2> QED
      BY <1>1, <1>2, <2>1, <2>2, <2>3 DEF Histories, Newest, grown
  <1>4. CASE ~(Len(grown) > HistoryCap)
    BY <1>1, <1>2, <1>4, CapFacts DEF Capped, Histories, Newest, grown
  <1> QED
    BY <1>3, <1>4

LEMMA NewestFacts ==
  ASSUME NEW s \in Histories
  PROVE  /\ s = <<>> => Newest(s) = Nil
         /\ s # <<>> => Newest(s) \in Vals /\ Newest(s) # Nil
  <1>1. s \in Seq(Vals)
    BY DEF Histories
  <1>2. s # <<>> => Len(s) \in 1..Len(s)
    BY <1>1
  <1> QED
    BY <1>1, <1>2, CapFacts DEF Newest

-----------------------------------------------------------------------------
(* What a poll teaches.                                                      *)

Recorders == [device : Ids, history : [Ids -> Histories],
              observed : [Ids -> Records], faults : Nat]

LEMMA TransitionFacts ==
  ASSUME NEW r \in Recorders, r.device = "device", NEW v \in Vals \cup {Nil}
  PROVE  LET n == _observe_transitions(r, v)
             newest == Newest(r.history["device"])
         IN  /\ n \in Recorders /\ n.device = "device" /\ n.faults = r.faults
             /\ n.observed["device"].populated = r.observed["device"].populated
             /\ n.observed["device"].snapshot = r.observed["device"].snapshot
             /\ \/ /\ v = Nil \/ v = newest
                   /\ n = r
                \/ /\ v # Nil /\ v # newest
                   /\ Newest(n.history["device"]) = v
                   /\ n.observed["device"].count =
                        IF newest = Nil THEN r.observed["device"].count
                        ELSE r.observed["device"].count + 1
  <1> DEFINE n == _observe_transitions(r, v)
             series == r.history["device"]
             mine == r.observed["device"]
             grown == Capped(Append(series, v))
             count == IF series = <<>> THEN mine.count ELSE mine.count + 1
  <1>1. series \in Histories /\ mine \in Records /\ "device" \in Ids
    BY DEF Recorders, Ids
  <1>2. CASE v = Nil \/ v = Newest(series)
    <2>1. n = r
      BY <1>2 DEF _observe_transitions
    <2> QED
      BY <1>2, <2>1
  <1>3. CASE v # Nil /\ v # Newest(series)
    <2>1. n = [r EXCEPT !.history["device"] = grown,
                        !.observed["device"].count = IF series = <<>> THEN @ ELSE @ + 1]
      BY <1>3 DEF _observe_transitions
    <2>2. grown \in Histories /\ Newest(grown) = v
      BY <1>1, <1>3, Grown
    <2>3. (series = <<>>) <=> (Newest(series) = Nil)
      BY <1>1, NewestFacts
    <2>4. [mine EXCEPT !.count = count] \in Records
          /\ [mine EXCEPT !.count = count].count = count
          /\ [mine EXCEPT !.count = count].populated = mine.populated
          /\ [mine EXCEPT !.count = count].snapshot = mine.snapshot
      BY <1>1 DEF Records
    <2>5. n = [device |-> "device", history |-> [r.history EXCEPT !["device"] = grown],
               observed |-> [r.observed EXCEPT !["device"] = [mine EXCEPT !.count = count]],
               faults |-> r.faults]
      <3> HIDE DEF grown
      <3> QED
        BY <1>1, <2>1 DEF Recorders
    <2> HIDE DEF n, grown, count, series
    <2>6. n \in Recorders /\ n.history["device"] = grown
          /\ n.observed["device"] = [mine EXCEPT !.count = count]
          /\ n.device = "device" /\ n.faults = r.faults
      BY <1>1, <2>2, <2>4, <2>5 DEF Recorders
    <2>7. count = IF Newest(series) = Nil THEN mine.count ELSE mine.count + 1
      BY <2>3 DEF count
    <2> QED
      BY <1>3, <2>2, <2>4, <2>6, <2>7 DEF n, series
  <1> QED
    BY <1>2, <1>3

LEMMA ObserveFacts ==
  ASSUME RegistryTyped, NEW p \in Payloads
  PROVE  LET n == observe(recorder, p)
             newest == Newest(recorder.history["device"])
             before == recorder.observed["device"]
         IN  /\ n \in Recorders /\ n.device = "device" /\ n.faults = recorder.faults
             /\ n.observed["device"].populated = before.populated \cup p.found
             /\ n.observed["device"].snapshot = before.snapshot
             /\ \/ /\ p.value = Nil \/ p.value = newest
                   /\ n.history = recorder.history
                   /\ n.observed["device"].count = before.count
                \/ /\ p.value # Nil /\ p.value # newest
                   /\ Newest(n.history["device"]) = p.value
                   /\ n.observed["device"].count =
                        IF newest = Nil THEN before.count ELSE before.count + 1
  <1> DEFINE r == [recorder EXCEPT !.device = "device"]
             v == p.value
             m == _observe_transitions(r, v)
             mine == m.observed["device"]
             n == observe(recorder, p)
  <1>1. recorder \in Recorders /\ p.found \subseteq Keys /\ v \in Vals \cup {Nil}
        /\ "device" \in Ids
    BY ObservationsAssumption DEF RegistryTyped, FilesTyped, Recorders, Vals, Ids
  <1>2. r \in Recorders /\ r.device = "device" /\ r.history = recorder.history
        /\ r.observed = recorder.observed /\ r.faults = recorder.faults
    BY <1>1 DEF Recorders
  <1>3. n = [m EXCEPT !.observed[m.device].populated = @ \union p.found]
    BY DEF observe, _observe_populated
  <1> HIDE DEF r, v, n
  <1>4. /\ m \in Recorders /\ m.device = "device" /\ m.faults = r.faults
        /\ mine.populated = r.observed["device"].populated
        /\ mine.snapshot = r.observed["device"].snapshot
        /\ \/ /\ v = Nil \/ v = Newest(r.history["device"])
              /\ m = r
           \/ /\ v # Nil /\ v # Newest(r.history["device"])
              /\ Newest(m.history["device"]) = v
              /\ mine.count =
                    IF Newest(r.history["device"]) = Nil THEN r.observed["device"].count
                    ELSE r.observed["device"].count + 1
    BY <1>1, <1>2, TransitionFacts
  <1> HIDE DEF m
  <1> DEFINE grown == [mine EXCEPT !.populated = mine.populated \cup p.found]
  <1>5. mine \in Records
    BY <1>1, <1>4 DEF Recorders
  <1>6. grown \in Records /\ grown.populated = mine.populated \cup p.found
        /\ grown.snapshot = mine.snapshot /\ grown.count = mine.count
    BY <1>1, <1>5 DEF Records
  <1>7. n = [device |-> "device", history |-> m.history,
             observed |-> [m.observed EXCEPT !["device"] = grown], faults |-> m.faults]
    BY <1>1, <1>3, <1>4 DEF Recorders
  <1> HIDE DEF grown
  <1>8. n \in Recorders /\ n.device = "device" /\ n.faults = m.faults
        /\ n.history = m.history /\ n.observed["device"] = grown
    BY <1>1, <1>4, <1>6, <1>7 DEF Recorders
  <1> QED
    BY <1>2, <1>4, <1>6, <1>8 DEF v, n

-----------------------------------------------------------------------------
(* Polls and saves.                                                          *)

LEMMA ObserveInv ==
  ASSUME RegistryIInv, NEW p \in Payloads, _observe(p), UNCHANGED <<registry, taken>>
  PROVE  RegistryIInv'
  <1> DEFINE n == observe(recorder, p)
             changed == told.value # Nil /\ p.value \notin {Nil, told.value}
             before == recorder.observed["device"]
             newest == Newest(recorder.history["device"])
  <1>0. RegistryTyped /\ OnRecord /\ Exact /\ OnDisk /\ Traced /\ Captured
        /\ changed \in BOOLEAN
    BY DEF RegistryIInv
  <1>1. /\ writer["poll"] = "idle" /\ recorder' = n
        /\ changed => left.changes > 0
        /\ writer' = [writer EXCEPT !["poll"] =
               IF [n EXCEPT !.device = recorder.device] # recorder THEN "history" ELSE "lifetimes"]
        /\ told' = [told EXCEPT !.changes = IF changed THEN @ + 1 ELSE @,
                                !.value = IF p.value = Nil THEN @ ELSE p.value,
                                !.reported = @ \union p.found]
        /\ left' = [left EXCEPT !.changes = IF changed THEN @ - 1 ELSE @]
        /\ UNCHANGED <<stored, lifetimes, registry, taken>>
    BY DEF _observe
  <1>2. /\ n \in Recorders /\ n.device = "device" /\ n.faults = recorder.faults
        /\ n.observed["device"].populated = before.populated \cup p.found
        /\ n.observed["device"].snapshot = before.snapshot
        /\ \/ /\ p.value = Nil \/ p.value = newest
              /\ n.history = recorder.history
              /\ n.observed["device"].count = before.count
           \/ /\ p.value # Nil /\ p.value # newest
              /\ Newest(n.history["device"]) = p.value
              /\ n.observed["device"].count =
                   IF newest = Nil THEN before.count ELSE before.count + 1
    BY <1>0, ObserveFacts
  <1>3. p.value \in Vals \cup {Nil} /\ p.found \subseteq Keys
    BY ObservationsAssumption DEF Vals
  <1> HIDE DEF n, changed
  <1>4. told' \in Toll /\ told'.kept = told.kept /\ told'.reported = told.reported \cup p.found
        /\ told'.torn = told.torn /\ told'.blind = told.blind
        /\ told'.unread = told.unread /\ told'.lost = told.lost
        /\ told'.changes = (IF changed THEN told.changes + 1 ELSE told.changes)
        /\ told'.value = (IF p.value = Nil THEN told.value ELSE p.value)
    <2> DEFINE changes == IF changed THEN told.changes + 1 ELSE told.changes
               value == IF p.value = Nil THEN told.value ELSE p.value
    <2>1. told \in Toll
      BY <1>0 DEF RegistryTyped
    <2>2. changes \in Nat /\ value \in Vals \cup {Nil} /\ told.reported \cup p.found \subseteq Keys
      BY <1>3, <2>1 DEF Toll
    <2>3. told' = [told EXCEPT !.changes = changes, !.value = value,
                               !.reported = told.reported \cup p.found]
      BY <1>1
    <2> HIDE DEF changes, value
    <2>4. told' \in Toll /\ told'.kept = told.kept
          /\ told'.reported = told.reported \cup p.found
          /\ told'.torn = told.torn /\ told'.blind = told.blind
          /\ told'.unread = told.unread /\ told'.lost = told.lost
          /\ told'.changes = changes /\ told'.value = value
      BY <2>1, <2>2, <2>3 DEF Toll
    <2> QED
      BY <2>4 DEF changes, value
  <1>5. writer \in [Writers -> {"idle", "history", "observed", "lifetimes"}]
        /\ writer' \in [Writers -> {"idle", "history", "observed", "lifetimes"}]
        /\ "poll" \in Writers
        /\ \A w \in Writers : w # "poll" => writer'[w] = writer[w]
    BY <1>0, <1>1 DEF RegistryTyped, FilesTyped, Writers
  <1>6. RegistryTyped'
    <2>1. left' \in [changes : Nat, starts : Nat, faults : Nat, lifetimes : Nat, gestures : Nat]
      BY <1>0, <1>1 DEF RegistryTyped
    <2> QED
      BY <1>0, <1>1, <1>2, <1>4, <1>5, <2>1 DEF RegistryTyped, FilesTyped, Recorders
  <1>7. OnRecord'
    BY <1>0, <1>1, <1>2, <1>4 DEF OnRecord
  <1>8. Exact'
    <2>1. SUFFICES ASSUME Whole
                   PROVE  /\ n.observed["device"].count = told'.changes
                          /\ Newest(n.history["device"]) = told'.value
      BY <1>1, <1>4 DEF Exact, Whole
    <2>2. before.count = told.changes /\ newest = told.value
      BY <1>0, <2>1 DEF Exact
    <2> QED
      BY <1>2, <1>4, <2>2 DEF changed
  <1>9. OnDisk'
    <2>1. CASE [n EXCEPT !.device = recorder.device] = recorder
      <3>1. n.history = recorder.history /\ n.observed = recorder.observed
        BY <1>2, <2>1 DEF Recorders
      <3>2. writer'["poll"] = "lifetimes"
        BY <1>1, <1>5, <2>1
      <3> QED
        BY <1>0, <1>1, <1>4, <1>5, <3>1, <3>2 DEF OnDisk, Whole
    <2>2. CASE [n EXCEPT !.device = recorder.device] # recorder
      <3>1. writer'["poll"] = "history"
        BY <1>1, <1>5, <2>2
      <3> QED
        BY <1>5, <3>1 DEF OnDisk
    <2> QED
      BY <2>1, <2>2
  <1>10. Traced'
    <2>1. (\A w \in Writers : writer'[w] # "observed") => (\A w \in Writers : writer[w] # "observed")
      BY <1>1, <1>5
    <2> QED
      BY <1>0, <1>1, <1>2, <1>4, <2>1 DEF Traced
  <1>11. Captured'
    BY <1>0, <1>1, <1>2, <1>4 DEF Captured, Whole
  <1> QED
    BY <1>6, <1>7, <1>8, <1>9, <1>10, <1>11 DEF RegistryIInv

\* One of the two writes, done or failed.  A failed one leaves the files as they are.
LEMMA FailedSaveInv ==
  ASSUME RegistryIInv, NEW w \in Writers, writer[w] \in {"history", "observed"},
         writer' \in [Writers -> {"idle", "history", "observed", "lifetimes"}],
         left.faults > 0, left' = [left EXCEPT !.faults = @ - 1],
         told' = [told EXCEPT !.torn = TRUE],
         UNCHANGED <<stored, recorder, lifetimes, registry, taken>>
  PROVE  RegistryIInv'
  <1>1. told' \in Toll /\ told'.torn /\ told'.kept = told.kept /\ told'.reported = told.reported
        /\ told'.unread = told.unread
    BY DEF RegistryIInv, RegistryTyped, Toll
  <1>2. RegistryTyped'
    <2>1. left' \in [changes : Nat, starts : Nat, faults : Nat, lifetimes : Nat, gestures : Nat]
      BY DEF RegistryIInv, RegistryTyped
    <2> QED
      BY <1>1, <2>1 DEF RegistryIInv, RegistryTyped, FilesTyped
  <1>3. OnRecord'
    BY <1>1 DEF RegistryIInv, OnRecord
  <1>4. Exact' /\ OnDisk' /\ Captured'
    BY <1>1 DEF Exact, OnDisk, Captured, Whole
  <1>5. Traced'
    BY <1>1 DEF RegistryIInv, Traced
  <1> QED
    BY <1>2, <1>3, <1>4, <1>5 DEF RegistryIInv

LEMMA SaveHistoryInv ==
  ASSUME RegistryIInv, NEW w \in Writers, SaveHistory(w), UNCHANGED <<registry, taken>>
  PROVE  RegistryIInv'
  <1>0. RegistryTyped /\ OnRecord /\ Exact /\ OnDisk /\ Traced /\ Captured
    BY DEF RegistryIInv
  <1>1. /\ writer[w] = "history" /\ writer' = [writer EXCEPT ![w] = "observed"]
        /\ UNCHANGED <<recorder, polled, lifetimes, registry, taken>>
        /\ \/ /\ stored' = [stored EXCEPT !.history = recorder.history]
              /\ told' = [told EXCEPT !.lost = @ \/ told.unread] /\ left' = left
           \/ /\ left.faults > 0 /\ left' = [left EXCEPT !.faults = @ - 1]
              /\ told' = [told EXCEPT !.torn = TRUE] /\ stored' = stored
    BY DEF SaveHistory, SavedHistory
  <1>2. writer' \in [Writers -> {"idle", "history", "observed", "lifetimes"}]
        /\ writer'[w] = "observed"
    BY <1>0, <1>1 DEF RegistryTyped, FilesTyped
  <1>3. CASE left.faults > 0 /\ left' = [left EXCEPT !.faults = @ - 1]
             /\ told' = [told EXCEPT !.torn = TRUE] /\ stored' = stored
    BY <1>1, <1>2, <1>3, FailedSaveInv
  <1>4. CASE stored' = [stored EXCEPT !.history = recorder.history]
             /\ told' = [told EXCEPT !.lost = @ \/ told.unread] /\ left' = left
    <2>1. stored' \in [history : [Ids -> Histories], observed : [Ids -> Records], faults : Nat]
          /\ stored'.history = recorder.history /\ stored'.observed = stored.observed
          /\ stored'.faults = stored.faults
      BY <1>0, <1>4 DEF RegistryTyped, FilesTyped
    <2>2. told' \in Toll /\ told'.kept = told.kept /\ told'.reported = told.reported
          /\ told'.value = told.value /\ told'.changes = told.changes
          /\ told'.torn = told.torn /\ told'.blind = told.blind /\ told'.unread = told.unread
          /\ (told'.lost <=> told.lost \/ told.unread)
      <3>1. (told.lost \/ told.unread) \in BOOLEAN
        BY <1>0 DEF RegistryTyped, Toll
      <3> QED
        BY <1>0, <1>4, <3>1 DEF RegistryTyped, Toll
    <2>3. RegistryTyped'
      BY <1>0, <1>1, <1>2, <1>4, <2>1, <2>2 DEF RegistryTyped, FilesTyped
    <2>4. OnRecord' /\ Exact' /\ Captured'
      BY <1>0, <1>1, <2>1, <2>2 DEF OnRecord, Exact, Captured, Whole
    <2>5. OnDisk' /\ Traced'
      BY <1>0, <1>1, <1>2, <2>1, <2>2 DEF OnDisk, Traced
    <2> QED
      BY <2>3, <2>4, <2>5 DEF RegistryIInv
  <1> QED
    BY <1>1, <1>3, <1>4

LEMMA SaveObservedInv ==
  ASSUME RegistryIInv, NEW w \in Writers, SaveObserved(w), UNCHANGED <<registry, taken>>
  PROVE  RegistryIInv'
  <1>0. RegistryTyped /\ OnRecord /\ Exact /\ OnDisk /\ Traced /\ Captured
    BY DEF RegistryIInv
  <1>1. /\ writer[w] = "observed" /\ writer' = [writer EXCEPT ![w] = AfterObserved(w)]
        /\ UNCHANGED <<recorder, polled, lifetimes, registry, taken>>
        /\ \/ /\ stored' = [stored EXCEPT !.observed = recorder.observed,
                                          !.faults = recorder.faults]
              /\ told' = [told EXCEPT !.kept = @ \union told.reported] /\ left' = left
           \/ /\ left.faults > 0 /\ left' = [left EXCEPT !.faults = @ - 1]
              /\ told' = [told EXCEPT !.torn = TRUE] /\ stored' = stored
    BY DEF SaveObserved, SavedObserved
  <1>2. writer' \in [Writers -> {"idle", "history", "observed", "lifetimes"}]
        /\ writer'[w] \in {"idle", "lifetimes"}
        /\ \A x \in Writers : x # w => writer'[x] = writer[x]
    BY <1>0, <1>1 DEF RegistryTyped, FilesTyped, AfterObserved
  <1>3. CASE left.faults > 0 /\ left' = [left EXCEPT !.faults = @ - 1]
             /\ told' = [told EXCEPT !.torn = TRUE] /\ stored' = stored
    BY <1>1, <1>2, <1>3, FailedSaveInv
  <1>4. CASE stored' = [stored EXCEPT !.observed = recorder.observed,
                                      !.faults = recorder.faults]
             /\ told' = [told EXCEPT !.kept = @ \union told.reported] /\ left' = left
    <2>1. stored' \in [history : [Ids -> Histories], observed : [Ids -> Records], faults : Nat]
          /\ stored'.history = stored.history /\ stored'.observed = recorder.observed
          /\ stored'.faults = recorder.faults
      BY <1>0, <1>4 DEF RegistryTyped, FilesTyped
    <2>2. told' \in Toll /\ told'.kept = told.kept \cup told.reported
          /\ told'.reported = told.reported
          /\ told'.value = told.value /\ told'.changes = told.changes
          /\ told'.torn = told.torn /\ told'.blind = told.blind /\ told'.unread = told.unread
          /\ told'.lost = told.lost
      BY <1>0, <1>4 DEF RegistryTyped, Toll
    <2>3. RegistryTyped'
      BY <1>0, <1>1, <1>2, <1>4, <2>1, <2>2 DEF RegistryTyped, FilesTyped
    <2>4. OnRecord' /\ Exact' /\ Captured'
      BY <1>0, <1>1, <2>1, <2>2 DEF OnRecord, Exact, Captured, Whole
    <2>5. OnDisk'
      <3>1. (\A x \in Writers : writer'[x] # "history")
               => (\A x \in Writers : writer[x] # "history")
        BY <1>1, <1>2
      <3> QED
        BY <1>0, <1>1, <2>1, <2>2, <3>1 DEF OnDisk, Whole
    <2>6. Traced'
      BY <1>0, <1>1, <2>1, <2>2 DEF Traced
    <2> QED
      BY <2>3, <2>4, <2>5, <2>6 DEF RegistryIInv
  <1> QED
    BY <1>1, <1>3, <1>4

\* The lifetimes or the baseline replaced in the record kept now.
LEMMA PersistInv ==
  ASSUME RegistryIInv, _persist_session_lifetimes, UNCHANGED <<registry, taken>>
  PROVE  RegistryIInv'
  <1> DEFINE d == recorder.device
             mine == recorder.observed[d]
             longer == [mine EXCEPT !.lifetimes = lifetimes]
  <1>0. RegistryTyped /\ OnRecord /\ Exact /\ OnDisk /\ Traced /\ Captured
    BY DEF RegistryIInv
  <1>1. /\ writer["poll"] = "lifetimes" /\ UNCHANGED <<stored, lifetimes, left, told>>
        /\ \/ /\ recorder' = [recorder EXCEPT !.observed[d].lifetimes = lifetimes]
              /\ writer' = [writer EXCEPT !["poll"] = "history"]
           \/ /\ writer' = [writer EXCEPT !["poll"] = "idle"] /\ recorder' = recorder
    BY DEF _persist_session_lifetimes
  <1>2. writer' \in [Writers -> {"idle", "history", "observed", "lifetimes"}]
        /\ "poll" \in Writers /\ \A w \in Writers : w # "poll" => writer'[w] = writer[w]
    BY <1>0, <1>1 DEF RegistryTyped, FilesTyped, Writers
  <1>3. CASE /\ recorder' = [recorder EXCEPT !.observed[d].lifetimes = lifetimes]
             /\ writer' = [writer EXCEPT !["poll"] = "history"]
    <2>1. mine \in Records /\ d \in Ids /\ lifetimes \in Seq(Nat)
      BY <1>0 DEF RegistryTyped, FilesTyped
    <2>2. longer \in Records /\ longer.count = mine.count
          /\ longer.populated = mine.populated /\ longer.snapshot = mine.snapshot
      BY <2>1 DEF Records
    <2>3. recorder' = [device |-> d, history |-> recorder.history,
                       observed |-> [recorder.observed EXCEPT ![d] = longer],
                       faults |-> recorder.faults]
      BY <1>0, <1>3 DEF RegistryTyped, FilesTyped
    <2> HIDE DEF longer
    <2>4. recorder' \in Recorders /\ recorder'.history = recorder.history
          /\ recorder'.faults = recorder.faults
          /\ recorder'.observed["device"].count = recorder.observed["device"].count
          /\ recorder'.observed["device"].populated = recorder.observed["device"].populated
          /\ recorder'.observed["device"].snapshot = recorder.observed["device"].snapshot
      <3>1. /\ recorder'.observed = [recorder.observed EXCEPT ![d] = longer]
            /\ recorder'.history = recorder.history /\ recorder'.faults = recorder.faults
            /\ recorder' \in Recorders
        BY <1>0, <2>1, <2>2, <2>3 DEF RegistryTyped, FilesTyped, Recorders
      <3>2. recorder.observed \in [Ids -> Records]
        BY <1>0 DEF RegistryTyped, FilesTyped
      <3>3. recorder'.observed["device"] =
               IF d = "device" THEN longer ELSE recorder.observed["device"]
        BY <2>1, <3>1, <3>2 DEF Ids
      <3> QED
        BY <2>2, <3>1, <3>3
    <2>5. writer'["poll"] = "history"
      BY <1>0, <1>2, <1>3 DEF RegistryTyped, FilesTyped
    <2>6. RegistryTyped'
      BY <1>0, <1>1, <1>2, <2>4 DEF RegistryTyped, FilesTyped, Recorders
    <2>7. OnRecord' /\ Exact' /\ Captured'
      BY <1>0, <1>1, <2>4 DEF OnRecord, Exact, Captured, Whole
    <2>8. OnDisk'
      BY <1>2, <2>5 DEF OnDisk
    <2>9. Traced'
      <3>1. (\A w \in Writers : writer'[w] # "observed")
                => (\A w \in Writers : writer[w] # "observed")
        BY <1>1, <1>2
      <3> QED
        BY <1>0, <1>1, <2>4, <3>1 DEF Traced
    <2> QED
      BY <2>6, <2>7, <2>8, <2>9 DEF RegistryIInv
  <1>4. CASE writer' = [writer EXCEPT !["poll"] = "idle"] /\ recorder' = recorder
    <2>1. /\ (\A w \in Writers : writer'[w] # "history")
                => (\A w \in Writers : writer[w] # "history")
          /\ (\A w \in Writers : writer'[w] # "observed")
                => (\A w \in Writers : writer[w] # "observed")
          /\ (\A w \in Writers : writer'[w] \notin {"history", "observed"})
                => (\A w \in Writers : writer[w] \notin {"history", "observed"})
      BY <1>1, <1>2
    <2>2. RegistryTyped'
      BY <1>0, <1>1, <1>2, <1>4 DEF RegistryTyped, FilesTyped
    <2>3. OnRecord' /\ Exact' /\ Captured'
      BY <1>0, <1>1, <1>4 DEF OnRecord, Exact, Captured, Whole
    <2>4. OnDisk' /\ Traced'
      BY <1>0, <1>1, <1>4, <2>1 DEF OnDisk, Traced, Whole
    <2> QED
      BY <2>2, <2>3, <2>4 DEF RegistryIInv
  <1> QED
    BY <1>1, <1>3, <1>4

LEMMA SessionEndsInv ==
  ASSUME RegistryIInv, SessionEnds, UNCHANGED <<registry, taken>>
  PROVE  RegistryIInv'
  <1>1. /\ lifetimes' \in Seq(Nat)
        /\ left' \in [changes : Nat, starts : Nat, faults : Nat, lifetimes : Nat, gestures : Nat]
        /\ UNCHANGED <<recorder, stored, writer, told, registry, taken>>
    <2>1. left \in [changes : Nat, starts : Nat, faults : Nat, lifetimes : Nat, gestures : Nat]
          /\ lifetimes \in Seq(Nat)
      BY DEF RegistryIInv, RegistryTyped, FilesTyped
    <2>2. left.lifetimes > 0 /\ left' = [left EXCEPT !.lifetimes = @ - 1]
          /\ lifetimes' = Append(lifetimes, left.lifetimes)
      BY DEF SessionEnds
    <2> QED
      BY <2>1, <2>2 DEF SessionEnds
  <1>2. RegistryTyped'
    BY <1>1 DEF RegistryIInv, RegistryTyped, FilesTyped
  <1>3. OnRecord' /\ Exact' /\ Captured'
    BY <1>1 DEF RegistryIInv, OnRecord, Exact, Captured, Whole
  <1>4. OnDisk' /\ Traced'
    BY <1>1 DEF RegistryIInv, OnDisk, Traced, Whole
  <1> QED
    BY <1>2, <1>3, <1>4 DEF RegistryIInv

LEMMA NothingTyped == NoRecords \in [Ids -> Records] /\ NoHistory \in [Ids -> Histories]
  <1>1. Blank \in Records
    BY DEF Blank, Records
  <1>2. <<>> \in Histories
    BY CapFacts DEF Histories
  <1> QED
    BY <1>1, <1>2 DEF NoRecords, NoHistory

\* A start: what no save was under way for is in memory again; a store that cannot
\* be read is counted.
LEMMA LoadInv ==
  ASSUME RegistryIInv, NEW budget, LoadFrom(budget),
         budget \in [changes : Nat, starts : Nat, faults : Nat, lifetimes : Nat, gestures : Nat],
         budget.faults = left.faults,
         registry' \in [Entities -> {"on", "user", "integration"}], taken' = taken
  PROVE  RegistryIInv'
  <1>0. RegistryTyped /\ OnRecord /\ Exact /\ OnDisk /\ Traced /\ Captured
    BY DEF RegistryIInv
  <1>1. PICK h \in BOOLEAN, o \in BOOLEAN :
          LET unread == (IF h THEN 0 ELSE 1) + (IF o THEN 0 ELSE 1)
          IN  /\ unread <= left.faults
              /\ left' = [budget EXCEPT !.faults = @ - unread]
              /\ recorder' = Loaded(h, o)
              /\ lifetimes' = recorder'.observed["entry"].lifetimes
              /\ writer' = [w \in Writers |-> "idle"]
              /\ told' = [told EXCEPT
                    !.unread = ~h /\ stored.history # NoHistory,
                    !.kept = IF o THEN @ ELSE {},
                    !.reported = IF o THEN told.kept ELSE {},
                    !.blind = @ \/ ~h \/ ~o,
                    !.torn = @ \/ \E w \in Writers : writer[w] \in {"history", "observed"}]
              /\ UNCHANGED stored
    BY Zenon DEF LoadFrom
  <1> DEFINE unread == (IF h THEN 0 ELSE 1) + (IF o THEN 0 ELSE 1)
             active == \E w \in Writers : writer[w] \in {"history", "observed"}
  <1>2. unread \in Nat /\ (~h \/ ~o => unread > 0)
    OBVIOUS
  <1>3. left' \in [changes : Nat, starts : Nat, faults : Nat, lifetimes : Nat, gestures : Nat]
    BY <1>0, <1>1, <1>2 DEF RegistryTyped
  <1>4. told' \in Toll /\ told'.value = told.value /\ told'.changes = told.changes
        /\ told'.lost = told.lost
        /\ told'.kept = (IF o THEN told.kept ELSE {})
        /\ told'.reported = (IF o THEN told.kept ELSE {})
        /\ (told'.unread => ~h)
        /\ (~told'.blind => ~told.blind /\ h /\ o)
        /\ (~told'.torn => ~told.torn /\ ~active)
    <2>1. told \in Toll
      BY <1>0 DEF RegistryTyped
    <2>2. (~h /\ stored.history # NoHistory) \in BOOLEAN /\ (told.blind \/ ~h \/ ~o) \in BOOLEAN
          /\ (told.torn \/ active) \in BOOLEAN
      OBVIOUS
    <2>3. told' = [told EXCEPT !.unread = (~h /\ stored.history # NoHistory),
                    !.kept = IF o THEN told.kept ELSE {},
                    !.reported = IF o THEN told.kept ELSE {},
                    !.blind = (told.blind \/ ~h \/ ~o), !.torn = (told.torn \/ active)]
      BY <1>1
    <2> HIDE DEF active
    <2> QED
      BY <2>1, <2>2, <2>3 DEF Toll
  <1>5. stored \in [history : [Ids -> Histories], observed : [Ids -> Records], faults : Nat]
        /\ stored' = stored
    BY <1>0, <1>1 DEF RegistryTyped, FilesTyped
  <1>6. recorder' \in Recorders /\ recorder'.device = "entry"
        /\ recorder'.history = (IF h THEN stored.history ELSE NoHistory)
        /\ recorder'.observed = (IF o THEN stored.observed ELSE NoRecords)
        /\ recorder'.faults = unread + (IF o THEN stored.faults ELSE 0)
    <2>1. recorder' = [device |-> "entry",
             history |-> IF h THEN stored.history ELSE NoHistory,
             observed |-> IF o THEN stored.observed ELSE NoRecords,
             faults |-> unread + (IF o THEN stored.faults ELSE 0)]
      BY <1>1 DEF Loaded
    <2> HIDE DEF unread
    <2> QED
      BY <1>2, <1>5, <2>1, NothingTyped DEF Recorders, Ids
  <1>7. writer' \in [Writers -> {"idle", "history", "observed", "lifetimes"}]
        /\ \A w \in Writers : writer'[w] = "idle"
    BY <1>1
  <1>8. lifetimes' \in Seq(Nat)
    <2>1. lifetimes' = recorder'.observed["entry"].lifetimes
      BY <1>1
    <2> QED
      BY <1>6, <2>1 DEF Recorders, Records, Ids
  <1>9. ~told'.torn /\ ~told'.blind =>
           Whole /\ recorder'.history = recorder.history /\ recorder'.observed = recorder.observed
    BY <1>0, <1>4, <1>6 DEF OnDisk, Whole
  <1>10. RegistryTyped'
    BY <1>0, <1>3, <1>4, <1>5, <1>6, <1>7, <1>8 DEF RegistryTyped, FilesTyped, Recorders
  <1>11. OnRecord'
    BY <1>0, <1>4, <1>5, <1>6, <1>9 DEF OnRecord
  <1>12. Exact' /\ Captured'
    BY <1>0, <1>4, <1>9 DEF Exact, Captured, Whole
  <1>13. OnDisk'
    <2>1. Whole' => recorder'.history = stored.history /\ recorder'.observed = stored.observed
      BY <1>4, <1>6 DEF Whole
    <2> QED
      BY <1>5, <2>1 DEF OnDisk
  <1>14. Traced'
    <2>1. told'.unread => recorder'.faults > 0
      BY <1>2, <1>4, <1>5, <1>6
    <2>2. ASSUME told'.lost, ~told'.torn
          PROVE  recorder'.faults > 0 /\ stored'.faults > 0
      <3>1. stored.faults > 0
        BY <1>0, <1>4, <2>2 DEF Traced
      <3> QED
        BY <1>2, <1>5, <1>6, <3>1
    <2> QED
      BY <2>1, <2>2 DEF Traced
  <1> QED
    BY <1>10, <1>11, <1>12, <1>13, <1>14 DEF RegistryIInv

-----------------------------------------------------------------------------
(* The calls and the user.                                                   *)

\* A baseline: what it holds of an entity alone under its key is that entity's state.
LEMMA CaptureFacts ==
  ASSUME NEW m \in Captures
  PROVE  /\ m \in [EntityKeys -> BOOLEAN]
         /\ \A e \in Entities : Alone(e) => m[e.key] = IsOn(e)
  <1>1. m \in [EntityKeys -> BOOLEAN]
        /\ \A k \in EntityKeys : \E e \in Entities : e.key = k /\ m[k] = IsOn(e)
    BY DEF Captures, EntityKeys
  <1>2. ASSUME NEW e \in Entities, Alone(e)
        PROVE  m[e.key] = IsOn(e)
    <2>1. PICK f \in Entities : f.key = e.key /\ m[e.key] = IsOn(f)
      BY <1>1 DEF EntityKeys
    <2> QED
      BY <1>2, <2>1 DEF Alone
  <1> QED
    BY <1>1, <1>2

LEMMA SaveSnapshotInv ==
  ASSUME RegistryIInv, NEW c \in Calls, SaveSnapshot(c)
  PROVE  RegistryIInv'
  <1> DEFINE d == recorder.device
             mine == recorder.observed[d]
  <1>0. RegistryTyped /\ OnRecord /\ Exact /\ OnDisk /\ Traced /\ Captured
    BY DEF RegistryIInv
  <1>1. PICK m \in Captures : recorder' = [recorder EXCEPT !.observed[d].snapshot = m]
    BY DEF SaveSnapshot
  <1>2. /\ writer["service"] = "idle" /\ writer' = [writer EXCEPT !["service"] = "history"]
        /\ left.gestures > 0 /\ left' = [left EXCEPT !.gestures = @ - 1]
        /\ taken' = [taken EXCEPT ![d] = Registered]
        /\ UNCHANGED <<stored, polled, lifetimes, told, registry>>
    BY DEF SaveSnapshot, Gesture
  <1>3. m \in [EntityKeys -> BOOLEAN] /\ \A e \in Entities : Alone(e) => m[e.key] = IsOn(e)
    BY CaptureFacts
  <1> DEFINE longer == [mine EXCEPT !.snapshot = m]
  <1>4. mine \in Records /\ d \in Ids /\ recorder \in Recorders
        /\ recorder.observed \in [Ids -> Records]
    BY <1>0 DEF RegistryTyped, FilesTyped, Recorders
  <1>5. longer \in Records /\ longer.count = mine.count
        /\ longer.populated = mine.populated /\ longer.snapshot = m
    BY <1>3, <1>4 DEF Records
  <1>6. recorder' = [device |-> d, history |-> recorder.history,
                     observed |-> [recorder.observed EXCEPT ![d] = longer],
                     faults |-> recorder.faults]
    BY <1>1, <1>4 DEF Recorders
  <1> HIDE DEF longer
  <1>7. recorder' \in Recorders /\ recorder'.history = recorder.history
        /\ recorder'.faults = recorder.faults
        /\ recorder'.observed["device"] =
               IF d = "device" THEN longer ELSE recorder.observed["device"]
    BY <1>4, <1>5, <1>6 DEF Recorders, Ids
  <1>8. recorder'.observed["device"].count = recorder.observed["device"].count
        /\ recorder'.observed["device"].populated = recorder.observed["device"].populated
    BY <1>5, <1>7
  <1>9. Registered \in [Entities -> BOOLEAN] /\ \A e \in Entities : Registered[e] = IsOn(e)
    BY DEF Registered, IsOn
  <1>10. taken' \in [Ids -> {Nil} \cup [Entities -> BOOLEAN]]
         /\ taken'["device"] = IF d = "device" THEN Registered ELSE taken["device"]
    BY <1>0, <1>2, <1>4, <1>9 DEF RegistryTyped, Ids
  <1>11. writer' \in [Writers -> {"idle", "history", "observed", "lifetimes"}]
         /\ writer'["service"] = "history" /\ "service" \in Writers
         /\ \A w \in Writers : w # "service" => writer'[w] = writer[w]
    BY <1>0, <1>2 DEF RegistryTyped, FilesTyped, Writers
  <1>12. RegistryTyped'
    <2>1. left' \in [changes : Nat, starts : Nat, faults : Nat, lifetimes : Nat, gestures : Nat]
      BY <1>0, <1>2 DEF RegistryTyped
    <2> QED
      BY <1>0, <1>2, <1>7, <1>10, <1>11, <2>1 DEF RegistryTyped, FilesTyped, Recorders
  <1>13. OnRecord' /\ Exact'
    BY <1>0, <1>2, <1>7, <1>8 DEF OnRecord, Exact, Whole
  <1>14. OnDisk'
    BY <1>11 DEF OnDisk
  <1>15. Traced'
    <2>1. (\A w \in Writers : writer'[w] # "observed")
              => (\A w \in Writers : writer[w] # "observed")
      BY <1>2, <1>11
    <2> QED
      BY <1>0, <1>2, <1>7, <2>1 DEF Traced
  <1>16. Captured'
    <2>1. CASE d = "device"
      <3>1. recorder'.observed["device"].snapshot = m /\ taken'["device"] = Registered
        BY <1>5, <1>7, <1>10, <2>1
      <3> QED
        BY <1>3, <1>9, <3>1 DEF Captured
    <2>2. CASE d # "device"
      BY <1>0, <1>2, <1>7, <1>10, <2>2 DEF Captured, Whole
    <2> QED
      BY <2>1, <2>2
  <1> QED
    BY <1>12, <1>13, <1>14, <1>15, <1>16 DEF RegistryIInv

\* A start that a gesture asks for has used it.
LEMMA ReloadingInv ==
  ASSUME RegistryIInv, Reloading, taken' = taken,
         registry' \in [Entities -> {"on", "user", "integration"}]
  PROVE  RegistryIInv'
  <1> DEFINE budget == [left EXCEPT !.gestures = @ - 1]
  <1>1. LoadFrom(budget) /\ left.gestures > 0
    BY DEF Reloading
  <1>2. budget \in [changes : Nat, starts : Nat, faults : Nat, lifetimes : Nat, gestures : Nat]
        /\ budget.faults = left.faults
    BY <1>1 DEF RegistryIInv, RegistryTyped
  <1> HIDE DEF budget
  <1> QED
    BY <1>1, <1>2, LoadInv

LEMMA StartInv ==
  ASSUME RegistryIInv, Start, UNCHANGED <<registry, taken>>
  PROVE  RegistryIInv'
  <1> DEFINE budget == [left EXCEPT !.starts = @ - 1]
  <1>1. LoadFrom(budget) /\ left.starts > 0
    BY DEF Start
  <1>2. budget \in [changes : Nat, starts : Nat, faults : Nat, lifetimes : Nat, gestures : Nat]
        /\ budget.faults = left.faults
        /\ registry' \in [Entities -> {"on", "user", "integration"}]
    BY <1>1 DEF RegistryIInv, RegistryTyped
  <1> HIDE DEF budget
  <1> QED
    BY <1>1, <1>2, LoadInv

LEMMA AppliedTyped ==
  ASSUME NEW p, registry \in [Entities -> {"on", "user", "integration"}]
  PROVE  Applied(p) \in [Entities -> {"on", "user", "integration"}]
  BY DEF Applied

LEMMA UserTurnsOffInv ==
  ASSUME RegistryIInv, NEW e \in Entities, UserTurnsOff(e)
  PROVE  RegistryIInv'
  <1>0. RegistryTyped /\ OnRecord /\ Exact /\ OnDisk /\ Traced /\ Captured
    BY DEF RegistryIInv
  <1>1. /\ left.gestures > 0 /\ left' = [left EXCEPT !.gestures = @ - 1]
        /\ registry' = [registry EXCEPT ![e] = "user"]
        /\ UNCHANGED <<recorder, stored, writer, polled, lifetimes, told, taken>>
    BY DEF UserTurnsOff, Gesture
  <1>2. RegistryTyped'
    <2>1. left' \in [changes : Nat, starts : Nat, faults : Nat, lifetimes : Nat, gestures : Nat]
          /\ registry' \in [Entities -> {"on", "user", "integration"}]
      BY <1>0, <1>1 DEF RegistryTyped
    <2> QED
      BY <1>0, <1>1, <2>1 DEF RegistryTyped, FilesTyped
  <1>3. OnRecord' /\ Exact' /\ Captured'
    BY <1>0, <1>1 DEF OnRecord, Exact, Captured, Whole
  <1>4. OnDisk' /\ Traced'
    BY <1>0, <1>1 DEF OnDisk, Traced, Whole
  <1> QED
    BY <1>2, <1>3, <1>4 DEF RegistryIInv

LEMMA RegistryRests ==
  ASSUME RegistryIInv,
         UNCHANGED <<recorder, stored, writer, lifetimes, left, told, registry, taken>>
  PROVE  RegistryIInv'
  <1>1. RegistryTyped' /\ OnRecord'
    BY DEF RegistryIInv, RegistryTyped, FilesTyped, OnRecord
  <1>2. Exact' /\ Captured'
    BY DEF RegistryIInv, Exact, Captured, Whole
  <1>3. OnDisk' /\ Traced'
    BY DEF RegistryIInv, OnDisk, Traced, Whole
  <1> QED
    BY <1>1, <1>2, <1>3 DEF RegistryIInv

LEMMA RegistryInitInv ==
  ASSUME ResetInit
  PROVE  RegistryIInv
  <1>1. /\ recorder = [device |-> "entry", history |-> NoHistory,
                       observed |-> NoRecords, faults |-> 0]
        /\ stored = [history |-> NoHistory, observed |-> NoRecords, faults |-> 0]
        /\ writer = [w \in Writers |-> "idle"] /\ lifetimes = <<>> /\ left \in Budgets
        /\ told = [value |-> Nil, changes |-> 0, kept |-> {}, reported |-> {},
                   torn |-> FALSE, blind |-> FALSE, unread |-> FALSE, lost |-> FALSE]
        /\ registry = [e \in Entities |-> IF default_enabled(e) THEN "on" ELSE "integration"]
        /\ taken = [device |-> Nil, entry |-> Nil]
    BY DEF ResetInit, ObsInit
  <1>2. NoRecords["device"] = Blank /\ NoHistory["device"] = <<>>
    BY DEF NoRecords, NoHistory, Ids
  <1>3. FilesTyped
    BY <1>1, NothingTyped DEF FilesTyped, Ids
  <1>4. told \in Toll
    BY <1>1 DEF Toll
  <1>5. RegistryTyped
    <2>1. taken \in [Ids -> {Nil} \cup [Entities -> BOOLEAN]]
      BY <1>1 DEF Ids
    <2>2. left \in [changes : Nat, starts : Nat, faults : Nat, lifetimes : Nat, gestures : Nat]
      BY <1>1, ObservationsAssumption
    <2> QED
      BY <1>1, <1>3, <1>4, <2>1, <2>2 DEF RegistryTyped
  <1>6. OnRecord /\ Traced
    BY <1>1 DEF OnRecord, Traced
  <1>7. Exact
    BY <1>1, <1>2 DEF Exact, Newest, Blank
  <1>8. OnDisk
    BY <1>1 DEF OnDisk
  <1>9. Captured
    BY <1>1, <1>2 DEF Captured, Blank
  <1> QED
    BY <1>5, <1>6, <1>7, <1>8, <1>9 DEF RegistryIInv

LEMMA RegistryStepInv ==
  ASSUME RegistryIInv, [ResetNext]_resetVars
  PROVE  RegistryIInv'
  <1>1. CASE ObsNext /\ UNCHANGED <<registry, taken>>
    <2>1. CASE PollFails
      BY <1>1, <2>1, RegistryRests DEF PollFails
    <2>2. CASE _persist_session_lifetimes
      BY <1>1, <2>2, PersistInv
    <2>3. CASE SessionEnds
      BY <1>1, <2>3, SessionEndsInv
    <2>4. CASE Start
      BY <1>1, <2>4, StartInv
    <2>5. CASE \E p \in Payloads : _observe(p)
      BY <1>1, <2>5, ObserveInv
    <2>6. CASE \E w \in Writers : SaveHistory(w) \/ SaveObserved(w)
      BY <1>1, <2>6, SaveHistoryInv, SaveObservedInv
    <2> QED
      BY <1>1, <2>1, <2>2, <2>3, <2>4, <2>5, <2>6 DEF ObsNext
  <1>2. ASSUME NEW c \in Calls, SaveSnapshot(c)
        PROVE  RegistryIInv'
    BY <1>2, SaveSnapshotInv
  <1>3. ASSUME NEW c \in Calls, Reset(c)
        PROVE  RegistryIInv'
    <2>1. registry' \in [Entities -> {"on", "user", "integration"}]
      <3>1. \E p : registry' = Applied(p)
        BY <1>3 DEF Reset
      <3> QED
        BY <3>1, AppliedTyped DEF RegistryIInv, RegistryTyped
    <2> QED
      BY <1>3, <2>1, ReloadingInv DEF Reset
  <1>4. ASSUME NEW e \in Entities, UserTurnsOff(e)
        PROVE  RegistryIInv'
    BY <1>4, UserTurnsOffInv
  <1>5. ASSUME NEW e \in Entities, UserTurnsOn(e)
        PROVE  RegistryIInv'
    <2>1. registry' \in [Entities -> {"on", "user", "integration"}]
      BY <1>5 DEF UserTurnsOn, RegistryIInv, RegistryTyped
    <2> QED
      BY <1>5, <2>1, ReloadingInv DEF UserTurnsOn
  <1>6. CASE UNCHANGED resetVars
    BY <1>6, RegistryRests DEF resetVars, obsVars
  <1> QED
    BY <1>1, <1>2, <1>3, <1>4, <1>5, <1>6 DEF ResetNext

-----------------------------------------------------------------------------
(* What a call changes.                                                      *)

LEMMA BaselineFacts ==
  ASSUME RegistryTyped, NEW c, NEW e \in Entities,
         c.restore_snapshot => snapshot # Nil
  PROVE  Baseline(c, e) \in BOOLEAN \cup {Nil}
  <1>1. snapshot \in {Nil} \cup [EntityKeys -> BOOLEAN]
    BY DEF RegistryTyped, FilesTyped, Records, snapshot, Mine
  <1>2. default_enabled(e) \in BOOLEAN
    BY EntityResetAssumption DEF default_enabled
  <1>3. c.restore_snapshot => snapshot \in [EntityKeys -> BOOLEAN] /\ e.key \in EntityKeys
    BY <1>1 DEF EntityKeys
  <1> QED
    BY <1>2, <1>3 DEF Baseline

\* A call changes what it wants otherwise, in its scope, and as it wants it.
LEMMA ChangedByReset ==
  ASSUME RegistryTyped, NEW c \in Calls, Reset(c), NEW e \in Entities
  PROVE  \E shown \in {"none", "value", "unavailable", "unknown"} :
           /\ _wanted(c, e, shown) \in BOOLEAN \cup {Nil}
           /\ \/ /\ InScope(c, e) /\ _wanted(c, e, shown) \notin {Nil, IsOn(e)}
                 /\ registry'[e] = IF _wanted(c, e, shown) THEN "on" ELSE "user"
              \/ /\ registry'[e] = registry[e]
                 /\ InScope(c, e) => _wanted(c, e, shown) \in {Nil, IsOn(e)}
  <1>1. PICK unavailable \in SUBSET {x \in Entities : IsOn(x) /\ ~_is_control(x)} :
           registry' = Applied(plan(c, States(unavailable)))
    BY DEF Reset
  <1> DEFINE shown == States(unavailable)[e]
             wanted == _wanted(c, e, shown)
             p == plan(c, States(unavailable))
  <1>2. shown \in {"none", "value", "unavailable", "unknown"}
    BY DEF States
  <1>3. wanted \in BOOLEAN \cup {Nil}
    <2>1. Baseline(c, e) \in BOOLEAN \cup {Nil}
      BY BaselineFacts DEF Reset
    <2> HIDE DEF shown
    <2> QED
      BY <2>1 DEF _wanted, _maybe_disable
  <1>4. /\ e \in DOMAIN p <=> InScope(c, e) /\ wanted \notin {Nil, IsOn(e)}
        /\ e \in DOMAIN p => p[e] = wanted
    BY DEF plan
  <1>5. registry'[e] = IF e \notin DOMAIN p THEN registry[e]
                       ELSE IF p[e] THEN "on" ELSE "user"
    BY <1>1 DEF Applied
  <1> HIDE DEF shown, p
  <1>6. CASE e \in DOMAIN p
    BY <1>2, <1>3, <1>4, <1>5, <1>6
  <1>7. CASE e \notin DOMAIN p
    BY <1>2, <1>3, <1>4, <1>5, <1>7
  <1> QED
    BY <1>6, <1>7

\* An entity that reported a value is turned off only where the baseline says so.
LEMMA ProtectedStep ==
  ASSUME RegistryIInv, NEW c \in Calls, Reset(c), ~c.include_ever_populated,
         recorder.device = "device", NEW e \in Entities, TurnedOff(e),
         e.key \in told.reported
  PROVE  Baseline(c, e) = FALSE
  <1>1. e.key \in ever_populated
    BY DEF RegistryIInv, OnRecord, ever_populated, Mine
  <1>2. PICK shown : /\ _wanted(c, e, shown) \in BOOLEAN \cup {Nil}
                     /\ _wanted(c, e, shown) \notin {Nil, IsOn(e)}
                     /\ registry'[e] = IF _wanted(c, e, shown) THEN "on" ELSE "user"
    BY ChangedByReset DEF RegistryIInv, TurnedOff, IsOn
  <1>3. _wanted(c, e, shown) = FALSE
    BY <1>2 DEF TurnedOff
  <1>4. _maybe_disable(c, e, IF c.enable_populated /\ e.key \in reporting THEN TRUE
                             ELSE Baseline(c, e))
          = IF c.enable_populated /\ e.key \in reporting THEN TRUE ELSE Baseline(c, e)
    BY <1>1 DEF _maybe_disable
  <1> QED
    BY <1>3, <1>4 DEF _wanted

LEMMA ReachStep ==
  ASSUME RegistryIInv, NEW c \in Calls, Reset(c), NEW e \in Entities,
         registry'[e] # registry[e]
  PROVE  /\ e \notin c.exclude_entities
         /\ c.preserve_user_customized => registry[e] # "user"
         /\ _is_control(e) => Baseline(c, e) = (registry'[e] = "on")
  <1>1. PICK shown : /\ _wanted(c, e, shown) \in BOOLEAN \cup {Nil}
                     /\ InScope(c, e) /\ _wanted(c, e, shown) \notin {Nil, IsOn(e)}
                     /\ registry'[e] = IF _wanted(c, e, shown) THEN "on" ELSE "user"
    BY ChangedByReset DEF RegistryIInv
  <1>2. _is_control(e) => _wanted(c, e, shown) = Baseline(c, e)
    BY DEF _wanted
  <1>3. _wanted(c, e, shown) \in BOOLEAN
    BY <1>1
  <1>4. _wanted(c, e, shown) = (registry'[e] = "on")
    BY <1>1, <1>3
  <1> QED
    BY <1>1, <1>2, <1>4 DEF InScope

LEMMA RestoreStep ==
  ASSUME RegistryIInv, NEW c \in Calls, Reset(c), Restores(c), recorder.device = "device",
         ~told.torn, ~told.blind, NEW e \in Entities, Alone(e)
  PROVE  (registry'[e] = "on") = taken["device"][e]
  <1>1. snapshot # Nil /\ snapshot = recorder.observed["device"].snapshot
        /\ snapshot \in [EntityKeys -> BOOLEAN] /\ e.key \in EntityKeys
    BY DEF Reset, Restores, RegistryIInv, RegistryTyped, FilesTyped, Records, snapshot,
           Mine, EntityKeys
  <1>2. snapshot[e.key] = taken["device"][e] /\ snapshot[e.key] \in BOOLEAN
    BY <1>1 DEF RegistryIInv, Captured, Whole
  <1>3. Baseline(c, e) = snapshot[e.key]
    BY <1>1 DEF Baseline, Restores
  <1>4. InScope(c, e)
    BY DEF InScope, Restores
  <1>5. ASSUME NEW shown PROVE _wanted(c, e, shown) = snapshot[e.key]
    BY <1>3 DEF _wanted, Blanked, Restores
  <1>6. PICK shown : \/ /\ _wanted(c, e, shown) \notin {Nil, IsOn(e)}
                        /\ registry'[e] = IF _wanted(c, e, shown) THEN "on" ELSE "user"
                     \/ /\ registry'[e] = registry[e]
                        /\ _wanted(c, e, shown) \in {Nil, IsOn(e)}
    BY <1>4, ChangedByReset DEF RegistryIInv
  <1>7. _wanted(c, e, shown) = snapshot[e.key] /\ Nil \notin BOOLEAN
    BY <1>5, CapFacts
  <1>8. (registry'[e] = "on") = snapshot[e.key]
    BY <1>2, <1>6, <1>7 DEF IsOn
  <1> QED
    BY <1>2, <1>8

-----------------------------------------------------------------------------
(* The theorems.                                                             *)

\* The strengthening holds in every state.
THEOREM RegistryInductive == ResetSpec => []RegistryIInv
  <1>1. ResetInit => RegistryIInv
    BY RegistryInitInv
  <1>2. RegistryIInv /\ [ResetNext]_resetVars => RegistryIInv'
    BY RegistryStepInv
  <1> QED
    BY <1>1, <1>2, PTL DEF ResetSpec

LEMMA RecordsOfInv ==
  ASSUME RegistryIInv
  PROVE  RecordsHold
  <1>1. ASSUME NEW r \in Records
        PROVE  IsRecord(r)
    <2>1. r.snapshot = Nil \/ r.snapshot \in [DOMAIN r.snapshot -> BOOLEAN]
      BY DEF Records
    <2>2. \A i \in 1..Len(r.lifetimes) : r.lifetimes[i] \in Nat
      BY DEF Records
    <2> QED
      BY <2>1, <2>2 DEF Records, IsRecord
  <1>2. FilesTyped /\ RegistryTyped
    BY DEF RegistryIInv, RegistryTyped
  <1>3. ObsTypeOK
    <2>1. \A i \in Ids : IsRecord(recorder.observed[i]) /\ IsRecord(stored.observed[i])
      BY <1>1, <1>2 DEF FilesTyped
    <2>2. \A i \in Ids : Len(recorder.history[i]) <= HistoryCap
      BY <1>2 DEF FilesTyped, Histories
    <2> QED
      BY <1>2, <2>1, <2>2 DEF ObsTypeOK, FilesTyped
  <1>4. ResetTypeOK
    BY <1>2, <1>3 DEF ResetTypeOK, RegistryTyped
  <1>5. Remembered
    BY DEF RegistryIInv, OnRecord, Remembered, ever_populated, Mine
  <1>6. Counted
    BY DEF RegistryIInv, Exact, Whole, Counted, Mine
  <1>7. LossIsTraced
    BY DEF RegistryIInv, Traced, LossIsTraced
  <1> QED
    BY <1>4, <1>5, <1>6, <1>7 DEF RecordsHold

\* For any entities, keys and payloads, any length of a series and any number of
\* restarts, faults and calls: what was reported is remembered once it was written,
\* changes are counted exactly past the cap of the series, and a series that was
\* lost leaves its trace (ObservationRecorder).
THEOREM RecordsProved == ResetSpec => []RecordsHold
  <1>1. RegistryIInv => RecordsHold
    BY RecordsOfInv
  <1> QED
    BY <1>1, RegistryInductive, PTL

\* For any entities, defaults and overlay: a call turns off nothing that reported a
\* value at any time, unless asked to or by its baseline, and reaches nothing that is
\* excluded, customised where that is to be kept, or, but by a baseline, a control
\* (plan, _wanted, _maybe_disable).
THEOREM CallsBounded == ResetSpec => CallsAreBounded
  <1>1. RegistryIInv =>
          (registry' # registry => \A c \in Calls :
              Reset(c) /\ ~c.include_ever_populated /\ recorder.device = "device"
              => \A e \in Entities :
                    TurnedOff(e) => \/ Baseline(c, e) = FALSE
                                    \/ e.key \notin told.reported)
    BY ProtectedStep
  <1>2. RegistryIInv =>
          (registry' # registry => \A c \in Calls : Reset(c) =>
              \A e \in Entities : registry'[e] # registry[e] =>
                 /\ e \notin c.exclude_entities
                 /\ c.preserve_user_customized => registry[e] # "user"
                 /\ _is_control(e) => Baseline(c, e) = (registry'[e] = "on"))
    BY ReachStep
  <1>3. ResetSpec => ProtectedStay
    BY <1>1, RegistryInductive, PTL DEF ProtectedStay
  <1>4. ResetSpec => OutOfReach
    BY <1>2, RegistryInductive, PTL DEF OutOfReach
  <1> QED
    BY <1>3, <1>4 DEF CallsAreBounded

\* Restoring brings every entity alone under its key back to where it was when the
\* baseline was saved, whatever came between, where no save was cut short and no
\* store failed (_save, _wanted).
THEOREM RestoreProved == ResetSpec => RestoreIsIdentity
  <1>1. RegistryIInv =>
          (registry' # registry => \A c \in Calls :
              Reset(c) /\ Restores(c) /\ recorder.device = "device"
              /\ ~told.torn /\ ~told.blind
              => \A e \in Entities :
                    Alone(e) => (registry'[e] = "on") = taken.device[e])
    <2>1. taken.device = taken["device"]
      OBVIOUS
    <2> QED
      BY <2>1, RestoreStep
  <1> QED
    BY <1>1, RegistryInductive, PTL DEF RestoreIsIdentity
=============================================================================
