-------------------------------- MODULE Session --------------------------------
(***************************************************************************)
(* The API client's session with the router.  The router grants one session *)
(* at a time, to whoever logged in last; polls, commands and the logout of   *)
(* an unload share what the client believes of it, each suspended at its own *)
(* request, each able to log in again under the others.                      *)
(*                                                                         *)
(* A task is always at one step of its method (the request it is about to    *)
(* put or waiting for) and at one stage of putting it: waiting for the login *)
(* lock, logging in, queued for the write lock, or with a request in flight.  *)
(* Sessions are numbered by the login that made them.                        *)
(***************************************************************************)
EXTENDS Integers

CONSTANTS
    Writers,        \* commands given by the user, one call each
    Retried,        \* those _retry_once_on_refusal wraps
    Guarded,        \* those _require_confirmed_session guards: SEND_SMS
    Poll,           \* the coordinator's poll
    Unloads,        \* the logout of an unload: at most one
    NoTask,
    Implements,     \* whether the device implements the session flag
    MaxLogins       \* bound: how many logins the router grants

Tasks == Writers \cup {Poll} \cup Unloads

ASSUME SessionConstants ==
    /\ Poll \notin Writers \cup Unloads /\ Writers \cap Unloads = {}
    /\ NoTask \notin Tasks
    /\ Retried \subseteq Writers /\ Guarded \subseteq Writers \ Retried
    /\ Implements \in BOOLEAN
    /\ MaxLogins \in Nat

VARIABLES
    live,       \* the session of ours the router accepts, 0 for none
    logins,     \* how many logins the router has granted
    carried,    \* carried[w]: how often the router carried the command out
    belief,     \* cookies and session_active: the session believed in, or 0
    loginLock,  \* _login_lock
    writeLock,  \* _write_lock
    seen,       \* _session_flag_seen_for
    absent,     \* _session_flag_absent_for
    verdict,    \* last_session_check
    acked,      \* logout_acknowledged
    task        \* where each task is

vars == <<live, logins, carried, belief, loginLock, writeLock,
          seen, absent, verdict, acked, task>>

Sessions == 0..MaxLogins

\* The login that a task waits for is its write's own, the one a request needs
\* because there is no session, or the one after a session proved dead.
Task == [pc : {"idle", "waiting", "posting", "granted", "queued", "sent", "done"},
         step : {"start", "read", "reread", "flag", "recheck", "witness",
                 "token", "retoken", "write", "after"},
         why : {"own", "session", "again"},
         number : Sessions,     \* the last login of its own that was granted
         cookie : Sessions,     \* the session its request was sent on
         answer : {"none", "good", "blank", "refused", "failed", "lost"},
         unproven : BOOLEAN,    \* the first flag read was neither ok nor a denial
         refused : BOOLEAN,     \* the write was refused; the step asks why
         retried : BOOLEAN,     \* the call is the wrapper's second
         outcome : {"none", "ok", "refused", "blocked", "failed"}]

IdleTask == [pc |-> "idle", step |-> "start", why |-> "session", number |-> 0,
             cookie |-> 0, answer |-> "none", unproven |-> FALSE,
             refused |-> FALSE, retried |-> FALSE, outcome |-> "none"]

\* Type invariant: the client's state and every task's stage stay in range.
TypeOK ==
    /\ live \in Sessions /\ logins \in Sessions /\ belief \in Sessions
    /\ carried \in [Writers -> 0..2]
    /\ loginLock \in Tasks \cup {NoTask} /\ writeLock \in Tasks \cup {NoTask}
    /\ seen \in BOOLEAN /\ absent \in BOOLEAN /\ acked \in BOOLEAN
    /\ verdict \in {"none", "confirmed", "denied", "unanswered", "witness"}
    /\ task \in [Tasks -> Task]

Init ==
    /\ live = 0 /\ logins = 0 /\ belief = 0
    /\ carried = [w \in Writers |-> 0]
    /\ loginLock = NoTask /\ writeLock = NoTask
    /\ seen = FALSE /\ absent = FALSE /\ acked = FALSE
    /\ verdict = "none"
    /\ task = [t \in Tasks |-> IdleTask]

-----------------------------------------------------------------------------
(* Putting a request. *)

AskLogin(r, why) ==
    [r EXCEPT !.pc = "waiting", !.why = why, !.cookie = 0, !.answer = "none"]

Send(r, session) ==
    [r EXCEPT !.pc = "sent", !.why = "session", !.cookie = session, !.answer = "none"]

\* The lock once task t has let go of the write it held it for.
LockReleased(t) == IF writeLock = t THEN NoTask ELSE writeLock

\* _perform: task t goes on to the request r.step with session b believed in.
\* No session: log in first.  A write takes the write lock, or waits for it.
Request(t, r, b) ==
    LET free == LockReleased(t) IN
    /\ task' = [task EXCEPT ![t] =
                IF b = 0 THEN AskLogin(r, "session")
                ELSE IF r.step = "write" /\ free # NoTask
                     THEN [r EXCEPT !.pc = "queued", !.why = "session",
                                    !.cookie = 0, !.answer = "none"]
                     ELSE Send(r, b)]
    /\ writeLock' = IF t = Poll THEN writeLock
                    ELSE IF r.step = "write" /\ b # 0 /\ free = NoTask THEN t
                    ELSE free

LogInAgain(t, r) ==
    /\ task' = [task EXCEPT ![t] = AskLogin(r, "again")]
    /\ UNCHANGED writeLock

\* The call returns or raises.  logout() drops the session whatever happened.
End(t, outcome, b) ==
    /\ task' = [task EXCEPT ![t] =
                IF t = Poll THEN IdleTask
                            ELSE [IdleTask EXCEPT !.pc = "done", !.outcome = outcome]]
    /\ writeLock' = LockReleased(t)
    /\ belief' = IF t \in Unloads THEN 0 ELSE b

-----------------------------------------------------------------------------
(* What a task does with an answer.  b is the session still believed in. *)

\* The refusal stands.  The wrapper builds the write again, once.
RefusalStands(t, r, b) ==
    IF t \in Retried /\ ~r.retried
    THEN /\ task' = [task EXCEPT ![t] =
                AskLogin([r EXCEPT !.step = "flag", !.refused = FALSE,
                                   !.retried = TRUE], "own")]
         /\ writeLock' = LockReleased(t)
         /\ belief' = b
    ELSE End(t, "refused", b)

DeriveToken(t, r, b) ==
    /\ Request(t, [r EXCEPT !.step = "token", !.unproven = FALSE], b)
    /\ belief' = b

\* _note_witness_verdict, and the witnesses after a refusal: recorded, never
\* acted on.
WitnessVerdict(t, r, b) ==
    /\ verdict' = "witness"
    /\ IF r.refused
       THEN RefusalStands(t, r, b)
       ELSE DeriveToken(t, r, b)

\* There may be no witness to ask.
AskWitnesses(t, r, b) ==
    \/ /\ Request(t, [r EXCEPT !.step = "witness"], b)
       /\ belief' = b /\ UNCHANGED verdict
    \/ WitnessVerdict(t, r, b)

\* A poll's read: a dead session is renewed and the read put once more.
ReadAnswered(t, r, answer, b) ==
    /\ IF answer = "blank" /\ r.step = "read"
       THEN LogInAgain(t, [r EXCEPT !.step = "reread"]) /\ belief' = b
       ELSE End(t, "none", b)
    /\ UNCHANGED <<seen, absent, verdict, acked>>

\* _ensure_session, its first read of the flag.
FlagAnswered(t, r, answer, b) ==
    /\ UNCHANGED <<absent, acked>>
    /\ CASE answer = "good" ->
                /\ seen' = TRUE /\ verdict' = "confirmed"
                /\ DeriveToken(t, r, b)
         [] answer = "blank" /\ (seen \/ ~absent) ->
                /\ LogInAgain(t, [r EXCEPT !.step = "recheck", !.unproven = ~seen])
                /\ belief' = b /\ UNCHANGED <<seen, verdict>>
         [] OTHER -> AskWitnesses(t, r, b) /\ UNCHANGED seen

\* Its second read, after the login.  An unproven flag that is not confirmed
\* now is recorded as absent.
RecheckAnswered(t, r, answer, b) ==
    /\ UNCHANGED acked
    /\ CASE answer = "good" ->
                /\ seen' = TRUE /\ verdict' = "confirmed"
                /\ DeriveToken(t, r, b) /\ UNCHANGED absent
         [] answer # "good" /\ r.unproven ->
                /\ absent' = TRUE
                /\ AskWitnesses(t, r, b) /\ UNCHANGED seen
         [] OTHER ->
                /\ verdict' = IF answer = "blank" THEN "denied" ELSE "unanswered"
                /\ DeriveToken(t, r, b)
                /\ UNCHANGED <<seen, absent>>

WitnessAnswered(t, r, answer, b) ==
    WitnessVerdict(t, r, b) /\ UNCHANGED <<seen, absent, acked>>

\* get_ad, then the write itself; a send is blocked on a denied session.
TokenAnswered(t, r, answer, b) ==
    /\ UNCHANGED <<seen, absent, verdict, acked>>
    /\ CASE answer = "good" /\ t \in Guarded /\ seen /\ verdict = "denied" ->
                End(t, "blocked", b)
         [] answer = "good" /\ ~(t \in Guarded /\ seen /\ verdict = "denied") ->
                Request(t, [r EXCEPT !.step = "write"], b) /\ belief' = b
         [] answer = "blank" /\ r.step = "token" ->
                LogInAgain(t, [r EXCEPT !.step = "retoken"]) /\ belief' = b
         [] OTHER -> End(t, "failed", b)

\* Variant: a write whose answer was lost is sent again like a refused one.
WriteAnsweredAnyFailure(t, r, answer, b) ==
    /\ UNCHANGED <<seen, absent, verdict, acked>>
    /\ IF answer # "good"
       THEN RefusalStands(t, r, b)
       ELSE End(t, IF t \in Unloads THEN "none" ELSE "ok", b)

\* A write is never put again from here.  A refusal is asked about first.
WriteAnswered(t, r, answer, b) ==
    /\ UNCHANGED <<seen, absent, verdict>>
    /\ IF t \in Unloads
       THEN acked' = (answer = "good") /\ End(t, "none", b)
       ELSE /\ UNCHANGED acked
            /\ CASE answer = "good" -> End(t, "ok", b)
                 [] answer = "refused" ->
                        /\ Request(t, [r EXCEPT !.step = "after", !.refused = TRUE], b)
                        /\ belief' = b
                 [] OTHER -> End(t, "failed", b)

\* note_write_refusal: only a denial by the flag replaces the refusal.
AfterAnswered(t, r, answer, b) ==
    /\ UNCHANGED <<absent, acked>>
    /\ CASE answer = "good" ->
                /\ seen' = TRUE /\ verdict' = "confirmed"
                /\ RefusalStands(t, r, b)
         [] answer = "blank" /\ seen ->
                /\ verdict' = "denied"
                /\ End(t, "failed", b) /\ UNCHANGED seen
         [] OTHER -> AskWitnesses(t, r, b) /\ UNCHANGED seen

GoOn(t, r, answer, b) ==
    \/ r.step \in {"read", "reread"} /\ ReadAnswered(t, r, answer, b)
    \/ r.step = "flag" /\ FlagAnswered(t, r, answer, b)
    \/ r.step = "recheck" /\ RecheckAnswered(t, r, answer, b)
    \/ r.step = "witness" /\ WitnessAnswered(t, r, answer, b)
    \/ r.step \in {"token", "retoken"} /\ TokenAnswered(t, r, answer, b)
    \/ r.step = "write" /\ WriteAnswered(t, r, answer, b)
    \/ r.step = "after" /\ AfterAnswered(t, r, answer, b)

-----------------------------------------------------------------------------
(* Calls. *)

\* Every write logs in first.
CommandGiven(w) ==
    /\ task[w].pc = "idle"
    /\ task' = [task EXCEPT ![w] = AskLogin([IdleTask EXCEPT !.step = "flag"], "own")]
    /\ UNCHANGED <<live, logins, carried, belief, loginLock, writeLock,
                   seen, absent, verdict, acked>>

\* The core and extended batches hold the write lock, the SMS reads do not.  A
\* session that is stale by the client's clocks is dropped beforehand.
PollReads ==
    /\ task[Poll].pc = "idle"
    /\ \E locked \in BOOLEAN, b \in {belief, 0} :
        /\ locked => writeLock = NoTask
        /\ writeLock' = IF locked THEN Poll ELSE writeLock
        /\ belief' = b
        /\ LET r == [IdleTask EXCEPT !.step = "read"] IN
           task' = [task EXCEPT ![Poll] =
                IF b = 0 THEN AskLogin(r, "session") ELSE Send(r, b)]
    /\ UNCHANGED <<live, logins, carried, loginLock, seen, absent, verdict, acked>>

Logout(u) ==
    /\ task[u].pc = "idle"
    /\ IF belief = 0
       THEN End(u, "none", 0)
       ELSE /\ Request(u, [IdleTask EXCEPT !.step = "flag"], belief)
            /\ UNCHANGED belief
    /\ UNCHANGED <<live, logins, carried, loginLock, seen, absent, verdict, acked>>

-----------------------------------------------------------------------------
(* Logging in. *)

\* Variant: no login lock.
LoginBeginsUnlocked(t) ==
    /\ task[t].pc = "waiting"
    /\ belief' = 0
    /\ task' = [task EXCEPT ![t].pc = "posting"]
    /\ UNCHANGED <<live, logins, carried, loginLock, writeLock,
                   seen, absent, verdict, acked>>

\* Variant: a login takes its turn with the writes.
LoginBeginsInTurn(t) ==
    /\ task[t].pc = "waiting" /\ loginLock = NoTask
    /\ writeLock = NoTask
    /\ loginLock' = t
    /\ belief' = 0
    /\ task' = [task EXCEPT ![t].pc = "posting"]
    /\ UNCHANGED <<live, logins, carried, writeLock, seen, absent, verdict, acked>>

LoginBegins(t) ==
    /\ task[t].pc = "waiting" /\ loginLock = NoTask
    /\ loginLock' = t
    /\ belief' = 0
    /\ task' = [task EXCEPT ![t].pc = "posting"]
    /\ UNCHANGED <<live, logins, carried, writeLock, seen, absent, verdict, acked>>

\* The router grants the login; whatever session it held is over.
RouterGrants(t) ==
    /\ task[t].pc = "posting" /\ logins < MaxLogins
    /\ logins' = logins + 1 /\ live' = logins + 1
    /\ task' = [task EXCEPT ![t].pc = "granted", ![t].number = logins + 1]
    /\ UNCHANGED <<carried, belief, loginLock, writeLock, seen, absent, verdict, acked>>

LoginSucceeds(t) ==
    /\ task[t].pc = "granted"
    /\ belief' = task[t].number
    /\ loginLock' = NoTask
    /\ Request(t, task[t], task[t].number)
    /\ UNCHANGED <<live, logins, carried, seen, absent, verdict, acked>>

\* Refused, unreachable, or granted with the answer lost.  Before a write it
\* is let pass; a request that needed it fails; a check that wanted it goes on
\* with what it had; a replay raises.
LoginFails(t) ==
    LET r == task[t] IN
    /\ r.pc \in {"posting", "granted"}
    /\ loginLock' = NoTask
    /\ \/ /\ r.why = "own"
          /\ Request(t, r, belief)
          /\ UNCHANGED <<belief, seen, absent, verdict, acked>>
       \/ r.why = "session" /\ GoOn(t, r, "failed", belief)
       \/ /\ r.why = "again" /\ r.step = "recheck"
          /\ IF r.unproven
             THEN AskWitnesses(t, r, belief)
             ELSE /\ verdict' = "denied"
                  /\ DeriveToken(t, r, belief)
          /\ UNCHANGED <<seen, absent, acked>>
       \/ /\ r.why = "again" /\ r.step \in {"reread", "retoken"}
          /\ End(t, "failed", belief)
          /\ UNCHANGED <<seen, absent, verdict, acked>>
    /\ UNCHANGED <<live, logins, carried>>

-----------------------------------------------------------------------------
(* Requests in flight. *)

\* The write lock is free, or WRITE_LOCK_WAIT_SECONDS are over: the write goes
\* out on whatever session is believed in by then.
WriteGoesOut(t) ==
    /\ task[t].pc = "queued"
    /\ writeLock' = IF writeLock = NoTask THEN t ELSE writeLock
    /\ task' = [task EXCEPT ![t] = Send(@, belief)]
    /\ UNCHANGED <<live, logins, carried, belief, loginLock, seen, absent, verdict, acked>>

InFlight(t) == task[t].pc = "sent" /\ task[t].answer = "none"
Alive(t) == task[t].cookie # 0 /\ task[t].cookie = live

\* A read on a dead session answers blank; the flag may still answer ok for a
\* while, and the token is read without one.
ReadAnswers(t) ==
    {"lost", "failed"} \cup
    CASE task[t].step \in {"flag", "recheck", "after"} ->
            IF ~Implements THEN {"blank"}
            ELSE IF Alive(t) THEN {"good"} ELSE {"good", "blank"}
      [] task[t].step \in {"token", "retoken", "witness"} ->
            IF Alive(t) THEN {"good"} ELSE {"good", "blank"}
      [] OTHER -> IF Alive(t) THEN {"good"} ELSE {"blank"}

RouterAnswers(t) ==
    /\ InFlight(t) /\ task[t].step # "write"
    /\ \E answer \in ReadAnswers(t) : task' = [task EXCEPT ![t].answer = answer]
    /\ UNCHANGED <<live, logins, carried, belief, loginLock, writeLock,
                   seen, absent, verdict, acked>>

\* A write on a dead session is refused.  On a live one it is refused or
\* carried out; an answer that is lost or unusable says nothing of it, nor does
\* a success, but for that of a logout.
RouterTakesWrite(t) ==
    /\ InFlight(t) /\ task[t].step = "write"
    /\ \E answer \in {"good", "refused", "failed", "lost"}, done \in BOOLEAN :
        /\ done => Alive(t) /\ answer # "refused"
        /\ answer = "good" => Alive(t) /\ (done \/ t \notin Unloads)
        /\ task' = [task EXCEPT ![t].answer = answer]
        /\ carried' = [w \in Writers |->
                        IF w = t /\ done THEN carried[w] + 1 ELSE carried[w]]
        /\ live' = IF t \in Unloads /\ done THEN 0 ELSE live
    /\ UNCHANGED <<logins, belief, loginLock, writeLock, seen, absent, verdict, acked>>

\* A transport error drops the session, whichever it is by now.
AnswerArrives(t) ==
    LET r == task[t] IN
    /\ r.pc = "sent" /\ r.answer # "none"
    /\ GoOn(t, r, r.answer, IF r.answer = "lost" THEN 0 ELSE belief)
    /\ UNCHANGED <<live, logins, carried, loginLock>>

\* Another client logs in, or the session runs out.
SessionLost ==
    /\ live # 0 /\ live' = 0
    /\ UNCHANGED <<logins, carried, belief, loginLock, writeLock,
                   seen, absent, verdict, acked, task>>

Steps(t) ==
    \/ LoginBegins(t) \/ RouterGrants(t) \/ LoginSucceeds(t) \/ LoginFails(t)
    \/ WriteGoesOut(t) \/ RouterAnswers(t) \/ RouterTakesWrite(t) \/ AnswerArrives(t)

Next ==
    \/ \E w \in Writers : CommandGiven(w)
    \/ PollReads
    \/ \E u \in Unloads : Logout(u)
    \/ \E t \in Tasks : Steps(t)
    \/ SessionLost

Spec == Init /\ [][Next]_vars

\* Every request and every login ends, by its time limit at the latest.  A task
\* waiting for the login lock gets it: asyncio.Lock serves its waiters first
\* come first served.  Nothing is assumed of the router, the user or the poll.
Fairness == \A t \in Tasks : WF_vars(Steps(t)) /\ SF_vars(LoginBegins(t))

FairSpec == Spec /\ Fairness

-----------------------------------------------------------------------------
(* Properties. *)

\* The session the client believes in is the last one the router granted it, and
\* it believes in none while a login is under way: no login of its own displaces
\* the session it goes on with.
LatestLogin == belief # 0 => belief = logins /\ loginLock = NoTask

\* However a call went, its command took effect at most once, and not at all
\* when it was reported as refused or blocked.
CarriedOnce ==
    \A w \in Writers :
        /\ carried[w] <= 1
        /\ task[w].outcome \in {"refused", "blocked"} => carried[w] = 0

\* What makes LatestLogin inductive: the lock is held by the task that logs in,
\* and the session it was granted is the last one.
LoginHeld ==
    \A t \in Tasks :
        /\ task[t].pc \in {"posting", "granted"} <=> loginLock = t
        /\ task[t].pc = "granted" => task[t].number = logins

\* What makes CarriedOnce inductive: a call has no outcome before it ends, and a
\* command carried out is either ended or about to end, and not as refused.
CarriedEnds ==
    /\ \A t \in Tasks : task[t].pc # "done" => task[t].outcome = "none"
    /\ \A w \in Writers : carried[w] # 0 =>
        /\ carried[w] = 1
        /\ \/ task[w].pc = "done" /\ task[w].outcome \in {"ok", "failed"}
           \/ /\ task[w].pc = "sent" /\ task[w].step = "write"
              /\ task[w].answer \in {"good", "failed", "lost"}

\* The inductive invariant behind LatestLogin and CarriedOnce: who holds the login
\* lock, what was granted, and where a command carried out stands.
IInv == TypeOK /\ LatestLogin /\ LoginHeld /\ CarriedEnds

\* Every call returns: a poll that holds the write lock and must log in, and a
\* write that logs in and must wait for the poll, never wait for each other.
CallsReturn ==
    \A t \in Tasks : task[t].pc \notin {"idle", "done"} ~> task[t].pc \in {"idle", "done"}
=============================================================================
