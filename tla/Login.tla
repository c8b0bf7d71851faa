------------------------------- MODULE Login -------------------------------
(***************************************************************************)
(* Logging in (api.py, _login_unlocked): the router's attempt counters are *)
(* read on the way, a login that could lock every client out is withheld,  *)
(* one form is posted and, after a failure that names no password, the     *)
(* other form once.  Beside it the reads of the counters by writes and by  *)
(* the profile, the other clients of the router, and the health verdict of *)
(* the poll whose login failed (coordinator.py, _login_lockout_issue).     *)
(*                                                                         *)
(* Logins run one at a time (_login_lock), so there is one login on its    *)
(* way, of a poll or of a write.                                           *)
(***************************************************************************)
EXTENDS Integers

CONSTANTS
    MAX_LOGIN_COUNT,      \* attempts of the router before it locks
    None,
    Routers,              \* the kinds of router considered
    MaxOther,             \* logins and changes by others, in a run
    MaxLost,              \* requests or answers lost, in a run
    MaxClash              \* right logins refused for a clash, in a run

Forms == {"LOGIN", "LOGIN_MULTI_USER"}
Devices == [accepts : SUBSET Forms \ {{}}, serves : BOOLEAN,
            costs : BOOLEAN, username : BOOLEAN, multi : BOOLEAN,
            scheme : {"salted", "plain"}]

\* A client without a username has only LOGIN to offer; one whose model or web
\* files do not say single-user posts the multi-user form first.
ASSUME RoutersAssumption ==
    Routers \subseteq {d \in Devices :
        ~d.username => "LOGIN" \in d.accepts /\ ~d.multi}
ASSUME CountAssumption == MAX_LOGIN_COUNT \in Nat /\ MAX_LOGIN_COUNT >= 2
ASSUME UnreadAssumption == None \notin Int /\ None \notin {"poll", "write"}

Counts == 0..MAX_LOGIN_COUNT
Unread == [attempts |-> None, locked |-> FALSE]
Guards == {Unread} \cup [attempts : Counts, locked : BOOLEAN]

VARIABLES
    device,     \* what the router takes: its forms, whether it serves the
                \*   counters, whether a form it does not know costs an
                \*   attempt, how it wants the password; and the client's user
    left,       \* psw_fail_num_str: wrong logins left
    locked,     \* login_lock_time > 0
    right,      \* the configured password is the router's
    learned,    \* the profile says how the password is encoded
    session,    \* the client holds a session the router knows
    login_guard,
    login,      \* the login on its way
    side,       \* the counters in an answer to another read, or None
    health,     \* the login finding of the last poll
    reauth,     \* the user was asked for the password
    used        \* others' moves, losses, clashes so far

vars == <<device, left, locked, right, learned, session, login_guard, login,
          side, health, reauth, used>>

\* read: the attempts this login read itself.  moved: another client has moved
\* them since.  since: they were read, by anyone, after the login forgot them.
NoLogin == [who |-> None, stage |-> "none", form |-> "LOGIN", ad |-> FALSE,
            read |-> None, moved |-> FALSE, since |-> FALSE]

\* Type invariant.
TypeOK ==
    /\ device \in Routers
    /\ left \in Counts
    /\ {locked, right, learned, session, reauth} \subseteq BOOLEAN
    /\ login_guard \in Guards
    /\ login \in [who : {None, "poll", "write"},
                  stage : {"none", "ld", "version", "ad", "first", "second"},
                  form : Forms, ad : BOOLEAN, read : Counts \cup {None},
                  moved : BOOLEAN, since : BOOLEAN]
    /\ side \in Guards \cup {None}
    /\ health \in {"ok", "unreachable", "withheld", "locked"}

Init ==
    /\ device \in Routers
    /\ left = MAX_LOGIN_COUNT /\ locked = FALSE
    /\ right = TRUE /\ learned = FALSE
    /\ session = FALSE
    /\ login_guard = Unread
    /\ login = NoLogin
    /\ side = None
    /\ health = "ok" /\ reauth = FALSE
    /\ used = [other |-> 0, lost |-> 0, clash |-> 0]

-----------------------------------------------------------------------------
(* The router.                                                              *)

Served == IF device.serves THEN [attempts |-> left, locked |-> locked] ELSE Unread

Lose == used.lost < MaxLost /\ used' = [used EXCEPT !.lost = @ + 1]

\* A failed login takes an attempt and starts the lock again at none left.
Fails == /\ left' = IF left = 0 THEN 0 ELSE left - 1
         /\ locked' = (left <= 1)

\* A login that succeeds restores the attempts.
Succeeds == left' = MAX_LOGIN_COUNT /\ locked' = FALSE

\* The password as this device's own form encodes it.
_login_password == IF learned THEN device.scheme ELSE "salted"

Wrong == ~right \/ _login_password # device.scheme

Takes(form) == form \in device.accepts /\ (form = "LOGIN_MULTI_USER" => login.ad)

\* What the router makes of a posted form: it refuses everything while it is
\* locked, a form it does not know, a wrong password, and a right one in a
\* clash with another client's login; only a wrong password may be named.
Judged(form, answer) ==
    \/ /\ locked
       /\ answer = "failure"
       /\ UNCHANGED <<left, locked>>
    \/ /\ ~locked /\ ~Takes(form)
       /\ answer = "failure"
       /\ IF device.costs THEN Fails ELSE UNCHANGED <<left, locked>>
    \/ /\ ~locked /\ Takes(form) /\ Wrong
       /\ answer \in {"password", "failure"}
       /\ Fails
    \/ /\ ~locked /\ Takes(form) /\ ~Wrong
       /\ answer = "session"
       /\ Succeeds

Clash == used.clash < MaxClash /\ used' = [used EXCEPT !.clash = @ + 1]

-----------------------------------------------------------------------------
(* How a login ends, for the poll or the write that wanted it.              *)

\* The counters as a finding of the failed poll.
_login_lockout_issue ==
    IF login_guard.attempts = 0 /\ login_guard.locked THEN "locked"
    ELSE IF login_guard.attempts = 1 THEN "withheld"
    ELSE "unreachable"

\* A poll whose login failed reports it; a write goes on without.
Failed ==
    /\ login' = NoLogin
    /\ health' = IF login.who = "poll" THEN _login_lockout_issue ELSE health
    /\ UNCHANGED reauth

\* The router rejected the password itself: a poll reports it like any failure
\* and, once its strikes are spent, asks the user.
Rejected ==
    /\ login' = NoLogin
    /\ health' = IF login.who = "poll" THEN _login_lockout_issue ELSE health
    /\ \/ login.who = "poll" /\ reauth' = TRUE
       \/ UNCHANGED reauth

\* The session is whatever cookies the answer set, or none and the client's
\* address; the read that some routers want then may fail.
_initialize_session == session' = TRUE

Established ==
    /\ _initialize_session
    /\ login' = NoLogin
    /\ health' = IF login.who = "poll" THEN "ok" ELSE health
    /\ UNCHANGED reauth

-----------------------------------------------------------------------------
(* The steps of a login.                                                    *)

\* A poll logs in when its session is gone, a write always does; the session
\* is cleared first.
Start(who) ==
    /\ login.stage = "none"
    /\ who = "poll" => ~session
    /\ session' = FALSE
    /\ login' = [NoLogin EXCEPT !.who = who, !.stage = "ld"]
    /\ UNCHANGED <<device, left, locked, right, learned, login_guard, side,
                   health, reauth, used>>

\* Variant: the counters of an earlier read are not forgotten.
LdKeepsGuard ==
    /\ login.stage = "ld"
    /\ \/ /\ login' = [login EXCEPT !.stage = "version"]
          /\ UNCHANGED <<login_guard, health, reauth, used>>
       \/ Lose /\ Failed /\ UNCHANGED login_guard
    /\ UNCHANGED <<device, left, locked, right, learned, session, side>>

\* The counters are forgotten only after this first request.
get_ld ==
    /\ login.stage = "ld"
    /\ \/ /\ login' = [login EXCEPT !.stage = "version"]
          /\ login_guard' = Unread
          /\ UNCHANGED <<health, reauth, used>>
       \/ Lose /\ Failed /\ UNCHANGED login_guard
    /\ UNCHANGED <<device, left, locked, right, learned, session, side>>

\* The version is known: the form to post first.
Primary(version) ==
    IF device.username /\ (device.multi \/ ~version)
    THEN "LOGIN_MULTI_USER" ELSE "LOGIN"

\* Variant: only a running lock withholds a login.
UnsafeWhenLocked(guard) == guard.attempts = 0 /\ guard.locked

\* Variant: no attempts left withhold it, the lock run out or not.
UnsafeForGood(guard) == guard.attempts \in {0, 1}

Unsafe(guard) == guard.attempts = 1 \/ (guard.attempts = 0 /\ guard.locked)

\* Withhold the login the counters forbid; blank or unread ones proceed.
_refuse_unsafe_login(guard, version) ==
    IF Unsafe(guard)
    THEN /\ login' = NoLogin
         /\ health' = IF login.who # "poll" THEN health
                      ELSE IF guard.attempts = 1 THEN "withheld" ELSE "locked"
         /\ UNCHANGED reauth
    ELSE /\ login' = [login EXCEPT
                        !.stage = IF device.username /\ version
                                  THEN "ad" ELSE "first",
                        !.form = Primary(version),
                        !.read = IF version THEN guard.attempts ELSE None,
                        !.moved = FALSE]
         /\ UNCHANGED <<health, reauth>>

get_version ==
    /\ login.stage = "version"
    /\ \/ /\ login_guard' = Served
          /\ _refuse_unsafe_login(Served, TRUE)
          /\ UNCHANGED used
       \/ /\ Lose
          /\ UNCHANGED login_guard
          /\ _refuse_unsafe_login(login_guard, FALSE)
    /\ UNCHANGED <<device, left, locked, right, learned, session, side>>

\* The token of the multi-user form; without it the form goes out as it is.
_login_ad ==
    /\ login.stage = "ad"
    /\ \/ login' = [login EXCEPT !.stage = "first", !.ad = TRUE] /\ UNCHANGED used
       \/ login' = [login EXCEPT !.stage = "first"] /\ Lose
    /\ UNCHANGED <<device, left, locked, right, learned, session, login_guard,
                   side, health, reauth>>

Other(form) == CHOOSE f \in Forms : f # form

\* A failure that names no password is worth the other form, once.
Fallback ==
    /\ login' = [login EXCEPT !.stage = "second", !.form = Other(@)]
    /\ UNCHANGED <<health, reauth>>

Answered(answer) ==
    \/ answer = "session" /\ Established
    \/ answer = "password" /\ Rejected /\ UNCHANGED session
    \/ answer = "failure" /\ login.stage = "first" /\ Fallback /\ UNCHANGED session
    \/ answer = "failure" /\ login.stage = "second" /\ Failed /\ UNCHANGED session

\* One form is posted: judged and answered, judged with the answer lost, lost
\* itself, or refused in a clash.
_attempt_login ==
    /\ login.stage \in {"first", "second"}
    /\ \/ \E a \in {"session", "password", "failure"} :
            Judged(login.form, a) /\ Answered(a) /\ UNCHANGED used
       \/ \E a \in {"session", "password", "failure"} :
            Judged(login.form, a) /\ Lose /\ Failed /\ UNCHANGED session
       \/ Lose /\ Failed /\ UNCHANGED <<left, locked, session>>
       \/ /\ ~locked /\ Takes(login.form) /\ ~Wrong
          /\ Clash /\ Fails /\ Answered("failure")
    /\ UNCHANGED <<device, right, learned, login_guard, side>>

-----------------------------------------------------------------------------
(* Beside a login.                                                          *)

\* A write's token and the profile read the version too, and the counters
\* with it: asked now, kept when the answer comes.
SideRead ==
    /\ side = None
    /\ side' = Served
    /\ UNCHANGED <<device, left, locked, right, learned, session, login_guard,
                   login, health, reauth, used>>

SideAnswer ==
    /\ side # None
    /\ login_guard' = side
    /\ side' = None
    /\ login' = [login EXCEPT !.since = login.stage # "none"]
    /\ UNCHANGED <<device, left, locked, right, learned, session, health,
                   reauth, used>>

\* The profile has read how the login form encodes the password.
EncodingLearned ==
    /\ ~learned /\ learned' = TRUE
    /\ UNCHANGED <<device, left, locked, right, session, login_guard, login,
                   side, health, reauth, used>>

\* Another client logs in, rightly or wrongly, or changes the password; a
\* login elsewhere takes the session over.
Elsewhere ==
    /\ used.other < MaxOther
    /\ used' = [used EXCEPT !.other = @ + 1]
    /\ login' = [login EXCEPT !.moved = TRUE]
    /\ \/ ~locked /\ Succeeds /\ session' = FALSE /\ UNCHANGED right
       \/ ~locked /\ Fails /\ UNCHANGED <<right, session>>
       \/ right' = ~right /\ UNCHANGED <<left, locked, session>>
    /\ UNCHANGED <<device, learned, login_guard, side, health, reauth>>

\* The lock runs out; the attempts stay at none.
LockEnds ==
    /\ locked /\ locked' = FALSE
    /\ UNCHANGED <<device, left, right, learned, session, login_guard, login,
                   side, health, reauth, used>>

\* The user answers the prompt with the router's password.
Reauth ==
    /\ reauth /\ login.stage = "none"
    /\ reauth' = FALSE /\ right' = TRUE
    /\ UNCHANGED <<device, left, locked, learned, session, login_guard, login,
                   side, health, used>>

LoginStep == get_ld \/ get_version \/ _login_ad \/ _attempt_login

Next ==
    \/ \E who \in {"poll", "write"} : Start(who)
    \/ LoginStep
    \/ SideRead \/ SideAnswer \/ EncodingLearned
    \/ Elsewhere \/ LockEnds \/ Reauth

\* Fairness: requests are answered or time out, polls come by the interval, a
\* lock's timer runs, the profile is learned in the background.
Fairness ==
    /\ WF_vars(LoginStep)
    /\ SF_vars(Start("poll"))
    /\ WF_vars(LockEnds)
    /\ WF_vars(EncodingLearned)

Spec == Init /\ [][Next]_vars /\ Fairness

-----------------------------------------------------------------------------
\* Action property: a login that read the counters itself posts its first form
\* neither on the last attempt nor into a lock, unless another client moved
\* them after the read.
FirstFormIsSafe ==
    [][ login.stage = "first" /\ login'.stage # "first"
        /\ login.read # None /\ ~login.moved
            => left >= 2 \/ (left = 0 /\ ~locked) ]_vars

\* Action property: a lockout or a withheld login in the health of a poll is
\* told from counters read during its own login, unless the login failed at its
\* very first request.
FindingIsOwn ==
    [][ login.who = "poll" /\ login'.stage = "none" /\ login.stage # "ld"
        /\ health' \in {"withheld", "locked"}
            => \/ login.since \/ login.read # None
               \/ login.stage = "version" /\ used' = used ]_vars

\* Action property: the user is asked for the password only where the router
\* does not take it as it was sent: never for a lock, a clash, an unknown form
\* or a lost answer.
ReauthIsEarned == [][~reauth /\ reauth' => Wrong]_vars

\* Liveness: with the right password, the router left alone, attempts the
\* client may spend and no login half way, it is logged in again: after a lock,
\* and by whichever form the router takes, where posting the other one first
\* costs nothing.
Quiet == used = [other |-> MaxOther, lost |-> MaxLost, clash |-> MaxClash]
FirstFormFits == Primary(TRUE) \in device.accepts
LogsInAgain ==
    (/\ Quiet /\ right /\ login.stage = "none" /\ left # 1
     /\ device.serves /\ (FirstFormFits \/ ~device.costs)
     /\ learned \/ device.scheme = "salted") ~> session

\* A failed login is told as what it was: the finding is its own, and only a
\* password the router does not take is asked of the user; and the state has
\* its types.
FailuresAreTold == []TypeOK /\ FindingIsOwn /\ ReauthIsEarned
=============================================================================
