------------------------- MODULE SessionUptime_proofs -------------------------
(***************************************************************************)
(* Proofs about what outlives one request: the session with the router, and  *)
(* the start instants kept across restarts.                                  *)
(*                                                                         *)
(* Session: IInv is inductive, and with it type correctness, LatestLogin and  *)
(* CarriedOnce hold for every set of commands, polls and unloads and every    *)
(* number of logins the router grants.  What a task does with an answer is    *)
(* long but harmless: it leaves the task at a stage that is not a login, with *)
(* no outcome before its end.  Goes says just that, is proved once for every  *)
(* operator of the answer's handling, and is all the invariant needs of them. *)
(*                                                                         *)
(* Uptime: UptimeIInv and, on top of it, RightIInv are inductive, and with    *)
(* them InstantKept, NeverBack and DiskFresh hold for every gap between       *)
(* polls, margin and interval, and every number of restarts, reconnects,      *)
(* crashes and reloads.                                                      *)
(***************************************************************************)
EXTENDS Session, Uptime, FiniteSetTheorems, WellFoundedInduction, TLAPS

Stages == {"idle", "waiting", "posting", "granted", "queued", "sent", "done"}
LoggingIn == {"posting", "granted"}
Answers == {"none", "good", "blank", "refused", "failed", "lost"}
Outcomes == {"none", "ok", "refused", "blocked", "failed"}
Verdicts == {"none", "confirmed", "denied", "unanswered", "witness"}

\* A task that has not ended, in its type.
Underway(r) == r \in Task /\ r.outcome = "none"

Settled(r) ==
    r \in Task /\ r.pc \notin LoggingIn /\ (r.pc # "done" => r.outcome = "none")

\* Task t has moved on, to a stage that is not a login.
Goes(t) ==
    /\ \E new : Settled(new) /\ task' = [task EXCEPT ![t] = new]
    /\ writeLock' \in Tasks \cup {NoTask}

\* What a check learns stays in its type.
Learned ==
    /\ seen' \in BOOLEAN /\ absent' \in BOOLEAN /\ acked' \in BOOLEAN
    /\ verdict' \in Verdicts

-----------------------------------------------------------------------------
(* Records. *)

LEMMA IdleTaskTyped == Underway(IdleTask) /\ Settled(IdleTask)
  <1>1. FALSE \in BOOLEAN
    OBVIOUS
  <1>2. 0 \in Sessions
    BY SessionConstants DEF Sessions
  <1> QED
    BY <1>1, <1>2 DEF IdleTask, Task, Underway, Settled, LoggingIn

LEMMA EndedTyped ==
  ASSUME NEW outcome \in Outcomes
  PROVE  LET new == [IdleTask EXCEPT !.pc = "done", !.outcome = outcome] IN
         Settled(new) /\ new.pc = "done" /\ new.outcome = outcome
  <1>1. FALSE \in BOOLEAN
    OBVIOUS
  <1>2. 0 \in Sessions
    BY SessionConstants DEF Sessions
  <1> QED
    BY <1>1, <1>2 DEF IdleTask, Task, Outcomes, Settled, LoggingIn

LEMMA AskLoginTyped ==
  ASSUME NEW r, Underway(r), NEW why \in {"own", "session", "again"}
  PROVE  Settled(AskLogin(r, why))
  <1>1. 0 \in Sessions
    BY SessionConstants DEF Sessions
  <1> QED
    BY <1>1 DEF AskLogin, Task, Underway, Settled, LoggingIn

LEMMA SendTyped ==
  ASSUME NEW r, Underway(r), NEW session \in Sessions
  PROVE  Settled(Send(r, session))
  BY DEF Send, Task, Underway, Settled, LoggingIn

LEMMA QueuedTyped ==
  ASSUME NEW r, Underway(r)
  PROVE  Settled([r EXCEPT !.pc = "queued", !.why = "session",
                           !.cookie = 0, !.answer = "none"])
  <1>1. 0 \in Sessions
    BY SessionConstants DEF Sessions
  <1> QED
    BY <1>1 DEF Task, Underway, Settled, LoggingIn

\* The updates the answers' handling makes to a task before its next request.
LEMMA StepTyped ==
  ASSUME NEW r, Underway(r),
         NEW step \in {"start", "read", "reread", "flag", "recheck", "witness",
                       "token", "retoken", "write", "after"},
         NEW x \in BOOLEAN
  PROVE  /\ Underway([r EXCEPT !.step = step])
         /\ Underway([r EXCEPT !.step = step, !.unproven = x])
         /\ Underway([r EXCEPT !.step = step, !.refused = x])
  BY DEF Task, Underway

LEMMA RetryTyped ==
  ASSUME NEW r, Underway(r), NEW f \in BOOLEAN, NEW t \in BOOLEAN
  PROVE  Underway([r EXCEPT !.step = "flag", !.refused = f, !.retried = t])
  BY DEF Task, Underway

-----------------------------------------------------------------------------
(* Requests, ends and answers: each lets the task go on. *)

LEMMA LockFree ==
  ASSUME TypeOK, NEW t \in Tasks
  PROVE  LockReleased(t) \in Tasks \cup {NoTask}
  BY DEF TypeOK, LockReleased

LEMMA RequestGoes ==
  ASSUME TypeOK, NEW t \in Tasks, NEW r, Underway(r), NEW b \in Sessions,
         Request(t, r, b)
  PROVE  Goes(t)
  <1> DEFINE free == LockReleased(t)
             queued == [r EXCEPT !.pc = "queued", !.why = "session",
                                 !.cookie = 0, !.answer = "none"]
             new == IF b = 0 THEN AskLogin(r, "session")
                    ELSE IF r.step = "write" /\ free # NoTask THEN queued ELSE Send(r, b)
  <1>1. Settled(AskLogin(r, "session"))
    BY AskLoginTyped
  <1>2. Settled(queued)
    BY QueuedTyped
  <1>3. Settled(Send(r, b))
    BY SendTyped
  <1>4. Settled(new)
    BY <1>1, <1>2, <1>3
  <1>5. task' = [task EXCEPT ![t] = new]
    BY DEF Request
  <1>6. writeLock' \in Tasks \cup {NoTask}
    BY LockFree DEF Request, TypeOK
  <1> QED
    BY <1>4, <1>5, <1>6 DEF Goes

LEMMA LogInAgainGoes ==
  ASSUME TypeOK, NEW t \in Tasks, NEW r, Underway(r), LogInAgain(t, r)
  PROVE  Goes(t)
  BY AskLoginTyped DEF LogInAgain, Goes, TypeOK

LEMMA EndGoes ==
  ASSUME TypeOK, NEW t \in Tasks, NEW outcome \in Outcomes, NEW b \in Sessions,
         End(t, outcome, b)
  PROVE  Goes(t) /\ belief' \in {b, 0}
  <1> DEFINE ended == [IdleTask EXCEPT !.pc = "done", !.outcome = outcome]
             new == IF t = Poll THEN IdleTask ELSE ended
  <1>1. Settled(new)
    BY IdleTaskTyped, EndedTyped
  <1>2. task' = [task EXCEPT ![t] = new]
    BY DEF End
  <1>3. writeLock' \in Tasks \cup {NoTask}
    BY LockFree DEF End
  <1> QED
    BY <1>1, <1>2, <1>3 DEF End, Goes

LEMMA RefusalStandsGoes ==
  ASSUME TypeOK, NEW t \in Tasks, NEW r, Underway(r), NEW b \in Sessions,
         RefusalStands(t, r, b)
  PROVE  Goes(t) /\ belief' \in {b, 0}
  <1>1. CASE t \in Retried /\ ~r.retried
    <2> DEFINE again == [r EXCEPT !.step = "flag", !.refused = FALSE,
                                  !.retried = TRUE]
    <2>1. Underway(again)
      BY RetryTyped
    <2>2. Settled(AskLogin(again, "own"))
      BY <2>1, AskLoginTyped
    <2>3. task' = [task EXCEPT ![t] = AskLogin(again, "own")]
      BY <1>1 DEF RefusalStands
    <2>4. writeLock' \in Tasks \cup {NoTask} /\ belief' = b
      BY <1>1, LockFree DEF RefusalStands
    <2> QED
      BY <2>2, <2>3, <2>4 DEF Goes
  <1>2. CASE ~(t \in Retried /\ ~r.retried)
    <2>1. End(t, "refused", b)
      BY <1>2 DEF RefusalStands
    <2>2. "refused" \in Outcomes
      BY DEF Outcomes
    <2> QED
      BY <2>1, <2>2, EndGoes
  <1> QED
    BY <1>1, <1>2

LEMMA DeriveTokenGoes ==
  ASSUME TypeOK, NEW t \in Tasks, NEW r, Underway(r), NEW b \in Sessions,
         DeriveToken(t, r, b)
  PROVE  Goes(t) /\ belief' = b
  <1>1. Underway([r EXCEPT !.step = "token", !.unproven = FALSE])
    BY StepTyped
  <1> QED
    BY <1>1, RequestGoes DEF DeriveToken

LEMMA WitnessVerdictGoes ==
  ASSUME TypeOK, NEW t \in Tasks, NEW r, Underway(r), NEW b \in Sessions,
         WitnessVerdict(t, r, b)
  PROVE  Goes(t) /\ belief' \in {b, 0} /\ verdict' \in Verdicts
  BY RefusalStandsGoes, DeriveTokenGoes DEF WitnessVerdict, Verdicts

LEMMA AskWitnessesGoes ==
  ASSUME TypeOK, NEW t \in Tasks, NEW r, Underway(r), NEW b \in Sessions,
         AskWitnesses(t, r, b)
  PROVE  Goes(t) /\ belief' \in {b, 0} /\ verdict' \in Verdicts
  <1>1. CASE /\ Request(t, [r EXCEPT !.step = "witness"], b)
             /\ belief' = b /\ UNCHANGED verdict
    <2>1. Underway([r EXCEPT !.step = "witness"])
      BY StepTyped
    <2>2. verdict' \in Verdicts
      BY <1>1 DEF TypeOK, Verdicts
    <2> QED
      BY <1>1, <2>1, <2>2, RequestGoes
  <1>2. CASE WitnessVerdict(t, r, b)
    BY <1>2, WitnessVerdictGoes
  <1> QED
    BY <1>1, <1>2 DEF AskWitnesses

LEMMA LearnedTyped ==
  ASSUME TypeOK
  PROVE  /\ seen \in BOOLEAN /\ absent \in BOOLEAN /\ acked \in BOOLEAN
         /\ verdict \in Verdicts /\ TRUE \in BOOLEAN
         /\ "confirmed" \in Verdicts /\ "denied" \in Verdicts
         /\ "unanswered" \in Verdicts
  BY DEF TypeOK, Verdicts

LEMMA OutcomesAre ==
  /\ "none" \in Outcomes /\ "ok" \in Outcomes
  /\ "blocked" \in Outcomes /\ "failed" \in Outcomes
  BY DEF Outcomes

-----------------------------------------------------------------------------
(* The handling of an answer, one lemma per step of a call. *)

\* What every one of them does: the task goes on, believing at most in b.
Handled(t, b) == Goes(t) /\ belief' \in {b, 0} /\ Learned

LEMMA ReadHandled ==
  ASSUME TypeOK, NEW t \in Tasks, NEW r, Underway(r), NEW answer \in Answers,
         NEW b \in Sessions, ReadAnswered(t, r, answer, b)
  PROVE  Handled(t, b)
  <1>1. Learned
    BY LearnedTyped DEF ReadAnswered, Learned
  <1>2. CASE answer = "blank" /\ r.step = "read"
    <2>1. Underway([r EXCEPT !.step = "reread"])
      BY StepTyped
    <2> QED
      BY <1>1, <1>2, <2>1, LogInAgainGoes DEF ReadAnswered, Handled
  <1>3. CASE ~(answer = "blank" /\ r.step = "read")
    <2>1. End(t, "none", b)
      BY <1>3 DEF ReadAnswered
    <2> QED
      BY <1>1, <2>1, EndGoes, OutcomesAre DEF Handled
  <1> QED
    BY <1>2, <1>3

LEMMA FlagHandled ==
  ASSUME TypeOK, NEW t \in Tasks, NEW r, Underway(r), NEW answer \in Answers,
         NEW b \in Sessions, FlagAnswered(t, r, answer, b)
  PROVE  Handled(t, b)
  <1>1. CASE answer = "good"
    <2>1. DeriveToken(t, r, b) /\ seen' = TRUE /\ verdict' = "confirmed"
          /\ UNCHANGED <<absent, acked>>
      BY <1>1 DEF FlagAnswered
    <2>2. Learned
      BY <2>1, LearnedTyped DEF Learned
    <2> QED
      BY <2>1, <2>2, DeriveTokenGoes DEF Handled
  <1>2. CASE answer = "blank" /\ (seen \/ ~absent)
    <2> DEFINE new == [r EXCEPT !.step = "recheck", !.unproven = ~seen]
    <2>1. LogInAgain(t, new) /\ belief' = b /\ UNCHANGED <<seen, verdict, absent, acked>>
      BY <1>2 DEF FlagAnswered
    <2>2. (~seen) \in BOOLEAN
      BY LearnedTyped
    <2>3. Underway(new)
      BY <2>2, StepTyped
    <2>4. Learned
      BY <2>1, LearnedTyped DEF Learned
    <2> QED
      BY <2>1, <2>3, <2>4, LogInAgainGoes DEF Handled
  <1>3. CASE answer # "good" /\ ~(answer = "blank" /\ (seen \/ ~absent))
    <2>1. AskWitnesses(t, r, b) /\ UNCHANGED <<seen, absent, acked>>
      BY <1>3 DEF FlagAnswered
    <2> QED
      BY <2>1, LearnedTyped, AskWitnessesGoes DEF Handled, Learned
  <1> QED
    BY <1>1, <1>2, <1>3

LEMMA RecheckHandled ==
  ASSUME TypeOK, NEW t \in Tasks, NEW r, Underway(r), NEW answer \in Answers,
         NEW b \in Sessions, RecheckAnswered(t, r, answer, b)
  PROVE  Handled(t, b)
  <1>1. CASE answer = "good"
    <2>1. DeriveToken(t, r, b) /\ seen' = TRUE /\ verdict' = "confirmed"
          /\ UNCHANGED <<absent, acked>>
      BY <1>1 DEF RecheckAnswered
    <2> QED
      BY <2>1, LearnedTyped, DeriveTokenGoes DEF Handled, Learned
  <1>2. CASE answer # "good" /\ r.unproven
    <2>1. AskWitnesses(t, r, b) /\ absent' = TRUE /\ UNCHANGED <<seen, acked>>
      BY <1>2 DEF RecheckAnswered
    <2> QED
      BY <2>1, LearnedTyped, AskWitnessesGoes DEF Handled, Learned
  <1>3. CASE answer # "good" /\ ~r.unproven
    <2>1. DeriveToken(t, r, b) /\ UNCHANGED <<seen, absent, acked>>
      BY <1>3 DEF RecheckAnswered
    <2>2. verdict' = IF answer = "blank" THEN "denied" ELSE "unanswered"
      BY <1>3 DEF RecheckAnswered
    <2>3. Goes(t) /\ belief' = b
      BY <2>1, DeriveTokenGoes
    <2>4. Learned
      BY <2>1, <2>2, LearnedTyped DEF Learned
    <2> QED
      BY <2>3, <2>4 DEF Handled
  <1> QED
    BY <1>1, <1>2, <1>3

LEMMA TokenHandled ==
  ASSUME TypeOK, NEW t \in Tasks, NEW r, Underway(r), NEW answer \in Answers,
         NEW b \in Sessions, TokenAnswered(t, r, answer, b)
  PROVE  Handled(t, b)
  <1> DEFINE denied == t \in Guarded /\ seen /\ verdict = "denied"
  <1>1. Learned
    BY LearnedTyped DEF TokenAnswered, Learned
  <1>2. \/ End(t, "blocked", b)
        \/ Request(t, [r EXCEPT !.step = "write"], b) /\ belief' = b
        \/ LogInAgain(t, [r EXCEPT !.step = "retoken"]) /\ belief' = b
        \/ End(t, "failed", b)
    <2>1. CASE answer = "good" /\ denied
      BY <2>1 DEF TokenAnswered
    <2>2. CASE answer = "good" /\ ~denied
      BY <2>2 DEF TokenAnswered
    <2>3. CASE answer = "blank" /\ r.step = "token"
      BY <2>3 DEF TokenAnswered
    <2>4. CASE answer # "good" /\ ~(answer = "blank" /\ r.step = "token")
      BY <2>4 DEF TokenAnswered
    <2> QED
      BY <2>1, <2>2, <2>3, <2>4
  <1>3. Underway([r EXCEPT !.step = "write"]) /\ Underway([r EXCEPT !.step = "retoken"])
    BY StepTyped
  <1>4. Goes(t) /\ belief' \in {b, 0}
    BY <1>2, <1>3, EndGoes, OutcomesAre, RequestGoes, LogInAgainGoes
  <1> QED
    BY <1>1, <1>4 DEF Handled

LEMMA WriteHandled ==
  ASSUME TypeOK, NEW t \in Tasks, NEW r, Underway(r), NEW answer \in Answers,
         NEW b \in Sessions, WriteAnswered(t, r, answer, b)
  PROVE  Handled(t, b)
  <1>1. CASE t \in Unloads
    <2>1. acked' = (answer = "good") /\ End(t, "none", b) /\ UNCHANGED <<seen, absent, verdict>>
      BY <1>1 DEF WriteAnswered
    <2>2. (answer = "good") \in BOOLEAN
      OBVIOUS
    <2>3. Learned
      BY <2>1, <2>2, LearnedTyped DEF Learned
    <2> QED
      BY <2>1, <2>3, EndGoes, OutcomesAre DEF Handled
  <1>2. CASE t \notin Unloads
    <2>1. Learned
      BY <1>2, LearnedTyped DEF Learned, WriteAnswered
    <2>2. \/ End(t, "ok", b)
          \/ Request(t, [r EXCEPT !.step = "after", !.refused = TRUE], b) /\ belief' = b
          \/ End(t, "failed", b)
      BY <1>2 DEF WriteAnswered
    <2>3. Underway([r EXCEPT !.step = "after", !.refused = TRUE])
      BY StepTyped
    <2>4. Goes(t) /\ belief' \in {b, 0}
      BY <2>2, <2>3, EndGoes, OutcomesAre, RequestGoes
    <2> QED
      BY <2>1, <2>4 DEF Handled
  <1> QED
    BY <1>1, <1>2

LEMMA AfterHandled ==
  ASSUME TypeOK, NEW t \in Tasks, NEW r, Underway(r), NEW answer \in Answers,
         NEW b \in Sessions, AfterAnswered(t, r, answer, b)
  PROVE  Handled(t, b)
  <1>1. CASE answer = "good"
    <2>1. RefusalStands(t, r, b) /\ seen' = TRUE /\ verdict' = "confirmed"
          /\ UNCHANGED <<absent, acked>>
      BY <1>1 DEF AfterAnswered
    <2> QED
      BY <2>1, LearnedTyped, RefusalStandsGoes DEF Handled, Learned
  <1>2. CASE answer = "blank" /\ seen
    <2>1. End(t, "failed", b) /\ verdict' = "denied" /\ UNCHANGED <<seen, absent, acked>>
      BY <1>2 DEF AfterAnswered
    <2> QED
      BY <2>1, LearnedTyped, EndGoes, OutcomesAre DEF Handled, Learned
  <1>3. CASE answer # "good" /\ ~(answer = "blank" /\ seen)
    <2>1. AskWitnesses(t, r, b) /\ UNCHANGED <<seen, absent, acked>>
      BY <1>3 DEF AfterAnswered
    <2> QED
      BY <2>1, LearnedTyped, AskWitnessesGoes DEF Handled, Learned
  <1> QED
    BY <1>1, <1>2, <1>3

LEMMA GoOnHandled ==
  ASSUME TypeOK, NEW t \in Tasks, NEW r, Underway(r), NEW answer \in Answers,
         NEW b \in Sessions, GoOn(t, r, answer, b)
  PROVE  Handled(t, b)
  <1>1. CASE WitnessAnswered(t, r, answer, b)
    BY <1>1, WitnessVerdictGoes, LearnedTyped DEF WitnessAnswered, Handled, Learned
  <1> QED
    BY <1>1, ReadHandled, FlagHandled, RecheckHandled, TokenHandled, WriteHandled,
       AfterHandled DEF GoOn

\* The one answer that may follow a command carried out ends the call, and not as
\* refused.
LEMMA CarriedEnd ==
  ASSUME TypeOK, NEW t \in Writers, NEW r, r.step = "write", NEW b \in Sessions,
         NEW answer \in {"good", "failed", "lost"}, GoOn(t, r, answer, b)
  PROVE  task'[t].pc = "done" /\ task'[t].outcome \in {"ok", "failed"}
  <1>1. WriteAnswered(t, r, answer, b)
    BY DEF GoOn
  <1>2. t \notin Unloads /\ t # Poll /\ t \in Tasks
    BY SessionConstants DEF Tasks
  <1>3. End(t, "ok", b) \/ End(t, "failed", b)
    BY <1>1, <1>2 DEF WriteAnswered
  <1>4. PICK outcome \in {"ok", "failed"} :
            task' = [task EXCEPT ![t] = [IdleTask EXCEPT !.pc = "done", !.outcome = outcome]]
    BY <1>2, <1>3 DEF End
  <1>5. task'[t] = [IdleTask EXCEPT !.pc = "done", !.outcome = outcome]
    BY <1>2, <1>4 DEF TypeOK
  <1> QED
    BY <1>5, EndedTyped DEF Outcomes

-----------------------------------------------------------------------------
(* The invariant. *)

LEMMA InitInv == Init => IInv
  <1> SUFFICES ASSUME Init PROVE IInv
    OBVIOUS
  <1>1. FALSE \in BOOLEAN /\ 0 \in Sessions
    BY SessionConstants DEF Sessions
  <1>2. \A t \in Tasks : task[t] = IdleTask
    BY DEF Init
  <1>3. IdleTask \in Task /\ IdleTask.pc = "idle" /\ IdleTask.outcome = "none"
    BY IdleTaskTyped DEF Underway, IdleTask
  <1>4. task \in [Tasks -> Task]
    BY <1>3 DEF Init
  <1>5. carried \in [Writers -> 0..2] /\ \A w \in Writers : carried[w] = 0
    BY DEF Init
  <1>6. TypeOK
    BY <1>1, <1>4, <1>5 DEF Init, TypeOK
  <1>7. LatestLogin
    BY DEF Init, LatestLogin
  <1>8. LoginHeld
    BY <1>2, <1>3, SessionConstants DEF Init, LoginHeld
  <1>9. CarriedEnds
    BY <1>2, <1>3, <1>5 DEF CarriedEnds, Tasks
  <1> QED
    BY <1>6, <1>7, <1>8, <1>9 DEF IInv

\* What is left of the type invariant when a task moves on.
LEMMA GoesTyped ==
  ASSUME TypeOK, NEW t \in Tasks, Goes(t)
  PROVE  /\ task' \in [Tasks -> Task] /\ Settled(task'[t])
         /\ \A s \in Tasks : s # t => task'[s] = task[s]
         /\ writeLock' \in Tasks \cup {NoTask}
  BY DEF TypeOK, Goes, Settled

\* A task that was not carrying a command out, or that ends its call in this step,
\* keeps the account of what was carried out.
LEMMA GoesCarried ==
  ASSUME TypeOK, CarriedEnds, NEW t \in Tasks, Goes(t), carried' = carried,
         t \in Writers /\ carried[t] # 0 =>
            task'[t].pc = "done" /\ task'[t].outcome \in {"ok", "failed"}
  PROVE  CarriedEnds'
  <1>1. \A s \in Tasks : task'[s].pc # "done" => task'[s].outcome = "none"
    BY GoesTyped DEF Settled, CarriedEnds
  <1>2. ASSUME NEW w \in Writers, carried[w] # 0
        PROVE  /\ carried[w] = 1
               /\ \/ task'[w].pc = "done" /\ task'[w].outcome \in {"ok", "failed"}
                  \/ /\ task'[w].pc = "sent" /\ task'[w].step = "write"
                     /\ task'[w].answer \in {"good", "failed", "lost"}
    <2>1. w \in Tasks
      BY DEF Tasks
    <2>2. carried[w] = 1
      BY <1>2 DEF CarriedEnds
    <2>3. CASE w = t
      BY <1>2, <2>2, <2>3
    <2>4. CASE w # t
      BY <1>2, <2>1, <2>4, GoesTyped DEF CarriedEnds
    <2> QED
      BY <2>3, <2>4
  <1> QED
    BY <1>1, <1>2 DEF CarriedEnds

\* Outside of a login, a task that moves on keeps who holds the login lock.
LEMMA GoesHeld ==
  ASSUME TypeOK, LoginHeld, NEW t \in Tasks, Goes(t), task[t].pc \notin LoggingIn,
         loginLock' = loginLock, logins' = logins
  PROVE  LoginHeld'
  <1> SUFFICES ASSUME NEW s \in Tasks
               PROVE  /\ task'[s].pc \in LoggingIn <=> loginLock = s
                      /\ task'[s].pc = "granted" => task'[s].number = logins
    BY DEF LoginHeld, LoggingIn
  <1>1. CASE s = t
    BY <1>1, GoesTyped DEF Settled, LoginHeld, LoggingIn
  <1>2. CASE s # t
    BY <1>2, GoesTyped DEF LoginHeld, LoggingIn
  <1> QED
    BY <1>1, <1>2

\* A login that ends lets the lock go; nobody else was logging in.
LEMMA GoesReleased ==
  ASSUME TypeOK, LoginHeld, NEW t \in Tasks, Goes(t), task[t].pc \in LoggingIn,
         loginLock' = NoTask, logins' = logins
  PROVE  LoginHeld'
  <1> SUFFICES ASSUME NEW s \in Tasks
               PROVE  task'[s].pc \notin LoggingIn
    BY SessionConstants DEF LoginHeld, LoggingIn
  <1>1. loginLock = t
    BY DEF LoginHeld, LoggingIn
  <1>2. CASE s = t
    BY <1>2, GoesTyped DEF Settled
  <1>3. CASE s # t
    BY <1>1, <1>3, GoesTyped DEF LoginHeld, LoggingIn
  <1> QED
    BY <1>2, <1>3

LEMMA IsUnderway ==
  ASSUME IInv, NEW t \in Tasks, task[t].pc # "done"
  PROVE  Underway(task[t])
  BY DEF IInv, TypeOK, CarriedEnds, Underway

-----------------------------------------------------------------------------
(* Actions. *)

\* A task outside of a login that moves on in one step, with what it carries out
\* unchanged, keeps the invariant.
LEMMA HandledInv ==
  ASSUME IInv, NEW t \in Tasks, Goes(t), task[t].pc \notin LoggingIn,
         belief' \in {belief, 0}, Learned,
         UNCHANGED <<live, logins, carried, loginLock>>,
         t \in Writers /\ carried[t] # 0 =>
            task'[t].pc = "done" /\ task'[t].outcome \in {"ok", "failed"}
  PROVE  IInv'
  <1>1. TypeOK /\ LatestLogin /\ LoginHeld /\ CarriedEnds
    BY DEF IInv
  <1>2. 0 \in Sessions /\ belief' \in Sessions
    BY <1>1, SessionConstants DEF TypeOK, Sessions
  <1>3. TypeOK'
    BY <1>1, <1>2, GoesTyped DEF TypeOK, Learned, Verdicts, Sessions
  <1>4. LatestLogin'
    BY <1>1 DEF LatestLogin
  <1>5. LoginHeld'
    BY <1>1, GoesHeld
  <1>6. CarriedEnds'
    BY <1>1, GoesCarried
  <1> QED
    BY <1>3, <1>4, <1>5, <1>6 DEF IInv

LEMMA LearnedUnchanged ==
  ASSUME TypeOK, UNCHANGED <<seen, absent, verdict, acked>>
  PROVE  Learned
  BY LearnedTyped DEF Learned

\* A task at an early stage has carried nothing out.
LEMMA NothingCarried ==
  ASSUME IInv, NEW t \in Tasks, t \in Writers, task[t].pc \notin {"done", "sent"}
  PROVE  carried[t] = 0
  BY DEF IInv, CarriedEnds

LEMMA CommandGivenInv ==
  ASSUME IInv, NEW w \in Writers, CommandGiven(w)
  PROVE  IInv'
  <1>1. TypeOK /\ w \in Tasks /\ task[w].pc = "idle"
    BY DEF IInv, Tasks, CommandGiven
  <1>2. Underway([IdleTask EXCEPT !.step = "flag"])
    BY IdleTaskTyped, StepTyped
  <1>3. Settled(AskLogin([IdleTask EXCEPT !.step = "flag"], "own"))
    BY <1>2, AskLoginTyped
  <1>4. Goes(w)
    BY <1>1, <1>3 DEF CommandGiven, Goes, TypeOK
  <1>5. Learned
    BY <1>1, LearnedUnchanged DEF CommandGiven
  <1> QED
    BY <1>1, <1>4, <1>5, HandledInv, NothingCarried DEF CommandGiven, LoggingIn

LEMMA PollReadsInv ==
  ASSUME IInv, PollReads
  PROVE  IInv'
  <1>1. TypeOK /\ Poll \in Tasks /\ Poll \notin Writers /\ task[Poll].pc = "idle"
    BY SessionConstants DEF IInv, Tasks, PollReads
  <1> DEFINE r == [IdleTask EXCEPT !.step = "read"]
  <1>2. Underway(r)
    BY IdleTaskTyped, StepTyped
  <1>3. PICK locked \in BOOLEAN, b \in {belief, 0} :
            /\ writeLock' = IF locked THEN Poll ELSE writeLock
            /\ belief' = b
            /\ task' = [task EXCEPT ![Poll] =
                    IF b = 0 THEN AskLogin(r, "session") ELSE Send(r, b)]
    BY DEF PollReads
  <1>4. b \in Sessions
    BY <1>1, SessionConstants DEF TypeOK, Sessions
  <1>5. Settled(AskLogin(r, "session")) /\ Settled(Send(r, b))
    BY <1>2, <1>4, AskLoginTyped, SendTyped
  <1>6. writeLock' \in Tasks \cup {NoTask}
    BY <1>1, <1>3 DEF TypeOK
  <1>7. Goes(Poll)
    BY <1>3, <1>5, <1>6 DEF Goes
  <1>8. Learned
    BY <1>1, LearnedUnchanged DEF PollReads
  <1> QED
    BY <1>1, <1>3, <1>7, <1>8, HandledInv DEF PollReads, LoggingIn

LEMMA LogoutInv ==
  ASSUME IInv, NEW u \in Unloads, Logout(u)
  PROVE  IInv'
  <1>1. TypeOK /\ u \in Tasks /\ u \notin Writers /\ task[u].pc = "idle"
    BY SessionConstants DEF IInv, Tasks, Logout
  <1>2. Underway([IdleTask EXCEPT !.step = "flag"])
    BY IdleTaskTyped, StepTyped
  <1>3. 0 \in Sessions /\ belief \in Sessions
    BY <1>1, SessionConstants DEF TypeOK, Sessions
  <1>4. Goes(u) /\ belief' \in {belief, 0}
    BY <1>1, <1>2, <1>3, EndGoes, OutcomesAre, RequestGoes DEF Logout
  <1>5. Learned
    BY <1>1, LearnedUnchanged DEF Logout
  <1> QED
    BY <1>1, <1>4, <1>5, HandledInv DEF Logout, LoggingIn

LEMMA WriteGoesOutInv ==
  ASSUME IInv, NEW t \in Tasks, WriteGoesOut(t)
  PROVE  IInv'
  <1>1. TypeOK /\ task[t].pc = "queued"
    BY DEF IInv, WriteGoesOut
  <1>2. Settled(Send(task[t], belief))
    BY <1>1, IsUnderway, SendTyped DEF TypeOK
  <1>3. task' = [task EXCEPT ![t] = Send(task[t], belief)]
    BY <1>1 DEF WriteGoesOut, TypeOK
  <1>4. writeLock' \in Tasks \cup {NoTask}
    BY <1>1 DEF WriteGoesOut, TypeOK
  <1>5. Goes(t)
    BY <1>2, <1>3, <1>4 DEF Goes
  <1>6. Learned
    BY <1>1, LearnedUnchanged DEF WriteGoesOut
  <1> QED
    BY <1>1, <1>5, <1>6, HandledInv, NothingCarried DEF WriteGoesOut, LoggingIn

LEMMA AnswerArrivesInv ==
  ASSUME IInv, NEW t \in Tasks, AnswerArrives(t)
  PROVE  IInv'
  <1> DEFINE r == task[t]
             b == IF r.answer = "lost" THEN 0 ELSE belief
  <1>1. TypeOK /\ r.pc = "sent" /\ r.answer # "none"
    BY DEF IInv, AnswerArrives
  <1>2. Underway(r)
    BY <1>1, IsUnderway
  <1>3. r.answer \in Answers
    BY <1>2 DEF Underway, Task, Answers
  <1>4. b \in Sessions /\ b \in {belief, 0}
    BY <1>1, SessionConstants DEF TypeOK, Sessions
  <1>5. GoOn(t, r, r.answer, b)
    BY DEF AnswerArrives
  <1> HIDE DEF b
  <1>6. Handled(t, b)
    BY <1>1, <1>2, <1>3, <1>4, <1>5, GoOnHandled
  <1>7. ASSUME t \in Writers, carried[t] # 0
        PROVE  task'[t].pc = "done" /\ task'[t].outcome \in {"ok", "failed"}
    <2>1. r.step = "write" /\ r.answer \in {"good", "failed", "lost"}
      BY <1>1, <1>7 DEF IInv, CarriedEnds
    <2> QED
      BY <1>1, <1>4, <1>5, <1>7, <2>1, CarriedEnd
  <1> QED
    BY <1>1, <1>4, <1>6, <1>7, HandledInv DEF AnswerArrives, Handled, LoggingIn

LEMMA LoginBeginsInv ==
  ASSUME IInv, NEW t \in Tasks, LoginBegins(t)
  PROVE  IInv'
  <1>1. TypeOK /\ LatestLogin /\ LoginHeld /\ CarriedEnds /\ task[t].pc = "waiting"
    BY DEF IInv, LoginBegins
  <1> DEFINE new == [task[t] EXCEPT !.pc = "posting"]
  <1>2. Underway(new) /\ new.pc = "posting"
    BY <1>1, IsUnderway DEF Underway, Task
  <1>3. task' = [task EXCEPT ![t] = new]
    BY <1>1 DEF LoginBegins, TypeOK
  <1> HIDE DEF new
  <1>4. /\ task' \in [Tasks -> Task] /\ task'[t] = new
        /\ \A s \in Tasks : s # t => task'[s] = task[s]
    BY <1>1, <1>2, <1>3 DEF TypeOK, Underway
  <1>5. TypeOK'
    BY <1>1, <1>4, SessionConstants DEF TypeOK, LoginBegins, Sessions
  <1>6. LatestLogin'
    BY DEF LatestLogin, LoginBegins
  <1>7. LoginHeld'
    BY <1>1, <1>2, <1>4, SessionConstants DEF LoginHeld, LoginBegins
  <1>8. CarriedEnds'
    BY <1>1, <1>2, <1>4 DEF CarriedEnds, LoginBegins, Underway, Tasks
  <1> QED
    BY <1>5, <1>6, <1>7, <1>8 DEF IInv

LEMMA RouterGrantsInv ==
  ASSUME IInv, NEW t \in Tasks, RouterGrants(t)
  PROVE  IInv'
  <1>1. TypeOK /\ LatestLogin /\ LoginHeld /\ CarriedEnds /\ task[t].pc = "posting"
    BY DEF IInv, RouterGrants
  <1> DEFINE new == [task[t] EXCEPT !.pc = "granted", !.number = logins + 1]
  <1>2. logins + 1 \in Sessions
    BY <1>1, SessionConstants DEF TypeOK, RouterGrants, Sessions
  <1>3. Underway(new) /\ new.pc = "granted" /\ new.number = logins + 1
    BY <1>1, <1>2, IsUnderway DEF Underway, Task
  <1>4. task' = [task EXCEPT ![t] = new]
    BY <1>1 DEF RouterGrants, TypeOK
  <1> HIDE DEF new
  <1>5. /\ task' \in [Tasks -> Task] /\ task'[t] = new
        /\ \A s \in Tasks : s # t => task'[s] = task[s]
    BY <1>1, <1>3, <1>4 DEF TypeOK, Underway
  <1>6. TypeOK'
    BY <1>1, <1>2, <1>5 DEF TypeOK, RouterGrants, Sessions
  <1>7. loginLock = t
    BY <1>1 DEF LoginHeld
  <1>8. LatestLogin'
    BY <1>1, <1>7, SessionConstants DEF LatestLogin, RouterGrants
  <1>9. LoginHeld'
    BY <1>1, <1>3, <1>5, <1>7 DEF LoginHeld, RouterGrants
  <1>10. CarriedEnds'
    BY <1>1, <1>3, <1>5 DEF CarriedEnds, RouterGrants, Underway, Tasks
  <1> QED
    BY <1>6, <1>8, <1>9, <1>10 DEF IInv

\* A login that ends, with the session it made or with none, keeps the invariant.
LEMMA LoginEndsInv ==
  ASSUME IInv, NEW t \in Tasks, Goes(t), task[t].pc \in LoggingIn,
         loginLock' = NoTask, UNCHANGED <<live, logins, carried>>,
         belief' \in {0, logins}, Learned
  PROVE  IInv'
  <1>1. TypeOK /\ LatestLogin /\ LoginHeld /\ CarriedEnds
    BY DEF IInv
  <1>2. 0 \in Sessions /\ belief' \in Sessions
    BY <1>1, SessionConstants DEF TypeOK, Sessions
  <1>3. TypeOK'
    BY <1>1, <1>2, GoesTyped DEF TypeOK, Learned, Verdicts, Sessions
  <1>4. LatestLogin'
    BY DEF LatestLogin
  <1>5. LoginHeld'
    BY <1>1, GoesReleased
  <1>6. task[t].pc \notin {"done", "sent"}
    BY DEF LoggingIn
  <1>7. CarriedEnds'
    BY <1>1, <1>6, NothingCarried, GoesCarried
  <1> QED
    BY <1>3, <1>4, <1>5, <1>7 DEF IInv

LEMMA LoginSucceedsInv ==
  ASSUME IInv, NEW t \in Tasks, LoginSucceeds(t)
  PROVE  IInv'
  <1>1. TypeOK /\ task[t].pc = "granted"
    BY DEF IInv, LoginSucceeds
  <1>2. task[t].number = logins /\ logins \in Sessions
    BY <1>1 DEF IInv, LoginHeld, TypeOK
  <1>3. Goes(t)
    BY <1>1, <1>2, IsUnderway, RequestGoes DEF LoginSucceeds
  <1>4. Learned
    BY <1>1, LearnedUnchanged DEF LoginSucceeds
  <1>5. belief' = logins /\ loginLock' = NoTask /\ UNCHANGED <<live, logins, carried>>
    BY <1>2 DEF LoginSucceeds
  <1> QED
    BY <1>1, <1>3, <1>4, <1>5, LoginEndsInv DEF LoggingIn

LEMMA LoginFailsInv ==
  ASSUME IInv, NEW t \in Tasks, LoginFails(t)
  PROVE  IInv'
  <1> DEFINE r == task[t]
  <1>1. TypeOK /\ r.pc \in LoggingIn
    BY DEF IInv, LoginFails, LoggingIn
  <1>2. Underway(r)
    BY <1>1, IsUnderway DEF LoggingIn
  <1>3. belief \in Sessions
    BY <1>1 DEF TypeOK
  <1>4. belief = 0
    BY <1>1, SessionConstants DEF IInv, LatestLogin, LoginHeld, LoggingIn
  <1>5. Goes(t) /\ belief' \in {belief, 0} /\ Learned
    <2>1. CASE /\ Request(t, r, belief)
               /\ UNCHANGED <<belief, seen, absent, verdict, acked>>
      BY <1>1, <1>2, <1>3, <2>1, RequestGoes, LearnedUnchanged
    <2>2. CASE GoOn(t, r, "failed", belief)
      BY <1>1, <1>2, <1>3, <2>2, GoOnHandled DEF Handled, Answers
    <2>3. CASE /\ AskWitnesses(t, r, belief) /\ UNCHANGED <<seen, absent, acked>>
      BY <1>1, <1>2, <1>3, <2>3, AskWitnessesGoes, LearnedTyped DEF Learned
    <2>4. CASE /\ DeriveToken(t, r, belief)
               /\ verdict' = "denied" /\ UNCHANGED <<seen, absent, acked>>
      <3>1. Goes(t) /\ belief' = belief
        BY <1>1, <1>2, <1>3, <2>4, DeriveTokenGoes
      <3> QED
        BY <1>1, <2>4, <3>1, LearnedTyped DEF Learned
    <2>5. CASE /\ End(t, "failed", belief)
               /\ UNCHANGED <<seen, absent, verdict, acked>>
      BY <1>1, <1>3, <2>5, EndGoes, OutcomesAre, LearnedUnchanged
    <2> QED
      BY <2>1, <2>2, <2>3, <2>4, <2>5 DEF LoginFails
  <1> QED
    BY <1>1, <1>4, <1>5, LoginEndsInv DEF LoginFails

\* An answer is noted on the task; what the router carried out is counted with it.
LEMMA AnsweredTyped ==
  ASSUME NEW r \in Task, NEW answer \in Answers, NEW new,
         new = [r EXCEPT !.answer = answer]
  PROVE  /\ new \in Task /\ new.answer = answer /\ new.pc = r.pc
         /\ new.step = r.step /\ new.outcome = r.outcome /\ new.number = r.number
  BY DEF Task, Answers

LEMMA RouterAnswersInv ==
  ASSUME IInv, NEW t \in Tasks, RouterAnswers(t)
  PROVE  IInv'
  <1>1. TypeOK /\ LatestLogin /\ LoginHeld /\ CarriedEnds
    BY DEF IInv
  <1>2. task[t].pc = "sent" /\ task[t].answer = "none" /\ task[t] \in Task
    BY <1>1 DEF RouterAnswers, InFlight, TypeOK
  <1>3. PICK answer \in ReadAnswers(t) : task' = [task EXCEPT ![t].answer = answer]
    BY DEF RouterAnswers
  <1>4. answer \in Answers
    BY DEF ReadAnswers, Answers
  <1> DEFINE new == [task[t] EXCEPT !.answer = answer]
  <1>5. /\ new \in Task /\ new.pc = task[t].pc
        /\ new.outcome = task[t].outcome /\ new.number = task[t].number
    BY <1>2, <1>4, AnsweredTyped
  <1>6. task' = [task EXCEPT ![t] = new]
    BY <1>1, <1>3 DEF TypeOK
  <1> HIDE DEF new
  <1>7. /\ task' \in [Tasks -> Task] /\ task'[t] = new
        /\ \A s \in Tasks : s # t => task'[s] = task[s]
    BY <1>1, <1>5, <1>6 DEF TypeOK
  <1>8. TypeOK'
    BY <1>1, <1>7 DEF TypeOK, RouterAnswers
  <1>9. LatestLogin' /\ LoginHeld'
    BY <1>1, <1>5, <1>7 DEF LatestLogin, LoginHeld, RouterAnswers
  <1>10. CarriedEnds'
    BY <1>1, <1>2, <1>5, <1>7 DEF CarriedEnds, RouterAnswers, Tasks
  <1> QED
    BY <1>8, <1>9, <1>10 DEF IInv

LEMMA RouterTakesWriteInv ==
  ASSUME IInv, NEW t \in Tasks, RouterTakesWrite(t)
  PROVE  IInv'
  <1>1. TypeOK /\ LatestLogin /\ LoginHeld /\ CarriedEnds
    BY DEF IInv
  <1>2. /\ task[t].pc = "sent" /\ task[t].answer = "none" /\ task[t] \in Task
        /\ task[t].step = "write"
    BY <1>1 DEF RouterTakesWrite, InFlight, TypeOK
  <1>3. PICK answer \in {"good", "refused", "failed", "lost"}, done \in BOOLEAN :
            /\ done => answer # "refused"
            /\ task' = [task EXCEPT ![t].answer = answer]
            /\ carried' = [w \in Writers |->
                            IF w = t /\ done THEN carried[w] + 1 ELSE carried[w]]
            /\ live' = IF t \in Unloads /\ done THEN 0 ELSE live
    BY DEF RouterTakesWrite
  <1>4. answer \in Answers
    BY DEF Answers
  <1> DEFINE new == [task[t] EXCEPT !.answer = answer]
  <1>5. /\ new \in Task /\ new.pc = task[t].pc /\ new.answer = answer
        /\ new.outcome = task[t].outcome /\ new.number = task[t].number
        /\ new.step = task[t].step
    BY <1>2, <1>4, AnsweredTyped
  <1>6. task' = [task EXCEPT ![t] = new]
    BY <1>1, <1>3 DEF TypeOK
  <1> HIDE DEF new
  <1>7. /\ task' \in [Tasks -> Task] /\ task'[t] = new
        /\ \A s \in Tasks : s # t => task'[s] = task[s]
    BY <1>1, <1>5, <1>6 DEF TypeOK
  <1>8. t \in Writers => carried[t] = 0
    BY <1>1, <1>2 DEF CarriedEnds
  <1>9. \A w \in Writers : carried'[w] = IF w = t /\ done THEN 1 ELSE carried[w]
    BY <1>3, <1>8
  <1>10. carried' \in [Writers -> 0..2]
    <2>1. \A w \in Writers : carried[w] \in 0..2
      BY <1>1 DEF TypeOK
    <2>2. \A w \in Writers : carried'[w] \in 0..2
      BY <1>9, <2>1
    <2> QED
      BY <1>3, <2>2
  <1>11. live' \in Sessions
    BY <1>1, <1>3, SessionConstants DEF TypeOK, Sessions
  <1>12. TypeOK'
    BY <1>1, <1>7, <1>10, <1>11 DEF TypeOK, RouterTakesWrite
  <1>13. LatestLogin' /\ LoginHeld'
    BY <1>1, <1>5, <1>7 DEF LatestLogin, LoginHeld, RouterTakesWrite
  <1>14. \A s \in Tasks : task'[s].pc # "done" => task'[s].outcome = "none"
    BY <1>1, <1>5, <1>7 DEF CarriedEnds
  <1>15. ASSUME NEW w \in Writers, carried'[w] # 0
         PROVE  /\ carried'[w] = 1
                /\ \/ task'[w].pc = "done" /\ task'[w].outcome \in {"ok", "failed"}
                   \/ /\ task'[w].pc = "sent" /\ task'[w].step = "write"
                      /\ task'[w].answer \in {"good", "failed", "lost"}
    <2>1. w \in Tasks
      BY DEF Tasks
    <2>2. CASE w = t
      BY <1>2, <1>3, <1>5, <1>7, <1>8, <1>9, <1>15, <2>2
    <2>3. CASE w # t
      BY <1>1, <1>7, <1>9, <1>15, <2>1, <2>3 DEF CarriedEnds
    <2> QED
      BY <2>2, <2>3
  <1> QED
    BY <1>12, <1>13, <1>14, <1>15 DEF IInv, CarriedEnds

LEMMA SessionLostInv ==
  ASSUME IInv, SessionLost
  PROVE  IInv'
  BY SessionConstants DEF IInv, TypeOK, LatestLogin, LoginHeld, CarriedEnds, SessionLost, Sessions

LEMMA StutterInv == IInv /\ UNCHANGED vars => IInv'
  BY DEF IInv, TypeOK, LatestLogin, LoginHeld, CarriedEnds, vars

-----------------------------------------------------------------------------
(* The theorems. *)

\* IInv is an invariant of every behaviour, whatever calls are made, however many
\* logins the router grants and whether or not the device implements the flag.
THEOREM Inductive == Spec => []IInv
  <1>1. IInv /\ [Next]_vars => IInv'
    <2> SUFFICES ASSUME IInv, [Next]_vars PROVE IInv'
      OBVIOUS
    <2>1. CASE \E w \in Writers : CommandGiven(w)
      BY <2>1, CommandGivenInv
    <2>2. CASE PollReads
      BY <2>2, PollReadsInv
    <2>3. CASE \E u \in Unloads : Logout(u)
      BY <2>3, LogoutInv
    <2>4. CASE \E t \in Tasks : Steps(t)
      BY <2>4, LoginBeginsInv, RouterGrantsInv, LoginSucceedsInv, LoginFailsInv,
         WriteGoesOutInv, RouterAnswersInv, RouterTakesWriteInv, AnswerArrivesInv
         DEF Steps
    <2>5. CASE SessionLost
      BY <2>5, SessionLostInv
    <2>6. CASE UNCHANGED vars
      BY <2>6, StutterInv
    <2> QED
      BY <2>1, <2>2, <2>3, <2>4, <2>5, <2>6 DEF Next
  <1> QED
    BY <1>1, InitInv, PTL DEF Spec

\* Type correctness of the session client.
THEOREM TypeCorrect == Spec => []TypeOK
  <1>1. IInv => TypeOK
    BY DEF IInv
  <1> QED
    BY <1>1, Inductive, PTL

\* login under its lock: the session believed in is the last one granted, and there
\* is none while a login is under way.
THEOREM BelievesLatest == Spec => []LatestLogin
  <1>1. IInv => LatestLogin
    BY DEF IInv
  <1> QED
    BY <1>1, Inductive, PTL

\* _perform, _dispose and the retry wrapper: no command takes effect twice, nor
\* after it was reported as refused or blocked.
THEOREM CarriedAtMostOnce == Spec => []CarriedOnce
  <1>1. IInv => CarriedOnce
    <2> SUFFICES ASSUME IInv, NEW w \in Writers
                 PROVE  /\ carried[w] <= 1
                        /\ task[w].outcome \in {"refused", "blocked"} => carried[w] = 0
      BY DEF CarriedOnce
    <2>1. w \in Tasks /\ carried[w] \in 0..2
      BY DEF Tasks, IInv, TypeOK
    <2> QED
      BY <2>1 DEF IInv, CarriedEnds
  <1> QED
    BY <1>1, Inductive, PTL

-----------------------------------------------------------------------------
(* Uptime.                                                                   *)

Keyed == {"none", "system", "session"}
Instants == Int

\* One latch: what it holds of a counter was true at some time, and it is kept on
\* record what was written last.
LatchTyped == [boot : Instants, last : Instants, lastAt : Instants, ready : BOOLEAN,
               stored : Instants, storedAt : Instants, wroteAt : Instants,
               wall : Nat, counter : Nat]
Recorded == [Latches -> [stored : Instants, storedAt : Instants, wall : Nat, counter : Nat]]
Saved == [due : Int, age : Nat, live : BOOLEAN, rec : Recorded, since : Int]

UptimeTyped ==
    /\ now \in Nat
    /\ host \in [rtc : BOOLEAN, set : BOOLEAN] /\ on \in BOOLEAN
    /\ router \in [boot : Int, sess : Int, total : BOOLEAN]
    /\ 0 <= router.boot /\ router.boot <= now /\ None <= router.sess /\ router.sess <= now
    /\ source \in Keyed
    /\ mem \in [Latches -> LatchTyped]
    /\ entry \in [source : Keyed, boot : [Latches -> Instants]]
    /\ disk \in Recorded
    /\ saves \subseteq Saved
    /\ excused \in [Latches -> SUBSET {"untold", "deferred"}]

\* The counter a run has read is the one the entry names; until it read one, the
\* system latch has no reading.
OneSource ==
    /\ source # "none" => entry.source = source
    /\ source = "none" => mem["system"].last = None

\* No counter runs ahead of the clock.
Plausible(l) == l.counter <= l.wall /\ (l.stored # None => l.stored <= l.storedAt)
NoneAhead ==
    /\ \A k \in Latches : Plausible(mem[k]) /\ Plausible(disk[k])
    /\ \A s \in saves, k \in Latches : Plausible(s.rec[k])

\* The last reading is of the counter's present run, or that one began since.
LastTrue == \A k \in Latches :
    mem[k].last # None =>
        /\ 0 <= mem[k].last /\ mem[k].last <= mem[k].lastAt /\ mem[k].lastAt <= now
        /\ \/ Began(k, entry.source) = None
           \/ Began(k, entry.source) = mem[k].lastAt - mem[k].last
           \/ Began(k, entry.source) >= mem[k].lastAt

\* An instant held is not later than the beginning of its counter, wherever it is held.
NotAfter(boot, k) ==
    /\ boot <= now
    /\ Began(k, entry.source) # None => boot <= Began(k, entry.source)

NotLate == \A k \in Latches : "deferred" \notin excused[k] =>
    /\ NotAfter(mem[k].boot, k) /\ NotAfter(entry.boot[k], k)
    /\ mem[k].last # None => mem[k].boot <= mem[k].lastAt - mem[k].last

\* A latch in use was written within the last interval.
Current(l) ==
    /\ l.wroteAt # None => l.ready /\ l.storedAt = l.wroteAt
    /\ l.ready => /\ l.wroteAt # None /\ l.last # None
                  /\ l.lastAt - l.wroteAt < WriteInterval
AllCurrent == \A k \in Latches : Current(mem[k])

\* One save is this run's, and it falls due after those of the runs before it.
InOrder ==
    /\ \A s \in saves : s.due <= now + SaveDelay
    /\ \A m \in Mine, s \in saves : s.due <= m.due /\ (s \in Mine => s = m)

\* What was written last is in the save that is armed, or in the file and no
\* older save is left to overwrite it.
SavedLast == on => \A k \in Latches : mem[k].ready =>
    /\ \A m \in Mine : m.live \/ m.rec[k].storedAt = mem[k].storedAt
    /\ Mine = {} => saves = {} /\ disk[k].storedAt = mem[k].storedAt

\* Where polls are at least a save's delay apart, a save armed is armed just now.
PollsApart == \A gap \in Gaps : gap >= SaveDelay
ArmedNow == PollsApart => \A s \in saves : s.since = now

UptimeIInv == /\ UptimeTyped /\ OneSource /\ NoneAhead /\ LastTrue /\ NotLate
              /\ AllCurrent /\ InOrder /\ SavedLast /\ ArmedNow

-----------------------------------------------------------------------------
(* One latch.                                                                *)

LEMMA UptimeBounds ==
  /\ Start \in Nat /\ Boots \subseteq 0..Start /\ Gaps \subseteq Nat \ {0}
  /\ RebootMargin \in Nat \ {0} /\ MinInterval \in Nat \ {0} /\ MinAccumulated \in Nat \ {0}
  /\ MarginFloor \in Nat \ {0} /\ WriteInterval \in Nat \ {0} /\ SaveDelay \in Nat \ {0}
  BY UptimeConstants

\* A rate is at most 1, as no counter runs ahead of the clock, and at least 4/5.
LEMMA RateFacts ==
  ASSUME NEW l \in LatchTyped, l.counter <= l.wall
  PROVE  /\ Num(l) \in Nat /\ Den(l) \in Nat /\ Num(l) > 0
         /\ Num(l) <= Den(l) /\ 4 * Den(l) <= 5 * Num(l)
  <1>1. l.wall \in Nat /\ l.counter \in Nat
    BY DEF LatchTyped
  <1>2. Known(l) => l.wall > 0
    BY <1>1, UptimeBounds DEF Known
  <1> QED
    BY <1>1, <1>2 DEF Num, Den

\* So an instant derived is not later than the beginning of the counter.
LEMMA DerivedFacts ==
  ASSUME NEW l \in LatchTyped, l.counter <= l.wall, NEW s \in Nat, NEW t \in Nat
  PROVE  Derived(l, s, t) \in Int /\ Derived(l, s, t) <= t - s
  <1> DEFINE n == Num(l)
             d == Den(l)
             q == (t * n - s * d) \div n
  <1>1. n \in Nat /\ d \in Nat /\ n > 0 /\ n <= d
    BY RateFacts
  <1>2. Derived(l, s, t) = q
    BY DEF Derived
  <1> HIDE DEF n, d
  <1>3. q \in Int /\ n * q <= t * n - s * d
    BY <1>1
  <1> HIDE DEF q
  <1> QED
    BY <1>1, <1>2, <1>3

\* And never earlier than its reading less a quarter.
LEMMA DerivedBack ==
  ASSUME NEW l \in LatchTyped, l.counter <= l.wall, NEW s \in Nat, NEW t \in Nat,
         NEW b \in Int, 4 * (t - b) >= 5 * s
  PROVE  Derived(l, s, t) >= b
  <1> DEFINE n == Num(l)
             d == Den(l)
             a == t * n - s * d
             q == a \div n
  <1>1. n \in Nat /\ d \in Nat /\ n > 0 /\ 4 * d <= 5 * n
    BY RateFacts
  <1>2. Derived(l, s, t) = q
    BY DEF Derived
  <1> HIDE DEF n, d
  <1>3. a \in Int
    BY <1>1
  <1>4. a >= b * n
    <2>1. 4 * (t - b) * n >= 5 * s * n
      BY <1>1
    <2>2. 5 * s * n >= 4 * (s * d)
      BY <1>1
    <2> QED
      BY <1>1, <2>1, <2>2
  <1> HIDE DEF a
  <1>5. q \in Int /\ a < n * q + n
    BY <1>1, <1>3
  <1> HIDE DEF q
  <1>6. q >= b
    <2> SUFFICES ASSUME q + 1 <= b PROVE FALSE
      BY <1>5
    <2>1. n * (q + 1) <= n * b
      BY <1>1, <1>5
    <2>2. n * (q + 1) = n * q + n /\ n * b = b * n
      BY <1>1, <1>5
    <2> QED
      BY <1>1, <1>3, <1>4, <1>5, <2>1, <2>2
  <1> QED
    BY <1>2, <1>6

LEMMA WriteFacts ==
  ASSUME NEW l \in LatchTyped, NEW s \in Nat, NEW t \in Nat
  PROVE  /\ Write(l, s, t) \in LatchTyped
         /\ Write(l, s, t).boot = l.boot /\ Write(l, s, t).last = l.last
         /\ Write(l, s, t).lastAt = l.lastAt /\ Write(l, s, t).ready = l.ready
         /\ Write(l, s, t).wall = l.wall /\ Write(l, s, t).counter = l.counter
         /\ Write(l, s, t).stored = s
         /\ Write(l, s, t).storedAt = t /\ Write(l, s, t).wroteAt = t
  <1>1. s \in Instants /\ t \in Instants
    BY DEF Instants
  <1>2. Write(l, s, t) \in LatchTyped
    BY <1>1 DEF Write, LatchTyped
  <1> QED
    BY <1>2 DEF Write, LatchTyped

LEMMA LatchedFacts ==
  ASSUME NEW l \in LatchTyped, l.counter <= l.wall, NEW s \in Nat, NEW t \in Nat
  PROVE  LET r == Latched(l, s, t)
         IN /\ r \in LatchTyped /\ r.boot = Derived(l, s, t) /\ r.last = l.last
            /\ r.lastAt = l.lastAt /\ r.ready = l.ready /\ r.wall = l.wall
            /\ r.counter = l.counter /\ r.stored = s /\ r.storedAt = t /\ r.wroteAt = t
  <1> DEFINE b == Derived(l, s, t)
             m == [l EXCEPT !.boot = b]
  <1>1. b \in Int
    BY DerivedFacts
  <1>2. Latched(l, s, t) = Write(m, s, t)
    BY DEF Latched
  <1> HIDE DEF b
  <1>3. /\ m \in LatchTyped /\ m.boot = b /\ m.last = l.last /\ m.lastAt = l.lastAt
        /\ m.ready = l.ready /\ m.wall = l.wall /\ m.counter = l.counter
    BY <1>1 DEF LatchTyped, Instants
  <1> HIDE DEF m
  <1> QED
    BY <1>2, <1>3, WriteFacts DEF b

\* A sample leaves all but the accumulators alone, and the counter is not ahead.
LEMMA SampledFacts ==
  ASSUME NEW l \in LatchTyped, l.counter <= l.wall, NEW s \in Nat, NEW t \in Nat,
         l.last # None => l.last \in Nat /\ l.lastAt <= t /\ t - s >= l.lastAt - l.last
  PROVE  LET r == Sampled(l, s, t)
         IN /\ r \in LatchTyped /\ r.counter <= r.wall /\ r.boot = l.boot /\ r.last = l.last
            /\ r.lastAt = l.lastAt /\ r.ready = l.ready /\ r.stored = l.stored
            /\ r.storedAt = l.storedAt /\ r.wroteAt = l.wroteAt
  <1> DEFINE wall == l.wall + (t - l.lastAt)
             counter == l.counter + (s - l.last)
             m == [l EXCEPT !.wall = wall, !.counter = counter]
  <1>1. CASE l.last = None \/ t - l.lastAt < MinInterval \/ s <= l.last
    BY <1>1 DEF Sampled
  <1>2. CASE l.last # None /\ ~(t - l.lastAt < MinInterval) /\ ~(s <= l.last)
    <2>1. /\ l.wall \in Nat /\ l.counter \in Nat /\ l.lastAt \in Int /\ l.last \in Int
      BY DEF LatchTyped, Instants
    <2>2. wall \in Nat /\ counter \in Nat /\ counter <= wall
      BY <1>2, <2>1
    <2>3. Sampled(l, s, t) = m
      BY <1>2 DEF Sampled
    <2> HIDE DEF wall, counter
    <2>4. /\ m \in LatchTyped /\ m.wall = wall /\ m.counter = counter /\ m.boot = l.boot
          /\ m.last = l.last /\ m.lastAt = l.lastAt /\ m.ready = l.ready
          /\ m.stored = l.stored /\ m.storedAt = l.storedAt /\ m.wroteAt = l.wroteAt
      BY <2>2 DEF LatchTyped
    <2> HIDE DEF m
    <2> QED
      BY <2>2, <2>3, <2>4
  <1> QED
    BY <1>1, <1>2

\* What one reading does to a latch, at each of its stages: it stays well made, and its
\* instant stays where it was or becomes one derived from the reading.
Stage(l, r, s, t) ==
    /\ r \in LatchTyped /\ r.counter <= r.wall /\ r.wall = l.wall /\ r.counter = l.counter
    /\ \/ r.stored = l.stored /\ r.storedAt = l.storedAt /\ r.wroteAt = l.wroteAt
       \/ r.stored = s /\ r.storedAt = t /\ r.wroteAt = t
    /\ r.boot = l.boot \/ r.boot <= t - s

LEMMA LatchedStage ==
  ASSUME NEW l \in LatchTyped, l.counter <= l.wall, NEW s \in Nat, NEW t \in Nat
  PROVE  /\ Stage(l, Latched(l, s, t), s, t) /\ Latched(l, s, t).boot = Derived(l, s, t)
         /\ Latched(l, s, t).ready = l.ready
  <1> DEFINE r == Latched(l, s, t)
  <1>1. /\ r \in LatchTyped /\ r.boot = Derived(l, s, t) /\ r.ready = l.ready
        /\ r.wall = l.wall /\ r.counter = l.counter
        /\ r.stored = s /\ r.storedAt = t /\ r.wroteAt = t
    BY LatchedFacts
  <1>2. Derived(l, s, t) <= t - s
    BY DerivedFacts
  <1> HIDE DEF r
  <1>3. Stage(l, r, s, t)
    BY <1>1, <1>2 DEF Stage
  <1> QED
    BY <1>1, <1>3 DEF r

\* The stage that judges whether the counter began again.
Tested(l, s, t) ==
    IF ~l.ready THEN Reconciled(l, s, t) ELSE IF Drops(l, s) THEN Latched(l, s, t) ELSE l

LEMMA TestedFacts ==
  ASSUME NEW l \in LatchTyped, l.counter <= l.wall, NEW s \in Nat, NEW t \in Nat
  PROVE  LET r == Tested(l, s, t)
         IN /\ Stage(l, r, s, t) /\ r.ready
            /\ l.ready /\ r.boot # l.boot => Drops(l, s) /\ r.boot = Derived(l, s, t)
            /\ ~l.ready /\ l.boot = None /\ l.stored = None => r.boot = Derived(l, s, t)
  <1>1. ASSUME NEW m, m = Latched(l, s, t)
        PROVE  Stage(l, m, s, t) /\ m.boot = Derived(l, s, t) /\ m.ready = l.ready
    BY <1>1, LatchedStage
  <1>2. Stage(l, l, s, t)
    BY DEF Stage
  <1>3. CASE l.ready
    BY <1>1, <1>2, <1>3 DEF Tested
  <1>4. CASE ~l.ready
    <2>1. PICK m : /\ Reconciled(l, s, t) = [m EXCEPT !.ready = TRUE]
                   /\ m = Latched(l, s, t) \/ m = l
                   /\ l.boot = None /\ l.stored = None => m = Latched(l, s, t)
      <3> DEFINE restarted == IF l.stored # None /\ t >= l.storedAt THEN Short(l, s, t)
                              ELSE ColdImplausible(l, s, t)
                 m == IF restarted THEN Latched(l, s, t) ELSE l
      <3>1. Reconciled(l, s, t) = [m EXCEPT !.ready = TRUE]
        BY DEF Reconciled
      <3>2. l.boot = None /\ l.stored = None => restarted
        BY DEF ColdImplausible
      <3>3. m = Latched(l, s, t) \/ m = l
        OBVIOUS
      <3>4. restarted => m = Latched(l, s, t)
        OBVIOUS
      <3> HIDE DEF m, restarted
      <3> QED
        BY <3>1, <3>2, <3>3, <3>4
    <2>2. Stage(l, m, s, t) /\ (l.boot = None /\ l.stored = None => m.boot = Derived(l, s, t))
      BY <1>1, <1>2, <2>1
    <2> DEFINE r == [m EXCEPT !.ready = TRUE]
    <2>3. m \in LatchTyped
      BY <2>2 DEF Stage
    <2>4. /\ r \in LatchTyped /\ r.ready /\ r.boot = m.boot /\ r.stored = m.stored
          /\ r.storedAt = m.storedAt /\ r.wroteAt = m.wroteAt /\ r.wall = m.wall
          /\ r.counter = m.counter
      BY <2>3 DEF LatchTyped
    <2>5. Tested(l, s, t) = r
      BY <1>4, <2>1 DEF Tested
    <2> HIDE DEF r
    <2>6. Stage(l, r, s, t)
      BY <2>2, <2>4 DEF Stage
    <2> QED
      BY <1>4, <2>2, <2>4, <2>5, <2>6
  <1> QED
    BY <1>3, <1>4

LEMMA JudgedFacts ==
  ASSUME NEW l \in LatchTyped, l.counter <= l.wall, NEW s \in Nat, NEW t \in Nat
  PROVE  LET r == Judged(l, s, t)
         IN /\ Stage(l, r, s, t) /\ r.ready = l.ready /\ r.boot >= l.boot
  <1>1. l.boot \in Int
    BY DEF LatchTyped, Instants
  <1>2. CASE Moves(l, s, t)
    <2>1. Judged(l, s, t) = Latched(l, s, t)
      BY <1>2 DEF Judged
    <2>2. Derived(l, s, t) > l.boot
      BY <1>2 DEF Moves
    <2>3. /\ Stage(l, Latched(l, s, t), s, t) /\ Latched(l, s, t).ready = l.ready
          /\ Latched(l, s, t).boot = Derived(l, s, t)
      BY LatchedStage
    <2>4. Derived(l, s, t) \in Int
      BY DerivedFacts
    <2> QED
      BY <1>1, <2>1, <2>2, <2>3, <2>4
  <1>3. CASE ~Moves(l, s, t)
    BY <1>1, <1>3 DEF Judged, Stage
  <1> QED
    BY <1>2, <1>3

\* The stages of a reading compose.
LEMMA StagesCompose ==
  ASSUME NEW l, NEW m, NEW r, NEW s \in Nat, NEW t \in Nat, Stage(l, m, s, t), Stage(m, r, s, t)
  PROVE  Stage(l, r, s, t)
  BY DEF Stage

\* A reading taken as the clock says, of a counter that runs on or began again since
\* the reading before: the latch holds it, and is written, and its instant is not later
\* than the beginning, and not earlier than it was.
LEMMA AppliedFacts ==
  ASSUME NEW l \in LatchTyped, Plausible(l), l.wroteAt # None => l.ready /\ l.storedAt = l.wroteAt,
         NEW s \in Nat, NEW t \in Nat, s <= t,
         l.last # None => /\ 0 <= l.last /\ l.last <= l.lastAt /\ l.lastAt <= t
                          /\ t - s = l.lastAt - l.last \/ t - s >= l.lastAt,
         NEW r, r = Applied(l, s, t)
  PROVE  /\ r \in LatchTyped /\ Plausible(r) /\ Current(r) /\ r.ready
         /\ r.last = s /\ r.lastAt = t
         /\ r.storedAt = t \/ (r.storedAt = l.storedAt /\ l.ready)
         /\ l.boot <= t - s => r.boot <= t - s
         /\ l.ready /\ l.last # None /\ l.boot <= l.lastAt - l.last => r.boot >= l.boot
         /\ l = Fresh => r.boot >= 0
         /\ \/ r.stored = s /\ r.storedAt = t
            \/ r.stored = l.stored /\ r.storedAt = l.storedAt
         /\ r.boot = Judged(Tested(Sampled(l, s, t), s, t), s, t).boot
         /\ r.wall = Sampled(l, s, t).wall /\ r.counter = Sampled(l, s, t).counter
  <1> DEFINE sampled == Sampled(l, s, t)
             tested == Tested(sampled, s, t)
             judged == Judged(tested, s, t)
             noted == [judged EXCEPT !.last = s, !.lastAt = t]
  <1>1. /\ l.boot \in Int /\ l.last \in Int /\ l.lastAt \in Int /\ l.stored \in Int
        /\ l.storedAt \in Int /\ l.counter <= l.wall
    BY DEF LatchTyped, Instants, Plausible
  <1>2. r = Persisted(noted, s, t)
    BY DEF Applied, Tested
  <1>3. /\ sampled \in LatchTyped /\ sampled.counter <= sampled.wall /\ sampled.boot = l.boot
        /\ sampled.last = l.last /\ sampled.lastAt = l.lastAt /\ sampled.ready = l.ready
        /\ sampled.stored = l.stored /\ sampled.storedAt = l.storedAt
        /\ sampled.wroteAt = l.wroteAt
    <2>1. l.last # None => l.last \in Nat /\ l.lastAt <= t /\ t - s >= l.lastAt - l.last
      BY <1>1
    <2> QED
      BY <1>1, <2>1, SampledFacts
  <1>4. l = Fresh => sampled = l
    BY DEF Sampled, Fresh
  <1> HIDE DEF sampled
  <1>5. /\ Stage(sampled, tested, s, t) /\ tested.ready
        /\ sampled.ready /\ tested.boot # sampled.boot =>
              Drops(sampled, s) /\ tested.boot = Derived(sampled, s, t)
        /\ ~sampled.ready /\ sampled.boot = None /\ sampled.stored = None =>
              tested.boot = Derived(sampled, s, t)
    BY <1>3, TestedFacts
  <1> HIDE DEF tested
  <1>6. tested \in LatchTyped /\ tested.counter <= tested.wall
    BY <1>5 DEF Stage
  <1>7. Stage(tested, judged, s, t) /\ judged.ready = tested.ready /\ judged.boot >= tested.boot
    BY <1>6, JudgedFacts
  <1> HIDE DEF judged
  <1>8. Stage(sampled, judged, s, t) /\ judged.ready
    BY <1>5, <1>7, StagesCompose
  <1>9. /\ judged \in LatchTyped /\ judged.counter <= judged.wall
        /\ \/ judged.stored = l.stored /\ judged.storedAt = l.storedAt /\ judged.wroteAt = l.wroteAt
           \/ judged.stored = s /\ judged.storedAt = t /\ judged.wroteAt = t
        /\ judged.boot = l.boot \/ judged.boot <= t - s
        /\ judged.wall = sampled.wall /\ judged.counter = sampled.counter
    BY <1>3, <1>8 DEF Stage
  <1>10. /\ noted \in LatchTyped /\ noted.last = s /\ noted.lastAt = t
         /\ noted.boot = judged.boot /\ noted.ready = judged.ready
         /\ noted.wall = judged.wall /\ noted.counter = judged.counter
         /\ noted.stored = judged.stored /\ noted.storedAt = judged.storedAt
         /\ noted.wroteAt = judged.wroteAt
    <2>1. s \in Instants /\ t \in Instants
      BY DEF Instants
    <2>2. noted \in LatchTyped
      BY <1>9, <2>1 DEF LatchTyped
    <2> QED
      BY <1>9, <2>2 DEF LatchTyped
  <1> HIDE DEF noted
  <1>11. /\ r \in LatchTyped /\ r.counter <= r.wall /\ r.boot = judged.boot /\ r.ready
         /\ r.wall = judged.wall /\ r.counter = judged.counter
         /\ r.last = s /\ r.lastAt = t
         /\ \/ /\ r.stored = s /\ r.storedAt = t /\ r.wroteAt = t
            \/ /\ r.stored = l.stored /\ r.storedAt = l.storedAt /\ r.wroteAt = l.wroteAt
               /\ r.wroteAt # None /\ t - r.wroteAt < WriteInterval
    <2>1. CASE noted.wroteAt # None /\ t - noted.wroteAt < WriteInterval
      BY <1>2, <1>8, <1>9, <1>10, <2>1 DEF Persisted
    <2>2. CASE ~(noted.wroteAt # None /\ t - noted.wroteAt < WriteInterval)
      <3>1. r = Write(noted, s, t)
        BY <1>2, <2>2 DEF Persisted
      <3>2. /\ r \in LatchTyped /\ r.boot = noted.boot /\ r.last = noted.last
            /\ r.lastAt = noted.lastAt /\ r.ready = noted.ready /\ r.wall = noted.wall
            /\ r.counter = noted.counter /\ r.stored = s /\ r.storedAt = t /\ r.wroteAt = t
        <4>1. noted \in LatchTyped
          BY <1>10
        <4> DEFINE w == Write(noted, s, t)
        <4>2. /\ w \in LatchTyped /\ w.boot = noted.boot /\ w.last = noted.last
              /\ w.lastAt = noted.lastAt /\ w.ready = noted.ready /\ w.wall = noted.wall
              /\ w.counter = noted.counter /\ w.stored = s /\ w.storedAt = t /\ w.wroteAt = t
          BY <4>1, WriteFacts
        <4>3. r = w
          BY <3>1
        <4> HIDE DEF w
        <4> QED
          BY <4>2, <4>3
      <3> QED
        BY <1>8, <1>9, <1>10, <3>2
    <2> QED
      BY <2>1, <2>2
  <1>12. Plausible(r) /\ Current(r)
    <2>1. WriteInterval \in Nat /\ WriteInterval > 0 /\ t # None /\ s # None
      BY UptimeBounds DEF None
    <2>2. CASE r.stored = s /\ r.storedAt = t /\ r.wroteAt = t
      BY <1>11, <2>1, <2>2 DEF Plausible, Current
    <2>3. CASE /\ r.stored = l.stored /\ r.storedAt = l.storedAt /\ r.wroteAt = l.wroteAt
               /\ r.wroteAt # None /\ t - r.wroteAt < WriteInterval
      BY <1>11, <2>1, <2>3 DEF Plausible, Current
    <2> QED
      BY <1>11, <2>2, <2>3
  <1>13. r.storedAt = t \/ (r.storedAt = l.storedAt /\ l.ready)
    BY <1>11
  <1>14. l.boot <= t - s => r.boot <= t - s
    BY <1>9, <1>11
  <1>15. ASSUME l.ready, l.last # None, l.boot <= l.lastAt - l.last PROVE r.boot >= l.boot
    <2>1. tested.boot >= l.boot
      <3>1. CASE tested.boot = sampled.boot
        BY <1>1, <1>3, <3>1
      <3>2. CASE tested.boot # sampled.boot
        <4>1. Drops(sampled, s) /\ tested.boot = Derived(sampled, s, t)
          BY <1>3, <1>5, <1>15, <3>2
        <4>2. s < l.last - RebootMargin
          BY <1>3, <4>1 DEF Drops
        <4>3. 4 * (t - l.boot) >= 5 * s
          BY <1>1, <1>15, <4>2, UptimeBounds
        <4> QED
          BY <1>1, <1>3, <4>1, <4>3, DerivedBack
      <3> QED
        BY <3>1, <3>2
    <2>2. tested.boot \in Int /\ judged.boot \in Int
      BY <1>6, <1>9 DEF LatchTyped, Instants
    <2> QED
      BY <1>1, <1>7, <1>11, <2>1, <2>2
  <1>16. ASSUME l = Fresh PROVE r.boot >= 0
    <2>1. ~sampled.ready /\ sampled.boot = None /\ sampled.stored = None /\ sampled.wall = 0
      BY <1>4, <1>16 DEF Fresh
    <2>2. Derived(sampled, s, t) = (t * 1 - s * 1) \div 1
      BY <2>1, UptimeBounds DEF Derived, Num, Den, Known
    <2>3. tested.boot >= 0
      BY <1>5, <2>1, <2>2
    <2>4. tested.boot \in Int /\ judged.boot \in Int
      BY <1>6, <1>9 DEF LatchTyped, Instants
    <2> QED
      BY <1>7, <1>11, <2>3, <2>4
  <1> QED
    BY <1>9, <1>11, <1>12, <1>13, <1>14, <1>15, <1>16 DEF judged, tested, sampled

-----------------------------------------------------------------------------
(* What a poll reads, and what becomes of each latch.                        *)

Before(blank) == IF Chosen(blank).afresh THEN _reset_system_latch(mem) ELSE mem
Reads(blank, k) == Reading(k, Chosen(blank).key, blank)
Counted(blank, k) == Reads(blank, k) # None /\ host.set
Restarted(blank, k) == k = "system" /\ Chosen(blank).afresh
Spoilt(blank, k) ==
    IF Counted(blank, k) /\ Untold(Before(blank)[k], Reads(blank, k), now) THEN {"untold"} ELSE {}

LEMMA FreshFacts ==
  /\ Fresh \in LatchTyped /\ Plausible(Fresh) /\ Current(Fresh)
  /\ Fresh.boot = None /\ Fresh.last = None /\ ~Fresh.ready /\ Fresh.wroteAt = None
  BY DEF Fresh, LatchTyped, Instants, Plausible, Current, None

\* A key is chosen once in a run; the latch starts afresh when it is another than the
\* one saved.
LEMMA ChosenFacts ==
  ASSUME UptimeIInv, NEW blank \in BOOLEAN
  PROVE  /\ Chosen(blank).key \in Keyed /\ Chosen(blank).afresh \in BOOLEAN
         /\ Chosen(blank).afresh => /\ source = "none" /\ Chosen(blank).key # "none"
         /\ ~Chosen(blank).afresh => Chosen(blank).key \in {"none", entry.source}
         /\ source # "none" => Chosen(blank).key = source
  BY DEF Chosen, UptimeIInv, UptimeTyped, OneSource, Keyed

LEMMA PollEffect ==
  ASSUME NEW blank \in BOOLEAN, _apply_uptime_readings(blank)
  PROVE  /\ on /\ on' = on /\ UNCHANGED <<now, host, router, disk>>
         /\ source' = Chosen(blank).key
         /\ mem' = [k \in Latches |-> IF Counted(blank, k)
                                      THEN Applied(Before(blank)[k], Reads(blank, k), now)
                                      ELSE Before(blank)[k]]
         /\ entry' = [source |-> entry'.source, boot |-> entry'.boot]
         /\ entry'.source = IF Chosen(blank).key = "none" THEN entry.source ELSE Chosen(blank).key
         /\ entry'.boot = [k \in Latches |-> IF mem'[k].boot = None THEN entry.boot[k]
                                             ELSE mem'[k].boot]
         /\ \/ router.total /\ saves' = Armed(TRUE, mem')
            \/ ~router.total /\ saves' = Armed(FALSE, mem')
            \/ /\ ~router.total /\ saves' = saves
               /\ \A k \in Latches : Counted(blank, k) => mem'[k].storedAt # now
         /\ excused' = [k \in Latches |->
               (IF Restarted(blank, k)
                THEN (excused[k] \cap {"untold"}) \cup IF host.set THEN {} ELSE {"deferred"}
                ELSE excused[k]) \cup Spoilt(blank, k)]
  <1> DEFINE counts == {k \in Latches : Reads(blank, k) # None /\ host.set}
             reads == [k \in Latches |-> Reads(blank, k)]
             wrote == \E k \in counts : mem'[k].storedAt = now
  <1>1. /\ on /\ UNCHANGED <<on, now, host, router, disk>>
        /\ source' = Chosen(blank).key
    BY DEF _apply_uptime_readings
  <1>2. mem' = [k \in Latches |-> IF k \in counts THEN Applied(Before(blank)[k], reads[k], now)
                                  ELSE Before(blank)[k]]
    BY Zenon DEF _apply_uptime_readings, Before, Reads
  <1>3. entry' = [source |-> IF Chosen(blank).key = "none" THEN entry.source
                             ELSE Chosen(blank).key,
                  boot |-> [k \in Latches |-> IF mem'[k].boot = None THEN entry.boot[k]
                                              ELSE mem'[k].boot]]
    BY Zenon DEF _apply_uptime_readings, Before, Reads
  <1>4. saves' = IF router.total THEN Armed(TRUE, mem')
                 ELSE IF wrote THEN Armed(FALSE, mem') ELSE saves
    BY Zenon DEF _apply_uptime_readings, Before, Reads
  <1>5. excused' = [k \in Latches |->
                (IF k = "system" /\ Chosen(blank).afresh
                 THEN (excused[k] \cap {"untold"}) \cup IF host.set THEN {} ELSE {"deferred"}
                 ELSE excused[k])
                \cup IF k \in counts /\ Untold(Before(blank)[k], reads[k], now)
                     THEN {"untold"} ELSE {}]
    BY Zenon DEF _apply_uptime_readings, Before, Reads
  <1>6. mem' = [k \in Latches |-> IF Counted(blank, k)
                                  THEN Applied(Before(blank)[k], Reads(blank, k), now)
                                  ELSE Before(blank)[k]]
    BY <1>2 DEF Counted
  <1>7. \/ router.total /\ saves' = Armed(TRUE, mem')
        \/ ~router.total /\ saves' = Armed(FALSE, mem')
        \/ /\ ~router.total /\ saves' = saves
           /\ \A k \in Latches : Counted(blank, k) => mem'[k].storedAt # now
    BY <1>4 DEF Counted
  <1>9. excused' = [k \in Latches |->
                (IF Restarted(blank, k)
                 THEN (excused[k] \cap {"untold"}) \cup IF host.set THEN {} ELSE {"deferred"}
                 ELSE excused[k]) \cup Spoilt(blank, k)]
    BY <1>5 DEF Restarted, Spoilt, Counted
  <1> DEFINE named == IF Chosen(blank).key = "none" THEN entry.source ELSE Chosen(blank).key
             boot == [k \in Latches |-> IF mem'[k].boot = None THEN entry.boot[k]
                                        ELSE mem'[k].boot]
  <1>10. entry' = [source |-> named, boot |-> boot]
    BY <1>3
  <1> HIDE DEF counts, reads, wrote, named, boot
  <1>11. entry'.source = named /\ entry'.boot = boot
    BY <1>10
  <1>12. entry' = [source |-> entry'.source, boot |-> entry'.boot]
    BY <1>10, <1>11
  <1>13. /\ entry'.source = IF Chosen(blank).key = "none" THEN entry.source ELSE Chosen(blank).key
         /\ entry'.boot = [k \in Latches |-> IF mem'[k].boot = None THEN entry.boot[k]
                                             ELSE mem'[k].boot]
    BY <1>11 DEF named, boot
  <1> QED
    BY <1>1, <1>6, <1>7, <1>9, <1>12, <1>13

\* What excuses a latch after a poll: a rate taught stays, an instant put off does not.
LEMMA ExcusedFacts ==
  ASSUME UptimeIInv, NEW blank \in BOOLEAN, _apply_uptime_readings(blank)
  PROVE  /\ excused' \in [Latches -> SUBSET {"untold", "deferred"}]
         /\ \A k \in Latches :
               /\ "untold" \notin excused'[k] =>
                     /\ "untold" \notin excused[k]
                     /\ Counted(blank, k) => ~Untold(Before(blank)[k], Reads(blank, k), now)
               /\ "deferred" \notin excused'[k] =>
                     IF Restarted(blank, k) THEN host.set ELSE "deferred" \notin excused[k]
               /\ ~Restarted(blank, k) => excused[k] \subseteq excused'[k]
  <1>1. /\ excused' = [k \in Latches |->
               (IF Restarted(blank, k)
                THEN (excused[k] \cap {"untold"}) \cup IF host.set THEN {} ELSE {"deferred"}
                ELSE excused[k]) \cup Spoilt(blank, k)]
        /\ excused \in [Latches -> SUBSET {"untold", "deferred"}]
    BY PollEffect DEF UptimeIInv, UptimeTyped
  <1>2. \A k \in Latches :
           /\ Spoilt(blank, k) \in SUBSET {"untold"}
           /\ "untold" \notin Spoilt(blank, k) /\ Counted(blank, k) =>
                 ~Untold(Before(blank)[k], Reads(blank, k), now)
    BY DEF Spoilt
  <1> QED
    BY <1>1, <1>2

\* A reading is of the counter's present run.
LEMMA ReadFacts ==
  ASSUME UptimeIInv, NEW blank \in BOOLEAN, NEW k \in Latches, NEW key \in Keyed,
         Chosen(blank).key # "none" => key = Chosen(blank).key,
         Reads(blank, k) # None
  PROVE  /\ Reads(blank, k) \in Nat /\ Reads(blank, k) <= now
         /\ Began(k, key) # None /\ Began(k, key) \in Int
         /\ now - Reads(blank, k) = Began(k, key)
  <1>1. /\ now \in Nat /\ router.boot \in Int /\ router.sess \in Int /\ None = -1
        /\ 0 <= router.boot /\ router.boot <= now /\ None <= router.sess /\ router.sess <= now
    BY DEF UptimeIInv, UptimeTyped, None
  <1>2. CASE k = "system" /\ Chosen(blank).key = "system"
    <2>1. Reads(blank, k) = now - router.boot /\ Began(k, key) = router.boot
      BY <1>2 DEF Reads, Reading, System, Began
    <2> QED
      BY <1>1, <2>1
  <1>3. CASE ~(k = "system" /\ Chosen(blank).key = "system")
    <2>1. Reads(blank, k) = Session /\ Session # 0 /\ Began(k, key) = router.sess
      BY <1>3, ChosenFacts DEF Reads, Reading, Began
    <2>2. router.sess # None /\ Session = now - router.sess
      BY <2>1 DEF Session
    <2> QED
      BY <1>1, <2>1, <2>2
  <1> QED
    BY <1>2, <1>3

\* A latch that starts afresh has a reading at once.
LEMMA AfreshReads ==
  ASSUME UptimeIInv, NEW blank \in BOOLEAN, Chosen(blank).afresh
  PROVE  Reads(blank, "system") # None
  <1>1. /\ now \in Nat /\ router.boot \in Int /\ router.sess \in Int /\ None = -1
        /\ router.boot <= now
    BY DEF UptimeIInv, UptimeTyped, None
  <1>2. \/ Chosen(blank).key = "system" /\ ~blank
        \/ Chosen(blank).key = "session" /\ Session > 0
    BY DEF Chosen
  <1>3. CASE Chosen(blank).key = "system" /\ ~blank
    BY <1>1, <1>3 DEF Reads, Reading, System
  <1>4. CASE Chosen(blank).key = "session" /\ Session > 0
    <2>1. Session \in Int
      BY <1>1 DEF Session
    <2> QED
      BY <1>1, <1>4, <2>1 DEF Reads, Reading
  <1> QED
    BY <1>2, <1>3, <1>4

\* What a latch is before its reading is applied, and that the reading fits it.
LEMMA BeforeFacts ==
  ASSUME UptimeIInv, NEW blank \in BOOLEAN, NEW k \in Latches
  PROVE  LET l == Before(blank)[k]
         IN /\ l = IF Restarted(blank, k) THEN Fresh ELSE mem[k]
            /\ l \in LatchTyped /\ Plausible(l) /\ Current(l)
            /\ Reads(blank, k) # None /\ l.last # None =>
                  /\ 0 <= l.last /\ l.last <= l.lastAt /\ l.lastAt <= now
                  /\ \/ now - Reads(blank, k) = l.lastAt - l.last
                     \/ now - Reads(blank, k) >= l.lastAt
  <1> DEFINE l == Before(blank)[k]
  <1>1. mem \in [Latches -> LatchTyped]
    BY DEF UptimeIInv, UptimeTyped
  <1>2. l = IF Restarted(blank, k) THEN Fresh ELSE mem[k]
    BY <1>1, ChosenFacts DEF Before, _reset_system_latch, Restarted, Latches
  <1> HIDE DEF l
  <1>3. l \in LatchTyped /\ Plausible(l) /\ Current(l)
    BY <1>1, <1>2, FreshFacts DEF UptimeIInv, NoneAhead, AllCurrent
  <1>4. ASSUME Reads(blank, k) # None, l.last # None
        PROVE  /\ 0 <= l.last /\ l.last <= l.lastAt /\ l.lastAt <= now
               /\ \/ now - Reads(blank, k) = l.lastAt - l.last
                  \/ now - Reads(blank, k) >= l.lastAt
    <2>1. l = mem[k] /\ ~Restarted(blank, k)
      BY <1>2, <1>4, FreshFacts
    <2>2. /\ 0 <= l.last /\ l.last <= l.lastAt /\ l.lastAt <= now
          /\ \/ Began(k, entry.source) = None
             \/ Began(k, entry.source) = l.lastAt - l.last
             \/ Began(k, entry.source) >= l.lastAt
      BY <1>4, <2>1 DEF UptimeIInv, LastTrue
    <2>3. k = "system" => Chosen(blank).key = entry.source
      BY <1>4, <2>1, ChosenFacts DEF UptimeIInv, OneSource
    <2>4. now - Reads(blank, k) = Began(k, entry.source) /\ Began(k, entry.source) # None
      <3>1. CASE k = "system"
        BY <1>4, <2>3, <3>1, ReadFacts DEF UptimeIInv, UptimeTyped
      <3>2. CASE k = "conn"
        <4> DEFINE key == IF Chosen(blank).key = "none" THEN "system" ELSE Chosen(blank).key
        <4>1. key \in Keyed
          BY ChosenFacts DEF Keyed
        <4>2. now - Reads(blank, k) = Began(k, key) /\ Began(k, key) # None
          BY <1>4, <4>1, ReadFacts
        <4> QED
          BY <3>2, <4>2 DEF Began
      <3> QED
        BY <3>1, <3>2 DEF Latches
    <2> QED
      BY <2>2, <2>4
  <1> QED
    BY <1>2, <1>3, <1>4 DEF l

\* What a poll makes of each latch.
LEMMA PolledLatch ==
  ASSUME UptimeIInv, NEW blank \in BOOLEAN, _apply_uptime_readings(blank), NEW k \in Latches,
         NEW l, l = Before(blank)[k], NEW r, r = mem'[k]
  PROVE  /\ r \in LatchTyped /\ Plausible(r) /\ Current(r)
         /\ ~Counted(blank, k) => r = l
         /\ Counted(blank, k) =>
               /\ r.ready /\ r.last = Reads(blank, k) /\ r.lastAt = now
               /\ r.storedAt = now \/ (r.storedAt = l.storedAt /\ l.ready)
               /\ \/ r.stored = Reads(blank, k) /\ r.storedAt = now
                  \/ r.stored = l.stored /\ r.storedAt = l.storedAt
               /\ l.boot <= now - Reads(blank, k) => r.boot <= now - Reads(blank, k)
               /\ l.ready /\ l.last # None /\ l.boot <= l.lastAt - l.last => r.boot >= l.boot
               /\ l = Fresh => r.boot >= 0
  <1> DEFINE s == Reads(blank, k)
  <1>1. /\ l \in LatchTyped /\ Plausible(l) /\ Current(l)
        /\ s # None /\ l.last # None =>
              /\ 0 <= l.last /\ l.last <= l.lastAt /\ l.lastAt <= now
              /\ now - s = l.lastAt - l.last \/ now - s >= l.lastAt
    BY BeforeFacts
  <1>2. r = IF Counted(blank, k) THEN Applied(l, s, now) ELSE l
    BY PollEffect
  <1>3. CASE ~Counted(blank, k)
    BY <1>1, <1>2, <1>3
  <1>4. CASE Counted(blank, k)
    <2>1. s \in Nat /\ s <= now /\ now \in Nat
      <3> DEFINE key == IF Chosen(blank).key = "none" THEN "system" ELSE Chosen(blank).key
      <3>1. key \in Keyed /\ (Chosen(blank).key # "none" => key = Chosen(blank).key)
        BY ChosenFacts DEF Keyed
      <3>2. s # None
        BY <1>4 DEF Counted
      <3> HIDE DEF key
      <3>3. s \in Nat /\ s <= now
        BY <3>1, <3>2, ReadFacts
      <3> QED
        BY <3>3 DEF UptimeIInv, UptimeTyped
    <2>2. l.wroteAt # None => l.ready /\ l.storedAt = l.wroteAt
      BY <1>1 DEF Current
    <2>3. r = Applied(l, s, now) /\ s # None
      BY <1>2, <1>4 DEF Counted
    <2> HIDE DEF s
    <2>4. /\ r \in LatchTyped /\ Plausible(r) /\ Current(r) /\ r.ready
          /\ r.last = s /\ r.lastAt = now
          /\ r.storedAt = now \/ (r.storedAt = l.storedAt /\ l.ready)
          /\ \/ r.stored = s /\ r.storedAt = now
             \/ r.stored = l.stored /\ r.storedAt = l.storedAt
          /\ l.boot <= now - s => r.boot <= now - s
          /\ l.ready /\ l.last # None /\ l.boot <= l.lastAt - l.last => r.boot >= l.boot
          /\ l = Fresh => r.boot >= 0
      BY <1>1, <2>1, <2>2, <2>3, AppliedFacts
    <2> QED
      BY <1>4, <2>4 DEF s
  <1> QED
    BY <1>3, <1>4

\* What is recorded of latches that are well made.
LEMMA RecordFacts ==
  ASSUME NEW ls \in [Latches -> LatchTyped]
  PROVE  /\ Record(ls) \in Recorded
         /\ \A k \in Latches : /\ Record(ls)[k].storedAt = ls[k].storedAt
                               /\ Record(ls)[k].stored = ls[k].stored
                               /\ Record(ls)[k].wall = ls[k].wall
                               /\ Record(ls)[k].counter = ls[k].counter
                               /\ Plausible(ls[k]) => Plausible(Record(ls)[k])
  BY DEF Record, Recorded, LatchTyped, Plausible

\* What is armed replaces this run's save.
LEMMA ArmedFacts ==
  ASSUME UptimeTyped, InOrder, ArmedNow, NEW alive \in BOOLEAN, NEW ls \in [Latches -> LatchTyped]
  PROVE  \E a \in Saved :
            /\ a.due = now + SaveDelay /\ a.age = 0 /\ a.live = alive /\ a.rec = Record(ls)
            /\ PollsApart => a.since = now
            /\ Armed(alive, ls) = {s \in saves : s.age # 0} \cup {a}
  <1> DEFINE since == IF Mine = {} THEN now ELSE (CHOOSE s \in Mine : TRUE).since
             a == [due |-> now + SaveDelay, age |-> 0, live |-> alive, rec |-> Record(ls),
                   since |-> since]
  <1>1. now \in Nat /\ SaveDelay \in Nat /\ saves \subseteq Saved
    BY UptimeBounds DEF UptimeTyped
  <1>2. since \in Int /\ (PollsApart => since = now)
    <2>1. CASE Mine = {}
      BY <1>1, <2>1
    <2>2. CASE Mine # {}
      <3>1. PICK s : s = (CHOOSE z \in Mine : TRUE)
        OBVIOUS
      <3>2. s \in Mine
        BY <2>2, <3>1
      <3>3. s \in saves /\ since = s.since
        BY <2>2, <3>1, <3>2 DEF Mine
      <3> QED
        BY <1>1, <3>3 DEF ArmedNow, Saved
    <2> QED
      BY <2>1, <2>2
  <1>3. Armed(alive, ls) = {s \in saves : s.age # 0} \cup {a}
    <2>1. saves \ Mine = {s \in saves : s.age # 0}
      BY DEF Mine
    <2> QED
      BY <2>1 DEF Armed
  <1> HIDE DEF since
  <1>4. a \in Saved
    BY <1>1, <1>2, RecordFacts DEF Saved
  <1> QED
    BY <1>2, <1>3, <1>4

-----------------------------------------------------------------------------
(* Each action keeps the invariant.                                          *)

\* What a poll has read and where its counter began, by the key now in the entry.
LEMMA PolledCounter ==
  ASSUME UptimeIInv, NEW blank \in BOOLEAN, _apply_uptime_readings(blank), NEW k \in Latches
  PROVE  /\ Counted(blank, k) =>
               /\ Reads(blank, k) \in Nat /\ Reads(blank, k) <= now
               /\ Began(k, entry'.source) = now - Reads(blank, k)
         /\ ~Restarted(blank, k) => Began(k, entry'.source) = Began(k, entry.source)
         /\ Began(k, entry.source)' = Began(k, entry'.source)
         /\ entry'.source \in Keyed
  <1>1. entry'.source = IF Chosen(blank).key = "none" THEN entry.source ELSE Chosen(blank).key
    BY PollEffect
  <1>2. entry'.source \in Keyed
    BY <1>1, ChosenFacts DEF UptimeIInv, UptimeTyped
  <1>3. Began(k, entry.source)' = Began(k, entry'.source)
    BY PollEffect DEF Began
  <1>4. ~Restarted(blank, k) => Began(k, entry'.source) = Began(k, entry.source)
    BY <1>1, ChosenFacts DEF Restarted, Began, Latches
  <1>5. Counted(blank, k) => /\ Reads(blank, k) \in Nat /\ Reads(blank, k) <= now
                             /\ now - Reads(blank, k) = Began(k, entry'.source)
    BY <1>1, <1>2, ReadFacts DEF Counted
  <1> QED
    BY <1>2, <1>3, <1>4, <1>5

LEMMA PollNotLate ==
  ASSUME UptimeIInv, NEW blank \in BOOLEAN, _apply_uptime_readings(blank), NEW k \in Latches,
         "deferred" \notin excused'[k]
  PROVE  /\ NotAfter(mem[k].boot, k)' /\ NotAfter(entry.boot[k], k)'
         /\ mem'[k].last # None => mem'[k].boot <= mem'[k].lastAt - mem'[k].last
  <1> DEFINE l == Before(blank)[k]
             r == mem'[k]
             s == Reads(blank, k)
             began == Began(k, entry'.source)
  <1>1. now \in Nat /\ now' = now /\ None = -1
    BY PollEffect DEF UptimeIInv, UptimeTyped, None
  <1>2. /\ l = IF Restarted(blank, k) THEN Fresh ELSE mem[k]
        /\ l \in LatchTyped
    BY BeforeFacts
  <1>3. /\ r \in LatchTyped
        /\ ~Counted(blank, k) => r = l
        /\ Counted(blank, k) =>
               /\ r.last = s /\ r.lastAt = now
               /\ l.boot <= now - s => r.boot <= now - s
               /\ l = Fresh => r.boot >= 0
    BY PolledLatch
  <1>4. /\ Counted(blank, k) => s \in Nat /\ s <= now /\ began = now - s
        /\ ~Restarted(blank, k) => began = Began(k, entry.source)
        /\ Began(k, entry.source)' = began
    BY PolledCounter
  <1>5. entry'.boot[k] = IF r.boot = None THEN entry.boot[k] ELSE r.boot
    BY PollEffect
  <1>6. IF Restarted(blank, k) THEN host.set ELSE "deferred" \notin excused[k]
    BY ExcusedFacts
  <1>7. /\ r.boot <= now /\ (began # None => r.boot <= began)
        /\ entry'.boot[k] <= now /\ (began # None => entry'.boot[k] <= began)
        /\ r.last # None => r.boot <= r.lastAt - r.last
    <2>1. CASE Restarted(blank, k)
      <3>1. Counted(blank, k)
        BY <1>6, <2>1, AfreshReads DEF Restarted, Counted
      <3>2. l = Fresh /\ l.boot = -1
        BY <1>1, <1>2, <2>1, FreshFacts
      <3>3. r.boot \in Int /\ r.boot >= 0 /\ r.boot <= now - s /\ s \in Nat
        BY <1>1, <1>3, <1>4, <3>1, <3>2 DEF LatchTyped, Instants
      <3>4. began = now - s /\ entry'.boot[k] = r.boot /\ r.last = s /\ r.lastAt = now
        BY <1>1, <1>3, <1>4, <1>5, <3>1, <3>3
      <3> HIDE DEF l, r, s, began
      <3> QED
        BY <1>1, <3>3, <3>4
    <2>2. CASE ~Restarted(blank, k)
      <3>1. /\ l = mem[k] /\ l.boot \in Int /\ l.boot <= now
            /\ began # None => l.boot <= began /\ entry.boot[k] <= began
            /\ entry.boot[k] \in Int /\ entry.boot[k] <= now
            /\ l.last # None => l.boot <= l.lastAt - l.last
        BY <1>2, <1>4, <1>6, <2>2
           DEF UptimeIInv, NotLate, NotAfter, UptimeTyped, LatchTyped, Instants
      <3>2. r.boot \in Int
        BY <1>3 DEF LatchTyped, Instants
      <3>3. CASE Counted(blank, k)
        <4>1. /\ s \in Nat /\ s <= now /\ began = now - s /\ began # None
              /\ r.last = s /\ r.lastAt = now
          BY <1>1, <1>3, <1>4, <3>3
        <4>2. r.boot <= now - s
          BY <1>3, <3>1, <3>3, <4>1
        <4> HIDE DEF l, r, s, began
        <4> QED
          BY <1>1, <1>5, <3>1, <3>2, <4>1, <4>2
      <3>4. CASE ~Counted(blank, k)
        <4>1. r = l
          BY <1>3, <3>4
        <4> HIDE DEF l, r, s, began
        <4> QED
          BY <1>1, <1>5, <3>1, <4>1
      <3> QED
        BY <3>3, <3>4
    <2> QED
      BY <2>1, <2>2
  <1> QED
    BY <1>1, <1>4, <1>7 DEF NotAfter

LEMMA PollSaves ==
  ASSUME UptimeIInv, NEW blank \in BOOLEAN, _apply_uptime_readings(blank)
  PROVE  /\ saves' \subseteq Saved
         /\ \A s \in saves', k \in Latches : Plausible(s.rec[k])
         /\ InOrder' /\ ArmedNow' /\ SavedLast'
  <1>1. /\ UptimeTyped /\ InOrder /\ ArmedNow /\ SavedLast /\ now \in Nat /\ SaveDelay \in Nat
        /\ saves \subseteq Saved
        /\ \A s \in saves, k \in Latches : Plausible(s.rec[k])
    BY UptimeBounds DEF UptimeIInv, UptimeTyped, NoneAhead
  <1>2. on /\ on' = on /\ now' = now /\ disk' = disk
    BY PollEffect
  <1>3. \A k \in Latches : mem'[k] \in LatchTyped /\ Plausible(mem'[k])
    BY PolledLatch
  <1>4. mem' \in [Latches -> LatchTyped]
    BY <1>3, PollEffect
  <1>5. ASSUME NEW alive \in BOOLEAN, saves' = Armed(alive, mem')
        PROVE  /\ saves' \subseteq Saved
               /\ \A s \in saves', k \in Latches : Plausible(s.rec[k])
               /\ InOrder' /\ ArmedNow' /\ SavedLast'
    <2>1. PICK a \in Saved :
             /\ a.due = now + SaveDelay /\ a.age = 0 /\ a.live = alive /\ a.rec = Record(mem')
             /\ PollsApart => a.since = now
             /\ Armed(alive, mem') = {s \in saves : s.age # 0} \cup {a}
      BY <1>1, <1>4, ArmedFacts
    <2>2. saves' = {s \in saves : s.age # 0} \cup {a} /\ Mine' = {a}
      BY <1>5, <2>1 DEF Mine
    <2>3. \A k \in Latches : Plausible(a.rec[k]) /\ a.rec[k].storedAt = mem'[k].storedAt
      BY <1>3, <1>4, <2>1, RecordFacts
    <2>4. saves' \subseteq Saved /\ \A s \in saves', k \in Latches : Plausible(s.rec[k])
      BY <1>1, <2>2, <2>3
    <2>5. InOrder'
      BY <1>1, <1>2, <2>1, <2>2 DEF InOrder
    <2>6. ArmedNow'
      BY <1>1, <1>2, <2>1, <2>2 DEF ArmedNow, PollsApart
    <2>7. SavedLast'
      BY <2>2, <2>3 DEF SavedLast
    <2> QED
      BY <2>4, <2>5, <2>6, <2>7
  <1>6. CASE /\ saves' = saves
             /\ \A k \in Latches : Counted(blank, k) => mem'[k].storedAt # now
    <2>1. Mine' = Mine
      BY <1>6 DEF Mine
    <2>2. \A k \in Latches : mem'[k].ready => mem[k].ready /\ mem'[k].storedAt = mem[k].storedAt
      <3> SUFFICES ASSUME NEW k \in Latches, mem'[k].ready
                   PROVE  mem[k].ready /\ mem'[k].storedAt = mem[k].storedAt
        OBVIOUS
      <3> DEFINE l == Before(blank)[k]
      <3>1. l = IF Restarted(blank, k) THEN Fresh ELSE mem[k]
        BY BeforeFacts
      <3>2. /\ ~Counted(blank, k) => mem'[k] = l
            /\ Counted(blank, k) =>
                  mem'[k].storedAt = now \/ (mem'[k].storedAt = l.storedAt /\ l.ready)
        BY PolledLatch
      <3>3. l.ready /\ mem'[k].storedAt = l.storedAt
        BY <1>6, <3>2
      <3> QED
        BY <3>1, <3>3, FreshFacts
    <2>3. InOrder' /\ ArmedNow'
      BY <1>1, <1>2, <1>6, <2>1 DEF InOrder, ArmedNow, PollsApart
    <2>4. SavedLast'
      BY <1>1, <1>2, <1>6, <2>1, <2>2 DEF SavedLast
    <2> QED
      BY <1>1, <1>6, <2>3, <2>4
  <1> QED
    BY <1>5, <1>6, PollEffect

LEMMA PollInv ==
  ASSUME UptimeIInv, NEW blank \in BOOLEAN, _apply_uptime_readings(blank)
  PROVE  UptimeIInv'
  <1>1. \A k \in Latches : mem'[k] \in LatchTyped /\ Plausible(mem'[k]) /\ Current(mem'[k])
    BY PolledLatch
  <1>2. UptimeTyped'
    <2>1. mem' \in [Latches -> LatchTyped]
      BY <1>1, PollEffect
    <2>2. entry' \in [source : Keyed, boot : [Latches -> Instants]]
      <3>1. \A k \in Latches : entry.boot[k] \in Instants /\ mem'[k].boot \in Instants
        BY <2>1 DEF UptimeIInv, UptimeTyped, LatchTyped
      <3>2. entry'.boot \in [Latches -> Instants]
        BY <3>1, PollEffect
      <3>3. entry'.source \in Keyed
        BY PollEffect, ChosenFacts DEF UptimeIInv, UptimeTyped
      <3>4. entry' = [source |-> entry'.source, boot |-> entry'.boot]
        BY PollEffect
      <3> QED
        BY <3>2, <3>3, <3>4
    <2>3. excused' \in [Latches -> SUBSET {"untold", "deferred"}]
      BY ExcusedFacts
    <2>4. saves' \subseteq Saved /\ source' \in Keyed
      BY PollSaves, PollEffect, ChosenFacts
    <2> QED
      BY <2>1, <2>2, <2>3, <2>4, PollEffect DEF UptimeIInv, UptimeTyped
  <1>3. OneSource'
    <2>1. source' = Chosen(blank).key
          /\ entry'.source = IF source' = "none" THEN entry.source ELSE source'
      BY PollEffect
    <2>2. ASSUME source' = "none" PROVE mem'["system"].last = None
      <3>1. source = "none" /\ ~Restarted(blank, "system")
        BY <2>1, <2>2, ChosenFacts DEF Restarted
      <3>2. Reads(blank, "system") = None
        BY <2>1, <2>2 DEF Reads, Reading
      <3>3. Before(blank)["system"] = mem["system"] /\ "system" \in Latches
        BY <3>1, BeforeFacts DEF Latches
      <3>4. mem'["system"] = mem["system"]
        BY <3>2, <3>3, PollEffect DEF Counted
      <3> QED
        BY <3>1, <3>4 DEF UptimeIInv, OneSource
    <2> QED
      BY <2>1, <2>2 DEF OneSource
  <1>4. NoneAhead'
    BY <1>1, PollSaves, PollEffect DEF UptimeIInv, NoneAhead
  <1>5. LastTrue'
    <2> SUFFICES ASSUME NEW k \in Latches, mem'[k].last # None
                 PROVE  /\ 0 <= mem'[k].last /\ mem'[k].last <= mem'[k].lastAt
                        /\ mem'[k].lastAt <= now
                        /\ \/ Began(k, entry'.source) = None
                           \/ Began(k, entry'.source) = mem'[k].lastAt - mem'[k].last
                           \/ Began(k, entry'.source) >= mem'[k].lastAt
      BY PolledCounter, PollEffect DEF LastTrue
    <2>1. CASE Counted(blank, k)
      <3>1. mem'[k].last = Reads(blank, k) /\ mem'[k].lastAt = now
        BY <2>1, PolledLatch
      <3>2. /\ Reads(blank, k) \in Nat /\ Reads(blank, k) <= now
            /\ Began(k, entry'.source) = now - Reads(blank, k)
        BY <2>1, PolledCounter
      <3> QED
        BY <3>1, <3>2 DEF UptimeIInv, UptimeTyped
    <2>2. CASE ~Counted(blank, k)
      <3>1. mem'[k] = IF Restarted(blank, k) THEN Fresh ELSE mem[k]
        BY <2>2, BeforeFacts, PolledLatch
      <3>2. mem'[k] = mem[k] /\ ~Restarted(blank, k)
        BY <3>1, FreshFacts
      <3>3. Began(k, entry'.source) = Began(k, entry.source)
        BY <3>2, PolledCounter
      <3> QED
        BY <3>2, <3>3 DEF UptimeIInv, LastTrue
    <2> QED
      BY <2>1, <2>2
  <1>6. NotLate'
    BY PollNotLate DEF NotLate
  <1>7. AllCurrent'
    BY <1>1 DEF AllCurrent, Current
  <1> QED
    BY <1>2, <1>3, <1>4, <1>5, <1>6, <1>7, PollSaves DEF UptimeIInv

\* Of saves that run together, one is of the latest run.
LEMMA LeastAge ==
  ASSUME NEW S \in SUBSET Saved, S # {}
  PROVE  \E s \in S : \A r \in S : r.age >= s.age
  <1> DEFINE below == {ss \in Nat \X Nat : ss[1] < ss[2]}
             ages == {s.age : s \in S}
  <1>1. IsWellFoundedOn(below, Nat)
    BY NatLessThanWellFounded, Zenon DEF OpToRel
  <1>2. \A s \in S : s.age \in Nat
    BY DEF Saved
  <1>3. ages \subseteq Nat /\ ages # {}
    BY <1>2
  <1> HIDE DEF below, ages
  <1>4. PICK a \in ages : \A b \in ages : ~(<<b, a>> \in below)
    BY <1>1, <1>3, WFMin, Zenon
  <1>5. \A b \in ages : ~(b < a)
    BY <1>3, <1>4 DEF below
  <1>6. PICK s \in S : s.age = a
    BY DEF ages
  <1>7. \A r \in S : r.age \in ages
    BY DEF ages
  <1> QED
    BY <1>2, <1>3, <1>5, <1>6, <1>7

\* What a save writes is a record of plausible counters.
LEMMA WrittenFacts ==
  ASSUME UptimeIInv, NEW s \in saves
  PROVE  Written(s) \in Recorded /\ \A k \in Latches : Plausible(Written(s)[k])
  <1>1. mem \in [Latches -> LatchTyped] /\ s.rec \in Recorded /\ s.live \in BOOLEAN
    BY DEF UptimeIInv, UptimeTyped, Saved
  <1>2. \A k \in Latches : Plausible(mem[k]) /\ Plausible(s.rec[k])
    BY DEF UptimeIInv, NoneAhead
  <1> QED
    BY <1>1, <1>2, RecordFacts DEF Written

LEMMA TickInv ==
  ASSUME UptimeIInv, NEW gap \in Gaps, Tick(gap)
  PROVE  UptimeIInv'
  <1> DEFINE ran == {s \in saves : s.due <= now + gap}
             final == CHOOSE s \in ran : \A r \in ran : r.age >= s.age
  <1>1. /\ now \in Nat /\ gap \in Nat /\ gap > 0 /\ SaveDelay \in Nat
        /\ saves \subseteq Saved /\ None = -1
    BY UptimeBounds DEF UptimeIInv, UptimeTyped, None
  <1>2. /\ now' = now + gap /\ UNCHANGED <<host, router, on, source, mem, entry, excused>>
        /\ saves' = saves \ ran /\ disk' = IF ran = {} THEN disk ELSE Written(final)
    BY DEF Tick
  <1>3. ASSUME ran # {} PROVE final \in ran /\ \A r \in ran : r.age >= final.age
    <2>1. ran \in SUBSET Saved
      BY <1>1
    <2>2. \E s \in ran : \A r \in ran : r.age >= s.age
      BY <1>3, <2>1, LeastAge
    <2> QED
      BY <2>2, Zenon
  <1>4. \A s \in saves : s \in ran <=> s.due <= now + gap
    OBVIOUS
  <1>5. ran \subseteq saves
    OBVIOUS
  <1> HIDE DEF ran, final
  <1>6. disk' \in Recorded /\ \A k \in Latches : Plausible(disk'[k])
    BY <1>2, <1>3, <1>5, WrittenFacts DEF UptimeIInv, UptimeTyped, NoneAhead
  <1>7. UptimeTyped'
    BY <1>1, <1>2, <1>6 DEF UptimeIInv, UptimeTyped
  <1>8. \A k \in Latches : Began(k, entry.source)' = Began(k, entry.source)
    BY <1>2 DEF Began
  <1>9. OneSource' /\ NoneAhead' /\ AllCurrent'
    BY <1>2, <1>6 DEF UptimeIInv, OneSource, NoneAhead, AllCurrent
  <1>10. LastTrue'
    <2>1. \A k \in Latches : mem[k].lastAt \in Int
      BY DEF UptimeIInv, UptimeTyped, LatchTyped, Instants
    <2> QED
      BY <1>1, <1>2, <1>8, <2>1 DEF UptimeIInv, LastTrue
  <1>11. NotLate'
    <2>1. \A k \in Latches : mem[k].boot \in Int /\ entry.boot[k] \in Int
      BY DEF UptimeIInv, UptimeTyped, LatchTyped, Instants
    <2> QED
      BY <1>1, <1>2, <1>8, <2>1 DEF UptimeIInv, NotLate, NotAfter
  <1>12. Mine' = Mine \ ran
    BY <1>2 DEF Mine
  <1>13. InOrder'
    <2>1. \A s \in saves : s.due \in Int
      BY <1>1 DEF Saved
    <2> QED
      BY <1>1, <1>2, <1>5, <1>12, <2>1 DEF UptimeIInv, InOrder
  <1>14. SavedLast'
    <2> SUFFICES ASSUME on, NEW k \in Latches, mem[k].ready
                 PROVE  /\ \A m \in Mine' : m.live \/ m.rec[k].storedAt = mem[k].storedAt
                        /\ Mine' = {} => saves' = {} /\ disk'[k].storedAt = mem[k].storedAt
      BY <1>2 DEF SavedLast
    <2>1. /\ \A m \in Mine : m.live \/ m.rec[k].storedAt = mem[k].storedAt
          /\ Mine = {} => saves = {} /\ disk[k].storedAt = mem[k].storedAt
      BY DEF UptimeIInv, SavedLast
    <2>2. CASE Mine = {}
      BY <1>2, <1>5, <1>12, <2>1, <2>2
    <2>3. CASE Mine # {}
      <3>1. PICK m \in Mine : TRUE
        BY <2>3
      <3>2. m \in saves /\ m.age = 0 /\ m \in Saved
        BY <1>1 DEF Mine
      <3>3. \A s \in saves : s.due <= m.due /\ s.due \in Int /\ s.age \in Nat
        BY <1>1 DEF UptimeIInv, InOrder, Saved
      <3>4. \A s \in saves : s.age = 0 => s = m
        BY DEF UptimeIInv, InOrder, Mine
      <3>5. CASE m \in ran
        <4>1. ran = saves
          <5>1. m.due <= now + gap /\ m.due \in Int
            BY <1>4, <3>2, <3>3, <3>5
          <5>2. \A s \in saves : s.due <= now + gap
            BY <1>1, <3>3, <5>1
          <5> QED
            BY <1>4, <1>5, <5>2
        <4>2. final = m
          BY <1>3, <1>5, <3>2, <3>3, <3>4, <3>5
        <4>3. disk' = Written(m)
          BY <1>2, <3>5, <4>2
        <4>4. disk'[k].storedAt = mem[k].storedAt
          <5>1. mem \in [Latches -> LatchTyped]
            BY DEF UptimeIInv, UptimeTyped
          <5> QED
            BY <2>1, <4>3, <5>1, RecordFacts DEF Written
        <4> QED
          BY <1>2, <1>12, <2>1, <4>1, <4>4
      <3>6. CASE m \notin ran
        BY <1>12, <2>1, <3>6
      <3> QED
        BY <3>5, <3>6
    <2> QED
      BY <2>2, <2>3
  <1>15. ArmedNow'
    <2> SUFFICES ASSUME PollsApart PROVE saves' = {}
      BY DEF ArmedNow, PollsApart
    <2>1. \A s \in saves : s.due <= now + SaveDelay /\ s.due \in Int
      BY <1>1 DEF UptimeIInv, InOrder, Saved
    <2>2. gap >= SaveDelay
      BY DEF PollsApart
    <2>3. \A s \in saves : s \in ran
      BY <1>1, <1>4, <2>1, <2>2
    <2> QED
      BY <1>2, <2>3
  <1> QED
    BY <1>7, <1>9, <1>10, <1>11, <1>13, <1>14, <1>15 DEF UptimeIInv

\* A run begins with the latches as the entry and the file have them.
LEMMA BeginFacts ==
  ASSUME UptimeIInv, Begin
  PROVE  /\ on' /\ on' \in BOOLEAN /\ source' = "none" /\ mem' \in [Latches -> LatchTyped]
         /\ \A k \in Latches :
               /\ Plausible(mem'[k]) /\ Current(mem'[k]) /\ ~mem'[k].ready
               /\ mem'[k].last = None /\ mem'[k].boot = entry.boot[k]
               /\ mem'[k].wall = disk[k].wall /\ mem'[k].counter = disk[k].counter
               /\ IF entry.boot[k] = None THEN mem'[k].stored = None
                  ELSE /\ mem'[k].stored = disk[k].stored
                       /\ mem'[k].storedAt = disk[k].storedAt
  <1> SUFFICES ASSUME NEW k \in Latches
               PROVE  LET l == Loaded(k)
                      IN /\ l \in LatchTyped /\ Plausible(l) /\ Current(l) /\ ~l.ready
                         /\ l.last = None /\ l.boot = entry.boot[k]
                         /\ l.wall = disk[k].wall /\ l.counter = disk[k].counter
                         /\ IF entry.boot[k] = None THEN l.stored = None
                            ELSE l.stored = disk[k].stored /\ l.storedAt = disk[k].storedAt
    BY Zenon DEF Begin
  <1>1. /\ disk[k] \in [stored : Instants, storedAt : Instants, wall : Nat, counter : Nat]
        /\ Plausible(disk[k]) /\ entry.boot[k] \in Instants /\ None \in Instants /\ 0 \in Nat
    BY DEF UptimeIInv, UptimeTyped, NoneAhead, Recorded, None, Instants
  <1> DEFINE boot == entry.boot[k]
             wall == disk[k].wall
             counter == disk[k].counter
             stored == IF boot # None THEN disk[k].stored ELSE None
             storedAt == IF boot # None THEN disk[k].storedAt ELSE None
             l == [Fresh EXCEPT !.boot = boot, !.wall = wall, !.counter = counter,
                                !.stored = stored, !.storedAt = storedAt]
  <1>2. Loaded(k) = l
    BY DEF Loaded
  <1>3. /\ boot \in Instants /\ wall \in Nat /\ counter \in Nat /\ counter <= wall
        /\ stored \in Instants /\ storedAt \in Instants /\ (stored # None => stored <= storedAt)
        /\ IF entry.boot[k] = None THEN stored = None
           ELSE stored = disk[k].stored /\ storedAt = disk[k].storedAt
    BY <1>1 DEF Plausible
  <1> HIDE DEF boot, wall, counter, stored, storedAt
  <1>4. /\ l \in LatchTyped /\ l.boot = boot /\ l.wall = wall /\ l.counter = counter
        /\ l.stored = stored /\ l.storedAt = storedAt /\ ~l.ready /\ l.last = None
        /\ l.wroteAt = None
    BY <1>1, <1>3, FreshFacts DEF LatchTyped
  <1> HIDE DEF l
  <1>5. Plausible(l) /\ Current(l)
    BY <1>3, <1>4 DEF Plausible, Current
  <1> QED
    BY <1>2, <1>3, <1>4, <1>5 DEF boot, wall, counter

\* All of the invariant that a beginning of a run settles.
LEMMA BeginInv ==
  ASSUME UptimeIInv, Begin, UNCHANGED <<now, router, entry, disk, excused>>
  PROVE  /\ OneSource' /\ LastTrue' /\ NotLate' /\ AllCurrent' /\ SavedLast'
         /\ \A k \in Latches : Plausible(mem'[k]) /\ Plausible(disk'[k])
  <1>1. \A k \in Latches : Began(k, entry.source)' = Began(k, entry.source)
    BY DEF Began
  <1>2. OneSource'
    BY BeginFacts DEF OneSource, Latches
  <1>3. LastTrue'
    BY BeginFacts DEF LastTrue
  <1>4. NotLate'
    BY <1>1, BeginFacts DEF UptimeIInv, NotLate, NotAfter
  <1>5. AllCurrent' /\ SavedLast'
    BY BeginFacts DEF AllCurrent, Current, SavedLast
  <1> QED
    BY <1>2, <1>3, <1>4, <1>5, BeginFacts DEF UptimeIInv, NoneAhead

LEMMA ReloadInv ==
  ASSUME UptimeIInv, Reload
  PROVE  UptimeIInv'
  <1> DEFINE aged(s) == [s EXCEPT !.age = @ + 1, !.live = FALSE, !.rec = Written(s)]
  <1>1. /\ Begin /\ UNCHANGED <<now, host, router, entry, disk, excused>>
        /\ saves' = {aged(s) : s \in saves}
    BY DEF Reload
  <1>2. /\ OneSource' /\ LastTrue' /\ NotLate' /\ AllCurrent' /\ SavedLast'
        /\ \A k \in Latches : Plausible(mem'[k]) /\ Plausible(disk'[k])
    BY <1>1, BeginInv
  <1>3. ASSUME NEW s \in saves
        PROVE  /\ aged(s) \in Saved /\ aged(s).age # 0 /\ aged(s).due = s.due
               /\ aged(s).since = s.since /\ aged(s).rec = Written(s)
    <2> DEFINE rec == Written(s)
               age == s.age + 1
               r == [s EXCEPT !.age = age, !.live = FALSE, !.rec = rec]
    <2>1. s \in Saved /\ rec \in Recorded
      BY WrittenFacts DEF UptimeIInv, UptimeTyped
    <2>2. age \in Nat /\ age # 0
      BY <2>1 DEF Saved
    <2> HIDE DEF rec, age
    <2>3. r \in Saved
      BY <2>1, <2>2 DEF Saved
    <2>4. r.age = age /\ r.due = s.due /\ r.since = s.since /\ r.rec = rec
      BY <2>1 DEF Saved
    <2> HIDE DEF r
    <2>5. aged(s) = r
      BY DEF r, rec, age
    <2> HIDE DEF aged
    <2> QED
      BY <2>2, <2>3, <2>4, <2>5 DEF rec
  <1> HIDE DEF aged
  <1>4. UptimeTyped'
    BY <1>1, <1>3, BeginFacts DEF UptimeIInv, UptimeTyped, Keyed
  <1>5. Mine' = {}
    BY <1>1, <1>3 DEF Mine
  <1>6. NoneAhead'
    BY <1>1, <1>2, <1>3, WrittenFacts DEF NoneAhead
  <1>7. InOrder' /\ ArmedNow'
    BY <1>1, <1>3, <1>5 DEF UptimeIInv, InOrder, ArmedNow, PollsApart
  <1> QED
    BY <1>2, <1>4, <1>6, <1>7 DEF UptimeIInv

LEMMA StartUpInv ==
  ASSUME UptimeIInv, StartUp
  PROVE  UptimeIInv'
  <1>1. /\ Begin /\ UNCHANGED <<now, router, entry, disk, saves, excused>>
        /\ host' = [host EXCEPT !.set = host.rtc]
    BY DEF StartUp
  <1>2. /\ OneSource' /\ LastTrue' /\ NotLate' /\ AllCurrent' /\ SavedLast'
        /\ \A k \in Latches : Plausible(mem'[k]) /\ Plausible(disk'[k])
    BY <1>1, BeginInv
  <1>3. host' \in [rtc : BOOLEAN, set : BOOLEAN]
    BY <1>1 DEF UptimeIInv, UptimeTyped
  <1>4. UptimeTyped'
    BY <1>1, <1>3, BeginFacts DEF UptimeIInv, UptimeTyped, Keyed
  <1>5. InOrder' /\ ArmedNow' /\ NoneAhead'
    BY <1>1, <1>2 DEF UptimeIInv, InOrder, ArmedNow, NoneAhead, PollsApart, Mine
  <1> QED
    BY <1>2, <1>4, <1>5 DEF UptimeIInv

LEMMA StopInv ==
  ASSUME UptimeIInv, NEW orderly \in BOOLEAN, Stop(orderly)
  PROVE  UptimeIInv'
  <1>1. /\ ~on' /\ on' \in BOOLEAN /\ saves' = {}
        /\ UNCHANGED <<now, host, router, source, mem, entry, excused>>
    BY DEF Stop
  <1>2. disk' \in Recorded /\ \A k \in Latches : Plausible(disk'[k])
    <2>1. CASE orderly /\ Mine # {}
      <3>1. PICK s : s \in Mine /\ s = (CHOOSE z \in Mine : TRUE)
        BY <2>1, Zenon
      <3>2. s \in saves /\ disk' = Written(s)
        BY <2>1, <3>1 DEF Stop, Mine
      <3> QED
        BY <3>2, WrittenFacts
    <2>2. CASE ~(orderly /\ Mine # {})
      BY <2>2 DEF Stop, UptimeIInv, UptimeTyped, NoneAhead
    <2> QED
      BY <2>1, <2>2
  <1>3. UptimeTyped'
    BY <1>1, <1>2 DEF UptimeIInv, UptimeTyped
  <1>4. \A k \in Latches : Began(k, entry.source)' = Began(k, entry.source)
    BY <1>1 DEF Began
  <1>5. OneSource' /\ NoneAhead' /\ AllCurrent' /\ LastTrue' /\ NotLate'
    BY <1>1, <1>2, <1>4
       DEF UptimeIInv, OneSource, NoneAhead, AllCurrent, LastTrue, NotLate, NotAfter
  <1>6. InOrder' /\ ArmedNow' /\ SavedLast'
    BY <1>1 DEF InOrder, ArmedNow, SavedLast, Mine
  <1> QED
    BY <1>3, <1>5, <1>6 DEF UptimeIInv

\* Setting the host's clock leaves all of it alone.
LEMMA ClockInv ==
  ASSUME UptimeIInv, ClockSet
  PROVE  UptimeIInv'
  <1>1. /\ host' = [host EXCEPT !.set = TRUE]
        /\ UNCHANGED <<now, router, on, source, mem, entry, disk, saves, excused>>
    BY DEF ClockSet
  <1>2. UptimeTyped'
    BY <1>1 DEF UptimeIInv, UptimeTyped
  <1>3. \A k \in Latches : Began(k, entry.source)' = Began(k, entry.source)
    BY <1>1 DEF Began
  <1>4. OneSource' /\ NoneAhead' /\ AllCurrent' /\ LastTrue' /\ NotLate'
    BY <1>1, <1>3
       DEF UptimeIInv, OneSource, NoneAhead, AllCurrent, LastTrue, NotLate, NotAfter
  <1>5. InOrder' /\ ArmedNow' /\ SavedLast'
    BY <1>1 DEF UptimeIInv, InOrder, ArmedNow, SavedLast, Mine, PollsApart
  <1> QED
    BY <1>2, <1>4, <1>5 DEF UptimeIInv

\* A counter of the router may stop, or begin again now.
LEMMA RouterInv ==
  ASSUME UptimeIInv, router' \in [boot : Int, sess : Int, total : BOOLEAN],
         router'.boot \in {router.boot, now}, router'.sess \in {router.sess, now, None},
         UNCHANGED <<now, host, on, source, mem, entry, disk, saves, excused>>
  PROVE  UptimeIInv'
  <1>1. /\ now \in Nat /\ router.boot \in Int /\ router.sess \in Int /\ None = -1
        /\ 0 <= router.boot /\ router.boot <= now /\ None <= router.sess /\ router.sess <= now
    BY DEF UptimeIInv, UptimeTyped, None
  <1>2. UptimeTyped'
    BY <1>1 DEF UptimeIInv, UptimeTyped
  <1>3. \A k \in Latches : Began(k, entry.source)' \in {Began(k, entry.source), now, None}
    BY DEF Began
  <1>4. OneSource' /\ NoneAhead' /\ AllCurrent'
    BY DEF UptimeIInv, OneSource, NoneAhead, AllCurrent
  <1>5. LastTrue'
    BY <1>3 DEF UptimeIInv, LastTrue
  <1>6. NotLate'
    BY <1>3 DEF UptimeIInv, NotLate, NotAfter
  <1>7. InOrder' /\ ArmedNow' /\ SavedLast'
    BY DEF UptimeIInv, InOrder, ArmedNow, SavedLast, Mine, PollsApart
  <1> QED
    BY <1>2, <1>4, <1>5, <1>6, <1>7 DEF UptimeIInv

LEMMA RouterActions ==
  ASSUME UptimeIInv, Reboot \/ DataOff \/ DataOn
  PROVE  /\ router' \in [boot : Int, sess : Int, total : BOOLEAN]
         /\ router'.boot \in {router.boot, now} /\ router'.sess \in {router.sess, now, None}
         /\ UNCHANGED <<now, host, on, source, mem, entry, disk, saves, excused>>
  <1>1. router \in [boot : Int, sess : Int, total : BOOLEAN] /\ now \in Int /\ None \in Int
    BY DEF UptimeIInv, UptimeTyped, None
  <1>2. CASE Reboot
    BY <1>1, <1>2 DEF Reboot
  <1>3. CASE DataOff
    BY <1>1, <1>3 DEF DataOff
  <1>4. CASE DataOn
    BY <1>1, <1>4 DEF DataOn
  <1> QED
    BY <1>2, <1>3, <1>4

LEMMA UptimeInitInv == UptimeInit => UptimeIInv
  <1> SUFFICES ASSUME UptimeInit PROVE UptimeIInv
    OBVIOUS
  <1>1. PICK b \in Boots :
           router \in [boot : {b}, sess : {s \in Boots : s >= b}, total : BOOLEAN]
    BY DEF UptimeInit
  <1>2. /\ now = Start /\ Start \in Nat /\ Boots \subseteq 0..Start /\ None = -1
        /\ host \in [rtc : BOOLEAN, set : BOOLEAN]
    BY UptimeBounds DEF UptimeInit, None
  <1>3. /\ router \in [boot : Int, sess : Int, total : BOOLEAN]
        /\ 0 <= router.boot /\ router.boot <= now /\ 0 <= router.sess /\ router.sess <= now
    <2>1. b \in Int /\ 0 <= b /\ b <= now
      BY <1>2
    <2>2. router.boot = b /\ router.sess \in Boots /\ router.total \in BOOLEAN
          /\ router = [boot |-> router.boot, sess |-> router.sess, total |-> router.total]
      BY <1>1
    <2>3. router.sess \in Int /\ 0 <= router.sess /\ router.sess <= now
      BY <1>2, <2>2
    <2> QED
      BY <2>1, <2>2, <2>3
  <1>4. /\ on = TRUE /\ source = "none" /\ mem = [k \in Latches |-> Fresh] /\ saves = {}
        /\ disk = Record(mem) /\ excused = [k \in Latches |-> {}]
    BY DEF UptimeInit
  <1>5. /\ entry \in [source : Keyed, boot : [Latches -> Instants]]
        /\ entry.source = "none" /\ \A k \in Latches : entry.boot[k] = None
    BY DEF UptimeInit, Keyed, Instants, None
  <1>6. mem \in [Latches -> LatchTyped] /\ \A k \in Latches : mem[k] = Fresh
    BY <1>4, FreshFacts
  <1>7. disk \in Recorded /\ \A k \in Latches : Plausible(disk[k])
    BY <1>4, <1>6, FreshFacts, RecordFacts
  <1>8. UptimeTyped
    BY <1>2, <1>3, <1>4, <1>5, <1>6, <1>7 DEF UptimeTyped, Keyed
  <1>9. OneSource /\ NoneAhead /\ LastTrue /\ AllCurrent
    BY <1>4, <1>6, <1>7, FreshFacts DEF OneSource, NoneAhead, LastTrue, AllCurrent, Latches
  <1>10. NotLate
    BY <1>2, <1>3, <1>5, <1>6, FreshFacts DEF NotLate, NotAfter, Began
  <1>11. InOrder /\ SavedLast /\ ArmedNow
    BY <1>4, <1>6, FreshFacts DEF InOrder, SavedLast, ArmedNow, Mine
  <1> QED
    BY <1>8, <1>9, <1>10, <1>11 DEF UptimeIInv

LEMMA UptimeStutterInv == UptimeIInv /\ UNCHANGED uptimeVars => UptimeIInv'
  <1> SUFFICES ASSUME UptimeIInv, UNCHANGED uptimeVars PROVE UptimeIInv'
    OBVIOUS
  <1>1. UNCHANGED <<now, host, router, on, source, mem, entry, disk, saves, excused>>
    BY DEF uptimeVars
  <1>2. /\ router' \in [boot : Int, sess : Int, total : BOOLEAN]
        /\ router'.boot \in {router.boot, now} /\ router'.sess \in {router.sess, now, None}
    BY <1>1 DEF UptimeIInv, UptimeTyped
  <1> QED
    BY <1>1, <1>2, RouterInv

LEMMA UptimeNextInv == UptimeIInv /\ [UptimeNext]_uptimeVars => UptimeIInv'
  <1> SUFFICES ASSUME UptimeIInv, [UptimeNext]_uptimeVars PROVE UptimeIInv'
    OBVIOUS
  <1>1. ASSUME NEW blank \in BOOLEAN, _apply_uptime_readings(blank) PROVE UptimeIInv'
    BY <1>1, PollInv
  <1>2. ASSUME NEW gap \in Gaps, Tick(gap) PROVE UptimeIInv'
    BY <1>2, TickInv
  <1>3. ASSUME NEW orderly \in BOOLEAN, Stop(orderly) PROVE UptimeIInv'
    BY <1>3, StopInv
  <1>4. CASE Reload
    BY <1>4, ReloadInv
  <1>5. CASE StartUp
    BY <1>5, StartUpInv
  <1>6. CASE ClockSet
    BY <1>6, ClockInv
  <1>7. CASE Reboot \/ DataOff \/ DataOn
    BY <1>7, RouterActions, RouterInv
  <1>8. CASE UNCHANGED uptimeVars
    BY <1>8, UptimeStutterInv
  <1> QED
    BY <1>1, <1>2, <1>3, <1>4, <1>5, <1>6, <1>7, <1>8 DEF UptimeNext

\* The latches, the file and the saves keep UptimeIInv, for every value of the constants.
THEOREM UptimeInductive == UptimeSpec => []UptimeIInv
  BY UptimeInitInv, UptimeNextInv, PTL DEF UptimeSpec

\* No instant shown is later than the beginning of the counter it is of (NeverLate), for
\* every rate a latch can learn, every restart and every save lost.
THEOREM NeverLateProved == UptimeSpec => []NeverLate
  <1>1. ASSUME UptimeIInv PROVE NeverLate
    <2> SUFFICES ASSUME NEW k \in Latches, mem[k].ready, "deferred" \notin excused[k],
                        Began(k, source) # None
                 PROVE  mem[k].boot <= Began(k, source)
      BY DEF NeverLate
    <2>1. k = "system" => entry.source = source
      BY <1>1 DEF UptimeIInv, AllCurrent, Current, OneSource
    <2>2. Began(k, source) = Began(k, entry.source)
      BY <2>1 DEF Began
    <2> QED
      BY <1>1, <2>2 DEF UptimeIInv, NotLate, NotAfter
  <1> QED
    BY <1>1, UptimeInductive, PTL

\* Within a run no instant goes back, except to one of another counter (NeverBack): what
\* _apply_uptime_readings does to a latch, by a drop of the counter or by judging it,
\* dates a restart after the one shown.
THEOREM NeverBackProved == UptimeSpec => NeverBack
  <1>1. ASSUME UptimeIInv, [UptimeNext]_uptimeVars
        PROVE  \A k \in Latches :
                  /\ on /\ mem[k].ready /\ mem'[k].ready /\ source' = source /\ on'
                  /\ "deferred" \notin excused[k]
                  => mem'[k].boot >= mem[k].boot
    <2> SUFFICES ASSUME NEW k \in Latches, on, mem[k].ready, mem'[k].ready, source' = source,
                        on', "deferred" \notin excused[k]
                 PROVE  mem'[k].boot >= mem[k].boot
      OBVIOUS
    <2>1. /\ mem[k].boot \in Int /\ mem[k].last # None
          /\ mem[k].boot <= mem[k].lastAt - mem[k].last
      BY <1>1 DEF UptimeIInv, UptimeTyped, LatchTyped, Instants, AllCurrent, Current, NotLate
    <2>2. ASSUME NEW blank \in BOOLEAN, _apply_uptime_readings(blank)
          PROVE  mem'[k].boot >= mem[k].boot
      <3>1. ~Restarted(blank, k)
        BY <1>1, <2>2, ChosenFacts, PollEffect DEF Restarted
      <3>2. Before(blank)[k] = mem[k]
        BY <1>1, <3>1, BeforeFacts
      <3>3. CASE Counted(blank, k)
        BY <1>1, <2>1, <2>2, <3>2, <3>3, PolledLatch
      <3>4. CASE ~Counted(blank, k)
        <4>1. mem'[k] = mem[k]
          BY <1>1, <2>2, <3>2, <3>4, PolledLatch
        <4> QED
          BY <2>1, <4>1
      <3> QED
        BY <3>3, <3>4
    <2>3. CASE UNCHANGED mem
      BY <2>1, <2>3
    <2>4. CASE Reload \/ StartUp
      <3>1. Begin
        BY <2>4 DEF Reload, StartUp
      <3> QED
        BY <1>1, <3>1, BeginFacts
    <2>5. ASSUME NEW orderly \in BOOLEAN, Stop(orderly) PROVE FALSE
      BY <2>5 DEF Stop
    <2>6. ASSUME NEW gap \in Gaps, Tick(gap) PROVE UNCHANGED mem
      BY <2>6 DEF Tick
    <2>7. ClockSet \/ Reboot \/ DataOff \/ DataOn \/ UNCHANGED uptimeVars => UNCHANGED mem
      BY DEF ClockSet, Reboot, DataOff, DataOn, uptimeVars
    <2> QED
      BY <1>1, <2>2, <2>3, <2>4, <2>5, <2>6, <2>7 DEF UptimeNext
  <1> QED
    BY <1>1, UptimeInductive, PTL DEF NeverBack, UptimeSpec

\* Whenever no save of this run is pending, what a crash leaves in the store's file is
\* less than a write interval older than the last reading (DiskHolds).
THEOREM DiskHoldsProved == UptimeSpec => []DiskHolds
  <1>1. ASSUME UptimeIInv PROVE DiskHolds
    <2> SUFFICES ASSUME on, Mine = {}, NEW k \in Latches, mem[k].ready
                 PROVE  disk[k].storedAt # None /\ disk[k].storedAt > mem[k].lastAt - WriteInterval
      BY DEF DiskHolds
    <2>1. disk[k].storedAt = mem[k].storedAt
      BY <1>1 DEF UptimeIInv, SavedLast
    <2>2. /\ mem[k].wroteAt # None /\ mem[k].storedAt = mem[k].wroteAt
          /\ mem[k].lastAt - mem[k].wroteAt < WriteInterval
      BY <1>1 DEF UptimeIInv, AllCurrent, Current
    <2>3. mem[k].wroteAt \in Int /\ mem[k].lastAt \in Int /\ WriteInterval \in Int
      BY <1>1, UptimeBounds DEF UptimeIInv, UptimeTyped, LatchTyped, Instants
    <2> QED
      BY <2>1, <2>2, <2>3
  <1> QED
    BY <1>1, UptimeInductive, PTL

\* Where polls are at least a save's delay apart no save waits longer than that either
\* (DiskFresh); polls closer than that push a save back each time, in the code as here.
THEOREM DiskFreshProved == PollsApart => (UptimeSpec => []DiskFresh)
  <1> SUFFICES ASSUME PollsApart PROVE UptimeSpec => []DiskFresh
    OBVIOUS
  <1>1. ASSUME UptimeIInv PROVE NoneWaits
    <2>1. now \in Nat /\ SaveDelay \in Nat
      BY <1>1, UptimeBounds DEF UptimeIInv, UptimeTyped
    <2>2. \A s \in saves : s.since = now
      BY <1>1 DEF UptimeIInv, ArmedNow
    <2> QED
      BY <2>1, <2>2 DEF NoneWaits
  <1>2. DiskHolds /\ NoneWaits => DiskFresh
    BY DEF DiskFresh
  <1> QED
    BY <1>1, <1>2, UptimeInductive, DiskHoldsProved, PTL

-----------------------------------------------------------------------------
(* An instant held is right wherever a reading can show it.                  *)

\* A latch whose rate was never spoilt has the rate 1, and derives what began.
Exact(l) == l.wall = l.counter

LEMMA ExactRate ==
  ASSUME NEW l \in LatchTyped, Exact(l), NEW s \in Nat, NEW t \in Nat
  PROVE  Num(l) = Den(l) /\ Den(l) \in Nat /\ Den(l) > 0 /\ Derived(l, s, t) = t - s
  <1> DEFINE n == Num(l)
             d == Den(l)
             q == (t * n - s * d) \div n
  <1>1. l.wall \in Nat /\ l.counter = l.wall /\ (Known(l) => l.wall > 0)
    BY UptimeBounds DEF LatchTyped, Exact, Known
  <1>2. n = d /\ d \in Nat /\ d > 0
    BY <1>1 DEF Num, Den
  <1>3. Derived(l, s, t) = q
    BY DEF Derived
  <1> HIDE DEF n, d
  <1>4. t * n - s * d = (t - s) * d
    BY <1>2
  <1>5. ((t - s) * d) \div d = t - s
    BY <1>2
  <1>6. q = t - s
    BY <1>2, <1>4, <1>5
  <1> QED
    BY <1>2, <1>3, <1>6 DEF n, d

LEMMA SampledExact ==
  ASSUME NEW l \in LatchTyped, Exact(l), l.last # None => l.ready,
         NEW s \in Nat, NEW t \in Nat, ~Untold(l, s, t)
  PROVE  Exact(Sampled(l, s, t))
  <1> DEFINE wall == l.wall + (t - l.lastAt)
             counter == l.counter + (s - l.last)
  <1>1. CASE l.last = None \/ t - l.lastAt < MinInterval \/ s <= l.last
    BY <1>1 DEF Sampled
  <1>2. CASE l.last # None /\ ~(t - l.lastAt < MinInterval) /\ ~(s <= l.last)
    <2>1. /\ l.wall \in Nat /\ l.counter \in Nat /\ l.lastAt \in Int /\ l.last \in Int
          /\ l.wall = l.counter /\ l.ready /\ RebootMargin \in Nat
      BY <1>2, UptimeBounds DEF LatchTyped, Instants, Exact
    <2>2. t - s = l.lastAt - l.last
      BY <1>2, <2>1 DEF Untold
    <2>3. wall = counter
      BY <2>1, <2>2
    <2>4. Sampled(l, s, t) = [l EXCEPT !.wall = wall, !.counter = counter]
      BY <1>2 DEF Sampled
    <2> HIDE DEF wall, counter
    <2> QED
      BY <2>3, <2>4 DEF Exact, LatchTyped
  <1> QED
    BY <1>1, <1>2

\* The first reading of a run, where what is on record shows what it should.
LEMMA ReconciledRight ==
  ASSUME NEW l \in LatchTyped, Exact(l), ~l.ready,
         NEW s \in Nat, NEW t \in Nat, ~Untold(l, s, t), l.boot <= t - s,
         l.stored # None => /\ l.boot # None /\ l.storedAt <= t
                            /\ t - s <= l.storedAt - l.stored => l.boot = t - s
  PROVE  Reconciled(l, s, t).boot = t - s
  <1> DEFINE restarted == IF l.stored # None /\ t >= l.storedAt THEN Short(l, s, t)
                          ELSE ColdImplausible(l, s, t)
             m == IF restarted THEN Latched(l, s, t) ELSE l
             n == Den(l)
             margin == Larger(50 * MarginFloor, t - l.storedAt)
  <1>1. /\ l.boot \in Int /\ l.stored \in Int /\ l.storedAt \in Int /\ l.counter <= l.wall
        /\ MarginFloor \in Nat /\ l.wall \in Nat /\ l.counter \in Nat
    BY UptimeBounds DEF LatchTyped, Instants, Exact
  <1>2. Num(l) = n /\ n \in Nat /\ n > 0 /\ Derived(l, s, t) = t - s
    BY ExactRate
  <1>3. margin \in Int
    BY <1>1 DEF Larger
  <1>4. Latched(l, s, t) \in LatchTyped /\ Latched(l, s, t).boot = t - s
    <2>1. l.counter <= l.wall
      BY <1>1
    <2>2. Stage(l, Latched(l, s, t), s, t) /\ Latched(l, s, t).boot = Derived(l, s, t)
      BY ONLY l \in LatchTyped, s \in Nat, t \in Nat, <2>1, LatchedStage
    <2> QED
      BY <1>2, <2>2 DEF Stage
  <1>5. Reconciled(l, s, t) = [m EXCEPT !.ready = TRUE]
    BY DEF Reconciled
  <1>6. ASSUME ~restarted PROVE l.boot = t - s
    <2>1. CASE l.stored # None
      <3>1. ~Short(l, s, t)
        BY <1>1, <1>6, <2>1
      <3>2. ~(50 * s * n < 50 * (l.stored * n + (t - l.storedAt) * n) - n * margin)
        BY <1>2, <3>1 DEF Short
      <3> HIDE DEF n, margin
      <3>3. 50 * (t - s - (l.storedAt - l.stored)) <= margin
        <4> SUFFICES ASSUME 50 * (t - s - (l.storedAt - l.stored)) > margin PROVE FALSE
          BY <1>1, <1>3
        <4>1. n * margin < n * (50 * (t - s - (l.storedAt - l.stored)))
          BY <1>1, <1>2, <1>3
        <4>2. n * (50 * (t - s - (l.storedAt - l.stored)))
                 = 50 * (l.stored * n + (t - l.storedAt) * n) - 50 * s * n
          BY <1>1, <1>2
        <4> QED
          BY <1>1, <1>2, <1>3, <3>2, <4>1, <4>2
      <3>4. t - s <= l.storedAt - l.stored
        BY <1>1, <2>1, <3>3 DEF Untold, margin
      <3> QED
        BY <2>1, <3>4
    <2>2. CASE l.stored = None
      <3>1. l.boot # None /\ ~(5 * s < 4 * (t - l.boot))
        BY <1>6, <2>2 DEF ColdImplausible
      <3> QED
        BY <1>1, <2>2, <3>1 DEF Untold
    <2> QED
      BY <2>1, <2>2
  <1>7. m \in LatchTyped /\ m.boot = t - s
    BY <1>4, <1>6
  <1> HIDE DEF m, restarted
  <1>8. [m EXCEPT !.ready = TRUE].boot = m.boot
    BY <1>7 DEF LatchTyped
  <1> QED
    BY <1>5, <1>7, <1>8

\* A reading that nothing excuses makes the instant the one its counter began at.
LEMMA AppliedRight ==
  ASSUME NEW l \in LatchTyped, Plausible(l), Exact(l),
         l.wroteAt # None => l.ready /\ l.storedAt = l.wroteAt,
         NEW s \in Nat, NEW t \in Nat, s <= t, ~Untold(l, s, t),
         l.last # None => /\ 0 <= l.last /\ l.last <= l.lastAt /\ l.lastAt <= t /\ l.ready
                          /\ t - s = l.lastAt - l.last \/ t - s >= l.lastAt
  PROVE  /\ Exact(Applied(l, s, t))
         /\ l.ready /\ l.last # None /\ (t - s = l.lastAt - l.last => l.boot = t - s) =>
               Applied(l, s, t).boot = t - s
         /\ ~l.ready /\ l.boot <= t - s
            /\ (l.stored # None => /\ l.boot # None /\ l.storedAt <= t
                                   /\ t - s <= l.storedAt - l.stored => l.boot = t - s) =>
               Applied(l, s, t).boot = t - s
  <1> DEFINE sampled == Sampled(l, s, t)
             tested == Tested(sampled, s, t)
             r == Applied(l, s, t)
  <1>1. /\ l.last \in Int /\ l.lastAt \in Int /\ l.counter <= l.wall /\ RebootMargin \in Nat
    BY UptimeBounds DEF LatchTyped, Instants, Plausible
  <1>2. /\ sampled \in LatchTyped /\ sampled.counter <= sampled.wall /\ sampled.boot = l.boot
        /\ sampled.last = l.last /\ sampled.lastAt = l.lastAt /\ sampled.ready = l.ready
        /\ sampled.stored = l.stored /\ sampled.storedAt = l.storedAt
    <2>1. l.last # None => l.last \in Nat /\ l.lastAt <= t /\ t - s >= l.lastAt - l.last
      BY <1>1
    <2> QED
      BY <1>1, <2>1, SampledFacts
  <1>3. Exact(sampled)
    BY SampledExact
  <1>4. /\ r.boot = Judged(tested, s, t).boot
        /\ r.wall = sampled.wall /\ r.counter = sampled.counter
    BY AppliedFacts
  <1>5. Untold(sampled, s, t) = Untold(l, s, t)
    BY <1>2 DEF Untold
  <1> HIDE DEF sampled, r
  <1>6. Derived(sampled, s, t) = t - s
    BY <1>2, <1>3, ExactRate
  <1>7. Stage(sampled, tested, s, t)
    BY <1>2, TestedFacts
  <1> HIDE DEF tested
  <1>8. tested \in LatchTyped /\ Exact(tested) /\ tested.counter <= tested.wall
    BY <1>2, <1>3, <1>7 DEF Stage, Exact
  <1>9. ASSUME tested.boot = t - s PROVE r.boot = t - s
    <2>1. CASE Moves(tested, s, t)
      <3>1. Judged(tested, s, t).boot = Derived(tested, s, t)
        BY <1>8, <2>1, LatchedFacts DEF Judged
      <3> QED
        BY <1>4, <1>8, <3>1, ExactRate
    <2>2. CASE ~Moves(tested, s, t)
      BY <1>4, <1>9, <2>2 DEF Judged
    <2> QED
      BY <2>1, <2>2
  <1>10. ASSUME l.ready, l.last # None, t - s = l.lastAt - l.last => l.boot = t - s
         PROVE  tested.boot = t - s
    <2>1. CASE Drops(sampled, s)
      <3>1. tested = Latched(sampled, s, t)
        BY <1>2, <1>10, <2>1 DEF tested, Tested
      <3> QED
        BY <1>2, <1>6, <3>1, LatchedFacts
    <2>2. CASE ~Drops(sampled, s)
      <3>1. tested = sampled
        BY <1>2, <1>10, <2>2 DEF tested, Tested
      <3>2. s >= l.last - RebootMargin
        BY <1>1, <1>2, <1>10, <2>2 DEF Drops
      <3>3. t - s = l.lastAt - l.last
        BY <1>10, <3>2 DEF Untold
      <3> QED
        BY <1>2, <1>10, <3>1, <3>3
    <2> QED
      BY <2>1, <2>2
  <1>11. ASSUME ~l.ready, l.boot <= t - s,
                l.stored # None => /\ l.boot # None /\ l.storedAt <= t
                                   /\ t - s <= l.storedAt - l.stored => l.boot = t - s
         PROVE  tested.boot = t - s
    <2>1. tested = Reconciled(sampled, s, t)
      BY <1>2, <1>11 DEF tested, Tested
    <2> QED
      BY <1>2, <1>3, <1>5, <1>11, <2>1, ReconciledRight
  <1>12. Exact(r)
    BY <1>3, <1>4 DEF Exact
  <1> QED
    BY <1>9, <1>10, <1>11, <1>12 DEF r

\* What is on record of a latch: here, in the file, and in the saves armed.
Kept(k) == {Record(mem)[k], disk[k]} \cup {s.rec[k] : s \in saves}
Since(r) == r.storedAt - r.stored

\* A record kept: the rate in it was not spoilt; its counter began before now, but for
\* the router's own at the instant it boots; and the counter has begun again since, or
\* the instant in the entry is its beginning.
Trusted(r, k) ==
    /\ "untold" \notin excused[k] => Exact(r)
    /\ r.stored # None =>
          /\ r.storedAt <= now
          /\ \/ Since(r) < now
             \/ /\ Since(r) = now /\ router.boot = now
                /\ k = "system" /\ entry.source = "system"
    /\ excused[k] = {} /\ r.stored # None /\ entry.boot[k] # None =>
          \/ Began(k, entry.source) = None
          \/ Began(k, entry.source) = entry.boot[k]
          \/ Began(k, entry.source) > Since(r)

\* A latch: its instant is the one in the entry; it holds no counter without an instant;
\* a session's counter was never read at 0; and once the present run of the counter was
\* read its instant is right.
LatchRight(k) ==
    /\ mem[k].boot \in {None, entry.boot[k]}
    /\ ~mem[k].ready => mem[k].last = None /\ (mem[k].boot = None => mem[k].stored = None)
    /\ mem[k].last # None => mem[k].last > 0 \/ (k = "system" /\ entry.source = "system")
    /\ excused[k] = {} /\ mem[k].ready
       /\ mem[k].lastAt - mem[k].last = Began(k, entry.source)
          => mem[k].boot = Began(k, entry.source)

RightIInv ==
    /\ router.sess = None \/ router.sess >= router.boot
    /\ \A k \in Latches : LatchRight(k) /\ \A r \in Kept(k) : Trusted(r, k)

RecordType == [stored : Instants, storedAt : Instants, wall : Nat, counter : Nat]

LEMMA KeptTyped ==
  ASSUME UptimeIInv, NEW k \in Latches
  PROVE  Kept(k) \subseteq RecordType
  <1>1. mem \in [Latches -> LatchTyped] /\ disk \in Recorded /\ saves \subseteq Saved
    BY DEF UptimeIInv, UptimeTyped
  <1>2. Record(mem) \in Recorded
    BY <1>1, RecordFacts
  <1>3. \A s \in saves : s.rec \in Recorded
    BY <1>1 DEF Saved
  <1> QED
    BY <1>1, <1>2, <1>3 DEF Kept, Recorded, RecordType

\* What a step keeps on record it had there, or is of the latches.
LEMMA KeptStep ==
  ASSUME UptimeIInv, [UptimeNext]_uptimeVars, NEW k \in Latches
  PROVE  Kept(k)' \subseteq Kept(k) \cup {Record(mem')[k]}
  <1>1. \A s \in saves : Written(s)[k] \in Kept(k)
    BY DEF Written, Kept
  <1>2. ASSUME NEW blank \in BOOLEAN, _apply_uptime_readings(blank)
        PROVE  Kept(k)' \subseteq Kept(k) \cup {Record(mem')[k]}
    <2>1. mem' \in [Latches -> LatchTyped]
      BY <1>2, PollInv DEF UptimeIInv, UptimeTyped
    <2>2. /\ UptimeTyped /\ InOrder /\ ArmedNow /\ disk' = disk
          /\ \/ saves' = saves
             \/ \E alive \in BOOLEAN : saves' = Armed(alive, mem')
      BY <1>2, PollEffect DEF UptimeIInv
    <2>3. \A s \in saves' : s \in saves \/ s.rec = Record(mem')
      BY <2>1, <2>2, ArmedFacts
    <2> QED
      BY <2>2, <2>3 DEF Kept
  <1>3. ASSUME NEW gap \in Gaps, Tick(gap)
        PROVE  Kept(k)' \subseteq Kept(k) \cup {Record(mem')[k]}
    <2> DEFINE ran == {s \in saves : s.due <= now + gap}
               final == CHOOSE s \in ran : \A r \in ran : r.age >= s.age
    <2>1. /\ mem' = mem /\ saves' \subseteq saves
          /\ disk' = IF ran = {} THEN disk ELSE Written(final)
      BY <1>3 DEF Tick
    <2>2. ASSUME ran # {} PROVE final \in saves
      <3>1. ran \in SUBSET Saved /\ ran \subseteq saves
        BY DEF UptimeIInv, UptimeTyped
      <3>2. \E s \in ran : \A r \in ran : r.age >= s.age
        BY <2>2, <3>1, LeastAge
      <3>3. final \in ran
        BY <3>2, Zenon
      <3> QED
        BY <3>1, <3>3
    <2> HIDE DEF ran, final
    <2>3. disk'[k] \in Kept(k)
      BY <1>1, <2>1, <2>2 DEF Kept
    <2> QED
      BY <2>1, <2>3 DEF Kept
  <1>4. ASSUME NEW orderly \in BOOLEAN, Stop(orderly)
        PROVE  Kept(k)' \subseteq Kept(k) \cup {Record(mem')[k]}
    <2>1. mem' = mem /\ saves' = {}
      BY <1>4 DEF Stop
    <2>2. disk'[k] \in Kept(k)
      <3>1. CASE orderly /\ Mine # {}
        <4>1. PICK s : s \in Mine /\ s = (CHOOSE z \in Mine : TRUE)
          BY <3>1, Zenon
        <4>2. s \in saves /\ disk' = Written(s)
          BY <1>4, <3>1, <4>1 DEF Stop, Mine
        <4> QED
          BY <1>1, <4>2
      <3>2. CASE ~(orderly /\ Mine # {})
        BY <1>4, <3>2 DEF Stop, Kept
      <3> QED
        BY <3>1, <3>2
    <2> QED
      BY <2>1, <2>2 DEF Kept
  <1>5. CASE Reload
    <2>1. /\ disk' = disk
          /\ saves' = {[s EXCEPT !.age = @ + 1, !.live = FALSE, !.rec = Written(s)] : s \in saves}
      BY <1>5 DEF Reload
    <2>2. \A s \in saves : [s EXCEPT !.age = @ + 1, !.live = FALSE, !.rec = Written(s)].rec
                              = Written(s)
      BY DEF UptimeIInv, UptimeTyped, Saved
    <2>3. \A s \in saves' : s.rec[k] \in Kept(k)
      BY <1>1, <2>1, <2>2
    <2> QED
      BY <2>1, <2>3 DEF Kept
  <1>6. CASE StartUp
    BY <1>6 DEF StartUp, Kept
  <1>7. CASE ClockSet \/ Reboot \/ DataOff \/ DataOn \/ UNCHANGED uptimeVars
    BY <1>7 DEF ClockSet, Reboot, DataOff, DataOn, uptimeVars, Kept
  <1> QED
    BY <1>2, <1>3, <1>4, <1>5, <1>6, <1>7 DEF UptimeNext

\* Time, and the router's own doings, leave what is on record as good as it was.
Outside ==
    /\ UNCHANGED <<entry, excused>>
    /\ \/ router' = router /\ now' \in Nat /\ now' >= now
       \/ now' = now /\ (Reboot \/ DataOff \/ DataOn)

LEMMA OutsideBegan ==
  ASSUME UptimeIInv, Outside, NEW k \in Latches
  PROVE  /\ now \in Nat /\ now' \in Nat /\ now' >= now /\ None = -1
         /\ Began(k, entry.source) \in Int /\ Began(k, entry.source)' \in Int
         /\ \/ router' = router /\ Began(k, entry.source)' = Began(k, entry.source)
            \/ /\ now' = now /\ router'.boot = router.boot
               /\ Began(k, entry.source)' \in {None, Began(k, entry.source)}
            \/ /\ now' = now /\ router.boot < now /\ Began(k, entry.source)' = now
            \/ /\ now' = now /\ router'.boot = router.boot
               /\ ~(k = "system" /\ entry.source = "system")
               /\ Began(k, entry.source)' = now
  <1>1. /\ now \in Nat /\ None = -1 /\ router \in [boot : Int, sess : Int, total : BOOLEAN]
        /\ entry' = entry
    BY DEF UptimeIInv, UptimeTyped, None, Outside
  <1>2. Began(k, entry.source) \in Int
    BY <1>1 DEF Began
  <1>3. CASE router' = router /\ now' \in Nat /\ now' >= now
    BY <1>1, <1>2, <1>3 DEF Began
  <1>4. CASE now' = now /\ Reboot
    <2>1. router.boot < now /\ router'.boot = now /\ router'.sess = now
      BY <1>1, <1>4 DEF Reboot
    <2>2. Began(k, entry.source)' = now
      BY <1>1, <2>1 DEF Began
    <2> QED
      BY <1>1, <1>2, <1>4, <2>1, <2>2
  <1>5. CASE now' = now /\ DataOff
    <2>1. router'.boot = router.boot /\ router'.sess = None
      BY <1>1, <1>5 DEF DataOff
    <2>2. Began(k, entry.source)' \in {None, Began(k, entry.source)}
      BY <1>1, <2>1 DEF Began
    <2> QED
      BY <1>1, <1>2, <1>5, <2>1, <2>2
  <1>6. CASE now' = now /\ DataOn
    <2>1. router'.boot = router.boot /\ router'.sess = now
      BY <1>1, <1>6 DEF DataOn
    <2>2. IF k = "system" /\ entry.source = "system"
          THEN Began(k, entry.source)' = Began(k, entry.source)
          ELSE Began(k, entry.source)' = now
      BY <1>1, <2>1 DEF Began
    <2> QED
      BY <1>1, <1>2, <1>6, <2>1, <2>2
  <1> QED
    BY <1>3, <1>4, <1>5, <1>6 DEF Outside

LEMMA OutsideTrusted ==
  ASSUME UptimeIInv, Outside, NEW k \in Latches, NEW r \in RecordType, Trusted(r, k)
  PROVE  Trusted(r, k)'
  <1> DEFINE began == Began(k, entry.source)
  <1>1. r.storedAt \in Int /\ Since(r) \in Int /\ entry' = entry /\ excused' = excused
    BY DEF RecordType, Instants, Since, Outside
  <1>2. /\ now \in Nat /\ now' \in Nat /\ now' >= now /\ None = -1
        /\ began \in Int /\ began' \in Int
        /\ \/ router' = router /\ began' = began
           \/ /\ now' = now /\ router'.boot = router.boot /\ began' \in {None, began}
           \/ /\ now' = now /\ router.boot < now /\ began' = now
           \/ /\ now' = now /\ router'.boot = router.boot
              /\ ~(k = "system" /\ entry.source = "system") /\ began' = now
    BY OutsideBegan
  <1>3. /\ "untold" \notin excused[k] => Exact(r)
        /\ r.stored # None =>
              /\ r.storedAt <= now
              /\ \/ Since(r) < now
                 \/ /\ Since(r) = now /\ router.boot = now
                    /\ k = "system" /\ entry.source = "system"
        /\ excused[k] = {} /\ r.stored # None /\ entry.boot[k] # None =>
              began = None \/ began = entry.boot[k] \/ began > Since(r)
    BY DEF Trusted
  <1> HIDE DEF began
  <1>4. /\ r.stored # None =>
              /\ r.storedAt <= now'
              /\ \/ Since(r) < now'
                 \/ /\ Since(r) = now' /\ router'.boot = now'
                    /\ k = "system" /\ entry.source = "system"
    BY <1>1, <1>2, <1>3
  <1>5. excused[k] = {} /\ r.stored # None /\ entry.boot[k] # None =>
            began' = None \/ began' = entry.boot[k] \/ began' > Since(r)
    BY <1>1, <1>2, <1>3
  <1> QED
    BY <1>1, <1>3, <1>4, <1>5 DEF Trusted, began

LEMMA OutsideLatch ==
  ASSUME UptimeIInv, Outside, mem' = mem, NEW k \in Latches, LatchRight(k)
  PROVE  LatchRight(k)'
  <1> DEFINE began == Began(k, entry.source)
             l == mem[k]
  <1>1. entry' = entry /\ excused' = excused
    BY DEF Outside
  <1>2. /\ now \in Nat /\ now' \in Nat /\ now' >= now /\ None = -1
        /\ began \in Int /\ began' \in Int
        /\ \/ router' = router /\ began' = began
           \/ /\ now' = now /\ router'.boot = router.boot /\ began' \in {None, began}
           \/ /\ now' = now /\ router.boot < now /\ began' = now
           \/ /\ now' = now /\ router'.boot = router.boot
              /\ ~(k = "system" /\ entry.source = "system") /\ began' = now
    BY OutsideBegan
  <1>3. ASSUME excused[k] = {}, l.ready, l.lastAt - l.last = began' PROVE l.boot = began'
    <2>1. /\ l.last \in Int /\ l.lastAt \in Int /\ l.last # None
      BY <1>3 DEF UptimeIInv, UptimeTyped, LatchTyped, Instants, AllCurrent, Current
    <2>2. /\ 0 <= l.last /\ l.last <= l.lastAt /\ l.lastAt <= now
          /\ began = None \/ began = l.lastAt - l.last \/ began >= l.lastAt
      BY <2>1 DEF UptimeIInv, LastTrue
    <2>3. l.last > 0 \/ (k = "system" /\ entry.source = "system")
      BY <2>1 DEF LatchRight
    <2>4. k = "system" /\ entry.source = "system" => began = router.boot /\ began # None
      BY <1>2 DEF Began, UptimeIInv, UptimeTyped
    <2>5. l.lastAt - l.last = began => l.boot = began
      BY <1>3 DEF LatchRight
    <2> HIDE DEF began, l
    <2> QED
      BY <1>2, <1>3, <2>1, <2>2, <2>3, <2>4, <2>5
  <1> QED
    BY <1>1, <1>3 DEF LatchRight

\* A run begins with what is in the file.
LEMMA BeginRight ==
  ASSUME UptimeIInv, UptimeIInv', RightIInv, Begin,
         UNCHANGED <<now, router, entry, disk, excused>>, NEW k \in Latches,
         NEW r, r = Record(mem')[k]
  PROVE  LatchRight(k)' /\ Trusted(r, k)'
  <1> DEFINE l == mem'[k]
  <1>1. /\ ~l.ready /\ l.last = None /\ l.boot = entry.boot[k]
        /\ l.wall = disk[k].wall /\ l.counter = disk[k].counter
        /\ IF entry.boot[k] = None THEN l.stored = None
           ELSE l.stored = disk[k].stored /\ l.storedAt = disk[k].storedAt
    BY BeginFacts
  <1>2. LatchRight(k)'
    BY <1>1 DEF LatchRight
  <1>3. mem' \in [Latches -> LatchTyped]
    BY BeginFacts
  <1>4. /\ r.stored = l.stored /\ r.storedAt = l.storedAt /\ r.wall = l.wall
        /\ r.counter = l.counter
    BY <1>3, RecordFacts
  <1>5. Trusted(disk[k], k)
    BY DEF RightIInv, Kept
  <1> HIDE DEF l
  <1>7. /\ Exact(disk[k]) => Exact(r)
        /\ r.stored # None => r.stored = disk[k].stored /\ Since(r) = Since(disk[k])
                              /\ r.storedAt = disk[k].storedAt
    BY <1>1, <1>4 DEF Exact, Since
  <1>8. Trusted(r, k)'
    BY <1>5, <1>7 DEF Trusted, Began
  <1> QED
    BY <1>2, <1>8

\* What a reading that counts leaves of a latch.
LEMMA PolledRight ==
  ASSUME UptimeIInv, RightIInv, NEW blank \in BOOLEAN, _apply_uptime_readings(blank),
         NEW k \in Latches, Counted(blank, k)
  PROVE  /\ "untold" \notin excused'[k] => Exact(mem'[k])
         /\ excused'[k] = {} => mem'[k].boot = now - Reads(blank, k)
  <1> SUFFICES ASSUME "untold" \notin excused'[k]
               PROVE  /\ Exact(mem'[k])
                      /\ excused'[k] = {} => mem'[k].boot = now - Reads(blank, k)
    BY ExcusedFacts
  <1>1. PICK l : l = Before(blank)[k]
    OBVIOUS
  <1>2. PICK s : s = Reads(blank, k)
    OBVIOUS
  <1>3. mem'[k] = Applied(l, s, now)
    BY <1>1, <1>2, PollEffect
  <1>4. /\ l = IF Restarted(blank, k) THEN Fresh ELSE mem[k]
        /\ l \in LatchTyped /\ Plausible(l) /\ Current(l)
        /\ l.last # None => /\ 0 <= l.last /\ l.last <= l.lastAt /\ l.lastAt <= now
                            /\ now - s = l.lastAt - l.last \/ now - s >= l.lastAt
    BY <1>1, <1>2, BeforeFacts DEF Counted
  <1>5. "untold" \notin excused[k] /\ ~Untold(l, s, now)
    BY <1>1, <1>2, ExcusedFacts
  <1>6. s \in Nat /\ s <= now /\ now \in Nat /\ Began(k, entry'.source) = now - s
    BY <1>2, PolledCounter DEF UptimeIInv, UptimeTyped
  <1>7. LatchRight(k) /\ \A r \in Kept(k) : Trusted(r, k)
    BY DEF RightIInv
  <1>8. PICK rec : rec = Record(mem)[k]
    OBVIOUS
  <1>9. /\ Trusted(rec, k)
        /\ rec.stored = mem[k].stored /\ rec.storedAt = mem[k].storedAt
        /\ rec.wall = mem[k].wall /\ rec.counter = mem[k].counter
    BY <1>7, <1>8, RecordFacts DEF Kept, UptimeIInv, UptimeTyped
  <1>10. Exact(l)
    BY <1>4, <1>5, <1>9 DEF Trusted, Exact, Fresh
  <1>11. l.last # None => l.ready
    BY <1>4, <1>7, FreshFacts DEF LatchRight
  <1>12. l.wroteAt # None => l.ready /\ l.storedAt = l.wroteAt
    BY <1>4 DEF Current
  <1>13. /\ Exact(mem'[k])
         /\ l.ready /\ l.last # None /\ (now - s = l.lastAt - l.last => l.boot = now - s) =>
               mem'[k].boot = now - s
         /\ ~l.ready /\ l.boot <= now - s
            /\ (l.stored # None => /\ l.boot # None /\ l.storedAt <= now
                                   /\ now - s <= l.storedAt - l.stored => l.boot = now - s) =>
               mem'[k].boot = now - s
    BY <1>3, <1>4, <1>5, <1>6, <1>10, <1>11, <1>12, AppliedRight
  <1>14. ASSUME excused'[k] = {} PROVE mem'[k].boot = now - s
    <2>1. CASE Restarted(blank, k)
      <3>1. l = Fresh
        BY <1>4, <2>1
      <3>2. ~l.ready /\ l.boot = -1 /\ l.stored = None
        BY <3>1 DEF Fresh, None
      <3> QED
        BY <1>6, <1>13, <3>2
    <2>2. CASE ~Restarted(blank, k)
      <3>1. /\ l = mem[k] /\ excused[k] = {}
            /\ Began(k, entry.source) = now - s
        BY <1>4, <1>6, <1>14, <2>2, ExcusedFacts, PolledCounter
      <3>2. now - s # None /\ now - s \in Int
        BY <1>6 DEF None
      <3>3. CASE l.ready
        <4>1. l.last # None
          BY <1>4, <3>3 DEF Current
        <4>2. now - s = l.lastAt - l.last => l.boot = now - s
          BY <1>7, <3>1, <3>3 DEF LatchRight
        <4> QED
          BY <1>13, <3>3, <4>1, <4>2
      <3>4. CASE ~l.ready
        <4>1. l.boot <= now - s
          BY <3>1, <3>2 DEF UptimeIInv, NotLate, NotAfter
        <4>2. ASSUME l.stored # None
              PROVE  /\ l.boot # None /\ l.storedAt <= now
                     /\ now - s <= l.storedAt - l.stored => l.boot = now - s
          <5>1. l.boot # None /\ l.boot = entry.boot[k]
            BY <1>7, <3>1, <3>4, <4>2 DEF LatchRight
          <5>2. /\ l.storedAt <= now
                /\ \/ now - s = entry.boot[k]
                   \/ now - s > l.storedAt - l.stored
            BY <1>9, <3>1, <3>2, <4>2, <5>1 DEF Trusted, Since
          <5>3. l.storedAt \in Int /\ l.stored \in Int
            BY <1>4 DEF LatchTyped, Instants
          <5> QED
            BY <3>2, <5>1, <5>2, <5>3
        <4> QED
          BY <1>13, <3>4, <4>1, <4>2
      <3> QED
        BY <3>3, <3>4
    <2> QED
      BY <2>1, <2>2
  <1> QED
    BY <1>2, <1>13, <1>14

\* What the system's latch reads is the router's own counter as long as the entry says so.
LEMMA SourceAtBoot ==
  ASSUME UptimeIInv, RightIInv, NEW blank \in BOOLEAN, _apply_uptime_readings(blank),
         entry.source = "system", router.boot = now
  PROVE  entry'.source = "system"
  <1>1. entry'.source = IF Chosen(blank).key = "none" THEN entry.source ELSE Chosen(blank).key
    BY PollEffect
  <1>2. /\ now \in Nat /\ None = -1 /\ router.sess \in Int /\ router.sess <= now
        /\ router.sess = None \/ router.sess >= router.boot
        /\ source # "none" => source = "system"
    BY DEF RightIInv, UptimeIInv, UptimeTyped, OneSource, None
  <1>3. Session = 0
    BY <1>2 DEF Session
  <1>4. Chosen(blank).key \in {"none", "system"}
    BY <1>2, <1>3 DEF Chosen
  <1> QED
    BY <1>1, <1>4

\* After a poll the instant in the entry is the latch's, if it has one; a reading that
\* counted and that nothing excuses made it right.
LEMMA PolledEntry ==
  ASSUME UptimeIInv, RightIInv, NEW blank \in BOOLEAN, _apply_uptime_readings(blank),
         NEW k \in Latches
  PROVE  /\ entry'.boot[k] = IF mem'[k].boot = None THEN entry.boot[k] ELSE mem'[k].boot
         /\ excused'[k] = {} /\ Counted(blank, k) =>
               /\ mem'[k].boot = Began(k, entry'.source)
               /\ entry'.boot[k] = Began(k, entry'.source)
         /\ excused'[k] = {} /\ ~Counted(blank, k) =>
               /\ ~Restarted(blank, k) /\ excused[k] = {} /\ mem'[k] = mem[k]
               /\ entry'.boot[k] = entry.boot[k]
               /\ Began(k, entry'.source) = Began(k, entry.source)
  <1>1. entry'.boot[k] = IF mem'[k].boot = None THEN entry.boot[k] ELSE mem'[k].boot
    BY PollEffect
  <1>2. ASSUME excused'[k] = {}, Counted(blank, k)
        PROVE  /\ mem'[k].boot = Began(k, entry'.source)
               /\ entry'.boot[k] = Began(k, entry'.source)
    <2>1. /\ Reads(blank, k) \in Nat /\ Reads(blank, k) <= now /\ now \in Nat
          /\ Began(k, entry'.source) = now - Reads(blank, k)
      BY <1>2, PolledCounter DEF UptimeIInv, UptimeTyped
    <2>2. mem'[k].boot = now - Reads(blank, k) /\ now - Reads(blank, k) # None
      BY <1>2, <2>1, PolledRight DEF None
    <2> QED
      BY <1>1, <2>1, <2>2
  <1>3. ASSUME excused'[k] = {}, ~Counted(blank, k)
        PROVE  /\ ~Restarted(blank, k) /\ excused[k] = {} /\ mem'[k] = mem[k]
               /\ entry'.boot[k] = entry.boot[k]
               /\ Began(k, entry'.source) = Began(k, entry.source)
    <2>1. ~Restarted(blank, k)
      <3> SUFFICES ASSUME Restarted(blank, k) PROVE FALSE
        OBVIOUS
      <3>1. host.set
        BY <1>3, ExcusedFacts
      <3>2. Reads(blank, k) # None
        BY AfreshReads DEF Restarted
      <3> QED
        BY <1>3, <3>1, <3>2 DEF Counted
    <2>2. excused[k] = {}
      BY <1>3, <2>1, ExcusedFacts
    <2>3. mem'[k] = mem[k]
      BY <1>3, <2>1, BeforeFacts, PolledLatch
    <2>4. mem[k].boot \in {None, entry.boot[k]}
      BY DEF RightIInv, LatchRight
    <2> QED
      BY <1>1, <2>1, <2>2, <2>3, <2>4, PolledCounter
  <1> QED
    BY <1>1, <1>2, <1>3

LEMMA PollTrusted ==
  ASSUME UptimeIInv, RightIInv, NEW blank \in BOOLEAN, _apply_uptime_readings(blank),
         NEW k \in Latches, NEW r \in Kept(k)
  PROVE  Trusted(r, k)'
  <1>1. Trusted(r, k) /\ now' = now /\ router' = router
    BY PollEffect DEF RightIInv
  <1>2. "untold" \notin excused'[k] => Exact(r)
    BY <1>1, ExcusedFacts DEF Trusted
  <1>3. ASSUME r.stored # None
        PROVE  /\ r.storedAt <= now
               /\ \/ Since(r) < now
                  \/ /\ Since(r) = now /\ router.boot = now
                     /\ k = "system" /\ entry'.source = "system"
    BY <1>1, <1>3, SourceAtBoot DEF Trusted
  <1>4. ASSUME excused'[k] = {}, r.stored # None, entry'.boot[k] # None
        PROVE  \/ Began(k, entry'.source) = None
               \/ Began(k, entry'.source) = entry'.boot[k]
               \/ Began(k, entry'.source) > Since(r)
    BY <1>1, <1>4, PolledEntry DEF Trusted
  <1>5. Began(k, entry.source)' = Began(k, entry'.source)
    BY PolledCounter
  <1> QED
    BY <1>1, <1>2, <1>3, <1>4, <1>5 DEF Trusted

LEMMA PollTrustedNew ==
  ASSUME UptimeIInv, RightIInv, NEW blank \in BOOLEAN, _apply_uptime_readings(blank),
         NEW k \in Latches, NEW r, r = Record(mem')[k]
  PROVE  Trusted(r, k)'
  <1> DEFINE l == mem'[k]
  <1>1. /\ r.stored = l.stored /\ r.storedAt = l.storedAt /\ r.wall = l.wall
        /\ r.counter = l.counter /\ l \in LatchTyped
    BY PollInv, RecordFacts DEF UptimeIInv, UptimeTyped
  <1>2. PICK old : old = Record(mem)[k]
    OBVIOUS
  <1>3. /\ old.stored = mem[k].stored /\ old.storedAt = mem[k].storedAt
        /\ old.wall = mem[k].wall /\ old.counter = mem[k].counter /\ Trusted(old, k)'
    BY <1>2, RecordFacts, PollTrusted DEF Kept, UptimeIInv, UptimeTyped
  <1>4. now' = now /\ router' = router /\ Began(k, entry.source)' = Began(k, entry'.source)
    BY PollEffect, PolledCounter
  <1>5. CASE l.stored = mem[k].stored /\ l.storedAt = mem[k].storedAt
             /\ ("untold" \notin excused'[k] => Exact(l))
    BY <1>1, <1>3, <1>5 DEF Trusted, Exact, Since
  <1>6. CASE l.stored = None /\ ("untold" \notin excused'[k] => Exact(l))
    BY <1>1, <1>6 DEF Trusted, Exact
  <1>7. CASE Counted(blank, k)
    <2> DEFINE s == Reads(blank, k)
    <2>1. "untold" \notin excused'[k] => Exact(l)
      BY <1>7, PolledRight
    <2>2. PICK b : b = Before(blank)[k]
      OBVIOUS
    <2>3. b = Fresh \/ b = mem[k]
      BY <2>2, BeforeFacts
    <2>4. \/ l.stored = s /\ l.storedAt = now
          \/ l.stored = b.stored /\ l.storedAt = b.storedAt
      BY <1>7, <2>2, PolledLatch
    <2>5. CASE l.stored = s /\ l.storedAt = now
      <3>1. s \in Nat /\ s <= now /\ now \in Nat /\ Began(k, entry'.source) = now - s
        BY <1>7, PolledCounter DEF UptimeIInv, UptimeTyped
      <3>2. s > 0 \/ (k = "system" /\ entry'.source = "system")
        <4> SUFFICES ASSUME s = 0 PROVE k = "system" /\ entry'.source = "system"
          BY <3>1
        <4>1. k = "system" /\ Chosen(blank).key = "system"
          BY <1>7 DEF Counted, Reads, Reading, None
        <4> QED
          BY <4>1, PollEffect
      <3>3. Since(r) = now - s
        BY <1>1, <2>5 DEF Since
      <3>4. \/ Since(r) < now
            \/ /\ Since(r) = now /\ router.boot = now
               /\ k = "system" /\ entry'.source = "system"
        <4>1. CASE s > 0
          BY <3>1, <3>3, <4>1
        <4>2. CASE s = 0
          <5>1. k = "system" /\ entry'.source = "system"
            BY <3>2, <4>2
          <5>2. Began(k, entry'.source) = router.boot
            BY <5>1 DEF Began
          <5> QED
            BY <3>1, <3>3, <4>2, <5>1, <5>2
        <4> QED
          BY <3>1, <4>1, <4>2
      <3>5. excused'[k] = {} => Began(k, entry'.source) = entry'.boot[k]
        BY <1>7, PolledEntry
      <3> QED
        BY <1>1, <1>4, <2>1, <2>5, <3>1, <3>4, <3>5 DEF Trusted, Exact
    <2>6. CASE l.stored = b.stored /\ l.storedAt = b.storedAt
      <3>1. b = Fresh => l.stored = None
        BY <2>6 DEF Fresh
      <3> QED
        BY <1>5, <1>6, <2>1, <2>3, <2>6, <3>1
    <2> QED
      BY <2>4, <2>5, <2>6
  <1>8. CASE ~Counted(blank, k)
    <2>1. l = Fresh \/ l = mem[k]
      BY <1>8, BeforeFacts, PolledLatch
    <2>2. CASE l = Fresh
      BY <1>6, <2>2 DEF Fresh, Exact
    <2>3. CASE l = mem[k]
      BY <1>3, <1>5, <2>3 DEF Trusted, Exact
    <2> QED
      BY <2>1, <2>2, <2>3
  <1> QED
    BY <1>7, <1>8

LEMMA PollLatch ==
  ASSUME UptimeIInv, RightIInv, NEW blank \in BOOLEAN, _apply_uptime_readings(blank),
         NEW k \in Latches
  PROVE  LatchRight(k)'
  <1> DEFINE l == mem'[k]
  <1>1. LatchRight(k) /\ Began(k, entry.source)' = Began(k, entry'.source)
    BY PolledCounter DEF RightIInv
  <1>2. l.boot \in {None, entry'.boot[k]}
    BY PolledEntry
  <1>3. CASE Counted(blank, k)
    <2>1. l.ready /\ l.last = Reads(blank, k)
      BY <1>3, PolledLatch
    <2>2. l.last # None => l.last > 0 \/ (k = "system" /\ entry'.source = "system")
      <3>1. Reads(blank, k) \in Nat
        BY <1>3, PolledCounter
      <3> SUFFICES ASSUME Reads(blank, k) = 0 PROVE k = "system" /\ entry'.source = "system"
        BY <2>1, <3>1
      <3>2. k = "system" /\ Chosen(blank).key = "system"
        BY <1>3 DEF Counted, Reads, Reading, None
      <3> QED
        BY <3>2, PollEffect
    <2>3. excused'[k] = {} => l.boot = Began(k, entry'.source)
      BY <1>3, PolledEntry
    <2> QED
      BY <1>1, <1>2, <2>1, <2>2, <2>3 DEF LatchRight
  <1>4. CASE ~Counted(blank, k)
    <2>1. l = IF Restarted(blank, k) THEN Fresh ELSE mem[k]
      BY <1>4, BeforeFacts, PolledLatch
    <2>2. CASE Restarted(blank, k)
      <3>1. l = Fresh
        BY <2>1, <2>2
      <3>2. ~l.ready /\ l.last = None /\ l.stored = None
        BY <3>1 DEF Fresh
      <3> QED
        BY <1>2, <3>2 DEF LatchRight
    <2>3. CASE ~Restarted(blank, k)
      <3>1. l = mem[k]
        BY <2>1, <2>3
      <3>2. mem[k].last # None /\ k = "system" => entry'.source = entry.source
        BY <2>3, PollEffect, ChosenFacts DEF UptimeIInv, OneSource, Restarted
      <3>3. l.last # None => l.last > 0 \/ (k = "system" /\ entry'.source = "system")
        BY <1>1, <3>1, <3>2 DEF LatchRight
      <3>4. ASSUME excused'[k] = {}, l.ready, l.lastAt - l.last = Began(k, entry'.source)
            PROVE  l.boot = Began(k, entry'.source)
        BY <1>1, <1>4, <3>1, <3>4, PolledEntry DEF LatchRight
      <3> QED
        BY <1>1, <1>2, <3>1, <3>3, <3>4 DEF LatchRight
    <2> QED
      BY <2>2, <2>3
  <1> QED
    BY <1>3, <1>4

LEMMA RightInitInv == UptimeInit => RightIInv
  <1> SUFFICES ASSUME UptimeInit PROVE RightIInv
    OBVIOUS
  <1>1. UptimeIInv
    BY UptimeInitInv
  <1>2. /\ mem = [k \in Latches |-> Fresh] /\ saves = {} /\ disk = Record(mem)
        /\ \A k \in Latches : entry.boot[k] = None
    BY DEF UptimeInit
  <1>3. router.sess >= router.boot
    <2>1. PICK b \in Boots :
             router \in [boot : {b}, sess : {s \in Boots : s >= b}, total : BOOLEAN]
      BY DEF UptimeInit
    <2>2. router.boot = b /\ router.sess \in {s \in Boots : s >= b}
      BY <2>1
    <2> QED
      BY <2>2
  <1>4. ASSUME NEW k \in Latches PROVE LatchRight(k) /\ \A r \in Kept(k) : Trusted(r, k)
    <2>1. mem \in [Latches -> LatchTyped] /\ mem[k] = Fresh
      BY <1>1, <1>2 DEF UptimeIInv, UptimeTyped
    <2>2. LatchRight(k)
      BY <1>2, <2>1 DEF LatchRight, Fresh
    <2>3. PICK r : r = Record(mem)[k]
      OBVIOUS
    <2>4. r.stored = None /\ r.wall = 0 /\ r.counter = 0
      BY <2>1, <2>3, RecordFacts DEF Fresh
    <2>5. Kept(k) = {r}
      BY <1>2, <2>3 DEF Kept
    <2> QED
      BY <2>2, <2>4, <2>5 DEF Trusted, Exact
  <1> QED
    BY <1>3, <1>4 DEF RightIInv

\* A step that leaves the latches alone, and of the rest what is outside the integration.
LEMMA OutsideRight ==
  ASSUME UptimeIInv, RightIInv, [UptimeNext]_uptimeVars, Outside, mem' = mem,
         NEW k \in Latches
  PROVE  LatchRight(k)' /\ \A r \in Kept(k)' : Trusted(r, k)'
  <1>1. LatchRight(k) /\ \A r \in Kept(k) : Trusted(r, k)
    BY DEF RightIInv
  <1>2. Record(mem')[k] \in Kept(k)
    BY DEF Kept
  <1>3. Kept(k)' \subseteq Kept(k)
    BY <1>2, KeptStep
  <1>4. \A r \in Kept(k) : Trusted(r, k)'
    BY <1>1, KeptTyped, OutsideTrusted
  <1> QED
    BY <1>1, <1>3, <1>4, OutsideLatch

LEMMA RightNextInv ==
  ASSUME UptimeIInv, RightIInv, [UptimeNext]_uptimeVars
  PROVE  RightIInv'
  <1>1. /\ now \in Nat /\ router.boot \in Int /\ router.sess \in Int /\ None = -1
        /\ router \in [boot : Int, sess : Int, total : BOOLEAN]
        /\ router.boot <= now /\ (router.sess = None \/ router.sess >= router.boot)
    BY DEF UptimeIInv, UptimeTyped, RightIInv, None
  <1>2. \A k \in Latches : Kept(k)' \subseteq Kept(k) \cup {Record(mem')[k]}
    BY KeptStep
  <1>3. \A k \in Latches : LatchRight(k) /\ \A r \in Kept(k) : Trusted(r, k)
    BY DEF RightIInv
  <1>4. ASSUME NEW blank \in BOOLEAN, _apply_uptime_readings(blank) PROVE RightIInv'
    <2>1. ASSUME NEW k \in Latches PROVE LatchRight(k)' /\ \A r \in Kept(k)' : Trusted(r, k)'
      BY <1>2, <1>4, <2>1, PollLatch, PollTrusted, PollTrustedNew
    <2>2. router' = router
      BY <1>4, PollEffect
    <2> QED
      BY <1>1, <2>1, <2>2 DEF RightIInv
  <1>5. ASSUME Reload \/ StartUp PROVE RightIInv'
    <2>1. Begin /\ UNCHANGED <<now, router, entry, disk, excused>>
      BY <1>5 DEF Reload, StartUp
    <2>2. UptimeIInv'
      BY UptimeNextInv
    <2>3. ASSUME NEW k \in Latches PROVE LatchRight(k)' /\ \A r \in Kept(k)' : Trusted(r, k)'
      <3>1. \A r \in Kept(k) : Trusted(r, k)'
        BY <1>3, <2>1 DEF Trusted, Began
      <3>2. \A r : r = Record(mem')[k] => LatchRight(k)' /\ Trusted(r, k)'
        BY <2>1, <2>2, BeginRight
      <3> QED
        BY <1>2, <3>1, <3>2
    <2> QED
      BY <1>1, <2>1, <2>3 DEF RightIInv
  <1>6. ASSUME UNCHANGED <<router, entry, excused, mem>>, now' \in Nat, now' >= now
        PROVE  RightIInv'
    <2>1. Outside
      BY <1>6 DEF Outside
    <2> QED
      BY <1>1, <1>6, <2>1, OutsideRight DEF RightIInv
  <1>7. ASSUME Reboot \/ DataOff \/ DataOn PROVE RightIInv'
    <2>1. Outside /\ mem' = mem
      <3>1. UNCHANGED <<now, entry, excused, mem>>
        BY <1>7 DEF Reboot, DataOff, DataOn
      <3> QED
        BY <1>7, <3>1 DEF Outside
    <2>2. router'.sess = None \/ router'.sess >= router'.boot
      <3>1. CASE Reboot
        BY <1>1, <3>1 DEF Reboot
      <3>2. CASE DataOff
        BY <1>1, <3>2 DEF DataOff
      <3>3. CASE DataOn
        <4>1. router' = [router EXCEPT !.sess = now]
          BY <3>3 DEF DataOn
        <4>2. router'.sess = now /\ router'.boot = router.boot
          BY <1>1, <4>1
        <4> QED
          BY <1>1, <4>2
      <3> QED
        BY <1>7, <3>1, <3>2, <3>3
    <2> QED
      BY <2>1, <2>2, OutsideRight DEF RightIInv
  <1>8. ASSUME NEW gap \in Gaps, Tick(gap) PROVE RightIInv'
    <2>1. gap \in Nat
      BY UptimeBounds
    <2>2. now' = now + gap /\ UNCHANGED <<router, entry, excused, mem>>
      BY <1>8 DEF Tick
    <2> QED
      BY <1>1, <1>6, <2>1, <2>2
  <1>9. ASSUME (\E orderly \in BOOLEAN : Stop(orderly)) \/ ClockSet \/ UNCHANGED uptimeVars
        PROVE  RightIInv'
    <2>1. UNCHANGED <<now, router, entry, excused, mem>>
      BY <1>9 DEF Stop, ClockSet, uptimeVars
    <2> QED
      BY <1>1, <1>6, <2>1
  <1> QED
    BY <1>4, <1>5, <1>7, <1>8, <1>9 DEF UptimeNext

\* What the latches hold and what is on record of them is right (RightIInv), for every
\* value of the constants.
THEOREM RightInductive == UptimeSpec => []RightIInv
  <1>1. UptimeIInv /\ RightIInv /\ [UptimeNext]_uptimeVars => RightIInv'
    BY RightNextInv
  <1> QED
    BY <1>1, RightInitInv, UptimeInductive, PTL DEF UptimeSpec

LEMMA MineOne ==
  ASSUME UptimeIInv
  PROVE  Cardinality(Mine) <= 1
  <1>1. CASE Mine = {}
    BY <1>1, FS_EmptySet
  <1>2. CASE Mine # {}
    <2>1. PICK m \in Mine : TRUE
      BY <1>2
    <2>2. \A s \in Mine : s = m
      BY <2>1 DEF UptimeIInv, InOrder, Mine
    <2>3. Mine = {m}
      BY <2>1, <2>2
    <2> QED
      BY <2>3, FS_Singleton
  <1> QED
    BY <1>1, <1>2

\* An instant held is the counter's own beginning wherever a reading can show it, and
\* never later (InstantKept): for every number and order of restarts of the router and of
\* Home Assistant, of saves lost, of readings missed, and for every gap between polls.
THEOREM InstantKeptProved == UptimeSpec => []InstantKept
  <1>1. ASSUME UptimeIInv PROVE UptimeTypeOK
    <2>1. /\ host \in [rtc : BOOLEAN, set : BOOLEAN] /\ on \in BOOLEAN
          /\ source \in {"none", "system", "session"}
          /\ excused \in [Latches -> SUBSET {"untold", "deferred"}]
      BY <1>1 DEF UptimeIInv, UptimeTyped, Keyed
    <2>2. router \in [boot : 0..now, sess : None..now, total : BOOLEAN]
      <3>1. /\ router \in [boot : Int, sess : Int, total : BOOLEAN] /\ now \in Nat /\ None \in Int
            /\ 0 <= router.boot /\ router.boot <= now
            /\ None <= router.sess /\ router.sess <= now
        BY <1>1 DEF UptimeIInv, UptimeTyped, None
      <3>2. router.boot \in 0..now /\ router.sess \in None..now
        BY <3>1
      <3> QED
        BY <3>1, <3>2
    <2>3. \A k \in Latches :
             /\ mem[k].last # None => mem[k].last <= mem[k].lastAt /\ mem[k].lastAt <= now
             /\ mem[k].stored # None => mem[k].stored <= mem[k].storedAt
             /\ mem[k].counter <= mem[k].wall
      BY <1>1 DEF UptimeIInv, LastTrue, NoneAhead, Plausible
    <2> QED
      BY <1>1, <2>1, <2>2, <2>3, MineOne DEF UptimeTypeOK
  <1>2. ASSUME UptimeIInv, RightIInv PROVE InstantRight
    <2> SUFFICES ASSUME NEW k \in Latches, mem[k].ready, excused[k] = {},
                        mem[k].lastAt - mem[k].last = Began(k, source)
                 PROVE  mem[k].boot = Began(k, source)
      BY DEF InstantRight
    <2>1. k = "system" => entry.source = source
      BY <1>2 DEF UptimeIInv, AllCurrent, Current, OneSource
    <2>2. Began(k, source) = Began(k, entry.source)
      BY <2>1 DEF Began
    <2> QED
      BY <1>2, <2>2 DEF RightIInv, LatchRight
  <1>3. UptimeIInv => UptimeTypeOK
    BY <1>1
  <1>4. UptimeIInv /\ RightIInv => InstantRight
    BY <1>2
  <1>5. UptimeTypeOK /\ InstantRight /\ NeverLate => InstantKept
    BY DEF InstantKept
  <1> QED
    BY <1>3, <1>4, <1>5, UptimeInductive, RightInductive, NeverLateProved, PTL
=============================================================================
