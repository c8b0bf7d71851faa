------------------------ MODULE ExpectedOutage_proofs ------------------------
(***************************************************************************)
(* Proofs about ExpectedOutage, for every set of checks, number of windows *)
(* and choice of delays.                                                   *)
(***************************************************************************)
EXTENDS ExpectedOutage, TLAPS

USE DEF Reasons, Polls, Off, NoReason, NoWindow, Window, PollStates,
    EmptyRecord, IdleCheck

LEMMA InitInv == Init => IInv
  <1> SUFFICES ASSUME Init PROVE IInv
    OBVIOUS
  <1> USE OutageConstants DEF Init
  <1>1. TypeOK
    <2>1. /\ awaiting \in BOOLEAN /\ closing \in BOOLEAN /\ force \in BOOLEAN
          /\ paused \in BOOLEAN /\ shut \in BOOLEAN
      BY Zenon
    <2>2. QED
      BY <2>1 DEF TypeOK, Record, CheckTask
  <1>2. PollsOfChecks /\ ClosedOnEvidence
    BY DEF PollsOfChecks, ClosedOnEvidence
  <1>3. CleanCheckAlone /\ WindowWatched
    BY DEF CleanCheckAlone, WindowWatched, LastClean, Open
  <1>4. QED
    BY <1>1, <1>2, <1>3 DEF IInv

LEMMA OpenWindowInv ==
  ASSUME IInv, NEW r \in Reasons, OpenWindow(r),
         UNCHANGED <<check, closing, pollVars, shut>>,
         command' = [command EXCEPT ![r] = "idle"]
  PROVE  IInv'
  <1> USE OutageConstants DEF OpenWindow, IInv, CheckDelay, pollVars
  <1> DEFINE new == [clean |-> NoneRunning, down |-> r = "reboot", back |-> FALSE,
                     polled |-> FALSE, by |-> "open"]
  <1>a. /\ opened' = opened + 1 /\ opened + 1 \in 1..MaxWindows
        /\ record' = [record EXCEPT ![opened + 1] = new]
        /\ record' \in [1..MaxWindows -> Record]
    <2>1. NoneRunning \in BOOLEAN
      BY DEF NoneRunning
    <2>2. new \in Record
      BY <2>1 DEF Record
    <2>3. QED
      BY <2>2 DEF TypeOK
  <1>b. /\ record'[opened + 1] = new
        /\ \A i \in 1..opened : record'[i] = record[i]
    BY <1>a DEF TypeOK
  <1>c. /\ record'[opened'].clean => NoneRunning
        /\ r = "reboot" => record'[opened'].down
        /\ record'[opened'].by = "open"
    <2>1. record'[opened'] = new
      BY <1>a, <1>b
    <2>2. /\ new.clean = NoneRunning /\ new.by = "open"
          /\ new.down = (r = "reboot")
      OBVIOUS
    <2>3. QED
      BY <2>1, <2>2, Zenon
  <1> HIDE DEF new
  <1>1. TypeOK'
    <2>1. awaiting' \in BOOLEAN
      BY Zenon
    <2>2. QED
      BY <1>a, <2>1 DEF TypeOK
  <1>2. PollsOfChecks'
    BY DEF PollsOfChecks, InClosingPoll
  <1>3. CleanCheckAlone'
    BY <1>c DEF CleanCheckAlone, LastClean, Open, Running, NoneRunning
  <1>4. WindowWatched'
    BY DEF WindowWatched, TypeOK
  <1>5. ClosedOnEvidence'
    <2>1. SUFFICES ASSUME NEW i \in 1..opened', record'[i].clean,
                          record'[i].by \in {"answer", "no_outage"}
                   PROVE  /\ record'[i].polled
                          /\ record'[i].by = "answer" => record'[i].down /\ record'[i].back
      BY DEF ClosedOnEvidence
    <2>2. i # opened'
      BY <1>c, <2>1
    <2>3. i \in 1..opened /\ record'[i] = record[i]
      BY <1>a, <1>b, <2>2 DEF TypeOK
    <2>4. QED
      BY <2>1, <2>3 DEF ClosedOnEvidence
  <1>6. QED
    BY <1>1, <1>2, <1>3, <1>4, <1>5

\* Updating one record keeps it a record and its other fields.
LEMMA RecordUpdate ==
  ASSUME NEW rec \in Record,
         NEW by \in {"cap", "answer", "no_outage"}
  PROVE  /\ [rec EXCEPT !.by = by] \in Record
         /\ [rec EXCEPT !.by = by].clean = rec.clean
         /\ [rec EXCEPT !.by = by].down = rec.down
         /\ [rec EXCEPT !.by = by].back = rec.back
         /\ [rec EXCEPT !.by = by].polled = rec.polled
         /\ [rec EXCEPT !.by = by].by = by
  BY DEF Record

\* Marking one of its fields keeps the record and every mark it had.
Marks(new, rec) ==
    /\ new \in Record
    /\ new.clean = rec.clean /\ new.by = rec.by
    /\ rec.down => new.down
    /\ rec.back => new.back
    /\ rec.polled => new.polled

LEMMA MarkDown ==
  ASSUME NEW rec \in Record, NEW b \in BOOLEAN, NEW new,
         new = [rec EXCEPT !.down = @ \/ b]
  PROVE  Marks(new, rec) /\ (b => new.down)
  BY DEF Record, Marks

LEMMA MarkBack ==
  ASSUME NEW rec \in Record, NEW new, new = [rec EXCEPT !.back = TRUE]
  PROVE  Marks(new, rec) /\ new.back
  BY DEF Record, Marks

LEMMA MarkPolled ==
  ASSUME NEW rec \in Record, NEW new, new = [rec EXCEPT !.polled = TRUE]
  PROVE  Marks(new, rec) /\ new.polled
  BY DEF Record, Marks

LEMMA MarkNone ==
  ASSUME NEW rec \in Record
  PROVE  Marks(rec, rec)
  BY DEF Marks

LEMMA MarksUnchanged ==
  ASSUME TypeOK, record' = record
  PROVE  /\ record' \in [1..MaxWindows -> Record]
         /\ \A i \in 1..MaxWindows : Marks(record'[i], record[i])
  <1>1. record \in [1..MaxWindows -> Record]
    BY DEF TypeOK
  <1>2. QED
    BY <1>1, MarkNone

\* A step that leaves windows, checks, polls and the lock alone.
LEMMA QuietInv ==
  ASSUME IInv, UNCHANGED <<outageVars, check, closing, poll, lock>>,
         command' \in [Reasons -> {"idle", "sent", "probing"}],
         force' \in BOOLEAN, paused' \in BOOLEAN, strikes' = strikes, shut' = shut
  PROVE  IInv'
  BY DEF IInv, TypeOK, PollsOfChecks, CleanCheckAlone, WindowWatched,
         ClosedOnEvidence, LastClean, Open, Running, InClosingPoll, outageVars

\* Closing the window, by the cap or at the end of a closing poll.
LEMMA CloseFacts ==
  ASSUME TypeOK, NEW by \in {"cap", "answer", "no_outage"}, NEW u \in BOOLEAN,
         CloseWindow(by, u)
  PROVE  /\ window' = NoWindow /\ timer' = Off /\ awaiting' = FALSE
         /\ awaiting' \in BOOLEAN
         /\ followup' \in Nat \cup {Off} /\ opened' = opened /\ held' = held
         /\ record' \in [1..MaxWindows -> Record]
         /\ \A i \in 1..MaxWindows :
               /\ record'[i].clean = record[i].clean
               /\ record'[i].down = record[i].down
               /\ record'[i].back = record[i].back
               /\ record'[i].polled = record[i].polled
               /\ i # opened => record'[i].by = record[i].by
               /\ i = opened => record'[i].by = by
  <1> USE OutageConstants DEF CloseWindow
  <1>1. awaiting' \in BOOLEAN
    BY Zenon
  <1>2. followup' \in Nat \cup {Off}
    BY DEF TypeOK
  <1>. record \in [1..MaxWindows -> Record]
    BY DEF TypeOK
  <1>3. record' = [i \in 1..MaxWindows |->
                    IF i = opened THEN [record[i] EXCEPT !.by = by] ELSE record[i]]
    OBVIOUS
  <1>4. ASSUME NEW i \in 1..MaxWindows
        PROVE  [record[i] EXCEPT !.by = by] \in Record
    <2>1. record[i] \in Record
      OBVIOUS
    <2>2. QED
      BY <2>1, RecordUpdate
  <1>5. record' \in [1..MaxWindows -> Record]
    BY <1>3, <1>4
  <1>6. ASSUME NEW i \in 1..MaxWindows
        PROVE  /\ [record[i] EXCEPT !.by = by].clean = record[i].clean
               /\ [record[i] EXCEPT !.by = by].down = record[i].down
               /\ [record[i] EXCEPT !.by = by].back = record[i].back
               /\ [record[i] EXCEPT !.by = by].polled = record[i].polled
               /\ [record[i] EXCEPT !.by = by].by = by
    <2>1. record[i] \in Record
      OBVIOUS
    <2>2. QED
      BY <2>1, RecordUpdate
  <1>7. QED
    BY <1>1, <1>2, <1>3, <1>5, <1>6

LEMMA CloseInv ==
  ASSUME IInv, NEW by \in {"cap", "answer", "no_outage"}, NEW u \in BOOLEAN,
         CloseWindow(by, u),
         LastClean => \A d \in Checks : check'[d].pc = "idle",
         LastClean /\ by = "answer" => record[opened].down /\ record[opened].back,
         LastClean /\ by # "cap" => record[opened].polled
  PROVE  CleanCheckAlone' /\ WindowWatched' /\ ClosedOnEvidence'
  <1>1. TypeOK /\ ClosedOnEvidence /\ opened \in 0..MaxWindows
    BY DEF IInv, TypeOK
  <1>2. /\ window' = NoWindow /\ opened' = opened
        /\ \A i \in 1..MaxWindows :
               /\ record'[i].clean = record[i].clean
               /\ record'[i].down = record[i].down
               /\ record'[i].back = record[i].back
               /\ record'[i].polled = record[i].polled
               /\ i # opened => record'[i].by = record[i].by
               /\ i = opened => record'[i].by = by
    BY <1>1, CloseFacts
  <1>3. CleanCheckAlone' /\ WindowWatched'
    BY <1>1, <1>2, OutageConstants
       DEF CleanCheckAlone, WindowWatched, LastClean, Open, Running
  <1>4. ClosedOnEvidence'
    BY <1>1, <1>2, OutageConstants DEF ClosedOnEvidence, LastClean
  <1>5. QED
    BY <1>3, <1>4

\* The check c is over: its slot is idle and no other changed.
LEMMA CheckEndsFacts ==
  ASSUME TypeOK, NEW c \in Checks, CheckEnds(c)
  PROVE  /\ check' \in [Checks -> CheckTask]
         /\ check'[c].pc = "idle"
         /\ \A d \in Checks : d # c => check'[d] = check[d]
  BY OutageConstants DEF TypeOK, CheckEnds, CheckTask

\* The check c ends and arms the next one.
LEMMA RearmInv ==
  ASSUME IInv, NEW c \in Checks, Running(c), CheckEnds(c), timer' # Off,
         window' = window, opened' = opened,
         LastClean /\ ~awaiting' => ~awaiting \/ record'[opened].down,
         \A i \in 1..MaxWindows : Marks(record'[i], record[i])
  PROVE  CleanCheckAlone' /\ WindowWatched' /\ ClosedOnEvidence'
  <1>1. TypeOK /\ opened \in 0..MaxWindows
    BY DEF IInv, TypeOK
  <1>2. LastClean => \A d \in Checks : check'[d].pc = "idle"
    BY <1>1, CheckEndsFacts DEF IInv, CleanCheckAlone, Running
  <1>3. QED
    BY <1>1, <1>2, OutageConstants DEF IInv, CleanCheckAlone, WindowWatched,
       ClosedOnEvidence, LastClean, Open, Running, Marks

LEMMA CheckStartsInv ==
  ASSUME IInv, NEW c \in Checks, CheckStarts(c)
  PROVE  IInv'
  <1> USE OutageConstants DEF CheckStarts, pollVars
  <1>1. TypeOK /\ PollsOfChecks /\ timer = 0 /\ ~Running(c)
    BY DEF IInv
  <1>2. CASE ~Open /\ timer' = Off /\ UNCHANGED <<window, opened, record,
                    awaiting, held, followup, check>>
    BY <1>1, <1>2 DEF IInv, TypeOK, PollsOfChecks, CleanCheckAlone, WindowWatched,
         ClosedOnEvidence, LastClean, Open, Running, InClosingPoll
  <1>3. CASE CloseWindow("cap", FALSE) /\ UNCHANGED check
    <2>1. LastClean => \A d \in Checks : check'[d].pc = "idle"
      BY <1>1, <1>3 DEF IInv, CleanCheckAlone, Running
    <2>2. CleanCheckAlone' /\ WindowWatched' /\ ClosedOnEvidence'
      BY <2>1, <1>3, CloseInv
    <2>3. /\ window' = NoWindow /\ timer' = Off /\ awaiting' \in BOOLEAN
          /\ followup' \in Nat \cup {Off} /\ opened' = opened /\ held' = held
          /\ record' \in [1..MaxWindows -> Record]
      <3>1. FALSE \in BOOLEAN
        OBVIOUS
      <3>2. QED
        BY <3>1, <1>1, <1>3, CloseFacts
    <2>4. TypeOK' /\ PollsOfChecks'
      BY <1>1, <1>3, <2>3 DEF TypeOK, PollsOfChecks, InClosingPoll
    <2>5. QED
      BY <2>2, <2>4 DEF IInv
  <1>4. CASE /\ Active /\ timer' = Off
             /\ check' = [check EXCEPT ![c] =
                   [pc |-> "probing", rec |-> opened, fresh |-> FALSE]]
             /\ UNCHANGED <<window, opened, record, awaiting, held, followup>>
    <2>1. /\ check' \in [Checks -> CheckTask]
          /\ check'[c].pc = "probing" /\ check'[c].rec = opened
          /\ \A d \in Checks : d # c => check'[d] = check[d]
      BY <1>1, <1>4 DEF TypeOK, CheckTask
    <2>2. TypeOK' /\ PollsOfChecks'
      BY <1>1, <1>4, <2>1 DEF TypeOK, PollsOfChecks, InClosingPoll, Running
    <2>3. CleanCheckAlone' /\ WindowWatched' /\ ClosedOnEvidence'
      BY <1>1, <1>4, <2>1 DEF IInv, CleanCheckAlone, WindowWatched,
         ClosedOnEvidence, LastClean, Open, Active, Running, InClosingPoll
    <2>4. QED
      BY <2>2, <2>3 DEF IInv
  <1>5. QED
    BY <1>2, <1>3, <1>4

LEMMA ProbeUnansweredInv ==
  ASSUME IInv, NEW c \in Checks, ProbeUnanswered(c)
  PROVE  IInv'
  <1> USE OutageConstants DEF ProbeUnanswered, CheckDelay, pollVars
  <1>1. /\ TypeOK /\ PollsOfChecks /\ CleanCheckAlone /\ Running(c)
        /\ check[c].rec \in 0..MaxWindows
    BY DEF IInv, TypeOK, CheckTask, Running
  <1>2. /\ check' \in [Checks -> CheckTask]
        /\ check'[c].pc = "idle"
        /\ \A d \in Checks : d # c => check'[d] = check[d]
    BY <1>1, CheckEndsFacts
  <1>3. /\ record' = [i \in 1..MaxWindows |->
              IF i = check[c].rec THEN [record[i] EXCEPT !.down = @ \/ awaiting]
                                  ELSE record[i]]
        /\ record \in [1..MaxWindows -> Record]
        /\ awaiting \in BOOLEAN
    BY <1>1 DEF TypeOK
  <1>4. ASSUME NEW i \in 1..MaxWindows
        PROVE  /\ Marks(record'[i], record[i])
               /\ i = check[c].rec /\ awaiting => record'[i].down
    <2>1. record[i] \in Record
      BY <1>3
    <2>2. CASE i = check[c].rec
      <3>1. record'[i] = [record[i] EXCEPT !.down = @ \/ awaiting]
        BY <1>3, <2>2
      <3>2. QED
        BY <1>3, <2>1, <3>1, MarkDown
    <2>3. CASE i # check[c].rec
      <3>1. record'[i] = record[i]
        BY <1>3, <2>3
      <3>2. QED
        BY <2>1, <2>3, <3>1, MarkNone
    <2>4. QED
      BY <2>2, <2>3
  <1>5. record' \in [1..MaxWindows -> Record]
    BY <1>3, <1>4 DEF Marks
  <1>6. awaiting' \in BOOLEAN
    BY Zenon
  <1>7. LastClean /\ ~awaiting' => ~awaiting \/ record'[opened].down
    BY <1>1, <1>4 DEF CleanCheckAlone, LastClean, TypeOK
  <1>8. CleanCheckAlone' /\ WindowWatched' /\ ClosedOnEvidence'
    BY <1>1, <1>4, <1>7, RearmInv
  <1>9. TypeOK' /\ PollsOfChecks'
    BY <1>1, <1>2, <1>5, <1>6 DEF TypeOK, PollsOfChecks, InClosingPoll
  <1>10. QED
    BY <1>8, <1>9 DEF IInv

\* Starting the closing poll, or giving it up at once after an unload; the
\* record may gain its time of return on the way.
LEMMA ClosingPollStartsInv ==
  ASSUME IInv, NEW c \in Checks, check[c].pc = "probing",
         NEW by \in {"no_outage", "answer"}, ClosingPollStarts(c, by),
         by = "answer" => ~awaiting,
         UNCHANGED <<command, window, opened, awaiting, held, followup,
                     lock, force, paused, strikes, shut>>,
         record' \in [1..MaxWindows -> Record],
         \A i \in 1..MaxWindows :
            /\ Marks(record'[i], record[i])
            /\ i = check[c].rec /\ by = "answer" => record'[i].back
  PROVE  IInv'
  <1> USE OutageConstants DEF ClosingPollStarts, CheckDelay
  <1>1. /\ TypeOK /\ PollsOfChecks /\ CleanCheckAlone /\ Running(c)
        /\ opened \in 0..MaxWindows
    BY DEF IInv, TypeOK, Running
  <1>2. CASE shut
    <2>1. /\ check' \in [Checks -> CheckTask] /\ check'[c].pc = "idle"
          /\ \A d \in Checks : d # c => check'[d] = check[d]
      BY <1>1, <1>2, CheckEndsFacts
    <2>2. closing' \in BOOLEAN
      BY <1>2, Zenon
    <2>3. PollsOfChecks'
      BY <1>1, <1>2, <2>1 DEF PollsOfChecks, InClosingPoll
    <2>4. CheckEnds(c) /\ timer' \in Nat /\ timer' # Off /\ poll' = poll
      BY <1>2
    <2>5. TypeOK'
      BY <1>1, <2>1, <2>2, <2>4 DEF TypeOK
    <2>6. CleanCheckAlone' /\ WindowWatched' /\ ClosedOnEvidence'
      BY <1>1, <2>4, RearmInv
    <2>7. QED
      BY <2>3, <2>5, <2>6 DEF IInv
  <1>3. CASE ~shut
    <2>1. /\ check' \in [Checks -> CheckTask]
          /\ check'[c].pc = by /\ check'[c].rec = check[c].rec
          /\ ~check'[c].fresh
          /\ \A d \in Checks : d # c => check'[d] = check[d]
      <3>1. /\ check[c] \in CheckTask
            /\ check' = [check EXCEPT ![c] =
                           [pc |-> by, rec |-> check[c].rec, fresh |-> FALSE]]
        BY <1>1, <1>3 DEF TypeOK
      <3>2. [pc |-> by, rec |-> check[c].rec, fresh |-> FALSE] \in CheckTask
        BY <3>1 DEF CheckTask
      <3>3. QED
        BY <1>1, <3>1, <3>2 DEF TypeOK
    <2>2. closing' /\ closing' \in BOOLEAN
      <3>1. closing' = TRUE
        BY <1>3
      <3>2. QED
        BY <3>1, Zenon
    <2>3. /\ poll' \in [Polls -> PollStates] /\ poll'[c] = "queued"
          /\ \A q \in Polls : q # c => poll'[q] = poll[q]
      BY <1>1, <1>3 DEF TypeOK
    <2>4. TypeOK'
      BY <1>1, <1>3, <2>1, <2>2, <2>3 DEF TypeOK
    <2>5. PollsOfChecks'
      BY <1>1, <2>1, <2>3 DEF PollsOfChecks, InClosingPoll
    <2>6. CleanCheckAlone'
      <3>1. SUFFICES ASSUME LastClean'
                     PROVE  /\ Open' /\ ~awaiting' => record'[opened'].down
                            /\ \A d \in Checks : Running(d)' =>
                                /\ d = c
                                /\ Open' /\ timer' = Off /\ check'[d].rec = opened'
                                /\ InClosingPoll(d)' => closing'
                                /\ check'[d].pc = "answer" =>
                                      record'[opened'].down /\ record'[opened'].back
                                /\ check'[d].fresh => record'[opened'].polled
        BY DEF CleanCheckAlone
      <3>2. /\ opened' = opened /\ opened \in 1..MaxWindows
            /\ timer' = timer /\ Open' = Open /\ LastClean
        BY <1>1, <1>3, <3>1 DEF LastClean, Open, Marks
      <3>3. /\ Open /\ timer = Off /\ check[c].rec = opened
            /\ \A d \in Checks : Running(d) => d = c
        BY <1>1, <3>2 DEF CleanCheckAlone
      <3>4. Open' /\ ~awaiting' => record'[opened'].down
        <4>1. Open /\ ~awaiting => record[opened].down
          BY <1>1, <3>2 DEF CleanCheckAlone
        <4>2. record[opened].down => record'[opened].down
          BY <3>2 DEF Marks
        <4>3. QED
          BY <3>2, <4>1, <4>2
      <3>5. \A d \in Checks : Running(d)' => d = c
        BY <2>1, <3>3 DEF Running
      <3>6. by = "answer" => record'[opened'].down /\ record'[opened'].back
        BY <3>2, <3>3, <3>4
      <3>7. QED
        BY <2>1, <2>2, <3>2, <3>3, <3>4, <3>5, <3>6
    <2>7. WindowWatched'
      <3>1. check'[c].pc # "idle"
        BY <2>1
      <3>2. QED
        BY <3>1, Zenon DEF WindowWatched, Running
    <2>8. ClosedOnEvidence'
      BY <1>1 DEF IInv, ClosedOnEvidence, Marks
    <2>9. QED
      BY <2>4, <2>5, <2>6, <2>7, <2>8 DEF IInv
  <1>4. QED
    BY <1>2, <1>3

\* A poll returns while it holds the lock or before it got it; a check's poll
\* takes the rest of its check with it.
LEMMA PollReturnsInv ==
  ASSUME IInv, NEW p \in Polls, PollReturns(p),
         poll[p] # "idle", lock' = IF lock = p THEN NoLock ELSE lock,
         force' \in BOOLEAN, strikes' \in 0..MaxStrikes,
         UNCHANGED <<command, paused, shut>>
  PROVE  IInv'
  <1> USE OutageConstants
  <1>1. /\ TypeOK /\ PollsOfChecks /\ CleanCheckAlone /\ WindowWatched
        /\ ClosedOnEvidence
        /\ poll' \in [Polls -> PollStates] /\ poll'[p] = "idle"
        /\ \A q \in Polls : q # p => poll'[q] = poll[q]
    BY DEF IInv, TypeOK, PollReturns
  <1>2. CASE p = Background
    <2>1. UNCHANGED <<outageVars, check, closing>>
      BY <1>2 DEF PollReturns
    <2>2. QED
      BY <1>1, <1>2, <2>1 DEF IInv, TypeOK, PollsOfChecks, CleanCheckAlone,
         WindowWatched, ClosedOnEvidence, LastClean, Open, Running, InClosingPoll,
         outageVars
  <1>3. CASE p # Background
    <2>1. p \in Checks /\ AfterClosingPoll(p) /\ Running(p) /\ InClosingPoll(p)
      BY <1>1, <1>3 DEF PollReturns, PollsOfChecks, InClosingPoll, Running
    <2>2. /\ check' \in [Checks -> CheckTask] /\ check'[p].pc = "idle"
          /\ \A d \in Checks : d # p => check'[d] = check[d]
      BY <1>1, <2>1, CheckEndsFacts DEF AfterClosingPoll
    <2>3. closing' \in BOOLEAN
      BY <2>1, Zenon DEF AfterClosingPoll
    <2>4. PollsOfChecks'
      BY <1>1, <2>2 DEF PollsOfChecks, InClosingPoll
    <2>5. CASE check[p].fresh
      <3>1. PICK u \in BOOLEAN : CloseWindow(check[p].pc, u)
        BY <2>1, <2>5 DEF AfterClosingPoll
      <3>2. check[p].pc \in {"cap", "answer", "no_outage"}
        BY <2>1 DEF InClosingPoll
      <3>3. /\ window' = NoWindow /\ timer' = Off /\ awaiting' \in BOOLEAN
            /\ followup' \in Nat \cup {Off} /\ opened' = opened /\ held' = held
            /\ record' \in [1..MaxWindows -> Record]
        BY <1>1, <3>1, <3>2, CloseFacts
      <3>4. LastClean => \A d \in Checks : check'[d].pc = "idle"
        BY <1>1, <2>1, <2>2 DEF CleanCheckAlone, Running
      <3>5. LastClean /\ check[p].pc = "answer" => record[opened].down /\ record[opened].back
        BY <1>1, <2>1 DEF CleanCheckAlone
      <3>6. LastClean => record[opened].polled
        BY <1>1, <2>1, <2>5 DEF CleanCheckAlone
      <3>7. CleanCheckAlone' /\ WindowWatched' /\ ClosedOnEvidence'
        BY <3>1, <3>2, <3>4, <3>5, <3>6, CloseInv
      <3>8. TypeOK'
        BY <1>1, <2>2, <2>3, <3>3 DEF TypeOK
      <3>9. QED
        BY <2>4, <3>7, <3>8 DEF IInv
    <2>6. CASE ~check[p].fresh
      <3>1. CheckEnds(p) /\ ScheduleOutageCheck
        BY <2>1, <2>6 DEF AfterClosingPoll
      <3>2. TypeOK' /\ timer' # Off
        BY <1>1, <2>2, <2>3, <3>1 DEF TypeOK, ScheduleOutageCheck, CheckDelay
      <3>3. CleanCheckAlone' /\ WindowWatched' /\ ClosedOnEvidence'
        <4>1. record' = record /\ awaiting' = awaiting
              /\ window' = window /\ opened' = opened
          BY <3>1 DEF ScheduleOutageCheck
        <4>2. \A i \in 1..MaxWindows : Marks(record'[i], record[i])
          BY <1>1, <4>1, MarksUnchanged
        <4>3. QED
          BY <2>1, <3>1, <3>2, <4>1, <4>2, RearmInv
      <3>4. QED
        BY <2>4, <3>2, <3>3 DEF IInv
    <2>7. QED
      BY <2>5, <2>6
  <1>4. QED
    BY <1>2, <1>3

LEMMA ProbeAnsweredBeforeDropInv ==
  ASSUME IInv, NEW c \in Checks, ProbeAnsweredBeforeDrop(c)
  PROVE  IInv'
  <1> USE OutageConstants DEF ProbeAnsweredBeforeDrop, CheckDelay
  <1>1. /\ TypeOK /\ PollsOfChecks /\ Running(c)
        /\ record' \in [1..MaxWindows -> Record]
        /\ \A i \in 1..MaxWindows : Marks(record'[i], record[i])
    BY MarksUnchanged DEF IInv, Running
  <1>2. CASE held >= Hold
    <2>1. "no_outage" \in {"no_outage", "answer"} /\ "no_outage" # "answer"
      OBVIOUS
    <2>2. ClosingPollStarts(c, "no_outage")
      BY <1>2
    <2>3. QED
      BY <1>1, <2>1, <2>2, ClosingPollStartsInv
  <1>3. CASE ~(held >= Hold)
    <2>1. /\ CheckEnds(c) /\ timer' \in Nat /\ timer' # Off
          /\ poll' = poll /\ closing' = closing /\ awaiting' = awaiting
      BY <1>3
    <2>2. check' \in [Checks -> CheckTask] /\ check'[c].pc = "idle"
          /\ \A d \in Checks : d # c => check'[d] = check[d]
      BY <1>1, <2>1, CheckEndsFacts
    <2>3. TypeOK'
      BY <1>1, <2>1, <2>2 DEF TypeOK
    <2>4. PollsOfChecks'
      BY <1>1, <2>1, <2>2 DEF PollsOfChecks, InClosingPoll
    <2>5. CleanCheckAlone' /\ WindowWatched' /\ ClosedOnEvidence'
      BY <1>1, <2>1, RearmInv
    <2>6. QED
      BY <2>3, <2>4, <2>5 DEF IInv
  <1>4. QED
    BY <1>2, <1>3

LEMMA ProbeAnsweredAfterDropInv ==
  ASSUME IInv, NEW c \in Checks, ProbeAnsweredAfterDrop(c)
  PROVE  IInv'
  <1> USE OutageConstants DEF ProbeAnsweredAfterDrop
  <1>1. /\ record \in [1..MaxWindows -> Record]
        /\ record' = [i \in 1..MaxWindows |->
              IF i = check[c].rec THEN [record[i] EXCEPT !.back = TRUE]
                                  ELSE record[i]]
    BY DEF IInv, TypeOK
  <1>2. ASSUME NEW i \in 1..MaxWindows
        PROVE  /\ Marks(record'[i], record[i])
               /\ i = check[c].rec => record'[i].back
    <2>1. record[i] \in Record
      BY <1>1
    <2>2. CASE i = check[c].rec
      <3>1. record'[i] = [record[i] EXCEPT !.back = TRUE]
        BY <1>1, <2>2
      <3>2. QED
        BY <2>1, <3>1, MarkBack
    <2>3. CASE i # check[c].rec
      <3>1. record'[i] = record[i]
        BY <1>1, <2>3
      <3>2. QED
        BY <2>1, <2>3, <3>1, MarkNone
    <2>4. QED
      BY <2>2, <2>3
  <1>3. record' \in [1..MaxWindows -> Record]
    BY <1>1, <1>2 DEF Marks
  <1>4. "answer" \in {"no_outage", "answer"} /\ ClosingPollStarts(c, "answer")
    OBVIOUS
  <1>5. QED
    BY <1>2, <1>3, <1>4, ClosingPollStartsInv

LEMMA PollEntersInv ==
  ASSUME IInv, NEW p \in Polls, PollEnters(p)
  PROVE  IInv'
  <1> USE OutageConstants DEF PollEnters, pollVars
  <1>1. force' \in BOOLEAN
    <2>1. force' = FALSE
      OBVIOUS
    <2>2. QED
      BY <2>1, Zenon
  <1>2. strikes' \in 0..MaxStrikes /\ lock = NoLock /\ poll[p] = "queued"
    BY DEF IInv, TypeOK
  <1>3. CASE Skipped
    <2>1. PollReturns(p)
      BY <1>3
    <2>2. lock' = IF lock = p THEN NoLock ELSE lock
      BY <1>2, <1>3
    <2>3. QED
      BY <1>1, <1>2, <2>1, <2>2, PollReturnsInv
  <1>4. CASE ~Skipped
    <2>1. /\ UNCHANGED <<outageVars, check, closing, command, paused,
                         strikes, shut>>
          /\ lock' = p
          /\ TypeOK /\ PollsOfChecks
          /\ poll' = [poll EXCEPT ![p] = "fetching"]
      BY <1>4 DEF IInv
    <2>2. /\ poll' \in [Polls -> PollStates] /\ poll'[p] = "fetching"
          /\ \A q \in Polls : q # p => poll'[q] = poll[q]
      BY <2>1 DEF TypeOK
    <2>3. TypeOK'
      BY <1>1, <2>1, <2>2 DEF TypeOK, outageVars
    <2>4. PollsOfChecks'
      BY <1>2, <2>1, <2>2 DEF PollsOfChecks, InClosingPoll
    <2>5. CleanCheckAlone' /\ WindowWatched' /\ ClosedOnEvidence'
      BY <2>1 DEF IInv, CleanCheckAlone, WindowWatched, ClosedOnEvidence,
         LastClean, Open, Running, InClosingPoll, outageVars
    <2>6. QED
      BY <2>3, <2>4, <2>5 DEF IInv
  <1>5. QED
    BY <1>3, <1>4

\* What a poll that moves from one await to the next does to the checks and
\* the records: on success, and only then, they learn of it.
ChecksKept(success) ==
    \A d \in Checks :
        /\ check'[d].pc = check[d].pc
        /\ check'[d].rec = check[d].rec
        /\ check'[d].fresh => check[d].fresh \/ success

RecordsKept(success) ==
    \A i \in 1..MaxWindows :
        /\ Marks(record'[i], record[i])
        /\ success /\ i = opened => record'[i].polled

LEMMA PollMovesInv ==
  ASSUME IInv, NEW p \in Polls, NEW to \in {"sent", "tail"},
         poll[p] \in {"fetching", "sent"},
         poll' = [poll EXCEPT ![p] = to], strikes' \in 0..MaxStrikes,
         check' \in [Checks -> CheckTask], ChecksKept(to = "tail"),
         record' \in [1..MaxWindows -> Record], RecordsKept(to = "tail"),
         UNCHANGED <<command, window, opened, awaiting, held, timer, followup,
                     closing, lock, force, paused, shut>>
  PROVE  IInv'
  <1> USE OutageConstants
  <1>1. /\ TypeOK /\ PollsOfChecks
        /\ poll' \in [Polls -> PollStates] /\ poll'[p] = to
        /\ \A q \in Polls : q # p => poll'[q] = poll[q]
    BY DEF IInv, TypeOK
  <1>2. TypeOK'
    BY <1>1 DEF TypeOK
  <1>3. \A d \in Checks : check'[d].pc = check[d].pc /\ check'[d].rec = check[d].rec
    BY DEF ChecksKept
  <1>4. PollsOfChecks'
    BY <1>1, <1>3 DEF PollsOfChecks, InClosingPoll
  <1>5. WindowWatched'
    BY <1>3 DEF IInv, WindowWatched, Open, Running
  <1>6. ClosedOnEvidence'
    <2>1. \A i \in 1..opened : i \in 1..MaxWindows
      BY <1>1 DEF TypeOK
    <2>2. ASSUME NEW i \in 1..opened, record'[i].clean
          PROVE  /\ record'[i].by \in {"answer", "no_outage"} => record'[i].polled
                 /\ record'[i].by = "answer" => record'[i].down /\ record'[i].back
      BY <2>1, <2>2 DEF IInv, ClosedOnEvidence, RecordsKept, Marks
    <2>3. QED
      BY <2>2 DEF ClosedOnEvidence
  <1>7. CleanCheckAlone'
    <2>1. SUFFICES ASSUME LastClean' PROVE CleanCheckAlone'
      BY DEF CleanCheckAlone
    <2>2. /\ LastClean /\ opened' = opened /\ opened \in 1..MaxWindows
          /\ record[opened].down => record'[opened].down
          /\ record[opened].back => record'[opened].back
          /\ record[opened].polled => record'[opened].polled
          /\ to = "tail" => record'[opened].polled
      BY <1>1, <2>1 DEF LastClean, TypeOK, RecordsKept, Marks
    <2>3. \A d \in Checks : Running(d) /\ check'[d].fresh => record'[opened].polled
      BY <2>2 DEF IInv, CleanCheckAlone, ChecksKept
    <2>4. QED
      BY <1>3, <2>2, <2>3 DEF IInv, CleanCheckAlone, Open, Running, InClosingPoll
  <1>8. QED
    BY <1>2, <1>4, <1>5, <1>6, <1>7 DEF IInv

LEMMA PollSucceedsInv ==
  ASSUME IInv, NEW p \in Polls, PollSucceeds(p)
  PROVE  IInv'
  <1> USE OutageConstants
  <1>1. TypeOK
    BY DEF IInv
  <1>2. ASSUME NEW d \in Checks
        PROVE  /\ check'[d] \in CheckTask
               /\ check'[d].pc = check[d].pc
               /\ check'[d].rec = check[d].rec
    <2>1. ASSUME NEW t \in CheckTask
          PROVE  /\ [t EXCEPT !.fresh = TRUE] \in CheckTask
                 /\ [t EXCEPT !.fresh = TRUE].pc = t.pc
                 /\ [t EXCEPT !.fresh = TRUE].rec = t.rec
      BY DEF CheckTask
    <2>2. /\ check[d] \in CheckTask
          /\ check'[d] = IF InClosingPoll(d) THEN [check[d] EXCEPT !.fresh = TRUE]
                                             ELSE check[d]
      BY <1>1 DEF TypeOK, PollSucceeds
    <2>3. QED
      BY <2>1, <2>2
  <1>3. check' \in [Checks -> CheckTask]
    BY <1>2 DEF PollSucceeds
  <1>4. ASSUME NEW i \in 1..MaxWindows
        PROVE  /\ Marks(record'[i], record[i])
               /\ i = opened => record'[i].polled
    <2>1. /\ record[i] \in Record
          /\ record'[i] = IF i = opened THEN [record[i] EXCEPT !.polled = TRUE]
                                        ELSE record[i]
      BY <1>1 DEF TypeOK, PollSucceeds
    <2>2. CASE i = opened
      <3>1. record'[i] = [record[i] EXCEPT !.polled = TRUE]
        BY <2>1, <2>2
      <3>2. QED
        BY <2>1, <3>1, MarkPolled
    <2>3. CASE i # opened
      <3>1. record'[i] = record[i]
        BY <2>1, <2>3
      <3>2. QED
        BY <2>1, <2>3, <3>1, MarkNone
    <2>4. QED
      BY <2>2, <2>3
  <1>5. record' \in [1..MaxWindows -> Record]
    BY <1>4 DEF PollSucceeds, Marks
  <1>6. /\ poll[p] \in {"fetching", "sent"} /\ strikes' \in 0..MaxStrikes
        /\ poll' = [poll EXCEPT ![p] = "tail"]
        /\ UNCHANGED <<command, window, opened, awaiting, held, timer, followup,
                       closing, lock, force, paused, shut>>
    BY DEF PollSucceeds
  <1>7. "tail" \in {"sent", "tail"}
    OBVIOUS
  <1>8. ChecksKept("tail" = "tail") /\ RecordsKept("tail" = "tail")
    BY <1>2, <1>4 DEF ChecksKept, RecordsKept
  <1>9. QED
    BY <1>3, <1>5, <1>6, <1>7, <1>8, PollMovesInv

\* A poll that held the lock returns and gives it back.
LEMMA PollEndsInv ==
  ASSUME IInv, NEW p \in Polls, PollFinishes(p) \/ PollFails(p)
  PROVE  IInv'
  <1> USE OutageConstants DEF PollFinishes, PollFails
  <1>1. /\ poll[p] \in {"fetching", "sent", "tail"} /\ lock' = NoLock
        /\ UNCHANGED <<command, paused, shut>> /\ force' = force
        /\ force \in BOOLEAN
    BY DEF IInv, TypeOK
  <1>2. lock' = IF lock = p THEN NoLock ELSE lock
    BY <1>1 DEF IInv, PollsOfChecks
  <1>3. strikes' \in 0..MaxStrikes
    <2>1. strikes \in 0..MaxStrikes /\ MaxStrikes \in Nat
      BY DEF IInv, TypeOK
    <2>2. \/ strikes' = strikes
          \/ strikes # MaxStrikes /\ strikes' = strikes + 1
      BY Zenon
    <2>3. QED
      BY <2>1, <2>2
  <1>4. PollReturns(p)
    OBVIOUS
  <1>5. QED
    BY <1>1, <1>2, <1>3, <1>4, PollReturnsInv

\* Starting a background poll.
LEMMA BackgroundPollStartsInv ==
  ASSUME IInv, BackgroundPollStarts
  PROVE  IInv'
  <1> USE OutageConstants DEF BackgroundPollStarts, outageVars
  <1>1. /\ TypeOK /\ PollsOfChecks
        /\ poll' \in [Polls -> PollStates] /\ poll'[Background] = "queued"
        /\ \A q \in Polls : q # Background => poll'[q] = poll[q]
    BY DEF IInv, TypeOK
  <1>2. TypeOK'
    BY <1>1 DEF TypeOK
  <1>3. PollsOfChecks'
    BY <1>1 DEF PollsOfChecks, InClosingPoll
  <1>4. CleanCheckAlone' /\ WindowWatched' /\ ClosedOnEvidence'
    BY DEF IInv, CleanCheckAlone, WindowWatched, ClosedOnEvidence,
       LastClean, Open, Running, InClosingPoll
  <1>5. QED
    BY <1>2, <1>3, <1>4 DEF IInv

\* The timers and the clock.
LEMMA TimersInv ==
  ASSUME IInv, FollowupFires \/ Shutdown \/ Tick
  PROVE  IInv'
  <1> USE OutageConstants DEF pollVars
  <1>1. CASE FollowupFires
    <2>1. force' \in BOOLEAN
      <3>1. force' = TRUE
        BY <1>1 DEF FollowupFires
      <3>2. QED
        BY <3>1, Zenon
    <2>2. QED
      BY <1>1, <2>1 DEF FollowupFires, IInv, TypeOK, PollsOfChecks, CleanCheckAlone,
         WindowWatched, ClosedOnEvidence, LastClean, Open, Running, InClosingPoll
  <1>2. CASE Shutdown
    <2>1. shut' \in BOOLEAN /\ shut'
      <3>1. shut' = TRUE
        BY <1>2 DEF Shutdown
      <3>2. QED
        BY <3>1, Zenon
    <2>2. QED
      BY <1>2, <2>1 DEF Shutdown, IInv, TypeOK, PollsOfChecks, CleanCheckAlone,
         WindowWatched, ClosedOnEvidence, LastClean, Open, Running, InClosingPoll
  <1>3. CASE Tick
    <2>1. window' \in Window /\ (Open' => Open)
      <3>1. window \in Window
        BY DEF IInv, TypeOK
      <3>2. window' = [window EXCEPT !.left = Countdown(window.left)]
        BY <1>3 DEF Tick
      <3>3. QED
        BY <3>1, <3>2 DEF Countdown, Open
    <2>2. TypeOK
      BY DEF IInv
    <2>3. /\ timer' \in Nat \cup {Off} /\ followup' \in Nat \cup {Off}
          /\ timer' = Off => timer = Off
      <3>1. ASSUME NEW n \in Nat \cup {Off}
            PROVE  /\ Countdown(n) \in Nat \cup {Off}
                   /\ Countdown(n) = Off => n = Off
        BY DEF Countdown
      <3>2. /\ timer \in Nat \cup {Off} /\ followup \in Nat \cup {Off}
            /\ timer' = Countdown(timer) /\ followup' = Countdown(followup)
        BY <1>3, <2>2 DEF Tick, TypeOK
      <3>3. QED
        BY <3>1, <3>2
    <2>4. held' \in 0..Hold
      BY <1>3, <2>2 DEF Tick, TypeOK
    <2>5. /\ UNCHANGED <<command, opened, record, awaiting, check, closing,
                         pollVars, shut>>
          /\ timer # 0
      BY <1>3 DEF Tick
    <2>6. TypeOK'
      BY <2>1, <2>2, <2>3, <2>4, <2>5 DEF TypeOK
    <2>7. PollsOfChecks' /\ ClosedOnEvidence'
      BY <2>5 DEF IInv, PollsOfChecks, InClosingPoll, ClosedOnEvidence
    <2>8. WindowWatched'
      BY <2>1, <2>3, <2>5 DEF IInv, WindowWatched, Running
    <2>9. CleanCheckAlone'
      <3>1. Open /\ timer = Off => Open'
        BY <1>3, <2>2 DEF Tick, TypeOK, Open, Countdown
      <3>2. timer = Off => timer' = Off
        BY <1>3 DEF Tick, Countdown
      <3>3. LastClean' => LastClean
        BY <2>5 DEF LastClean
      <3>4. QED
        BY <2>1, <2>5, <3>1, <3>2, <3>3
           DEF IInv, CleanCheckAlone, Running, InClosingPoll
    <2>10. QED
      BY <2>6, <2>7, <2>8, <2>9 DEF IInv
  <1>4. QED
    BY <1>1, <1>2, <1>3

\* The steps that touch neither windows, checks, polls nor the lock.
LEMMA QuietStepsInv ==
  ASSUME IInv,
         \/ \E r \in Commands : SendCommand(r)
         \/ RebootProbes \/ RebootProbeAnswered \/ RebootFails
             \/ RefreshNow \/ TogglePause
  PROVE  IInv'
  <1> USE OutageConstants
  <1>1. TypeOK /\ strikes' = strikes /\ shut' = shut
        /\ UNCHANGED <<outageVars, check, closing, poll, lock>>
    BY DEF IInv, SendCommand, RebootProbes, RebootProbeAnswered, RebootFails,
       RefreshNow, TogglePause, pollVars
  <1>2. command' \in [Reasons -> {"idle", "sent", "probing"}]
    BY <1>1 DEF TypeOK, SendCommand, RebootProbes, RebootProbeAnswered, RebootFails,
       RefreshNow, TogglePause
  <1>3. force' \in BOOLEAN /\ paused' \in BOOLEAN
    BY <1>1, Zenon DEF TypeOK, SendCommand, RebootProbes, RebootProbeAnswered,
       RebootFails, RefreshNow, TogglePause, pollVars
  <1>4. QED
    BY <1>1, <1>2, <1>3, QuietInv

LEMMA OpenStepsInv ==
  ASSUME IInv, OpenAfterDataCommand \/ OpenAfterReboot
  PROVE  IInv'
  <1>1. "data" \in Reasons /\ "reboot" \in Reasons
    OBVIOUS
  <1>2. CASE OpenAfterDataCommand
    BY <1>1, <1>2, OpenWindowInv DEF OpenAfterDataCommand
  <1>3. CASE OpenAfterReboot
    BY <1>1, <1>3, OpenWindowInv DEF OpenAfterReboot
  <1>4. QED
    BY <1>2, <1>3

LEMMA CheckStepsInv ==
  ASSUME IInv, NEW c \in Checks, CheckSteps(c)
  PROVE  IInv'
  BY CheckStartsInv, ProbeUnansweredInv, ProbeAnsweredBeforeDropInv,
     ProbeAnsweredAfterDropInv DEF CheckSteps

LEMMA PollStepsInv ==
  ASSUME IInv, NEW p \in Polls, PollSteps(p)
  PROVE  IInv'
  <1>1. CASE PollEnters(p)
    BY <1>1, PollEntersInv
  <1>2. CASE PollSends(p)
    <2>1. /\ check' \in [Checks -> CheckTask] /\ check' = check
          /\ strikes' \in 0..MaxStrikes
          /\ poll[p] \in {"fetching", "sent"}
          /\ poll' = [poll EXCEPT ![p] = "sent"]
          /\ UNCHANGED <<command, window, opened, awaiting, held, timer, followup,
                         closing, lock, force, paused, shut>>
      BY <1>2 DEF PollSends, IInv, TypeOK, outageVars
    <2>2. "sent" \in {"sent", "tail"} /\ "sent" # "tail"
      OBVIOUS
    <2>3. /\ record' \in [1..MaxWindows -> Record]
          /\ \A i \in 1..MaxWindows : Marks(record'[i], record[i])
      BY <1>2, MarksUnchanged DEF PollSends, IInv, outageVars
    <2>4. ChecksKept("sent" = "tail") /\ RecordsKept("sent" = "tail")
      BY <2>1, <2>2, <2>3 DEF ChecksKept, RecordsKept
    <2>5. QED
      BY <2>1, <2>2, <2>3, <2>4, PollMovesInv
  <1>3. CASE PollSucceeds(p)
    BY <1>3, PollSucceedsInv
  <1>4. CASE PollFinishes(p) \/ PollFails(p)
    BY <1>4, PollEndsInv
  <1>5. QED
    BY <1>1, <1>2, <1>3, <1>4 DEF PollSteps

LEMMA NextInv == IInv /\ [Next]_vars => IInv'
  <1> SUFFICES ASSUME IInv, [Next]_vars PROVE IInv'
    OBVIOUS
  <1>1. CASE \/ \E r \in Commands : SendCommand(r)
             \/ RebootProbes \/ RebootProbeAnswered \/ RebootFails
             \/ RefreshNow \/ TogglePause
    BY <1>1, QuietStepsInv
  <1>2. CASE OpenAfterDataCommand \/ OpenAfterReboot
    BY <1>2, OpenStepsInv
  <1>3. CASE \E c \in Checks : CheckSteps(c)
    BY <1>3, CheckStepsInv
  <1>4. CASE BackgroundPollStarts
    BY <1>4, BackgroundPollStartsInv
  <1>5. CASE \E p \in Polls : PollSteps(p)
    BY <1>5, PollStepsInv
  <1>6. CASE FollowupFires \/ Shutdown \/ Tick
    BY <1>6, TimersInv
  <1>7. CASE UNCHANGED vars
    <2>1. UNCHANGED <<outageVars, check, closing, poll, lock, command, force,
                      paused, strikes, shut>>
      BY <1>7 DEF vars, pollVars
    <2>2. /\ command \in [Reasons -> {"idle", "sent", "probing"}]
          /\ force \in BOOLEAN /\ paused \in BOOLEAN
      BY DEF IInv, TypeOK
    <2>3. QED
      BY <2>1, <2>2, QuietInv
  <1>8. QED
    BY <1>1, <1>2, <1>3, <1>4, <1>5, <1>6, <1>7 DEF Next

THEOREM Inductive == Spec => []IInv
  BY InitInv, NextInv, PTL DEF Spec

\* Every variable keeps its type, for any number of windows and checks.
THEOREM TypeCorrect == Spec => []TypeOK
  <1>1. IInv => TypeOK
    BY DEF IInv
  <1>2. QED
    BY <1>1, Inductive, PTL

\* An open window is never left without an armed timer or a running check
\* (coordinator.py, _async_outage_check re-arms on every path but a close).
THEOREM Watched == Spec => []WindowWatched
  <1>1. IInv => WindowWatched
    BY DEF IInv
  <1>2. QED
    BY <1>1, Inductive, PTL

\* A window that started with no check in flight closes "answer" only on the
\* drop and the return that its own check saw.
THEOREM Evidence == Spec => []ClosedOnEvidence
  <1>1. IInv => ClosedOnEvidence
    BY DEF IInv
  <1>2. QED
    BY <1>1, Inductive, PTL

\* A closing poll never adds a strike while the last window is clean: the flag
\* that holds the count back is still up when the poll fails.
THEOREM NoStrikeByClosingPoll == Spec => ClosingPollCountsNothing
  <1>1. IInv /\ [Next]_vars
          => [strikes' > strikes /\ lock \in Checks => ~LastClean]_vars
    <2> SUFFICES ASSUME IInv, Next, strikes' > strikes, lock \in Checks, LastClean
                 PROVE  FALSE
      OBVIOUS
    <2>1. strikes \in Nat /\ strikes' # strikes /\ ~(0 > strikes)
      BY OutageConstants DEF IInv, TypeOK
    <2>2. PICK p \in Polls : PollFails(p)
      BY <2>1, OutageConstants
         DEF Next, SendCommand, OpenAfterDataCommand, OpenAfterReboot, RebootFails,
             CheckSteps, CheckStarts, ProbeUnanswered, ProbeAnsweredBeforeDrop,
             ProbeAnsweredAfterDrop, BackgroundPollStarts, PollSteps, PollEnters,
             PollSends, PollSucceeds, PollFinishes, RefreshNow, TogglePause,
             FollowupFires, Shutdown, RebootProbes, RebootProbeAnswered, Tick, pollVars
    <2>3. lock = p /\ p \in Checks /\ InClosingPoll(p)
      BY <2>2, OutageConstants DEF PollFails, IInv, PollsOfChecks
    <2>4. closing
      BY <2>3 DEF IInv, CleanCheckAlone, Running, InClosingPoll
    <2>5. strikes' = strikes
      BY <2>2, <2>4 DEF PollFails
    <2>6. QED
      BY <2>1, <2>5
  <1>2. QED
    BY <1>1, Inductive, PTL DEF Spec, ClosingPollCountsNothing

=============================================================================
