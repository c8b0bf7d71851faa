------------------------------ MODULE Messages ------------------------------
(***************************************************************************)
(* Text messages: polls report those that are new, actions delete and send    *)
(* them.  All three work on lists and counters read from the router some      *)
(* requests earlier, while messages arrive, the router carries out what it    *)
(* has accepted, and its own page is used.                                  *)
(*                                                                         *)
(* A message is its id; ids grow in the order of arrival in a store.  Its     *)
(* date is what the router stamped on it, and 0 where that cannot be read.    *)
(***************************************************************************)
EXTENDS Integers, FiniteSets

CONSTANTS
    Received,       \* ids of messages that may arrive
    Numbers,        \* how many numbers one send goes to
    SentId,         \* SentId[i]: the id of the router's copy of the i-th message
    PageSent,       \* ids of what the user sends, and saves as a draft, on the
    PageDraft,      \* router's own page
    Date,           \* Date[id]
    Keeps,          \* values of keep_last
    Passes,         \* lists SMS_DELETE_VERIFY_SECONDS leaves time for
    MaxMoves        \* bound: actions called, restarts, and the router's own page

Targets == 1..Numbers
Copies == {SentId[i] : i \in Targets} \cup PageSent \cup PageDraft
Ids == Received \cup Copies

\* The router gives an id once, and its stores are finite.
ASSUME MessagesConstants ==
    /\ Received \cup PageSent \cup PageDraft \subseteq Nat
    /\ Numbers \in Nat \ {0}
    /\ SentId \in [Targets -> Nat \ (Received \cup PageSent \cup PageDraft)]
    /\ \A i, j \in Targets : SentId[i] = SentId[j] => i = j
    /\ IsFiniteSet(Received \cup PageSent \cup PageDraft)
    /\ Date \in [Ids -> Nat]
    /\ Keeps \subseteq Nat /\ Passes \in Nat /\ MaxMoves \in Nat

VARIABLES
    bank,       \* what the router holds
    doomed,     \* of it, what it has accepted to delete and not deleted yet
    arrived,    \* history: everything it ever held
    tracking,   \* last_sms_timestamp (0: none) and fired_sms_hashes; there: what
                \* the first list with a date in it held
    held,       \* the list in _endpoint_cache; has: there is one
    fired,      \* history: how often each message was reported since the start
    del,        \* the delete under way, or the last one
    asked,      \* history: what deletes before it asked for
    send,       \* the send under way, or the last one
    out,        \* history: the targets reached, those stored as drafts, and
                \* those judged while the counters could not tell
    moves

router == <<bank, doomed, arrived>>
events == <<tracking, held, fired>>
sending == <<send, out>>
vars == <<router, events, del, asked, sending, moves>>

Untracked == [last |-> 0, seen |-> {}, there |-> {}]
NoDelete == [at |-> "idle", keep |-> 0, listed |-> {}, ids |-> {}, pass |-> 0,
             result |-> "none"]
NoSend == [at |-> "idle", next |-> 1, named |-> {}, before |-> [read |-> FALSE, sent |-> 0, draft |-> 0],
           quiet |-> TRUE, result |-> "none"]
Nobody == [reached |-> {}, stored |-> {}, unsure |-> {}]

Moves == moves < MaxMoves /\ moves' = moves + 1

-----------------------------------------------------------------------------
(* New messages: _check_new_sms. *)

Latest(list) == CHOOSE d \in {Date[m] : m \in list} : \A m \in list : Date[m] <= d

\* Variant: messages of the latest date are told apart by the date alone.
NewByDate(list) == {m \in list : Date[m] > tracking.last}

\* Messages are told apart by date, and by id among those of the latest date reported.
New(list) ==
    {m \in list : \/ Date[m] > tracking.last
                  \/ Date[m] = tracking.last /\ m \notin tracking.seen}

\* The first list with a date in it is taken for the messages already there.
Sees(list) ==
    IF tracking.last = 0 \/ Latest(list) > tracking.last
    THEN [last |-> Latest(list), seen |-> {m \in list : Date[m] = Latest(list)},
          there |-> IF tracking.last = 0 THEN list ELSE tracking.there]
    ELSE [tracking EXCEPT !.seen = @ \cup New(list)]

Check(listed) ==
    LET list == {m \in listed : Date[m] # 0}
    IN IF list = {} THEN UNCHANGED <<tracking, fired>>
       ELSE /\ tracking' = Sees(list)
            /\ fired' = IF tracking.last = 0 THEN fired
                        ELSE [m \in Ids |-> fired[m] + IF m \in New(list) THEN 1 ELSE 0]

\* The router may fail to answer; then the last list
\* is held, or, its strikes spent, an empty one.
PollLists ==
    /\ Check(bank)
    /\ held' = [has |-> TRUE, list |-> bank]
    /\ UNCHANGED <<router, del, asked, sending, moves>>

PollHolds ==
    /\ held.has /\ Check(held.list)
    /\ UNCHANGED <<router, held, del, asked, sending, moves>>

-----------------------------------------------------------------------------
(* Deleting: delete_all, and the action that keeps the newest. *)

Newer(a, b) == Date[a] > Date[b] \/ (Date[a] = Date[b] /\ a > b)

\* Messages with no date are the oldest; all are counted.
BeyondTheNewest(list, keep) ==
    {m \in list : Cardinality({n \in list : Newer(n, m)}) >= keep}

DeleteCalled(keep) ==
    /\ Moves /\ del.at = "idle"
    /\ del' = [NoDelete EXCEPT !.at = "listing", !.keep = keep]
    /\ asked' = asked \cup del.ids
    /\ UNCHANGED <<router, events, sending>>

\* The action that deletes one message goes by the index it is given.
DeleteOneCalled(m) ==
    /\ Moves /\ del.at = "idle"
    /\ del' = [NoDelete EXCEPT !.at = "posting", !.ids = {m}]
    /\ asked' = asked \cup del.ids
    /\ UNCHANGED <<router, events, sending>>

\* With nothing to delete no command is sent.
DeleteLists ==
    /\ del.at = "listing"
    /\ LET ids == BeyondTheNewest(bank, del.keep)
       IN del' = IF ids = {} THEN [del EXCEPT !.at = "idle", !.listed = bank,
                                              !.result = "done"]
                 ELSE [del EXCEPT !.at = "posting", !.listed = bank, !.ids = ids]
    /\ UNCHANGED <<router, events, asked, sending, moves>>

\* The command is accepted for ids the router does not hold, too; what it will
\* carry out, now or later, is its own affair.  The answer may be lost.
DeletePosts(accepted) ==
    /\ del.at = "posting"
    /\ \E carried \in SUBSET (del.ids \cap bank) : doomed' = doomed \cup carried
    /\ del' = IF accepted THEN [del EXCEPT !.at = "verifying"]
              ELSE [del EXCEPT !.at = "idle", !.result = "failed"]
    /\ UNCHANGED <<bank, arrived, events, asked, sending, moves>>

\* Any request may fail, and the action with it.
DeleteFails ==
    /\ del.at # "idle"
    /\ del' = [del EXCEPT !.at = "idle", !.result = "failed"]
    /\ UNCHANGED <<router, events, asked, sending, moves>>

\* Variant: the window's end is taken for the verification's.
LateIsGone == del.ids \cap bank = {} \/ del.pass >= Passes

Gone == del.ids \cap bank = {}

\* Lists again until nothing that was asked for is left, or the window is over.
Verify ==
    /\ del.at = "verifying"
    /\ del' = IF Gone THEN [del EXCEPT !.at = "idle", !.result = "done"]
              ELSE IF del.pass >= Passes
                   THEN [del EXCEPT !.at = "idle", !.result = "failed"]
                   ELSE [del EXCEPT !.pass = @ + 1]
    /\ UNCHANGED <<router, events, asked, sending, moves>>

-----------------------------------------------------------------------------
(* Sending: one action, several numbers. *)

SendCalled ==
    /\ Moves /\ send.at = "idle" /\ send.result = "none"
    /\ send' = [NoSend EXCEPT !.at = "counting"]
    /\ UNCHANGED <<router, events, del, asked, out>>

\* sms_nv_send_total and sms_nv_draftbox_total count what the bank holds.
SentTotal == Cardinality(bank \cap (PageSent \cup {SentId[i] : i \in out.reached}))
DraftTotal == Cardinality(bank \cap (PageDraft \cup {SentId[i] : i \in out.stored}))

\* The counters before: read without recovering a session, or not at all.
CountBefore ==
    /\ send.at = "counting"
    /\ \E read \in BOOLEAN :
          send' = [send EXCEPT !.at = "posting", !.quiet = TRUE,
                               !.before = [read |-> read, sent |-> SentTotal,
                                           draft |-> DraftTotal]]
    /\ UNCHANGED <<router, events, del, asked, out, moves>>

\* Variant: the numbers left are tried as well.
GiveUpLate(result) ==
    send' = IF send.next < Numbers
            THEN [send EXCEPT !.at = "counting", !.next = @ + 1, !.result = result]
            ELSE [send EXCEPT !.at = "idle", !.result = result]

GiveUp(result) == send' = [send EXCEPT !.at = "idle", !.result = result]

\* What becomes of a message, answered or not: sent, stored, or nothing.
SendPosts(fate, answered) ==
    /\ send.at = "posting"
    /\ out' = [out EXCEPT ![fate] = @ \cup {send.next}]
    /\ bank' = bank \cup {SentId[send.next]}
    /\ arrived' = arrived \cup {SentId[send.next]}
    /\ IF answered THEN send' = [send EXCEPT !.at = "judging"] ELSE GiveUp("failed")
    /\ UNCHANGED <<doomed, events, del, asked, moves>>

SendFails ==
    /\ send.at \in {"counting", "posting"} /\ GiveUp("failed")
    /\ UNCHANGED <<router, events, del, asked, out, moves>>

\* Only a positive disagreement speaks.
Stored == DraftTotal > send.before.draft /\ SentTotal <= send.before.sent

\* The counters after, judged where both were read; then the next number.
Judge(read) ==
    /\ send.at = "judging"
    /\ IF read /\ send.before.read /\ Stored
       THEN GiveUp("stored") /\ UNCHANGED out
       ELSE /\ send' = [send EXCEPT !.at = IF @ = "judging" /\ send.next < Numbers
                                           THEN "counting" ELSE "idle",
                                    !.named = @ \cup {send.next},
                                    !.next = IF @ < Numbers THEN @ + 1 ELSE @,
                                    !.result = IF send.next < Numbers THEN @ ELSE "done"]
            /\ out' = IF read /\ send.before.read /\ send.quiet THEN out
                      ELSE [out EXCEPT !.unsure = @ \cup {send.next}]
    /\ UNCHANGED <<router, events, del, asked, moves>>

-----------------------------------------------------------------------------
(* The router, its page, and restarts. *)

Stirs(m) == send' = [send EXCEPT !.quiet = @ /\ m \notin Copies]

Arrives(m) ==
    /\ m \notin arrived
    /\ IF m \in Received THEN UNCHANGED moves ELSE Moves
    /\ bank' = bank \cup {m} /\ arrived' = arrived \cup {m}
    /\ Stirs(m)
    /\ UNCHANGED <<doomed, events, del, asked, out>>

RouterDeletes(m) ==
    /\ m \in doomed
    /\ bank' = bank \ {m} /\ doomed' = doomed \ {m}
    /\ Stirs(m)
    /\ UNCHANGED <<arrived, events, del, asked, out, moves>>

\* Nothing of this is stored: neither what was reported nor an action under way.
Restart ==
    /\ Moves
    /\ tracking' = Untracked /\ held' = [has |-> FALSE, list |-> {}]
    /\ fired' = [m \in Ids |-> 0]
    /\ del' = NoDelete /\ asked' = asked \cup del.ids
    /\ send' = IF send.at = "idle" THEN send
               ELSE [send EXCEPT !.at = "idle", !.result = "failed"]
    /\ UNCHANGED <<router, out>>

Init ==
    /\ bank \in SUBSET Received /\ arrived = bank /\ doomed = {}
    /\ tracking = Untracked /\ held = [has |-> FALSE, list |-> {}]
    /\ fired = [m \in Ids |-> 0]
    /\ del = NoDelete /\ asked = {} /\ send = NoSend /\ out = Nobody /\ moves = 0

Polls == PollLists \/ PollHolds
Deletes == DeleteLists \/ (\E b \in BOOLEAN : DeletePosts(b)) \/ DeleteFails \/ Verify

Next ==
    \/ Polls \/ Deletes
    \/ \E keep \in Keeps : DeleteCalled(keep)
    \/ \E m \in Received \cap arrived : DeleteOneCalled(m)
    \/ SendCalled \/ CountBefore \/ SendFails
    \/ \E fate \in {"reached", "stored"}, b \in BOOLEAN : SendPosts(fate, b)
    \/ \E b \in BOOLEAN : Judge(b)
    \/ \E m \in Received \cup PageSent \cup PageDraft : Arrives(m)
    \/ \E m \in Ids : RouterDeletes(m)
    \/ Restart

Spec == Init /\ [][Next]_vars

-----------------------------------------------------------------------------
(* Properties. *)

\* Every list holds messages there were, and both actions are in a stage there is.
TypeOK ==
    /\ bank \subseteq arrived /\ arrived \subseteq Ids /\ doomed \subseteq bank
    /\ tracking \in [last : Nat, seen : SUBSET Ids, there : SUBSET Ids]
    /\ held \in [has : BOOLEAN, list : SUBSET Ids] /\ fired \in [Ids -> Nat]
    /\ del \in [at : {"idle", "listing", "posting", "verifying"}, keep : Keeps \cup {0},
                listed : SUBSET Ids, ids : SUBSET Ids, pass : 0..Passes,
                result : {"none", "done", "failed"}]
    /\ asked \subseteq Ids
    /\ send \in [at : {"idle", "counting", "posting", "judging"}, next : Targets,
                 named : SUBSET Targets, quiet : BOOLEAN,
                 before : [read : BOOLEAN, sent : Nat, draft : Nat],
                 result : {"none", "done", "failed", "stored"}]
    /\ out \in [reached : SUBSET Targets, stored : SUBSET Targets, unsure : SUBSET Targets]
    /\ moves \in 0..MaxMoves

\* No message is reported twice between two starts: not when polls repeat a held
\* list, when messages share a date or arrive out of order, or are deleted.
ReportedOnce == \A m \in Ids : fired[m] <= 1

\* Of the messages the router last listed, the ones not reported are those that
\* were there at first, those without a date, and those dated before another
\* that was reported: none of the latest date is passed over, in whatever order
\* messages arrive, are deleted, or polls fail in between.
NonePassedOver ==
    \A m \in held.list :
        fired[m] = 0 => m \in tracking.there \/ Date[m] = 0 \/ Date[m] < tracking.last

\* A delete reported as done has left nothing of what it was asked to delete,
\* whenever the router carried it out.
DoneIsGone == del.result = "done" => del.ids \cap bank = {}

\* What was told to stay stays: the newest of the list it was chosen from, none
\* of them older than one deleted, whatever arrived since and whatever earlier
\* deletes were carried out late; and nothing goes that no delete asked for.
NewestStay ==
    /\ arrived \ bank \subseteq asked \cup del.ids
    /\ LET kept == del.listed \ del.ids
       IN del.at \in {"posting", "verifying"} \/ del.result # "none" =>
            /\ \A m \in kept, n \in del.ids : Newer(m, n)
            /\ del.ids # {} => Cardinality(kept) = del.keep
            /\ kept \ bank \subseteq asked

\* A send that stopped names everyone who was reached before the number it
\* stopped at, and went on to nobody after it: who repeats it for those not
\* named sends again to one number at most.
NamedAreReached ==
    /\ (out.reached \cup out.stored) \ send.named \subseteq {send.next}
    /\ send.named \subseteq out.reached \cup out.stored

\* A message the router stored instead of sending is never counted as sent, and
\* one it sent is never called stored, unless the counters could not be read or
\* were moved by someone else while the message was under way.
StoredIsTold ==
    /\ send.named \cap out.stored \subseteq out.unsure
    /\ send.result = "stored" /\ send.quiet => send.next \in out.stored

\* Every message is reported once and none of the latest is passed over, and
\* the state has its types.
ReportsOwed == TypeOK /\ ReportedOnce /\ NonePassedOver

\* A delete that is reported done is done, and takes only what it was given.
DeletesKeep == DoneIsGone /\ NewestStay

\* What a send reports of each number is what became of it.
SendsAreTold == NamedAreReached /\ StoredIsTold
=============================================================================
