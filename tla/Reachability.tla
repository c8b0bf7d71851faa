---------------------------- MODULE Reachability ----------------------------
(***************************************************************************)
(* What the poll cycle promises of a router that does not answer, with no    *)
(* word of polls, stages or flags: entities keep their values for Limit      *)
(* missed polls, the repair is up from UnreachableLimit of them on, and one   *)
(* answer ends both.  Counting stops where it makes no more difference.      *)
(***************************************************************************)
EXTENDS Integers

CONSTANTS Limit,                \* FETCH_STRIKE_LIMIT
          UnreachableLimit      \* UNREACHABLE_STRIKE_LIMIT

VARIABLES missed,   \* polls missed since the router last answered one
          known,    \* something has been read, or a paused start stands for it
          up,       \* the entities are available
          card      \* the unreachable repair is raised

vars == <<missed, known, up, card>>

Init == missed = 0 /\ ~known /\ ~up /\ ~card

Counted(n) == IF n < UnreachableLimit THEN n + 1 ELSE n

\* An answer ends the count and the repair at once, whatever comes after it.
Answer == missed' = 0 /\ card' = FALSE /\ UNCHANGED <<known, up>>

\* The answer's values are shown.
Show == missed = 0 /\ known' = TRUE /\ up' = TRUE /\ UNCHANGED <<missed, card>>

Miss ==
    /\ missed' = Counted(missed)
    /\ card' = (missed' >= UnreachableLimit)
    /\ up' = (known /\ missed' <= Limit)
    /\ UNCHANGED known

\* Under paused polling a forced poll that is missed, or a closing one before
\* anything was read, may leave nothing at all, and available.
EmptyWhilePaused ==
    /\ \/ missed' = Counted(missed) /\ card' = (missed' >= UnreachableLimit)
       \/ ~known /\ UNCHANGED <<missed, card>>
    /\ known' = TRUE /\ up' = TRUE

\* A poll that is skipped, or that only tried to close an outage window, shows
\* what is held, if anything is.
Skip == up' = known /\ UNCHANGED <<missed, known, card>>

\* An unload takes the repair along; after a restart nothing is known.
Withdraw == card' = FALSE /\ UNCHANGED <<missed, known, up>>
Start == missed' = 0 /\ ~known' /\ ~up' /\ ~card'

Next == Answer \/ Show \/ Miss \/ EmptyWhilePaused \/ Skip \/ Withdraw \/ Start

Spec == Init /\ [][Next]_vars
=============================================================================
