----------------------------- MODULE MCMessages -----------------------------
EXTENDS Messages, TLC

\* Two messages of one date; the copies of those sent are dated before and after
\* it, and a draft's date cannot be read.
MCDate == (1 :> 2) @@ (2 :> 2) @@ (3 :> 1) @@ (4 :> 3) @@ (5 :> 0)
MCSentId == <<3, 4>>
=============================================================================
