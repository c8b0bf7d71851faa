----------------------------- MODULE MCPollPlan -----------------------------
EXTENDS PollPlan, TLC

CONSTANTS e1, e2, f1, f2

\* e1 has a spelling for each firmware, one of them a 5G name, which the other
\* firmware fills with something e1 rejects; once e1 has a value it reads a name
\* that is otherwise e2's.
MCSpellings == (e1 :> {2, 3}) @@ (e2 :> {4})
MCBehind == (e1 :> {4}) @@ (e2 :> {})
MCGives == (f1 :> <<"good", "", "good", "good">>)
        @@ (f2 :> <<"good", "good", "bad", "">>)
=============================================================================
