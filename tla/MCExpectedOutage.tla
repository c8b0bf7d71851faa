------------------------- MODULE MCExpectedOutage -------------------------
(* Instances of ExpectedOutage for TLC. *)
EXTENDS ExpectedOutage

\* One tick to see the return and one to spare; a data window first needs one to
\* see the drop.
MCCap == [r \in Reasons |-> IF r = "data" THEN 3 ELSE 2]
===========================================================================
