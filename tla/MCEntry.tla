------------------------------ MODULE MCEntry ------------------------------
EXTENDS EntryLifecycle

CONSTANTS h1, h2, s1, s2, reconfigure, options_form

MCSecrets == {s1, s2}
MCFlows == {reconfigure, options_form}
MCSelfReloading == {reconfigure}
MCEntered == [f \in MCFlows |-> IF f = reconfigure THEN {h2} ELSE {h1}]
MCCreated == [host |-> h1, secret |-> s1, interval |-> 180]
=============================================================================
