----------------------------- MODULE MCSettings -----------------------------
EXTENDS Settings, TLC

\* One profile, two in either order, and none that matches.
MCStored == {(1 :> "a") @@ (2 :> None), (1 :> "b") @@ (2 :> "a")}
=============================================================================
