----------------------------- MODULE MCDiscovery -----------------------------
EXTENDS Discovery, TLC

Kinds == ("h" :> "held") @@ ("q" :> "silent") @@ ("r" :> "refused") @@ ("p" :> "slow")

\* The device the constant was measured on, one that serves a sentinel to anyone,
\* one that serves all it holds, and one that leaves most keys out.
MCDevices ==
    {[held |-> k[1], free |-> k[2], omits |-> k[3], bound |-> b, names |-> Kinds] :
        b \in BOOLEAN,
        k \in {<<{"s", "t", "f", "e"}, {"f"}, {}>>,
               <<{"s", "t", "e", "g"}, {"s", "g"}, {}>>,
               <<{"s", "t", "g"}, {"s", "t", "g"}, {}>>,
               <<{"s", "f"}, {"f"}, {"t", "e", "g"}>>}}
=============================================================================
