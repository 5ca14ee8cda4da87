------------------------- MODULE MCEpidemicSession -------------------------
(* Small instances of EpidemicSession. Two agents that meet again and again, *)
(* with a bundle each way or for somebody else, or three agents of which one *)
(* relays a bundle.                                                          *)
EXTENDS EpidemicSession

CONSTANTS
    hi, mid, lo,      \* agents, by decreasing rule
    b1, b2            \* bundles

Rules == [n \in Nodes |-> IF n = hi THEN 3 ELSE IF n = mid THEN 2 ELSE 1]

\* b1 is for the agent with the higher rule, b2 for the one with the lower.
Sources == [b \in Bundles |-> IF b = b1 THEN lo ELSE hi]
Destinations == [b \in Bundles |-> IF b = b1 THEN hi ELSE lo]

\* Everybody hears everybody, or only the agents next to mid are in range.
All == Nodes \X Nodes
Chain == {<<m, n>> \in Nodes \X Nodes : m # n /\ mid \in {m, n}}
=============================================================================
