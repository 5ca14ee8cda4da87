--------------------------- MODULE BundleService ---------------------------
(***************************************************************************)
(* What the network of agents promises for a bundle, without saying how    *)
(* the agents exchange it: it is created once by its source, it may be     *)
(* copied only while a copy of it exists, it reaches the application at    *)
(* its destination at most once, and no agent takes it for delivered       *)
(* before it is.                                                           *)
(***************************************************************************)
CONSTANTS Nodes, Bundles

VARIABLES
    created,     \* the bundles their sources have made
    alive,       \* those of which a copy exists, in a buffer or in flight
    delivered,   \* those the application at the destination has received
    known        \* known[n]: those n takes for delivered

svars == <<created, alive, delivered, known>>

SInit ==
    /\ created = {} /\ alive = {} /\ delivered = {}
    /\ known = [n \in Nodes |-> {}]

Create(b) ==
    /\ b \notin created
    /\ created' = created \cup {b}
    /\ alive' = alive \cup {b}
    /\ UNCHANGED <<delivered, known>>

\* The destination's application gets b; this may have been the last copy.
Deliver(b, n) ==
    /\ b \in alive \ delivered
    /\ delivered' = delivered \cup {b}
    /\ known' = [known EXCEPT ![n] = @ \cup {b}]
    /\ alive' \in {alive, alive \ {b}}
    /\ UNCHANGED created

\* The last copies of the bundles in S disappear.
Vanish(S) ==
    /\ alive' = alive \ S
    /\ UNCHANGED <<created, delivered, known>>

\* n learns that the bundles in S are delivered; its copies may be the last.
Learn(n, S) ==
    /\ S \subseteq delivered
    /\ known' = [known EXCEPT ![n] = @ \cup S]
    /\ alive' \subseteq alive
    /\ UNCHANGED <<created, delivered>>

SNext ==
    \/ \E b \in Bundles : Create(b)
    \/ \E b \in Bundles, n \in Nodes : Deliver(b, n)
    \/ \E S \in SUBSET Bundles : Vanish(S)
    \/ \E n \in Nodes, S \in SUBSET Bundles : Learn(n, S)

SSpec == SInit /\ [][SNext]_svars
=============================================================================
