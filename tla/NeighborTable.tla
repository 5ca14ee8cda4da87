--------------------------- MODULE NeighborTable ---------------------------
(***************************************************************************)
(* The neighbor table of one agent (DtnNeighborsManager) and how the       *)
(* hellos of the other nodes drive it (BundleManager::recvHello and        *)
(* exist_neighbor).                                                        *)
(*                                                                         *)
(* Time passes in ticks and is kept as the age of each arrival date, no    *)
(* further than one past the interval after which an entry expires.        *)
(*                                                                         *)
(* check_neighbors erases an expired entry through its iterator and then   *)
(* increments that iterator, which is undefined: the walk over the map     *)
(* goes on with some live entry, before or after the erased one, stops, or *)
(* crashes.  So the first expired entry is always erased and of the others *)
(* any may stay.                                                           *)
(***************************************************************************)
EXTENDS Integers, FiniteSets

CONSTANTS
    Nodes,          \* names of the other nodes, numbered in the map's order
    Limits,         \* the values of max_neighbors that are explored
    Interval        \* neighbors_check_interval, in ticks

ASSUME NeighborAssumption ==
    /\ Nodes \subseteq Nat /\ IsFiniteSet(Nodes)
    /\ Limits \subseteq Nat
    /\ Interval \in Nat

VARIABLES
    max_neighbors,          \* configured once, before the agent runs
    neighborsMap,           \* names in the table
    age,                    \* TIME_IS - arrival_date_ of an entry
    number_of_neighbors,
    silent,                 \* ticks since the last hello of a node was heard
    last,                   \* the last step, for the properties
    up                      \* FALSE after a crash

vars == <<max_neighbors, neighborsMap, age, number_of_neighbors, silent, last,
          up>>

Ages == 0 .. Interval + 1
Steps == [op : {"none", "tick", "check", "crash"}]
         \cup [op : {"meeting", "refresh"}, node : Nodes]

TypeOK ==
    /\ max_neighbors \in Limits
    /\ neighborsMap \subseteq Nodes
    /\ Cardinality(neighborsMap) <= max_neighbors
    /\ age \in [Nodes -> Ages]
    /\ number_of_neighbors \in Int
    /\ silent \in [Nodes -> Ages]
    /\ last \in Steps
    /\ up \in BOOLEAN

Init ==
    /\ max_neighbors \in Limits
    /\ neighborsMap = {}
    /\ age = [n \in Nodes |-> 0]
    /\ number_of_neighbors = 0
    /\ silent = [n \in Nodes |-> Interval + 1]
    /\ last = [op |-> "none"]
    /\ up = TRUE

-----------------------------------------------------------------------------
(* The walk over the map. *)

\* Faulty variant of Expired: an entry expires a tick early.
Expired_early == {n \in neighborsMap : age[n] >= Interval}

\* Faulty variant of Expired: an entry expires a tick late, never in Ages.
Expired_late == {n \in neighborsMap : age[n] > Interval + 1}

Expired == {n \in neighborsMap : age[n] > Interval}

\* The tables a walk may leave.
Swept ==
    IF Expired = {} THEN {neighborsMap}
    ELSE {T \in SUBSET neighborsMap :
             /\ neighborsMap \ Expired \subseteq T
             /\ \E n \in Expired \ T : \A k \in Expired : n <= k}

\* Faulty variant of check_neighbors: the counter is forgotten.
check_neighbors_uncounted ==
    /\ up
    /\ neighborsMap' \in Swept
    /\ last' = [op |-> "check"]
    /\ UNCHANGED <<max_neighbors, age, number_of_neighbors, silent, up>>

\* The timer of the table, or any message that asks whether its sender is a
\* neighbor.
check_neighbors ==
    /\ up
    /\ \E T \in Swept :
          /\ neighborsMap' = T
          /\ number_of_neighbors' =
                number_of_neighbors - Cardinality(neighborsMap \ T)
    /\ last' = [op |-> "check"]
    /\ UNCHANGED <<max_neighbors, age, silent, up>>

\* The walk reads the freed entry and fails.
check_neighbors_crash ==
    /\ up /\ Expired # {}
    /\ up' = FALSE
    /\ last' = [op |-> "crash"]
    /\ UNCHANGED <<max_neighbors, neighborsMap, age, number_of_neighbors, silent>>

-----------------------------------------------------------------------------
(* Hellos. *)

\* Faulty variant of add_neighbor: the table has no limit.
add_neighbor_unlimited(T, n) ==
    /\ neighborsMap' = T \cup {n}
    /\ number_of_neighbors' = number_of_neighbors
          - Cardinality(neighborsMap \ T) + Cardinality({n} \ T)
    /\ age' = [age EXCEPT ![n] = 0]

\* n is entered into the table T that the walk left, or its date brought up to
\* date. A full table refuses both.
add_neighbor(T, n) ==
    \/ /\ Cardinality(T) = max_neighbors
       /\ neighborsMap' = T
       /\ number_of_neighbors' = number_of_neighbors
             - Cardinality(neighborsMap \ T)
       /\ UNCHANGED age
    \/ /\ Cardinality(T) # max_neighbors
       /\ neighborsMap' = T \cup {n}
       /\ number_of_neighbors' = number_of_neighbors
             - Cardinality(neighborsMap \ T) + Cardinality({n} \ T)
       /\ age' = [age EXCEPT ![n] = 0]

\* A hello of n: a meeting, with a session and an anti-packet (module
\* EpidemicSession), unless n is in the table after the walk.
recvHello(n) ==
    /\ up
    /\ \E T \in Swept :
          /\ last' = [op |-> IF n \in T THEN "refresh" ELSE "meeting",
                      node |-> n]
          /\ add_neighbor(T, n)
    /\ silent' = [silent EXCEPT ![n] = 0]
    /\ UNCHANGED <<max_neighbors, up>>

Older(f) == [n \in Nodes |-> IF f[n] <= Interval THEN f[n] + 1 ELSE f[n]]

Tick ==
    /\ up
    /\ age' = Older(age)
    /\ silent' = Older(silent)
    /\ last' = [op |-> "tick"]
    /\ UNCHANGED <<max_neighbors, neighborsMap, number_of_neighbors, up>>

Next ==
    \/ check_neighbors
    \/ check_neighbors_crash
    \/ \E n \in Nodes : recvHello(n)
    \/ Tick

Spec == Init /\ [][Next]_vars

\* check_neighbors reschedules its own timer, and time passes.
FairSpec == Spec /\ WF_vars(check_neighbors) /\ WF_vars(Tick)

-----------------------------------------------------------------------------
(* Properties. *)

\* number_of_neighbors is the size of the map, over every walk, hello and
\* refusal.
NeighborsCounted == number_of_neighbors = Cardinality(neighborsMap)

\* The table never fills up.
Roomy == max_neighbors > Cardinality(Nodes)

\* check_neighbors eliminates a neighbor only if it is out of range: no hello
\* of it was heard for the interval.
Kept == \A n \in neighborsMap \ neighborsMap' : silent[n] > Interval

\* In a table that never fills up a neighbor that is heard is kept and, for the
\* counterpart, a node that stays in range is met once, so that a session is
\* opened only with a node that was not heard for the interval. (A full table
\* refuses to renew arrival dates, and loses neighbors in range.)
KeptAndMetOnce ==
    [][Roomy => /\ Kept
                /\ last'.op = "meeting" => silent[last'.node] > Interval]_vars

\* When nothing is heard any more, the table is emptied in the end, one walk
\* after the other, although every walk may leave expired entries behind.
QuietEmpties ==
    ([](\A n \in Nodes : silent[n] > Interval))
        ~> (neighborsMap = {} \/ ~up)
=============================================================================
