------------------------ MODULE NeighborTableProofs ------------------------
(***************************************************************************)
(* Proofs about NeighborTable, for any set of nodes, limit and interval.   *)
(***************************************************************************)
EXTENDS NeighborTable, FiniteSetTheorems, TLAPS

\* A walk only takes entries out, expired ones, and the sizes add up.
LEMMA SweptLemma ==
    ASSUME neighborsMap \subseteq Nodes, NEW T \in Swept
    PROVE  /\ T \subseteq neighborsMap
           /\ neighborsMap \ T \subseteq Expired
           /\ IsFiniteSet(neighborsMap) /\ IsFiniteSet(T)
           /\ Cardinality(T) \in Nat /\ Cardinality(neighborsMap) \in Nat
           /\ Cardinality(neighborsMap \ T) = Cardinality(neighborsMap) - Cardinality(T)
           /\ Cardinality(T) <= Cardinality(neighborsMap)
<1>1. /\ T \subseteq neighborsMap
      /\ neighborsMap \ T \subseteq Expired
  <2>1. CASE Expired = {}
    BY <2>1 DEF Swept
  <2>2. CASE Expired # {}
    BY <2>2 DEF Swept
  <2> QED  BY <2>1, <2>2
<1>2. IsFiniteSet(neighborsMap) /\ IsFiniteSet(T)
  BY <1>1, NeighborAssumption, FS_Subset
<1>3. Cardinality(T) \in Nat /\ Cardinality(neighborsMap) \in Nat
  BY <1>2, FS_CardinalityType
<1>4. Cardinality(neighborsMap \ T) =
          Cardinality(neighborsMap) - Cardinality(neighborsMap \cap T)
  BY <1>2, FS_Difference
<1>5. neighborsMap \cap T = T
  BY <1>1
<1>6. Cardinality(T) <= Cardinality(neighborsMap)
  BY <1>1, <1>2, FS_Subset
<1> QED  BY <1>1, <1>2, <1>3, <1>4, <1>5, <1>6

\* Entering a node makes a table larger by what it lacks.
LEMMA EnterLemma ==
    ASSUME NEW T, IsFiniteSet(T), NEW n
    PROVE  /\ Cardinality(T \cup {n}) = Cardinality(T) + Cardinality({n} \ T)
           /\ Cardinality({n} \ T) \in 0..1
<1>0. Cardinality(T) \in Nat
  BY FS_CardinalityType
<1>1. CASE n \in T
  <2>1. T \cup {n} = T /\ {n} \ T = {}
    BY <1>1
  <2>2. Cardinality({n} \ T) = 0
    BY <2>1, FS_EmptySet
  <2>3. Cardinality(T \cup {n}) = Cardinality(T)
    BY <2>1
  <2> QED  BY <2>2, <2>3, <1>0
<1>2. CASE n \notin T
  <2>1. {n} \ T = {n}
    BY <1>2
  <2>2. Cardinality({n}) = 1
    BY FS_Singleton
  <2>3. Cardinality(T \cup {n}) = Cardinality(T) + 1
    BY <1>2, FS_AddElement
  <2> QED  BY <2>1, <2>2, <2>3
<1> QED  BY <1>1, <1>2

LEMMA OlderLemma ==
    ASSUME NEW f \in [Nodes -> Ages]
    PROVE  Older(f) \in [Nodes -> Ages]
<1>1. Interval \in Nat
  BY NeighborAssumption
<1> QED  BY <1>1 DEF Older, Ages

-----------------------------------------------------------------------------

\* While the table has room, the dates in it are those of the last hellos, and
\* who is not in it has been silent for the interval.
DatesTrue ==
    Roomy => /\ \A n \in neighborsMap : age[n] = silent[n]
             /\ \A n \in Nodes \ neighborsMap : silent[n] > Interval

TableInv == TypeOK /\ NeighborsCounted /\ DatesTrue

LEMMA TableInvInit == Init => TableInv
<1> SUFFICES ASSUME Init PROVE TableInv
  OBVIOUS
<1>1. Interval \in Nat /\ Limits \subseteq Nat
  BY NeighborAssumption
<1>2. Cardinality({}) = 0
  BY FS_EmptySet
<1>3. TypeOK
  BY <1>1, <1>2 DEF Init, TypeOK, Ages, Steps
<1>4. NeighborsCounted
  BY <1>2 DEF Init, NeighborsCounted
<1>5. DatesTrue
  BY <1>1 DEF Init, DatesTrue
<1> QED  BY <1>3, <1>4, <1>5 DEF TableInv

\* A hello, with the table T that the walk left.
LEMMA HelloLemma ==
    ASSUME TableInv, NEW n \in Nodes, NEW T \in Swept, add_neighbor(T, n),
           max_neighbors' = max_neighbors,
           silent' = [silent EXCEPT ![n] = 0]
    PROVE  /\ neighborsMap' \subseteq Nodes
           /\ Cardinality(neighborsMap') <= max_neighbors
           /\ age' \in [Nodes -> Ages]
           /\ NeighborsCounted'
           /\ DatesTrue'
           /\ Roomy => /\ \A k \in neighborsMap \ neighborsMap' : silent[k] > Interval
                       /\ n \notin T => silent[n] > Interval
<1>1. /\ neighborsMap \subseteq Nodes /\ Cardinality(neighborsMap) <= max_neighbors
      /\ age \in [Nodes -> Ages] /\ silent \in [Nodes -> Ages]
      /\ max_neighbors \in Nat /\ Interval \in Nat
      /\ number_of_neighbors = Cardinality(neighborsMap)
  BY NeighborAssumption DEF TableInv, TypeOK, NeighborsCounted
<1>2. /\ T \subseteq neighborsMap
      /\ neighborsMap \ T \subseteq Expired
      /\ IsFiniteSet(T)
      /\ Cardinality(T) \in Nat /\ Cardinality(neighborsMap) \in Nat
      /\ Cardinality(neighborsMap \ T) = Cardinality(neighborsMap) - Cardinality(T)
      /\ Cardinality(T) <= Cardinality(neighborsMap)
  BY <1>1, SweptLemma
<1>3. /\ Cardinality(T \cup {n}) = Cardinality(T) + Cardinality({n} \ T)
      /\ Cardinality({n} \ T) \in 0..1
  BY <1>2, EnterLemma
<1>4. /\ neighborsMap' \subseteq Nodes
      /\ Cardinality(neighborsMap') <= max_neighbors
      /\ age' \in [Nodes -> Ages]
      /\ NeighborsCounted'
  <2>1. CASE Cardinality(T) = max_neighbors
    <3>1. /\ neighborsMap' = T /\ age' = age
          /\ number_of_neighbors' =
                number_of_neighbors - Cardinality(neighborsMap \ T)
      BY <2>1 DEF add_neighbor
    <3> QED  BY <1>1, <1>2, <3>1 DEF NeighborsCounted
  <2>2. CASE Cardinality(T) # max_neighbors
    <3>1. /\ neighborsMap' = T \cup {n} /\ age' = [age EXCEPT ![n] = 0]
          /\ number_of_neighbors' = number_of_neighbors
                - Cardinality(neighborsMap \ T) + Cardinality({n} \ T)
      BY <2>2 DEF add_neighbor
    <3>2. neighborsMap' \subseteq Nodes
      BY <1>1, <1>2, <3>1
    <3>3. age' \in [Nodes -> Ages]
      BY <1>1, <3>1 DEF Ages
    <3>4. Cardinality(neighborsMap') <= max_neighbors
      BY <1>1, <1>2, <1>3, <2>2, <3>1
    <3>5. NeighborsCounted'
      BY <1>1, <1>2, <1>3, <3>1 DEF NeighborsCounted
    <3> QED  BY <3>2, <3>3, <3>4, <3>5
  <2> QED  BY <2>1, <2>2
<1>5. ASSUME Roomy
      PROVE  /\ DatesTrue'
             /\ \A k \in neighborsMap \ neighborsMap' : silent[k] > Interval
             /\ n \notin T => silent[n] > Interval
  <2>1. /\ \A k \in neighborsMap : age[k] = silent[k]
        /\ \A k \in Nodes \ neighborsMap : silent[k] > Interval
    BY <1>5 DEF TableInv, DatesTrue
  <2>2. \A k \in Nodes \ T : silent[k] > Interval
    BY <1>1, <1>2, <2>1 DEF Expired
  <2>3. Cardinality(T) # max_neighbors
    <3>1. Cardinality(T) <= Cardinality(Nodes) /\ Cardinality(Nodes) \in Nat
      BY <1>1, <1>2, NeighborAssumption, FS_Subset, FS_CardinalityType
    <3> QED  BY <1>1, <1>2, <1>5, <3>1 DEF Roomy
  <2>4. neighborsMap' = T \cup {n} /\ age' = [age EXCEPT ![n] = 0]
    BY <2>3 DEF add_neighbor
  <2>5. DatesTrue'
    BY <1>1, <1>2, <2>1, <2>2, <2>4 DEF DatesTrue
  <2> QED  BY <1>1, <2>2, <2>4, <2>5
<1>6. ~Roomy => DatesTrue'
  BY DEF DatesTrue, Roomy
<1> QED  BY <1>4, <1>5, <1>6

LEMMA TableInvStep == TableInv /\ [Next]_vars => TableInv'
<1> SUFFICES ASSUME TableInv, [Next]_vars PROVE TableInv'
  OBVIOUS
<1>0. /\ neighborsMap \subseteq Nodes /\ Cardinality(neighborsMap) <= max_neighbors
      /\ age \in [Nodes -> Ages] /\ silent \in [Nodes -> Ages]
      /\ max_neighbors \in Nat /\ Interval \in Nat
      /\ number_of_neighbors = Cardinality(neighborsMap)
  BY NeighborAssumption DEF TableInv, TypeOK, NeighborsCounted
<1>1. CASE check_neighbors
  <2> PICK T \in Swept : /\ neighborsMap' = T
                         /\ number_of_neighbors' =
                               number_of_neighbors - Cardinality(neighborsMap \ T)
    BY <1>1 DEF check_neighbors
  <2>1. /\ T \subseteq neighborsMap
        /\ neighborsMap \ T \subseteq Expired
        /\ Cardinality(T) \in Nat /\ Cardinality(neighborsMap) \in Nat
        /\ Cardinality(neighborsMap \ T) = Cardinality(neighborsMap) - Cardinality(T)
        /\ Cardinality(T) <= Cardinality(neighborsMap)
    BY <1>0, SweptLemma
  <2>2. TypeOK'
    BY <1>0, <1>1, <2>1 DEF check_neighbors, TableInv, TypeOK, Steps
  <2>3. NeighborsCounted'
    BY <1>0, <2>1 DEF NeighborsCounted
  <2>4. DatesTrue'
    BY <1>0, <1>1, <2>1 DEF check_neighbors, TableInv, DatesTrue, Roomy, Expired
  <2> QED  BY <2>2, <2>3, <2>4 DEF TableInv
<1>2. CASE check_neighbors_crash
  BY <1>2 DEF check_neighbors_crash, TableInv, TypeOK, NeighborsCounted, DatesTrue,
              Roomy, Steps
<1>3. ASSUME NEW n \in Nodes, recvHello(n) PROVE TableInv'
  <2> PICK T \in Swept :
        /\ last' = [op |-> IF n \in T THEN "refresh" ELSE "meeting", node |-> n]
        /\ add_neighbor(T, n)
    BY <1>3 DEF recvHello
  <2>1. /\ neighborsMap' \subseteq Nodes
        /\ Cardinality(neighborsMap') <= max_neighbors
        /\ age' \in [Nodes -> Ages]
        /\ NeighborsCounted'
        /\ DatesTrue'
    BY <1>3, HelloLemma DEF recvHello
  <2>2. last' \in Steps
    BY DEF Steps
  <2>3. silent' \in [Nodes -> Ages]
    BY <1>0, <1>3 DEF recvHello, Ages
  <2>4. number_of_neighbors' \in Int
    <3>1. IsFiniteSet(neighborsMap')
      BY <2>1, NeighborAssumption, FS_Subset
    <3> QED  BY <2>1, <3>1, FS_CardinalityType DEF NeighborsCounted
  <2>5. TypeOK'
    BY <1>3, <2>1, <2>2, <2>3, <2>4 DEF recvHello, TableInv, TypeOK
  <2> QED  BY <2>1, <2>5 DEF TableInv
<1>4. CASE Tick
  <2>1. age' \in [Nodes -> Ages] /\ silent' \in [Nodes -> Ages]
    BY <1>0, <1>4, OlderLemma DEF Tick
  <2>2. TypeOK'
    BY <1>4, <2>1 DEF Tick, TableInv, TypeOK, Steps
  <2>3. NeighborsCounted'
    BY <1>4 DEF Tick, TableInv, NeighborsCounted
  <2>4. DatesTrue'
    BY <1>0, <1>4 DEF Tick, Older, Ages, TableInv, DatesTrue, Roomy
  <2> QED  BY <2>2, <2>3, <2>4 DEF TableInv
<1>5. CASE UNCHANGED vars
  BY <1>5 DEF vars, TableInv, TypeOK, NeighborsCounted, DatesTrue, Roomy
<1> QED  BY <1>1, <1>2, <1>3, <1>4, <1>5 DEF Next

LEMMA TableInvHolds == Spec => []TableInv
<1> QED  BY TableInvInit, TableInvStep, PTL DEF Spec

-----------------------------------------------------------------------------

\* check_neighbors and add_neighbor keep the table within max_neighbors, and
\* every variable in its type.
THEOREM TableTyped == Spec => []TypeOK
<1>1. TableInv => TypeOK
  BY DEF TableInv
<1> QED  BY <1>1, TableInvHolds, PTL

\* number_of_neighbors, which the code adjusts by hand on every insertion and
\* erasure, is the size of the map whatever part of it a walk visits.
THEOREM TableCounted == Spec => []NeighborsCounted
<1>1. TableInv => NeighborsCounted
  BY DEF TableInv
<1> QED  BY <1>1, TableInvHolds, PTL

\* With room for all nodes, check_neighbors eliminates only nodes that were
\* silent for the interval, and recvHello opens a session only with such a node.
THEOREM TableKeeps == Spec => KeptAndMetOnce
<1> DEFINE Right == Roomy => /\ Kept
                             /\ last'.op = "meeting" => silent[last'.node] > Interval
<1>1. TableInv /\ [Next]_vars => [Right]_vars
  <2> SUFFICES ASSUME TableInv, Next, Roomy
               PROVE  /\ \A n \in neighborsMap \ neighborsMap' : silent[n] > Interval
                      /\ last'.op = "meeting" => silent[last'.node] > Interval
    BY DEF Kept
  <2>0. neighborsMap \subseteq Nodes /\ \A n \in neighborsMap : age[n] = silent[n]
    BY DEF TableInv, TypeOK, DatesTrue
  <2>1. CASE check_neighbors
    <3>1. neighborsMap \ neighborsMap' \subseteq Expired
      BY <2>0, <2>1, SweptLemma DEF check_neighbors
    <3> QED  BY <2>0, <2>1, <3>1 DEF check_neighbors, Expired
  <2>2. CASE check_neighbors_crash
    BY <2>2 DEF check_neighbors_crash
  <2>3. ASSUME NEW n \in Nodes, recvHello(n)
        PROVE  /\ \A k \in neighborsMap \ neighborsMap' : silent[k] > Interval
               /\ last'.op = "meeting" => silent[last'.node] > Interval
    <3> PICK T \in Swept :
          /\ last' = [op |-> IF n \in T THEN "refresh" ELSE "meeting", node |-> n]
          /\ add_neighbor(T, n)
      BY <2>3 DEF recvHello
    <3>1. /\ \A k \in neighborsMap \ neighborsMap' : silent[k] > Interval
          /\ n \notin T => silent[n] > Interval
      BY <2>3, HelloLemma DEF recvHello
    <3> QED  BY <3>1
  <2>4. CASE Tick
    BY <2>4 DEF Tick
  <2> QED  BY <2>1, <2>2, <2>3, <2>4 DEF Next
<1> QED  BY <1>1, TableInvHolds, PTL DEF Spec, KeptAndMetOnce
=============================================================================
