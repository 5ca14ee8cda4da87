------------------------- MODULE BundleBufferProofs -------------------------
(***************************************************************************)
(* Proofs about the buffer of one agent, for every capacity, every set of  *)
(* sources and ids, every drop policy and every cleaning interval.         *)
(***************************************************************************)
EXTENDS BundleBuffer, FiniteSetTheorems, FunctionTheorems,
        WellFoundedInduction, TLAPS

(* Facts about the operators of the model. *)

\* Bringing entries up to date keeps their ids and positions, so it neither
\* merges nor loses entries.
LEMMA RefreshLemma ==
    ASSUME TypeOK, NoDuplicateIds, NEW S \in SUBSET store
    PROVE  LET T == {update_elapsed_time(e) : e \in S}
           IN  /\ IsFiniteSet(T)
               /\ Cardinality(T) = Cardinality(S)
<1> DEFINE T == {update_elapsed_time(e) : e \in S}
           f == [e \in S |-> update_elapsed_time(e)]
<1>1. \A e \in S : update_elapsed_time(e).id = e.id
  BY DEF TypeOK, BundleStore, update_elapsed_time
<1>2. f \in Bijection(S, T)
  <2>1. f \in [S -> T]
    OBVIOUS
  <2>2. \A x, y \in S : f[x] = f[y] => x = y
    BY <1>1 DEF NoDuplicateIds
  <2>3. \A t \in T : \E x \in S : f[x] = t
    OBVIOUS
  <2> QED
    BY <2>1, <2>2, <2>3, Fun_IsBij
<1>3. ExistsBijection(S, T)
  BY <1>2 DEF ExistsBijection
<1>4. IsFiniteSet(S)
  BY FS_Subset DEF TypeOK
<1> QED
  BY <1>3, <1>4, FS_Bijection

\* The entry made for a new bundle is well typed.
LEMMA NewEntryLemma ==
    ASSUME TypeOK, NEW b \in Bundle
    PROVE  /\ NewEntry(b) \in BundleStore
           /\ NewEntry(b).id = b.id
           /\ NewEntry(b).pos = arrivals + 1
           /\ NewEntry(b).stamp = now
           /\ NewEntry(b).elapsed = b.elapsed
BY BufferAssumption DEF TypeOK, Bundle, BundleStore, NewEntry

\* An entry that is brought up to date is well typed.
LEMMA UpdateLemma ==
    ASSUME TypeOK, NEW e \in store, e.stamp <= now
    PROVE  /\ update_elapsed_time(e) \in BundleStore
           /\ update_elapsed_time(e).id = e.id
           /\ update_elapsed_time(e).pos = e.pos
           /\ update_elapsed_time(e).stamp = now
           /\ update_elapsed_time(e).elapsed = e.elapsed + (now - e.stamp)
<1>1. e \in BundleStore /\ now \in Nat
  BY DEF TypeOK
<1>2. Age(e) \in Nat /\ Age(e) = e.elapsed + (now - e.stamp)
  BY <1>1 DEF Age, BundleStore
<1>3. (e.spray /\ Age(e) <= MaxSpryingTime) \in BOOLEAN
  OBVIOUS
<1> QED
  BY <1>1, <1>2, <1>3 DEF BundleStore, update_elapsed_time

\* Whatever the drop policy, congestion has one of two outcomes: the new
\* bundle takes the place of one entry of the list, or the list is unchanged;
\* only drop tail and an unknown policy touch the semaphore or the status.
LEMMA DropLemma ==
    ASSUME TypeOK, NEW b \in Bundle, drop(b)
    PROVE  \/ \E v \in store : Replace(v, b)
           \/ /\ UNCHANGED <<store, arrivals>>
              /\ buffer_sem' \in {0, buffer_sem}
              /\ status' \in {status, "crashed"}
              /\ drop_policie \in 2..9 => UNCHANGED <<buffer_sem, status>>
<1> DEFINE Outcome ==
              \/ \E v \in store : Replace(v, b)
              \/ Discard
<1>a. \A S \in SUBSET store : OrFront(S) \subseteq store
  BY DEF OrFront, Front, First
<1>b. Foreign \in SUBSET store
  BY DEF Foreign
<1>c. get_youngest_message \subseteq store
  BY <1>a, <1>b DEF get_youngest_message
<1>d. get_oldest_message \subseteq store
  BY <1>a, <1>b DEF get_oldest_message
<1>e. \A m : OrFront(smallest_metric(m)) \subseteq store
  BY <1>a, <1>b DEF smallest_metric
<1>f. Outcome => 
           \/ \E v \in store : Replace(v, b)
           \/ /\ UNCHANGED <<store, arrivals>>
              /\ buffer_sem' \in {0, buffer_sem}
              /\ status' \in {status, "crashed"}
              /\ drop_policie \in 2..9 => UNCHANGED <<buffer_sem, status>>
  BY DEF Discard
<1>1. CASE drop_policie = 1 /\ add_with_drop_tail(b)
  <2>1. CASE \E v \in Last(Foreign) : Replace(v, b)
    BY <2>1, <1>b DEF Last
  <2>2. CASE Discard
    BY <2>2, <1>f
  <2>3. CASE /\ status' = "crashed" /\ buffer_sem' = 0
             /\ UNCHANGED <<store, arrivals>>
    BY <1>1, <2>3
  <2> QED
    BY <1>1, <2>1, <2>2, <2>3 DEF add_with_drop_tail
<1>2. CASE drop_policie = 2 /\ add_with_drop_from_front(b)
  BY <1>2, <1>a, <1>b, <1>f DEF add_with_drop_from_front
<1>3. CASE drop_policie = 3 /\ add_with_drop_youngest_message(b)
  BY <1>3, <1>c, <1>f DEF add_with_drop_youngest_message
<1>4. CASE drop_policie = 4 /\ add_with_drop_oldest_message(b)
  BY <1>4, <1>d, <1>f DEF add_with_drop_oldest_message
<1>5. CASE \E m \in [Ids -> Metrics] : add_by_metric(b, m)
  BY <1>5, <1>e, <1>f DEF add_by_metric
<1>6. CASE \E m \in [Ids -> Metrics] :
             add_and_maximize_total_delivery_rate_approximation(b, m)
  BY <1>6, <1>e, <1>f
     DEF add_and_maximize_total_delivery_rate_approximation
<1>7. CASE drop_policie = 9 /\ add_with_bin_drop_oldest(b)
  BY <1>7, <1>d, <1>f DEF add_with_bin_drop_oldest
<1>8. CASE drop_policie \notin 1..9 /\ no_drop_policie
  BY <1>8 DEF no_drop_policie
<1> QED
  BY <1>1, <1>2, <1>3, <1>4, <1>5, <1>6, <1>7, <1>8 DEF drop

-----------------------------------------------------------------------------
(* How a step can change the list. *)

\* Adding an entry for a bundle whose id is not buffered keeps the entries
\* distinct.
LEMMA AppendLemma ==
    ASSUME BufferInv, NEW b \in Bundle, ~exist_id(b.id),
           NEW S \in SUBSET store,
           store' = S \cup {NewEntry(b)}, arrivals' = arrivals + 1,
           now' = now
    PROVE  /\ store' \subseteq BundleStore
           /\ IsFiniteSet(store')
           /\ Cardinality(store') = Cardinality(S) + 1
           /\ NoDuplicateIds'
           /\ DistinctPositions'
           /\ \A e \in store' : e.pos <= arrivals' /\ e.stamp <= now'
<1> DEFINE n == NewEntry(b)
<1>1. /\ n \in BundleStore /\ n.id = b.id /\ n.pos = arrivals + 1
      /\ n.stamp = now
  BY NewEntryLemma DEF BufferInv
<1>2. arrivals \in Nat /\ now \in Nat /\ store \subseteq BundleStore
  BY DEF BufferInv, TypeOK
<1>3. \A e \in S : /\ e \in BundleStore /\ e.id # b.id /\ e.pos <= arrivals
                    /\ e.stamp <= now
  BY <1>2 DEF BufferInv, exist_id
<1>4. n \notin S
  BY <1>1, <1>3
<1>5. IsFiniteSet(S)
  BY FS_Subset DEF BufferInv, TypeOK
<1>6. IsFiniteSet(store') /\ Cardinality(store') = Cardinality(S) + 1
  BY <1>4, <1>5, FS_AddElement
<1>7. NoDuplicateIds'
  BY <1>1, <1>3 DEF BufferInv, NoDuplicateIds
<1>8. DistinctPositions'
  <2> SUFFICES ASSUME NEW e \in store', NEW f \in store', e.pos = f.pos
               PROVE  e = f
    BY DEF DistinctPositions
  <2>1. \A g \in S : g.pos \in Nat /\ g.pos # arrivals + 1
    BY <1>2, <1>3 DEF BundleStore
  <2> QED
    BY <1>1, <2>1 DEF BufferInv, DistinctPositions
<1>9. \A e \in store' : e.pos <= arrivals' /\ e.stamp <= now'
  <2>1. \A e \in S : e.pos \in Nat /\ e.pos <= arrivals
    BY <1>3 DEF BundleStore
  <2> QED
    BY <1>1, <1>2, <1>3, <2>1
<1> QED
  BY <1>1, <1>2, <1>6, <1>7, <1>8, <1>9

\* Bringing the entries of a part of the list up to date keeps them distinct.
LEMMA RefreshStepLemma ==
    ASSUME BufferInv, NEW S \in SUBSET store,
           store' = {update_elapsed_time(e) : e \in S},
           arrivals' = arrivals, now' = now
    PROVE  /\ store' \subseteq BundleStore
           /\ IsFiniteSet(store')
           /\ Cardinality(store') = Cardinality(S)
           /\ NoDuplicateIds'
           /\ DistinctPositions'
           /\ \A e \in store' : e.pos <= arrivals' /\ e.stamp <= now'
<1>1. now \in Nat
  BY DEF BufferInv, TypeOK
<1>2. \A e \in S : /\ update_elapsed_time(e) \in BundleStore
                    /\ update_elapsed_time(e).id = e.id
                    /\ update_elapsed_time(e).pos = e.pos
                    /\ update_elapsed_time(e).stamp = now
  BY UpdateLemma DEF BufferInv
<1>3. IsFiniteSet(store') /\ Cardinality(store') = Cardinality(S)
  BY RefreshLemma DEF BufferInv
<1>4. NoDuplicateIds'
  BY <1>2 DEF BufferInv, NoDuplicateIds
<1>5. DistinctPositions'
  BY <1>2 DEF BufferInv, DistinctPositions
<1>6. \A e \in store' : e.pos <= arrivals' /\ e.stamp <= now'
  BY <1>1, <1>2 DEF BufferInv
<1> QED
  BY <1>2, <1>3, <1>4, <1>5, <1>6

\* Deleting entries and counting them keeps the list consistent.
LEMMA RemoveLemma ==
    ASSUME BufferInv, NEW G \in SUBSET store, Remove(G)
    PROVE  /\ IsFiniteSet(store \ G)
           /\ number_of_buffered_bundles' = Cardinality(store \ G)
           /\ epidemic_buffered_bundles' = number_of_buffered_bundles'
           /\ Cardinality(store \ G) \in Nat
           /\ Cardinality(store \ G) <= MaxBundles
<1>1. IsFiniteSet(store) /\ IsFiniteSet(G) /\ IsFiniteSet(store \ G)
  BY FS_Subset, FS_Difference DEF BufferInv, TypeOK
<1>2. G = store \cap G
  OBVIOUS
<1>3. Cardinality(store \ G) = Cardinality(store) - Cardinality(G)
  BY <1>1, <1>2, FS_Difference
<1>4. /\ Cardinality(store) \in Nat /\ Cardinality(G) \in Nat
      /\ Cardinality(store \ G) \in Nat
  BY <1>1, FS_CardinalityType
<1>5. number_of_buffered_bundles = Cardinality(store)
  BY DEF BufferInv, CountMatchesList
<1>6. G = {} => Cardinality(G) = 0
  BY FS_EmptySet
<1>7. Cardinality(store) <= MaxBundles /\ MaxBundles \in Nat
  BY BufferAssumption DEF BufferInv, WithinCapacity
<1> QED
  BY <1>1, <1>3, <1>4, <1>5, <1>6, <1>7 DEF Remove, BufferInv, CountMatchesList

-----------------------------------------------------------------------------
(* The consistency of the list. *)

\* A step that deletes the entries in G, counts them and keeps the others,
\* brought up to date or not, preserves the invariant.
LEMMA DeleteStepLemma ==
    ASSUME BufferInv, NEW G \in SUBSET store, Remove(G),
           \/ store' = store \ G
           \/ store' = {update_elapsed_time(e) : e \in store \ G},
           dbl' \subseteq Ids, cleanAt' \in Nat,
           UNCHANGED <<drop_policie, buffer_sem, now, arrivals, status>>
    PROVE  BufferInv'
<1> DEFINE S == store \ G
<1>1. /\ IsFiniteSet(S)
      /\ number_of_buffered_bundles' = Cardinality(S)
      /\ epidemic_buffered_bundles' = number_of_buffered_bundles'
      /\ Cardinality(S) \in Nat
      /\ Cardinality(S) <= MaxBundles
  BY RemoveLemma
<1>2. /\ store' \subseteq BundleStore
      /\ IsFiniteSet(store')
      /\ Cardinality(store') = Cardinality(S)
      /\ NoDuplicateIds'
      /\ DistinctPositions'
      /\ \A e \in store' : e.pos <= arrivals' /\ e.stamp <= now'
  <2>1. CASE store' = S
    BY <1>1, <2>1
       DEF BufferInv, TypeOK, NoDuplicateIds, DistinctPositions
  <2>2. CASE store' = {update_elapsed_time(e) : e \in S}
    <3>1. S \in SUBSET store /\ arrivals' = arrivals /\ now' = now
      OBVIOUS
    <3> HIDE DEF S
    <3> QED
      BY <2>2, <3>1, RefreshStepLemma
  <2> QED
    BY <2>1, <2>2
<1>3. TypeOK'
  BY <1>1, <1>2 DEF BufferInv, TypeOK
<1>4. CountMatchesList' /\ WithinCapacity'
  BY <1>1, <1>2 DEF CountMatchesList, WithinCapacity
<1>5. StaysUp'
  BY DEF BufferInv, StaysUp
<1> QED
  BY <1>2, <1>3, <1>4, <1>5 DEF BufferInv

\* A step that leaves the list and the counters alone preserves the invariant.
LEMMA SameListLemma ==
    ASSUME BufferInv,
           UNCHANGED <<drop_policie, store, number_of_buffered_bundles,
                       epidemic_buffered_bundles, arrivals>>,
           buffer_sem' \in {0, 1},
           status' \in {"running", "hung", "crashed"},
           drop_policie \in 2..9 => UNCHANGED <<buffer_sem, status>>,
           dbl' \subseteq Ids, cleanAt' \in Nat, now' \in Nat, now' >= now
    PROVE  BufferInv'
<1>1. TypeOK'
  BY DEF BufferInv, TypeOK
<1>2. /\ CountMatchesList' /\ WithinCapacity'
      /\ NoDuplicateIds' /\ DistinctPositions'
  BY DEF BufferInv, CountMatchesList, WithinCapacity, NoDuplicateIds,
         DistinctPositions
<1>3. StaysUp'
  BY DEF BufferInv, StaysUp
<1>4. \A e \in store' : e.pos <= arrivals' /\ e.stamp <= now'
  BY DEF BufferInv, TypeOK, BundleStore
<1> QED
  BY <1>1, <1>2, <1>3, <1>4 DEF BufferInv

\* add_bundle preserves the invariant, whatever the drop policy.
LEMMA AddBundleLemma ==
    ASSUME BufferInv, NEW b \in Bundle, add_bundle(b)
    PROVE  BufferInv'
<1>0. /\ drop_policie' = drop_policie /\ now' = now
      /\ dbl' = dbl /\ cleanAt' = cleanAt
      /\ dbl' \subseteq Ids /\ cleanAt' \in Nat
      /\ now' \in Nat /\ now' >= now
      /\ buffer_sem \in {0, 1}
      /\ status = "running"
  BY DEF add_bundle, Config, BufferInv, TypeOK
<1>1. CASE UNCHANGED <<store, number_of_buffered_bundles,
                       epidemic_buffered_bundles, buffer_sem, arrivals,
                       status>>
  BY <1>0, <1>1, SameListLemma
<1>2. CASE Hang
  <2>1. drop_policie \notin 2..9
    BY <1>2 DEF Hang, BufferInv, StaysUp
  <2> QED
    BY <1>0, <1>2, <2>1, SameListLemma DEF Hang
<1>3. CASE ~exist_id(b.id) /\ free_place /\ add_to_free_place(b)
  <2>1. /\ store' = store \cup {NewEntry(b)} /\ arrivals' = arrivals + 1
        /\ number_of_buffered_bundles' = number_of_buffered_bundles + 1
        /\ epidemic_buffered_bundles' = number_of_buffered_bundles'
        /\ buffer_sem' = buffer_sem /\ status' = status
    BY <1>3 DEF add_to_free_place
  <2>2. /\ store' \subseteq BundleStore
        /\ IsFiniteSet(store')
        /\ Cardinality(store') = Cardinality(store) + 1
        /\ NoDuplicateIds'
        /\ DistinctPositions'
        /\ \A e \in store' : e.pos <= arrivals' /\ e.stamp <= now'
    BY <1>0, <1>3, <2>1, AppendLemma
  <2>3. /\ Cardinality(store) \in Nat
        /\ number_of_buffered_bundles = Cardinality(store)
    BY FS_CardinalityType DEF BufferInv, TypeOK, CountMatchesList
  <2>4. TypeOK'
    BY <1>0, <2>1, <2>2, <2>3 DEF BufferInv, TypeOK
  <2>5. CountMatchesList' /\ WithinCapacity'
    BY <1>3, <2>1, <2>2, <2>3, BufferAssumption
       DEF free_place, CountMatchesList, WithinCapacity
  <2>6. StaysUp'
    BY <1>0, <2>1 DEF BufferInv, StaysUp
  <2> QED
    BY <2>2, <2>4, <2>5, <2>6 DEF BufferInv
<1>4. CASE /\ ~exist_id(b.id) /\ drop(b)
           /\ UNCHANGED <<number_of_buffered_bundles,
                           epidemic_buffered_bundles>>
  <2>1. CASE \E v \in store : Replace(v, b)
    <3>1. PICK v \in store : Replace(v, b)
      BY <2>1
    <3> DEFINE S == store \ {v}
    <3>2. /\ store' = S \cup {NewEntry(b)} /\ arrivals' = arrivals + 1
          /\ buffer_sem' = buffer_sem /\ status' = status
      BY <3>1 DEF Replace
    <3>3. Cardinality(S) = Cardinality(store) - 1
      BY FS_RemoveElement DEF BufferInv, TypeOK
    <3>4. S \in SUBSET store
      OBVIOUS
    <3>5. Cardinality(store) \in Nat
      BY FS_CardinalityType DEF BufferInv, TypeOK
    <3> HIDE DEF S
    <3>6. /\ store' \subseteq BundleStore
          /\ IsFiniteSet(store')
          /\ Cardinality(store') = Cardinality(S) + 1
          /\ NoDuplicateIds'
          /\ DistinctPositions'
          /\ \A e \in store' : e.pos <= arrivals' /\ e.stamp <= now'
      BY <1>0, <1>4, <3>2, <3>4, AppendLemma
    <3>7. TypeOK'
      BY <1>0, <1>4, <3>2, <3>6 DEF BufferInv, TypeOK
    <3>8. CountMatchesList' /\ WithinCapacity'
      BY <1>4, <3>3, <3>5, <3>6
         DEF BufferInv, CountMatchesList, WithinCapacity
    <3>9. StaysUp'
      BY <1>0, <3>2 DEF BufferInv, StaysUp
    <3> QED
      BY <3>6, <3>7, <3>8, <3>9 DEF BufferInv
  <2>2. CASE /\ UNCHANGED <<store, arrivals>>
             /\ buffer_sem' \in {0, buffer_sem}
             /\ status' \in {status, "crashed"}
             /\ drop_policie \in 2..9 => UNCHANGED <<buffer_sem, status>>
    BY <1>0, <1>4, <2>2, SameListLemma
  <2> QED
    BY <1>4, <2>1, <2>2, DropLemma DEF BufferInv
<1> QED
  BY <1>1, <1>2, <1>3, <1>4 DEF add_bundle

\* Every step of the agent preserves the invariant.
LEMMA BufferInvStep == BufferInv /\ [Next]_vars => BufferInv'
<1> SUFFICES ASSUME BufferInv, [Next]_vars
             PROVE  BufferInv'
  OBVIOUS
<1>0. /\ dbl \subseteq Ids /\ cleanAt \in Nat /\ now \in Nat
      /\ buffer_sem \in {0, 1} /\ status \in {"running", "hung", "crashed"}
      /\ MayBeDelivered \subseteq Ids /\ CleaningInterval \in Nat
  BY BufferAssumption DEF BufferInv, TypeOK, Ids
<1>h. Hang => drop_policie \notin 2..9
  BY DEF Hang, BufferInv, StaysUp
<1>1. CASE \E b \in Bundle : add_bundle(b)
  BY <1>1, AddBundleLemma
<1>2. CASE make_clean
  <2>0. drop_policie' = drop_policie /\ now' = now /\ dbl' = dbl
    BY <1>2 DEF make_clean, Config
  <2>1. CASE /\ cleanAt' = now + CleaningInterval
             /\ UNCHANGED <<store, number_of_buffered_bundles,
                             epidemic_buffered_bundles, buffer_sem, arrivals,
                             status>>
    BY <1>0, <2>0, <2>1, SameListLemma
  <2>2. CASE Hang /\ UNCHANGED cleanAt
    BY <1>0, <1>h, <2>0, <2>2, SameListLemma DEF Hang
  <2>3. CASE /\ store' = Cleaned
             /\ Remove(Expired)
             /\ cleanAt' = now + CleaningInterval
             /\ UNCHANGED <<buffer_sem, arrivals, status>>
    <3>1. Expired \in SUBSET store
      BY DEF Expired
    <3>2. store' = {update_elapsed_time(e) : e \in store \ Expired}
      BY <2>3 DEF Cleaned
    <3> QED
      BY <1>0, <2>0, <2>3, <3>1, <3>2, DeleteStepLemma
  <2> QED
    BY <1>2, <2>1, <2>2, <2>3 DEF make_clean
<1>3. CASE UpdateLocalMessagesStat
  <2>1. /\ store' = {update_elapsed_time(e) : e \in store \ {}}
        /\ UNCHANGED <<drop_policie, number_of_buffered_bundles,
                        epidemic_buffered_bundles, buffer_sem, dbl, now,
                        cleanAt, arrivals, status>>
    BY <1>3 DEF UpdateLocalMessagesStat
  <2>2. Cardinality({}) = 0
    BY FS_EmptySet
  <2>3. Remove({})
    BY <2>1, <2>2 DEF Remove, BufferInv, TypeOK
  <2>4. {} \in SUBSET store
    OBVIOUS
  <2> QED
    BY <1>0, <2>1, <2>3, <2>4, DeleteStepLemma
<1>4. CASE \E S \in SUBSET MayBeDelivered : recv_anti_packet(S)
  <2>1. PICK S \in SUBSET MayBeDelivered : recv_anti_packet(S)
    BY <1>4
  <2>2. /\ dbl' \subseteq Ids /\ cleanAt' = cleanAt
        /\ drop_policie' = drop_policie /\ now' = now
    BY <1>0, <2>1 DEF recv_anti_packet, Config
  <2>3. CASE Hang
    BY <1>0, <1>h, <2>2, <2>3, SameListLemma DEF Hang
  <2>4. CASE ~Hang
    <3> DEFINE G == IF number_of_buffered_bundles > 0
                    THEN {e \in store : e.id \in dbl'} ELSE {}
    <3>1. /\ store' = store \ G /\ Remove(G)
          /\ UNCHANGED <<buffer_sem, arrivals, status>>
      BY <2>1, <2>4 DEF recv_anti_packet, delete_delivred_bundles
    <3>2. G \in SUBSET store
      OBVIOUS
    <3> HIDE DEF G
    <3> QED
      BY <1>0, <2>2, <3>1, <3>2, DeleteStepLemma
  <2> QED
    BY <2>3, <2>4
<1>5. CASE \E id \in MayBeDelivered : add_delivred_bundle(id)
  <2>1. PICK id \in MayBeDelivered : add_delivred_bundle(id)
    BY <1>5
  <2>2. dbl' \subseteq Ids
    BY <1>0, <2>1 DEF add_delivred_bundle
  <2> QED
    BY <1>0, <2>1, <2>2, SameListLemma DEF add_delivred_bundle
<1>6. CASE Tick
  BY <1>0, <1>6, SameListLemma DEF Tick
<1>7. CASE UNCHANGED vars
  BY <1>0, <1>7, SameListLemma DEF vars
<1> QED
  BY <1>1, <1>2, <1>3, <1>4, <1>5, <1>6, <1>7 DEF Next

\* The list, its counter and its copy agree, the list stays within its
\* capacity and holds no bundle twice, and with policies 2 to 9 the agent
\* never blocks or crashes: for every capacity and every drop policy.
THEOREM BufferConsistent == Spec => []BufferInv
<1>1. Init => BufferInv
  <2> SUFFICES ASSUME Init
               PROVE  BufferInv
    OBVIOUS
  <2>1. IsFiniteSet({}) /\ Cardinality({}) = 0
    BY FS_EmptySet
  <2>2. TypeOK
    BY <2>1, BufferAssumption DEF Init, TypeOK
  <2>3. CountMatchesList /\ WithinCapacity
    BY <2>1, BufferAssumption DEF Init, CountMatchesList, WithinCapacity
  <2>4. NoDuplicateIds /\ DistinctPositions /\ StaysUp
    BY DEF Init, NoDuplicateIds, DistinctPositions, StaysUp
  <2> QED
    BY <2>2, <2>3, <2>4 DEF BufferInv, Init
<1> QED
  BY <1>1, BufferInvStep, PTL DEF Spec

\* The counter that free_place and make_clean rely on is the length of the
\* list, after any sequence of admissions, drops, expiries and anti-packets.
THEOREM CountCorrect == Spec => []CountMatchesList
<1>1. BufferInv => CountMatchesList
  BY DEF BufferInv
<1> QED
  BY <1>1, BufferConsistent, PTL

\* The buffer never exceeds its capacity and never holds a bundle twice.
THEOREM CapacityRespected == Spec => [](WithinCapacity /\ NoDuplicateIds)
<1>1. BufferInv => WithinCapacity /\ NoDuplicateIds
  BY DEF BufferInv
<1> QED
  BY <1>1, BufferConsistent, PTL

\* The entries of the list, their positions and ages keep their types.
THEOREM BufferTyped == Spec => []TypeOK
<1>1. BufferInv => TypeOK
  BY DEF BufferInv
<1> QED
  BY <1>1, BufferConsistent, PTL

\* add_bundle looks an id up before it stores it, and drops, cleaning and the
\* reordering of the list never bring an id back: none is stored twice.
THEOREM IdsUnique == Spec => []NoDuplicateIds
<1>1. BufferInv => NoDuplicateIds
  BY DEF BufferInv
<1> QED
  BY <1>1, BufferConsistent, PTL

\* With policies 2 to 9 no handler leaves buffer_sem taken, blocks in sem_wait
\* or follows a NULL entry.
THEOREM AgentStaysUp == Spec => []StaysUp
<1>1. BufferInv => StaysUp
  BY DEF BufferInv
<1> QED
  BY <1>1, BufferConsistent, PTL

-----------------------------------------------------------------------------
(* The age of buffered bundles. *)

\* Every step preserves TimeInv: an arrival is no older than MaxElapsed, a
\* refresh moves age from the clock to elapsed_time, a cleaning leaves only
\* bundles younger than ExpTime, and time never passes the next cleaning.
LEMMA TimeInvStep == BufferInv /\ TimeInv /\ [Next]_vars => TimeInv'
<1> SUFFICES ASSUME BufferInv, TimeInv, [Next]_vars, ~InfiniteTtl
             PROVE  TimeInv'
  BY DEF TimeInv
<1> USE BufferAssumption
<1>0. /\ now \in Nat /\ cleanAt \in Nat
      /\ now <= cleanAt /\ cleanAt <= now + CleaningInterval
  BY DEF TimeInv, BufferInv, TypeOK
<1>e. \A e \in store :
         /\ e.elapsed \in Nat /\ e.stamp \in Nat
         /\ cleanAt - CleaningInterval <= e.stamp /\ e.stamp <= now
         /\ e.elapsed + (cleanAt - e.stamp) <= MaxElapsed + CleaningInterval
  BY DEF TimeInv, BufferInv, TypeOK, BundleStore
<1>u. \A e \in store :
         /\ update_elapsed_time(e).stamp = now
         /\ update_elapsed_time(e).elapsed = e.elapsed + (now - e.stamp)
  BY UpdateLemma DEF BufferInv
<1>s. ASSUME store' \subseteq store, UNCHANGED <<now, cleanAt>>
      PROVE  TimeInv'
  BY <1>s, <1>0, <1>e DEF TimeInv
<1>1. CASE \E b \in Bundle : add_bundle(b)
  <2>1. PICK b \in Bundle : add_bundle(b)
    BY <1>1
  <2>2. now' = now /\ cleanAt' = cleanAt
    BY <2>1 DEF add_bundle, Config
  <2>3. store' \subseteq store \cup {NewEntry(b)}
    BY <2>1, DropLemma
       DEF add_bundle, Hang, add_to_free_place, Replace, BufferInv
  <2>4. /\ NewEntry(b).stamp = now /\ NewEntry(b).elapsed = b.elapsed
        /\ b.elapsed \in 0..MaxElapsed
    BY NewEntryLemma DEF BufferInv, Bundle
  <2> QED
    BY <1>0, <1>e, <2>2, <2>3, <2>4 DEF TimeInv
<1>2. CASE make_clean
  <2>0. now' = now
    BY <1>2 DEF make_clean, Config
  <2>1. CASE Hang /\ UNCHANGED cleanAt
    BY <1>s, <2>0, <2>1 DEF Hang
  <2>2. CASE /\ number_of_buffered_bundles <= 0
             /\ cleanAt' = now + CleaningInterval
             /\ UNCHANGED store
    <3>1. store = {}
      BY <2>2, FS_CardinalityType, FS_EmptySet
         DEF BufferInv, TypeOK, CountMatchesList
    <3> QED
      BY <1>0, <2>0, <2>2, <3>1 DEF TimeInv
  <2>3. CASE store' = Cleaned /\ cleanAt' = now + CleaningInterval
    <3>1. \A e \in store \ Expired :
             /\ update_elapsed_time(e).stamp = now
             /\ update_elapsed_time(e).elapsed \in Nat
             /\ update_elapsed_time(e).elapsed < ExpTime
      BY <1>0, <1>e, <1>u DEF Expired, Age
    <3>2. \A t \in store' : /\ t.stamp = now /\ t.elapsed \in Nat
                             /\ t.elapsed < ExpTime
      BY <2>3, <3>1 DEF Cleaned
    <3> QED
      BY <1>0, <2>0, <2>3, <3>2 DEF TimeInv
  <2> QED
    BY <1>2, <2>1, <2>2, <2>3 DEF make_clean
<1>3. CASE UpdateLocalMessagesStat
  <2>1. /\ store' = {update_elapsed_time(e) : e \in store}
        /\ now' = now /\ cleanAt' = cleanAt
    BY <1>3 DEF UpdateLocalMessagesStat
  <2>2. \A e \in store :
           LET t == update_elapsed_time(e)
           IN  t.stamp = now /\ t.elapsed + (cleanAt - t.stamp)
                                   <= MaxElapsed + CleaningInterval
    BY <1>0, <1>e, <1>u
  <2> QED
    BY <1>0, <2>1, <2>2 DEF TimeInv
<1>4. CASE \E S \in SUBSET MayBeDelivered : recv_anti_packet(S)
  BY <1>4, <1>s DEF recv_anti_packet, delete_delivred_bundles, Hang, Config
<1>5. CASE \E id \in MayBeDelivered : add_delivred_bundle(id)
  BY <1>5, <1>s DEF add_delivred_bundle
<1>6. CASE Tick
  BY <1>6, <1>0, <1>e DEF Tick, TimeInv
<1>7. CASE UNCHANGED vars
  BY <1>7, <1>s DEF vars
<1> QED
  BY <1>1, <1>2, <1>3, <1>4, <1>5, <1>6, <1>7 DEF Next

\* No bundle outlives its time by more than one cleaning interval, whatever
\* the interleaving of arrivals, cleanings, refreshes and anti-packets.
THEOREM BundlesExpire == Spec => []AgeBound
<1>1. Init => TimeInv
  BY BufferAssumption DEF Init, TimeInv
<1>2. BufferInv /\ TimeInv => AgeBound
  BY BufferAssumption
     DEF BufferInv, TypeOK, BundleStore, TimeInv, AgeBound, Age
<1> QED
  BY <1>1, <1>2, TimeInvStep, BufferConsistent, PTL DEF Spec

-----------------------------------------------------------------------------
(* The victims of the drop policies. *)

\* A finite set that is not empty has an element where a function is smallest.
\* (A smallest part of the set without one would have another without that
\* has an element less.)
LEMMA SmallestLemma ==
    ASSUME NEW S, IsFiniteSet(S), S # {}, NEW f \in [S -> Int]
    PROVE  \E e \in S : \A g \in S : f[e] <= f[g]
<1> DEFINE Has(T) == \E e \in T : \A g \in T : f[e] <= f[g]
           Bad == {n \in Nat : \E T \in SUBSET S : /\ T # {} /\ Cardinality(T) = n
                                                  /\ ~Has(T)}
           R == OpToRel(<, Nat)
<1> SUFFICES ASSUME ~Has(S) PROVE FALSE
  OBVIOUS
<1>1. \A T \in SUBSET S : IsFiniteSet(T) /\ Cardinality(T) \in Nat
  BY FS_Subset, FS_CardinalityType
<1>2. Bad # {} /\ Bad \subseteq Nat
  <2>1. Cardinality(S) \in Bad
    BY <1>1
  <2> QED  BY <2>1
<1>3. PICK n \in Bad : \A k \in Bad : ~(<<k, n>> \in R)
  <2> HIDE DEF Bad
  <2> QED  BY <1>2, NatLessThanWellFounded, WFMin
<1>4. PICK T \in SUBSET S : T # {} /\ Cardinality(T) = n /\ ~Has(T)
  BY <1>3
<1>5. PICK x \in T : TRUE
  BY <1>4
<1> DEFINE U == T \ {x}
<1>6. Cardinality(U) = n - 1 /\ Cardinality(U) \in Nat /\ n \in Nat
  BY <1>1, <1>4, <1>5, FS_RemoveElement
<1>7. U = {} \/ Has(U)
  <2> SUFFICES ASSUME U # {}, ~Has(U) PROVE FALSE
    OBVIOUS
  <2>1. Cardinality(U) \in Bad
    BY <1>6
  <2>2. <<Cardinality(U), n>> \in {ss \in Nat \X Nat : ss[1] < ss[2]}
    BY <1>6
  <2>3. <<Cardinality(U), n>> \in R
    BY <2>2 DEF OpToRel
  <2> QED  BY <1>3, <2>1, <2>3
<1>8. \A e \in T : f[e] \in Int
  OBVIOUS
<1>9. CASE U = {}
  <2>1. \A g \in T : g = x
    BY <1>9
  <2> QED  BY <1>4, <1>5, <1>8, <2>1
<1>10. CASE Has(U)
  <2>1. PICK e \in U : \A g \in U : f[e] <= f[g]
    BY <1>10
  <2>2. \A g \in T : g = x \/ g \in U
    OBVIOUS
  <2>3. CASE f[e] <= f[x]
    BY <1>4, <1>8, <2>1, <2>2, <2>3
  <2>4. CASE ~(f[e] <= f[x])
    <3>1. \A g \in T : f[x] <= f[g]
      BY <1>5, <1>8, <2>1, <2>2, <2>4
    <3> QED  BY <1>4, <1>5, <3>1
  <2> QED  BY <2>3, <2>4
<1> QED  BY <1>7, <1>9, <1>10

\* A search with candidates finds one of them.
LEMMA FirstLemma ==
    ASSUME TypeOK, NEW S \in SUBSET store, S # {}
    PROVE  OrFront(S) # {} /\ OrFront(S) \subseteq S
<1>1. IsFiniteSet(S) /\ \A e \in S : e.pos \in Nat
  BY FS_Subset DEF TypeOK, BundleStore
<1> DEFINE f == [e \in S |-> e.pos]
<1>2. f \in [S -> Int]
  BY <1>1
<1>3. \E e \in S : \A g \in S : f[e] <= f[g]
  BY <1>1, <1>2, SmallestLemma
<1> QED  BY <1>3 DEF OrFront, First

\* The searches by age and by metric: a victim is a best candidate, or, if there
\* is no candidate, the front of the list.
LEMMA YoungestLemma ==
    ASSUME TypeOK, NEW v \in get_youngest_message, drop_policie = 3
    PROVE  \/ v \in Candidates /\ \A e \in Candidates : v.elapsed <= e.elapsed
           \/ Candidates = {}
<1> DEFINE young == {e \in Foreign : e.elapsed < Sentinel}
           best == {e \in young : \A f \in young : e.elapsed <= f.elapsed}
           f == [e \in young |-> e.elapsed]
<1>1. Candidates = young
  BY DEF Candidates
<1>2. young \in SUBSET store /\ best \in SUBSET store
  BY DEF Foreign
<1>3. IsFiniteSet(young) /\ \A e \in young : e.elapsed \in Nat
  BY <1>2, FS_Subset DEF TypeOK, BundleStore
<1>4. f \in [young -> Int]
  BY <1>3
<1>5. young # {} => \E e \in young : \A g \in young : f[e] <= f[g]
  <2> HIDE DEF young, f
  <2> QED  BY <1>3, <1>4, SmallestLemma
<1>6. young # {} => best # {}
  BY <1>5
<1>7. best # {} => v \in best
  <2>1. v \in OrFront(best)
    BY DEF get_youngest_message
  <2> HIDE DEF best
  <2> QED  BY <1>2, <2>1, FirstLemma
<1> QED  BY <1>1, <1>6, <1>7

\* The same for the oldest.
LEMMA OldestLemma ==
    ASSUME TypeOK, NEW v \in get_oldest_message, drop_policie \in {4, 9}
    PROVE  \/ v \in Candidates /\ \A e \in Candidates : e.elapsed <= v.elapsed
           \/ Candidates = {}
<1> DEFINE old == {e \in Foreign : e.elapsed > 0}
           best == {e \in old : \A f \in old : f.elapsed <= e.elapsed}
           f == [e \in old |-> 0 - e.elapsed]
<1>1. Candidates = old
  BY DEF Candidates
<1>2. old \in SUBSET store /\ best \in SUBSET store
  BY DEF Foreign
<1>3. IsFiniteSet(old) /\ \A e \in old : e.elapsed \in Nat
  BY <1>2, FS_Subset DEF TypeOK, BundleStore
<1>4. f \in [old -> Int]
  BY <1>3
<1>5. old # {} => \E e \in old : \A g \in old : f[e] <= f[g]
  <2> HIDE DEF old, f
  <2> QED  BY <1>3, <1>4, SmallestLemma
<1>6. old # {} => best # {}
  <2> SUFFICES ASSUME old # {} PROVE best # {}
    OBVIOUS
  <2>1. PICK e \in old : \A g \in old : f[e] <= f[g]
    BY <1>5
  <2>2. ASSUME NEW g \in old PROVE g.elapsed <= e.elapsed
    <3>1. f[e] = 0 - e.elapsed /\ f[g] = 0 - g.elapsed /\ f[e] <= f[g]
      BY <2>1
    <3> HIDE DEF f, old
    <3>2. g.elapsed \in Nat /\ e.elapsed \in Nat
      BY <1>3
    <3> QED  BY <3>1, <3>2
  <2> QED  BY <2>2
<1>7. best # {} => v \in best
  <2>1. v \in OrFront(best)
    BY DEF get_oldest_message
  <2> HIDE DEF best
  <2> QED  BY <1>2, <2>1, FirstLemma
<1> QED  BY <1>1, <1>6, <1>7

\* The same for the smallest metric.
LEMMA SmallestMetricLemma ==
    ASSUME TypeOK, NEW m \in [Ids -> Metrics], NEW v \in OrFront(smallest_metric(m))
    PROVE  v \in Foreign \/ Foreign = {}
<1> DEFINE f == [e \in Foreign |-> m[e.id]]
<1>1. Foreign \in SUBSET store /\ smallest_metric(m) \in SUBSET Foreign
  BY DEF Foreign, smallest_metric
<1>2. IsFiniteSet(Foreign) /\ \A e \in Foreign : m[e.id] \in Int
  BY <1>1, FS_Subset, BufferAssumption DEF TypeOK, BundleStore
<1>3. f \in [Foreign -> Int]
  BY <1>2
<1>4. Foreign # {} => \E e \in Foreign : \A g \in Foreign : f[e] <= f[g]
  BY <1>2, <1>3, SmallestLemma
<1>5. Foreign # {} => smallest_metric(m) # {}
  BY <1>4 DEF smallest_metric
<1> QED  BY <1>1, <1>5, FirstLemma

\* What is evicted makes room for a bundle that the drop policy admits.
LEMMA EvictedLemma ==
    ASSUME BufferInv, Next, NEW v \in Evicted
    PROVE  /\ v \in store \ store'
           /\ \E b \in Bundle : drop(b) /\ Admitted \subseteq {NewEntry(b)}
<1>0. arrivals \in Nat /\ arrivals' # arrivals /\ v \in store \ store'
  BY DEF Evicted, BufferInv, TypeOK
<1>1. ~UNCHANGED arrivals
  BY <1>0
<1>2. ~make_clean /\ ~UpdateLocalMessagesStat /\ ~Tick
  BY <1>1 DEF make_clean, UpdateLocalMessagesStat, Tick, Hang
<1>3. \A S : ~recv_anti_packet(S)
  BY <1>1 DEF recv_anti_packet, delete_delivred_bundles, Hang
<1>4. \A id : ~add_delivred_bundle(id)
  BY <1>1 DEF add_delivred_bundle
<1>5. PICK b \in Bundle : add_bundle(b)
  BY <1>2, <1>3, <1>4 DEF Next
<1>6. drop(b)
  BY <1>0, <1>5 DEF add_bundle, Hang, add_to_free_place
<1>7. \E w \in store : Replace(w, b)
  BY <1>0, <1>6, DropLemma DEF BufferInv
<1> QED  BY <1>0, <1>6, <1>7 DEF Admitted, Replace

\* The victim is the one the search of the policy found.
LEMMA VictimLemma ==
    ASSUME NEW b \in Bundle, drop(b), NEW v \in store \ store'
    PROVE  /\ drop_policie = 1 => v \in Foreign
           /\ drop_policie = 2 => v \in OrFront(Foreign)
           /\ drop_policie = 3 => v \in get_youngest_message
           /\ drop_policie \in {4, 9} => v \in get_oldest_message
           /\ drop_policie \in 5..8 =>
                 \E m \in [Ids -> Metrics] :
                    /\ v \in OrFront(smallest_metric(m))
                    /\ is_my_message(b) \/ m[b.id] >= smallest_metric_value(m)
           /\ drop_policie \in 1..9
<1>1. \A w : Replace(w, b) => v = w
  BY DEF Replace
<1>2. ~Discard /\ ~UNCHANGED store
  BY DEF Discard
<1>3. CASE drop_policie = 1 /\ add_with_drop_tail(b)
  BY <1>1, <1>2, <1>3 DEF add_with_drop_tail, Last
<1>4. CASE drop_policie = 2 /\ add_with_drop_from_front(b)
  BY <1>1, <1>2, <1>4 DEF add_with_drop_from_front
<1>5. CASE drop_policie = 3 /\ add_with_drop_youngest_message(b)
  BY <1>1, <1>2, <1>5 DEF add_with_drop_youngest_message
<1>6. CASE drop_policie = 4 /\ add_with_drop_oldest_message(b)
  BY <1>1, <1>2, <1>6 DEF add_with_drop_oldest_message
<1>7. CASE /\ drop_policie \in {5, 6, 8}
           /\ \E m \in [Ids -> Metrics] : add_by_metric(b, m)
  <2>1. PICK m \in [Ids -> Metrics] : add_by_metric(b, m)
    BY <1>7
  <2>2. /\ v \in OrFront(smallest_metric(m))
        /\ is_my_message(b) \/ m[b.id] >= smallest_metric_value(m)
    BY <1>1, <1>2, <2>1 DEF add_by_metric
  <2> QED  BY <1>7, <2>2
<1>8. CASE /\ drop_policie = 7
           /\ \E m \in [Ids -> Metrics] :
                 add_and_maximize_total_delivery_rate_approximation(b, m)
  <2>1. PICK m \in [Ids -> Metrics] :
                 add_and_maximize_total_delivery_rate_approximation(b, m)
    BY <1>8
  <2>2. /\ v \in OrFront(smallest_metric(m))
        /\ is_my_message(b) \/ m[b.id] >= smallest_metric_value(m)
    BY <1>1, <1>2, <2>1 DEF add_and_maximize_total_delivery_rate_approximation
  <2> QED  BY <1>8, <2>2
<1>9. CASE drop_policie = 9 /\ add_with_bin_drop_oldest(b)
  BY <1>1, <1>2, <1>9 DEF add_with_bin_drop_oldest
<1>10. CASE drop_policie \notin 1..9 /\ no_drop_policie
  BY <1>2, <1>10 DEF no_drop_policie
<1> QED  BY <1>3, <1>4, <1>5, <1>6, <1>7, <1>8, <1>9, <1>10 DEF drop

\* Drop tail and the utility policies evict a source copy for a source bundle
\* only: the search returns a foreign entry while there is one, and otherwise
\* its 99999, which no metric of a foreign bundle reaches.
THEOREM SourcesPreferred == Spec => SourcePriority
<1> DEFINE Right == \A v \in Evicted, n \in Admitted :
                       drop_policie \in {1, 5, 6, 7, 8} /\ is_my_message(v)
                         => is_my_message(n)
<1>1. BufferInv /\ [Next]_vars => [Right]_vars
  <2> SUFFICES ASSUME BufferInv, Next, NEW v \in Evicted, NEW n \in Admitted,
                      drop_policie \in {1, 5, 6, 7, 8}, is_my_message(v)
               PROVE  is_my_message(n)
    OBVIOUS
  <2>1. PICK b \in Bundle : drop(b) /\ Admitted \subseteq {NewEntry(b)}
    BY EvictedLemma
  <2>2. v \in store \ store' /\ v \notin Foreign
    BY EvictedLemma DEF Foreign
  <2>3. PICK m \in [Ids -> Metrics] :
           /\ v \in OrFront(smallest_metric(m))
           /\ is_my_message(b) \/ m[b.id] >= smallest_metric_value(m)
    BY <2>1, <2>2, VictimLemma
  <2>4. Foreign = {}
    BY <2>2, <2>3, SmallestMetricLemma DEF BufferInv
  <2>5. m[b.id] \in Int /\ Sentinel \in Nat /\ ~(m[b.id] >= Sentinel)
    <3>1. b.id \in Ids
      BY DEF Bundle
    <3>2. m[b.id] \in Metrics
      BY <3>1
    <3>3. Sentinel \in Nat /\ \A x \in Metrics : x \in Int /\ ~(x >= Sentinel)
      BY BufferAssumption
    <3> QED  BY <3>2, <3>3
  <2>6. is_my_message(b)
    BY <2>3, <2>4, <2>5 DEF smallest_metric_value
  <2>7. n = NewEntry(b)
    BY <2>1
  <2> QED  BY <2>6, <2>7 DEF is_my_message, NewEntry
<1> QED  BY <1>1, BufferConsistent, PTL DEF Spec, SourcePriority

\* No policy evicts a source copy while its search has a foreign bundle to look
\* at.
THEOREM SourcesDroppedLast == Spec => OwnDroppedLast
<1> DEFINE Right == \A v \in Evicted : is_my_message(v) => Candidates = {}
<1>1. BufferInv /\ [Next]_vars => [Right]_vars
  <2> SUFFICES ASSUME BufferInv, Next, NEW v \in Evicted, is_my_message(v)
               PROVE  Candidates = {}
    OBVIOUS
  <2>0. TypeOK
    BY DEF BufferInv
  <2>1. PICK b \in Bundle : drop(b)
    BY EvictedLemma
  <2>2. v \in store \ store' /\ v \notin Foreign
    BY EvictedLemma DEF Foreign
  <2>3. Candidates \subseteq Foreign
    BY DEF Candidates
  <2>4. CASE drop_policie = 1
    BY <2>1, <2>2, <2>4, VictimLemma
  <2>5. CASE drop_policie = 2
    <3>1. Foreign \in SUBSET store
      BY DEF Foreign
    <3> QED  BY <2>0, <2>1, <2>2, <2>3, <2>5, <3>1, VictimLemma, FirstLemma
  <2>6. CASE drop_policie = 3
    BY <2>0, <2>1, <2>2, <2>3, <2>6, VictimLemma, YoungestLemma
  <2>7. CASE drop_policie \in {4, 9}
    BY <2>0, <2>1, <2>2, <2>3, <2>7, VictimLemma, OldestLemma
  <2>8. CASE drop_policie \in 5..8
    <3>1. PICK m \in [Ids -> Metrics] : v \in OrFront(smallest_metric(m))
      BY <2>1, <2>2, <2>8, VictimLemma
    <3> QED  BY <2>0, <2>2, <2>3, <3>1, SmallestMetricLemma
  <2>9. drop_policie \in 1..9
    BY <2>1, <2>2, VictimLemma
  <2> QED  BY <2>4, <2>5, <2>6, <2>7, <2>8, <2>9
<1> QED  BY <1>1, BufferConsistent, PTL DEF Spec, OwnDroppedLast

\* The ages compared by drop-youngest and drop-oldest are stale by no more than
\* one cleaning interval, so neither is the choice they make.
THEOREM EvictionNearlyRight == Spec => EvictionErrorBounded
<1> DEFINE Right == \A v \in Evicted, e \in Foreign :
                       ~InfiniteTtl /\ ~is_my_message(v) =>
                         /\ drop_policie \in {4, 9} =>
                               Age(e) - Age(v) <= CleaningInterval
                         /\ drop_policie = 3 /\ e.elapsed < Sentinel =>
                               Age(v) - Age(e) <= CleaningInterval
<1>1. BufferInv /\ TimeInv /\ [Next]_vars => [Right]_vars
  <2> SUFFICES ASSUME BufferInv, TimeInv, Next,
                      NEW v \in Evicted, NEW e \in Foreign,
                      ~InfiniteTtl, ~is_my_message(v)
               PROVE  /\ drop_policie \in {4, 9} =>
                            Age(e) - Age(v) <= CleaningInterval
                      /\ drop_policie = 3 /\ e.elapsed < Sentinel =>
                            Age(v) - Age(e) <= CleaningInterval
    OBVIOUS
  <2>0. TypeOK
    BY DEF BufferInv
  <2>1. PICK b \in Bundle : drop(b)
    BY EvictedLemma
  <2>2. v \in store \ store' /\ v \in Foreign /\ e \in store
    BY EvictedLemma DEF Foreign
  <2>3. /\ now \in Nat /\ cleanAt \in Nat /\ CleaningInterval \in Nat
        /\ now <= cleanAt
        /\ \A x \in {e, v} : /\ x.elapsed \in Nat /\ x.stamp \in Nat
                             /\ cleanAt - CleaningInterval <= x.stamp
                             /\ x.stamp <= now
    BY <2>0, <2>2, BufferAssumption DEF TypeOK, BundleStore, TimeInv
  <2>4. ASSUME drop_policie \in {4, 9}
        PROVE  Age(e) - Age(v) <= CleaningInterval
    <3>1. e.elapsed <= v.elapsed
      <4>1. v \in get_oldest_message
        BY <2>1, <2>2, <2>4, VictimLemma
      <4>2. CASE e.elapsed > 0
        <5>1. e \in Candidates
          BY <2>2, <2>4, <4>2 DEF Candidates
        <5> QED  BY <2>0, <2>4, <4>1, <5>1, OldestLemma
      <4> QED  BY <2>3, <4>2
    <3> QED  BY <2>3, <3>1 DEF Age
  <2>5. ASSUME drop_policie = 3, e.elapsed < Sentinel
        PROVE  Age(v) - Age(e) <= CleaningInterval
    <3>1. v.elapsed <= e.elapsed
      <4>1. v \in get_youngest_message
        BY <2>1, <2>2, <2>5, VictimLemma
      <4>2. e \in Candidates
        BY <2>2, <2>5 DEF Candidates
      <4> QED  BY <2>0, <2>5, <4>1, <4>2, YoungestLemma
    <3> QED  BY <2>3, <3>1 DEF Age
  <2> QED  BY <2>4, <2>5
<1>2. Init => TimeInv
  BY BufferAssumption DEF Init, TimeInv
<1> QED  BY <1>1, <1>2, TimeInvStep, BufferConsistent, PTL DEF Spec, EvictionErrorBounded

=============================================================================
