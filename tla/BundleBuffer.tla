---------------------------- MODULE BundleBuffer ----------------------------
(***************************************************************************)
(* The main buffer of one DTN agent (class EpidemicRouting, its list of    *)
(* BundleStore entries): admission of new bundles, the nine drop policies  *)
(* applied on congestion, the periodic expiry of old bundles and their     *)
(* removal after an anti-packet.                                           *)
(*                                                                         *)
(* The buffer is a C++ list that only grows at its end, so it is kept here *)
(* as a set of entries, each with the position `pos' at which it was       *)
(* appended: the list order is the order of the positions.                 *)
(*                                                                         *)
(* Left out: the counters that are only reported (deleted_bundles,         *)
(* number_recv_bundles, hopcount), the visitors map and the list of seen   *)
(* messages (they feed the statistics only), the statistics matrix itself, *)
(* and update_bta_list, which is the subject of module BlockAck.           *)
(***************************************************************************)
EXTENDS Integers, FiniteSets

CONSTANTS
    Me,                \* the agent this buffer belongs to
    Nodes,             \* the sources of bundles
    UIds,              \* the u_id values a source may give its bundles
    Policies,          \* the values of drop_policie that are explored
    MaxBundles,        \* max_bundles_in_local_buffer
    ExpTime,           \* exp_time of a bundle
    CleaningInterval,  \* BUFFER_CLEANING_INTERVAL
    InfiniteTtl,       \* infinite_ttl = 1
    MaxSpryingTime,    \* max_sprying_time
    DropOldestBin,     \* drop_oldest_bin
    Metrics,           \* values the utility metrics of policies 5 to 8 take
    Sentinel,          \* the 99999 the minimum searches start from
    MaxElapsed,        \* the largest elapsed_time a bundle arrives with
    MayBeDelivered,    \* bound: the ids that anti-packets may report
    MaxTime,           \* bound: the last instant of a behaviour
    MaxArrivals        \* bound: the number of bundles ever appended

ASSUME BufferAssumption ==
    /\ Me \in Nodes
    /\ Policies \subseteq Nat
    /\ MaxBundles \in Nat \ {0}
    /\ ExpTime \in Nat \ {0}
    /\ CleaningInterval \in Nat \ {0}
    /\ InfiniteTtl \in BOOLEAN
    /\ MaxSpryingTime \in Nat
    /\ DropOldestBin \in Nat
    /\ Sentinel \in Nat
    /\ Metrics \subseteq Int /\ \A m \in Metrics : m < Sentinel
    /\ MaxElapsed \in Nat /\ MaxElapsed + 1 >= ExpTime
    /\ MayBeDelivered \subseteq [src : Nodes, u_id : UIds]
    /\ MaxTime \in Nat
    /\ MaxArrivals \in Nat

VARIABLES
    drop_policie,      \* configured once, before the agent runs
    store,             \* bundleStoreList
    number_of_buffered_bundles,
    epidemic_buffered_bundles,   \* the copy bound to the Tcl agent
    buffer_sem,        \* the semaphore around the list
    dbl,               \* ids the anti-packet list knows to be delivered
    now,               \* TIME_IS
    cleanAt,           \* when CleanBufferTimer expires next
    arrivals,          \* how many entries were ever appended
    status             \* "running", "hung" in sem_wait, or "crashed"

vars == <<drop_policie, store, number_of_buffered_bundles,
          epidemic_buffered_bundles, buffer_sem, dbl, now, cleanAt,
          arrivals, status>>

Ids == [src : Nodes, u_id : UIds]

\* A bundle handed to add_bundle, and an entry of the list.
Bundle == [id : Ids, elapsed : 0..MaxElapsed]
BundleStore == [id : Ids, elapsed : Nat, stamp : Nat, spray : BOOLEAN,
                pos : Nat]

TypeOK ==
    /\ drop_policie \in Policies
    /\ store \subseteq BundleStore
    /\ IsFiniteSet(store)
    /\ number_of_buffered_bundles \in Int
    /\ epidemic_buffered_bundles \in Int
    /\ buffer_sem \in {0, 1}
    /\ dbl \subseteq Ids
    /\ now \in Nat
    /\ cleanAt \in Nat
    /\ arrivals \in Nat
    /\ status \in {"running", "hung", "crashed"}

-----------------------------------------------------------------------------
(* Queries on the list. *)

is_my_message(b) == b.id.src = Me

\* Faulty variant of exist_id: source copies are not looked at.
exist_id_foreign_only(id) == \E e \in store : e.id = id /\ e.id.src # Me

exist_id(id) == \E e \in store : e.id = id

\* Faulty variant of free_place: off by one.
free_place_off_by_one == number_of_buffered_bundles <= MaxBundles

free_place == number_of_buffered_bundles < MaxBundles

Foreign == {e \in store : ~is_my_message(e)}

\* Those of the entries in S that come first, or last, in the list.
First(S) == {e \in S : \A f \in S : e.pos <= f.pos}
Last(S) == {e \in S : \A f \in S : f.pos <= e.pos}

\* bundleStoreList.begin(), which every search starts from.
Front == First(store)

\* Faulty variant of OrFront: the front goes, whatever the search has found.
AlwaysFront(S) == Front

\* A search that falls back to the front when no candidate is found.
OrFront(S) == IF S = {} THEN Front ELSE First(S)

get_youngest_message ==
    LET young == {e \in Foreign : e.elapsed < Sentinel}
    IN  OrFront({e \in young : \A f \in young : e.elapsed <= f.elapsed})

\* Faulty variant of get_oldest_message: the comparison is the wrong way round.
get_oldest_message_swapped ==
    LET old == {e \in Foreign : e.elapsed > 0}
    IN  OrFront({e \in old : \A f \in old : e.elapsed <= f.elapsed})

get_oldest_message ==
    LET old == {e \in Foreign : e.elapsed > 0}
    IN  OrFront({e \in old : \A f \in old : f.elapsed <= e.elapsed})

\* The foreign entries of smallest metric, m being the metric of every id.
smallest_metric(m) ==
    {e \in Foreign : \A f \in Foreign : m[e.id] <= m[f.id]}

\* Faulty variant of smallest_metric_value: the search starts from 0.
smallest_metric_value_from_0(m) == 0

\* The minimum the search returns: Sentinel when every entry is a source copy.
smallest_metric_value(m) ==
    IF Foreign = {} THEN Sentinel
    ELSE CHOOSE v \in Metrics : \E e \in smallest_metric(m) : m[e.id] = v

\* The age of an entry now: elapsed_time is only brought up to date by
\* update_elapsed_time, so it lags behind.
Age(e) == e.elapsed + (now - e.stamp)

\* Faulty variant of update_elapsed_time: the date of the update is not kept.
update_elapsed_time_no_stamp(e) == [e EXCEPT !.elapsed = Age(e)]

update_elapsed_time(e) ==
    [e EXCEPT !.elapsed = Age(e),
              !.stamp = now,
              !.spray = @ /\ Age(e) <= MaxSpryingTime]

-----------------------------------------------------------------------------
Init ==
    /\ drop_policie \in Policies
    /\ store = {}
    /\ number_of_buffered_bundles = 0
    /\ epidemic_buffered_bundles = 0
    /\ buffer_sem = 1
    /\ dbl = {}
    /\ now = 0
    /\ cleanAt = CleaningInterval
    /\ arrivals = 0
    /\ status = "running"

NewEntry(b) == [id |-> b.id, elapsed |-> b.elapsed, stamp |-> now,
                spray |-> TRUE, pos |-> arrivals + 1]

\* What a handler of this module leaves alone: the configuration and time.
Config == <<drop_policie, now>>

\* The drop policies. Each is called with the semaphore taken, releases it on
\* its return, and either puts b in the place of a victim or discards b; the
\* number of buffered bundles is not touched.
Replace(v, b) ==
    /\ arrivals < MaxArrivals
    /\ store' = (store \ {v}) \cup {NewEntry(b)}
    /\ arrivals' = arrivals + 1
    /\ UNCHANGED <<buffer_sem, status>>

\* Faulty variant of Discard: it returns without sem_post.
DiscardNoPost == buffer_sem' = 0 /\ UNCHANGED <<store, arrivals, status>>

Discard == UNCHANGED <<store, arrivals, buffer_sem, status>>

\* The loop that looks for the last foreign entry tests position 0 before it
\* tests lp > 0, and get_pointer_to(0) is NULL.
add_with_drop_tail(b) ==
    \/ /\ ~is_my_message(b)
       /\ Discard
    \/ /\ is_my_message(b)
       /\ \E v \in Last(Foreign) : Replace(v, b)
    \/ /\ is_my_message(b)
       /\ Foreign = {}
       /\ status' = "crashed"
       /\ buffer_sem' = 0
       /\ UNCHANGED <<store, arrivals>>

add_with_drop_from_front(b) ==
    \E v \in OrFront(Foreign) : Replace(v, b)

add_with_drop_youngest_message(b) ==
    \E v \in get_youngest_message :
        IF b.elapsed > v.elapsed \/ is_my_message(b)
        THEN Replace(v, b)
        ELSE Discard

add_with_drop_oldest_message(b) ==
    \E v \in get_oldest_message :
        IF b.elapsed < v.elapsed \/ is_my_message(b)
        THEN Replace(v, b)
        ELSE Discard

\* Inside the bin, the new bundle and the oldest one are equally likely to go.
add_with_bin_drop_oldest(b) ==
    \E v \in get_oldest_message :
        \/ /\ \/ is_my_message(b)
              \/ v.elapsed - b.elapsed >= DropOldestBin
              \/ b.elapsed - v.elapsed < DropOldestBin
           /\ Replace(v, b)
        \/ /\ ~is_my_message(b)
           /\ v.elapsed - b.elapsed < DropOldestBin
           /\ Discard

\* Policies 5, 6 and 8: the new bundle wins a tie.
add_by_metric(b, m) ==
    \E v \in OrFront(smallest_metric(m)) :
        IF m[b.id] >= smallest_metric_value(m) \/ is_my_message(b)
        THEN Replace(v, b)
        ELSE Discard

\* Policy 7: a tie is broken at random.
add_and_maximize_total_delivery_rate_approximation(b, m) ==
    \E v \in OrFront(smallest_metric(m)) :
        \/ /\ m[b.id] >= smallest_metric_value(m) \/ is_my_message(b)
           /\ Replace(v, b)
        \/ /\ m[b.id] <= smallest_metric_value(m) /\ ~is_my_message(b)
           /\ Discard

\* No such policy: the function returns without sem_post.
no_drop_policie ==
    /\ buffer_sem' = 0
    /\ UNCHANGED <<store, arrivals, status>>

drop(b) ==
    \/ drop_policie = 1 /\ add_with_drop_tail(b)
    \/ drop_policie = 2 /\ add_with_drop_from_front(b)
    \/ drop_policie = 3 /\ add_with_drop_youngest_message(b)
    \/ drop_policie = 4 /\ add_with_drop_oldest_message(b)
    \/ drop_policie \in {5, 6, 8}
       /\ \E m \in [Ids -> Metrics] : add_by_metric(b, m)
    \/ drop_policie = 7
       /\ \E m \in [Ids -> Metrics] :
             add_and_maximize_total_delivery_rate_approximation(b, m)
    \/ drop_policie = 9 /\ add_with_bin_drop_oldest(b)
    \/ drop_policie \notin 1..9 /\ no_drop_policie

\* sem_wait on a taken semaphore never returns: the simulator is a single
\* thread.
Hang ==
    /\ buffer_sem = 0
    /\ status' = "hung"
    /\ UNCHANGED <<store, number_of_buffered_bundles,
                   epidemic_buffered_bundles, buffer_sem, arrivals>>

\* Faulty variant of add_to_free_place: the semaphore is posted twice.
add_to_free_place_double_post(b) ==
    /\ arrivals < MaxArrivals
    /\ store' = store \cup {NewEntry(b)}
    /\ arrivals' = arrivals + 1
    /\ number_of_buffered_bundles' = number_of_buffered_bundles + 1
    /\ epidemic_buffered_bundles' = number_of_buffered_bundles'
    /\ buffer_sem' = buffer_sem + 1
    /\ UNCHANGED status

add_to_free_place(b) ==
    /\ arrivals < MaxArrivals
    /\ store' = store \cup {NewEntry(b)}
    /\ arrivals' = arrivals + 1
    /\ number_of_buffered_bundles' = number_of_buffered_bundles + 1
    /\ epidemic_buffered_bundles' = number_of_buffered_bundles'
    /\ UNCHANGED <<buffer_sem, status>>

\* A bundle of the local application, or one received from a neighbor.
add_bundle(b) ==
    /\ status = "running"
    /\ \/ /\ exist_id(b.id)
          /\ UNCHANGED <<store, number_of_buffered_bundles,
                         epidemic_buffered_bundles, buffer_sem, arrivals,
                         status>>
       \/ /\ ~exist_id(b.id)
          /\ \/ Hang
             \/ /\ buffer_sem = 1
                /\ free_place
                /\ add_to_free_place(b)
             \/ /\ buffer_sem = 1
                /\ ~free_place
                /\ drop(b)
                /\ UNCHANGED <<number_of_buffered_bundles,
                               epidemic_buffered_bundles>>
    /\ UNCHANGED <<Config, dbl, cleanAt>>

-----------------------------------------------------------------------------
(* Removal of entries. *)

\* Faulty variant of Remove: several deletions are counted once.
RemoveCountedOnce(S) ==
    /\ number_of_buffered_bundles' =
           number_of_buffered_bundles - (IF S = {} THEN 0 ELSE 1)
    /\ epidemic_buffered_bundles' = number_of_buffered_bundles'

Remove(S) ==
    /\ number_of_buffered_bundles' =
           number_of_buffered_bundles - Cardinality(S)
    /\ epidemic_buffered_bundles' =
           IF S = {} THEN epidemic_buffered_bundles
                     ELSE number_of_buffered_bundles'

\* The entries make_clean deletes, and what it leaves: every entry is first
\* brought up to date.
Expired == {e \in store : Age(e) >= ExpTime}
Cleaned == {update_elapsed_time(e) : e \in store \ Expired}

\* Called by CleanBufferTimer, and by TraceTimer whenever it expires.
make_clean ==
    /\ status = "running"
    /\ ~InfiniteTtl
    /\ \/ /\ number_of_buffered_bundles <= 0
          /\ cleanAt' = now + CleaningInterval
          /\ UNCHANGED <<store, number_of_buffered_bundles,
                         epidemic_buffered_bundles, buffer_sem, arrivals,
                         status>>
       \/ /\ number_of_buffered_bundles > 0
          /\ Hang
          /\ UNCHANGED cleanAt
       \/ /\ number_of_buffered_bundles > 0
          /\ buffer_sem = 1
          /\ store' = Cleaned
          /\ Remove(Expired)
          /\ cleanAt' = now + CleaningInterval
          /\ UNCHANGED <<buffer_sem, arrivals, status>>
    /\ UNCHANGED <<Config, dbl>>

\* Refreshes every entry, before the statistics are sent to a neighbor.
UpdateLocalMessagesStat ==
    /\ status = "running"
    /\ store' = {update_elapsed_time(e) : e \in store}
    /\ UNCHANGED <<drop_policie, number_of_buffered_bundles,
                   epidemic_buffered_bundles, buffer_sem, dbl, now, cleanAt,
                   arrivals, status>>

delete_delivred_bundles(delivered) ==
    LET gone == IF number_of_buffered_bundles > 0
                THEN {e \in store : e.id \in delivered}
                ELSE {}
    IN  \/ Hang
        \/ /\ buffer_sem = 1
           /\ store' = store \ gone
           /\ Remove(gone)
           /\ UNCHANGED <<buffer_sem, arrivals, status>>

\* An anti-packet with the ids in S; an empty one does not mark the list as
\* updated.
recv_anti_packet(S) ==
    /\ status = "running"
    /\ S # {}
    /\ dbl' = dbl \cup S
    /\ delete_delivred_bundles(dbl')
    /\ UNCHANGED <<Config, cleanAt>>

\* localDelivery records a bundle that has reached this agent.
add_delivred_bundle(id) ==
    /\ status = "running"
    /\ dbl' = dbl \cup {id}
    /\ UNCHANGED <<drop_policie, store, number_of_buffered_bundles,
                   epidemic_buffered_bundles, buffer_sem, now, cleanAt,
                   arrivals, status>>

\* Time advances to the next event: never past the expiry of a timer.
Tick ==
    /\ status = "running"
    /\ now < MaxTime
    /\ InfiniteTtl \/ now < cleanAt
    /\ now' = now + 1
    /\ UNCHANGED <<drop_policie, store, number_of_buffered_bundles,
                   epidemic_buffered_bundles, buffer_sem, dbl, cleanAt,
                   arrivals, status>>

Next ==
    \/ \E b \in Bundle : add_bundle(b)
    \/ make_clean
    \/ UpdateLocalMessagesStat
    \/ \E S \in SUBSET MayBeDelivered : recv_anti_packet(S)
    \/ \E id \in MayBeDelivered : add_delivred_bundle(id)
    \/ Tick

Spec == Init /\ [][Next]_vars

-----------------------------------------------------------------------------
(* Properties. *)

\* The counter free_place and make_clean rely on, and its copy bound to Tcl,
\* are the length of the list: no admission, drop policy, expiry or
\* anti-packet removes an entry without counting it, or counts one twice.
CountMatchesList ==
    /\ number_of_buffered_bundles = Cardinality(store)
    /\ epidemic_buffered_bundles = number_of_buffered_bundles

\* The buffer never holds more than max_bundles_in_local_buffer bundles.
WithinCapacity == Cardinality(store) <= MaxBundles

\* No bundle is buffered twice: exist_id, send_bundles_list and the drop
\* policies all identify an entry by its id.
NoDuplicateIds == \A e, f \in store : e.id = f.id => e = f

\* Positions are list positions: two entries never share one.
DistinctPositions == \A e, f \in store : e.pos = f.pos => e = f

\* With a drop policy other than drop tail, no sequence of arrivals, timers and
\* anti-packets leaves buffer_sem taken, blocks in sem_wait or follows a NULL
\* entry.
StaysUp == drop_policie \in 2..9 => status = "running" /\ buffer_sem = 1

\* A bundle is gone at most one cleaning interval after its time is over: its
\* age never exceeds the largest elapsed_time it can have had on arrival, or
\* kept after a cleaning, by more than CleaningInterval.
AgeBound ==
    ~InfiniteTtl => \A e \in store : Age(e) <= MaxElapsed + CleaningInterval

\* Why AgeBound holds: the next cleaning is at most one interval away, every
\* elapsed_time was brought up to date since the last one, and no bundle will
\* be over its age when the next one comes.
TimeInv ==
    ~InfiniteTtl =>
        /\ now <= cleanAt /\ cleanAt <= now + CleaningInterval
        /\ \A e \in store :
              /\ cleanAt - CleaningInterval <= e.stamp /\ e.stamp <= now
              /\ e.elapsed + (cleanAt - e.stamp)
                     <= MaxElapsed + CleaningInterval

\* Why the list stays consistent: the inductive invariant.
BufferInv ==
    /\ TypeOK
    /\ CountMatchesList
    /\ WithinCapacity
    /\ NoDuplicateIds
    /\ DistinctPositions
    /\ \A e \in store : e.pos <= arrivals /\ e.stamp <= now
    /\ StaysUp

\* The entries a drop policy evicts in this step, and the one it admits.
Evicted == IF arrivals' > arrivals THEN store \ store' ELSE {}
Admitted == store' \ store

\* Source priority: drop tail and the utility policies never evict a source copy
\* for a foreign bundle. (Drop front never claims to; the age policies fall
\* back to the front of the list whoever owns it.)
SourcePriority ==
    [][\A v \in Evicted, n \in Admitted :
            drop_policie \in {1, 5, 6, 7, 8} /\ is_my_message(v) =>
                is_my_message(n)]_vars

\* The entries the search of the policy looks at: that for the youngest starts
\* from Sentinel, that for the oldest from 0.
Candidates == {e \in Foreign : /\ drop_policie = 3 => e.elapsed < Sentinel
                               /\ drop_policie \in {4, 9} => e.elapsed > 0}

\* A source copy is evicted only when the search has no foreign bundle to look
\* at. (The one for the oldest passes over foreign entries of elapsed_time 0,
\* the one for the youngest over those of 99999 and more.)
OwnDroppedLast ==
    [][\A v \in Evicted : is_my_message(v) => Candidates = {}]_vars

\* The elapsed times that drop-youngest and drop-oldest compare are stale, but
\* not by more than one cleaning interval: no foreign bundle that stays is
\* older (younger) than the evicted one by more than that.
EvictionErrorBounded ==
    [][\A v \in Evicted, e \in Foreign :
            ~InfiniteTtl /\ ~is_my_message(v) =>
                /\ drop_policie \in {4, 9} =>
                       Age(e) - Age(v) <= CleaningInterval
                /\ drop_policie = 3 /\ e.elapsed < Sentinel =>
                       Age(v) - Age(e) <= CleaningInterval]_vars

=============================================================================
