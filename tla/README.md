# Verification of the DTN agent of ns-allinone-2.34

The repository is a distribution of the ns-2.34 network simulator with one part
of its own: a delay-tolerant networking (DTN) agent in `src/ns-2.34/dtn`, an
implementation of the bundle protocol with epidemic routing, buffer management
policies, block acknowledgements, anti-packets and network-wide statistics.
Everything else (Tcl, Tk, otcl, tclcl, nam, xgraph, zlib, cweb, sgb, gt-itm and
the stock simulator) is third-party code and the agent's environment. One piece
of it is modelled all the same, the event schedulers and timers, since every
handler of the agent runs from them.

This directory holds TLA+ modules that model the agent, TLC configurations that
check them on small instances, and TLAPS proofs. `PROJECT.json` maps every
definition to the lines it models and lists runs, findings and hazards.

## 1. The system

### Components

| Component | State | Operations | Hard behaviour | Module |
|---|---|---|---|---|
| Bundle buffer (`EpidemicRouting`, `BundleStore`) | list of entries, `number_of_buffered_bundles`, its Tcl copy, `buffer_sem`, ages | `add_bundle`, nine drop policies, `make_clean`, `UpdateLocalMessagesStat`, `delete_delivred_bundles` | counters kept apart from the list, a semaphore released on ten paths, stale ages, empty searches | `BundleBuffer` |
| Block acks (`BundlesToAck`, `ListWaitingAck`) | blocks to ack, blocks waiting, 8-bit counts, one timer per block | `add_bl_toack`, `update_bta_list`, `recv_block_ack`, `resend_bundles_block` | lost and repeated bundles, late acks, several blocks per neighbor | `BlockAck` |
| Epidemic session (`EpidemicRouting`, `BundleManager`) | buffer, neighbors, delivered ids, messages | hello, c1, c2, c3, bundle, anti-packet | sessions race hellos, lists are stale when used, empty lists | `EpidemicSession`, `BundleService` |
| Anti-packets (`Delivred_Bundles_List`) | ids known to be delivered | learn, send, purge | sent once per contact, unacknowledged | in `EpidemicSession` and `BundleBuffer` |
| Neighbor table (`DtnNeighborsManager`) | map of arrival dates, counter, timer | `add_neighbor`, `check_neighbors`, `exist_neighbor` | limit, expiry racing hellos, an invalid iterator | `NeighborTable` |
| Statistics matrix (`Network_Stat_Bloom`, `Dtn_Message`, `Dtn_Node_2`) | per bundle and node a row of age bins with a version, `bundlesSeen`, `stat_last_update` | `add_bundle`, `update_bundle_status`, `IsValid`, `send_stat_matrix`, conversations 6 to 9 | reports overtake each other, ages lag, a validity test that writes, a parser with separators | `StatMatrix` |
| Bundle manager (`BundleManager`) | `bids_`, `b_id`, `lastTimestamp_`, `frags_`, `local_` | `newBundle`, `sendBundle`, `localDelivery`, `recvHello` | once-only delivery, ageing of seen ids, id wrap-around | `BundleDelivery`; hellos and dispatch in `EpidemicSession`, `NeighborTable` |
| Registrations (`Registration`, `RegEntry`) | a list of endpoints, each active or passive, with what to do on failure | `addReg`, `deReg`, `start`, `stop`, `change` | bundles that arrive before their application, or after it changed its mind | `BundleDelivery` |
| Bundle encoding (`Bundle`) | headers, payload, fragments | `fragment`, `defragment`, sizes | fragments out of order, repeated or overlapping; a fragment cut again | `BundleDelivery` |
| Routes (`Routes`, `LinkInfo`) | a list of next hops with region and MTU | `add`, `is_there`, `getNextHop` | a route that outlives its neighbor; several routes to one node | `BundleDelivery` |
| Event schedulers and timers (`Scheduler`, `CalendarScheduler`, `HeapScheduler`, `ListScheduler`, `RealTimeScheduler`, `TimerHandler`) | clock, event numbers, three kinds of queue, status and event of each timer | `schedule`, `cancel`, `dispatch`, `run`, `sched`, `resched`, `handle` | ties, resizing while events wait, timers that act on themselves in their own handler | `Simulator`, `CalendarScheduler`, `HeapScheduler`, `ListScheduler`, `EventQueue` |
| String records (`DTNStrRecords`) | packed strings | `addRecord`, `lookup`, `getRecord` | none met | not modelled |
| Scheduling (`arrange_*`) | none | six exchange sorts of the bundles to send | ties, metrics of different age | not modelled |
| Agent (`DTNAgent`), headers | configuration | Tcl commands | none of their own | the commands on bundles, registrations and routes are actions of `BundleDelivery` |

### How they interact

One agent is a single thread: ns-2 runs one event at a time and a handler runs
to its end, so an action of a module is a whole handler. Concurrency is between
agents and between the events of one agent: packets arrive over the radio, and
four timers (hello, cleaning, block resend, neighbors) fire. A received packet
goes to `BundleManager::newBundle(Packet*)`, which dispatches on the
`conversation` field: a broadcast is a hello, 1 to 3 are the session, 4 a block
ack, 5 an anti-packet, 6 to 9 statistics, and 0 a bundle, which is delivered
(`localDelivery`) or buffered (`add_bundle`). A hello of a node that is not in
the neighbor table is a meeting: it triggers the anti-packet and, on the side
with the higher `rule`, the session. Every session handler asks the neighbor
table first, which walks it and drops expired entries.

Failure is part of normal operation: contacts end at any moment, frames are
lost, interface queues overflow, buffers evict what was just offered. Nothing is
persisted and agents do not restart, so there is no crash recovery to model.

## 2. Modules

### BundleBuffer

One agent's buffer. The C++ list is a set of entries with the position at which
each was appended; `add_bundle` first looks for the id, then either appends or,
when `free_place` says no, calls the drop policy. A policy picks its victim as
the code does: over the foreign entries, falling back to the front of the list
when its search finds none. `elapsed` is the `elapsed_time` field, brought up to
date only by `update_elapsed_time`; `Age` is what it would be now. The semaphore
is a variable because one path leaves it taken (`Hang` is the `sem_wait` that
never returns), and `status` records a crash or a hang. Policies 5 to 8 compare
utility metrics: the model takes any function from ids to a small set of
metrics. Time advances in ticks up to the expiry of the cleaning timer.

### BlockAck

A receiver and its senders. The receiver registers the blocks it asks for
(`add_bl_toack`) and counts the arrivals (`exist_bundle`, modulo `AckModulus`,
since the counts are `u_int8_t`); a complete block is acked and deleted as
`delete_bta_block` does it, with its special case for the head of the list. A
sender registers the block it was asked for, with a timer that may fire at any
time. Both directions are FIFO queues that lose messages. A handler that asks
whether its peer is a neighbor gets either answer.

### EpidemicSession and BundleService

`EpidemicSession` has any number of agents and the five kinds of messages
between them. Buffers are sets of ids without limit; eviction and expiry are the
action `forget`, which may remove any bundle in `MayForget` at any time.
`recvHello` is a hello that makes a neighbor; later hellos only refresh the
arrival date, which `NeighborTable` models. Ids are model values: parsing and
formatting of the `id-id-id*id-id` strings is abstracted to sets, keeping the
case that behaves differently, the empty list. The anti-packet mechanism is on
and every destination has a registered application. `bids_` never forgets here;
the code drops an entry after 100 times its lifespan, so `AtMostOnce` holds
within that memory, and what follows when an id is forgotten is the subject of
`BundleDelivery`. `Hears` says which agents ever come into range of which.

`BundleService` is the abstract specification: bundles are created once, a copy
only comes from a copy, delivery happens at most once, and is known to an agent
only afterwards. `EpidemicSession` implements it with `alive` mapped to the
bundles in a buffer or in flight, `delivered` to those an application received
and `known` to the agents' lists of delivered bundles.

### NeighborTable

One agent's table. `age` is the time since the arrival date of an entry was
written and `silent` the time since a hello of the node was last heard; they
differ exactly when a refresh is refused. `check_neighbors` erases a map entry
and then increments its iterator, which is undefined; the model allows any
outcome a build produces: the walk continues at any live entry, ends, or
crashes, so the first expired entry is erased and any others may stay.

### StatMatrix

Any number of agents with a buffer of a few copies each and a matrix. A row is
the set of age bins in which its node had a copy, with the version
`stat_version`, the bin of its last change; an agent writes its own row when a
copy comes, ages or goes (`addNode`, `SetTimeBinValue`) and takes the rows of
others from reports unless the version it has is larger (`addNode_report`).
`now` is the real age of a bundle and `age` the `elapsed_time` its copies carry,
which is brought up to date at cleanings and exchanges only and travels as it
stands. `IsValid` is modelled with its effects: at the ttl it writes the last
version, enters a NULL row where there is none, and ends a complete message.
Which of the agent's clocks have reached the ttl (`Late`) is a choice, since
each starts from a lagging age. The exchange follows `send_stat_matrix` and the
four handlers: policy 0 pushes the matrix (6) and is answered with the other
(7); policy 2 asks with versions (8, 9) and is answered with newer rows (7).
Descriptions are sequences of rows in the order of the map; of the string format
one thing is kept, the `$` separator, because it changes what is read. A subset
that lacks the first row of the map starts with a `$`, which becomes part of the
first name; a name is therefore a node with a number of marks. And
`get_node_from_stat` takes the position of the first `$` in the description for
the length of the first text. If the description starts with a `$`, this is the
position of the `*`, that is, the length of the bundle's id with its ttl: the
text of the marked row is cut there. What can be read of it is in `Beginnings`:
the bins up to some bin, the missing ones being 0 (`get_node_bitMap`,
`UpdateBitMap`), or no bin and the leading digits of the version, since `atoi`
reads what there is. Where the cut falls depends on the widths of printed
numbers, and the model allows every place after the name. (That the name itself
is cut is left out: with its marks it would have to be longer than the id and
ttl of the bundle, which are the name of the source and two numbers.) The row is then read a
second time under the plain name, in full. The parser thus has a set of possible
results (`get_node_from_stat`, `Readings`), and a step that sends a report
chooses one. A cut row is stored under the marked name, described and cut again,
and can reach the node that wrote it: a marked name loses its marks behind a
separator and at the second reading, so even an agent's own row may be replaced
by the beginning of itself. `past` is what each node has ever written about itself; a
row that merely comes back is not added to it.

### BundleDelivery

The way of a bundle from the application that sends it to the one that receives
it. Sources create bundles (`newBundle`, with `b_id` going round at
`max_ids_count` and timestamps of `Unit` steps to the second), holders send
copies to neighbors over their routes (`send_bundle`, which cuts a copy that is
larger than the MTU), and `Dest` takes them (`localDelivery`): fragments wait in
`frags` until they are complete, and a whole bundle is looked up among the
registrations, walked through `bids` and delivered, deferred, discarded or taken
as a duplicate. What a Tcl script decides is a `scenario`: links, routes, the
failure actions of the applications, `max_ids_count`, and bounds.

Any holder may send any copy to any neighbor at any time. `EpidemicSession`
sends less, but blocks are sent again without asking, so a copy may arrive
wherever one arrived before. A copy may be forgotten at any age.

Two details of the code shape the model. `fragment` makes the bundle itself the
first fragment, in the buffer too, and the rest is never sent, so only first
fragments travel; they can still be cut again, and differ from each other.
`Routes::add` finds an existing node by `strcmp` with the sense inverted, so
every `add` makes an entry of its own at the front, and `getNextHop` takes the
newest.

### Simulator, its queues and EventQueue

`CalendarScheduler`, `HeapScheduler` and `ListScheduler` are operators on one
scheduler's data. `Simulator` runs the three of them side by side: the calendar,
the default, decides what is dispatched, the others get the same calls, and the
fields of `out` hold what each of them served. Events belong to timers of a DTN
agent (`status_`, `event_` and the sequences of calls that `HelloTimer`,
`NeighborTimer`, `CleanTimer`, `TraceTimer` and `ResendListTimer` make when they
expire) or to packets and commands, which make any call an agent makes when it
receives one. `realtime` is the loop of `RealTimeScheduler`, where time passes
and commands arrive while it waits. `abort()` and a call on a deleted timer set
`fault`.

`EventQueue` is the abstract specification: an event stays pending until it is
cancelled or served, the earliest is served, and of those due together the one
scheduled first. Each scheduler implements it, by a mapping of its own queue.

Widths are exact ratios of ticks: the rounding of doubles is left out, and so is
what it can do to the calendar. The counters of searches that decide when the
width changes without a resize are replaced by a choice, after `MinRounds`
rounds (20 in the code), among `Factors`. The heap's second key wraps at
`KeyModulus` (2^32 in the code). `resend_bundles_block` deletes, within its
own handler, the block that holds its timer; the `status_` that
`TimerHandler::handle` reads afterwards, and may write, is freed memory, and this
is modelled as having no effect (`running \in live` in `Return`). The real-time
clock is read again after each dispatch: `RunDue` dispatches at any time of day
from the last one on.

Definitions named `..._no_purge`, `..._off_by_one` and the like, introduced as
faulty variants in their comments, are no part of a specification. Each is what
a plausible slip would make of the definition after it, and is used to see that
a property notices.

## 3. Runs

A passing run explores every reachable state of its instance.

| Run | Instance | What it shows |
|---|---|---|
| `buffer` | two sources, two ids each, room for 2, policies 0, 1, 2, 3, 4, 5, 7, 9, time 0..3, 3 appends | counters, capacity, unique ids; no hang or crash with policies 2 to 9; expiry in time; source copies go last where the policy has source priority; age policies err by at most one cleaning interval |
| `ack` | one sender, two bundles, two blocks, one retransmission, one bundle that may be evicted | counters follow lists, no more acks than asks, no block waits for ever |
| `session_relay` | three agents, one bundle, queues of 1 | delivery at most once; nothing is reported before it is delivered; the agents implement `BundleService` |
| `session_reports` | three agents in a chain, of which the middle one relays, one bundle, queues of 1, evictions, fair meetings | every agent learns of a delivery, and every copy leaves the network, those included that a relay asks for before it hears of the delivery and buffers after |
| `neighbors` | three nodes, tables for 2 and for 4, interval of 2 ticks | limit and counter hold; with room for all, neighbors that are heard are kept and met once; a quiet table empties |
| `delivery` | a source, a relay and a destination with one endpoint; payloads of 4 bytes over MTUs of 3, 4 and 6; up to 3 bundles and 2 registrations; ids modulo 2 and 3; bundles kept in `bids_` for 1 s of 2 | only whole payloads are delivered; an id is accepted again only once `bids_` may have forgotten it; what is dropped as a duplicate is one, or carries an id that was reused too early; every neighbor has a route; no complete set of fragments waits |
| `simulator` | 10 events before the run and up to 16 in all, or a real-time run with 8; the agent's four timers and one block timer; two commands that act | the calendar, through doubling, halving and changes of width, the heap and the list implement `EventQueue`; timers agree with the queue; no sanity check aborts and no deleted timer is called |
| `stat` | two agents, a bundle of each, buffers of one, two bins and the ttl for one bundle and one bin for the other, both policies, up to 3 arrivals and 2 exchanges, 4 of them in all, 2 reports in flight | a row is one its node wrote, or the beginning of one where the parser cuts it, and rows are not mixed up; no late report replaces a newer row |

The bounds are the smallest at which the interesting cases happen. A buffer of
two with three appends has an eviction with a choice of victim, from a buffer
that is all foreign, mixed, or all the agent's own. Time 3 with a cleaning
interval and an `exp_time` of 2 contains a cleaning, stale ages and an expiry
between two cleanings. Policies 6 and 8 differ from 5 and 7 only in the metric
they compare, which is an arbitrary value, and are left to the proofs. Two blocks
to one neighbor are enough for an ack to be taken for the wrong one. Three agents
are needed for a relay, and for a destination that is offered one bundle twice;
in a chain, the one in the middle buffers what it asked for before it heard of
the delivery, and the ends learn of it only through the middle. Queues of one
message already overflow whenever an answer has several parts. Three nodes around a table for
two make it overflow, and three expired entries show every incomplete walk. Two
agents with a buffer of one and two bundles make copies come, be evicted and come
back; two exchanges let the answer to the first overtake or follow the second.
Two bins are the fewest at which a cut can leave a row that is neither whole nor
empty; that such rows are stored, under marked names, under plain ones and as an
agent's own, has been seen in this instance. The bounds of `StatMatrix` that the
code does not have (`MaxArrivals`, `MaxExchanges`, `MaxEvents`, `MaxAge`,
`MaxReports`, `MaxMarks`) only cut behaviours: a report beyond
them is as good as lost, which the radio may do anyway. Ten events are enough
for a calendar of 4 buckets, its first size, to double, and to halve as they
are served, with events a year apart and events due together; one block's memory
shows a timer deleted, and created again in the same place. In `delivery`, three
bundles with ids modulo 2 or 3 reuse an id, two seconds with a
`bids_` lifetime of one see an id forgotten and not yet forgotten, and MTUs of 3,
4 and 6 cut a bundle twice, differently on two routes, or not at all.

Deadlock is checked except where behaviours really end: a crashed agent, a
contact with nothing left to exchange, an acknowledgement exchange whose
`MaxAsks` blocks are used up, statistics and deliveries whose bounds are used
up, and a simulation that halts or has no event left.

### Fairness

* `BlockAck!FairSpec`: the timer of a waiting list eventually expires, as the
  scheduler fires every pending event. Nothing is assumed of the radio.
* `EpidemicSession!FairSpec`, for the pairs of agents in `Hears` and no others:
  an agent that does not count the other as a neighbor hears it, and one that
  does drops it when it falls silent, again and again (weak fairness of
  `recvHello \/ check_neighbors`); a message on its way arrives or is lost (weak
  fairness); and of anti-packets that are sent again and again some arrive
  (strong fairness of their reception, and of nothing else: no bundle, offer or
  request is assumed to get through). Mobility and radio are the scenario's, and
  this is the weakest scenario in which spreading can be asked.
* `EpidemicSession!ContactSpec`: one contact that lasts, without loss. It is the
  most favourable scenario, used to show that one race loses a session even so.
* `NeighborTable!FairSpec`: time passes and the timer that `check_neighbors`
  reschedules fires.
* `BundleDelivery!FairSpec`: applications eventually start delivery and holders
  eventually send; it is the most favourable scenario, used to show that a
  deferred bundle is not delivered even so.

### What the code does otherwise than it says

Each of these runs expects TLC to violate a property that states what a comment
of the code says. `PROJECT.json` quotes the line.

| Run | The code |
|---|---|
| `ack_lost_block` | acking the head of two blocks throws both away |
| `session_race` | a c1 that outruns the hello is dropped, and the contact passes without a session |
| `stat_null` | asking whether statistics are valid enters a NULL row, which the next report reads |
| `delivery_deferred` | a bundle deferred "until requested" is not delivered when delivery is started: nothing takes bundles out of the queue |

The modules reproduce further behaviour of this kind, met while modelling, for
which no run is kept:

* Drop tail dereferences NULL when every entry is the agent's own; `StaysUp` is
  stated for the policies from 2 on.
* Drop youngest gives a source copy up for a foreign bundle when the buffer holds
  only source copies; drop oldest passes over foreign entries of `elapsed_time` 0
  and evicts a source copy. `SourcePriority` is therefore stated for the policies
  that keep it, `OwnDroppedLast` for the entries that a search looks at.
* Drop oldest compares ages that were not brought up to date;
  `EvictionErrorBounded` bounds the error by one cleaning interval.
* Without a drop policy (0, or an unknown one) a full buffer leaves `buffer_sem`
  taken, and the next handler blocks.
* The ack of a second block releases the first list that waits for its sender,
  since acks name no block; a repeated bundle for the receiver itself is counted
  twice, so a block can be acked before it is complete.
* An agent with an empty buffer asks for nothing in answer to a c1.
* After an empty c2 an agent asks for bundles it holds; a bundle offered before
  its spraying stopped is given to a relay afterwards.
* A full table refuses to refresh the entries it has, and loses neighbors that
  are in range; `KeptAndMetOnce` is stated for tables with room for all.
* A node refused by a full table is met anew at every hello; a walk over an
  erased iterator can leave expired entries, whose nodes are not met when they
  return.
* Under policy 2 names with `$` marks enter the matrix and spread (they count as
  nodes in the averages). A report of the same version replaces the row, the own
  one too, as the test is `<=`. An agent's own version can go back, when a copy
  returns with a smaller age, and others then know a newer one; `NeverOlder` is
  about the rows of other nodes.
* The rest that `fragment` cuts off is filled from the start of the payload and
  is not sent, so a bundle that was cut is never rebuilt; its first fragments
  wait until they expire. Removing an expired group also drops the groups in
  front of it, since `prev` is never set (bundlemanager.cc:1064-1090).
* The first registration of an endpoint hides later ones, also a passive one an
  active one.
* A source whose id has come round loses the new bundle while the old one is
  still buffered, and a destination takes the new one for a duplicate while
  `bids_` remembers the old one.

## 4. Proofs

Every theorem below holds for all values of the constants that the `ASSUME` of
its module allows; the bounds of the runs (`Max...`) are constants there too, so
they may be as large as one likes. Each proof module extends one module of the
model and is built alike: an inductive invariant made of the parts of the state,
one lemma per action that it is preserved, and theorems that read the properties
of the runs off it. What tlapm cannot do by itself, induction over data, is done
with least counterexamples: a set of numbers for which a claim fails has a
smallest element (`MinLemma`, from the well-foundedness of `<`), which leads to a
contradiction.

`SequenceLemmas` holds what several proofs need and the library does not state:
minima and maxima of sets of numbers, what `RemoveAt`, `InsertAt`, `Append`,
`\o`, `SubSeq` and `SetToSeq` do to the elements and the length of a list.

### The buffer: BundleBufferProofs

* `CountCorrect`: both counters equal the length of the list.
* `CapacityRespected`, `IdsUnique`: the capacity holds and no id is buffered
  twice. `BufferTyped`: the types.
* `AgentStaysUp`: with policies 2 to 9 no handler crashes or blocks.
* `BundlesExpire`: no entry outlives `exp_time` by more than a cleaning interval.
* `SourcesPreferred`, `SourcesDroppedLast`: which policies give up a source copy,
  and for what.
* `EvictionNearlyRight`: the ages that drop-youngest and drop-oldest compare are
  stale by at most a cleaning interval.

The first four rest on one inductive invariant, `BufferInv`: the types, the
counters, capacity, unique ids, distinct list positions, none beyond the number
of arrivals, and a released semaphore while the agent runs. None of its parts is
inductive alone: capacity needs the counter, since `free_place` tests it; the
counter needs unique ids, since replacing or refreshing entries must not merge
two of them; that a drop policy finds a victim at all needs distinct positions
and a full buffer. `RefreshLemma` (bringing entries up to date is a bijection)
and `DropLemma` (each policy replaces exactly one entry or none) carry the
argument; `BufferInvStep` combines one step per action.

`BundlesExpire` adds `TimeInv`: stamps lie in the past, the cleaning timer is
pending no further than an interval away, and an entry that would expire by the
time it fires does so there. Time cannot pass a pending timer, so the age bound
is preserved by `Tick`. The three action properties follow from what each search
returns: `SmallestLemma` says that the entry a search ends with is smallest among
those it looked at (`Candidates`), although the code's search starts from a
sentinel (99999, or the front of the list).

### Block acks: BlockAckProofs

* `AcksTyped`, `WaitingIsCounted`, `ToAckIsCounted`: the hand-kept counters bound
  or equal the lengths of the lists, for any number of senders and any width of
  the 8-bit counts.
* `NoMoreAcksThanAsks`: no sender is acked more often than it was asked.

`AcksMatchAsks` is not inductive: `delete_bta_block` throws a block away that was
not acked, so the lists say less than the counters. `AckInv` therefore counts per
sender: the acks sent plus the blocks still asked from it (`AskedFrom`) never
exceed the asks. Deleting a block can only lower the left side, and every ack
deletes the block it is for.

### The session: EpidemicSessionProofs

* `SessionTyped`: the types, and no interface queue exceeds its length.
* `DeliveredAtMostOnce`, `ReportsAreTrue`: a bundle is given to its application at
  most once, and what an agent takes for delivered is.
* `AgentsImplementService`: `EpidemicSession` implements `BundleService`, safety
  being all that specification states.

`SessionInv` says what is in flight: every id in an anti-packet on its way is of a
bundle that its destination's `bids` holds, which is when it counts as delivered.
Without the messages neither property is inductive, as a report may be received
long after everything else about the bundle is forgotten. The refinement goes
action by action: a creation maps to `Create`, a delivery to `Deliver`, a report
that is read to `Learn`, and every other step to `Vanish` of the bundles whose last
copy it loses, if any. The proof needs finitely many bundles, an assumption of
`EpidemicSession` (a scenario has finitely many).

### The neighbor table: NeighborTableProofs

* `TableTyped`: the table stays within its limit.
* `TableCounted`: the counter is the size of the map.
* `TableKeeps`: with room for all, no node that is heard is eliminated or met
  again.

They rest on `TableInv`. Counter and limit are inductive with the types:
`SweptLemma` says that a walk, wherever it goes after an erasure, only takes out
expired entries and that the sizes add up. `TableKeeps` needs `DatesTrue` as
well: while the table has room, an entry's date is that of the node's last hello,
and a node that is not in the table has been silent for the interval. A full
table breaks it, as it refuses to renew dates, so `KeptAndMetOnce` cannot be had
for tables that fill up.

### Delivery: BundleDeliveryProofs

* `DeliveryTyped`: every copy in a buffer, queue or group is one of a bundle that
  an application sent.
* `PayloadsIntact`, `GroupsLackTheEnd`: no part of a payload is delivered for the
  whole, and no group of fragments has the whole payload.
* `NotAcceptedAgain`: an id is accepted again only after `exp_time * KeepFactor`.
* `DuplicatesExplained`: what is deleted as a duplicate is one, or its source has
  gone through all its ids in the meantime.
* `NeighborsHaveRoutes`: `getNextHop` finds a route to every neighbor.

`DeliverySound` proves `DeliveryInv`, part by part:

* `SentInv`: the n-th bundle of a source has the id `uid` with
  `n = q * (max_ids_count - 1) + uid` for some `q` (`Turns`), so two bundles of
  one id are a whole round apart.
* `StoreInv`, `DestInv`: a copy is its original, or the original with `frag` set
  and a proper beginning of the payload. Cutting a beginning gives a beginning,
  and beginnings never add up to the end, whatever their number and order.
* `LinkInv`: every route has an MTU with room for the headers and one byte, from
  the scenario, so a fragment is never empty.
* `BidsInv`: the entries of `bids` and the acceptances younger than the limit
  correspond, each entry having an `Origin` (its stamp less its lifespan) that is
  the time of its acceptance. A walk ages the entries it passes and not the rest;
  the origin is what neither changes. That the walk loses no entry rests on
  `PickedLemma`: the positions it keeps, ranked, are exactly the numbers up to
  how many they are.

### Statistics: StatMatrixProofs

* `StatTyped`: the shape of matrices, only an agent's own row may be NULL, no copy
  is older than its message and no buffer holds more than its capacity.
* `BeliefsSourced`: what an agent believes about a node is a row that node once
  wrote about itself, or the beginning of one: no bin, no later version and no
  row of another node.
* `BeliefsAdvance`: a late report never replaces a newer row of another node.

`StatInv` puts the reports in flight next to the matrices: a row may leave the
matrix it was described from before the report arrives, so that its node wrote
it has to be said of the report itself (`BodyOf`). Rows of reports are
never NULL, as describing one ends the simulation first. The steps of an agent
fall into two kinds. `OwnStep`: only its own rows change, which `past` remembers
at once; and `ReportStep`: each row is as before or one of the report's, and no
version decreases. `UpdateMessageLemma` shows this for a list of any length, and
`DescriptionLemma` that whatever is selected from a matrix and parsed again
yields, under names with any number of `$` marks, rows of the right nodes or
beginnings of them: the names in order are a permutation of the selected ones
(`InOrderLemma`), and what the parser reads of a row that is cut is a beginning
of it (`BeginningsLemma`). Since rows are sent on and cut again, the invariant
needs that a beginning of a beginning is one (`BeginningTwice`); since an agent's
own row may be replaced by a beginning of itself, `past` does not record every
own row, and `PastLemma` finds those that are not new in the invariant of the
step before.

### Schedulers and timers: SimulatorProofs

* `TypeCorrect`, `NeverFaults`: the types, among them the four buckets and the
  positive width that the calendar's search relies on, and that no sanity check
  of schedulers and timers aborts the simulation and no deleted timer is called.
* `TimersAgree`: a timer is pending exactly while one event of its own, the one in
  `event_`, is in the queue, and the event of a deleted one never is.
* `CalendarStaysSound`: the bookkeeping of the calendar is right after any
  sequence of insertions, removals, resizes and changes of width.
* `CalendarRefinement`, `ListRefinement`: both implement `EventQueue`, however
  many events, buckets and years there are.
* `HeapRefinement`: so does the heap as long as `uid_ <= KeyModulus` (`KeysLast`).
  The secondary key wraps after 2^32 insertions, and from then on the heap may
  serve an event before one of the same time that was scheduled earlier; up to
  then the theorem holds, with deletions from the middle.

`SimulatorInvariant` proves `SimInv`:

* `Agree(cal, queue_, uid_)`: the calendar is `Sound`, the list is in the order of
  service with the same events, all numbered below `uid_`. `Sound` adds to
  `CalendarSound` that no event is before `cal_clock_`: without it the search,
  which starts there, could miss one. In real time the search runs ahead of
  commands that schedule earlier events, so `insert` has to set the clock back.
* `Match`, `Handling`: `TimersMatchQueue`, timer by timer.
* `CallsOk`: the calls a handler has yet to make are possible together. None
  creates a block that is there, re-arms or deletes one that is not, and none is
  both deleted and used. That is what keeps `fault` at `"none"`.
* `NotLate`: in a simulation no event is before the clock, so that time does not
  run backwards when one is dispatched.

The calendar is proved from its arithmetic. Days (`t / width`, rounded down) grow
with time (`DayLemma`), so half a year, a bucket and a year bound how far apart
the events are that the three passes of `head` accept: `FoundLemma` shows that
the bucket it finds starts with the first event of all. `insert` and `insert2`
are the same insertion into a list, after and before the equals
(`InsertPlainLemma`, `Insert2Lemma`); `resize` flattens the buckets backwards
(`BackwardsLemma`) and folds `insert2` over them, so that equals come back in
their order (`RefillLemma`, `RebuildLemma`). `newwidth` yields a positive width
since the fullest bucket it samples has different times (`WidthLemma`).

The heap is proved as an array. `Ascent(n)` is a way to the root (`AscentLemma`)
and the places that an element sinks past are a path down (`DownLemma`). On them
`RiseLemma`, `SinkLemma` and `RaiseLemma` show what the three loops do: each
keeps every entry, once, and every parent before its children. `heap_delete`
swaps an element to the root over smaller ones; the array is then in order
except at its root (`Nearly`), and that is all that the extraction needs. With
secondary keys that have not wrapped the keys order entries as `EventQueue` does
(`KeyLemma`), and the root is the first (`RootLemma`).

Every step is one of `QueueStep`: it leaves the events alone, adds, removes,
moves or serves one, in all three queues. The refinements follow from that and
the invariant alone. Recursive functions and folds (`Ascent`, the descent, the
flattening, `resize`, the start of the script) are shown to exist for every length
before they are used (`UpExists`, `DownExists`, `FlatExists`, `RefillExists`,
`StartExists`).

### Only model-checked

* Liveness (`WaitingResolved`, `ReportSpreads`, `DeliveredPurged`,
  `QuietEmpties`): fairness is out of the proof system's reach.
* The heap after its secondary key has wrapped, in no run either: it is where the
  code's order of equal times ends.
* The violations of the four `violation` runs, which are single behaviours.

## 5. Not modelled

* Counters that are only reported, log files, the Tcl command parser.
* The encoding of id lists as strings, and the undefined reads of its parsers.
* The arithmetic of the utility metrics: they are arbitrary values.
* Custody transfer and status reports: their calls are commented out or discard
  their result in this version.
* Statistics: the maps `mi`, `dr` and `dd` and the averages over them, and
  meeting times; they are computed from the rows that are modelled.
* Limits of the session: buffers are unbounded there, and capacity is
  `BundleBuffer`'s.
* Routes: the default route `*` (`is_there` would compare with its NULL name),
  and `delete_route` and `isAvail`, which nothing calls.
* `DTNStrRecords` and the `arrange_*` sorts: pure functions on strings and lists,
  on whose results no property of the other modules depends.
* Of ns-2, everything but the schedulers and timers: the splay tree scheduler
  (a rebalancing of pointers behind the same interface), the network stack and
  the protocol models. To the agent they are a link that keeps order and loses
  packets. The vendored packages build and script the simulator and hold nothing
  of the agent; this is most of the repository's lines.

## 6. Plan

Components that could follow: the `arrange_*` sorts as one recursive function
against a sorted permutation, `DTNStrRecords` against a sequence of strings, and
the averages of the statistics over a matrix with foreign or missing rows.

All safety properties of the passing runs are proved. What is left to prove is
liveness, which needs another proof system.
