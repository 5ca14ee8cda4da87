-------------------------- MODULE EpidemicSession --------------------------
(***************************************************************************)
(* The exchange of bundles between agents that meet (EpidemicRouting, with *)
(* the parts of BundleManager and Delivred_Bundles_List it uses).          *)
(*                                                                         *)
(* An agent that hears the hello of a node that is not its neighbor makes  *)
(* it one, sends it an anti-packet with the bundles it knows to be         *)
(* delivered and, if its own rule is the higher one, opens a session:      *)
(*                                                                         *)
(*      c1: the ids it holds          ->                                   *)
(*                                    <-  c2: the ids I hold, the ids      *)
(*                                            I want of yours              *)
(*      c3: the ids I want of yours   ->                                   *)
(*      bundles wanted in c2          ->                                   *)
(*                                    <-  bundles wanted in c3             *)
(*                                                                         *)
(* The buffers are unbounded here; a bundle that is dropped or expires     *)
(* (module BundleBuffer) leaves by the action forget, and a neighbor that  *)
(* is silent for too long (module NeighborTable) by the action             *)
(* check_neighbors.  Messages between two agents keep their order, any of  *)
(* them may be lost, and no more than MaxInFlight wait in the queue of the *)
(* interface, which drops what does not fit.                               *)
(***************************************************************************)
EXTENDS Integers, Sequences, FiniteSets, SequencesExt

CONSTANTS
    Nodes,
    Rule,           \* the rule of each agent, set in the scenario
    Bundles,
    Src, Dst,       \* source and destination of each bundle
    Hears,          \* the pairs <<m, n>> of agents: m ever hears n
    Routing,        \* activate_routing: 1 epidemic, 2 with bounded spraying
    MaxInFlight,    \* length of an interface queue
    MayForget       \* bundles that may be dropped or expire

ASSUME SessionAssumption ==
    /\ Rule \in [Nodes -> Nat]
    /\ IsFiniteSet(Bundles)
    /\ Src \in [Bundles -> Nodes] /\ Dst \in [Bundles -> Nodes]
    /\ \A b \in Bundles : Src[b] # Dst[b]
    /\ Hears \subseteq Nodes \X Nodes
    /\ Routing \in {1, 2}
    /\ MaxInFlight \in Nat
    /\ MayForget \subseteq Bundles

VARIABLES
    created,        \* bundles the applications have sent
    store,          \* ids in each agent's buffer
    sprying,        \* those of them with enable_sprying = 1
    neighbors,      \* each agent's neighbor table
    bids,           \* bids_: the ids delivered to the agent's application
    dbl,            \* Delivred_Bundles_List
    deliveries,     \* how often each bundle was given to an application
    chan            \* chan[n][m]: messages from n to m

vars == <<created, store, sprying, neighbors, bids, dbl, deliveries, chan>>

Message == [type : {"c1", "c3", "anti"}, list : SUBSET Bundles]
           \cup [type : {"c2"}, offer : SUBSET Bundles, want : SUBSET Bundles]
           \cup [type : {"bundle"}, id : Bundles]

TypeOK ==
    /\ created \subseteq Bundles
    /\ store \in [Nodes -> SUBSET Bundles]
    /\ \A n \in Nodes : sprying[n] \subseteq store[n]
    /\ neighbors \in [Nodes -> SUBSET Nodes]
    /\ bids \in [Nodes -> SUBSET Bundles]
    /\ dbl \in [Nodes -> SUBSET Bundles]
    /\ deliveries \in [Bundles -> Nat]
    /\ \A n, m \in Nodes : /\ Len(chan[n][m]) <= MaxInFlight
                           /\ ToSet(chan[n][m]) \subseteq Message

Init ==
    /\ created = {}
    /\ store = [n \in Nodes |-> {}]
    /\ sprying = [n \in Nodes |-> {}]
    /\ neighbors = [n \in Nodes |-> {}]
    /\ bids = [n \in Nodes |-> {}]
    /\ dbl = [n \in Nodes |-> {}]
    /\ deliveries = [b \in Bundles |-> 0]
    /\ chan = [n \in Nodes |-> [m \in Nodes |-> <<>>]]

Buffers == <<created, store, sprying, bids, dbl, deliveries>>

-----------------------------------------------------------------------------
(* Lists of ids. *)

\* bundles_id_list: what n tells m it holds. With routing 2 a bundle whose
\* spraying is over is only offered to its destination.
LocalList(n, m) ==
    IF Routing = 1 THEN store[n]
    ELSE {b \in store[n] : b \in sprying[n] \/ Dst[b] = m}

\* What n lacks of a received list. An empty list has its own branch, which
\* copies the local list (for the destination "", which nothing has).
list_diff(n, recv) ==
    IF recv # {} THEN recv \ (bids[n] \cup dbl[n] \cup store[n])
    ELSE IF Routing = 1 THEN store[n] ELSE sprying[n]

\* Faulty variant of Sent: the queue has no limit.
Sent_unlimited(p, q) == p \o q

\* The queue p after the messages q were sent.
Sent(p, q) == SubSeq(p \o q, 1, IF Len(p \o q) < MaxInFlight
                                THEN Len(p \o q) ELSE MaxInFlight)

\* m handles the first message of n, and answers it with q.
Answer(m, n, q) ==
    chan' = [chan EXCEPT ![n][m] = Tail(@), ![m][n] = Sent(@, q)]

\* Faulty variant of send_bundles_list: ids that left the buffer are sent too.
send_bundles_list_unchecked(n, m, list) ==
    SetToSeq({[type |-> "bundle", id |-> b] : b \in list})

\* send_bundles_list, as messages of n to m: the bundles of the list that are
\* still buffered, those for m first.
send_bundles_list(n, m, list) ==
    LET have == list \cap store[n]
        msgs(S) == SetToSeq({[type |-> "bundle", id |-> b] : b \in S})
    IN  msgs({b \in have : Dst[b] = m}) \o msgs({b \in have : Dst[b] # m})

-----------------------------------------------------------------------------
(* The application and the buffer. *)

\* newBundle of the application at the source.
newBundle(b) ==
    /\ b \notin created
    /\ created' = created \cup {b}
    /\ store' = [store EXCEPT ![Src[b]] = @ \cup {b}]
    /\ sprying' = [sprying EXCEPT ![Src[b]] = @ \cup {b}]
    /\ UNCHANGED <<neighbors, bids, dbl, deliveries, chan>>

forget(n, b) ==
    /\ b \in store[n] \cap MayForget
    /\ store' = [store EXCEPT ![n] = @ \ {b}]
    /\ sprying' = [sprying EXCEPT ![n] = @ \ {b}]
    /\ UNCHANGED <<created, neighbors, bids, dbl, deliveries, chan>>

\* update_elapsed_time of a bundle older than max_sprying_time.
stop_sprying(n, b) ==
    /\ Routing = 2
    /\ b \in sprying[n]
    /\ sprying' = [sprying EXCEPT ![n] = @ \ {b}]
    /\ UNCHANGED <<created, store, neighbors, bids, dbl, deliveries, chan>>

-----------------------------------------------------------------------------
(* Meetings. *)

\* The anti-packet m sends, if it knows of a delivery.
send_antipacket_matrix(m) ==
    IF dbl[m] = {} THEN <<>> ELSE <<[type |-> "anti", list |-> dbl[m]]>>

\* The c1 of a session of m with n. It is sent when the list is empty, too.
init_session(m, n) == <<[type |-> "c1", list |-> LocalList(m, n)]>>

\* Faulty variant of recvHello: the anti-packet lists the buffer.
recvHello_anti_store(m, n) ==
    /\ n \notin neighbors[m]
    /\ neighbors' = [neighbors EXCEPT ![m] = @ \cup {n}]
    /\ chan' = [chan EXCEPT ![m][n] =
                   Sent(@, <<[type |-> "anti", list |-> store[m]]>>)]
    /\ UNCHANGED Buffers

\* Faulty variant of recvHello: no anti-packet is sent.
recvHello_no_anti(m, n) ==
    /\ n \notin neighbors[m]
    /\ neighbors' = [neighbors EXCEPT ![m] = @ \cup {n}]
    /\ chan' = [chan EXCEPT ![m][n] =
                   Sent(@, IF Rule[m] > Rule[n] THEN init_session(m, n)
                           ELSE <<>>)]
    /\ UNCHANGED Buffers

\* m hears a hello of n: antipacket and c1 for a new neighbor.
recvHello(m, n) ==
    /\ n \notin neighbors[m]
    /\ neighbors' = [neighbors EXCEPT ![m] = @ \cup {n}]
    /\ chan' = [chan EXCEPT ![m][n] =
                   Sent(@, send_antipacket_matrix(m)
                           \o IF Rule[m] > Rule[n] THEN init_session(m, n)
                              ELSE <<>>)]
    /\ UNCHANGED Buffers

\* No hello of n for neighbors_check_interval.
check_neighbors(m, n) ==
    /\ n \in neighbors[m]
    /\ neighbors' = [neighbors EXCEPT ![m] = @ \ {n}]
    /\ UNCHANGED <<Buffers, chan>>

-----------------------------------------------------------------------------
(* The session: m handles msg, the first message of n. *)

\* Needed bundles are asked only by an agent that holds some bundle itself.
recv_c1(m, n, msg) ==
    LET diff == list_diff(m, msg.list)
        local == LocalList(m, n)
        want == IF msg.list # {} /\ local # {} THEN diff ELSE {}
    IN  /\ Answer(m, n, IF n \in neighbors[m]
                        THEN <<[type |-> "c2", offer |-> local,
                                want |-> want]>>
                        ELSE <<>>)
        /\ UNCHANGED <<Buffers, neighbors>>

recv_c2(m, n, msg) ==
    LET diff == list_diff(m, msg.offer)
        c3 == IF diff = {} THEN <<>>
              ELSE <<[type |-> "c3", list |-> diff]>>
    IN  /\ Answer(m, n, IF n \in neighbors[m]
                        THEN c3 \o send_bundles_list(m, n, msg.want)
                        ELSE <<>>)
        /\ UNCHANGED <<Buffers, neighbors>>

recv_c3(m, n, msg) ==
    /\ Answer(m, n, IF n \in neighbors[m]
                    THEN send_bundles_list(m, n, msg.list) ELSE <<>>)
    /\ UNCHANGED <<Buffers, neighbors>>

\* Faulty variant of localDelivery: bids_ is not looked at.
localDelivery_again(m, b) ==
    /\ bids' = [bids EXCEPT ![m] = @ \cup {b}]
    /\ dbl' = [dbl EXCEPT ![m] = @ \cup {b}]
    /\ deliveries' = [deliveries EXCEPT ![b] = @ + 1]
    /\ UNCHANGED <<store, sprying>>

\* A bundle for m itself goes to its application, once: bids_ is never aged here.
\* (Entries older than 100 * exp_time are dropped; module BundleDelivery has it.)
localDelivery(m, b) ==
    /\ \/ b \in bids[m] /\ UNCHANGED <<bids, dbl, deliveries>>
       \/ /\ b \notin bids[m]
          /\ bids' = [bids EXCEPT ![m] = @ \cup {b}]
          /\ dbl' = [dbl EXCEPT ![m] = @ \cup {b}]
          /\ deliveries' = [deliveries EXCEPT ![b] = @ + 1]
    /\ UNCHANGED <<store, sprying>>

\* Another bundle is buffered, whatever m knows of its delivery.
add_bundle(m, b) ==
    /\ store' = [store EXCEPT ![m] = @ \cup {b}]
    /\ sprying' = [sprying EXCEPT ![m] =
                      IF b \in store[m] THEN @ ELSE @ \cup {b}]
    /\ UNCHANGED <<bids, dbl, deliveries>>

recv_bundle(m, n, msg) ==
    /\ \/ Dst[msg.id] = m /\ localDelivery(m, msg.id)
       \/ Dst[msg.id] # m /\ add_bundle(m, msg.id)
    /\ Answer(m, n, <<>>)
    /\ UNCHANGED <<created, neighbors>>

\* Faulty variant of recv_anti_packet: only what is news is removed.
recv_anti_packet_news(m, n, msg) ==
    LET news == msg.list \ dbl[m]
    IN  /\ dbl' = [dbl EXCEPT ![m] = @ \cup news]
        /\ store' = [store EXCEPT ![m] = @ \ news]
        /\ sprying' = [sprying EXCEPT ![m] = @ \ news]
        /\ Answer(m, n, <<>>)
        /\ UNCHANGED <<created, neighbors, bids, deliveries>>

\* The delivered bundles are learnt and removed from the buffer.
recv_anti_packet(m, n, msg) ==
    LET delivered == dbl[m] \cup msg.list
    IN  /\ dbl' = [dbl EXCEPT ![m] = delivered]
        /\ store' = [store EXCEPT ![m] = @ \ delivered]
        /\ sprying' = [sprying EXCEPT ![m] = @ \ delivered]
        /\ Answer(m, n, <<>>)
        /\ UNCHANGED <<created, neighbors, bids, deliveries>>

recv(m, n) ==
    /\ chan[n][m] # <<>>
    /\ LET msg == Head(chan[n][m])
       IN  \/ msg.type = "c1" /\ recv_c1(m, n, msg)
           \/ msg.type = "c2" /\ recv_c2(m, n, msg)
           \/ msg.type = "c3" /\ recv_c3(m, n, msg)
           \/ msg.type = "anti" /\ recv_anti_packet(m, n, msg)
           \/ msg.type = "bundle" /\ recv_bundle(m, n, msg)

\* The radio loses the first message.
lose(m, n) ==
    /\ chan[n][m] # <<>>
    /\ Answer(m, n, <<>>)
    /\ UNCHANGED <<Buffers, neighbors>>

Next ==
    \/ \E b \in Bundles : newBundle(b)
    \/ \E n \in Nodes, b \in Bundles : forget(n, b) \/ stop_sprying(n, b)
    \/ \E m \in Nodes : \E n \in Nodes \ {m} :
          \/ <<m, n>> \in Hears /\ recvHello(m, n)
          \/ check_neighbors(m, n) \/ recv(m, n) \/ lose(m, n)

Spec == Init /\ [][Next]_vars

\* Agents in range of each other meet again and again: a hello is eventually
\* heard, and a neighbor that is silent is eventually removed by the timer. A
\* message in a queue is eventually sent, and the link is fair-lossy: of the
\* anti-packets that are sent again and again, some get through.
recv_anti(m, n) ==
    chan[n][m] # <<>> /\ Head(chan[n][m]).type = "anti" /\ recv(m, n)

MeetAgain ==
    \A m \in Nodes : \A n \in {x \in Nodes \ {m} : <<m, x>> \in Hears} :
        /\ WF_vars(recvHello(m, n) \/ check_neighbors(m, n))
        /\ WF_vars(recv(m, n) \/ lose(m, n))
        /\ SF_vars(recv_anti(m, n))

FairSpec == Spec /\ MeetAgain

\* One long contact: nobody leaves, nothing is lost or dropped.
ContactNext ==
    \/ \E b \in Bundles : newBundle(b)
    \/ \E m \in Nodes : \E n \in Nodes \ {m} :
          \/ <<m, n>> \in Hears /\ recvHello(m, n)
          \/ recv(m, n)

ContactSpec ==
    /\ Init
    /\ [][ContactNext]_vars
    /\ \A m \in Nodes : \A n \in Nodes \ {m} :
          WF_vars(recvHello(m, n)) /\ WF_vars(recv(m, n))

-----------------------------------------------------------------------------
(* Properties. *)

\* A bundle is given to the application at most once, however many agents
\* offer it to its destination.
AtMostOnce == \A b \in Bundles : deliveries[b] <= 1

\* An agent takes a bundle for delivered only after it was: no bundle is
\* refused or purged because of an anti-packet while it can still arrive.
ReportedDelivered ==
    \A n \in Nodes : \A b \in dbl[n] : deliveries[b] = 1

\* The bundles of which a copy is in a buffer or in flight.
InFlight(n, m) ==
    {b \in Bundles : [type |-> "bundle", id |-> b] \in ToSet(chan[n][m])}
Alive == (UNION {store[n] : n \in Nodes})
         \cup (UNION {InFlight(n, m) : n \in Nodes, m \in Nodes})

\* The agents implement the service: copies come from copies, delivery happens
\* once and is known only afterwards.
Service == INSTANCE BundleService
    WITH alive <- Alive,
         delivered <- {b \in Bundles : deliveries[b] > 0},
         known <- dbl

ImplementsService == Service!SSpec

\* Once a bundle is delivered, every agent learns it if a chain of agents that
\* keep meeting leads to it from the destination, although anti-packets are sent
\* on a first hello only and may be lost.
ReportSpreads ==
    \A b \in Bundles, n \in Nodes : deliveries[b] = 1 ~> b \in dbl[n]

\* A delivered bundle leaves the network: a copy that a relay asked for before
\* the report arrived, and buffers after it, is purged in the end by a report
\* that tells the relay nothing new.
DeliveredPurged ==
    \A b \in Bundles : deliveries[b] = 1 ~> [](b \notin Alive)

\* In a long contact, the agents that meet run a session: what one of them
\* holds for the other beforehand is delivered.
MeetingRunsSession ==
    \A b \in Bundles :
        b \in created /\ (\A n \in Nodes : neighbors[n] = {})
            ~> deliveries[b] = 1

=============================================================================
