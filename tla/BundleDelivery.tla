--------------------------- MODULE BundleDelivery ---------------------------
(***************************************************************************)
(* The way of a bundle from the application that sends it to the one that  *)
(* receives it, below the epidemic session: the ids of BundleManager, the  *)
(* next hops of Routes, fragmentation (Bundle), the registrations of the   *)
(* receiving agent (Registration) and its localDelivery.                   *)
(*                                                                         *)
(* Any holder may send any copy to any neighbor at any time.  The session  *)
(* (module EpidemicSession) sends less, but blocks are sent again without  *)
(* asking, so a copy can arrive wherever it arrived before.  Copies leave  *)
(* the buffers by the action forget (module BundleBuffer), at any age: the *)
(* age of a copy lags, and with infinite_ttl it never expires.             *)
(*                                                                         *)
(* Time is in seconds; a timestamp has Unit steps to the second.  Counters *)
(* that the agent only reports (number_recv_bundles, delivered_bundles,    *)
(* total_delay), reports, custody and anti-packets are left out.           *)
(***************************************************************************)
EXTENDS Integers, Sequences, FiniteSets, SequencesExt

CONSTANTS
    Sources, Relays, Dest,  \* the agents
    Endpoints,      \* endpoints of the agent Dest
    Regions, Home,  \* region names, and the region of every agent
    HelloMtu,       \* MTU of a route made by a hello (10000000 in the code)
    HeadSize,       \* bytes of a packet without payload and fragment header
    FragSize,       \* bytes of a fragment header
    PayloadSize,
    ExpTime,        \* exp_time of the bundles
    KeepFactor,     \* a bundle stays in bids_ for exp_time * KeepFactor (100)
    Unit,           \* steps of a timestamp in a second (2^32)
    Scenarios       \* the Tcl scripts, see below

Holders == Sources \cup Relays
Nodes == Holders \cup {Dest}
Route == [node : Nodes, region : Regions, mtu : Nat]
FailAct == {"DEFER", "ABORT", "SINK", "other"}

\* What a script may do: the links (who comes into reach of whom), the routes
\* it adds, the failActs its applications ask for, max_ids_count (maxIds), and
\* bounds on the time, the bundles and the tokens.

ASSUME DeliveryAssumption ==
    /\ Dest \notin Holders
    /\ Home \in Regions
    /\ {HeadSize, FragSize, PayloadSize, ExpTime, KeepFactor, Unit} \subseteq Nat \ {0}
    /\ HelloMtu \in Nat /\ HelloMtu >= HeadSize + FragSize + PayloadSize
    /\ \A sc \in Scenarios :
        /\ \A l \in sc.links : l \in Holders \X Nodes /\ l[1] # l[2]
        /\ \A a \in sc.adds :
            a[1] \in Holders /\ a[2] \in Route /\ a[2].mtu > HeadSize + FragSize
        /\ sc.failActs \subseteq FailAct
        /\ {sc.time, sc.bundles, sc.tokens} \subseteq Nat
        /\ sc.maxIds \in Nat /\ sc.maxIds > 1

VARIABLES
    scenario, now,
    bId, lastTimestamp,     \* b_id and lastTimestamp_ of every source
    sent,                   \* the bundles the applications sent, in order
    store,                  \* the buffers
    neighbors, routes,      \* neighbor tables; lists of routes
    reg, token,             \* the list of registrations; the last token
    app,                    \* src_ and rpt_to_: <<endpoint>>, or <<>> if not set
    bids, frags, local,     \* bids_, frags_ and local_ of Dest
    inbox,                  \* bundles indicated to the application
    accepted,               \* bundles that entered bids_, with the time
    outcome                 \* what the last arrival at Dest came to

appVars == <<bId, lastTimestamp, sent>>
linkVars == <<neighbors, routes>>
regVars == <<reg, token, app>>
destVars == <<bids, frags, local, inbox, accepted>>
vars == <<scenario, now, appVars, store, linkVars, regVars, destVars, outcome>>

AppVars == {"src", "rpt_to"}
Nothing == [result |-> "none"]

-----------------------------------------------------------------------------
(* Bundles. *)

\* A copy: source, timestamp, id, endpoint it is for, and the part of the
\* payload it carries. frag tells whether it has a fragment header.
Whole(s, ts, uid, ep) ==
    [src |-> s, ts |-> ts, uid |-> uid, ep |-> ep, frag |-> FALSE,
     offset |-> 0, data |-> [i \in 1..PayloadSize |-> i]]

Id(b) == <<b.src, b.uid>>
Key(b) == <<b.src, b.ts>>
getDataSize(b) == HeadSize + Len(b.data) + (IF b.frag THEN FragSize ELSE 0)

\* The part of the payload the first fragment keeps; of two fragments each
\* gets half.
Chunk(plen, mtu) ==
    LET chunk == mtu - (HeadSize + FragSize)
    IN  IF (plen + chunk - 1) \div chunk = 2 THEN plen \div 2 ELSE chunk

\* The bundle itself becomes the first fragment. The second one hangs on its
\* next_frag_, which nothing sends.
fragment(b, mtu) ==
    IF mtu - (HeadSize + FragSize) > Len(b.data) THEN b
    ELSE [b EXCEPT !.frag = TRUE,
                   !.data = SubSeq(@, 1, Chunk(Len(b.data), mtu))]

\* Faulty variant of Fitted: room is kept for a fragment header.
Fitted_roomy(b, mtu) ==
    IF getDataSize(b) + FragSize >= mtu THEN fragment(b, mtu) ELSE b

\* What sendBundle sends of b, and leaves in the buffer it was in.
Fitted(b, mtu) == IF getDataSize(b) > mtu THEN fragment(b, mtu) ELSE b

-----------------------------------------------------------------------------
(* defragment: a group is the list of the fragments of one bundle. *)

\* The fragment is put in front of the first one with a larger offset.
Inserted(group, b) ==
    LET p == SelectInSeq(group, LAMBDA g : b.offset < g.offset)
    IN  IF p = 0 THEN Append(group, b) ELSE InsertAt(group, p, b)

HasFragment(group, b) ==
    \E i \in DOMAIN group :
        group[i].offset = b.offset /\ Len(group[i].data) = Len(b.data)

\* How far the fragments of a group reach.
Reach(group) == Max({0} \cup {g.offset + Len(g.data) : g \in ToSet(group)})

\* No fragment starts behind the reach of the ones in front of it.
Adjacent(group) ==
    \A i \in DOMAIN group : group[i].offset <= Reach(SubSeq(group, 1, i - 1))

\* Faulty variant of Complete: only gaps are looked for.
Complete_adjacent(group) == Adjacent(group)

\* No gap, and the end of the payload is reached.
Complete(group) == Adjacent(group) /\ Reach(group) = PayloadSize

\* The bundle of a complete group: fragments are copied to their places in
\* the order of the group.
Rebuilt(group) ==
    LET covers(g, i) == i - g.offset \in DOMAIN g.data
        at(i) == SelectLastInSeq(group, LAMBDA g : covers(g, i))
    IN  [group[1] EXCEPT
            !.frag = FALSE,
            !.data = [i \in 1..Reach(group) |->
                        group[at(i)].data[i - group[at(i)].offset]]]

GroupOf(fs, b) == SelectInSeq(fs, LAMBDA g : Key(g[1]) = Key(b))

\* The waiting fragments after b was handed to defragment.
Waiting(fs, b) ==
    LET p == GroupOf(fs, b)
    IN  IF p = 0 THEN Append(fs, <<b>>)
        ELSE IF HasFragment(fs[p], b) THEN fs
        ELSE IF Complete(Inserted(fs[p], b)) THEN RemoveAt(fs, p)
        ELSE ReplaceAt(fs, p, Inserted(fs[p], b))

\* The bundles (one or none) that defragment returns. The first fragment of a
\* bundle never completes it.
defragment(fs, b) ==
    LET p == GroupOf(fs, b)
    IN  IF p # 0 /\ ~HasFragment(fs[p], b) /\ Complete(Inserted(fs[p], b))
        THEN {Rebuilt(Inserted(fs[p], b))} ELSE {}

\* Groups that expired leave, and with them every group in front: prev is
\* never set.
Unexpired(fs) ==
    LET p == SelectLastInSeq(fs, LAMBDA g : g[1].ts + ExpTime * Unit < now * Unit)
    IN  SubSeq(fs, p + 1, Len(fs))

-----------------------------------------------------------------------------
(* The list bids_ of delivered ids. *)

\* Faulty variant of Lifespan: what earlier walks counted is lost.
Lifespan_last(e) == now - e.stamp

Lifespan(e) == e.lifespan + (now - e.stamp)
Old(e) == Lifespan(e) > ExpTime * KeepFactor

\* The elements of s at the positions in P, in their order.
Picked(s, P) ==
    [k \in 1..Cardinality(P) |->
        s[CHOOSE i \in P : Cardinality({j \in P : j <= i}) = k]]

\* An entry that the walk brings up to date.
Aged(e) == [e EXCEPT !.lifespan = Lifespan(e), !.stamp = now]

\* Faulty variant of Walked: the entries behind the match are dropped.
Walked_cut(es, id) ==
    LET p == SelectInSeq(es, LAMBDA e : e.id = id /\ ~Old(e))
        n == IF p = 0 THEN Len(es) ELSE p
        kept == Picked(es, {i \in 1..n : ~Old(es[i])})
    IN  [i \in DOMAIN kept |-> Aged(kept[i])]

\* The walk stops at the entry of the id. Up to there it brings lifespans up
\* to date and drops what is too old.
Walked(es, id) ==
    LET p == SelectInSeq(es, LAMBDA e : e.id = id /\ ~Old(e))
        n == IF p = 0 THEN Len(es) ELSE p
        kept == Picked(es, {i \in 1..n : ~Old(es[i])})
    IN  [i \in DOMAIN kept |-> Aged(kept[i])] \o SubSeq(es, n + 1, Len(es))

\* is_delivered as the walk ends: the id is in the list and not too old.
Duplicate(es, id) == \E i \in DOMAIN es : es[i].id = id /\ ~Old(es[i])

-----------------------------------------------------------------------------
(* Registrations of the applications of Dest. *)

Registration == [token : Nat, endpoint : Endpoints, passive : BOOLEAN,
                 failAct : {"UNDEF", "DEFER", "ABORT", "SINK"}]

Act(f) == IF f = "other" THEN "UNDEF" ELSE f

\* The position of the first entry of an endpoint, 0 if there is none.
lookup(ep) == SelectInSeq(reg, LAMBDA e : e.endpoint = ep)

\* The position of the entry of a token.
ByToken(t) == SelectInSeq(reg, LAMBDA e : e.token = t)

\* addReg on the list r. An entry stays in the list when its action is not
\* valid, though the application gets no token.
addReg(r, ep, f) ==
    /\ token < scenario.tokens
    /\ token' = token + 1
    /\ reg' = Append(r, [token |-> token + 1, endpoint |-> ep,
                         passive |-> FALSE, failAct |-> Act(f)])

RegStep == UNCHANGED <<scenario, now, appVars, store, linkVars, destVars>> /\ outcome' = Nothing

register(ep, f) == addReg(reg, ep, f) /\ UNCHANGED app /\ RegStep

\* "app src" and "app rpt_to": the first registration of the old endpoint
\* aborts from now on.
set_app(v, ep) ==
    LET p == IF app[v] = <<>> THEN 0 ELSE lookup(app[v][1])
    IN  /\ addReg(IF p = 0 THEN reg ELSE [reg EXCEPT ![p].failAct = "ABORT"],
                  ep, IF v = "src" THEN "DEFER" ELSE "SINK")
        /\ app' = [app EXCEPT ![v] = <<ep>>]
        /\ RegStep

deregister(t) ==
    /\ ByToken(t) # 0
    /\ reg' = RemoveAt(reg, ByToken(t))
    /\ UNCHANGED <<token, app>>
    /\ RegStep

start_delivery(t) ==
    /\ ByToken(t) # 0
    /\ reg' = [reg EXCEPT ![ByToken(t)].passive = TRUE]
    /\ UNCHANGED <<token, app>>
    /\ RegStep

stop_delivery(t) ==
    /\ ByToken(t) # 0
    /\ reg' = [reg EXCEPT ![ByToken(t)].passive = FALSE]
    /\ UNCHANGED <<token, app>>
    /\ RegStep

change_registration(t, f) ==
    /\ ByToken(t) # 0 /\ f # "other"
    /\ reg' = [reg EXCEPT ![ByToken(t)].failAct = f]
    /\ UNCHANGED <<token, app>>
    /\ RegStep

-----------------------------------------------------------------------------
(* Arrival at the destination. *)

\* The rest of localDelivery, for a bundle without fragment header.
Deliver(b) ==
    LET p == lookup(b.ep)
        entry == [id |-> Id(b), lifespan |-> 0, stamp |-> now]
        done(r) == outcome' = [result |-> r, bundle |-> b]
    IN  \/ /\ p = 0
           /\ done("unregistered")
           /\ UNCHANGED <<bids, local, inbox, accepted>>
        \/ /\ p # 0 /\ Duplicate(bids, Id(b))
           /\ bids' = Walked(bids, Id(b))
           /\ done("duplicate")
           /\ UNCHANGED <<local, inbox, accepted>>
        \/ /\ p # 0 /\ ~Duplicate(bids, Id(b))
           /\ bids' = Append(Walked(bids, Id(b)), entry)
           /\ accepted' = Append(accepted, [bundle |-> b, at |-> now])
           /\ done("accepted")
           /\ local' = IF ~reg[p].passive /\ reg[p].failAct = "DEFER"
                       THEN Append(local, b) ELSE local
           /\ inbox' = IF reg[p].passive THEN inbox \cup {b} ELSE inbox

\* Fragments wait until they make a whole bundle.
localDelivery(b) ==
    LET whole == IF b.frag THEN defragment(frags, b) ELSE {b}
        waiting == IF b.frag THEN Waiting(frags, b) ELSE frags
    IN  IF whole = {}
        THEN /\ frags' = waiting
             /\ outcome' = [result |-> "fragment", bundle |-> b]
             /\ UNCHANGED <<bids, local, inbox, accepted>>
        ELSE /\ frags' = Unexpired(waiting)
             /\ \E w \in whole : Deliver(w)

-----------------------------------------------------------------------------
(* Routes and neighbors. *)

\* Every route gets a link of its own: the search among the links for one of
\* the same name passes over the equal ones.
addRoute(list, node, region, mtu) ==
    <<[node |-> node, region |-> region, mtu |-> mtu]>> \o list

\* Faulty variant of is_there: one route to a region is enough.
is_there_region(list, node, region) ==
    \E i \in DOMAIN list : list[i].region = region

is_there(list, node, region) ==
    \E i \in DOMAIN list : list[i].region = region /\ list[i].node = node

\* The position of the first route to the node, whatever its region.
getNextHop(list, node) == SelectInSeq(list, LAMBDA e : e.node = node)

\* The script adds the route e to the list of n, once.
add(n, e) ==
    /\ e \notin ToSet(routes[n])
    /\ routes' = [routes EXCEPT ![n] = addRoute(@, e.node, e.region, e.mtu)]
    /\ outcome' = Nothing
    /\ UNCHANGED <<scenario, now, appVars, store, neighbors, regVars, destVars>>

recvHello(n, m) ==
    /\ m \notin neighbors[n]
    /\ routes' = [routes EXCEPT ![n] =
                    IF is_there(@, m, Home) THEN @ ELSE addRoute(@, m, Home, HelloMtu)]
    /\ neighbors' = [neighbors EXCEPT ![n] = @ \cup {m}]
    /\ outcome' = Nothing
    /\ UNCHANGED <<scenario, now, appVars, store, regVars, destVars>>

check_neighbors(n, m) ==
    /\ m \in neighbors[n]
    /\ neighbors' = [neighbors EXCEPT ![n] = @ \ {m}]
    /\ outcome' = Nothing
    /\ UNCHANGED <<scenario, now, appVars, store, routes, regVars, destVars>>

-----------------------------------------------------------------------------
(* Buffers. *)

\* Faulty variant of Stored: the id is not looked up.
Stored_always(S, b) == S \cup {b}

\* add_bundle: an id that is buffered is not stored again.
Stored(S, b) == IF \E c \in S : Id(c) = Id(b) THEN S ELSE S \cup {b}

\* An application sends a bundle.
newBundle(s, ep) ==
    LET uid == IF bId[s] + 1 = scenario.maxIds THEN 1 ELSE bId[s] + 1
        ts == IF now * Unit <= lastTimestamp[s] THEN lastTimestamp[s] + 1
              ELSE now * Unit
        b == Whole(s, ts, uid, ep)
    IN  /\ Len(sent) < scenario.bundles
        /\ bId' = [bId EXCEPT ![s] = uid]
        /\ lastTimestamp' = [lastTimestamp EXCEPT ![s] = ts]
        /\ sent' = Append(sent, b)
        /\ store' = [store EXCEPT ![s] = Stored(@, b)]
        /\ outcome' = Nothing
        /\ UNCHANGED <<scenario, now, linkVars, regVars, destVars>>

\* The sender's own copy is the one that is fragmented.
Resized(n, b, c) == [store EXCEPT ![n] = (@ \ {b}) \cup {c}]

\* n sends the copy b to m, on the route getNextHop finds.
send_bundle(n, m, b) ==
    /\ m \in neighbors[n] /\ b \in store[n]
    /\ getNextHop(routes[n], m) # 0
    /\ LET c == Fitted(b, routes[n][getNextHop(routes[n], m)].mtu)
       IN  \/ /\ m = Dest
              /\ store' = Resized(n, b, c)
              /\ localDelivery(c)
           \/ /\ m # Dest
              /\ store' = [Resized(n, b, c) EXCEPT ![m] = Stored(@, c)]
              /\ outcome' = Nothing
              /\ UNCHANGED destVars
           \/ \* the packet is lost
              /\ c # b
              /\ store' = Resized(n, b, c)
              /\ outcome' = Nothing
              /\ UNCHANGED destVars
    /\ UNCHANGED <<scenario, now, appVars, linkVars, regVars>>

\* The copy b is dropped or expires.
forget(n, b) ==
    /\ b \in store[n]
    /\ store' = [store EXCEPT ![n] = @ \ {b}]
    /\ outcome' = Nothing
    /\ UNCHANGED <<scenario, now, appVars, linkVars, regVars, destVars>>

Tick ==
    /\ now < scenario.time
    /\ now' = now + 1
    /\ outcome' = Nothing
    /\ UNCHANGED <<scenario, appVars, store, linkVars, regVars, destVars>>

-----------------------------------------------------------------------------

Init ==
    /\ scenario \in Scenarios
    /\ now = 0
    /\ bId = [s \in Sources |-> 0] /\ lastTimestamp = [s \in Sources |-> 0]
    /\ sent = <<>>
    /\ store = [n \in Holders |-> {}]
    /\ neighbors = [n \in Holders |-> {}] /\ routes = [n \in Holders |-> <<>>]
    /\ reg = <<>> /\ token = 0 /\ app = [v \in AppVars |-> <<>>]
    /\ bids = <<>> /\ frags = <<>> /\ local = <<>> /\ inbox = {}
    /\ accepted = <<>>
    /\ outcome = Nothing

Registering ==
    \/ \E ep \in Endpoints :
        \/ \E v \in AppVars : set_app(v, ep)
        \/ \E f \in scenario.failActs : register(ep, f)
    \/ \E t \in 1..token :
        \/ deregister(t) \/ start_delivery(t) \/ stop_delivery(t)
        \/ \E f \in scenario.failActs : change_registration(t, f)

Next ==
    \/ Tick
    \/ Registering
    \/ \E s \in Sources, ep \in Endpoints : newBundle(s, ep)
    \/ \E a \in scenario.adds : add(a[1], a[2])
    \/ \E l \in scenario.links :
        \/ recvHello(l[1], l[2]) \/ check_neighbors(l[1], l[2])
        \/ \E b \in store[l[1]] : send_bundle(l[1], l[2], b)
    \/ \E n \in Holders : \E b \in store[n] : forget(n, b)

Spec == Init /\ [][Next]_vars

\* Applications eventually ask for what is deferred, and what a holder can
\* send it eventually sends.
FairSpec ==
    /\ Spec
    /\ WF_vars(\E t \in 1..token : start_delivery(t))
    /\ WF_vars(\E l \in scenario.links : \E b \in store[l[1]] :
                    send_bundle(l[1], l[2], b))

-----------------------------------------------------------------------------
(* Properties. *)

MaxSent == Max({sc.bundles : sc \in Scenarios} \cup {0})
IsCopy(b) ==
    \E i \in DOMAIN sent :
        /\ Id(b) = Id(sent[i]) /\ Key(b) = Key(sent[i]) /\ b.ep = sent[i].ep
        /\ b.frag \in BOOLEAN /\ b.offset \in 0..PayloadSize
        /\ \A j \in DOMAIN b.data : b.data[j] \in 1..PayloadSize

\* Every copy, wherever it is, is one of a bundle that was sent; a buffer
\* holds one copy of an id, and the tables have their types.
TypeOK ==
    /\ scenario \in Scenarios /\ now \in 0..scenario.time
    /\ bId \in [Sources -> 0..(scenario.maxIds - 1)]
    /\ lastTimestamp \in [Sources -> Nat]
    /\ \A n \in Holders : \A b \in store[n] :
        IsCopy(b) /\ \A c \in store[n] : Id(b) = Id(c) => b = c
    /\ neighbors \in [Holders -> SUBSET Nodes]
    /\ \A n \in Holders : \A i \in DOMAIN routes[n] :
        routes[n][i] \in Route
    /\ \A i \in DOMAIN reg : reg[i] \in Registration
    /\ token \in 0..scenario.tokens
    /\ \A b \in ToSet(local) \cup inbox : IsCopy(b)
    /\ \A g \in ToSet(frags) : g # <<>> /\ (\A c \in ToSet(g) : IsCopy(c) /\ c.frag)
    /\ \A a \in ToSet(accepted) : IsCopy(a.bundle) /\ a.at \in 0..now

\* The application is given the payload that was sent: a bundle that was cut
\* to fit a link on its way (sendBundle, fragment) is never taken for the
\* whole one by defragment and localDelivery.
Intact ==
    \A b \in ToSet(local) \cup inbox : b \in ToSet(sent)

\* Between two bundles that localDelivery accepts under one id lies the time
\* bids_ is to remember it, whatever was walked, aged and unlinked in between.
AcceptedApart ==
    \A i, j \in DOMAIN accepted :
        i < j /\ Id(accepted[i].bundle) = Id(accepted[j].bundle)
        => accepted[j].at - accepted[i].at > ExpTime * KeepFactor

Number(b) == CHOOSE i \in DOMAIN sent : sent[i] = b
Later(b, c) == Cardinality({i \in DOMAIN sent : /\ sent[i].src = b.src
                                                 /\ Number(b) < i /\ i <= Number(c)})

\* A bundle that localDelivery deletes as a duplicate was accepted not long
\* ago; or the ids of its source went round (newBundle, max_ids_count) while
\* the id was still remembered, and the bundle is lost.
DuplicateExplained ==
    outcome.result = "duplicate" =>
        \E a \in ToSet(accepted) :
            /\ Id(a.bundle) = Id(outcome.bundle)
            /\ now - a.at <= ExpTime * KeepFactor
            /\ \/ a.bundle = outcome.bundle
               \/ Later(a.bundle, outcome.bundle) >= scenario.maxIds - 1
               \/ Later(outcome.bundle, a.bundle) >= scenario.maxIds - 1

\* sendBundle has a next hop for every neighbor, so no bundle of a list that
\* is sent ends the sending of the ones behind it: routes outlive neighbors,
\* and a route the scenario added for another region does not stand in.
NeighborsRouted ==
    \A n \in Holders : \A m \in neighbors[n] : getNextHop(routes[n], m) # 0

\* No bundle waits in frags_ with its whole payload there: only an arrival
\* makes defragment look, and the first fragment of a bundle is not looked at.
NoCompleteGroupWaits ==
    \A g \in ToSet(frags) : \E i \in 1..PayloadSize :
        \A f \in ToSet(g) : i - f.offset \notin DOMAIN f.data

\* A bundle that waits in local_ reaches the application once the application
\* asks for delivery and does not take it back.
DeferredDelivered ==
    \A n \in 1..MaxSent :
        LET waits == n <= Len(sent) /\ sent[n] \in ToSet(local)
            asked == /\ n <= Len(sent) /\ lookup(sent[n].ep) # 0
                     /\ reg[lookup(sent[n].ep)].passive
            given == n <= Len(sent) /\ sent[n] \in inbox
        IN  []((waits /\ []asked) => <>given)
=============================================================================
