----------------------- MODULE EpidemicSessionProofs -----------------------
(***************************************************************************)
(* Proofs about EpidemicSession, for any agents, rules, bundles, length of *)
(* the interface queues and routing policy.                                *)
(***************************************************************************)
EXTENDS EpidemicSession, SequenceLemmas

-----------------------------------------------------------------------------
(* Queues. *)

\* What is queued was queued before or is sent now; sending nothing changes
\* nothing.
LEMMA SentLemma ==
    ASSUME NEW S, NEW p \in Seq(S), NEW q \in Seq(S)
    PROVE  /\ Sent(p, q) \in Seq(S)
           /\ Len(Sent(p, q)) <= MaxInFlight
           /\ ToSet(Sent(p, q)) \subseteq ToSet(p) \cup ToSet(q)
           /\ Len(p) <= MaxInFlight /\ q = <<>> => Sent(p, q) = p
<1> DEFINE k == IF Len(p \o q) < MaxInFlight THEN Len(p \o q) ELSE MaxInFlight
<1>0. MaxInFlight \in Nat /\ Len(p) \in Nat /\ Len(q) \in Nat
  BY SessionAssumption
<1>1. /\ p \o q \in Seq(S) /\ Len(p \o q) = Len(p) + Len(q)
      /\ \A i \in 1 .. Len(p) + Len(q) :
            (p \o q)[i] = IF i <= Len(p) THEN p[i] ELSE q[i - Len(p)]
  BY ConcatProperties
<1>2. k \in Nat /\ k <= Len(p \o q) /\ k <= MaxInFlight
  BY <1>0, <1>1
<1>3. /\ SubSeq(p \o q, 1, k) \in Seq(S)
      /\ Len(SubSeq(p \o q, 1, k)) = k
      /\ \A i \in 1 .. k : SubSeq(p \o q, 1, k)[i] = (p \o q)[i]
  BY <1>1, <1>2, SubSeqProperties
<1>4. Sent(p, q) = SubSeq(p \o q, 1, k)
  BY DEF Sent
<1>5. ASSUME NEW e \in ToSet(Sent(p, q))
      PROVE  e \in ToSet(p) \cup ToSet(q)
  <2>1. PICK i \in 1 .. k : e = (p \o q)[i]
    BY <1>2, <1>3, <1>4, <1>5 DEF ToSet
  <2>2. CASE i <= Len(p)
    BY <1>0, <1>1, <1>2, <2>1, <2>2 DEF ToSet
  <2>3. CASE ~(i <= Len(p))
    <3>1. i - Len(p) \in 1 .. Len(q)
      BY <1>0, <1>1, <1>2, <2>3
    <3> QED  BY <1>0, <1>1, <1>2, <2>1, <2>3, <3>1 DEF ToSet
  <2> QED  BY <2>2, <2>3
<1>6. ASSUME Len(p) <= MaxInFlight, q = <<>>
      PROVE  Sent(p, q) = p
  <2>1. p \o q = p
    BY <1>6, ConcatEmptySeq
  <2>2. k = Len(p)
    BY <1>0, <1>6, <2>1
  <2> QED  BY <1>4, <2>1, <2>2, SubSeqFull
<1> QED  BY <1>2, <1>3, <1>4, <1>5, <1>6


-----------------------------------------------------------------------------
(* The invariant. *)

\* The bundles an application has received.
Done == {b \in Bundles : deliveries[b] = 1}

\* The messages whose anti-packets report bundles of D only.
TrueMessage(D) == {msg \in Message : msg.type = "anti" => msg.list \subseteq D}

\* A bundle counts as delivered, once, from the moment it is in bids_ of its
\* destination; every report of a delivery, known to an agent or on its way to
\* one, is of such a bundle.
SessionInv ==
    /\ created \subseteq Bundles
    /\ store \in [Nodes -> SUBSET Bundles]
    /\ sprying \in [Nodes -> SUBSET Bundles]
    /\ \A n \in Nodes : sprying[n] \subseteq store[n]
    /\ neighbors \in [Nodes -> SUBSET Nodes]
    /\ bids \in [Nodes -> SUBSET Bundles]
    /\ deliveries = [b \in Bundles |-> IF b \in bids[Dst[b]] THEN 1 ELSE 0]
    /\ dbl \in [Nodes -> SUBSET Done]
    /\ chan \in [Nodes -> [Nodes -> Seq(TrueMessage(Done))]]
    /\ \A n, m \in Nodes : Len(chan[n][m]) <= MaxInFlight

\* It holds before anything is sent.
LEMMA SessionInvInit == Init => SessionInv
<1> SUFFICES ASSUME Init PROVE SessionInv
  OBVIOUS
<1>1. MaxInFlight \in Nat /\ Dst \in [Bundles -> Nodes]
  BY SessionAssumption
<1>2. <<>> \in Seq(TrueMessage(Done)) /\ Len(<<>>) = 0
  BY EmptySeq
<1>3. chan \in [Nodes -> [Nodes -> Seq(TrueMessage(Done))]]
  BY <1>2 DEF Init
<1>4. \A n, m \in Nodes : Len(chan[n][m]) <= MaxInFlight
  BY <1>1, <1>2 DEF Init
<1>5. deliveries = [b \in Bundles |-> IF b \in bids[Dst[b]] THEN 1 ELSE 0]
  BY <1>1 DEF Init
<1> QED  BY <1>3, <1>4, <1>5 DEF Init, SessionInv

\* More deliveries make more messages true.
LEMMA TrueMonotonic ==
    ASSUME NEW D, NEW E, D \subseteq E, NEW s \in Seq(TrueMessage(D))
    PROVE  s \in Seq(TrueMessage(E))
<1>1. TrueMessage(D) \subseteq TrueMessage(E)
  BY DEF TrueMessage
<1> QED  BY <1>1, SeqMonotonic

-----------------------------------------------------------------------------
(* Sending. *)

\* The messages of a set of bundles, in some order.
LEMMA BundleMessages ==
    ASSUME NEW S \in SUBSET Bundles
    PROVE  SetToSeq({[type |-> "bundle", id |-> b] : b \in S})
             \in Seq({[type |-> "bundle", id |-> b] : b \in S})
<1> DEFINE f == [b \in S |-> [type |-> "bundle", id |-> b]]
           M == {[type |-> "bundle", id |-> b] : b \in S}
<1>1. IsFiniteSet(S)
  BY SessionAssumption, FS_Subset
<1>2. f \in Surjection(S, M)
  BY DEF Surjection
<1>3. IsFiniteSet(M)
  BY <1>1, <1>2, FS_Surjection
<1> QED  BY <1>3, SetToSeqLemma

\* send_bundles_list sends bundles that are in the buffer, and nothing else.
LEMMA BundlesListLemma ==
    ASSUME SessionInv, NEW n \in Nodes, NEW m \in Nodes, NEW list, NEW D
    PROVE  /\ send_bundles_list(n, m, list) \in Seq(TrueMessage(D))
           /\ \A e \in ToSet(send_bundles_list(n, m, list)) :
                 \E b \in store[n] : e = [type |-> "bundle", id |-> b]
<1> DEFINE have == list \cap store[n]
           first == {b \in have : Dst[b] = m}
           others == {b \in have : Dst[b] # m}
           B(S) == {[type |-> "bundle", id |-> b] : b \in S}
<1>1. store[n] \subseteq Bundles /\ first \subseteq Bundles /\ others \subseteq Bundles
  BY DEF SessionInv
<1>2. SetToSeq(B(first)) \in Seq(B(first)) /\ SetToSeq(B(others)) \in Seq(B(others))
  BY <1>1, BundleMessages
<1>3. SetToSeq(B(first)) \in Seq(B(have)) /\ SetToSeq(B(others)) \in Seq(B(have))
  <2>1. B(first) \subseteq B(have) /\ B(others) \subseteq B(have)
    OBVIOUS
  <2> QED  BY <1>2, <2>1, SeqMonotonic
<1>4. send_bundles_list(n, m, list) = SetToSeq(B(first)) \o SetToSeq(B(others))
  BY DEF send_bundles_list
<1>5. send_bundles_list(n, m, list) \in Seq(B(have))
  BY <1>3, <1>4, ConcatProperties
<1>6. B(have) \subseteq TrueMessage(D)
  BY <1>1 DEF TrueMessage, Message
<1>7. send_bundles_list(n, m, list) \in Seq(TrueMessage(D))
  BY <1>5, <1>6, SeqMonotonic
<1>8. ToSet(send_bundles_list(n, m, list)) \subseteq B(have)
  BY <1>5, ElementOfSeq, LenProperties DEF ToSet
<1> QED  BY <1>7, <1>8

\* m takes the first message of n and answers it with q.
LEMMA AnswerLemma ==
    ASSUME NEW S, chan \in [Nodes -> [Nodes -> Seq(S)]],
           \A i, j \in Nodes : Len(chan[i][j]) <= MaxInFlight,
           NEW m \in Nodes, NEW n \in Nodes \ {m}, chan[n][m] # <<>>,
           NEW q \in Seq(S), Answer(m, n, q)
    PROVE  /\ chan' \in [Nodes -> [Nodes -> Seq(S)]]
           /\ \A i, j \in Nodes : Len(chan'[i][j]) <= MaxInFlight
           /\ chan'[n][m] = Tail(chan[n][m])
           /\ chan'[m][n] = Sent(chan[m][n], q)
           /\ \A i, j \in Nodes : \/ i = n /\ j = m
                                  \/ i = m /\ j = n
                                  \/ chan'[i][j] = chan[i][j]
<1>1. /\ chan'[n][m] = Tail(chan[n][m])
      /\ chan'[m][n] = Sent(chan[m][n], q)
      /\ \A i, j \in Nodes : \/ i = n /\ j = m
                             \/ i = m /\ j = n
                             \/ chan'[i][j] = chan[i][j]
  BY DEF Answer
<1>2. Tail(chan[n][m]) \in Seq(S) /\ Len(Tail(chan[n][m])) <= Len(chan[n][m])
  BY TailLemma
<1>3. Sent(chan[m][n], q) \in Seq(S) /\ Len(Sent(chan[m][n], q)) <= MaxInFlight
  BY SentLemma
<1>4. chan' \in [Nodes -> [Nodes -> Seq(S)]]
  BY <1>2, <1>3 DEF Answer
<1>5. \A i, j \in Nodes : Len(chan'[i][j]) <= MaxInFlight
  <2>1. Len(Tail(chan[n][m])) <= MaxInFlight
    BY <1>2, SessionAssumption, LenProperties
  <2> QED  BY <1>1, <1>3, <2>1
<1> QED  BY <1>1, <1>4, <1>5

-----------------------------------------------------------------------------
(* Steps. *)

\* A message of a kind has the fields of that kind.
LEMMA MessageFields ==
    ASSUME NEW D, NEW msg \in TrueMessage(D)
    PROVE  /\ msg.type \in {"c1", "c3", "anti"} => msg.list \subseteq Bundles
           /\ msg.type = "anti" => msg.list \subseteq D
           /\ msg.type = "c2" => msg.offer \subseteq Bundles /\ msg.want \subseteq Bundles
           /\ msg.type = "bundle" => /\ msg.id \in Bundles
                                     /\ msg = [type |-> "bundle", id |-> msg.id]
           /\ msg.type \in {"c1", "c2", "c3", "anti", "bundle"}
BY DEF TrueMessage, Message

\* The lists of the session have ids of bundles.
LEMMA ListsLemma ==
    ASSUME SessionInv, NEW m \in Nodes, NEW n \in Nodes
    PROVE  /\ LocalList(m, n) \subseteq Bundles
           /\ \A l \in SUBSET Bundles : list_diff(m, l) \subseteq Bundles
<1>1. store[m] \subseteq Bundles /\ sprying[m] \subseteq Bundles
  BY DEF SessionInv
<1> QED  BY <1>1 DEF LocalList, list_diff

\* What m sends when it hears n: its anti-packets, which are true, and a c1.
LEMMA HelloMessages ==
    ASSUME SessionInv, NEW m \in Nodes, NEW n \in Nodes
    PROVE  LET q == send_antipacket_matrix(m)
                    \o IF Rule[m] > Rule[n] THEN init_session(m, n) ELSE <<>>
           IN  /\ q \in Seq(TrueMessage(Done))
               /\ \A e \in ToSet(q) : e.type # "bundle"
<1> DEFINE a == send_antipacket_matrix(m)
           c == IF Rule[m] > Rule[n] THEN init_session(m, n) ELSE <<>>
           M == {msg \in TrueMessage(Done) : msg.type # "bundle"}
<1>1. a \in Seq(M)
  <2>1. dbl[m] \subseteq Done /\ dbl[m] \subseteq Bundles
    BY DEF SessionInv, Done
  <2>2. [type |-> "anti", list |-> dbl[m]] \in M
    BY <2>1 DEF TrueMessage, Message
  <2>3. <<[type |-> "anti", list |-> dbl[m]]>> \in Seq(M) /\ <<>> \in Seq(M)
    BY <2>2, OneOrNone
  <2> HIDE DEF M
  <2> QED  BY <2>3 DEF send_antipacket_matrix
<1>2. c \in Seq(M)
  <2>1. [type |-> "c1", list |-> LocalList(m, n)] \in M
    BY ListsLemma DEF TrueMessage, Message
  <2>2. <<[type |-> "c1", list |-> LocalList(m, n)]>> \in Seq(M) /\ <<>> \in Seq(M)
    BY <2>1, OneOrNone
  <2> HIDE DEF M
  <2> QED  BY <2>2 DEF init_session
<1>3. a \o c \in Seq(M)
  BY <1>1, <1>2, ConcatProperties
<1>4. a \o c \in Seq(TrueMessage(Done))
  BY <1>3, SeqMonotonic
<1>5. ToSet(a \o c) \subseteq M
  BY <1>3, ElementOfSeq, LenProperties DEF ToSet
<1> QED  BY <1>4, <1>5

\* The answer to a c1, c2 or c3: lists, and bundles of the buffer.
LEMMA SessionAnswer ==
    ASSUME SessionInv, NEW m \in Nodes, NEW n \in Nodes \ {m}, chan[n][m] # <<>>,
           NEW msg, msg = Head(chan[n][m]),
           \/ msg.type = "c1" /\ recv_c1(m, n, msg)
           \/ msg.type = "c2" /\ recv_c2(m, n, msg)
           \/ msg.type = "c3" /\ recv_c3(m, n, msg)
    PROVE  /\ UNCHANGED <<Buffers, neighbors>>
           /\ \E q \in Seq(TrueMessage(Done)) :
                 /\ Answer(m, n, q)
                 /\ \A e \in ToSet(q) : e.type = "bundle" =>
                       \E b \in store[m] : e = [type |-> "bundle", id |-> b]
<1> DEFINE B == [type : {"bundle"}, id : store[m]]
           M == {e \in TrueMessage(Done) : e.type = "bundle" => e \in B}
<1>0. msg \in TrueMessage(Done)
  BY TailLemma DEF SessionInv
<1>1. \A list : send_bundles_list(m, n, list) \in Seq(M)
  <2> TAKE list
  <2> DEFINE q == send_bundles_list(m, n, list)
  <2>1. /\ q \in Seq(TrueMessage(Done))
        /\ \A e \in ToSet(q) : \E b \in store[m] : e = [type |-> "bundle", id |-> b]
    BY BundlesListLemma
  <2>2. \A i \in 1..Len(q) : q[i] \in ToSet(q) /\ q[i] \in TrueMessage(Done)
    BY <2>1, ElementOfSeq, LenProperties DEF ToSet
  <2>3. \A i \in 1..Len(q) : q[i] \in M
    BY <2>1, <2>2
  <2> QED  BY <2>1, <2>3, LenProperties, SeqDef
<1>2. ASSUME NEW q \in Seq(M), Answer(m, n, q)
      PROVE  \E p \in Seq(TrueMessage(Done)) :
                 /\ Answer(m, n, p)
                 /\ \A e \in ToSet(p) : e.type = "bundle" =>
                       \E b \in store[m] : e = [type |-> "bundle", id |-> b]
  <2>1. q \in Seq(TrueMessage(Done))
    BY SeqMonotonic
  <2>2. ToSet(q) \subseteq M
    BY ElementOfSeq, LenProperties DEF ToSet
  <2> QED  BY <1>2, <2>1, <2>2
<1>3. <<>> \in Seq(M)
  BY EmptySeq
<1>4. CASE msg.type = "c1" /\ recv_c1(m, n, msg)
  <2> DEFINE local == LocalList(m, n)
             want == IF msg.list # {} /\ local # {} THEN list_diff(m, msg.list) ELSE {}
             c2 == [type |-> "c2", offer |-> local, want |-> want]
  <2>1. local \subseteq Bundles /\ want \subseteq Bundles
    BY <1>0, <1>4, MessageFields, ListsLemma
  <2>2. c2 \in M
    BY <2>1 DEF TrueMessage, Message
  <2>3. <<c2>> \in Seq(M)
    BY <2>2
  <2>4. \/ Answer(m, n, <<c2>>)
        \/ Answer(m, n, <<>>)
    BY <1>4 DEF recv_c1
  <2> QED  BY <1>2, <1>3, <1>4, <2>3, <2>4 DEF recv_c1
<1>5. CASE msg.type = "c2" /\ recv_c2(m, n, msg)
  <2> DEFINE diff == list_diff(m, msg.offer)
             c3 == IF diff = {} THEN <<>> ELSE <<[type |-> "c3", list |-> diff]>>
  <2>1. diff \subseteq Bundles
    BY <1>0, <1>5, MessageFields, ListsLemma
  <2>2. [type |-> "c3", list |-> diff] \in M
    BY <2>1 DEF TrueMessage, Message
  <2>3. c3 \in Seq(M)
    <3>1. <<[type |-> "c3", list |-> diff]>> \in Seq(M) /\ <<>> \in Seq(M)
      BY <2>2, OneOrNone
    <3> HIDE DEF M, diff
    <3> QED  BY <3>1
  <2>4. c3 \o send_bundles_list(m, n, msg.want) \in Seq(M)
    BY <1>1, <2>3, ConcatProperties
  <2>5. \/ Answer(m, n, c3 \o send_bundles_list(m, n, msg.want))
        \/ Answer(m, n, <<>>)
    BY <1>5 DEF recv_c2
  <2> QED  BY <1>2, <1>3, <1>5, <2>4, <2>5 DEF recv_c2
<1>6. CASE msg.type = "c3" /\ recv_c3(m, n, msg)
  <2>1. \/ Answer(m, n, send_bundles_list(m, n, msg.list))
        \/ Answer(m, n, <<>>)
    BY <1>6 DEF recv_c3
  <2> QED  BY <1>1, <1>2, <1>3, <1>6, <2>1 DEF recv_c3
<1> QED  BY <1>4, <1>5, <1>6

\* Every step keeps the invariant: what is reported was reported before, or
\* delivered in this step for the first time.
LEMMA SessionInvStep == SessionInv /\ [Next]_vars => SessionInv'
<1> SUFFICES ASSUME SessionInv, [Next]_vars PROVE SessionInv'
  OBVIOUS
<1>0. Src \in [Bundles -> Nodes] /\ Dst \in [Bundles -> Nodes]
  BY SessionAssumption
<1>a. ASSUME UNCHANGED deliveries, UNCHANGED chan
      PROVE  /\ chan' \in [Nodes -> [Nodes -> Seq(TrueMessage(Done'))]]
             /\ \A n, m \in Nodes : Len(chan'[n][m]) <= MaxInFlight
             /\ Done' = Done
  BY <1>a DEF SessionInv, Done
<1>1. ASSUME NEW b \in Bundles, newBundle(b) PROVE SessionInv'
  BY <1>0, <1>1, <1>a DEF newBundle, SessionInv
<1>2. ASSUME NEW n \in Nodes, NEW b \in Bundles, forget(n, b) PROVE SessionInv'
  BY <1>2, <1>a DEF forget, SessionInv
<1>3. ASSUME NEW n \in Nodes, NEW b \in Bundles, stop_sprying(n, b) PROVE SessionInv'
  BY <1>3, <1>a DEF stop_sprying, SessionInv
<1>4. ASSUME NEW m \in Nodes, NEW n \in Nodes \ {m}, recvHello(m, n) PROVE SessionInv'
  <2> DEFINE q == send_antipacket_matrix(m)
                  \o IF Rule[m] > Rule[n] THEN init_session(m, n) ELSE <<>>
  <2>1. UNCHANGED Buffers /\ Done' = Done
    BY <1>4 DEF recvHello, Buffers, Done
  <2>2. chan' = [chan EXCEPT ![m][n] = Sent(@, q)]
    BY <1>4 DEF recvHello
  <2>3. q \in Seq(TrueMessage(Done))
    BY HelloMessages
  <2>4. chan[m][n] \in Seq(TrueMessage(Done))
    BY DEF SessionInv
  <2> HIDE DEF q
  <2>5. /\ Sent(chan[m][n], q) \in Seq(TrueMessage(Done))
        /\ Len(Sent(chan[m][n], q)) <= MaxInFlight
    BY <2>3, <2>4, SentLemma
  <2>6. /\ chan' \in [Nodes -> [Nodes -> Seq(TrueMessage(Done))]]
        /\ \A i, j \in Nodes : Len(chan'[i][j]) <= MaxInFlight
    BY <2>2, <2>5 DEF SessionInv
  <2>7. neighbors' \in [Nodes -> SUBSET Nodes]
    BY <1>4 DEF recvHello, SessionInv
  <2> QED  BY <2>1, <2>6, <2>7 DEF SessionInv, Buffers
<1>5. ASSUME NEW m \in Nodes, NEW n \in Nodes \ {m}, check_neighbors(m, n)
      PROVE  SessionInv'
  BY <1>5, <1>a DEF check_neighbors, SessionInv, Buffers
<1>6. ASSUME NEW m \in Nodes, NEW n \in Nodes \ {m}, chan[n][m] # <<>>,
             NEW q \in Seq(TrueMessage(Done)), Answer(m, n, q)
      PROVE  /\ chan' \in [Nodes -> [Nodes -> Seq(TrueMessage(Done))]]
             /\ \A i, j \in Nodes : Len(chan'[i][j]) <= MaxInFlight
  BY <1>6, AnswerLemma DEF SessionInv
<1>7. <<>> \in Seq(TrueMessage(Done))
  BY EmptySeq
<1>8. ASSUME NEW m \in Nodes, NEW n \in Nodes \ {m}, recv(m, n) PROVE SessionInv'
  <2> DEFINE msg == Head(chan[n][m])
  <2>0. chan[n][m] # <<>> /\ msg \in TrueMessage(Done)
    BY <1>8, TailLemma DEF recv, SessionInv
  <2>1. CASE \/ msg.type = "c1" /\ recv_c1(m, n, msg)
             \/ msg.type = "c2" /\ recv_c2(m, n, msg)
             \/ msg.type = "c3" /\ recv_c3(m, n, msg)
    <3>1. /\ UNCHANGED <<Buffers, neighbors>>
          /\ \E q \in Seq(TrueMessage(Done)) : Answer(m, n, q)
      BY <2>0, <2>1, SessionAnswer
    <3>2. Done' = Done
      BY <3>1 DEF Buffers, Done
    <3> QED  BY <1>6, <2>0, <3>1, <3>2 DEF SessionInv, Buffers
  <2>2. CASE msg.type = "anti" /\ recv_anti_packet(m, n, msg)
    <3>1. /\ chan' \in [Nodes -> [Nodes -> Seq(TrueMessage(Done))]]
          /\ \A i, j \in Nodes : Len(chan'[i][j]) <= MaxInFlight
      BY <1>6, <1>7, <2>0, <2>2 DEF recv_anti_packet
    <3>2. msg.list \subseteq Done
      BY <2>0, <2>2, MessageFields
    <3>3. Done' = Done
      BY <2>2 DEF recv_anti_packet, Done
    <3> HIDE DEF msg
    <3>4. dbl' \in [Nodes -> SUBSET Done]
      BY <2>2, <3>2 DEF recv_anti_packet, SessionInv
    <3>5. /\ store' \in [Nodes -> SUBSET Bundles]
          /\ sprying' \in [Nodes -> SUBSET Bundles]
          /\ \A k \in Nodes : sprying'[k] \subseteq store'[k]
      BY <2>2 DEF recv_anti_packet, SessionInv
    <3> QED  BY <2>2, <3>1, <3>3, <3>4, <3>5 DEF recv_anti_packet, SessionInv
  <2>3. CASE msg.type = "bundle" /\ recv_bundle(m, n, msg)
    <3> DEFINE b == msg.id
    <3>1. b \in Bundles
      BY <2>0, <2>3, MessageFields
    <3>2. /\ chan' \in [Nodes -> [Nodes -> Seq(TrueMessage(Done))]]
          /\ \A i, j \in Nodes : Len(chan'[i][j]) <= MaxInFlight
      BY <1>6, <1>7, <2>0, <2>3 DEF recv_bundle
    <3> HIDE DEF msg
    <3>3. CASE Dst[b] # m /\ add_bundle(m, b)
      <4>1. /\ store' \in [Nodes -> SUBSET Bundles]
            /\ sprying' \in [Nodes -> SUBSET Bundles]
            /\ \A k \in Nodes : sprying'[k] \subseteq store'[k]
        BY <3>1, <3>3 DEF add_bundle, SessionInv
      <4>2. Done' = Done
        BY <3>3 DEF add_bundle, Done
      <4> QED  BY <2>3, <3>2, <3>3, <4>1, <4>2 DEF recv_bundle, add_bundle, SessionInv
    <3>4. CASE Dst[b] = m /\ b \in bids[m] /\ localDelivery(m, b)
      <4>1. UNCHANGED <<bids, dbl, deliveries, store, sprying>> /\ Done' = Done
        BY <3>4 DEF localDelivery, Done
      <4> QED  BY <2>3, <3>2, <4>1 DEF recv_bundle, SessionInv
    <3>5. CASE Dst[b] = m /\ b \notin bids[m] /\ localDelivery(m, b)
      <4>1. /\ bids' = [bids EXCEPT ![m] = @ \cup {b}]
            /\ dbl' = [dbl EXCEPT ![m] = @ \cup {b}]
            /\ deliveries' = [deliveries EXCEPT ![b] = @ + 1]
            /\ UNCHANGED <<store, sprying>>
        BY <3>5 DEF localDelivery
      <4>2. deliveries' = [c \in Bundles |-> IF c \in bids'[Dst[c]] THEN 1 ELSE 0]
        <5>1. deliveries[b] = 0 /\ deliveries'[b] = 1 /\ b \in bids'[Dst[b]]
          BY <3>1, <3>5, <4>1 DEF SessionInv
        <5>2. ASSUME NEW c \in Bundles, c # b
              PROVE  deliveries'[c] = deliveries[c] /\ (c \in bids'[Dst[c]] <=> c \in bids[Dst[c]])
          BY <1>0, <3>1, <4>1, <5>2 DEF SessionInv
        <5>3. deliveries' = [c \in Bundles |-> deliveries'[c]]
          BY <4>1 DEF SessionInv
        <5>4. \A c \in Bundles : deliveries[c] = IF c \in bids[Dst[c]] THEN 1 ELSE 0
          BY DEF SessionInv
        <5>5. \A c \in Bundles : deliveries'[c] = IF c \in bids'[Dst[c]] THEN 1 ELSE 0
          BY <5>1, <5>2, <5>4
        <5> QED  BY <5>3, <5>5
      <4>3. Done \subseteq Done' /\ b \in Done'
        <5>1. deliveries[b] = 0 /\ deliveries'[b] = 1
          BY <3>1, <3>5, <4>1 DEF SessionInv
        <5>2. \A c \in Bundles : c # b => deliveries'[c] = deliveries[c]
          BY <4>1 DEF SessionInv
        <5> QED  BY <3>1, <5>1, <5>2 DEF Done
      <4>4. dbl' \in [Nodes -> SUBSET Done']
        BY <4>1, <4>3 DEF SessionInv
      <4>5. \A s \in Seq(TrueMessage(Done)) : s \in Seq(TrueMessage(Done'))
        BY <4>3, TrueMonotonic
      <4>6. chan' \in [Nodes -> [Nodes -> Seq(TrueMessage(Done'))]]
        BY <3>2, <4>5
      <4>7. bids' \in [Nodes -> SUBSET Bundles]
        BY <3>1, <4>1 DEF SessionInv
      <4> QED  BY <2>3, <3>2, <4>1, <4>2, <4>4, <4>6, <4>7 DEF recv_bundle, SessionInv
    <3> QED  BY <2>3, <3>3, <3>4, <3>5 DEF recv_bundle
  <2> QED  BY <1>8, <2>1, <2>2, <2>3 DEF recv
<1>9. ASSUME NEW m \in Nodes, NEW n \in Nodes \ {m}, lose(m, n) PROVE SessionInv'
  <2>1. UNCHANGED <<Buffers, neighbors>> /\ Done' = Done
    BY <1>9 DEF lose, Buffers, Done
  <2> QED  BY <1>6, <1>7, <1>9, <2>1 DEF lose, SessionInv, Buffers
<1>10. CASE UNCHANGED vars
  BY <1>10, <1>a DEF vars, SessionInv
<1> QED  BY <1>1, <1>2, <1>3, <1>4, <1>5, <1>8, <1>9, <1>10 DEF Next

\* So it always holds.
LEMMA SessionInvHolds == Spec => []SessionInv
<1> QED  BY SessionInvInit, SessionInvStep, PTL DEF Spec

-----------------------------------------------------------------------------
(* Safety. *)

\* Buffers, tables and queues of every agent stay in their types, and no
\* interface queue exceeds its length.
THEOREM SessionTyped == Spec => []TypeOK
<1>1. SessionInv => TypeOK
  <2> SUFFICES ASSUME SessionInv PROVE TypeOK
    OBVIOUS
  <2>1. \A n, m \in Nodes : ToSet(chan[n][m]) \subseteq Message
    <3> TAKE n, m \in Nodes
    <3>1. chan[n][m] \in Seq(TrueMessage(Done))
      BY DEF SessionInv
    <3>2. TrueMessage(Done) \subseteq Message
      BY DEF TrueMessage
    <3> QED  BY <3>1, <3>2, ElementOfSeq, LenProperties DEF ToSet
  <2>2. dbl \in [Nodes -> SUBSET Bundles] /\ deliveries \in [Bundles -> Nat]
    BY DEF SessionInv, Done
  <2> QED  BY <2>1, <2>2 DEF SessionInv, TypeOK
<1> QED  BY <1>1, SessionInvHolds, PTL

\* localDelivery gives a bundle to the application at most once, whatever
\* copies of it the agents of the network offer to its destination.
THEOREM DeliveredAtMostOnce == Spec => []AtMostOnce
<1>1. SessionInv => AtMostOnce
  BY DEF SessionInv, AtMostOnce
<1> QED  BY <1>1, SessionInvHolds, PTL

\* An agent that takes a bundle for delivered, from an anti-packet or by its own
\* localDelivery, is right.
THEOREM ReportsAreTrue == Spec => []ReportedDelivered
<1>1. SessionInv => ReportedDelivered
  BY DEF SessionInv, Done, ReportedDelivered
<1> QED  BY <1>1, SessionInvHolds, PTL

-----------------------------------------------------------------------------
(* The service. *)

\* A copy is in a buffer or in flight.
LEMMA AliveMember ==
    ASSUME NEW b
    PROVE  b \in Alive <=>
             \/ \E n \in Nodes : b \in store[n]
             \/ /\ b \in Bundles
                /\ \E i, j \in Nodes : [type |-> "bundle", id |-> b] \in ToSet(chan[i][j])
<1>1. b \in UNION {store[n] : n \in Nodes} <=> \E n \in Nodes : b \in store[n]
  OBVIOUS
<1>2. b \in UNION {InFlight(i, j) : i \in Nodes, j \in Nodes}
        <=> \E i, j \in Nodes : b \in InFlight(i, j)
  OBVIOUS
<1> QED  BY <1>1, <1>2 DEF Alive, InFlight

\* The same after a step.
LEMMA AliveMemberNext ==
    ASSUME NEW b
    PROVE  b \in Alive' <=>
             \/ \E n \in Nodes : b \in store'[n]
             \/ /\ b \in Bundles
                /\ \E i, j \in Nodes : [type |-> "bundle", id |-> b] \in ToSet(chan'[i][j])
<1>1. b \in UNION {store'[n] : n \in Nodes} <=> \E n \in Nodes : b \in store'[n]
  OBVIOUS
<1>2. b \in UNION {InFlight(i, j)' : i \in Nodes, j \in Nodes}
        <=> \E i, j \in Nodes : b \in InFlight(i, j)'
  OBVIOUS
<1> QED  BY <1>1, <1>2 DEF Alive, InFlight

\* Only bundles are alive.
LEMMA AliveBundles ==
    ASSUME SessionInv
    PROVE  Alive \subseteq Bundles
<1>1. \A n \in Nodes : store[n] \subseteq Bundles
  BY DEF SessionInv
<1> QED  BY <1>1, AliveMember

\* Nothing comes alive when what is buffered and what is queued was alive.
LEMMA NothingNew ==
    ASSUME \A n \in Nodes : store'[n] \subseteq Alive,
           \A b \in Bundles : \A i, j \in Nodes :
              [type |-> "bundle", id |-> b] \in ToSet(chan'[i][j]) => b \in Alive
    PROVE  Alive' \subseteq Alive
BY AliveMemberNext

\* A step in which copies, at most, disappear.
LEMMA VanishStep ==
    ASSUME SessionInv, Alive' \subseteq Alive, UNCHANGED <<created, deliveries, dbl>>
    PROVE  Service!SNext
<1> DEFINE S == Alive \ Alive'
<1>1. S \in SUBSET Bundles
  BY AliveBundles
<1>2. Service!Vanish(S)
  BY DEF Service!Vanish
<1> QED  BY <1>1, <1>2 DEF Service!SNext

\* After an answer with q the queues hold what they held, less the message that
\* is answered, and q.
LEMMA AnswerQueues ==
    ASSUME SessionInv, NEW m \in Nodes, NEW n \in Nodes \ {m}, chan[n][m] # <<>>,
           NEW q \in Seq(TrueMessage(Done)), Answer(m, n, q)
    PROVE  \A i, j \in Nodes : \A e \in ToSet(chan'[i][j]) :
              e \in ToSet(chan[i][j]) \/ e \in ToSet(q)
<1>1. /\ chan'[n][m] = Tail(chan[n][m])
      /\ chan'[m][n] = Sent(chan[m][n], q)
      /\ \A i, j \in Nodes : \/ i = n /\ j = m
                             \/ i = m /\ j = n
                             \/ chan'[i][j] = chan[i][j]
  BY DEF SessionInv, Answer
<1>2. ToSet(Tail(chan[n][m])) \subseteq ToSet(chan[n][m])
  BY TailLemma DEF SessionInv
<1>3. ToSet(Sent(chan[m][n], q)) \subseteq ToSet(chan[m][n]) \cup ToSet(q)
  BY SentLemma DEF SessionInv
<1> QED  BY <1>1, <1>2, <1>3

\* m handles a message of n that is no bundle for its application.
LEMMA AnswerVanishes ==
    ASSUME SessionInv, NEW m \in Nodes, NEW n \in Nodes \ {m}, chan[n][m] # <<>>,
           NEW q \in Seq(TrueMessage(Done)), Answer(m, n, q),
           \A e \in ToSet(q) : e.type = "bundle" =>
               \E b \in store[m] : e = [type |-> "bundle", id |-> b],
           \A k \in Nodes : store'[k] \subseteq Alive
    PROVE  Alive' \subseteq Alive
<1>1. ASSUME NEW b \in Bundles, NEW i \in Nodes, NEW j \in Nodes,
             [type |-> "bundle", id |-> b] \in ToSet(chan'[i][j])
      PROVE  b \in Alive
  <2> DEFINE e == [type |-> "bundle", id |-> b]
  <2>1. e \in ToSet(chan[i][j]) \/ e \in ToSet(q)
    BY <1>1, AnswerQueues
  <2>2. CASE e \in ToSet(chan[i][j])
    BY <2>2, AliveMember
  <2>3. CASE e \in ToSet(q)
    <3>1. PICK c \in store[m] : e = [type |-> "bundle", id |-> c]
      BY <2>3
    <3>2. c = b
      BY <3>1
    <3> QED  BY <3>1, <3>2, AliveMember
  <2> QED  BY <2>1, <2>2, <2>3
<1> QED  BY <1>1, NothingNew

\* The delivery of b, whose message was the first of n, leaves every other
\* bundle alive.
LEMMA OthersStay ==
    ASSUME SessionInv, NEW m \in Nodes, NEW n \in Nodes \ {m}, chan[n][m] # <<>>,
           Answer(m, n, <<>>), UNCHANGED store,
           NEW b, Head(chan[n][m]) = [type |-> "bundle", id |-> b]
    PROVE  Alive \ {b} \subseteq Alive'
<1>1. /\ chan'[n][m] = Tail(chan[n][m])
      /\ chan'[m][n] = Sent(chan[m][n], <<>>)
      /\ \A i, j \in Nodes : \/ i = n /\ j = m
                             \/ i = m /\ j = n
                             \/ chan'[i][j] = chan[i][j]
  BY DEF SessionInv, Answer
<1>2. Sent(chan[m][n], <<>>) = chan[m][n]
  <2>1. chan[m][n] \in Seq(TrueMessage(Done)) /\ Len(chan[m][n]) <= MaxInFlight
    BY DEF SessionInv
  <2>2. <<>> \in Seq(TrueMessage(Done))
    BY EmptySeq
  <2> QED  BY <2>1, <2>2, SentLemma
<1>3. ToSet(chan[n][m]) = {Head(chan[n][m])} \cup ToSet(Tail(chan[n][m]))
  BY TailLemma DEF SessionInv
<1>4. ASSUME NEW c \in Alive \ {b} PROVE c \in Alive'
  <2> DEFINE e == [type |-> "bundle", id |-> c]
  <2>1. CASE \E k \in Nodes : c \in store[k]
    BY <2>1, AliveMemberNext
  <2>2. CASE c \in Bundles /\ \E i, j \in Nodes : e \in ToSet(chan[i][j])
    <3>1. PICK i \in Nodes, j \in Nodes : e \in ToSet(chan[i][j])
      BY <2>2
    <3>2. e # Head(chan[n][m])
      OBVIOUS
    <3>3. e \in ToSet(chan'[i][j])
      <4>1. CASE i = n /\ j = m
        BY <1>1, <1>3, <3>1, <3>2, <4>1
      <4>2. CASE i = m /\ j = n
        BY <1>1, <1>2, <3>1, <4>2
      <4>3. CASE chan'[i][j] = chan[i][j]
        BY <3>1, <4>3
      <4> QED  BY <1>1, <4>1, <4>2, <4>3
    <3> QED  BY <2>2, <3>3, AliveMemberNext
  <2> QED  BY <2>1, <2>2, AliveMember
<1> QED  BY <1>4

\* Every step of the agents is a step of the service.
LEMMA ServiceStep == SessionInv /\ [Next]_vars => [Service!SNext]_(Service!svars)
<1> SUFFICES ASSUME SessionInv, [Next]_vars
             PROVE  Service!SNext \/ UNCHANGED Service!svars
  OBVIOUS
<1>0. /\ Src \in [Bundles -> Nodes] /\ Dst \in [Bundles -> Nodes]
      /\ \A k \in Nodes : store[k] \subseteq Alive
      /\ <<>> \in Seq(TrueMessage(Done)) /\ ToSet(<<>>) = {}
  <2>1. ToSet(<<>>) = {}
    BY DEF ToSet
  <2> QED  BY <2>1, SessionAssumption, AliveMember, EmptySeq
<1>1. ASSUME NEW b \in Bundles, newBundle(b) PROVE Service!SNext
  <2>1. Alive' = Alive \cup {b}
    <3>1. ASSUME NEW c PROVE c \in Alive' <=> c \in Alive \/ c = b
      <4>1. (\E k \in Nodes : c \in store'[k]) <=> (\E k \in Nodes : c \in store[k]) \/ c = b
        BY <1>0, <1>1 DEF newBundle, SessionInv
      <4> QED  BY <1>1, <4>1, AliveMember, AliveMemberNext DEF newBundle
    <3> QED  BY <3>1
  <2>2. Service!Create(b)
    BY <1>1, <2>1 DEF newBundle, Service!Create
  <2> QED  BY <2>2 DEF Service!SNext
<1>2. ASSUME NEW n \in Nodes, NEW b \in Bundles, forget(n, b) PROVE Service!SNext
  <2>1. \A k \in Nodes : store'[k] \subseteq Alive
    BY <1>0, <1>2 DEF forget, SessionInv
  <2>2. Alive' \subseteq Alive
    BY <1>2, <2>1, NothingNew, AliveMember DEF forget
  <2> QED  BY <1>2, <2>2, VanishStep DEF forget
<1>3. ASSUME UNCHANGED <<created, store, dbl, deliveries, chan>>
      PROVE  UNCHANGED Service!svars
  BY <1>3 DEF Service!svars, Alive, InFlight
<1>4. ASSUME NEW m \in Nodes, NEW n \in Nodes \ {m}, recvHello(m, n)
      PROVE  Service!SNext
  <2> DEFINE q == send_antipacket_matrix(m)
                  \o IF Rule[m] > Rule[n] THEN init_session(m, n) ELSE <<>>
  <2>1. q \in Seq(TrueMessage(Done)) /\ \A e \in ToSet(q) : e.type # "bundle"
    BY HelloMessages
  <2>2. chan' = [chan EXCEPT ![m][n] = Sent(@, q)]
    BY <1>4 DEF recvHello
  <2> HIDE DEF q
  <2>3. ToSet(Sent(chan[m][n], q)) \subseteq ToSet(chan[m][n]) \cup ToSet(q)
    BY <2>1, SentLemma DEF SessionInv
  <2>4. ASSUME NEW b \in Bundles, NEW i \in Nodes, NEW j \in Nodes,
               [type |-> "bundle", id |-> b] \in ToSet(chan'[i][j])
        PROVE  b \in Alive
    <3>1. chan'[i][j] = chan[i][j] \/ (i = m /\ j = n /\ chan'[i][j] = Sent(chan[m][n], q))
      BY <2>2 DEF SessionInv
    <3>2. [type |-> "bundle", id |-> b] \in ToSet(chan[i][j])
      BY <2>1, <2>3, <2>4, <3>1
    <3> QED  BY <3>2, AliveMember
  <2>5. Alive' \subseteq Alive
    BY <1>0, <1>4, <2>4, NothingNew DEF recvHello, Buffers
  <2> QED  BY <1>4, <2>5, VanishStep DEF recvHello, Buffers
<1>5. ASSUME NEW m \in Nodes, NEW n \in Nodes \ {m}, recv(m, n) PROVE Service!SNext
  <2> DEFINE msg == Head(chan[n][m])
  <2>0. chan[n][m] # <<>> /\ msg \in TrueMessage(Done) /\ msg \in ToSet(chan[n][m])
    BY <1>5, TailLemma DEF recv, SessionInv
  <2>1. CASE \/ msg.type = "c1" /\ recv_c1(m, n, msg)
             \/ msg.type = "c2" /\ recv_c2(m, n, msg)
             \/ msg.type = "c3" /\ recv_c3(m, n, msg)
    <3>1. /\ UNCHANGED Buffers
          /\ \E q \in Seq(TrueMessage(Done)) :
                 /\ Answer(m, n, q)
                 /\ \A e \in ToSet(q) : e.type = "bundle" =>
                       \E b \in store[m] : e = [type |-> "bundle", id |-> b]
      BY <2>0, <2>1, SessionAnswer
    <3>2. Alive' \subseteq Alive
      BY <1>0, <2>0, <3>1, AnswerVanishes DEF Buffers
    <3> QED  BY <3>1, <3>2, VanishStep DEF Buffers
  <2>2. CASE msg.type = "anti" /\ recv_anti_packet(m, n, msg)
    <3>1. msg.list \subseteq Done
      BY <2>0, <2>2, MessageFields
    <3>2. \A k \in Nodes : store'[k] \subseteq Alive
      BY <1>0, <2>2 DEF recv_anti_packet, SessionInv
    <3>3. Alive' \subseteq Alive
      BY <1>0, <2>0, <2>2, <3>2, AnswerVanishes DEF recv_anti_packet
    <3>4. /\ dbl' = [dbl EXCEPT ![m] = @ \cup msg.list]
          /\ UNCHANGED <<created, deliveries>>
      BY <2>2 DEF recv_anti_packet
    <3> HIDE DEF msg
    <3>5. Service!Learn(m, msg.list)
      BY <3>1, <3>3, <3>4 DEF Service!Learn, Done
    <3>6. msg.list \in SUBSET Bundles
      BY <3>1 DEF Done
    <3> QED  BY <3>5, <3>6 DEF Service!SNext
  <2>3. CASE msg.type = "bundle" /\ recv_bundle(m, n, msg)
    <3> DEFINE b == msg.id
    <3>1. b \in Bundles /\ msg = [type |-> "bundle", id |-> b]
      BY <2>0, <2>3, MessageFields
    <3>2. b \in Alive
      BY <2>0, <3>1, AliveMember
    <3>3. Answer(m, n, <<>>) /\ UNCHANGED created
      BY <2>3 DEF recv_bundle
    <3>4. CASE Dst[b] # m /\ add_bundle(m, b)
      <4>1. \A k \in Nodes : store'[k] \subseteq Alive
        BY <1>0, <3>2, <3>4 DEF add_bundle, SessionInv
      <4>2. Alive' \subseteq Alive
        BY <1>0, <2>0, <3>3, <4>1, AnswerVanishes
      <4> QED  BY <3>3, <3>4, <4>2, VanishStep DEF add_bundle
    <3>5. CASE Dst[b] = m /\ localDelivery(m, b)
      <4>1. UNCHANGED store
        BY <3>5 DEF localDelivery
      <4>2. Alive' \subseteq Alive
        BY <1>0, <2>0, <3>3, <4>1, AnswerVanishes
      <4>3. CASE b \in bids[m]
        <5>1. UNCHANGED <<dbl, deliveries>>
          BY <3>5, <4>3 DEF localDelivery
        <5> QED  BY <3>3, <4>2, <5>1, VanishStep
      <4>4. CASE b \notin bids[m]
        <5>1. /\ dbl' = [dbl EXCEPT ![m] = @ \cup {b}]
              /\ deliveries' = [deliveries EXCEPT ![b] = @ + 1]
          BY <3>5, <4>4 DEF localDelivery
        <5>2. deliveries[b] = 0
          BY <3>1, <3>5, <4>4 DEF SessionInv
        <5>3. \A c \in Bundles : deliveries'[c] = IF c = b THEN 1 ELSE deliveries[c]
          BY <5>1, <5>2 DEF SessionInv
        <5>4. {c \in Bundles : deliveries'[c] > 0}
                = {c \in Bundles : deliveries[c] > 0} \cup {b}
          BY <3>1, <5>3
        <5>5. Alive \ {b} \subseteq Alive'
          BY <2>0, <3>1, <3>3, <4>1, OthersStay
        <5>6. Alive' = Alive \/ Alive' = Alive \ {b}
          BY <4>2, <5>5
        <5> HIDE DEF b, msg
        <5>7. Service!Deliver(b, m)
          BY <3>2, <3>3, <5>1, <5>2, <5>4, <5>6 DEF Service!Deliver
        <5> QED  BY <3>1, <5>7 DEF Service!SNext
      <4> QED  BY <4>3, <4>4
    <3> QED  BY <2>3, <3>4, <3>5 DEF recv_bundle
  <2> QED  BY <1>5, <2>1, <2>2, <2>3 DEF recv
<1>6. ASSUME NEW m \in Nodes, NEW n \in Nodes \ {m}, lose(m, n) PROVE Service!SNext
  <2>1. Alive' \subseteq Alive
    BY <1>0, <1>6, AnswerVanishes DEF lose, Buffers
  <2> QED  BY <1>6, <2>1, VanishStep DEF lose, Buffers
<1>7. ASSUME NEW n \in Nodes, NEW b \in Bundles, stop_sprying(n, b)
      PROVE  UNCHANGED Service!svars
  BY <1>3, <1>7 DEF stop_sprying
<1>8. ASSUME NEW m \in Nodes, NEW n \in Nodes \ {m}, check_neighbors(m, n)
      PROVE  UNCHANGED Service!svars
  BY <1>3, <1>8 DEF check_neighbors, Buffers
<1>9. CASE UNCHANGED vars
  BY <1>3, <1>9 DEF vars
<1> QED  BY <1>1, <1>2, <1>4, <1>5, <1>6, <1>7, <1>8, <1>9 DEF Next

\* The agents together implement the service: copies come only from copies, a
\* bundle is delivered at most once and taken for delivered only afterwards.
THEOREM AgentsImplementService == Spec => ImplementsService
<1>1. Init => Service!SInit
  <2> SUFFICES ASSUME Init PROVE Service!SInit
    OBVIOUS
  <2>1. \A b : b \notin Alive
    <3>1. \A i, j \in Nodes : ToSet(chan[i][j]) = {}
      BY DEF Init, ToSet
    <3> QED  BY <3>1, AliveMember DEF Init
  <2>2. {b \in Bundles : deliveries[b] > 0} = {}
    BY DEF Init
  <2> QED  BY <2>1, <2>2 DEF Init, Service!SInit
<1> QED  BY <1>1, ServiceStep, SessionInvHolds, PTL DEF Spec, ImplementsService, Service!SSpec
=============================================================================
