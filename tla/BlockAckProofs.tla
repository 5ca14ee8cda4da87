--------------------------- MODULE BlockAckProofs ---------------------------
(***************************************************************************)
(* Proofs about BlockAck, for any senders, bundles, number of              *)
(* retransmissions and width of the counters of a block.                   *)
(***************************************************************************)
EXTENDS BlockAck, SequenceLemmas

-----------------------------------------------------------------------------
(* The blocks of a sender. *)

\* The places of the blocks asked from s.
AskedFrom(blocks, s) == {i \in DOMAIN blocks : blocks[i].dest = s}

\* There are finitely many of them.
LEMMA AskedFinite ==
    ASSUME NEW blocks \in Seq(BundlesToAck), NEW s
    PROVE  IsFiniteSet(AskedFrom(blocks, s)) /\ Cardinality(AskedFrom(blocks, s)) \in Nat
<1>1. Len(blocks) \in Int /\ DOMAIN blocks = 1..Len(blocks)
  BY LenProperties
<1>2. IsFiniteSet(1..Len(blocks))
  BY <1>1, FS_Interval
<1> QED  BY <1>1, <1>2, FS_Subset, FS_CardinalityType DEF AskedFrom

\* A new block adds to what is asked from its sender only.
LEMMA AskedAppend ==
    ASSUME NEW blocks \in Seq(BundlesToAck), NEW b \in BundlesToAck, NEW s
    PROVE  Cardinality(AskedFrom(Append(blocks, b), s)) =
              Cardinality(AskedFrom(blocks, s)) + IF b.dest = s THEN 1 ELSE 0
<1> DEFINE more == Append(blocks, b)
           new == Len(blocks) + 1
<1>1. /\ more \in Seq(BundlesToAck) /\ Len(more) = new /\ Len(blocks) \in Nat
      /\ \A i \in 1..Len(blocks) : more[i] = blocks[i]
      /\ more[new] = b
  BY AppendProperties, LenProperties
<1>2. DOMAIN more = 1..new /\ DOMAIN blocks = 1..Len(blocks)
  BY <1>1, LenProperties
<1>3. IsFiniteSet(AskedFrom(blocks, s)) /\ Cardinality(AskedFrom(blocks, s)) \in Nat
  BY AskedFinite
<1> HIDE DEF more
<1>4. CASE b.dest = s
  <2>1. AskedFrom(more, s) = AskedFrom(blocks, s) \cup {new}
    BY <1>1, <1>2, <1>4 DEF AskedFrom
  <2>2. new \notin AskedFrom(blocks, s)
    BY <1>1, <1>2 DEF AskedFrom
  <2> QED  BY <1>3, <1>4, <2>1, <2>2, FS_AddElement DEF more
<1>5. CASE b.dest # s
  <2>1. AskedFrom(more, s) = AskedFrom(blocks, s)
    BY <1>1, <1>2, <1>5 DEF AskedFrom
  <2> QED  BY <1>3, <1>5, <2>1 DEF more
<1> QED  BY <1>4, <1>5

\* Without the block at k, its sender has one block less and no other has more.
LEMMA AskedRemoved ==
    ASSUME NEW blocks \in Seq(BundlesToAck), NEW k \in 1..Len(blocks), NEW s
    PROVE  Cardinality(AskedFrom(RemoveAt(blocks, k), s)) <=
              Cardinality(AskedFrom(blocks, s)) - IF blocks[k].dest = s THEN 1 ELSE 0
<1> DEFINE rest == RemoveAt(blocks, k)
           T == AskedFrom(blocks, s) \ {k}
           f == [i \in AskedFrom(rest, s) |-> IF i < k THEN i ELSE i + 1]
<1>1. /\ rest \in Seq(BundlesToAck) /\ Len(rest) = Len(blocks) - 1
      /\ \A i \in 1..(Len(blocks) - 1) :
            rest[i] = IF i < k THEN blocks[i] ELSE blocks[i + 1]
  BY RemoveAtLemma
<1>2. /\ DOMAIN rest = 1..(Len(blocks) - 1) /\ DOMAIN blocks = 1..Len(blocks)
      /\ Len(blocks) \in Nat /\ k \in Nat
  BY <1>1, LenProperties
<1>3. IsFiniteSet(AskedFrom(blocks, s)) /\ Cardinality(AskedFrom(blocks, s)) \in Nat
  BY AskedFinite
<1>4. /\ IsFiniteSet(T)
      /\ Cardinality(T) = Cardinality(AskedFrom(blocks, s))
                             - IF blocks[k].dest = s THEN 1 ELSE 0
  <2>1. k \in AskedFrom(blocks, s) <=> blocks[k].dest = s
    BY <1>2 DEF AskedFrom
  <2> QED  BY <1>3, <2>1, FS_RemoveElement
<1> HIDE DEF rest
<1>5. f \in Injection(AskedFrom(rest, s), T)
  <2>1. ASSUME NEW i \in AskedFrom(rest, s) PROVE f[i] \in T
    BY <1>1, <1>2 DEF AskedFrom
  <2>2. ASSUME NEW i \in AskedFrom(rest, s), NEW j \in AskedFrom(rest, s), f[i] = f[j]
        PROVE  i = j
    <3>1. i \in Int /\ j \in Int
      BY <1>2 DEF AskedFrom
    <3> QED  BY <1>2, <2>2, <3>1
  <2> QED  BY <2>1, <2>2 DEF Injection, IsInjective
<1>6. Cardinality(AskedFrom(rest, s)) <= Cardinality(T)
  BY <1>4, <1>5, FS_Injection
<1> QED  BY <1>4, <1>6 DEF rest

\* Lists with the same senders at the same places.
LEMMA AskedSame ==
    ASSUME NEW blocks \in Seq(BundlesToAck), NEW others,
           DOMAIN others = DOMAIN blocks,
           \A i \in DOMAIN blocks : others[i].dest = blocks[i].dest, NEW s
    PROVE  AskedFrom(others, s) = AskedFrom(blocks, s)
BY DEF AskedFrom

-----------------------------------------------------------------------------
(* What the steps do to the lists. *)

\* The invariant: the counters against the lists, and for each sender the acks
\* it was sent with the blocks it may still be sent one for.
AckInv ==
    /\ TypeOK
    /\ WaitingCounted
    /\ ToAckCounted
    /\ \A s \in Senders : acks[s] + Cardinality(AskedFrom(b_to_ack, s)) <= asks[s]

\* Counting an arrival, modulo the width of the count, leaves a block a block.
LEMMA ExistBundleLemma ==
    ASSUME NEW b \in BundlesToAck, NEW id
    PROVE  exist_bundle(b, id) \in BundlesToAck /\ exist_bundle(b, id).dest = b.dest
<1>1. AckModulus \in Nat \ {0}
  BY BlockAckAssumption
<1>2. (b.current_ack + 1) % AckModulus \in 0..(AckModulus - 1)
  BY <1>1 DEF BundlesToAck
<1> QED  BY <1>2 DEF exist_bundle, BundlesToAck

\* A bundle that arrives is counted, or completes a block: then one ack is sent,
\* and a block of the sender leaves the list, alone or with all the others.
LEMMA UpdateLemma ==
    ASSUME TypeOK, NEW s \in Senders, NEW id, update_bta_list(s, id)
    PROVE  /\ b_to_ack' \in Seq(BundlesToAck)
           /\ \/ /\ UNCHANGED <<up, number_of_blocks_to_ack, acks>>
                 /\ Len(b_to_ack') = Len(b_to_ack)
                 /\ \A t \in Senders : AskedFrom(b_to_ack', t) = AskedFrom(b_to_ack, t)
              \/ /\ send_ack(s)
                 /\ number_of_blocks_to_ack' = number_of_blocks_to_ack - 1
                 /\ \/ Len(b_to_ack') = Len(b_to_ack) - 1
                    \/ Len(b_to_ack') = 0 /\ number_of_blocks_to_ack' = 1
                 /\ \A t \in Senders :
                       Cardinality(AskedFrom(b_to_ack', t)) <=
                          Cardinality(AskedFrom(b_to_ack, t)) - IF t = s THEN 1 ELSE 0
<1> DEFINE told == [i \in DOMAIN b_to_ack |->
                       IF b_to_ack[i].dest = s
                       THEN exist_bundle(b_to_ack[i], id) ELSE b_to_ack[i]]
           complete == {i \in DOMAIN told : told[i].dest = s /\ told[i].ready}
           upto == [i \in DOMAIN told |->
                       IF i > Min(complete) THEN b_to_ack[i] ELSE told[i]]
           n == number_of_blocks_to_ack - 1
           acked == {i \in DOMAIN upto : upto[i].dest = s /\ upto[i].ready}
           k == Min(acked)
<1>1. /\ b_to_ack \in Seq(BundlesToAck) /\ Len(b_to_ack) \in Nat
      /\ DOMAIN b_to_ack = 1..Len(b_to_ack)
      /\ \A i \in 1..Len(b_to_ack) : b_to_ack[i] \in BundlesToAck
  BY LenProperties, ElementOfSeq DEF TypeOK
<1>2. /\ DOMAIN told = 1..Len(b_to_ack)
      /\ \A i \in 1..Len(b_to_ack) :
            told[i] \in BundlesToAck /\ told[i].dest = b_to_ack[i].dest
  BY <1>1, ExistBundleLemma
<1>3. told \in Seq(BundlesToAck) /\ Len(told) = Len(b_to_ack)
  <2>1. told \in [1..Len(b_to_ack) -> BundlesToAck]
    BY <1>1, <1>2
  <2> QED  BY <1>1, <2>1, SeqDef, LenProperties
<1>4. \/ /\ complete = {}
         /\ b_to_ack' = told
         /\ UNCHANGED <<up, number_of_blocks_to_ack, acks>>
      \/ /\ complete # {}
         /\ send_ack(s)
         /\ number_of_blocks_to_ack' = n
         /\ b_to_ack' = delete_bta_block(upto, n, s)
  BY DEF update_bta_list
<1>5. CASE complete = {}
  <2> HIDE DEF told
  <2>1. b_to_ack' = told /\ UNCHANGED <<up, number_of_blocks_to_ack, acks>>
    BY <1>4, <1>5
  <2>2. \A t \in Senders : AskedFrom(told, t) = AskedFrom(b_to_ack, t)
    BY <1>1, <1>2, AskedSame
  <2> QED  BY <1>3, <2>1, <2>2
<1>6. CASE complete # {}
  <2>1. complete \subseteq Nat
    BY <1>2
  <2>2. Min(complete) \in complete /\ Min(complete) \in Nat
    BY <1>6, <2>1, MinLemma
  <2>3. /\ DOMAIN upto = 1..Len(b_to_ack)
        /\ \A i \in 1..Len(b_to_ack) :
              upto[i] \in BundlesToAck /\ upto[i].dest = b_to_ack[i].dest
    BY <1>1, <1>2
  <2>4. upto \in Seq(BundlesToAck) /\ Len(upto) = Len(b_to_ack)
    <3>1. upto \in [1..Len(b_to_ack) -> BundlesToAck]
      BY <1>1, <2>3
    <3> HIDE DEF upto
    <3> QED  BY <1>1, <3>1, SeqDef, LenProperties
  <2>5. acked # {} /\ acked \subseteq Nat
    <3>1. upto[Min(complete)] = told[Min(complete)]
      <4>1. Min(complete) \in DOMAIN told /\ ~(Min(complete) > Min(complete))
        BY <2>2
      <4> HIDE DEF told, complete
      <4> QED  BY <4>1
    <3> HIDE DEF told, upto
    <3>2. Min(complete) \in acked
      BY <1>2, <2>2, <2>3, <3>1
    <3> QED  BY <2>3, <3>2
  <2>6. k \in acked
    BY <2>5, MinLemma
  <2>7. b_to_ack' = IF k = 1 /\ n = 1 THEN <<>> ELSE RemoveAt(upto, k)
    BY <1>4, <1>6 DEF delete_bta_block
  <2> HIDE DEF told, upto
  <2>8. k \in 1..Len(b_to_ack) /\ k \in 1..Len(upto) /\ upto[k].dest = s
    BY <2>3, <2>4, <2>6
  <2>9. \A t \in Senders : AskedFrom(upto, t) = AskedFrom(b_to_ack, t)
    BY <1>1, <2>3, AskedSame
  <2>10. send_ack(s) /\ number_of_blocks_to_ack' = number_of_blocks_to_ack - 1
    BY <1>4, <1>6
  <2> HIDE DEF k, acked, complete
  <2>11. CASE b_to_ack' = RemoveAt(upto, k)
    <3>1. /\ RemoveAt(upto, k) \in Seq(BundlesToAck)
          /\ Len(RemoveAt(upto, k)) = Len(upto) - 1
      BY <2>4, <2>8, RemoveAtLemma
    <3>2. ASSUME NEW t \in Senders
          PROVE  Cardinality(AskedFrom(b_to_ack', t)) <=
                    Cardinality(AskedFrom(b_to_ack, t)) - IF t = s THEN 1 ELSE 0
      <4>1. Cardinality(AskedFrom(RemoveAt(upto, k), t)) <=
               Cardinality(AskedFrom(upto, t)) - IF upto[k].dest = t THEN 1 ELSE 0
        BY <2>4, <2>8, AskedRemoved
      <4> QED  BY <2>8, <2>9, <2>11, <4>1
    <3> QED  BY <2>4, <2>10, <2>11, <3>1, <3>2
  <2>12. CASE b_to_ack' = <<>> /\ n = 1
    <3>1. b_to_ack' \in Seq(BundlesToAck) /\ Len(b_to_ack') = 0
      BY <2>12, EmptySeq
    <3>2. ASSUME NEW t \in Senders
          PROVE  Cardinality(AskedFrom(b_to_ack', t)) <=
                    Cardinality(AskedFrom(b_to_ack, t)) - IF t = s THEN 1 ELSE 0
      <4>1. AskedFrom(b_to_ack', t) = {} /\ Cardinality({}) = 0
        BY <2>12, FS_EmptySet DEF AskedFrom
      <4>2. IsFiniteSet(AskedFrom(b_to_ack, t)) /\ Cardinality(AskedFrom(b_to_ack, t)) \in Nat
        BY <1>1, AskedFinite
      <4>3. t = s => Cardinality(AskedFrom(b_to_ack, t)) # 0
        <5>1. t = s => k \in AskedFrom(b_to_ack, t)
          BY <1>1, <2>3, <2>8 DEF AskedFrom
        <5> QED  BY <4>2, <5>1, FS_EmptySet
      <4> QED  BY <4>1, <4>2, <4>3
    <3> QED  BY <2>10, <2>12, <3>1, <3>2
  <2> QED  BY <2>7, <2>11, <2>12
<1> QED  BY <1>5, <1>6

\* send_bundles_list puts bundles into the queue of the sender.
LEMMA SendLemma ==
    ASSUME TypeOK, NEW s \in Senders, NEW l \in SUBSET Bundles,
           NEW type \in {0, 1}, send_bundles_list(s, l, type)
    PROVE  down' \in [Senders -> Seq(Data)]
<1> DEFINE have == l \cap held[s]
           msgs == [id : have, send_type : {type}]
           f == [b \in have |-> [id |-> b, send_type |-> type]]
<1>1. PICK order \in SetToSeqs(msgs) : down' = [down EXCEPT ![s] = @ \o order]
  BY DEF send_bundles_list
<1>2. IsFiniteSet(have)
  BY BlockAckAssumption, FS_Subset
<1>3. f \in Surjection(have, msgs)
  <2>1. f \in [have -> msgs]
    OBVIOUS
  <2>2. ASSUME NEW e \in msgs PROVE \E b \in have : f[b] = e
    <3>1. e.id \in have /\ e = [id |-> e.id, send_type |-> type]
      OBVIOUS
    <3> QED  BY <3>1
  <2> QED  BY <2>1, <2>2 DEF Surjection
<1>4. IsFiniteSet(msgs) /\ Cardinality(msgs) \in Nat
  BY <1>2, <1>3, FS_Surjection, FS_CardinalityType
<1>5. order \in [1..Cardinality(msgs) -> msgs]
  BY DEF SetToSeqs
<1>6. msgs \subseteq Data
  BY DEF Data
<1>7. order \in Seq(Data)
  <2> HIDE DEF msgs
  <2>1. order \in Seq(msgs)
    BY <1>4, <1>5, SeqDef
  <2> QED  BY <1>6, <2>1, SeqMonotonic
<1>8. down[s] \o order \in Seq(Data)
  BY <1>7, ConcatProperties DEF TypeOK
<1> QED  BY <1>1, <1>8 DEF TypeOK

\* Deleting a waiting list and counting it off.
LEMMA DeleteLemma ==
    ASSUME TypeOK, WaitingCounted, NEW s \in Senders, NEW i \in DOMAIN lw_ack[s],
           delete_ret_list(s, i)
    PROVE  /\ lw_ack' \in [Senders -> Seq(ListWaitingAck)]
           /\ number_of_blocks_waiting_for_ack' \in [Senders -> Int]
           /\ WaitingCounted'
<1>1. lw_ack[s] \in Seq(ListWaitingAck) /\ i \in 1..Len(lw_ack[s])
  BY LenProperties DEF TypeOK
<1>2. /\ RemoveAt(lw_ack[s], i) \in Seq(ListWaitingAck)
      /\ Len(RemoveAt(lw_ack[s], i)) = Len(lw_ack[s]) - 1
  BY <1>1, RemoveAtLemma
<1>3. /\ lw_ack' = [lw_ack EXCEPT ![s] = RemoveAt(@, i)]
      /\ number_of_blocks_waiting_for_ack' =
            [number_of_blocks_waiting_for_ack EXCEPT ![s] = @ - 1]
  BY DEF delete_ret_list
<1>4. /\ lw_ack' \in [Senders -> Seq(ListWaitingAck)]
      /\ number_of_blocks_waiting_for_ack' \in [Senders -> Int]
  BY <1>2, <1>3 DEF TypeOK
<1>5. WaitingCounted'
  BY <1>2, <1>3 DEF TypeOK, WaitingCounted
<1> QED  BY <1>4, <1>5

-----------------------------------------------------------------------------
(* The invariant holds. *)

\* At first nothing is asked, waited for or acked.
LEMMA AckInvInit == Init => AckInv
<1> SUFFICES ASSUME Init PROVE AckInv
  OBVIOUS
<1>1. /\ <<>> \in Seq(BundlesToAck) /\ <<>> \in Seq(ListWaitingAck)
      /\ <<>> \in Seq(Wanted \cup Ack) /\ <<>> \in Seq(Data) /\ Len(<<>>) = 0
  BY EmptySeq
<1>2. MaxAsks \in Nat
  BY BlockAckAssumption
<1>3. TypeOK
  BY <1>1, <1>2 DEF Init, TypeOK
<1>4. WaitingCounted /\ ToAckCounted
  BY <1>1 DEF Init, WaitingCounted, ToAckCounted
<1>5. ASSUME NEW s \in Senders
      PROVE  acks[s] + Cardinality(AskedFrom(b_to_ack, s)) <= asks[s]
  <2>1. AskedFrom(b_to_ack, s) = {}
    BY DEF Init, AskedFrom
  <2> QED  BY <2>1, FS_EmptySet DEF Init
<1> QED  BY <1>3, <1>4, <1>5 DEF AckInv

\* Every step keeps the invariant when it leaves the receiver's side alone.
LEMMA SenderStep ==
    ASSUME AckInv, UNCHANGED Receiver,
           lw_ack' \in [Senders -> Seq(ListWaitingAck)],
           number_of_blocks_waiting_for_ack' \in [Senders -> Int],
           WaitingCounted',
           held' \in [Senders -> SUBSET Bundles],
           up' \in [Senders -> Seq(Wanted \cup Ack)],
           down' \in [Senders -> Seq(Data)]
    PROVE  AckInv'
<1>1. UNCHANGED <<b_to_ack, number_of_blocks_to_ack, received, asks, acks, got>>
  BY DEF Receiver
<1>2. TypeOK'
  BY <1>1 DEF AckInv, TypeOK
<1>3. ToAckCounted'
  BY <1>1 DEF AckInv, ToAckCounted
<1>4. \A s \in Senders : acks'[s] + Cardinality(AskedFrom(b_to_ack', s)) <= asks'[s]
  BY <1>1 DEF AckInv
<1> QED  BY <1>2, <1>3, <1>4 DEF AckInv

\* Asking a sender for a block raises asks along with its blocks.
LEMMA AskStep ==
    ASSUME AckInv, NEW s \in Senders, NEW l \in SUBSET Bundles \ {{}},
           add_bl_toack(s, l)
    PROVE  AckInv'
<1> DEFINE b == [dest |-> s, l_to_ack |-> l,
                 nb_to_ack |-> Cardinality(l) % AckModulus,
                 current_ack |-> 0, ready |-> FALSE]
           w == [type |-> "want", list |-> l]
<1>1. /\ asks' = [asks EXCEPT ![s] = @ + 1] /\ asks[s] < MaxAsks
      /\ b_to_ack' = Append(b_to_ack, b)
      /\ number_of_blocks_to_ack' = number_of_blocks_to_ack + 1
      /\ up' = [up EXCEPT ![s] = Append(@, w)]
      /\ UNCHANGED <<lw_ack, number_of_blocks_waiting_for_ack, held, down, received,
                     acks, got>>
  BY DEF add_bl_toack, Sending
<1>2. b \in BundlesToAck
  <2>1. Cardinality(l) \in Nat /\ AckModulus \in Nat \ {0}
    BY BlockAckAssumption, FS_Subset, FS_CardinalityType
  <2>2. Cardinality(l) % AckModulus \in 0..(AckModulus - 1) /\ 0 \in 0..(AckModulus - 1)
    BY <2>1
  <2> QED  BY <2>2 DEF BundlesToAck
<1>3. w \in Wanted
  BY DEF Wanted
<1>4. b.dest = s
  OBVIOUS
<1> HIDE DEF b, w
<1>5. /\ b_to_ack \in Seq(BundlesToAck) /\ number_of_blocks_to_ack \in Int
      /\ up \in [Senders -> Seq(Wanted \cup Ack)]
      /\ asks \in [Senders -> 0..MaxAsks] /\ acks \in [Senders -> Nat]
      /\ MaxAsks \in Nat
  BY BlockAckAssumption DEF AckInv, TypeOK
<1>6. Append(b_to_ack, b) \in Seq(BundlesToAck) /\ Len(Append(b_to_ack, b)) = Len(b_to_ack) + 1
  BY <1>2, <1>5, AppendProperties
<1>7. Append(up[s], w) \in Seq(Wanted \cup Ack)
  BY <1>3, <1>5, AppendProperties
<1>8. up' \in [Senders -> Seq(Wanted \cup Ack)] /\ asks' \in [Senders -> 0..MaxAsks]
  BY <1>1, <1>5, <1>7
<1>9. TypeOK'
  <2>1. b_to_ack' \in Seq(BundlesToAck) /\ number_of_blocks_to_ack' \in Int
    BY <1>1, <1>5, <1>6
  <2>2. UNCHANGED <<lw_ack, number_of_blocks_waiting_for_ack, held, down, received,
                    acks, got>>
    BY <1>1
  <2> QED  BY <1>8, <2>1, <2>2 DEF AckInv, TypeOK
<1>10. ToAckCounted' /\ WaitingCounted'
  BY <1>1, <1>5, <1>6, LenProperties DEF AckInv, ToAckCounted, WaitingCounted
<1>11. ASSUME NEW t \in Senders
       PROVE  acks'[t] + Cardinality(AskedFrom(b_to_ack', t)) <= asks'[t]
  <2>1. Cardinality(AskedFrom(b_to_ack', t)) =
           Cardinality(AskedFrom(b_to_ack, t)) + IF t = s THEN 1 ELSE 0
    BY <1>1, <1>2, <1>4, <1>5, AskedAppend
  <2>2. Cardinality(AskedFrom(b_to_ack, t)) \in Nat
    BY <1>5, AskedFinite
  <2>3. acks[t] + Cardinality(AskedFrom(b_to_ack, t)) <= asks[t]
    BY DEF AckInv
  <2>4. acks'[t] = acks[t] /\ asks'[t] = asks[t] + IF t = s THEN 1 ELSE 0
    BY <1>1, <1>5
  <2>5. acks[t] \in Nat /\ asks[t] \in Nat
    BY <1>5
  <2> QED  BY <2>1, <2>2, <2>3, <2>4, <2>5
<1> QED  BY <1>9, <1>10, <1>11 DEF AckInv

\* A bundle that arrives sends an ack only when it takes a block away.
LEMMA ArriveStep ==
    ASSUME AckInv, NEW s \in Senders, recv_bundle(s)
    PROVE  AckInv'
<1> DEFINE m == Head(down[s])
<1>1. /\ b_to_ack \in Seq(BundlesToAck) /\ number_of_blocks_to_ack \in Int
      /\ up \in [Senders -> Seq(Wanted \cup Ack)] /\ down \in [Senders -> Seq(Data)]
      /\ asks \in [Senders -> 0..MaxAsks] /\ acks \in [Senders -> Nat]
      /\ MaxAsks \in Nat
  BY BlockAckAssumption DEF AckInv, TypeOK
<1>2. /\ m \in Data /\ Tail(down[s]) \in Seq(Data)
      /\ down' = [down EXCEPT ![s] = Tail(@)]
  BY <1>1, TailLemma DEF recv_bundle
<1>3. /\ m.id \in Bundles
      /\ down' \in [Senders -> Seq(Data)]
  BY <1>1, <1>2 DEF Data
<1>4. /\ received' \in {received, received \cup {m.id}} /\ got' = got \cup {m.id}
      /\ UNCHANGED <<lw_ack, number_of_blocks_waiting_for_ack, held, asks>>
  BY DEF recv_bundle, Sending
<1>5. \/ update_bta_list(s, m.id)
      \/ UNCHANGED <<b_to_ack, number_of_blocks_to_ack, up, acks>>
  BY DEF recv_bundle
<1> HIDE DEF m
<1>6. received' \subseteq Bundles /\ got' \subseteq Bundles
  BY <1>3, <1>4 DEF AckInv, TypeOK
<1>7. WaitingCounted'
  BY <1>4 DEF AckInv, WaitingCounted
<1>8. ASSUME b_to_ack' \in Seq(BundlesToAck), number_of_blocks_to_ack' \in Int,
             up' \in [Senders -> Seq(Wanted \cup Ack)], acks' \in [Senders -> Nat]
      PROVE  TypeOK'
  BY <1>3, <1>4, <1>6, <1>8 DEF AckInv, TypeOK
<1>9. CASE UNCHANGED <<b_to_ack, number_of_blocks_to_ack, up, acks>>
  <2>1. TypeOK'
    BY <1>1, <1>8, <1>9
  <2>2. ToAckCounted'
    BY <1>9 DEF AckInv, ToAckCounted
  <2>3. \A t \in Senders : acks'[t] + Cardinality(AskedFrom(b_to_ack', t)) <= asks'[t]
    BY <1>4, <1>9 DEF AckInv
  <2> QED  BY <1>7, <2>1, <2>2, <2>3 DEF AckInv
<1>10. CASE update_bta_list(s, m.id)
  <2>1. /\ b_to_ack' \in Seq(BundlesToAck)
        /\ \/ /\ UNCHANGED <<up, number_of_blocks_to_ack, acks>>
              /\ Len(b_to_ack') = Len(b_to_ack)
              /\ \A t \in Senders : AskedFrom(b_to_ack', t) = AskedFrom(b_to_ack, t)
           \/ /\ send_ack(s)
              /\ number_of_blocks_to_ack' = number_of_blocks_to_ack - 1
              /\ \/ Len(b_to_ack') = Len(b_to_ack) - 1
                 \/ Len(b_to_ack') = 0 /\ number_of_blocks_to_ack' = 1
              /\ \A t \in Senders :
                    Cardinality(AskedFrom(b_to_ack', t)) <=
                       Cardinality(AskedFrom(b_to_ack, t)) - IF t = s THEN 1 ELSE 0
    BY <1>10, UpdateLemma DEF AckInv
  <2>2. CASE /\ UNCHANGED <<up, number_of_blocks_to_ack, acks>>
             /\ Len(b_to_ack') = Len(b_to_ack)
             /\ \A t \in Senders : AskedFrom(b_to_ack', t) = AskedFrom(b_to_ack, t)
    <3>1. TypeOK'
      BY <1>1, <1>8, <2>1, <2>2
    <3>2. ToAckCounted'
      BY <2>2 DEF AckInv, ToAckCounted
    <3>3. \A t \in Senders : acks'[t] + Cardinality(AskedFrom(b_to_ack', t)) <= asks'[t]
      BY <1>4, <2>2 DEF AckInv
    <3> QED  BY <1>7, <3>1, <3>2, <3>3 DEF AckInv
  <2>3. CASE /\ send_ack(s)
             /\ number_of_blocks_to_ack' = number_of_blocks_to_ack - 1
             /\ \/ Len(b_to_ack') = Len(b_to_ack) - 1
                \/ Len(b_to_ack') = 0 /\ number_of_blocks_to_ack' = 1
             /\ \A t \in Senders :
                   Cardinality(AskedFrom(b_to_ack', t)) <=
                      Cardinality(AskedFrom(b_to_ack, t)) - IF t = s THEN 1 ELSE 0
    <3>1. /\ up' = [up EXCEPT ![s] = Append(@, [type |-> "ack"])]
          /\ acks' = [acks EXCEPT ![s] = @ + 1]
      BY <2>3 DEF send_ack
    <3>2. [type |-> "ack"] \in Wanted \cup Ack
      BY DEF Ack
    <3>3. Append(up[s], [type |-> "ack"]) \in Seq(Wanted \cup Ack)
      BY <1>1, <3>2, AppendProperties
    <3>4. up' \in [Senders -> Seq(Wanted \cup Ack)] /\ acks' \in [Senders -> Nat]
      BY <1>1, <3>1, <3>3
    <3>5. TypeOK'
      BY <1>1, <1>8, <2>1, <2>3, <3>4
    <3>6. ToAckCounted'
      BY <1>1, <2>1, <2>3, LenProperties DEF AckInv, ToAckCounted
    <3>7. ASSUME NEW t \in Senders
          PROVE  acks'[t] + Cardinality(AskedFrom(b_to_ack', t)) <= asks'[t]
      <4>1. acks'[t] = acks[t] + (IF t = s THEN 1 ELSE 0) /\ acks[t] \in Nat /\ asks[t] \in Nat
        BY <1>1, <3>1
      <4>2. /\ Cardinality(AskedFrom(b_to_ack, t)) \in Nat
            /\ Cardinality(AskedFrom(b_to_ack', t)) \in Nat
        BY <1>1, <2>1, AskedFinite
      <4>3. acks[t] + Cardinality(AskedFrom(b_to_ack, t)) <= asks[t] /\ asks'[t] = asks[t]
        BY <1>4 DEF AckInv
      <4>4. Cardinality(AskedFrom(b_to_ack', t)) <=
               Cardinality(AskedFrom(b_to_ack, t)) - IF t = s THEN 1 ELSE 0
        BY <2>3
      <4> QED  BY <4>1, <4>2, <4>3, <4>4
    <3> QED  BY <1>7, <3>5, <3>6, <3>7 DEF AckInv
  <2> QED  BY <2>1, <2>2, <2>3
<1> QED  BY <1>5, <1>9, <1>10

\* Every step keeps the invariant.
LEMMA AckInvStep == AckInv /\ [Next]_vars => AckInv'
<1> SUFFICES ASSUME AckInv, [Next]_vars PROVE AckInv'
  OBVIOUS
<1> USE DEF Receiver, Sending
<1>0. /\ lw_ack \in [Senders -> Seq(ListWaitingAck)]
      /\ number_of_blocks_waiting_for_ack \in [Senders -> Int]
      /\ held \in [Senders -> SUBSET Bundles]
      /\ up \in [Senders -> Seq(Wanted \cup Ack)] /\ down \in [Senders -> Seq(Data)]
      /\ TypeOK /\ WaitingCounted
  BY DEF AckInv, TypeOK
<1>1. ASSUME NEW s \in Senders, NEW l \in SUBSET (Bundles \ Known) \ {{}},
             add_bl_toack(s, l)
      PROVE  AckInv'
  BY <1>1, AskStep
<1>2. ASSUME NEW s \in Senders, recv_bundle(s) PROVE AckInv'
  BY <1>2, ArriveStep
<1>3. ASSUME NEW s \in Senders, recv_control(s) PROVE AckInv'
  <2> DEFINE m == Head(up[s])
  <2>1. /\ m \in Wanted \cup Ack /\ Tail(up[s]) \in Seq(Wanted \cup Ack)
        /\ up' = [up EXCEPT ![s] = Tail(@)]
        /\ UNCHANGED Receiver /\ UNCHANGED held
    BY <1>0, <1>3, TailLemma DEF recv_control
  <2>2. up' \in [Senders -> Seq(Wanted \cup Ack)]
    BY <1>0, <2>1
  <2>3. CASE m.type = "want" /\ recv_wanted(s, m.list)
    <3> DEFINE e == [list |-> m.list, number_of_ret |-> 0]
    <3>1. m.list \in SUBSET Bundles /\ e \in ListWaitingAck
      BY <2>1, <2>3, BlockAckAssumption DEF Wanted, Ack, ListWaitingAck
    <3>2. CASE UNCHANGED <<lw_ack, number_of_blocks_waiting_for_ack, down>>
      <4>1. WaitingCounted'
        BY <1>0, <3>2 DEF WaitingCounted
      <4> QED  BY <1>0, <2>1, <2>2, <3>2, <4>1, SenderStep
    <3>3. CASE /\ lw_ack' = [lw_ack EXCEPT ![s] = Append(@, e)]
               /\ number_of_blocks_waiting_for_ack' =
                     [number_of_blocks_waiting_for_ack EXCEPT ![s] = @ + 1]
               /\ send_bundles_list(s, m.list, 0)
      <4>1. down' \in [Senders -> Seq(Data)]
        BY <1>0, <3>1, <3>3, SendLemma
      <4> HIDE DEF e
      <4>2. /\ Append(lw_ack[s], e) \in Seq(ListWaitingAck)
            /\ Len(Append(lw_ack[s], e)) = Len(lw_ack[s]) + 1
        BY <1>0, <3>1, AppendProperties
      <4>3. /\ lw_ack' \in [Senders -> Seq(ListWaitingAck)]
            /\ number_of_blocks_waiting_for_ack' \in [Senders -> Int]
        BY <1>0, <3>3, <4>2
      <4>4. WaitingCounted'
        BY <1>0, <3>3, <4>2 DEF WaitingCounted
      <4> QED  BY <1>0, <2>1, <2>2, <4>1, <4>3, <4>4, SenderStep
    <3> QED  BY <2>3, <3>2, <3>3 DEF recv_wanted
  <2>4. CASE m.type = "ack" /\ recv_block_ack(s)
    <3>1. UNCHANGED down
      BY <2>4 DEF recv_block_ack
    <3>2. CASE lw_ack[s] # <<>> /\ delete_ret_list(s, 1)
      <4>1. 1 \in DOMAIN lw_ack[s]
        BY <1>0, <3>2, EmptySeq, LenProperties
      <4>2. /\ lw_ack' \in [Senders -> Seq(ListWaitingAck)]
            /\ number_of_blocks_waiting_for_ack' \in [Senders -> Int]
            /\ WaitingCounted'
        BY <1>0, <3>2, <4>1, DeleteLemma
      <4> QED  BY <1>0, <2>1, <2>2, <3>1, <4>2, SenderStep
    <3>3. CASE UNCHANGED <<lw_ack, number_of_blocks_waiting_for_ack>>
      <4>1. WaitingCounted'
        BY <1>0, <3>3 DEF WaitingCounted
      <4> QED  BY <1>0, <2>1, <2>2, <3>1, <3>3, <4>1, SenderStep
    <3> QED  BY <2>4, <3>2, <3>3 DEF recv_block_ack
  <2> QED  BY <1>3, <2>3, <2>4 DEF recv_control
<1>4. ASSUME NEW s \in Senders, NEW i \in 1..MaxAsks, resend_bundles_block(s, i)
      PROVE  AckInv'
  <2>1. i \in DOMAIN lw_ack[s] /\ UNCHANGED Receiver /\ UNCHANGED <<held, up>>
    BY <1>4 DEF resend_bundles_block
  <2>2. CASE delete_ret_list(s, i) /\ UNCHANGED down
    <3>1. /\ lw_ack' \in [Senders -> Seq(ListWaitingAck)]
          /\ number_of_blocks_waiting_for_ack' \in [Senders -> Int]
          /\ WaitingCounted'
      BY <1>0, <2>1, <2>2, DeleteLemma
    <3> QED  BY <1>0, <2>1, <2>2, <3>1, SenderStep
  <2>3. CASE /\ lw_ack[s][i].number_of_ret < MaxRet
             /\ send_bundles_list(s, lw_ack[s][i].list, 1)
             /\ lw_ack' = [lw_ack EXCEPT ![s][i].number_of_ret = @ + 1]
             /\ UNCHANGED number_of_blocks_waiting_for_ack
    <3> DEFINE e == [lw_ack[s][i] EXCEPT !.number_of_ret = @ + 1]
               q == [lw_ack[s] EXCEPT ![i] = e]
    <3>1. lw_ack[s][i] \in ListWaitingAck /\ i \in 1..Len(lw_ack[s])
      BY <1>0, <2>1, ElementOfSeq, LenProperties
    <3>2. down' \in [Senders -> Seq(Data)]
      BY <1>0, <2>3, <3>1, SendLemma DEF ListWaitingAck
    <3>3. e \in ListWaitingAck
      BY <2>3, <3>1, BlockAckAssumption DEF ListWaitingAck
    <3>4. lw_ack' = [lw_ack EXCEPT ![s] = q]
      BY <2>3
    <3> HIDE DEF e
    <3>5. q \in Seq(ListWaitingAck) /\ Len(q) = Len(lw_ack[s])
      BY <1>0, <3>1, <3>3, ExceptSeq
    <3> HIDE DEF q
    <3>6. lw_ack' \in [Senders -> Seq(ListWaitingAck)]
      BY <1>0, <3>4, <3>5
    <3>7. WaitingCounted'
      BY <1>0, <2>3, <3>4, <3>5 DEF WaitingCounted
    <3> QED  BY <1>0, <2>1, <2>3, <3>2, <3>6, <3>7, SenderStep
  <2> QED  BY <1>4, <2>2, <2>3 DEF resend_bundles_block
<1>5. ASSUME NEW s \in Senders, lose(s) PROVE AckInv'
  <2>1. UNCHANGED <<Receiver, Sending>>
    BY <1>5 DEF lose
  <2>2. WaitingCounted'
    BY <1>0, <2>1 DEF WaitingCounted
  <2>3. CASE up[s] # <<>> /\ up' = [up EXCEPT ![s] = Tail(@)] /\ UNCHANGED down
    <3>1. Tail(up[s]) \in Seq(Wanted \cup Ack)
      BY <1>0, <2>3, TailLemma
    <3>2. up' \in [Senders -> Seq(Wanted \cup Ack)]
      BY <1>0, <2>3, <3>1
    <3> QED  BY <1>0, <2>1, <2>2, <2>3, <3>2, SenderStep
  <2>4. CASE down[s] # <<>> /\ down' = [down EXCEPT ![s] = Tail(@)] /\ UNCHANGED up
    <3>1. Tail(down[s]) \in Seq(Data)
      BY <1>0, <2>4, TailLemma
    <3>2. down' \in [Senders -> Seq(Data)]
      BY <1>0, <2>4, <3>1
    <3> QED  BY <1>0, <2>1, <2>2, <2>4, <3>2, SenderStep
  <2> QED  BY <1>5, <2>3, <2>4 DEF lose
<1>6. ASSUME NEW id \in MayForget, forget(id) PROVE AckInv'
  <2>1. received' \subseteq Bundles /\ held' \in [Senders -> SUBSET Bundles]
    BY <1>0, <1>6 DEF forget, TypeOK
  <2>2. UNCHANGED <<b_to_ack, number_of_blocks_to_ack, lw_ack,
                    number_of_blocks_waiting_for_ack, up, down, asks, acks, got>>
    BY <1>6 DEF forget
  <2> QED  BY <2>1, <2>2 DEF AckInv, TypeOK, WaitingCounted, ToAckCounted
<1>7. CASE UNCHANGED vars
  BY <1>7 DEF vars, AckInv, TypeOK, WaitingCounted, ToAckCounted
<1> QED  BY <1>1, <1>2, <1>3, <1>4, <1>5, <1>6, <1>7 DEF Next

\* So it always holds.
LEMMA AckInvHolds == Spec => []AckInv
<1> QED  BY AckInvInit, AckInvStep, PTL DEF Spec

-----------------------------------------------------------------------------

\* The lists, the messages and the 8-bit counts of the blocks keep their types.
THEOREM AcksTyped == Spec => []TypeOK
<1>1. AckInv => TypeOK
  BY DEF AckInv
<1> QED  BY <1>1, AckInvHolds, PTL

\* number_of_blocks_waiting_for_ack, which add_bl_waitingack and delete_ret_list
\* adjust by hand, is the length of the list of every sender.
THEOREM WaitingIsCounted == Spec => []WaitingCounted
<1>1. AckInv => WaitingCounted
  BY DEF AckInv
<1> QED  BY <1>1, AckInvHolds, PTL

\* delete_bta_block may throw blocks away that are still counted, but the
\* receiver never has blocks that it does not count.
THEOREM ToAckIsCounted == Spec => []ToAckCounted
<1>1. AckInv => ToAckCounted
  BY DEF AckInv
<1> QED  BY <1>1, AckInvHolds, PTL

\* update_bta_list acks no sender more often than it was asked, with bundles
\* that are lost, repeated or counted twice.
THEOREM NoMoreAcksThanAsks == Spec => []AcksMatchAsks
<1>1. AckInv => AcksMatchAsks
  <2> SUFFICES ASSUME AckInv, NEW s \in Senders PROVE acks[s] <= asks[s]
    BY DEF AcksMatchAsks
  <2>1. Cardinality(AskedFrom(b_to_ack, s)) \in Nat
    BY AskedFinite DEF AckInv, TypeOK
  <2>2. acks[s] \in Nat /\ asks[s] \in Int
    BY BlockAckAssumption DEF AckInv, TypeOK
  <2> QED  BY <2>1, <2>2 DEF AckInv
<1> QED  BY <1>1, AckInvHolds, PTL
=============================================================================
