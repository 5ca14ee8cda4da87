------------------------ MODULE BundleDeliveryProofs ------------------------
(***************************************************************************)
(* Proofs about BundleDelivery, for any agents, scripts and sizes.         *)
(***************************************************************************)
EXTENDS BundleDelivery, SequenceLemmas

-----------------------------------------------------------------------------
(* Copies of a bundle. *)

\* The first k steps of a payload, and the copy of the bundle o with them.
Start(k) == [i \in 1..k |-> i]
Part(o, k) == [o EXCEPT !.frag = TRUE, !.data = Start(k)]

\* The bundles as applications send them, and all copies there can be of those
\* in S. Of two fragments only the first is sent, so every fragment is a proper
\* beginning.
Original == {Whole(s, ts, uid, ep) : s \in Sources, ts \in Nat, uid \in Nat, ep \in Endpoints}
CopyOf(S) == S \cup {Part(o, k) : o \in S, k \in 1..(PayloadSize - 1)}
Fragment(S) == {b \in CopyOf(S) : b.frag}

\* What an application sends is one of them.
LEMMA OriginalLemma ==
    ASSUME NEW s \in Sources, NEW ts \in Nat, NEW uid \in Nat, NEW ep \in Endpoints
    PROVE  Whole(s, ts, uid, ep) \in Original
<1> DEFINE o == Whole(s, ts, uid, ep)
<1>1. \E s1 \in Sources, t1 \in Nat, u1 \in Nat, e1 \in Endpoints :
         o = Whole(s1, t1, u1, e1)
  OBVIOUS
<1> HIDE DEF o
<1>2. o \in Original
  BY <1>1 DEF Original
<1> QED  BY <1>2 DEF o

\* The numbers of the constants.
LEMMA Sizes ==
    /\ HeadSize \in Nat \ {0} /\ FragSize \in Nat \ {0} /\ PayloadSize \in Nat \ {0}
    /\ ExpTime \in Nat \ {0} /\ KeepFactor \in Nat \ {0} /\ Unit \in Nat \ {0}
    /\ HelloMtu \in Nat /\ HelloMtu >= HeadSize + FragSize + PayloadSize
<1>1. \A x \in {HeadSize, FragSize, PayloadSize, ExpTime, KeepFactor, Unit} :
         x \in Nat \ {0}
  BY DeliveryAssumption
<1>2. HelloMtu \in Nat /\ HelloMtu >= HeadSize + FragSize + PayloadSize
  BY DeliveryAssumption
<1> QED  BY <1>1, <1>2

\* The beginning of a payload is a sequence, and so is one of its beginnings.
LEMMA StartLemma ==
    ASSUME NEW k \in Nat, NEW n \in 0..k
    PROVE  Start(k) \in Seq(Nat) /\ Len(Start(k)) = k /\ SubSeq(Start(k), 1, n) = Start(n)
<1>1. \A m \in Nat : Start(m) \in Seq(Nat) /\ Len(Start(m)) = m
                     /\ \A i \in 1..m : Start(m)[i] = i
  <2> TAKE m \in Nat
  <2>1. Start(m) \in [1..m -> Nat] /\ \A i \in 1..m : Start(m)[i] = i
    BY DEF Start
  <2>2. Start(m) \in Seq(Nat)
    BY <2>1, SeqDef
  <2>3. Len(Start(m)) \in Nat /\ DOMAIN Start(m) = 1..Len(Start(m)) /\ DOMAIN Start(m) = 1..m
    BY <2>1, <2>2, LenProperties
  <2> QED  BY <2>1, <2>2, <2>3
<1> DEFINE s == Start(k)
           t == Start(n)
           u == SubSeq(s, 1, n)
<1>2. /\ s \in Seq(Nat) /\ Len(s) = k /\ \A i \in 1..k : s[i] = i
      /\ t \in Seq(Nat) /\ Len(t) = n /\ \A i \in 1..n : t[i] = i
  BY <1>1
<1> HIDE DEF s, t
<1>3. \A i \in 1..n : s[i] \in Nat
  BY <1>2
<1>4. /\ u \in Seq(Nat) /\ Len(u) = IF 1 <= n THEN n - 1 + 1 ELSE 0
      /\ \A i \in 1 .. n - 1 + 1 : u[i] = s[1 + i - 1]
  BY <1>3, SubSeqProperties
<1> HIDE DEF u
<1>5. Len(u) = Len(t) /\ \A i \in 1..Len(u) : u[i] = t[i]
  BY <1>2, <1>4
<1>6. u = t
  BY <1>2, <1>4, <1>5, SeqEqual
<1> QED  BY <1>2, <1>6 DEF s, t, u

\* What a copy has of its bundle.
LEMMA CopyLemma ==
    ASSUME NEW S \in SUBSET Original, NEW b \in CopyOf(S)
    PROVE  \E o \in S :
              /\ b.src = o.src /\ b.ts = o.ts /\ b.uid = o.uid /\ b.ep = o.ep
              /\ b.src \in Sources /\ b.ts \in Nat /\ b.uid \in Nat /\ b.ep \in Endpoints
              /\ b.offset = 0 /\ b.frag \in BOOLEAN
              /\ ~b.frag => b = o
              /\ \E k \in 1..PayloadSize :
                    /\ b.data = Start(k) /\ Len(b.data) = k
                    /\ b.frag => k < PayloadSize /\ b = Part(o, k)
                    /\ ~b.frag => k = PayloadSize
<1>0. PayloadSize \in Nat \ {0}
  BY Sizes
<1>1. \A k \in 1..PayloadSize : Len(Start(k)) = k
  BY <1>0, StartLemma
<1>2. \A o \in S : /\ o.src \in Sources /\ o.ts \in Nat /\ o.uid \in Nat
                   /\ o.ep \in Endpoints /\ o.offset = 0 /\ o.frag = FALSE
                   /\ o.data = Start(PayloadSize)
  <2> TAKE o \in S
  <2>1. PICK s \in Sources, ts \in Nat, uid \in Nat, ep \in Endpoints :
           o = Whole(s, ts, uid, ep)
    BY DEF Original
  <2> QED  BY <2>1 DEF Whole, Start
<1>3. CASE b \in S
  <2>1. /\ b.src \in Sources /\ b.ts \in Nat /\ b.uid \in Nat
        /\ b.ep \in Endpoints /\ b.offset = 0 /\ b.frag = FALSE
        /\ b.data = Start(PayloadSize)
    BY <1>2, <1>3
  <2>2. PayloadSize \in 1..PayloadSize /\ Len(Start(PayloadSize)) = PayloadSize
    BY <1>0, <1>1
  <2> WITNESS b \in S
  <2>3. \E k \in 1..PayloadSize :
                    /\ b.data = Start(k) /\ Len(b.data) = k
                    /\ b.frag => k < PayloadSize /\ b = Part(b, k)
                    /\ ~b.frag => k = PayloadSize
    BY <2>1, <2>2
  <2> QED  BY <2>1, <2>3
<1>4. CASE b \notin S
  <2>1. PICK o \in S, k \in 1..(PayloadSize - 1) : b = Part(o, k)
    BY <1>4 DEF CopyOf
  <2>2. PICK s \in Sources, ts \in Nat, uid \in Nat, ep \in Endpoints :
           o = Whole(s, ts, uid, ep)
    BY DEF Original
  <2>3. /\ b.src = o.src /\ b.ts = o.ts /\ b.uid = o.uid /\ b.ep = o.ep
        /\ b.offset = 0 /\ b.frag = TRUE /\ b.data = Start(k)
    BY <2>1, <2>2 DEF Part, Whole
  <2>4. k \in 1..PayloadSize /\ k < PayloadSize
    BY <1>0
  <2> QED  BY <1>1, <1>2, <2>1, <2>3, <2>4
<1> QED  BY <1>3, <1>4

\* Copies stay copies when more is sent.
LEMMA CopyMonotonic ==
    ASSUME NEW S, NEW T, S \subseteq T
    PROVE  CopyOf(S) \subseteq CopyOf(T) /\ Fragment(S) \subseteq Fragment(T)
BY DEF CopyOf, Fragment

\* A copy is one in the sense of TypeOK.
LEMMA IsCopyLemma ==
    ASSUME sent \in Seq(Original), NEW b \in CopyOf(ToSet(sent))
    PROVE  IsCopy(b)
<1>0. PayloadSize \in Nat \ {0} /\ ToSet(sent) \in SUBSET Original
  BY Sizes, ToSetLemma
<1>1. PICK o \in ToSet(sent) :
         /\ b.src = o.src /\ b.ts = o.ts /\ b.uid = o.uid /\ b.ep = o.ep
         /\ b.offset = 0 /\ b.frag \in BOOLEAN
         /\ \E k \in 1..PayloadSize : b.data = Start(k)
  BY <1>0, CopyLemma
<1>2. PICK i \in DOMAIN sent : o = sent[i]
  BY DEF ToSet
<1>3. PICK k \in 1..PayloadSize : b.data = Start(k)
  BY <1>1
<1>4. \A j \in DOMAIN b.data : b.data[j] \in 1..PayloadSize
  BY <1>0, <1>3 DEF Start
<1>5. b.offset \in 0..PayloadSize
  BY <1>0, <1>1
<1>6. Id(b) = Id(sent[i]) /\ Key(b) = Key(sent[i]) /\ b.ep = sent[i].ep
  BY <1>1, <1>2 DEF Id, Key
<1>7. b.frag \in BOOLEAN
  BY <1>1
<1> QED  BY <1>4, <1>5, <1>6, <1>7 DEF IsCopy

\* A fragment is shorter than what it was cut from, and not empty.
LEMMA ChunkLemma ==
    ASSUME NEW plen \in Nat, NEW mtu \in Nat,
           mtu > HeadSize + FragSize, plen > mtu - (HeadSize + FragSize)
    PROVE  Chunk(plen, mtu) \in 1..(plen - 1)
<1> DEFINE chunk == mtu - (HeadSize + FragSize)
<1>1. HeadSize \in Nat /\ FragSize \in Nat
  BY Sizes
<1>2. chunk \in Nat /\ chunk >= 1 /\ chunk < plen
  BY <1>1
<1>3. plen \div 2 \in 1..(plen - 1)
  BY <1>2
<1> QED  BY <1>2, <1>3 DEF Chunk

\* What sendBundle sends of a copy is a copy, under the same id.
LEMMA FittedLemma ==
    ASSUME NEW S \in SUBSET Original, NEW b \in CopyOf(S), NEW mtu \in Nat,
           mtu > HeadSize + FragSize
    PROVE  Fitted(b, mtu) \in CopyOf(S) /\ Id(Fitted(b, mtu)) = Id(b)
<1>0. HeadSize \in Nat /\ FragSize \in Nat /\ PayloadSize \in Nat \ {0}
  BY Sizes
<1>1. PICK o \in S :
         /\ ~b.frag => b = o
         /\ b.frag \in BOOLEAN
         /\ \E k \in 1..PayloadSize :
               /\ b.data = Start(k) /\ Len(b.data) = k
               /\ b.frag => k < PayloadSize /\ b = Part(o, k)
  BY CopyLemma
<1>2. PICK k \in 1..PayloadSize :
         /\ b.data = Start(k) /\ Len(b.data) = k
         /\ b.frag => k < PayloadSize /\ b = Part(o, k)
  BY <1>1
<1>3. PICK s \in Sources, ts \in Nat, uid \in Nat, ep \in Endpoints :
         o = Whole(s, ts, uid, ep)
  BY DEF Original
<1>4. CASE ~(getDataSize(b) > mtu) \/ mtu - (HeadSize + FragSize) > Len(b.data)
  <2>1. Fitted(b, mtu) = b
    BY <1>4 DEF Fitted, fragment
  <2> QED  BY <2>1
<1>5. CASE getDataSize(b) > mtu /\ ~(mtu - (HeadSize + FragSize) > Len(b.data))
  <2>1. k > mtu - (HeadSize + FragSize)
    BY <1>0, <1>1, <1>2, <1>5 DEF getDataSize
  <2> DEFINE c == Chunk(k, mtu)
  <2>2. c \in 1..(k - 1)
    BY <2>1, ChunkLemma
  <2>3. Fitted(b, mtu) = [b EXCEPT !.frag = TRUE, !.data = SubSeq(@, 1, c)]
    BY <1>2, <1>5 DEF Fitted, fragment
  <2> HIDE DEF c
  <2>4. SubSeq(b.data, 1, c) = Start(c)
    <3>1. c \in 0..k
      BY <2>2
    <3> QED  BY <1>2, <3>1, StartLemma
  <2>5. Fitted(b, mtu) = Part(o, c)
    BY <1>1, <1>2, <1>3, <2>3, <2>4 DEF Part, Whole
  <2>6. c \in 1..(PayloadSize - 1)
    BY <1>0, <2>2
  <2>7. Id(Part(o, c)) = Id(o) /\ Id(b) = Id(o)
    BY <1>1, <1>2, <1>3 DEF Part, Whole, Id
  <2> QED  BY <2>5, <2>6, <2>7 DEF CopyOf
<1> QED  BY <1>4, <1>5

-----------------------------------------------------------------------------
(* The list bids_. *)

\* Picking positions picks the elements at them: the ranks of the positions are
\* all the numbers up to how many they are.
LEMMA PickedLemma ==
    ASSUME NEW S, NEW s \in Seq(S), NEW P \in SUBSET (1..Len(s))
    PROVE  Picked(s, P) \in Seq(S) /\ ToSet(Picked(s, P)) = {s[i] : i \in P}
<1> DEFINE upTo(i) == {j \in P : j <= i}
           c == Cardinality(P)
           rank == [i \in P |-> Cardinality(upTo(i))]
           place(k) == CHOOSE i \in P : Cardinality(upTo(i)) = k
<1>0. Len(s) \in Nat /\ \A i \in P : i \in Int
  <2>1. Len(s) \in Nat
    BY LenProperties
  <2> QED  BY <2>1
<1>1. IsFiniteSet(P) /\ c \in Nat
  <2>1. IsFiniteSet(1..Len(s))
    BY <1>0, FS_Interval
  <2> QED  BY <2>1, FS_Subset, FS_CardinalityType
<1>2. \A i \in P : IsFiniteSet(upTo(i)) /\ Cardinality(upTo(i)) \in 1..c
  <2> TAKE i \in P
  <2>1. IsFiniteSet(upTo(i)) /\ Cardinality(upTo(i)) <= c
    BY <1>1, FS_Subset
  <2>2. upTo(i) # {}
    <3>1. i \in Int
      BY <1>0
    <3>2. i \in upTo(i)
      BY <3>1
    <3> QED  BY <3>2
  <2>3. Cardinality(upTo(i)) \in Nat /\ Cardinality(upTo(i)) # 0
    <3> HIDE DEF upTo
    <3> QED  BY <2>1, <2>2, FS_CardinalityType, FS_EmptySet
  <2> QED  BY <1>1, <2>1, <2>3
<1>3. \A i, j \in P : i < j => Cardinality(upTo(i)) # Cardinality(upTo(j))
  <2> SUFFICES ASSUME NEW i \in P, NEW j \in P, i < j
               PROVE  Cardinality(upTo(i)) # Cardinality(upTo(j))
    OBVIOUS
  <2>0. i \in Int /\ j \in Int
    BY <1>0
  <2>1. upTo(i) \in SUBSET upTo(j) /\ j \in upTo(j) /\ j \notin upTo(i)
    <3>1. ASSUME NEW x \in upTo(i) PROVE x \in upTo(j)
      <4>1. x \in Int
        BY <1>0
      <4> QED  BY <2>0, <4>1
    <3>2. j \in upTo(j) /\ j \notin upTo(i)
      BY <2>0
    <3> HIDE DEF upTo
    <3> QED  BY <3>1, <3>2
  <2>2. IsFiniteSet(upTo(j))
    BY <1>2
  <2> HIDE DEF upTo
  <2> QED  BY <2>1, <2>2, FS_Subset
<1>4. rank \in Injection(P, 1..c)
  <2> HIDE DEF upTo
  <2>1. rank \in [P -> 1..c]
    BY <1>2
  <2>2. \A i, j \in P : rank[i] = rank[j] => i = j
    BY <1>0, <1>3
  <2> QED  BY <2>1, <2>2 DEF Injection, IsInjective
<1>5. IsFiniteSet(1..c) /\ Cardinality(1..c) = c
  BY <1>1, FS_Interval
<1>6. rank \in Surjection(P, 1..c)
  BY <1>4, <1>5, FS_Injection
<1>7. \A k \in 1..c : place(k) \in P /\ Cardinality(upTo(place(k))) = k
  <2> TAKE k \in 1..c
  <2> HIDE DEF upTo
  <2>1. PICK i \in P : rank[i] = k
    BY <1>6 DEF Surjection
  <2>2. Cardinality(upTo(i)) = k
    BY <2>1
  <2> QED  BY <2>2
<1>8. \A i \in P : Cardinality(upTo(i)) \in 1..c /\ place(Cardinality(upTo(i))) = i
  <2> TAKE i \in P
  <2> DEFINE k == Cardinality(upTo(i))
  <2>1. k \in 1..c
    BY <1>2
  <2>2. place(k) \in P /\ Cardinality(upTo(place(k))) = k
    BY <1>7, <2>1
  <2>3. i \in Int /\ place(k) \in Int
    <3> HIDE DEF place, upTo, k
    <3> QED  BY <1>0, <2>2
  <2>4. ~(i < place(k)) /\ ~(place(k) < i)
    <3> HIDE DEF upTo, place
    <3> QED  BY <1>3, <2>2
  <2> HIDE DEF upTo, place
  <2> QED  BY <2>1, <2>3, <2>4
<1> DEFINE t == Picked(s, P)
<1>9. t = [k \in 1..c |-> s[place(k)]]
  BY DEF Picked
<1> HIDE DEF t, place, upTo
<1>10. t \in [1..c -> S] /\ \A k \in 1..c : t[k] = s[place(k)]
  BY <1>0, <1>7, <1>9, ElementOfSeq
<1>11. t \in Seq(S)
  BY <1>1, <1>10, SeqDef
<1>12. DOMAIN t = 1..c
  BY <1>10
<1>13. ToSet(t) = {s[i] : i \in P}
  <2>1. ASSUME NEW e \in ToSet(t) PROVE e \in {s[i] : i \in P}
    <3>1. PICK k \in 1..c : e = t[k]
      BY <1>12 DEF ToSet
    <3> QED  BY <1>7, <1>10, <3>1
  <2>2. ASSUME NEW i \in P PROVE s[i] \in ToSet(t)
    <3>1. t[Cardinality(upTo(i))] = s[i] /\ Cardinality(upTo(i)) \in 1..c
      BY <1>8, <1>10
    <3> QED  BY <1>12, <3>1 DEF ToSet
  <2> QED  BY <2>1, <2>2
<1> QED  BY <1>11, <1>13 DEF t

\* An entry of bids_, and the time its bundle was accepted.
Entry == [id : Sources \X Nat, lifespan : Nat, stamp : Nat]
Origin(e) == e.stamp - e.lifespan

\* Bringing an entry up to date does not change what it remembers.
LEMMA AgedLemma ==
    ASSUME now \in Nat, NEW e \in Entry, e.stamp <= now
    PROVE  /\ Aged(e) \in Entry /\ Aged(e).id = e.id /\ Aged(e).stamp <= now
           /\ Origin(Aged(e)) = Origin(e) /\ Lifespan(e) = now - Origin(e)
<1>1. e.lifespan \in Nat /\ e.stamp \in Nat
  BY DEF Entry
<1>2. Lifespan(e) \in Nat /\ Lifespan(e) = now - Origin(e) /\ Origin(e) = now - Lifespan(e)
  BY <1>1 DEF Lifespan, Origin
<1>3. /\ Aged(e) \in Entry /\ Aged(e).id = e.id
      /\ Aged(e).stamp = now /\ Aged(e).lifespan = Lifespan(e)
  BY <1>2 DEF Aged, Entry
<1>4. Origin(Aged(e)) = Origin(e) /\ Aged(e).stamp <= now
  BY <1>2, <1>3 DEF Origin
<1> QED  BY <1>2, <1>3, <1>4

\* The walk invents no entry and loses none that is not too old.
LEMMA WalkedLemma ==
    ASSUME now \in Nat, NEW es \in Seq(Entry), \A e \in ToSet(es) : e.stamp <= now, NEW id
    PROVE  /\ Walked(es, id) \in Seq(Entry)
           /\ \A w \in ToSet(Walked(es, id)) :
                 /\ w.stamp <= now
                 /\ \E e \in ToSet(es) : w.id = e.id /\ Origin(w) = Origin(e)
           /\ \A e \in ToSet(es) : Old(e) \/
                 \E w \in ToSet(Walked(es, id)) : w.id = e.id /\ Origin(w) = Origin(e)
<1> DEFINE I == {i \in 1..Len(es) : es[i].id = id /\ ~Old(es[i])}
           p == IF I # {} THEN Min(I) ELSE 0
           n == IF p = 0 THEN Len(es) ELSE p
           P == {i \in 1..n : ~Old(es[i])}
           kept == Picked(es, P)
           aged == [i \in DOMAIN kept |-> Aged(kept[i])]
           rest == SubSeq(es, n + 1, Len(es))
<1>0. Walked(es, id) = aged \o rest
  BY DEF Walked, SelectInSeq
<1>1. Len(es) \in Nat /\ \A i \in 1..Len(es) : es[i] \in Entry
  BY LenProperties, ElementOfSeq
<1>2. n \in 0..Len(es)
  <2>1. I # {} => p \in I
    <3>1. I \in SUBSET Nat
      BY <1>1
    <3> HIDE DEF I
    <3> QED  BY <3>1, MinLemma
  <2>2. I # {} => p \in 1..Len(es)
    BY <2>1
  <2> HIDE DEF I
  <2> QED  BY <1>1, <2>2
<1> HIDE DEF p, n
<1>3. P \in SUBSET (1..Len(es))
  BY <1>1, <1>2
<1>4. kept \in Seq(Entry) /\ ToSet(kept) = {es[i] : i \in P}
  BY <1>3, PickedLemma
<1> HIDE DEF P, kept
<1>5. \A e \in ToSet(kept) : e \in ToSet(es)
  BY <1>3, <1>4, ToSetLemma
<1>6. \A e \in ToSet(es) : e \in Entry
  BY ToSetLemma
<1>7. aged \in Seq(Entry) /\ ToSet(aged) = {Aged(e) : e \in ToSet(kept)}
  <2>1. Len(kept) \in Nat /\ DOMAIN kept = 1..Len(kept)
    BY <1>4, LenProperties
  <2>2. \A i \in 1..Len(kept) : kept[i] \in ToSet(kept)
    BY <2>1 DEF ToSet
  <2>3. \A i \in 1..Len(kept) : Aged(kept[i]) \in Entry
    BY <1>5, <1>6, <2>2, AgedLemma
  <2>4. aged \in [1..Len(kept) -> Entry]
    BY <2>1, <2>3
  <2>5. aged \in Seq(Entry)
    BY <2>1, <2>4, SeqDef
  <2>6. DOMAIN aged = DOMAIN kept
    OBVIOUS
  <2>7. ToSet(aged) = {Aged(e) : e \in ToSet(kept)}
    BY <2>6 DEF ToSet
  <2> QED  BY <2>5, <2>7
<1>8. rest \in Seq(Entry) /\ ToSet(rest) = {es[i] : i \in (n + 1)..Len(es)}
  <2>1. n + 1 \in Nat \ {0}
    BY <1>1, <1>2
  <2> QED  BY <1>1, <2>1, SubSeqLemma
<1> HIDE DEF aged, rest
<1>9. /\ aged \o rest \in Seq(Entry)
      /\ ToSet(aged \o rest) = {Aged(e) : e \in ToSet(kept)} \cup ToSet(rest)
  BY <1>7, <1>8, ConcatLemma
<1>10. \A e \in ToSet(rest) : e \in ToSet(es)
  BY <1>1, <1>2, <1>8, ToSetLemma
<1>11. \A e \in ToSet(es) : Old(e) \/ e \in ToSet(kept) \/ e \in ToSet(rest)
  <2> SUFFICES ASSUME NEW e \in ToSet(es), ~Old(e)
               PROVE  e \in ToSet(kept) \/ e \in ToSet(rest)
    OBVIOUS
  <2>1. PICK i \in 1..Len(es) : e = es[i]
    BY ToSetLemma
  <2>2. CASE i <= n
    BY <1>1, <1>2, <1>4, <2>1, <2>2 DEF P
  <2>3. CASE ~(i <= n)
    <3>1. i \in (n + 1)..Len(es)
      BY <1>1, <1>2, <2>3
    <3> QED  BY <1>8, <2>1, <3>1
  <2> QED  BY <2>2, <2>3
<1>12. \A w \in ToSet(aged \o rest) :
          /\ w.stamp <= now
          /\ \E e \in ToSet(es) : w.id = e.id /\ Origin(w) = Origin(e)
  <2> TAKE w \in ToSet(aged \o rest)
  <2>1. CASE w \in ToSet(rest)
    BY <1>10, <2>1
  <2>2. CASE w \notin ToSet(rest)
    <3>1. PICK e \in ToSet(kept) : w = Aged(e)
      BY <1>9, <2>2
    <3> QED  BY <1>5, <1>6, <3>1, AgedLemma
  <2> QED  BY <2>1, <2>2
<1>13. \A e \in ToSet(es) : Old(e) \/
          \E w \in ToSet(aged \o rest) : w.id = e.id /\ Origin(w) = Origin(e)
  <2> SUFFICES ASSUME NEW e \in ToSet(es), ~Old(e)
               PROVE  \E w \in ToSet(aged \o rest) : w.id = e.id /\ Origin(w) = Origin(e)
    OBVIOUS
  <2>1. CASE e \in ToSet(rest)
    BY <1>9, <2>1
  <2>2. CASE e \in ToSet(kept)
    <3>1. Aged(e) \in ToSet(aged \o rest)
      BY <1>9, <2>2
    <3>2. Aged(e).id = e.id /\ Origin(Aged(e)) = Origin(e)
      BY <1>6, AgedLemma
    <3> QED  BY <3>1, <3>2
  <2> QED  BY <1>11, <2>1, <2>2
<1> QED  BY <1>0, <1>9, <1>12, <1>13

-----------------------------------------------------------------------------
(* The groups of fragments. *)

Group(S) == Seq(Fragment(S)) \ {<<>>}

\* A fragment is the beginning of the payload, without its end.
LEMMA FragmentLemma ==
    ASSUME NEW S \in SUBSET Original, NEW f \in Fragment(S)
    PROVE  /\ f \in CopyOf(S) /\ f.frag /\ f.offset = 0
           /\ Len(f.data) \in 1..(PayloadSize - 1)
           /\ DOMAIN f.data = 1..Len(f.data)
<1>0. PayloadSize \in Nat \ {0}
  BY Sizes
<1>1. f \in CopyOf(S) /\ f.frag
  BY DEF Fragment
<1>2. f.offset = 0 /\ \E k \in 1..PayloadSize :
         /\ f.data = Start(k) /\ Len(f.data) = k
         /\ f.frag => k < PayloadSize
  BY <1>1, CopyLemma
<1>3. PICK k \in 1..PayloadSize :
         f.data = Start(k) /\ Len(f.data) = k /\ k < PayloadSize
  BY <1>1, <1>2
<1>4. DOMAIN f.data = 1..k
  BY <1>3 DEF Start
<1> QED  BY <1>0, <1>1, <1>2, <1>3, <1>4

\* So no group of fragments is complete.
LEMMA IncompleteLemma ==
    ASSUME NEW S \in SUBSET Original, NEW g \in Seq(Fragment(S))
    PROVE  ~Complete(g)
<1> DEFINE ends == {0} \cup {f.offset + Len(f.data) : f \in ToSet(g)}
<1>0. PayloadSize \in Nat \ {0}
  BY Sizes
<1>1. \A f \in ToSet(g) : f \in Fragment(S)
  BY ToSetLemma
<1>2. \A f \in ToSet(g) : f.offset + Len(f.data) \in 0..(PayloadSize - 1)
  <2> TAKE f \in ToSet(g)
  <2>1. f.offset = 0 /\ Len(f.data) \in 1..(PayloadSize - 1)
    BY <1>1, FragmentLemma
  <2> QED  BY <1>0, <2>1
<1>3. ends \in SUBSET (0..(PayloadSize - 1)) /\ ends # {} /\ PayloadSize - 1 \in Nat
  BY <1>0, <1>2
<1>4. Reach(g) = Max(ends)
  BY DEF Reach
<1> HIDE DEF ends
<1>5. Max(ends) \in ends
  BY <1>3, MaxLemma
<1>6. Reach(g) \in 0..(PayloadSize - 1)
  BY <1>3, <1>4, <1>5
<1> QED  BY <1>0, <1>6 DEF Complete

\* A group with one more fragment is a group.
LEMMA InsertedLemma ==
    ASSUME NEW S, NEW g \in Seq(S), NEW b \in S
    PROVE  Inserted(g, b) \in Seq(S) \ {<<>>}
<1> DEFINE I == {i \in 1..Len(g) : b.offset < g[i].offset}
           p == IF I # {} THEN Min(I) ELSE 0
<1>0. Inserted(g, b) = IF p = 0 THEN Append(g, b) ELSE InsertAt(g, p, b)
  BY DEF Inserted, SelectInSeq
<1>1. Len(g) \in Nat
  BY LenProperties
<1>2. CASE p = 0
  <2>1. Append(g, b) \in Seq(S) /\ Len(Append(g, b)) = Len(g) + 1
    BY AppendLemma
  <2>2. Append(g, b) # <<>>
    BY <1>1, <2>1
  <2> QED  BY <1>0, <1>2, <2>1, <2>2
<1>3. CASE p # 0
  <2>1. I \in SUBSET Nat /\ I # {}
    BY <1>1, <1>3
  <2>2. p \in I
    <3> HIDE DEF I
    <3> QED  BY <2>1, MinLemma
  <2>3. p \in 1..(Len(g) + 1)
    BY <1>1, <2>2
  <2> HIDE DEF p
  <2>4. InsertAt(g, p, b) \in Seq(S) /\ Len(InsertAt(g, p, b)) = Len(g) + 1
    BY <2>3, InsertAtLemma
  <2>5. InsertAt(g, p, b) # <<>>
    BY <1>1, <2>4
  <2> QED  BY <1>0, <1>3, <2>4, <2>5
<1> QED  BY <1>2, <1>3

\* A fragment that arrives waits, and makes no bundle whole.
LEMMA WaitingLemma ==
    ASSUME NEW S \in SUBSET Original, NEW fs \in Seq(Group(S)), NEW b \in Fragment(S)
    PROVE  Waiting(fs, b) \in Seq(Group(S)) /\ defragment(fs, b) = {}
<1> DEFINE I == {i \in 1..Len(fs) : Key(fs[i][1]) = Key(b)}
           p == GroupOf(fs, b)
<1>0. p = IF I # {} THEN Min(I) ELSE 0
  BY DEF GroupOf, SelectInSeq
<1>1. Len(fs) \in Nat /\ DOMAIN fs = 1..Len(fs)
  BY LenProperties
<1>2. p # 0 => p \in 1..Len(fs)
  <2>1. I \in SUBSET Nat
    BY <1>1
  <2>2. I # {} => Min(I) \in I
    <3> HIDE DEF I
    <3> QED  BY <2>1, MinLemma
  <2>3. I # {} => Min(I) \in 1..Len(fs)
    BY <2>2
  <2> HIDE DEF I
  <2> QED  BY <1>0, <2>3
<1>3. p # 0 => Inserted(fs[p], b) \in Group(S) /\ ~Complete(Inserted(fs[p], b))
  <2> HAVE p # 0
  <2>1. fs[p] \in Seq(Fragment(S))
    BY <1>2, ElementOfSeq DEF Group
  <2>2. Inserted(fs[p], b) \in Seq(Fragment(S)) \ {<<>>}
    BY <2>1, InsertedLemma
  <2> QED  BY <2>2, IncompleteLemma DEF Group
<1> HIDE DEF p
<1>4. defragment(fs, b) = {}
  BY <1>3 DEF defragment, p
<1>5. Waiting(fs, b) \in Seq(Group(S))
  <2>1. CASE p = 0
    <3>1. <<b>> \in Group(S)
      BY DEF Group
    <3>2. Waiting(fs, b) = Append(fs, <<b>>)
      BY <2>1 DEF Waiting, p
    <3> QED  BY <3>1, <3>2, AppendLemma
  <2>2. CASE p # 0 /\ HasFragment(fs[p], b)
    <3>1. Waiting(fs, b) = fs
      BY <2>2 DEF Waiting, p
    <3> QED  BY <3>1
  <2>3. CASE p # 0 /\ ~HasFragment(fs[p], b)
    <3>1. Waiting(fs, b) = [fs EXCEPT ![p] = Inserted(fs[p], b)]
      BY <1>3, <2>3 DEF Waiting, ReplaceAt, p
    <3>2. [fs EXCEPT ![p] = Inserted(fs[p], b)] \in Seq(Group(S))
      BY <1>2, <1>3, <2>3, ExceptSeq
    <3> QED  BY <3>1, <3>2
  <2> QED  BY <2>1, <2>2, <2>3
<1> QED  BY <1>4, <1>5

\* What is left when groups expire.
LEMMA UnexpiredLemma ==
    ASSUME NEW S, NEW fs \in Seq(S)
    PROVE  Unexpired(fs) \in Seq(S)
<1> DEFINE I == {i \in 1..Len(fs) : fs[i][1].ts + ExpTime * Unit < now * Unit}
           p == IF I # {} THEN Max(I) ELSE 0
<1>0. Unexpired(fs) = SubSeq(fs, p + 1, Len(fs))
  BY DEF Unexpired, SelectLastInSeq
<1>1. Len(fs) \in Nat
  BY LenProperties
<1>2. p \in Nat
  <2>1. I \in SUBSET (0..Len(fs))
    BY <1>1
  <2>2. I # {} => Max(I) \in I
    <3> HIDE DEF I
    <3> QED  BY <1>1, <2>1, MaxLemma
  <2> HIDE DEF I
  <2>3. CASE I # {}
    <3>1. Max(I) \in 0..Len(fs)
      BY <2>1, <2>2, <2>3
    <3>2. Max(I) \in Nat
      BY <1>1, <3>1
    <3> QED  BY <2>3, <3>2
  <2>4. CASE I = {}
    BY <2>4
  <2> QED  BY <2>3, <2>4
<1> HIDE DEF p
<1>3. p + 1 \in Nat \ {0} /\ Len(fs) \in Nat /\ Len(fs) <= Len(fs)
  BY <1>1, <1>2
<1> QED  BY <1>0, <1>3, SubSeqLemma

-----------------------------------------------------------------------------
(* The ids of a source. *)

\* The bundles of s among the first i of a list, and how many there are.
SentBy(list, s, i) == {j \in 1..i : list[j].src = s}
Rank(list, s, i) == Cardinality(SentBy(list, s, i))

\* A source gives the ids 1 .. m in turn: the bundle that is its n-th has the
\* id u if n = q * m + u for some number q of rounds.
Turns(n, m, u) == \E q \in Nat : n = q * m + u

\* A rank is a number.
LEMMA RankLemma ==
    ASSUME NEW list, NEW s, NEW i \in Nat
    PROVE  IsFiniteSet(SentBy(list, s, i)) /\ Rank(list, s, i) \in Nat
<1>1. IsFiniteSet(1..i)
  BY FS_Interval
<1> QED  BY <1>1, FS_Subset, FS_CardinalityType DEF SentBy, Rank

\* One more bundle adds one to the rank of its source only.
LEMMA RankAppend ==
    ASSUME NEW S, NEW list \in Seq(S), NEW b \in S, NEW s
    PROVE  /\ \A i \in 0..Len(list) : Rank(Append(list, b), s, i) = Rank(list, s, i)
           /\ Rank(Append(list, b), s, Len(list) + 1) =
                 Rank(list, s, Len(list)) + IF b.src = s THEN 1 ELSE 0
<1> DEFINE n == Len(list)
           more == Append(list, b)
<1>1. /\ n \in Nat /\ more[n + 1] = b
      /\ \A i \in 1..n : more[i] = list[i]
  BY AppendLemma, LenProperties
<1> HIDE DEF more, n
<1>2. \A i \in 0..n : SentBy(more, s, i) = SentBy(list, s, i)
  BY <1>1 DEF SentBy
<1>3. \A i \in 0..n : Rank(more, s, i) = Rank(list, s, i)
  BY <1>2 DEF Rank
<1>4. IsFiniteSet(SentBy(list, s, n)) /\ Rank(list, s, n) \in Nat
  BY <1>1, RankLemma
<1>5. CASE b.src = s
  <2>1. SentBy(more, s, n + 1) = SentBy(list, s, n) \cup {n + 1}
    BY <1>1, <1>5 DEF SentBy
  <2>2. n + 1 \notin SentBy(list, s, n)
    BY <1>1 DEF SentBy
  <2> QED  BY <1>3, <1>4, <1>5, <2>1, <2>2, FS_AddElement DEF Rank, more, n
<1>6. CASE b.src # s
  <2>1. SentBy(more, s, n + 1) = SentBy(list, s, n)
    BY <1>1, <1>6 DEF SentBy
  <2> QED  BY <1>3, <1>4, <1>6, <2>1 DEF Rank, more, n
<1> QED  BY <1>5, <1>6

\* What the ranks of two bundles of s differ by are the bundles after the first.
LEMMA RankBetween ==
    ASSUME NEW S, NEW list \in Seq(S), NEW s, NEW j \in 1..Len(list), NEW k \in 1..Len(list),
           j < k, list[k].src = s
    PROVE  /\ Cardinality({i \in DOMAIN list : list[i].src = s /\ j < i /\ i <= k})
                 = Rank(list, s, k) - Rank(list, s, j)
           /\ Rank(list, s, j) < Rank(list, s, k)
<1> DEFINE B == {i \in DOMAIN list : list[i].src = s /\ j < i /\ i <= k}
           A == SentBy(list, s, j)
<1>1. Len(list) \in Nat /\ DOMAIN list = 1..Len(list)
  BY LenProperties
<1>2. j \in Nat /\ k \in Nat
  BY <1>1
<1>3. IsFiniteSet(A) /\ Rank(list, s, j) \in Nat /\ Rank(list, s, k) \in Nat
  BY <1>2, RankLemma
<1>4. A \cup B = SentBy(list, s, k) /\ A \cap B = {} /\ k \in B
  BY <1>1, <1>2 DEF SentBy
<1>5. IsFiniteSet(B) /\ Cardinality(B) \in Nat
  <2>1. IsFiniteSet(1..Len(list))
    BY <1>1, FS_Interval
  <2>2. B \in SUBSET (1..Len(list))
    BY <1>1
  <2> HIDE DEF B
  <2> QED  BY <2>1, <2>2, FS_Subset, FS_CardinalityType
<1> HIDE DEF A, B
<1>6. Cardinality(A \cup B) = Cardinality(A) + Cardinality(B) - Cardinality(A \cap B)
  BY <1>3, <1>5, FS_Union
<1>7. Cardinality(A \cap B) = 0 /\ Cardinality(B) # 0
  BY <1>4, <1>5, FS_EmptySet
<1>8. Cardinality(A \cup B) = Rank(list, s, k) /\ Cardinality(A) = Rank(list, s, j)
  BY <1>4 DEF Rank, A
<1> QED  BY <1>3, <1>5, <1>6, <1>7, <1>8 DEF B

\* The turn after a turn: the id goes up by one, or back to one at the end of
\* the round.
LEMMA TurnsNext ==
    ASSUME NEW m \in Nat \ {0}, NEW n \in Nat, NEW u \in 0..m, Turns(n, m, u)
    PROVE  Turns(n + 1, m, IF u = m THEN 1 ELSE u + 1)
<1>1. PICK q \in Nat : n = q * m + u
  BY DEF Turns
<1>2. CASE u = m
  <2>1. n + 1 = (q + 1) * m + 1
    BY <1>1, <1>2
  <2>2. q + 1 \in Nat
    OBVIOUS
  <2> QED  BY <1>2, <2>1, <2>2 DEF Turns
<1>3. CASE u # m
  <2>1. q * m \in Nat
    OBVIOUS
  <2>2. n + 1 = q * m + (u + 1)
    BY <1>1, <2>1
  <2> QED  BY <1>3, <2>2 DEF Turns
<1> QED  BY <1>2, <1>3

\* An id comes again after a whole round at the earliest.
LEMMA TurnsApart ==
    ASSUME NEW m \in Nat, NEW n \in Nat, NEW o \in Nat, NEW u \in Nat,
           Turns(n, m, u), Turns(o, m, u), n < o
    PROVE  o - n >= m
<1>1. PICK q \in Nat : n = q * m + u
  BY DEF Turns
<1>2. PICK r \in Nat : o = r * m + u
  BY DEF Turns
<1> DEFINE d == r - q
<1>3. q * m \in Nat /\ r * m \in Nat
  OBVIOUS
<1>4. q * m < r * m
  BY <1>1, <1>2, <1>3
<1>5. d \in Int /\ r * m - q * m = d * m
  OBVIOUS
<1>6. d >= 1
  <2> SUFFICES ASSUME ~(d >= 1) PROVE FALSE
    OBVIOUS
  <2>1. r <= q
    BY <1>5
  <2>2. r * m <= q * m
    BY <2>1
  <2> QED  BY <1>3, <1>4, <2>2
<1> HIDE DEF d
<1>7. d * m >= m
  BY <1>5, <1>6
<1> QED  BY <1>1, <1>2, <1>3, <1>5, <1>7

-----------------------------------------------------------------------------
(* The invariant, by the parts of the state. *)

\* The sources: the n-th bundle of each has the id whose turn it is.
SentInv ==
    /\ scenario \in Scenarios /\ now \in 0..scenario.time
    /\ bId \in [Sources -> 0..(scenario.maxIds - 1)]
    /\ lastTimestamp \in [Sources -> Nat]
    /\ sent \in Seq(Original)
    /\ \A i \in 1..Len(sent) :
        Turns(Rank(sent, sent[i].src, i), scenario.maxIds - 1, sent[i].uid)
    /\ \A s \in Sources :
        Turns(Rank(sent, s, Len(sent)), scenario.maxIds - 1, bId[s])

\* The buffers: copies of what was sent, one of an id.
OneOfAnId(X) == \A b, c \in X : Id(b) = Id(c) => b = c
StoreInv ==
    /\ store \in [Holders -> SUBSET CopyOf(ToSet(sent))]
    /\ \A n \in Holders : OneOfAnId(store[n])

\* Neighbors and routes; every link has room for a header and one byte.
LinkInv ==
    /\ neighbors \in [Holders -> SUBSET Nodes]
    /\ routes \in [Holders -> Seq({r \in Route : r.mtu > HeadSize + FragSize})]
    /\ \A n \in Holders : \A m \in neighbors[n] :
        \E i \in 1..Len(routes[n]) : routes[n][i].node = m

RegInv ==
    /\ reg \in Seq(Registration)
    /\ token \in 0..scenario.tokens

\* The destination: fragments wait, whole bundles were accepted.
DestInv ==
    /\ frags \in Seq(Group(ToSet(sent)))
    /\ local \in Seq(ToSet(sent)) /\ inbox \subseteq ToSet(sent)
    /\ accepted \in Seq([bundle : ToSet(sent), at : 0..now])

\* bids_ has what was accepted and is not too old, and nothing that was not.
BidsInv ==
    /\ bids \in Seq(Entry) /\ \A e \in ToSet(bids) : e.stamp <= now
    /\ \A a \in ToSet(accepted) : now - a.at <= ExpTime * KeepFactor =>
        \E e \in ToSet(bids) : e.id = Id(a.bundle) /\ Origin(e) = a.at
    /\ \A e \in ToSet(bids) :
        \E a \in ToSet(accepted) : e.id = Id(a.bundle) /\ Origin(e) = a.at
    /\ AcceptedApart

DeliveryInv == SentInv /\ StoreInv /\ LinkInv /\ RegInv /\ DestInv /\ BidsInv

\* What the script gives.
LEMMA ScenarioLemma ==
    ASSUME scenario \in Scenarios
    PROVE  /\ \A l \in scenario.links : l \in Holders \X Nodes
           /\ \A a \in scenario.adds :
                a[1] \in Holders /\ a[2] \in Route /\ a[2].mtu > HeadSize + FragSize
           /\ scenario.failActs \subseteq FailAct
           /\ scenario.time \in Nat /\ scenario.tokens \in Nat
           /\ scenario.maxIds \in Nat /\ scenario.maxIds > 1
BY DeliveryAssumption

-----------------------------------------------------------------------------
(* The sources. *)

\* A new bundle takes the next turn of its source.
LEMMA NewBundleLemma ==
    ASSUME SentInv, NEW s \in Sources, NEW ep \in Endpoints, newBundle(s, ep)
    PROVE  /\ SentInv'
           /\ \E b \in Original : /\ sent' = Append(sent, b)
                                   /\ store' = [store EXCEPT ![s] = Stored(@, b)]
<1> DEFINE m == scenario.maxIds - 1
           uid == IF bId[s] + 1 = scenario.maxIds THEN 1 ELSE bId[s] + 1
           ts == IF now * Unit <= lastTimestamp[s] THEN lastTimestamp[s] + 1
                 ELSE now * Unit
           b == Whole(s, ts, uid, ep)
           n == Len(sent)
<1>1. /\ bId' = [bId EXCEPT ![s] = uid]
      /\ lastTimestamp' = [lastTimestamp EXCEPT ![s] = ts]
      /\ sent' = Append(sent, b)
      /\ store' = [store EXCEPT ![s] = Stored(@, b)]
      /\ scenario' = scenario /\ now' = now
  BY DEF newBundle
<1>2. /\ m \in Nat \ {0} /\ scenario.maxIds \in Nat
      /\ bId[s] \in 0..m /\ now \in Nat
  BY ScenarioLemma DEF SentInv
<1>3. uid \in 0..m /\ uid \in Nat /\ uid = IF bId[s] = m THEN 1 ELSE bId[s] + 1
  BY <1>2
<1>4. ts \in Nat
  <2>1. Unit \in Nat /\ lastTimestamp[s] \in Nat
    BY Sizes DEF SentInv
  <2>2. now * Unit \in Nat
    BY <1>2, <2>1
  <2> QED  BY <2>1, <2>2
<1> HIDE DEF uid, ts
<1>5. b \in Original /\ b.src = s /\ b.uid = uid
  <2>1. b \in Original
    BY <1>3, <1>4, OriginalLemma
  <2>2. b.src = s /\ b.uid = uid
    BY DEF Whole
  <2> QED  BY <2>1, <2>2
<1> HIDE DEF b
<1>6. sent \in Seq(Original) /\ n \in Nat
  BY LenProperties DEF SentInv
<1>7. /\ sent' \in Seq(Original) /\ Len(sent') = n + 1
      /\ \A i \in 1..n : sent'[i] = sent[i]
      /\ sent'[n + 1] = b
  BY <1>1, <1>5, <1>6, AppendLemma
<1>8. \A t : /\ \A i \in 0..n : Rank(sent', t, i) = Rank(sent, t, i)
             /\ Rank(sent', t, n + 1) = Rank(sent, t, n) + IF s = t THEN 1 ELSE 0
             /\ Rank(sent, t, n) \in Nat
  BY <1>1, <1>5, <1>6, RankAppend, RankLemma
<1>9. \A t \in Sources : Turns(Rank(sent, t, n), m, bId[t])
  BY DEF SentInv
<1>10. Turns(Rank(sent, s, n) + 1, m, uid)
  BY <1>2, <1>3, <1>8, <1>9, TurnsNext
<1>11. \A t \in Sources : Turns(Rank(sent', t, Len(sent')), m, bId'[t])
  <2> TAKE t \in Sources
  <2>0. bId \in [Sources -> 0..m]
    BY DEF SentInv
  <2>1. CASE t = s
    <3>1. bId'[t] = uid /\ Rank(sent', t, Len(sent')) = Rank(sent, s, n) + 1
      BY <1>1, <1>7, <1>8, <2>0, <2>1
    <3> QED  BY <1>10, <3>1
  <2>2. CASE t # s
    <3>1. bId'[t] = bId[t] /\ Rank(sent', t, Len(sent')) = Rank(sent, t, n)
      BY <1>1, <1>7, <1>8, <2>0, <2>2
    <3> QED  BY <1>9, <3>1
  <2> QED  BY <2>1, <2>2
<1>12. \A i \in 1..Len(sent') : Turns(Rank(sent', sent'[i].src, i), m, sent'[i].uid)
  <2> TAKE i \in 1..Len(sent')
  <2>1. CASE i = n + 1
    <3>1. sent'[i] = b /\ Rank(sent', s, i) = Rank(sent, s, n) + 1
      BY <1>7, <1>8, <2>1
    <3> QED  BY <1>5, <1>10, <3>1
  <2>2. CASE i # n + 1
    <3>1. i \in 1..n
      BY <1>6, <1>7, <2>2
    <3>2. sent'[i] = sent[i] /\ Rank(sent', sent[i].src, i) = Rank(sent, sent[i].src, i)
      BY <1>6, <1>7, <1>8, <3>1
    <3>3. Turns(Rank(sent, sent[i].src, i), m, sent[i].uid)
      BY <3>1 DEF SentInv
    <3> QED  BY <3>2, <3>3
  <2> QED  BY <2>1, <2>2
<1>13. bId' \in [Sources -> 0..m] /\ lastTimestamp' \in [Sources -> Nat]
  BY <1>1, <1>3, <1>4 DEF SentInv
<1>14. SentInv'
  BY <1>1, <1>7, <1>11, <1>12, <1>13 DEF SentInv
<1> QED  BY <1>1, <1>5, <1>14

-----------------------------------------------------------------------------
(* Registrations. *)

\* An entry that is found is in the list.
LEMMA FoundLemma ==
    ASSUME reg \in Seq(Registration), NEW ep, NEW t
    PROVE  /\ lookup(ep) # 0 => lookup(ep) \in 1..Len(reg)
           /\ ByToken(t) # 0 => ByToken(t) \in 1..Len(reg)
<1> DEFINE I == {i \in 1..Len(reg) : reg[i].endpoint = ep}
           J == {i \in 1..Len(reg) : reg[i].token = t}
<1>1. /\ lookup(ep) = IF I # {} THEN Min(I) ELSE 0
      /\ ByToken(t) = IF J # {} THEN Min(J) ELSE 0
  BY DEF lookup, ByToken, SelectInSeq
<1>2. I \in SUBSET Nat /\ J \in SUBSET Nat /\ I \subseteq 1..Len(reg) /\ J \subseteq 1..Len(reg)
  <2>1. Len(reg) \in Nat
    BY LenProperties
  <2> QED  BY <2>1
<1> HIDE DEF I, J
<1>3. (I # {} => Min(I) \in I) /\ (J # {} => Min(J) \in J)
  BY <1>2, MinLemma
<1> QED  BY <1>1, <1>2, <1>3

\* A new entry has the next token.
LEMMA AddRegLemma ==
    ASSUME scenario \in Scenarios, RegInv, NEW r \in Seq(Registration), NEW ep \in Endpoints,
           NEW f \in FailAct, addReg(r, ep, f), scenario' = scenario
    PROVE  RegInv'
<1>1. scenario.tokens \in Nat
  BY ScenarioLemma
<1>2. token \in Nat /\ token < scenario.tokens /\ token' = token + 1
  BY <1>1 DEF RegInv, addReg
<1>3. token' \in 0..scenario.tokens /\ token + 1 \in Nat
  BY <1>1, <1>2
<1>4. Act(f) \in {"UNDEF", "DEFER", "ABORT", "SINK"}
  BY DEF Act, FailAct
<1> DEFINE e == [token |-> token + 1, endpoint |-> ep, passive |-> FALSE, failAct |-> Act(f)]
<1>5. e \in Registration
  BY <1>3, <1>4 DEF Registration
<1>6. reg' = Append(r, e)
  BY DEF addReg
<1> HIDE DEF e
<1>7. reg' \in Seq(Registration)
  BY <1>5, <1>6, AppendLemma
<1> QED  BY <1>3, <1>7 DEF RegInv

\* The steps of the applications change the registrations only.
LEMMA RegisteringLemma ==
    ASSUME scenario \in Scenarios, RegInv, Registering
    PROVE  /\ RegInv'
           /\ UNCHANGED <<scenario, now, appVars, store, linkVars, destVars>>
           /\ outcome' = Nothing
<1>0. scenario.failActs \subseteq FailAct
  BY ScenarioLemma
<1>1. reg \in Seq(Registration)
  BY DEF RegInv
<1>2. ASSUME NEW ep \in Endpoints, NEW v \in AppVars, set_app(v, ep)
      PROVE  RegInv' /\ RegStep
  <2> DEFINE p == IF app[v] = <<>> THEN 0 ELSE lookup(app[v][1])
             r == IF p = 0 THEN reg ELSE [reg EXCEPT ![p].failAct = "ABORT"]
             f == IF v = "src" THEN "DEFER" ELSE "SINK"
  <2>1. addReg(r, ep, f) /\ RegStep
    BY <1>2 DEF set_app
  <2>2. p # 0 => p \in 1..Len(reg)
    BY <1>1, FoundLemma
  <2> HIDE DEF p
  <2>3. r \in Seq(Registration)
    <3>1. CASE p = 0
      BY <1>1, <3>1
    <3>2. CASE p # 0
      <4>1. reg[p] \in Registration
        BY <1>1, <2>2, <3>2, ElementOfSeq
      <4>2. [reg[p] EXCEPT !.failAct = "ABORT"] \in Registration
        BY <4>1 DEF Registration
      <4> QED  BY <1>1, <2>2, <3>2, <4>2, ExceptSeq
    <3> QED  BY <3>1, <3>2
  <2>4. f \in FailAct /\ scenario' = scenario
    BY <2>1 DEF FailAct, RegStep
  <2> HIDE DEF r, f
  <2> QED  BY <2>1, <2>3, <2>4, AddRegLemma
<1>3. ASSUME NEW ep \in Endpoints, NEW f \in scenario.failActs, register(ep, f)
      PROVE  RegInv' /\ RegStep
  <2>1. addReg(reg, ep, f) /\ RegStep /\ scenario' = scenario
    BY <1>3 DEF register, RegStep
  <2> QED  BY <1>0, <1>1, <2>1, AddRegLemma
<1>4. ASSUME NEW t \in 1..token,
             \/ deregister(t) \/ start_delivery(t) \/ stop_delivery(t)
             \/ \E f \in scenario.failActs : change_registration(t, f)
      PROVE  RegInv' /\ RegStep
  <2> DEFINE k == ByToken(t)
  <2>1. /\ k # 0 /\ token' = token /\ RegStep
        /\ \/ reg' = RemoveAt(reg, k)
           \/ \E x \in BOOLEAN : reg' = [reg EXCEPT ![k].passive = x]
           \/ \E x \in {"DEFER", "ABORT", "SINK"} : reg' = [reg EXCEPT ![k].failAct = x]
    <3>1. CASE deregister(t)
      BY <3>1 DEF deregister
    <3>2. CASE start_delivery(t)
      BY <3>2 DEF start_delivery
    <3>3. CASE stop_delivery(t)
      BY <3>3 DEF stop_delivery
    <3>4. CASE \E f \in scenario.failActs : change_registration(t, f)
      BY <1>0, <3>4 DEF change_registration, FailAct
    <3> QED  BY <1>4, <3>1, <3>2, <3>3, <3>4
  <2>2. k \in 1..Len(reg)
    BY <1>1, <2>1, FoundLemma
  <2> HIDE DEF k
  <2>3. reg[k] \in Registration
    BY <1>1, <2>2, ElementOfSeq
  <2>4. reg' \in Seq(Registration)
    <3>1. CASE reg' = RemoveAt(reg, k)
      BY <1>1, <2>2, <3>1, RemoveAtLemma
    <3>2. ASSUME NEW x \in BOOLEAN, reg' = [reg EXCEPT ![k].passive = x]
          PROVE  reg' \in Seq(Registration)
      <4>1. [reg[k] EXCEPT !.passive = x] \in Registration
        BY <2>3 DEF Registration
      <4> QED  BY <1>1, <2>2, <3>2, <4>1, ExceptSeq
    <3>3. ASSUME NEW x \in {"DEFER", "ABORT", "SINK"}, reg' = [reg EXCEPT ![k].failAct = x]
          PROVE  reg' \in Seq(Registration)
      <4>1. [reg[k] EXCEPT !.failAct = x] \in Registration
        BY <2>3 DEF Registration
      <4> QED  BY <1>1, <2>2, <3>3, <4>1, ExceptSeq
    <3> QED  BY <2>1, <3>1, <3>2, <3>3
  <2>5. token' \in 0..scenario'.tokens
    BY <2>1 DEF RegInv, RegStep
  <2> QED  BY <2>1, <2>4, <2>5 DEF RegInv
<1>5. RegInv' /\ RegStep
  BY <1>2, <1>3, <1>4 DEF Registering
<1> QED  BY <1>5 DEF RegStep

-----------------------------------------------------------------------------
(* Routes and neighbors. *)

\* A route that is found leads to the node.
LEMMA NextHopLemma ==
    ASSUME NEW S, NEW list \in Seq(S), NEW m
    PROVE  /\ getNextHop(list, m) # 0 => getNextHop(list, m) \in 1..Len(list)
           /\ (\E i \in 1..Len(list) : list[i].node = m) => getNextHop(list, m) # 0
<1> DEFINE I == {i \in 1..Len(list) : list[i].node = m}
<1>1. getNextHop(list, m) = IF I # {} THEN Min(I) ELSE 0
  BY DEF getNextHop, SelectInSeq
<1>2. I \in SUBSET Nat /\ I \subseteq 1..Len(list)
  <2>1. Len(list) \in Nat
    BY LenProperties
  <2> QED  BY <2>1
<1>3. (\E i \in 1..Len(list) : list[i].node = m) => I # {}
  OBVIOUS
<1> HIDE DEF I
<1>4. I # {} => Min(I) \in I
  BY <1>2, MinLemma
<1>5. I # {} => Min(I) \in 1..Len(list)
  BY <1>2, <1>4
<1>6. Len(list) \in Nat
  BY LenProperties
<1> QED  BY <1>1, <1>3, <1>5, <1>6

\* A route in front of the others leaves them reachable.
LEMMA AddRouteLemma ==
    ASSUME NEW S, NEW list \in Seq(S), NEW node, NEW region, NEW mtu,
           [node |-> node, region |-> region, mtu |-> mtu] \in S
    PROVE  /\ addRoute(list, node, region, mtu) \in Seq(S)
           /\ ToSet(addRoute(list, node, region, mtu))
                 = {[node |-> node, region |-> region, mtu |-> mtu]} \cup ToSet(list)
<1> DEFINE e == [node |-> node, region |-> region, mtu |-> mtu]
<1>1. <<e>> \in Seq(S) /\ ToSet(<<e>>) = {e}
  <2> HIDE DEF e
  <2>1. e \in S
    BY DEF e
  <2>2. <<e>> \in Seq(S) /\ Len(<<e>>) = 1 /\ <<e>>[1] = e
    BY <2>1
  <2>3. DOMAIN <<e>> = {1}
    OBVIOUS
  <2> QED  BY <2>2, <2>3 DEF ToSet
<1> DEFINE one == <<e>>
<1>2. addRoute(list, node, region, mtu) = one \o list
  BY DEF addRoute
<1>3. one \in Seq(S) /\ ToSet(one) = {e}
  BY <1>1
<1> HIDE DEF e, one
<1>4. one \o list \in Seq(S) /\ ToSet(one \o list) = {e} \cup ToSet(list)
  BY <1>3, ConcatLemma
<1> QED  BY <1>2, <1>4 DEF e

\* Longer lists of routes keep every neighbor routed.
LEMMA RoutedLemma ==
    ASSUME LinkInv, routes' \in [Holders -> Seq({r \in Route : r.mtu > HeadSize + FragSize})],
           \A n \in Holders : ToSet(routes[n]) \subseteq ToSet(routes'[n]),
           NEW n \in Holders, NEW m \in neighbors[n]
    PROVE  \E i \in 1..Len(routes'[n]) : routes'[n][i].node = m
<1>1. PICK i \in 1..Len(routes[n]) : routes[n][i].node = m
  BY DEF LinkInv
<1>2. routes[n] \in Seq({r \in Route : r.mtu > HeadSize + FragSize})
  BY DEF LinkInv
<1>3. routes[n][i] \in ToSet(routes[n])
  BY <1>2, ToSetLemma
<1>4. routes[n][i] \in ToSet(routes'[n])
  BY <1>3
<1>5. routes'[n] \in Seq({r \in Route : r.mtu > HeadSize + FragSize})
  OBVIOUS
<1>6. \E j \in 1..Len(routes'[n]) : routes[n][i] = routes'[n][j]
  BY <1>4, <1>5, ToSetLemma
<1> QED  BY <1>1, <1>6

\* Hellos, silences and routes of the script keep every neighbor routed.
LEMMA LinkStep ==
    ASSUME scenario \in Scenarios, LinkInv,
           \/ \E a \in scenario.adds : add(a[1], a[2])
           \/ \E l \in scenario.links :
                recvHello(l[1], l[2]) \/ check_neighbors(l[1], l[2])
    PROVE  /\ LinkInv'
           /\ UNCHANGED <<scenario, now, appVars, store, regVars, destVars>>
           /\ outcome' = Nothing
<1> DEFINE Fit == {r \in Route : r.mtu > HeadSize + FragSize}
<1>0. /\ neighbors \in [Holders -> SUBSET Nodes] /\ routes \in [Holders -> Seq(Fit)]
      /\ \A n \in Holders : \A m \in neighbors[n] :
            \E i \in 1..Len(routes[n]) : routes[n][i].node = m
  BY DEF LinkInv
<1>1. ASSUME NEW a \in scenario.adds, add(a[1], a[2])
      PROVE  LinkInv' /\ UNCHANGED <<scenario, now, appVars, store, regVars, destVars>>
             /\ outcome' = Nothing
  <2> DEFINE n == a[1]
             e == a[2]
             list == addRoute(routes[n], e.node, e.region, e.mtu)
  <2>1. n \in Holders /\ e \in Route /\ e \in Fit
    BY ScenarioLemma
  <2>2. e = [node |-> e.node, region |-> e.region, mtu |-> e.mtu]
    BY <2>1 DEF Route
  <2>3. /\ routes' = [routes EXCEPT ![n] = list] /\ neighbors' = neighbors
        /\ UNCHANGED <<scenario, now, appVars, store, regVars, destVars>>
        /\ outcome' = Nothing
    BY <1>1 DEF add
  <2> HIDE DEF e, n, Fit
  <2>4. list \in Seq(Fit) /\ ToSet(routes[n]) \subseteq ToSet(list)
    BY <1>0, <2>1, <2>2, AddRouteLemma
  <2> HIDE DEF list
  <2>5. routes' \in [Holders -> Seq(Fit)]
    BY <1>0, <2>1, <2>3, <2>4
  <2>6. \A m \in Holders : ToSet(routes[m]) \subseteq ToSet(routes'[m])
    BY <1>0, <2>1, <2>3, <2>4
  <2>7. \A k \in Holders : \A m \in neighbors[k] :
           \E i \in 1..Len(routes'[k]) : routes'[k][i].node = m
    BY <2>5, <2>6, RoutedLemma DEF Fit
  <2> QED  BY <1>0, <2>3, <2>5, <2>7 DEF LinkInv, Fit
<1>2. ASSUME NEW l \in scenario.links, recvHello(l[1], l[2])
      PROVE  LinkInv' /\ UNCHANGED <<scenario, now, appVars, store, regVars, destVars>>
             /\ outcome' = Nothing
  <2> DEFINE n == l[1]
             m == l[2]
             list == IF is_there(routes[n], m, Home) THEN routes[n]
                     ELSE addRoute(routes[n], m, Home, HelloMtu)
             e == [node |-> m, region |-> Home, mtu |-> HelloMtu]
  <2>1. n \in Holders /\ m \in Nodes
    BY ScenarioLemma
  <2>2. e \in Fit /\ e.node = m
    <3>1. HelloMtu \in Nat /\ HelloMtu > HeadSize + FragSize /\ Home \in Regions
      BY Sizes, DeliveryAssumption
    <3> QED  BY <2>1, <3>1 DEF Route
  <2>3. /\ routes' = [routes EXCEPT ![n] = list]
        /\ neighbors' = [neighbors EXCEPT ![n] = @ \cup {m}]
        /\ UNCHANGED <<scenario, now, appVars, store, regVars, destVars>>
        /\ outcome' = Nothing
    BY <1>2 DEF recvHello
  <2> HIDE DEF n, m, Fit
  <2>4. /\ list \in Seq(Fit) /\ ToSet(routes[n]) \subseteq ToSet(list)
        /\ \E r \in ToSet(list) : r.node = m
    <3>1. CASE is_there(routes[n], m, Home)
      <4>1. list = routes[n]
        BY <3>1
      <4>2. \E r \in ToSet(routes[n]) : r.node = m
        BY <3>1 DEF is_there, ToSet
      <4> QED  BY <1>0, <2>1, <4>1, <4>2
    <3>2. CASE ~is_there(routes[n], m, Home)
      <4>1. list = addRoute(routes[n], m, Home, HelloMtu)
        BY <3>2
      <4>2. list \in Seq(Fit) /\ ToSet(list) = {e} \cup ToSet(routes[n])
        BY <1>0, <2>1, <2>2, <4>1, AddRouteLemma
      <4> QED  BY <2>2, <4>2
    <3> QED  BY <3>1, <3>2
  <2> HIDE DEF list, e
  <2>5. routes' \in [Holders -> Seq(Fit)] /\ routes'[n] = list
    BY <1>0, <2>1, <2>3, <2>4
  <2>6. \A k \in Holders : ToSet(routes[k]) \subseteq ToSet(routes'[k])
    BY <1>0, <2>1, <2>3, <2>4
  <2>7. neighbors' \in [Holders -> SUBSET Nodes]
    BY <1>0, <2>1, <2>3
  <2>8. \A k \in Holders : \A x \in neighbors'[k] :
           \E i \in 1..Len(routes'[k]) : routes'[k][i].node = x
    <3> TAKE k \in Holders
    <3> TAKE x \in neighbors'[k]
    <3>1. CASE x \in neighbors[k]
      BY <2>5, <2>6, <3>1, RoutedLemma DEF Fit
    <3>2. CASE x \notin neighbors[k]
      <4>1. k = n /\ x = m
        BY <1>0, <2>1, <2>3, <3>2
      <4> QED  BY <2>4, <2>5, <4>1, ToSetLemma
    <3> QED  BY <3>1, <3>2
  <2> QED  BY <2>3, <2>5, <2>7, <2>8 DEF LinkInv, Fit
<1>3. ASSUME NEW l \in scenario.links, check_neighbors(l[1], l[2])
      PROVE  LinkInv' /\ UNCHANGED <<scenario, now, appVars, store, regVars, destVars>>
             /\ outcome' = Nothing
  <2>1. l[1] \in Holders
    BY ScenarioLemma
  <2>2. /\ neighbors' = [neighbors EXCEPT ![l[1]] = @ \ {l[2]}] /\ routes' = routes
        /\ UNCHANGED <<scenario, now, appVars, store, regVars, destVars>>
        /\ outcome' = Nothing
    BY <1>3 DEF check_neighbors
  <2>3. neighbors' \in [Holders -> SUBSET Nodes]
        /\ \A n \in Holders : neighbors'[n] \subseteq neighbors[n]
    BY <1>0, <2>1, <2>2
  <2> QED  BY <1>0, <2>2, <2>3 DEF LinkInv, Fit
<1> QED  BY <1>1, <1>2, <1>3

-----------------------------------------------------------------------------
(* Buffers. *)

\* Storing a copy, and replacing one by another with its id.
LEMMA StoredLemma ==
    ASSUME NEW C, NEW X \in SUBSET C, NEW c \in C, OneOfAnId(X)
    PROVE  /\ Stored(X, c) \in SUBSET C /\ OneOfAnId(Stored(X, c))
           /\ \A b \in X : Id(c) = Id(b) =>
                (X \ {b}) \cup {c} \in SUBSET C /\ OneOfAnId((X \ {b}) \cup {c})
BY DEF Stored, OneOfAnId

\* A new bundle is stored; the copies of the others are still copies.
LEMMA NewBundleStored ==
    ASSUME SentInv, StoreInv, NEW s \in Sources, NEW ep \in Endpoints, newBundle(s, ep)
    PROVE  StoreInv' /\ ToSet(sent) \subseteq ToSet(sent')
<1>1. PICK b \in Original : /\ sent' = Append(sent, b)
                            /\ store' = [store EXCEPT ![s] = Stored(@, b)]
  BY NewBundleLemma
<1>2. ToSet(sent') = ToSet(sent) \cup {b}
  BY <1>1, AppendLemma DEF SentInv
<1> DEFINE C == CopyOf(ToSet(sent'))
<1>3. CopyOf(ToSet(sent)) \subseteq C /\ b \in C
  <2>1. ToSet(sent') \subseteq C
    BY DEF CopyOf
  <2> QED  BY <1>2, <2>1, CopyMonotonic
<1> HIDE DEF C
<1>4. s \in Holders /\ \A n \in Holders : store[n] \in SUBSET C /\ OneOfAnId(store[n])
  BY <1>3 DEF StoreInv, Holders
<1>5. Stored(store[s], b) \in SUBSET C /\ OneOfAnId(Stored(store[s], b))
  BY <1>3, <1>4, StoredLemma
<1>6. \A n \in Holders : store'[n] = IF n = s THEN Stored(store[s], b) ELSE store[n]
  BY <1>1, <1>4 DEF StoreInv
<1>7. store' \in [Holders -> SUBSET C]
  BY <1>1, <1>4, <1>5 DEF StoreInv
<1>8. \A n \in Holders : OneOfAnId(store'[n])
  BY <1>4, <1>5, <1>6
<1> QED  BY <1>2, <1>7, <1>8 DEF StoreInv, C

\* A copy that is sent is fitted to the link and put in its own place; where it
\* arrives it is a copy of the same bundle.
LEMMA SendLemma ==
    ASSUME SentInv, StoreInv, LinkInv, NEW l \in scenario.links, NEW b \in store[l[1]],
           send_bundle(l[1], l[2], b)
    PROVE  /\ StoreInv' /\ UNCHANGED <<scenario, now, appVars, linkVars, regVars>>
           /\ \/ \E c \in CopyOf(ToSet(sent)) : localDelivery(c)
              \/ outcome' = Nothing /\ UNCHANGED destVars
<1> DEFINE n == l[1]
           m == l[2]
           S == ToSet(sent)
           C == CopyOf(S)
           h == getNextHop(routes[n], m)
           c == Fitted(b, routes[n][h].mtu)
           R == (store[n] \ {b}) \cup {c}
<1>0. n \in Holders /\ m \in Nodes
  BY ScenarioLemma DEF SentInv
<1>1. S \in SUBSET Original
  BY ToSetLemma DEF SentInv
<1>2. /\ UNCHANGED <<scenario, now, appVars, linkVars, regVars>> /\ h # 0
      /\ \/ m = Dest /\ store' = Resized(n, b, c) /\ localDelivery(c)
         \/ /\ m # Dest /\ store' = [Resized(n, b, c) EXCEPT ![m] = Stored(@, c)]
            /\ outcome' = Nothing /\ UNCHANGED destVars
         \/ store' = Resized(n, b, c) /\ outcome' = Nothing /\ UNCHANGED destVars
  BY DEF send_bundle
<1>3. c \in C /\ Id(c) = Id(b)
  <2>1. routes[n] \in Seq({r \in Route : r.mtu > HeadSize + FragSize})
    BY <1>0 DEF LinkInv
  <2>2. h \in 1..Len(routes[n])
    BY <1>2, <2>1, NextHopLemma
  <2> HIDE DEF h
  <2>3. routes[n][h] \in Route /\ routes[n][h].mtu > HeadSize + FragSize
    BY <2>1, <2>2, ElementOfSeq
  <2>4. routes[n][h].mtu \in Nat
    BY <2>3 DEF Route
  <2>5. b \in C
    BY <1>0 DEF StoreInv
  <2> QED  BY <1>1, <2>3, <2>4, <2>5, FittedLemma
<1> HIDE DEF c, C, n, m
<1>4. store \in [Holders -> SUBSET C] /\ \A k \in Holders : OneOfAnId(store[k])
  BY DEF StoreInv, C
<1>5. R \in SUBSET C /\ OneOfAnId(R)
  <2>1. b \in store[n]
    BY DEF n
  <2>2. store[n] \in SUBSET C /\ OneOfAnId(store[n])
    BY <1>0, <1>4
  <2> QED  BY <1>3, <2>1, <2>2, StoredLemma
<1> HIDE DEF R
<1>6. /\ Resized(n, b, c) \in [Holders -> SUBSET C]
      /\ \A k \in Holders : OneOfAnId(Resized(n, b, c)[k])
  <2>1. Resized(n, b, c) = [store EXCEPT ![n] = R]
    BY DEF Resized, R
  <2> QED  BY <1>0, <1>4, <1>5, <2>1
<1> DEFINE st == Resized(n, b, c)
<1>7. m # Dest => /\ [st EXCEPT ![m] = Stored(@, c)] \in [Holders -> SUBSET C]
                  /\ \A k \in Holders : OneOfAnId([st EXCEPT ![m] = Stored(@, c)][k])
  <2> HAVE m # Dest
  <2>1. m \in Holders
    BY <1>0 DEF Nodes
  <2> HIDE DEF st
  <2>2. st \in [Holders -> SUBSET C] /\ \A k \in Holders : OneOfAnId(st[k])
    BY <1>6 DEF st
  <2>3. Stored(st[m], c) \in SUBSET C /\ OneOfAnId(Stored(st[m], c))
    BY <1>3, <2>1, <2>2, StoredLemma
  <2> QED  BY <2>1, <2>2, <2>3
<1>8. store' \in [Holders -> SUBSET C] /\ \A k \in Holders : OneOfAnId(store'[k])
  BY <1>2, <1>6, <1>7
<1>9. sent' = sent
  BY <1>2 DEF appVars
<1>10. StoreInv'
  BY <1>8, <1>9 DEF StoreInv, C
<1> QED  BY <1>2, <1>3, <1>10 DEF C

\* A copy that leaves leaves the others.
LEMMA ForgetLemma ==
    ASSUME StoreInv, NEW n \in Holders, NEW b \in store[n], forget(n, b)
    PROVE  StoreInv'
<1> DEFINE C == CopyOf(ToSet(sent))
<1>1. store' = [store EXCEPT ![n] = @ \ {b}] /\ sent' = sent
  BY DEF forget, appVars
<1> HIDE DEF C
<1>2. store \in [Holders -> SUBSET C] /\ \A k \in Holders : OneOfAnId(store[k])
  BY DEF StoreInv, C
<1>3. store' \in [Holders -> SUBSET C] /\ \A k \in Holders : store'[k] \subseteq store[k]
  BY <1>1, <1>2
<1>4. \A k \in Holders : OneOfAnId(store'[k])
  BY <1>2, <1>3 DEF OneOfAnId
<1> QED  BY <1>1, <1>3, <1>4 DEF StoreInv, C

-----------------------------------------------------------------------------
(* The destination. *)

Kept == ExpTime * KeepFactor

\* What is deleted as a duplicate has the id of a bundle accepted not long ago.
DuplicateFound ==
    outcome.result = "duplicate" =>
        /\ outcome.bundle \in ToSet(sent)
        /\ \E a \in ToSet(accepted) :
            Id(a.bundle) = Id(outcome.bundle) /\ now - a.at <= Kept

\* The entry of a bundle is as old as its acceptance.
LEMMA OldLemma ==
    ASSUME now \in Nat, NEW e \in Entry, e.stamp <= now
    PROVE  Old(e) <=> now - Origin(e) > Kept
<1>1. Lifespan(e) = now - Origin(e)
  BY AgedLemma
<1> QED  BY <1>1 DEF Old, Kept

\* A walk keeps the list of ids true, whatever it drops.
LEMMA WalkKeeps ==
    ASSUME now \in Nat, BidsInv, NEW id
    PROVE  /\ Walked(bids, id) \in Seq(Entry)
           /\ \A w \in ToSet(Walked(bids, id)) : w.stamp <= now
           /\ \A a \in ToSet(accepted) : now - a.at <= Kept =>
                \E w \in ToSet(Walked(bids, id)) : w.id = Id(a.bundle) /\ Origin(w) = a.at
           /\ \A w \in ToSet(Walked(bids, id)) :
                \E a \in ToSet(accepted) : w.id = Id(a.bundle) /\ Origin(w) = a.at
<1> DEFINE W == ToSet(Walked(bids, id))
<1>1. /\ bids \in Seq(Entry) /\ \A e \in ToSet(bids) : e.stamp <= now
      /\ \A a \in ToSet(accepted) : now - a.at <= Kept =>
            \E e \in ToSet(bids) : e.id = Id(a.bundle) /\ Origin(e) = a.at
      /\ \A e \in ToSet(bids) :
            \E a \in ToSet(accepted) : e.id = Id(a.bundle) /\ Origin(e) = a.at
  BY DEF BidsInv, Kept
<1>2. /\ Walked(bids, id) \in Seq(Entry)
      /\ \A w \in W : /\ w.stamp <= now
                      /\ \E e \in ToSet(bids) : w.id = e.id /\ Origin(w) = Origin(e)
      /\ \A e \in ToSet(bids) : Old(e) \/
            \E w \in W : w.id = e.id /\ Origin(w) = Origin(e)
  BY <1>1, WalkedLemma
<1> HIDE DEF W
<1>3. \A a \in ToSet(accepted) : now - a.at <= Kept =>
         \E w \in W : w.id = Id(a.bundle) /\ Origin(w) = a.at
  <2> SUFFICES ASSUME NEW a \in ToSet(accepted), now - a.at <= Kept
               PROVE  \E w \in W : w.id = Id(a.bundle) /\ Origin(w) = a.at
    OBVIOUS
  <2>1. PICK e \in ToSet(bids) : e.id = Id(a.bundle) /\ Origin(e) = a.at
    BY <1>1
  <2>2. e \in Entry /\ e.stamp <= now
    BY <1>1, ToSetLemma
  <2>3. Kept \in Nat /\ Origin(e) \in Int
    <3>1. Kept \in Nat
      BY Sizes DEF Kept
    <3>2. e.stamp \in Nat /\ e.lifespan \in Nat
      BY <2>2 DEF Entry
    <3> QED  BY <3>1, <3>2 DEF Origin
  <2>4. ~Old(e)
    BY <2>1, <2>2, <2>3, OldLemma
  <2> QED  BY <1>2, <2>1, <2>4
<1>4. \A w \in W : \E a \in ToSet(accepted) : w.id = Id(a.bundle) /\ Origin(w) = a.at
  BY <1>1, <1>2
<1> QED  BY <1>2, <1>3, <1>4 DEF W

\* An id is found to be a duplicate exactly if a bundle with it was accepted
\* within the time it is to be remembered.
LEMMA DuplicateLemma ==
    ASSUME now \in Nat, BidsInv, NEW id
    PROVE  Duplicate(bids, id) <=>
              \E a \in ToSet(accepted) : Id(a.bundle) = id /\ now - a.at <= Kept
<1>1. /\ bids \in Seq(Entry) /\ \A e \in ToSet(bids) : e.stamp <= now
      /\ \A a \in ToSet(accepted) : now - a.at <= Kept =>
            \E e \in ToSet(bids) : e.id = Id(a.bundle) /\ Origin(e) = a.at
      /\ \A e \in ToSet(bids) :
            \E a \in ToSet(accepted) : e.id = Id(a.bundle) /\ Origin(e) = a.at
  BY DEF BidsInv, Kept
<1>2. Kept \in Nat /\ \A e \in ToSet(bids) :
         Origin(e) \in Int /\ (Old(e) <=> now - Origin(e) > Kept)
  <2>1. Kept \in Nat
    BY Sizes DEF Kept
  <2>2. \A e \in ToSet(bids) : e \in Entry /\ e.stamp \in Nat /\ e.lifespan \in Nat
    <3>1. \A e \in ToSet(bids) : e \in Entry
      BY <1>1, ToSetLemma
    <3> QED  BY <3>1 DEF Entry
  <2> QED  BY <1>1, <2>1, <2>2, OldLemma DEF Origin
<1>3. Duplicate(bids, id) <=> \E e \in ToSet(bids) : e.id = id /\ ~Old(e)
  BY DEF Duplicate, ToSet
<1>4. ASSUME NEW e \in ToSet(bids), e.id = id, ~Old(e)
      PROVE  \E a \in ToSet(accepted) : Id(a.bundle) = id /\ now - a.at <= Kept
  <2>1. PICK a \in ToSet(accepted) : e.id = Id(a.bundle) /\ Origin(e) = a.at
    BY <1>1
  <2>2. now - a.at <= Kept
    BY <1>2, <1>4, <2>1
  <2> QED  BY <1>4, <2>1, <2>2
<1>5. ASSUME NEW a \in ToSet(accepted), Id(a.bundle) = id, now - a.at <= Kept
      PROVE  \E e \in ToSet(bids) : e.id = id /\ ~Old(e)
  <2>1. PICK e \in ToSet(bids) : e.id = Id(a.bundle) /\ Origin(e) = a.at
    BY <1>1, <1>5
  <2>2. ~Old(e)
    BY <1>2, <1>5, <2>1
  <2> QED  BY <1>5, <2>1, <2>2
<1> QED  BY <1>3, <1>4, <1>5

\* Accepting a bundle.
LEMMA AcceptLemma ==
    ASSUME SentInv, DestInv, BidsInv, NEW b \in ToSet(sent), ~Duplicate(bids, Id(b)),
           sent' = sent, now' = now,
           bids' = Append(Walked(bids, Id(b)), [id |-> Id(b), lifespan |-> 0, stamp |-> now]),
           accepted' = Append(accepted, [bundle |-> b, at |-> now])
    PROVE  /\ accepted' \in Seq([bundle : ToSet(sent), at : 0..now]) /\ BidsInv'
<1> DEFINE S == ToSet(sent)
           A == [bundle : S, at : 0..now]
           new == [bundle |-> b, at |-> now]
           entry == [id |-> Id(b), lifespan |-> 0, stamp |-> now]
           W == Walked(bids, Id(b))
           n == Len(accepted)
<1>0. now \in Nat /\ Kept \in Nat
  <2>1. scenario.time \in Nat
    BY ScenarioLemma DEF SentInv
  <2> QED  BY <2>1, Sizes DEF SentInv, Kept
<1>1. new \in A /\ new.bundle = b /\ new.at = now
  BY <1>0
<1>2. entry \in Entry /\ entry.id = Id(b) /\ Origin(entry) = now /\ entry.stamp <= now
  <2>1. S \in SUBSET Original /\ b \in CopyOf(S)
    BY ToSetLemma DEF SentInv, CopyOf
  <2>2. b.src \in Sources /\ b.uid \in Nat
    BY <2>1, CopyLemma
  <2>3. Id(b) \in Sources \X Nat
    BY <2>2 DEF Id
  <2> QED  BY <1>0, <2>3 DEF Entry, Origin
<1>3. accepted \in Seq(A)
  BY DEF DestInv
<1> HIDE DEF A, new, entry, S
<1>4. /\ W \in Seq(Entry)
      /\ \A w \in ToSet(W) : w.stamp <= now
      /\ \A a \in ToSet(accepted) : now - a.at <= Kept =>
            \E w \in ToSet(W) : w.id = Id(a.bundle) /\ Origin(w) = a.at
      /\ \A w \in ToSet(W) :
            \E a \in ToSet(accepted) : w.id = Id(a.bundle) /\ Origin(w) = a.at
  BY <1>0, WalkKeeps
<1> HIDE DEF W
<1>5. bids' \in Seq(Entry) /\ ToSet(bids') = ToSet(W) \cup {entry}
  BY <1>2, <1>4, AppendLemma DEF W, entry
<1>6. /\ accepted' \in Seq(A) /\ ToSet(accepted') = ToSet(accepted) \cup {new}
      /\ Len(accepted') = n + 1 /\ n \in Nat
      /\ \A i \in 1..n : accepted'[i] = accepted[i]
      /\ accepted'[n + 1] = new
  BY <1>1, <1>3, AppendLemma, LenProperties DEF new, n
<1>7. \A e \in ToSet(bids') : e.stamp <= now'
  BY <1>2, <1>4, <1>5
<1>8. \A a \in ToSet(accepted') : now' - a.at <= Kept =>
         \E e \in ToSet(bids') : e.id = Id(a.bundle) /\ Origin(e) = a.at
  BY <1>1, <1>2, <1>4, <1>5, <1>6
<1>9. \A e \in ToSet(bids') :
         \E a \in ToSet(accepted') : e.id = Id(a.bundle) /\ Origin(e) = a.at
  BY <1>1, <1>2, <1>4, <1>5, <1>6
<1> HIDE DEF n
<1>10. AcceptedApart'
  <2> SUFFICES ASSUME NEW i \in 1..(n + 1), NEW j \in 1..(n + 1), i < j,
                      Id(accepted'[i].bundle) = Id(accepted'[j].bundle)
               PROVE  accepted'[j].at - accepted'[i].at > Kept
    <3>1. DOMAIN accepted' = 1..(n + 1)
      BY <1>6, LenProperties
    <3> QED  BY <3>1 DEF AcceptedApart, Kept
  <2>1. i \in 1..n /\ accepted'[i] = accepted[i] /\ accepted[i] \in ToSet(accepted)
    <3>1. i \in 1..n
      BY <1>6
    <3> QED  BY <1>3, <1>6, <3>1, ToSetLemma DEF n
  <2>2. CASE j \in 1..n
    <3>1. accepted'[j] = accepted[j] /\ DOMAIN accepted = 1..n
      BY <1>3, <1>6, <2>2, LenProperties DEF n
    <3> QED  BY <2>1, <2>2, <3>1 DEF BidsInv, AcceptedApart, Kept
  <2>3. CASE j \notin 1..n
    <3>1. j = n + 1
      BY <1>6, <2>3
    <3>2. Id(accepted[i].bundle) = Id(b) /\ accepted'[j].at = now
      BY <1>1, <1>6, <2>1, <3>1
    <3>3. ~(now - accepted[i].at <= Kept)
      BY <1>0, <2>1, <3>2, DuplicateLemma
    <3>4. accepted[i].at \in Nat
      <4>1. accepted[i] \in A
        BY <1>3, <2>1, ElementOfSeq DEF n
      <4>2. accepted[i].at \in 0..now
        BY <4>1 DEF A
      <4> QED  BY <1>0, <4>2
    <3>5. now - accepted[i].at > Kept
      BY <1>0, <3>3, <3>4
    <3> QED  BY <2>1, <3>2, <3>5
  <2> QED  BY <2>2, <2>3
<1> QED  BY <1>5, <1>6, <1>7, <1>8, <1>9, <1>10 DEF BidsInv, A, S, Kept

\* The rest of localDelivery.
LEMMA DeliverLemma ==
    ASSUME SentInv, DestInv, BidsInv, NEW b \in ToSet(sent), Deliver(b),
           sent' = sent, now' = now, frags' \in Seq(Group(ToSet(sent)))
    PROVE  DestInv' /\ BidsInv' /\ DuplicateFound'
<1> DEFINE S == ToSet(sent)
           p == lookup(b.ep)
           entry == [id |-> Id(b), lifespan |-> 0, stamp |-> now]
<1>0. now \in Nat
  <2>1. scenario.time \in Nat
    BY ScenarioLemma DEF SentInv
  <2> QED  BY <2>1 DEF SentInv
<1>1. /\ local \in Seq(S) /\ inbox \subseteq S
      /\ accepted \in Seq([bundle : S, at : 0..now])
  BY DEF DestInv
<1>2. CASE /\ outcome' = [result |-> "unregistered", bundle |-> b]
           /\ UNCHANGED <<bids, local, inbox, accepted>>
  <2>1. DestInv'
    BY <1>1, <1>2 DEF DestInv
  <2>2. BidsInv'
    BY <1>2 DEF BidsInv, AcceptedApart
  <2>3. DuplicateFound'
    BY <1>2 DEF DuplicateFound
  <2> QED  BY <2>1, <2>2, <2>3
<1>3. CASE /\ Duplicate(bids, Id(b)) /\ bids' = Walked(bids, Id(b))
           /\ outcome' = [result |-> "duplicate", bundle |-> b]
           /\ UNCHANGED <<local, inbox, accepted>>
  <2>1. DestInv'
    BY <1>1, <1>3 DEF DestInv
  <2>2. /\ bids' \in Seq(Entry) /\ \A w \in ToSet(bids') : w.stamp <= now'
        /\ \A a \in ToSet(accepted') : now' - a.at <= ExpTime * KeepFactor =>
             \E w \in ToSet(bids') : w.id = Id(a.bundle) /\ Origin(w) = a.at
        /\ \A w \in ToSet(bids') :
             \E a \in ToSet(accepted') : w.id = Id(a.bundle) /\ Origin(w) = a.at
    BY <1>0, <1>3, WalkKeeps DEF Kept
  <2>3. AcceptedApart'
    BY <1>3 DEF BidsInv, AcceptedApart
  <2>4. BidsInv'
    BY <2>2, <2>3 DEF BidsInv
  <2>5. \E a \in ToSet(accepted) : Id(a.bundle) = Id(b) /\ now - a.at <= Kept
    BY <1>0, <1>3, DuplicateLemma
  <2>6. DuplicateFound'
    BY <1>3, <2>5 DEF DuplicateFound, Kept
  <2> QED  BY <2>1, <2>4, <2>6
<1>4. CASE /\ ~Duplicate(bids, Id(b)) /\ bids' = Append(Walked(bids, Id(b)), entry)
           /\ accepted' = Append(accepted, [bundle |-> b, at |-> now])
           /\ outcome' = [result |-> "accepted", bundle |-> b]
           /\ local' \in {local, Append(local, b)} /\ inbox' \in {inbox, inbox \cup {b}}
  <2>1. accepted' \in Seq([bundle : S, at : 0..now]) /\ BidsInv'
    BY <1>4, AcceptLemma
  <2>2. local' \in Seq(S) /\ inbox' \subseteq S
    <3>1. Append(local, b) \in Seq(S)
      BY <1>1, AppendLemma
    <3>2. local' = local \/ local' = Append(local, b)
      BY <1>4
    <3>3. inbox' \subseteq S
      BY <1>1, <1>4
    <3> QED  BY <1>1, <3>1, <3>2, <3>3
  <2>3. DestInv'
    BY <2>1, <2>2 DEF DestInv
  <2>4. DuplicateFound'
    BY <1>4 DEF DuplicateFound
  <2> QED  BY <2>1, <2>3, <2>4
<1> QED  BY <1>2, <1>3, <1>4 DEF Deliver

\* A copy that arrives waits as a fragment or goes through localDelivery whole.
LEMMA ArrivalLemma ==
    ASSUME SentInv, DestInv, BidsInv, NEW c \in CopyOf(ToSet(sent)), localDelivery(c),
           sent' = sent, now' = now
    PROVE  DestInv' /\ BidsInv' /\ DuplicateFound'
<1> DEFINE S == ToSet(sent)
<1>0. S \in SUBSET Original /\ frags \in Seq(Group(S))
  BY ToSetLemma DEF SentInv, DestInv
<1>1. CASE c.frag
  <2>1. c \in Fragment(S)
    BY <1>1 DEF Fragment
  <2>2. Waiting(frags, c) \in Seq(Group(S)) /\ defragment(frags, c) = {}
    BY <1>0, <2>1, WaitingLemma
  <2>3. /\ frags' = Waiting(frags, c)
        /\ outcome' = [result |-> "fragment", bundle |-> c]
        /\ UNCHANGED <<bids, local, inbox, accepted>>
    BY <1>1, <2>2 DEF localDelivery
  <2>4. DestInv'
    BY <2>2, <2>3 DEF DestInv
  <2>5. BidsInv'
    BY <2>3 DEF BidsInv, AcceptedApart
  <2>6. DuplicateFound'
    BY <2>3 DEF DuplicateFound
  <2> QED  BY <2>4, <2>5, <2>6
<1>2. CASE ~c.frag
  <2>1. c \in S
    BY <1>0, <1>2, CopyLemma
  <2>2. frags' = Unexpired(frags) /\ Deliver(c)
    BY <1>2 DEF localDelivery
  <2>3. frags' \in Seq(Group(S))
    BY <1>0, <2>2, UnexpiredLemma
  <2> QED  BY <2>1, <2>2, <2>3, DeliverLemma
<1> QED  BY <1>1, <1>2

\* A step that leaves the destination alone: more may be sent, and time passes.
LEMMA DestUnchanged ==
    ASSUME SentInv, SentInv', DestInv, BidsInv, UNCHANGED destVars, now <= now',
           ToSet(sent) \subseteq ToSet(sent')
    PROVE  DestInv' /\ BidsInv'
<1>0. now \in Nat /\ now' \in Nat
  <2>1. scenario.time \in Nat
    BY ScenarioLemma DEF SentInv
  <2>2. scenario'.time \in Nat
    BY DeliveryAssumption DEF SentInv
  <2> QED  BY <2>1, <2>2 DEF SentInv
<1> DEFINE S == ToSet(sent)
           T == ToSet(sent')
<1>1. Group(S) \subseteq Group(T)
  <2>1. Fragment(S) \subseteq Fragment(T)
    BY CopyMonotonic
  <2>2. \A g \in Seq(Fragment(S)) : g \in Seq(Fragment(T))
    BY <2>1, SeqOfElements, ElementOfSeq
  <2> QED  BY <2>2 DEF Group
<1>2. frags \in Seq(Group(T))
  BY <1>1, SeqOfElements, ElementOfSeq DEF DestInv
<1>3. local \in Seq(T) /\ inbox \subseteq T
  BY SeqOfElements, ElementOfSeq DEF DestInv
<1>4. accepted \in Seq([bundle : T, at : 0..now'])
  <2>1. \A a \in [bundle : S, at : 0..now] : a \in [bundle : T, at : 0..now']
    BY <1>0
  <2> QED  BY <2>1, SeqOfElements, ElementOfSeq DEF DestInv
<1>5. DestInv'
  BY <1>2, <1>3, <1>4 DEF DestInv, destVars
<1>6. \A a \in ToSet(accepted) : a.at \in Int
  <2>1. \A a \in ToSet(accepted) : a \in [bundle : S, at : 0..now]
    BY ToSetLemma DEF DestInv
  <2> QED  BY <1>0, <2>1
<1>7. \A e \in ToSet(bids) : e.stamp \in Nat /\ e.stamp <= now'
  <2>1. \A e \in ToSet(bids) : e \in Entry /\ e.stamp <= now
    BY ToSetLemma DEF BidsInv
  <2>2. \A e \in ToSet(bids) : e.stamp \in Nat
    BY <2>1 DEF Entry
  <2> QED  BY <1>0, <2>1, <2>2
<1>8. Kept \in Nat
  BY Sizes DEF Kept
<1>9. \A a \in ToSet(accepted) : now' - a.at <= Kept => now - a.at <= Kept
  BY <1>0, <1>6, <1>8
<1>10. UNCHANGED <<bids, accepted>>
  BY DEF destVars
<1>11. BidsInv'
  BY <1>7, <1>9, <1>10 DEF BidsInv, AcceptedApart, Kept
<1> QED  BY <1>5, <1>11

-----------------------------------------------------------------------------
(* The theorems. *)

\* The invariant holds at the start.
LEMMA DeliveryInit == Init => DeliveryInv /\ DuplicateFound
<1> SUFFICES ASSUME Init PROVE DeliveryInv /\ DuplicateFound
  OBVIOUS
<1>0. scenario \in Scenarios /\ now = 0 /\ sent = <<>>
  BY DEF Init
<1>1. /\ scenario.time \in Nat /\ scenario.tokens \in Nat
      /\ scenario.maxIds \in Nat /\ scenario.maxIds > 1
  BY <1>0, ScenarioLemma
<1>2. ToSet(<<>>) = {}
  BY DEF ToSet
<1>3. \A s : Rank(sent, s, 0) = 0
  <2>1. \A s : SentBy(sent, s, 0) = {}
    BY DEF SentBy
  <2> QED  BY <2>1, FS_EmptySet DEF Rank
<1>4. Turns(0, scenario.maxIds - 1, 0)
  <2>1. 0 = 0 * (scenario.maxIds - 1) + 0
    BY <1>1
  <2> QED  BY <2>1 DEF Turns
<1>5. SentInv
  <2>1. Len(sent) = 0 /\ sent \in Seq(Original)
    BY <1>0
  <2>2. \A i \in 1..Len(sent) :
           Turns(Rank(sent, sent[i].src, i), scenario.maxIds - 1, sent[i].uid)
    BY <2>1
  <2>3. /\ bId \in [Sources -> 0..(scenario.maxIds - 1)] /\ \A s \in Sources : bId[s] = 0
        /\ lastTimestamp \in [Sources -> Nat]
    BY <1>1 DEF Init
  <2>4. \A s \in Sources : Turns(Rank(sent, s, Len(sent)), scenario.maxIds - 1, bId[s])
    BY <1>3, <1>4, <2>1, <2>3
  <2>5. now \in 0..scenario.time
    BY <1>0, <1>1
  <2> QED  BY <1>0, <2>1, <2>2, <2>3, <2>4, <2>5 DEF SentInv
<1>6. StoreInv
  <2>1. store = [n \in Holders |-> {}]
    BY DEF Init
  <2> QED  BY <2>1 DEF StoreInv, OneOfAnId
<1>7. LinkInv
  <2>1. neighbors = [n \in Holders |-> {}] /\ routes = [n \in Holders |-> <<>>]
    BY DEF Init
  <2> QED  BY <2>1 DEF LinkInv
<1>8. RegInv
  BY <1>1 DEF Init, RegInv
<1>9. DestInv
  BY DEF Init, DestInv
<1>10. BidsInv
  <2>1. bids = <<>> /\ accepted = <<>>
    BY DEF Init
  <2>2. bids \in Seq(Entry)
    BY <2>1
  <2>3. AcceptedApart
    BY <2>1 DEF AcceptedApart
  <2> QED  BY <1>2, <2>1, <2>2, <2>3 DEF BidsInv
<1>11. DuplicateFound
  BY DEF Init, Nothing, DuplicateFound
<1> QED  BY <1>5, <1>6, <1>7, <1>8, <1>9, <1>10, <1>11 DEF DeliveryInv

\* Every step keeps it.
LEMMA DeliveryStep ==
    DeliveryInv /\ DuplicateFound /\ [Next]_vars => DeliveryInv' /\ DuplicateFound'
<1> SUFFICES ASSUME DeliveryInv, DuplicateFound, [Next]_vars
             PROVE  DeliveryInv' /\ DuplicateFound'
  OBVIOUS
<1> USE DEF DeliveryInv
<1>0. scenario \in Scenarios /\ now \in Nat
  <2>1. scenario.time \in Nat
    BY ScenarioLemma DEF SentInv
  <2> QED  BY <2>1 DEF SentInv
<1>n. ASSUME outcome' = Nothing PROVE DuplicateFound'
  BY <1>n DEF Nothing, DuplicateFound
<1>s. ASSUME UNCHANGED <<scenario, now, appVars>> PROVE SentInv' /\ sent' = sent
  BY <1>s DEF SentInv, appVars
<1>t. ASSUME UNCHANGED <<sent, store>> PROVE StoreInv'
  BY <1>t DEF StoreInv
<1>l. ASSUME UNCHANGED linkVars PROVE LinkInv'
  BY <1>l DEF LinkInv, linkVars
<1>r. ASSUME UNCHANGED <<scenario, regVars>> PROVE RegInv'
  BY <1>r DEF RegInv, regVars
<1>d. ASSUME UNCHANGED <<sent, now, destVars>>, SentInv' PROVE DestInv' /\ BidsInv'
  BY <1>0, <1>d, DestUnchanged
<1>1. CASE Tick
  <2>1. /\ now' = now + 1 /\ now' \in 0..scenario.time /\ outcome' = Nothing
        /\ UNCHANGED <<scenario, appVars, store, linkVars, regVars, destVars>>
    <3>1. scenario.time \in Nat
      BY ScenarioLemma DEF SentInv
    <3> QED  BY <1>0, <1>1, <3>1 DEF Tick
  <2>2. SentInv' /\ sent' = sent
    BY <2>1 DEF SentInv, appVars
  <2>3. now <= now'
    BY <1>0, <2>1
  <2>4. DestInv' /\ BidsInv'
    BY <2>1, <2>2, <2>3, DestUnchanged
  <2> QED  BY <1>n, <1>t, <1>l, <1>r, <2>1, <2>2, <2>4
<1>2. CASE Registering
  <2>1. /\ RegInv' /\ outcome' = Nothing
        /\ UNCHANGED <<scenario, now, appVars, store, linkVars, destVars>>
    BY <1>0, <1>2, RegisteringLemma
  <2> QED  BY <1>n, <1>s, <1>t, <1>l, <1>d, <2>1
<1>3. ASSUME NEW s \in Sources, NEW ep \in Endpoints, newBundle(s, ep)
      PROVE  DeliveryInv' /\ DuplicateFound'
  <2>1. UNCHANGED <<scenario, now, linkVars, regVars, destVars>> /\ outcome' = Nothing
    BY <1>3 DEF newBundle
  <2>2. SentInv' /\ StoreInv' /\ ToSet(sent) \subseteq ToSet(sent')
    BY <1>3, NewBundleLemma, NewBundleStored
  <2>3. DestInv' /\ BidsInv'
    BY <1>0, <2>1, <2>2, DestUnchanged
  <2> QED  BY <1>n, <1>l, <1>r, <2>1, <2>2, <2>3
<1>4. CASE \/ \E a \in scenario.adds : add(a[1], a[2])
           \/ \E l \in scenario.links :
                recvHello(l[1], l[2]) \/ check_neighbors(l[1], l[2])
  <2>1. /\ LinkInv' /\ outcome' = Nothing
        /\ UNCHANGED <<scenario, now, appVars, store, regVars, destVars>>
    BY <1>0, <1>4, LinkStep
  <2> QED  BY <1>n, <1>s, <1>t, <1>r, <1>d, <2>1
<1>5. ASSUME NEW l \in scenario.links, NEW b \in store[l[1]], send_bundle(l[1], l[2], b)
      PROVE  DeliveryInv' /\ DuplicateFound'
  <2>1. /\ StoreInv' /\ UNCHANGED <<scenario, now, appVars, linkVars, regVars>>
        /\ \/ \E c \in CopyOf(ToSet(sent)) : localDelivery(c)
           \/ outcome' = Nothing /\ UNCHANGED destVars
    BY <1>5, SendLemma
  <2>2. SentInv' /\ sent' = sent /\ LinkInv' /\ RegInv'
    BY <1>s, <1>l, <1>r, <2>1
  <2>3. DestInv' /\ BidsInv' /\ DuplicateFound'
    <3>1. CASE \E c \in CopyOf(ToSet(sent)) : localDelivery(c)
      BY <2>1, <2>2, <3>1, ArrivalLemma
    <3>2. CASE outcome' = Nothing /\ UNCHANGED destVars
      BY <1>n, <1>d, <2>1, <2>2, <3>2
    <3> QED  BY <2>1, <3>1, <3>2
  <2> QED  BY <2>1, <2>2, <2>3
<1>6. ASSUME NEW n \in Holders, NEW b \in store[n], forget(n, b)
      PROVE  DeliveryInv' /\ DuplicateFound'
  <2>1. StoreInv'
    BY <1>6, ForgetLemma
  <2>2. UNCHANGED <<scenario, now, appVars, linkVars, regVars, destVars>> /\ outcome' = Nothing
    BY <1>6 DEF forget
  <2> QED  BY <1>n, <1>s, <1>l, <1>r, <1>d, <2>1, <2>2
<1>7. CASE UNCHANGED vars
  <2>1. UNCHANGED <<scenario, now, appVars, store, linkVars, regVars, destVars, outcome>>
    BY <1>7 DEF vars
  <2>2. UNCHANGED <<sent, accepted>>
    BY <2>1 DEF appVars, destVars
  <2>3. DuplicateFound'
    BY <2>1, <2>2 DEF DuplicateFound
  <2> QED  BY <1>s, <1>t, <1>l, <1>r, <1>d, <2>1, <2>3
<1> QED  BY <1>1, <1>2, <1>3, <1>4, <1>5, <1>6, <1>7 DEF Next

\* So it holds in every state.
THEOREM DeliverySound == Spec => [](DeliveryInv /\ DuplicateFound)
<1>1. DeliveryInv /\ DuplicateFound /\ [Next]_vars => (DeliveryInv /\ DuplicateFound)'
  BY DeliveryStep
<1> QED  BY DeliveryInit, <1>1, PTL DEF Spec

\* Buffers, lists and registrations hold what belongs into them: every copy is
\* one of a bundle that an application sent, whatever was cut, stored, passed
\* on and forgotten on its way.
THEOREM DeliveryTyped == Spec => []TypeOK
<1>1. DeliveryInv => TypeOK
  <2> SUFFICES ASSUME SentInv, StoreInv, LinkInv, RegInv, DestInv PROVE TypeOK
    BY DEF DeliveryInv
  <2> DEFINE S == ToSet(sent)
  <2>0. sent \in Seq(Original) /\ S \in SUBSET Original
    BY ToSetLemma DEF SentInv
  <2>1. \A b \in CopyOf(S) : IsCopy(b)
    BY <2>0, IsCopyLemma
  <2>2. S \subseteq CopyOf(S)
    BY DEF CopyOf
  <2>3. \A n \in Holders : \A b \in store[n] :
           IsCopy(b) /\ \A c \in store[n] : Id(b) = Id(c) => b = c
    BY <2>1 DEF StoreInv, OneOfAnId
  <2>4. \A n \in Holders : \A i \in DOMAIN routes[n] : routes[n][i] \in Route
    <3> TAKE n \in Holders
    <3>1. routes[n] \in Seq({r \in Route : r.mtu > HeadSize + FragSize})
      BY DEF LinkInv
    <3> QED  BY <3>1, LenProperties, ElementOfSeq
  <2>5. \A i \in DOMAIN reg : reg[i] \in Registration
    BY LenProperties, ElementOfSeq DEF RegInv
  <2>6. \A b \in ToSet(local) \cup inbox : IsCopy(b)
    <3>1. ToSet(local) \subseteq S /\ inbox \subseteq S
      BY ToSetLemma DEF DestInv
    <3> QED  BY <2>1, <2>2, <3>1
  <2>7. \A g \in ToSet(frags) : g # <<>> /\ (\A c \in ToSet(g) : IsCopy(c) /\ c.frag)
    <3> TAKE g \in ToSet(frags)
    <3>1. g \in Group(S)
      BY ToSetLemma DEF DestInv
    <3>2. g # <<>> /\ \A c \in ToSet(g) : c \in Fragment(S)
      BY <3>1, ToSetLemma DEF Group
    <3> QED  BY <2>1, <3>2 DEF Fragment
  <2>8. \A a \in ToSet(accepted) : IsCopy(a.bundle) /\ a.at \in 0..now
    <3> TAKE a \in ToSet(accepted)
    <3>1. a \in [bundle : S, at : 0..now]
      BY ToSetLemma DEF DestInv
    <3>2. a.bundle \in S /\ a.at \in 0..now
      BY <3>1
    <3> QED  BY <2>1, <2>2, <3>2
  <2>9. /\ scenario \in Scenarios /\ now \in 0..scenario.time
        /\ bId \in [Sources -> 0..(scenario.maxIds - 1)]
        /\ lastTimestamp \in [Sources -> Nat]
        /\ neighbors \in [Holders -> SUBSET Nodes]
        /\ token \in 0..scenario.tokens
    BY DEF SentInv, LinkInv, RegInv
  <2> QED  BY <2>3, <2>4, <2>5, <2>6, <2>7, <2>8, <2>9 DEF TypeOK
<1> QED  BY DeliverySound, <1>1, PTL

\* The application is given whole payloads only: sendBundle may cut a bundle in
\* a buffer again and again, and localDelivery never takes a part for the whole.
THEOREM PayloadsIntact == Spec => []Intact
<1>1. DeliveryInv => Intact
  <2> SUFFICES ASSUME DestInv PROVE Intact
    BY DEF DeliveryInv
  <2>1. ToSet(local) \subseteq ToSet(sent) /\ inbox \subseteq ToSet(sent)
    BY ToSetLemma DEF DestInv
  <2> QED  BY <2>1 DEF Intact
<1> QED  BY DeliverySound, <1>1, PTL

\* An id is not accepted again while bids_ is to remember it: the walks of
\* localDelivery age entries in parts, and lose none that is not too old.
THEOREM NotAcceptedAgain == Spec => []AcceptedApart
<1>1. DeliveryInv => AcceptedApart
  BY DEF DeliveryInv, BidsInv
<1> QED  BY DeliverySound, <1>1, PTL

\* Two bundles of a source with one id are a round of its ids apart.
LEMMA RoundApart ==
    ASSUME SentInv, NEW b \in ToSet(sent), NEW c \in ToSet(sent), Id(b) = Id(c),
           Number(b) < Number(c)
    PROVE  Later(b, c) >= scenario.maxIds - 1
<1> DEFINE m == scenario.maxIds - 1
           j == Number(b)
           k == Number(c)
<1>0. sent \in Seq(Original) /\ m \in Nat /\ Len(sent) \in Nat
  BY ScenarioLemma, LenProperties DEF SentInv
<1>1. /\ j \in 1..Len(sent) /\ sent[j] = b
      /\ k \in 1..Len(sent) /\ sent[k] = c
  <2>1. DOMAIN sent = 1..Len(sent)
    BY <1>0, LenProperties
  <2>2. (\E i \in DOMAIN sent : sent[i] = b) /\ (\E i \in DOMAIN sent : sent[i] = c)
    BY DEF ToSet
  <2> QED  BY <2>1, <2>2 DEF Number
<1>2. b.src = c.src /\ b.uid = c.uid /\ b.uid \in Nat
  <2>1. b.src = c.src /\ b.uid = c.uid
    BY DEF Id
  <2>2. ToSet(sent) \in SUBSET Original /\ b \in CopyOf(ToSet(sent))
    BY <1>0, ToSetLemma DEF CopyOf
  <2>3. b.uid \in Nat
    BY <2>2, CopyLemma
  <2> QED  BY <2>1, <2>3
<1>3. Later(b, c) = Cardinality({i \in DOMAIN sent : sent[i].src = b.src /\ j < i /\ i <= k})
  BY DEF Later
<1> HIDE DEF j, k
<1>4. j < k
  BY DEF j, k
<1>5. /\ Later(b, c) = Rank(sent, b.src, k) - Rank(sent, b.src, j)
      /\ Rank(sent, b.src, j) < Rank(sent, b.src, k)
  BY <1>0, <1>1, <1>2, <1>3, <1>4, RankBetween
<1>6. Rank(sent, b.src, j) \in Nat /\ Rank(sent, b.src, k) \in Nat
  BY <1>0, <1>1, RankLemma
<1>7. Turns(Rank(sent, b.src, j), m, b.uid) /\ Turns(Rank(sent, b.src, k), m, b.uid)
  BY <1>1, <1>2 DEF SentInv
<1>8. Rank(sent, b.src, k) - Rank(sent, b.src, j) >= m
  BY <1>0, <1>2, <1>5, <1>6, <1>7, TurnsApart
<1> QED  BY <1>5, <1>8

\* What localDelivery deletes as a duplicate is one, or its source gave out all
\* its ids (newBundle, max_ids_count) while bids_ remembered the first use.
THEOREM DuplicatesExplained == Spec => []DuplicateExplained
<1>1. DeliveryInv /\ DuplicateFound => DuplicateExplained
  <2> SUFFICES ASSUME SentInv, DestInv, DuplicateFound, outcome.result = "duplicate"
               PROVE  \E a \in ToSet(accepted) :
                         /\ Id(a.bundle) = Id(outcome.bundle)
                         /\ now - a.at <= ExpTime * KeepFactor
                         /\ \/ a.bundle = outcome.bundle
                            \/ Later(a.bundle, outcome.bundle) >= scenario.maxIds - 1
                            \/ Later(outcome.bundle, a.bundle) >= scenario.maxIds - 1
    BY DEF DeliveryInv, DuplicateExplained
  <2> DEFINE b == outcome.bundle
  <2>1. b \in ToSet(sent)
    BY DEF DuplicateFound
  <2>2. PICK a \in ToSet(accepted) : Id(a.bundle) = Id(b) /\ now - a.at <= ExpTime * KeepFactor
    BY DEF DuplicateFound, Kept
  <2>3. a.bundle \in ToSet(sent)
    <3>1. a \in [bundle : ToSet(sent), at : 0..now]
      BY ToSetLemma DEF DestInv
    <3> QED  BY <3>1
  <2> HIDE DEF b
  <2>4. \A c \in ToSet(sent) : Number(c) \in Nat /\ sent[Number(c)] = c
    <3> TAKE c \in ToSet(sent)
    <3>1. DOMAIN sent = 1..Len(sent) /\ Len(sent) \in Nat
      BY LenProperties DEF SentInv
    <3>2. \E i \in DOMAIN sent : sent[i] = c
      BY DEF ToSet
    <3>3. Number(c) \in DOMAIN sent /\ sent[Number(c)] = c
      BY <3>2 DEF Number
    <3> QED  BY <3>1, <3>3
  <2>5. CASE Number(a.bundle) = Number(b)
    <3>1. a.bundle = b
      BY <2>1, <2>3, <2>4, <2>5
    <3> QED  BY <2>2, <3>1 DEF b
  <2>6. CASE Number(a.bundle) < Number(b)
    <3>1. Later(a.bundle, b) >= scenario.maxIds - 1
      BY <2>1, <2>2, <2>3, <2>6, RoundApart
    <3> QED  BY <2>2, <3>1 DEF b
  <2>7. CASE Number(b) < Number(a.bundle)
    <3>1. Later(b, a.bundle) >= scenario.maxIds - 1
      BY <2>1, <2>2, <2>3, <2>7, RoundApart
    <3> QED  BY <2>2, <3>1 DEF b
  <2>8. Number(a.bundle) \in Nat /\ Number(b) \in Nat
    BY <2>1, <2>3, <2>4
  <2> QED  BY <2>5, <2>6, <2>7, <2>8
<1> QED  BY DeliverySound, <1>1, PTL

\* getNextHop finds a route to every neighbor: check_neighbors takes neighbors
\* and not routes, and a hello adds what is missing.
THEOREM NeighborsHaveRoutes == Spec => []NeighborsRouted
<1>1. DeliveryInv => NeighborsRouted
  <2> SUFFICES ASSUME LinkInv, NEW n \in Holders, NEW m \in neighbors[n]
               PROVE  getNextHop(routes[n], m) # 0
    BY DEF DeliveryInv, NeighborsRouted
  <2>1. /\ \E i \in 1..Len(routes[n]) : routes[n][i].node = m
        /\ routes[n] \in Seq({r \in Route : r.mtu > HeadSize + FragSize})
    BY DEF LinkInv
  <2> QED  BY <2>1, NextHopLemma
<1> QED  BY DeliverySound, <1>1, PTL

\* No group in frags_ has the whole payload: the end of a payload that was cut
\* is never sent, so the groups wait until they expire.
THEOREM GroupsLackTheEnd == Spec => []NoCompleteGroupWaits
<1>1. DeliveryInv => NoCompleteGroupWaits
  <2> SUFFICES ASSUME SentInv, DestInv, NEW g \in ToSet(frags)
               PROVE  \E i \in 1..PayloadSize :
                         \A f \in ToSet(g) : i - f.offset \notin DOMAIN f.data
    BY DEF DeliveryInv, NoCompleteGroupWaits
  <2> DEFINE S == ToSet(sent)
  <2>0. S \in SUBSET Original /\ PayloadSize \in Nat \ {0}
    BY ToSetLemma, Sizes DEF SentInv
  <2>1. g \in Group(S)
    BY ToSetLemma DEF DestInv
  <2>2. \A f \in ToSet(g) : f \in Fragment(S)
    BY <2>1, ToSetLemma DEF Group
  <2>3. \A f \in ToSet(g) : PayloadSize - f.offset \notin DOMAIN f.data
    <3> TAKE f \in ToSet(g)
    <3>1. f.offset = 0 /\ Len(f.data) \in 1..(PayloadSize - 1)
          /\ DOMAIN f.data = 1..Len(f.data)
      BY <2>0, <2>2, FragmentLemma
    <3> QED  BY <2>0, <3>1
  <2>4. PayloadSize \in 1..PayloadSize
    BY <2>0
  <2> QED  BY <2>3, <2>4
<1> QED  BY DeliverySound, <1>1, PTL
=============================================================================
