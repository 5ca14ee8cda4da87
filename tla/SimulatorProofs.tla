-------------------------- MODULE SimulatorProofs --------------------------
(***************************************************************************)
(* Proofs about Simulator, for any timers, intervals, scripts and numbers  *)
(* of events.                                                              *)
(*                                                                         *)
(* First the calendar queue: the arithmetic of its days, what each of its  *)
(* operations does to the buckets, and that they leave it Sound. Then the  *)
(* list beside it, the calls that handlers make, and the invariant SimInv  *)
(* of the event loop, with one lemma per action. Last the heap, up to the  *)
(* refinement of EventQueue.                                               *)
(***************************************************************************)
EXTENDS Simulator, SequenceLemmas, TLAPS

-----------------------------------------------------------------------------
(* Days and years of the calendar. *)

\* What division gives.
LEMMA DivModLemma ==
    ASSUME NEW a \in Nat, NEW b \in Nat \ {0}
    PROVE  /\ a \div b \in Nat /\ a % b \in 0..(b - 1)
           /\ a = b * (a \div b) + (a % b)
OBVIOUS

\* Quotients grow with their numerators.
LEMMA DivMono ==
    ASSUME NEW a \in Nat, NEW c \in Nat, NEW b \in Nat \ {0}, a <= c
    PROVE  a \div b <= c \div b
<1>1. b * (a \div b) < b * (c \div b + 1)
  <2>1. b * (c \div b + 1) = b * (c \div b) + b
    BY DivModLemma
  <2> QED  BY <2>1, DivModLemma
<1> QED  BY <1>1, DivModLemma

\* Quotient and remainder are determined.
LEMMA ModUnique ==
    ASSUME NEW n \in Nat \ {0}, NEW p \in Nat, NEW q \in Nat, NEW r \in 0..(n - 1),
           NEW s \in 0..(n - 1), n * p + r = n * q + s
    PROVE  p = q /\ r = s
<1>1. CASE p < q
  <2>1. n * (p + 1) <= n * q
    BY <1>1
  <2>2. n * (p + 1) = n * p + n
    OBVIOUS
  <2> QED  BY <2>1, <2>2
<1>2. CASE p > q
  <2>1. n * (q + 1) <= n * p
    BY <1>2
  <2>2. n * (q + 1) = n * q + n
    OBVIOUS
  <2> QED  BY <2>1, <2>2
<1> QED  BY <1>1, <1>2

\* A number up to n, modulo n.
LEMMA SmallMod ==
    ASSUME NEW n \in Nat \ {0}, NEW k \in 0..n
    PROVE  k % n = IF k = n THEN 0 ELSE k
<1>1. k \div n \in Nat /\ k % n \in 0..(n - 1) /\ k = n * (k \div n) + (k % n)
  OBVIOUS
<1>2. CASE k = n
  <2>1. k = n * 1 + 0
    BY <1>2
  <2> QED  BY <1>1, <1>2, <2>1, ModUnique
<1>3. CASE k # n
  <2>1. k = n * 0 + k
    OBVIOUS
  <2> QED  BY <1>1, <1>3, <2>1, ModUnique
<1> QED  BY <1>2, <1>3

\* Every bucket is met once by a search that starts at bucket s.
LEMMA RoundLemma ==
    ASSUME NEW n \in Nat \ {0}, NEW s \in 0..(n - 1)
    PROVE  /\ \A k \in 0..(n - 1) : (s + k) % n = IF s + k < n THEN s + k ELSE s + k - n
           /\ \A i \in 0..(n - 1) : \E k \in 0..(n - 1) : (s + k) % n = i
<1>1. ASSUME NEW k \in 0..(n - 1)
      PROVE  (s + k) % n = IF s + k < n THEN s + k ELSE s + k - n
  <2>1. /\ (s + k) \div n \in Nat /\ (s + k) % n \in 0..(n - 1)
        /\ s + k = n * ((s + k) \div n) + ((s + k) % n)
    OBVIOUS
  <2>2. CASE s + k < n
    <3>1. s + k = n * 0 + (s + k)
      OBVIOUS
    <3> QED  BY <2>1, <2>2, <3>1, ModUnique
  <2>3. CASE s + k >= n
    <3>1. s + k = n * 1 + (s + k - n) /\ s + k - n \in 0..(n - 1)
      BY <2>3
    <3> QED  BY <2>1, <2>3, <3>1, ModUnique
  <2> QED  BY <2>2, <2>3
<1>2. ASSUME NEW i \in 0..(n - 1)
      PROVE  \E k \in 0..(n - 1) : (s + k) % n = i
  <2>1. CASE i >= s
    <3>1. i - s \in 0..(n - 1) /\ s + (i - s) < n /\ s + (i - s) = i
      BY <2>1
    <3> QED  BY <1>1, <3>1
  <2>2. CASE i < s
    <3>1. i - s + n \in 0..(n - 1) /\ ~(s + (i - s + n) < n) /\ s + (i - s + n) - n = i
      BY <2>2
    <3> QED  BY <1>1, <3>1
  <2> QED  BY <2>1, <2>2
<1> QED  BY <1>1, <1>2

\* A day that is x days from day q is in the bucket k further, k being the
\* remainder of x.
LEMMA AheadLemma ==
    ASSUME NEW n \in Nat \ {0}, NEW q \in Nat, NEW x \in Nat, NEW k \in 0..(n - 1),
           (q + x) % n = ((q % n) + k) % n
    PROVE  \E m \in Nat : x = n * m + k
<1>1. /\ q \div n \in Nat /\ q % n \in 0..(n - 1) /\ q = n * (q \div n) + (q % n)
      /\ x \div n \in Nat /\ x % n \in 0..(n - 1) /\ x = n * (x \div n) + (x % n)
      /\ (q + x) \div n \in Nat /\ (q + x) % n \in 0..(n - 1)
      /\ q + x = n * ((q + x) \div n) + ((q + x) % n)
  OBVIOUS
<1> DEFINE s == q % n
           r == x % n
<1>2. (s + r) % n = (q + x) % n
  <2>1. /\ (s + r) \div n \in Nat /\ (s + r) % n \in 0..(n - 1)
        /\ s + r = n * ((s + r) \div n) + ((s + r) % n)
    <3>1. s \in Nat /\ r \in Nat
      BY <1>1
    <3> HIDE DEF s, r
    <3> QED  BY <3>1
  <2>2. q + x = n * (q \div n + x \div n + (s + r) \div n) + ((s + r) % n)
    BY <1>1, <2>1
  <2>3. PICK a, b : a = q \div n + x \div n + (s + r) \div n /\ b = (s + r) % n
    OBVIOUS
  <2>4. PICK d, e : d = (q + x) \div n /\ e = (q + x) % n
    OBVIOUS
  <2>5. a \in Nat /\ b \in 0..(n - 1) /\ d \in Nat /\ e \in 0..(n - 1)
    BY <1>1, <2>1, <2>3, <2>4
  <2>6. n * a + b = n * d + e
    BY <1>1, <2>2, <2>3, <2>4
  <2>7. b = e
    BY <2>5, <2>6, ModUnique
  <2> QED  BY <2>3, <2>4, <2>7
<1>3. s \in 0..(n - 1) /\ r \in 0..(n - 1) /\ (s + r) % n = (s + k) % n
  BY <1>1, <1>2
<1>4. r = k
  <2> HIDE DEF s, r
  <2>1. /\ (s + r) % n = IF s + r < n THEN s + r ELSE s + r - n
        /\ (s + k) % n = IF s + k < n THEN s + k ELSE s + k - n
    BY <1>3, RoundLemma
  <2> QED  BY <1>3, <2>1
<1> QED  BY <1>1, <1>4

\* The day of a time, and the buckets of days.
Day(c, t) == (t * c.width_[2]) \div c.width_[1]

Ratio == (Nat \ {0}) \X (Nat \ {0})

\* The days of two times are as far apart as the width allows.
LEMMA DayLemma ==
    ASSUME NEW w \in Ratio, NEW t \in Nat, NEW u \in Nat, t <= u,
           NEW c, c.width_ = w
    PROVE  /\ Day(c, t) \in Nat /\ Day(c, u) \in Nat /\ Day(c, t) <= Day(c, u)
           /\ (u - t) * w[2] < w[1] * (Day(c, u) - Day(c, t) + 1)
           /\ w[1] * (Day(c, u) - Day(c, t) - 1) < (u - t) * w[2]
<1>1. w[1] \in Nat \ {0} /\ w[2] \in Nat \ {0}
  BY DEF Ratio
<1> DEFINE a == t * w[2]
           b == u * w[2]
<1>2. a \in Nat /\ b \in Nat /\ a <= b /\ b - a = (u - t) * w[2]
  BY <1>1
<1>3. Day(c, t) = a \div w[1] /\ Day(c, u) = b \div w[1]
  BY DEF Day
<1> HIDE DEF a, b
<1>4. /\ a \div w[1] \in Nat /\ a % w[1] \in 0..(w[1] - 1)
      /\ a = w[1] * (a \div w[1]) + (a % w[1])
      /\ b \div w[1] \in Nat /\ b % w[1] \in 0..(w[1] - 1)
      /\ b = w[1] * (b \div w[1]) + (b % w[1])
      /\ a \div w[1] <= b \div w[1]
  BY <1>1, <1>2, DivModLemma, DivMono
<1>5. PICK p, q, r, s, v : /\ p = a \div w[1] /\ q = b \div w[1] /\ v = w[1]
                           /\ r = a % w[1] /\ s = b % w[1]
  OBVIOUS
<1>6. /\ p \in Nat /\ q \in Nat /\ v \in Nat \ {0} /\ r \in 0..(v - 1) /\ s \in 0..(v - 1)
      /\ a = v * p + r /\ b = v * q + s /\ p <= q
  BY <1>1, <1>4, <1>5
<1>7. b - a < v * (q - p + 1) /\ v * (q - p - 1) < b - a
  BY <1>6
<1> QED  BY <1>1, <1>2, <1>3, <1>5, <1>6, <1>7

\* CALENDAR_HASH is the day, modulo the number of buckets.
LEMMA HashLemma ==
    ASSUME NEW c, c.width_ \in Ratio, c.nbuckets_ \in Nat \ {0}, NEW t \in Nat
    PROVE  Hash(c, t) = Day(c, t) % c.nbuckets_ /\ Hash(c, t) \in 0..(c.nbuckets_ - 1)
<1>1. Day(c, t) \in Nat
  <2>1. t <= t
    OBVIOUS
  <2>2. PICK w : w \in Ratio /\ c.width_ = w
    OBVIOUS
  <2> QED  BY <2>1, <2>2, DayLemma
<1> QED  BY <1>1, DivModLemma DEF Hash, Day

\* The tests of the search are exact: a time in the k-th bucket from the one
\* of the clock, the last one excepted, passes if and only if it is k days
\* ahead.
LEMMA InYearLemma ==
    ASSUME NEW c, c.width_ \in Ratio, c.nbuckets_ \in Nat, c.nbuckets_ >= 4,
           NEW t0 \in Nat, NEW t \in Nat, t0 <= t, NEW k \in 0..(c.nbuckets_ - 1),
           Hash(c, t) = (Hash(c, t0) + k) % c.nbuckets_
    PROVE  /\ Day(c, t) - Day(c, t0) >= k
           /\ k # c.nbuckets_ - 1 =>
                 (InYear(c, k, t - t0) <=> Day(c, t) - Day(c, t0) = k)
           /\ Day(c, t) - Day(c, t0) # k => Day(c, t) - Day(c, t0) >= c.nbuckets_ + k
<1> DEFINE n == c.nbuckets_
           w == c.width_[1]
           y == (t - t0) * c.width_[2]
           x == Day(c, t) - Day(c, t0)
<1>1. /\ Day(c, t) \in Nat /\ Day(c, t0) \in Nat /\ x \in Nat
      /\ y < w * (x + 1) /\ w * (x - 1) < y
  <2>1. PICK v : v \in Ratio /\ c.width_ = v
    OBVIOUS
  <2>2. /\ Day(c, t0) \in Nat /\ Day(c, t) \in Nat /\ Day(c, t0) <= Day(c, t)
        /\ (t - t0) * v[2] < v[1] * (Day(c, t) - Day(c, t0) + 1)
        /\ v[1] * (Day(c, t) - Day(c, t0) - 1) < (t - t0) * v[2]
    BY <2>1, DayLemma
  <2> QED  BY <2>1, <2>2
<1>2. w \in Nat \ {0} /\ y \in Nat
  <2>1. c.width_[1] \in Nat \ {0} /\ c.width_[2] \in Nat \ {0}
    BY DEF Ratio
  <2> QED  BY <2>1
<1>3. PICK m \in Nat : x = n * m + k
  <2>1. Hash(c, t) = Day(c, t) % n /\ Hash(c, t0) = Day(c, t0) % n
    BY HashLemma
  <2>2. Day(c, t) = Day(c, t0) + x
    BY <1>1
  <2>3. (Day(c, t0) + x) % n = ((Day(c, t0) % n) + k) % n
    BY <2>1, <2>2
  <2>4. PICK q : q = Day(c, t0)
    OBVIOUS
  <2>5. x \in Nat /\ q \in Nat /\ n \in Nat \ {0} /\ (q + x) % n = ((q % n) + k) % n
    BY <1>1, <2>3, <2>4
  <2> HIDE DEF x, n
  <2>6. k \in 0..(n - 1)
    BY DEF n
  <2> QED  BY <2>5, <2>6, AheadLemma
<1>4. m = 0 => x = k
  BY <1>3
<1>5. m # 0 => x >= n + k
  <2>1. m # 0 => n * m >= n
    OBVIOUS
  <2> QED  BY <1>3, <2>1
<1>6. ASSUME k # n - 1 PROVE InYear(c, k, t - t0) <=> x = k
  <2>0. InYear(c, k, t - t0) <=> CASE k = 0 -> 2 * y < w * n
                                   [] k = 1 -> 2 * y < w * (n + 2)
                                   [] OTHER -> y < w * n
    <3>1. c.width_[2] \in Nat \ {0}
      BY DEF Ratio
    <3>2. 2 * (t - t0) * c.width_[2] = 2 * y
      BY <3>1
    <3> HIDE DEF y
    <3> QED  BY <3>2 DEF InYear, y
  <2> HIDE DEF x, y, w, n
  <2>n. n \in Nat /\ n >= 4 /\ k \in 0..(n - 1)
    BY DEF n
  <2>1. CASE m = 0
    <3>1. x = k
      BY <1>4, <2>1
    <3>2. w * (k + 1) <= w * (n - 1) /\ w * (n - 1) < w * n
      BY <1>2, <2>n, <1>6
    <3>3. k = 0 => 2 * (w * (k + 1)) <= w * n
      BY <1>2, <2>n
    <3>4. k = 1 => 2 * (w * (k + 1)) <= w * (n + 2)
      BY <1>2, <2>n
    <3> QED  BY <1>1, <1>2, <2>0, <2>n, <3>1, <3>2, <3>3, <3>4
  <2>2. CASE m # 0
    <3>1. x - 1 >= n + k - 1 /\ x # k
      BY <1>1, <1>5, <2>2, <2>n
    <3>2. w * (x - 1) >= w * (n + k - 1)
      BY <1>1, <1>2, <2>n, <3>1
    <3>3. k = 0 => 2 * (w * (n + k - 1)) >= w * n
      BY <1>2, <2>n
    <3>4. k = 1 => 2 * (w * (n + k - 1)) >= w * (n + 2)
      BY <1>2, <2>n
    <3>5. k > 1 => w * (n + k - 1) >= w * n
      BY <1>2, <2>n
    <3>6. w * (n + k - 1) \in Int /\ w * n \in Int /\ w * (n + 2) \in Int /\ w * (x - 1) \in Int
      BY <1>1, <1>2, <2>n
    <3> QED  BY <1>1, <1>2, <2>0, <2>n, <3>1, <3>2, <3>3, <3>4, <3>5, <3>6
  <2> QED  BY <2>1, <2>2
<1>7. x >= k /\ (x # k => x >= n + k)
  BY <1>1, <1>4, <1>5
<1> QED  BY <1>6, <1>7

-----------------------------------------------------------------------------
(* Events in the order of service. *)

Events == [time : Nat, uid : Nat \ {0}, owner : Owners]

Earlier(a, b) == a.time < b.time \/ (a.time = b.time /\ a.uid < b.uid)

InOrder(l) == \A j, k \in 1..Len(l) : j < k => Earlier(l[j], l[k])

TimesOf(S) == {e.time : e \in S}

\* Service is in a total order.
LEMMA EarlierLemma ==
    /\ \A a, b, d \in Events : Earlier(a, b) /\ Earlier(b, d) => Earlier(a, d)
    /\ \A a, b \in Events : ~(Earlier(a, b) /\ Earlier(b, a)) /\ ~Earlier(a, a)
BY DEF Earlier, Events

\* An event put between the earlier ones and the later ones.
LEMMA InsertInOrder ==
    ASSUME NEW l \in Seq(Events), InOrder(l), NEW e \in Events, NEW p \in 1..(Len(l) + 1),
           \A k \in 1..Len(l) : IF k < p THEN Earlier(l[k], e) ELSE Earlier(e, l[k]),
           NEW m, m = InsertAt(l, p, e)
    PROVE  /\ m \in Seq(Events) /\ Len(m) = Len(l) + 1
           /\ InOrder(m)
           /\ ToSet(m) = ToSet(l) \cup {e} /\ e \notin ToSet(l)
<1>0. Len(l) \in Nat /\ \A k \in 1..Len(l) : l[k] \in Events
  BY LenProperties, ElementOfSeq
<1>1. /\ m \in Seq(Events) /\ Len(m) = Len(l) + 1
      /\ \A i \in 1..(Len(l) + 1) :
            m[i] = IF i < p THEN l[i] ELSE IF i = p THEN e ELSE l[i - 1]
  <2>1. /\ InsertAt(l, p, e) \in Seq(Events) /\ Len(InsertAt(l, p, e)) = Len(l) + 1
        /\ \A i \in 1..(Len(l) + 1) :
              InsertAt(l, p, e)[i] = IF i < p THEN l[i] ELSE IF i = p THEN e ELSE l[i - 1]
    BY ONLY l \in Seq(Events), e \in Events, p \in 1..(Len(l) + 1), InsertAtLemma
  <2> QED  BY <2>1
<1>2. /\ \A x : x \in ToSet(l) <=> \E i \in 1..Len(l) : x = l[i]
      /\ \A x : x \in ToSet(m) <=> \E i \in 1..Len(m) : x = m[i]
  BY <1>1, ToSetLemma
<1>3. ASSUME NEW j \in 1..Len(m), NEW k \in 1..Len(m), j < k PROVE Earlier(m[j], m[k])
  <2>0. j \in 1..(Len(l) + 1) /\ k \in 1..(Len(l) + 1) /\ p \in Nat
    BY <1>0, <1>1
  <2>1. CASE k < p
    <3>1. m[j] = l[j] /\ m[k] = l[k] /\ j \in 1..Len(l) /\ k \in 1..Len(l)
      BY <1>0, <1>1, <1>3, <2>0, <2>1
    <3> QED  BY <1>3, <3>1 DEF InOrder
  <2>2. CASE k = p
    <3>1. m[j] = l[j] /\ m[k] = e /\ j \in 1..Len(l) /\ j < p
      BY <1>0, <1>1, <1>3, <2>0, <2>2
    <3> QED  BY <3>1
  <2>3. CASE k > p /\ j < p
    <3>1. m[j] = l[j] /\ m[k] = l[k - 1] /\ j \in 1..Len(l) /\ k - 1 \in 1..Len(l)
          /\ j < k - 1
      BY <1>0, <1>1, <2>0, <2>3
    <3> QED  BY <3>1 DEF InOrder
  <2>4. CASE k > p /\ j = p
    <3>1. m[j] = e /\ m[k] = l[k - 1] /\ k - 1 \in 1..Len(l) /\ ~(k - 1 < p)
      BY <1>0, <1>1, <2>0, <2>4
    <3> QED  BY <3>1
  <2>5. CASE j > p
    <3>1. m[j] = l[j - 1] /\ m[k] = l[k - 1] /\ j - 1 \in 1..Len(l) /\ k - 1 \in 1..Len(l)
          /\ j - 1 < k - 1
      BY <1>0, <1>1, <1>3, <2>0, <2>5
    <3> QED  BY <3>1 DEF InOrder
  <2> QED  BY <2>0, <2>1, <2>2, <2>3, <2>4, <2>5
<1>4. e \notin ToSet(l)
  <2>1. \A k \in 1..Len(l) : l[k] # e
    BY <1>0, EarlierLemma
  <2> QED  BY <1>2, <2>1
<1>5. ASSUME NEW x \in ToSet(m) PROVE x \in ToSet(l) \cup {e}
  <2>1. PICK i \in 1..(Len(l) + 1) : x = m[i]
    BY <1>1, <1>2
  <2>2. i < p => i \in 1..Len(l)
    BY <1>0
  <2>3. i > p => i - 1 \in 1..Len(l)
    BY <1>0
  <2>4. i < p \/ i = p \/ i > p
    BY <1>0
  <2>5. i > p => ~(i < p) /\ i # p
    BY <1>0
  <2> QED  BY <1>1, <1>2, <2>1, <2>2, <2>3, <2>4, <2>5
<1>6. ASSUME NEW x \in ToSet(l) PROVE x \in ToSet(m)
  <2>1. PICK i \in 1..Len(l) : x = l[i]
    BY <1>2
  <2>2. CASE i < p
    <3>1. i \in 1..Len(m) /\ i \in 1..(Len(l) + 1)
      BY <1>0, <1>1
    <3> QED  BY <1>1, <1>2, <2>1, <2>2, <3>1
  <2>3. CASE ~(i < p)
    <3>1. i + 1 \in 1..Len(m) /\ i + 1 \in 1..(Len(l) + 1) /\ ~(i + 1 < p) /\ i + 1 # p
          /\ (i + 1) - 1 = i
      BY <1>0, <1>1, <2>3
    <3>2. m[i + 1] = l[i]
      BY <1>1, <3>1
    <3> QED  BY <1>2, <2>1, <3>1, <3>2
  <2> QED  BY <2>2, <2>3
<1>7. e \in ToSet(m)
  <2>1. p \in 1..Len(m) /\ p \in 1..(Len(l) + 1) /\ ~(p < p)
    BY <1>0, <1>1
  <2> QED  BY <1>1, <1>2, <2>1
<1> QED  BY <1>1, <1>3, <1>4, <1>5, <1>6, <1>7 DEF InOrder

\* An event taken out.
LEMMA RemoveInOrder ==
    ASSUME NEW l \in Seq(Events), InOrder(l), NEW p \in 1..Len(l),
           NEW m, m = RemoveAt(l, p)
    PROVE  /\ m \in Seq(Events) /\ Len(m) = Len(l) - 1
           /\ InOrder(m)
           /\ ToSet(m) = ToSet(l) \ {l[p]}
<1>0. Len(l) \in Nat /\ \A k \in 1..Len(l) : l[k] \in Events
  BY LenProperties, ElementOfSeq
<1>1. /\ m \in Seq(Events) /\ Len(m) = Len(l) - 1
      /\ \A i \in 1..(Len(l) - 1) : m[i] = IF i < p THEN l[i] ELSE l[i + 1]
  BY RemoveAtLemma
<1>2. /\ \A x : x \in ToSet(l) <=> \E i \in 1..Len(l) : x = l[i]
      /\ \A x : x \in ToSet(m) <=> \E i \in 1..Len(m) : x = m[i]
  BY <1>1, ToSetLemma
<1>3. \A j, k \in 1..Len(l) : j # k => l[j] # l[k]
  <2>1. \A j, k \in 1..Len(l) : j < k => l[j] # l[k]
    BY <1>0, EarlierLemma DEF InOrder
  <2>2. \A j, k \in 1..Len(l) : j # k => j < k \/ k < j
    BY <1>0
  <2> QED  BY <2>1, <2>2
<1> DEFINE from(i) == IF i < p THEN i ELSE i + 1
<1>4. \A i \in 1..Len(m) : m[i] = l[from(i)] /\ from(i) \in 1..Len(l) /\ from(i) # p
  BY <1>0, <1>1
<1>5. \A j, k \in 1..Len(m) : j < k => from(j) < from(k)
  BY <1>0, <1>1
<1>6. \A j \in 1..Len(l) : j # p => \E i \in 1..Len(m) : from(i) = j
  <2> SUFFICES ASSUME NEW j \in 1..Len(l), j # p PROVE \E i \in 1..Len(m) : from(i) = j
    OBVIOUS
  <2>1. CASE j < p
    <3>1. j \in 1..Len(m)
      BY <1>0, <1>1, <2>1
    <3> QED  BY <2>1, <3>1
  <2>2. CASE j > p
    <3>1. j - 1 \in 1..Len(m) /\ ~(j - 1 < p) /\ (j - 1) + 1 = j
      BY <1>0, <1>1, <2>2
    <3> QED  BY <3>1
  <2> QED  BY <1>0, <2>1, <2>2
<1> HIDE DEF from
<1>7. InOrder(m)
  BY <1>4, <1>5 DEF InOrder
<1>8. ToSet(m) = ToSet(l) \ {l[p]}
  <2>1. ASSUME NEW x \in ToSet(m) PROVE x \in ToSet(l) \ {l[p]}
    BY <1>2, <1>3, <1>4
  <2>2. ASSUME NEW x \in ToSet(l) \ {l[p]} PROVE x \in ToSet(m)
    BY <1>2, <1>4, <1>6
  <2> QED  BY <2>1, <2>2
<1> QED  BY <1>1, <1>7, <1>8

\* Times of sets of events.
LEMMA TimesLemma ==
    ASSUME NEW S \in SUBSET Events, IsFiniteSet(S)
    PROVE  /\ IsFiniteSet(TimesOf(S)) /\ TimesOf(S) \subseteq Nat
           /\ Cardinality(TimesOf(S)) \in Nat /\ Cardinality(S) \in Nat
           /\ Cardinality(S) > 0 <=> S # {}
<1> DEFINE f == [e \in S |-> e.time]
<1>1. f \in Surjection(S, TimesOf(S))
  BY DEF Surjection, TimesOf
<1>2. IsFiniteSet(TimesOf(S))
  <2> HIDE DEF f
  <2> QED  BY <1>1, FS_Surjection
<1>3. TimesOf(S) \subseteq Nat
  BY DEF TimesOf, Events
<1>4. Cardinality(S) = 0 <=> S = {}
  BY FS_EmptySet
<1>5. Cardinality(TimesOf(S)) \in Nat /\ Cardinality(S) \in Nat
  BY <1>2, FS_CardinalityType
<1> QED  BY <1>2, <1>3, <1>4, <1>5

\* One more event, and its time if it is a new one.
LEMMA TimesAdd ==
    ASSUME NEW S \in SUBSET Events, IsFiniteSet(S), NEW e \in Events, e \notin S
    PROVE  /\ IsFiniteSet(S \cup {e})
           /\ Cardinality(S \cup {e}) = Cardinality(S) + 1
           /\ Cardinality(TimesOf(S \cup {e})) =
                 Cardinality(TimesOf(S)) + (IF e.time \in TimesOf(S) THEN 0 ELSE 1)
<1>1. IsFiniteSet(S \cup {e}) /\ Cardinality(S \cup {e}) = Cardinality(S) + 1
  BY FS_AddElement
<1>2. TimesOf(S \cup {e}) = TimesOf(S) \cup {e.time}
  BY DEF TimesOf
<1>3. IsFiniteSet(TimesOf(S)) /\ Cardinality(TimesOf(S)) \in Nat
  BY TimesLemma
<1>4. Cardinality(TimesOf(S) \cup {e.time}) =
        IF e.time \in TimesOf(S) THEN Cardinality(TimesOf(S)) ELSE Cardinality(TimesOf(S)) + 1
  BY <1>3, FS_AddElement
<1> QED  BY <1>1, <1>2, <1>3, <1>4

\* One event less, and its time if no other event has it.
LEMMA TimesRemove ==
    ASSUME NEW S \in SUBSET Events, IsFiniteSet(S), NEW e \in S
    PROVE  /\ IsFiniteSet(S \ {e})
           /\ Cardinality(S \ {e}) = Cardinality(S) - 1
           /\ Cardinality(TimesOf(S \ {e})) =
                 Cardinality(TimesOf(S)) -
                    (IF \E f \in S \ {e} : f.time = e.time THEN 0 ELSE 1)
           /\ Cardinality(TimesOf(S)) > 0
<1>1. IsFiniteSet(S \ {e}) /\ Cardinality(S \ {e}) = Cardinality(S) - 1
  BY FS_RemoveElement
<1>2. IsFiniteSet(TimesOf(S)) /\ Cardinality(TimesOf(S)) \in Nat
  BY TimesLemma
<1>3. e.time \in TimesOf(S)
  BY DEF TimesOf
<1>4. Cardinality(TimesOf(S) \ {e.time}) = Cardinality(TimesOf(S)) - 1
  BY <1>2, <1>3, FS_RemoveElement
<1>5. Cardinality(TimesOf(S)) > 0
  BY <1>2, <1>3, FS_EmptySet
<1>6. CASE \E f \in S \ {e} : f.time = e.time
  <2>1. TimesOf(S \ {e}) = TimesOf(S)
    BY <1>6 DEF TimesOf
  <2> QED  BY <1>1, <1>2, <1>5, <1>6, <2>1
<1>7. CASE ~\E f \in S \ {e} : f.time = e.time
  <2>1. TimesOf(S \ {e}) = TimesOf(S) \ {e.time}
    BY <1>7 DEF TimesOf
  <2> QED  BY <1>1, <1>2, <1>4, <1>5, <1>7, <2>1
<1> QED  BY <1>6, <1>7

-----------------------------------------------------------------------------
(* Calendars. *)

BucketArrays == UNION {[0..(n - 1) -> [list_ : Seq(Events), count_ : Nat]] : n \in Nat}

Calendars ==
    [buckets_ : BucketArrays, width_ : Ratio, nbuckets_ : Nat, lastbucket_ : Nat,
     qsize_ : Nat, stat_qsize_ : Nat, cal_clock_ : Nat, gap_num_ : Nat,
     last_time_ : Int, avg_gap_ : Int \X (Nat \ {0}), round_num_ : Nat]

IsCalendar(c) ==
    c \in Calendars /\ c.nbuckets_ >= 4 /\ DOMAIN c.buckets_ = 0..(c.nbuckets_ - 1)

List(c, i) == c.buckets_[i].list_

\* What CalendarSound says of one bucket, the order for any two events.
BucketSound(c, i) ==
    /\ \A k \in 1..Len(List(c, i)) : Hash(c, List(c, i)[k].time) = i
    /\ InOrder(List(c, i))
    /\ c.buckets_[i].count_ = Cardinality(TimesOf(ToSet(List(c, i))))

Counted(c) ==
    /\ IsFiniteSet(Queued(c))
    /\ c.qsize_ = Cardinality(Queued(c))
    /\ c.stat_qsize_ = Cardinality(TimesOf(Queued(c)))

\* The calendar is sound, and its clock is not past any event.
Sound(c) ==
    /\ IsCalendar(c)
    /\ \A i \in 0..(c.nbuckets_ - 1) : BucketSound(c, i)
    /\ Counted(c)
    /\ \A e \in Queued(c) : c.cal_clock_ <= e.time
    /\ c.lastbucket_ = Hash(c, c.cal_clock_)

\* The types of the buckets.
LEMMA BucketLemma ==
    ASSUME NEW c, IsCalendar(c)
    PROVE  /\ c.nbuckets_ \in Nat /\ c.nbuckets_ >= 4 /\ c.width_ \in Ratio
           /\ c.buckets_ \in [0..(c.nbuckets_ - 1) -> [list_ : Seq(Events), count_ : Nat]]
           /\ \A i \in 0..(c.nbuckets_ - 1) :
                 List(c, i) \in Seq(Events) /\ c.buckets_[i].count_ \in Nat
<1>1. /\ c.nbuckets_ \in Nat /\ c.nbuckets_ >= 4 /\ c.width_ \in Ratio
      /\ c.buckets_ \in BucketArrays /\ DOMAIN c.buckets_ = 0..(c.nbuckets_ - 1)
  BY DEF IsCalendar, Calendars
<1>2. PICK n \in Nat : c.buckets_ \in [0..(n - 1) -> [list_ : Seq(Events), count_ : Nat]]
  BY <1>1 DEF BucketArrays
<1>3. c.buckets_ \in [0..(c.nbuckets_ - 1) -> [list_ : Seq(Events), count_ : Nat]]
  BY <1>1, <1>2
<1> QED  BY <1>1, <1>3 DEF List

\* The events in the queue.
LEMMA QueuedLemma ==
    ASSUME NEW c, IsCalendar(c)
    PROVE  /\ Queued(c) \subseteq Events
           /\ \A e : e \in Queued(c) <=> \E i \in 0..(c.nbuckets_ - 1) : e \in ToSet(List(c, i))
           /\ \A i \in 0..(c.nbuckets_ - 1) : \A e :
                 e \in ToSet(List(c, i)) <=> \E k \in 1..Len(List(c, i)) : e = List(c, i)[k]
<1>1. DOMAIN c.buckets_ = 0..(c.nbuckets_ - 1)
  BY DEF IsCalendar
<1>2. \A e : e \in Queued(c) <=> \E i \in 0..(c.nbuckets_ - 1) : e \in ToSet(List(c, i))
  BY <1>1 DEF Queued, List
<1>3. ASSUME NEW i \in 0..(c.nbuckets_ - 1)
      PROVE  /\ ToSet(List(c, i)) \subseteq Events
             /\ \A e : e \in ToSet(List(c, i)) <=> \E k \in 1..Len(List(c, i)) : e = List(c, i)[k]
  <2>1. PICK l \in Seq(Events) : l = List(c, i)
    BY BucketLemma
  <2>2. /\ ToSet(l) \subseteq Events
        /\ \A e : e \in ToSet(l) <=> \E k \in 1..Len(l) : e = l[k]
    BY ToSetLemma
  <2> QED  BY <2>1, <2>2
<1> QED  BY <1>2, <1>3

\* An event is in the bucket of its time.
LEMMA InBucket ==
    ASSUME NEW c, IsCalendar(c), \A i \in 0..(c.nbuckets_ - 1) : BucketSound(c, i)
    PROVE  /\ \A e \in Events : Hash(c, e.time) \in 0..(c.nbuckets_ - 1)
           /\ \A e \in Events : e \in Queued(c) <=> e \in ToSet(List(c, Hash(c, e.time)))
           /\ \A i \in 0..(c.nbuckets_ - 1) : \A e \in ToSet(List(c, i)) :
                 e \in Events /\ Hash(c, e.time) = i
<1>1. /\ Queued(c) \subseteq Events
      /\ \A e : e \in Queued(c) <=> \E i \in 0..(c.nbuckets_ - 1) : e \in ToSet(List(c, i))
      /\ \A i \in 0..(c.nbuckets_ - 1) : \A e :
            e \in ToSet(List(c, i)) <=> \E k \in 1..Len(List(c, i)) : e = List(c, i)[k]
  BY QueuedLemma
<1>2. \A e \in Events : Hash(c, e.time) \in 0..(c.nbuckets_ - 1)
  <2> SUFFICES ASSUME NEW e \in Events PROVE Hash(c, e.time) \in 0..(c.nbuckets_ - 1)
    OBVIOUS
  <2>1. c.width_ \in Ratio /\ c.nbuckets_ \in Nat \ {0}
    BY BucketLemma
  <2>2. PICK t \in Nat : t = e.time
    BY DEF Events
  <2>3. Hash(c, t) \in 0..(c.nbuckets_ - 1)
    BY <2>1, HashLemma
  <2> QED  BY <2>2, <2>3
<1>3. \A i \in 0..(c.nbuckets_ - 1) : \A e \in ToSet(List(c, i)) :
         e \in Events /\ Hash(c, e.time) = i
  BY <1>1 DEF BucketSound
<1> QED  BY <1>1, <1>2, <1>3

\* What the operations on single events keep.
Settings(c) == <<c.width_, c.nbuckets_>>

\* The hash depends on the settings only.
LEMMA SameHash ==
    ASSUME NEW c, NEW d, Settings(c) = Settings(d), NEW t
    PROVE  Hash(c, t) = Hash(d, t)
BY DEF Settings, Hash

\* d is c with another list l in bucket i.
Changed(c, i, l, d) ==
    /\ IsCalendar(d) /\ Settings(c) = Settings(d)
    /\ d.cal_clock_ = c.cal_clock_ /\ d.lastbucket_ = c.lastbucket_
    /\ d.buckets_[i].list_ = l
    /\ \A j \in 0..(c.nbuckets_ - 1) \ {i} : d.buckets_[j] = c.buckets_[j]

\* Nothing else of the calendar changed.
Kept(c, d) ==
    /\ d.gap_num_ = c.gap_num_ /\ d.last_time_ = c.last_time_
    /\ d.avg_gap_ = c.avg_gap_ /\ d.round_num_ = c.round_num_

\* What linking an event into a bucket changes.
LEMMA PlaceShape ==
    ASSUME NEW c, IsCalendar(c), NEW i \in 0..(c.nbuckets_ - 1), NEW pos \in Nat,
           NEW e \in Events, NEW unique \in BOOLEAN,
           NEW l, l = InsertAt(List(c, i), pos + 1, e), l \in Seq(Events),
           NEW d, d = Place(c, i, pos, e, unique)
    PROVE  /\ Changed(c, i, l, d) /\ Kept(c, d)
           /\ d.buckets_[i].count_ = c.buckets_[i].count_ + (IF unique THEN 1 ELSE 0)
           /\ d.qsize_ = c.qsize_ + 1
           /\ d.stat_qsize_ = c.stat_qsize_ + (IF unique THEN 1 ELSE 0)
<1>1. /\ c.buckets_ \in [0..(c.nbuckets_ - 1) -> [list_ : Seq(Events), count_ : Nat]]
      /\ c.nbuckets_ \in Nat /\ c.buckets_[i].count_ \in Nat
  BY BucketLemma
<1> DEFINE more == IF unique THEN 1 ELSE 0
           b == [list_ |-> l, count_ |-> c.buckets_[i].count_ + more]
           bs == [c.buckets_ EXCEPT ![i] = b]
<1>2. d = [c EXCEPT !.buckets_ = bs, !.stat_qsize_ = c.stat_qsize_ + more,
                    !.qsize_ = c.qsize_ + 1]
  BY DEF Place, List
<1>3. more \in 0..1
  OBVIOUS
<1>4. b \in [list_ : Seq(Events), count_ : Nat]
  BY <1>1, <1>3
<1>5. bs \in [0..(c.nbuckets_ - 1) -> [list_ : Seq(Events), count_ : Nat]]
  BY <1>1, <1>4
<1>6. bs \in BucketArrays
  BY <1>1, <1>5 DEF BucketArrays
<1>7. bs[i] = b /\ \A j \in 0..(c.nbuckets_ - 1) \ {i} : bs[j] = c.buckets_[j]
  BY <1>1
<1>8. DOMAIN bs = 0..(c.nbuckets_ - 1)
  BY <1>5
<1> HIDE DEF bs, more
<1>30. c.stat_qsize_ + more \in Nat /\ c.qsize_ + 1 \in Nat
  <2>1. c.stat_qsize_ \in Nat /\ c.qsize_ \in Nat
    BY DEF IsCalendar, Calendars
  <2>2. more \in Nat
    BY <1>3
  <2> QED  BY <2>1, <2>2
<1>9. d \in Calendars
  BY <1>2, <1>30, <1>6 DEF IsCalendar, Calendars
<1>10. /\ d.buckets_ = bs /\ d.nbuckets_ = c.nbuckets_ /\ d.width_ = c.width_
       /\ d.cal_clock_ = c.cal_clock_ /\ d.lastbucket_ = c.lastbucket_
       /\ d.stat_qsize_ = c.stat_qsize_ + more /\ d.qsize_ = c.qsize_ + 1
       /\ d.gap_num_ = c.gap_num_ /\ d.last_time_ = c.last_time_
       /\ d.avg_gap_ = c.avg_gap_ /\ d.round_num_ = c.round_num_
  BY <1>2 DEF IsCalendar, Calendars
<1>11. IsCalendar(d)
  BY <1>8, <1>9, <1>10 DEF IsCalendar
<1> QED  BY <1>7, <1>10, <1>11 DEF Changed, Kept, Settings, more

\* What unlinking an event from a bucket changes.
LEMMA UnlinkShape ==
    ASSUME NEW c, IsCalendar(c), NEW i \in 0..(c.nbuckets_ - 1), NEW k \in Nat,
           NEW alone \in BOOLEAN,
           NEW l, l = RemoveAt(List(c, i), k), l \in Seq(Events),
           c.qsize_ > 0, c.stat_qsize_ > 0, c.buckets_[i].count_ > 0,
           NEW d, d = Unlink(c, i, k, alone)
    PROVE  /\ Changed(c, i, l, d) /\ Kept(c, d)
           /\ d.buckets_[i].count_ = c.buckets_[i].count_ - (IF alone THEN 1 ELSE 0)
           /\ d.qsize_ = c.qsize_ - 1
           /\ d.stat_qsize_ = c.stat_qsize_ - (IF alone THEN 1 ELSE 0)
<1>1. /\ c.buckets_ \in [0..(c.nbuckets_ - 1) -> [list_ : Seq(Events), count_ : Nat]]
      /\ c.nbuckets_ \in Nat /\ c.buckets_[i].count_ \in Nat
  BY BucketLemma
<1>0. c.qsize_ - 1 \in Nat /\ c.stat_qsize_ \in Nat
  BY DEF IsCalendar, Calendars
<1> DEFINE less == IF alone THEN 1 ELSE 0
           b == [list_ |-> l, count_ |-> c.buckets_[i].count_ - less]
           bs == [c.buckets_ EXCEPT ![i] = b]
<1>2. d = [c EXCEPT !.buckets_ = bs, !.stat_qsize_ = c.stat_qsize_ - less,
                    !.qsize_ = c.qsize_ - 1]
  BY DEF Unlink, List
<1>3. less \in 0..1
  OBVIOUS
<1>4. b \in [list_ : Seq(Events), count_ : Nat]
  BY <1>1, <1>3
<1>5. bs \in [0..(c.nbuckets_ - 1) -> [list_ : Seq(Events), count_ : Nat]]
  BY <1>1, <1>4
<1>6. bs \in BucketArrays
  BY <1>1, <1>5 DEF BucketArrays
<1>7. bs[i] = b /\ \A j \in 0..(c.nbuckets_ - 1) \ {i} : bs[j] = c.buckets_[j]
  BY <1>1
<1>8. DOMAIN bs = 0..(c.nbuckets_ - 1)
  BY <1>5
<1> HIDE DEF bs, less
<1>30. c.stat_qsize_ - less \in Nat
  BY <1>0, <1>3
<1>9. d \in Calendars
  BY <1>0, <1>2, <1>30, <1>6 DEF IsCalendar, Calendars
<1>10. /\ d.buckets_ = bs /\ d.nbuckets_ = c.nbuckets_ /\ d.width_ = c.width_
       /\ d.cal_clock_ = c.cal_clock_ /\ d.lastbucket_ = c.lastbucket_
       /\ d.stat_qsize_ = c.stat_qsize_ - less /\ d.qsize_ = c.qsize_ - 1
       /\ d.gap_num_ = c.gap_num_ /\ d.last_time_ = c.last_time_
       /\ d.avg_gap_ = c.avg_gap_ /\ d.round_num_ = c.round_num_
  BY <1>2 DEF IsCalendar, Calendars
<1>11. IsCalendar(d)
  BY <1>8, <1>9, <1>10 DEF IsCalendar
<1> QED  BY <1>7, <1>10, <1>11 DEF Changed, Kept, Settings, less

\* One event more.
LEMMA PlaceLemma ==
    ASSUME NEW c, Sound(c), NEW e \in Events, c.cal_clock_ <= e.time,
           NEW i, i = Hash(c, e.time), NEW pos \in 0..Len(List(c, i)),
           \A k \in 1..Len(List(c, i)) :
              IF k <= pos THEN Earlier(List(c, i)[k], e) ELSE Earlier(e, List(c, i)[k]),
           NEW unique \in BOOLEAN,
           unique <=> \A k \in 1..Len(List(c, i)) : List(c, i)[k].time # e.time,
           NEW d, d = Place(c, i, pos, e, unique)
    PROVE  /\ Sound(d) /\ Settings(c) = Settings(d) /\ Kept(c, d)
           /\ d.cal_clock_ = c.cal_clock_
           /\ e \notin Queued(c) /\ Queued(d) = Queued(c) \cup {e}
<1> DEFINE n == c.nbuckets_
<1>0. /\ IsCalendar(c) /\ \A j \in 0..(n - 1) : BucketSound(c, j)
      /\ Counted(c) /\ \A f \in Queued(c) : c.cal_clock_ <= f.time
      /\ c.lastbucket_ = Hash(c, c.cal_clock_)
  BY DEF Sound
<1>1. /\ \A f \in Events : Hash(c, f.time) \in 0..(n - 1)
      /\ \A f \in Events : f \in Queued(c) <=> f \in ToSet(List(c, Hash(c, f.time)))
      /\ \A j \in 0..(n - 1) : \A f \in ToSet(List(c, j)) : f \in Events /\ Hash(c, f.time) = j
  BY <1>0, InBucket
<1>2. i \in 0..(n - 1)
  BY <1>1
<1>3. PICK l \in Seq(Events) : l = List(c, i)
  BY <1>0, <1>2, BucketLemma
<1>4. Len(l) \in Nat /\ InOrder(l)
  BY <1>0, <1>2, <1>3, LenProperties DEF BucketSound
<1>5. PICK m : m = InsertAt(l, pos + 1, e)
  OBVIOUS
<1>6. /\ m \in Seq(Events) /\ Len(m) = Len(l) + 1
      /\ InOrder(m)
      /\ ToSet(m) = ToSet(l) \cup {e} /\ e \notin ToSet(l)
  <2>1. PICK p : p = pos + 1
    OBVIOUS
  <2>2. p \in 1..(Len(l) + 1) /\ \A k \in 1..Len(l) : k < p <=> k <= pos
    BY <1>3, <1>4, <2>1
  <2>3. \A k \in 1..Len(l) : IF k < p THEN Earlier(l[k], e) ELSE Earlier(e, l[k])
    BY <1>3, <2>2
  <2> QED  BY <1>4, <1>5, <2>1, <2>2, <2>3, InsertInOrder
<1>7. /\ Changed(c, i, m, d) /\ Kept(c, d)
      /\ d.buckets_[i].count_ = c.buckets_[i].count_ + (IF unique THEN 1 ELSE 0)
      /\ d.qsize_ = c.qsize_ + 1
      /\ d.stat_qsize_ = c.stat_qsize_ + (IF unique THEN 1 ELSE 0)
  BY <1>0, <1>2, <1>3, <1>5, <1>6, PlaceShape
<1>8. /\ IsCalendar(d) /\ d.nbuckets_ = n /\ Settings(c) = Settings(d)
      /\ List(d, i) = m
      /\ \A j \in 0..(n - 1) \ {i} : d.buckets_[j] = c.buckets_[j] /\ List(d, j) = List(c, j)
  BY <1>7 DEF Changed, Settings, List
<1>9. \A t : Hash(d, t) = Hash(c, t)
  BY <1>8, SameHash
<1>10. Queued(d) = Queued(c) \cup {e} /\ Queued(c) \subseteq Events
  <2>1. /\ Queued(c) \subseteq Events
        /\ \A f : f \in Queued(c) <=> \E j \in 0..(n - 1) : f \in ToSet(List(c, j))
        /\ \A f : f \in Queued(d) <=> \E j \in 0..(n - 1) : f \in ToSet(List(d, j))
    BY <1>0, <1>8, QueuedLemma
  <2>2. ASSUME NEW f \in Queued(d) PROVE f \in Queued(c) \cup {e}
    BY <1>2, <1>3, <1>6, <1>8, <2>1
  <2>3. ASSUME NEW f \in Queued(c) \cup {e} PROVE f \in Queued(d)
    BY <1>2, <1>3, <1>6, <1>8, <2>1
  <2> QED  BY <2>1, <2>2, <2>3
<1>11. e \notin Queued(c)
  BY <1>1, <1>3, <1>6
<1>12. /\ ToSet(l) \subseteq Events
       /\ \A x : x \in ToSet(l) <=> \E k \in 1..Len(l) : x = l[k]
       /\ \A x : x \in ToSet(m) <=> \E k \in 1..Len(m) : x = m[k]
  BY <1>6, ToSetLemma
<1>13. e.time \in TimesOf(ToSet(l)) <=> ~unique
  BY <1>3, <1>12 DEF TimesOf
<1>14. e.time \in TimesOf(Queued(c)) <=> ~unique
  <2>1. ASSUME NEW f \in Queued(c), f.time = e.time PROVE f \in ToSet(l)
    BY <1>1, <1>3, <1>10, <2>1
  <2>2. ToSet(l) \subseteq Queued(c)
    BY <1>0, <1>2, <1>3, QueuedLemma
  <2> QED  BY <1>13, <2>1, <2>2 DEF TimesOf
<1>15. IsFiniteSet(ToSet(l))
  <2>1. ToSet(l) \subseteq Queued(c)
    BY <1>0, <1>2, <1>3, QueuedLemma
  <2> QED  BY <1>0, <2>1, FS_Subset DEF Counted
<1>16. ASSUME NEW j \in 0..(n - 1) PROVE BucketSound(d, j)
  <2>1. CASE j # i
    BY <1>0, <1>8, <1>9, <2>1 DEF BucketSound
  <2>2. CASE j = i
    <3>1. \A k \in 1..Len(m) : Hash(d, m[k].time) = i
      <4>1. \A x \in ToSet(m) : Hash(d, x.time) = i
        BY <1>1, <1>2, <1>3, <1>6, <1>9
      <4> QED  BY <1>12, <4>1
    <3>2. d.buckets_[i].count_ = Cardinality(TimesOf(ToSet(m)))
      <4>1. c.buckets_[i].count_ = Cardinality(TimesOf(ToSet(l)))
        BY <1>0, <1>2, <1>3 DEF BucketSound
      <4>2. PICK S : S = ToSet(l)
        OBVIOUS
      <4>3. Cardinality(TimesOf(S \cup {e})) =
                 Cardinality(TimesOf(S)) + (IF e.time \in TimesOf(S) THEN 0 ELSE 1)
        BY <1>6, <1>12, <1>15, <4>2, TimesAdd
      <4> QED  BY <1>6, <1>7, <1>13, <4>1, <4>2, <4>3
    <3> QED  BY <1>6, <1>8, <2>2, <3>1, <3>2 DEF BucketSound
  <2> QED  BY <2>1, <2>2
<1>17. Counted(d)
  <2>1. PICK S : S = Queued(c)
    OBVIOUS
  <2>2. /\ IsFiniteSet(S \cup {e}) /\ Cardinality(S \cup {e}) = Cardinality(S) + 1
        /\ Cardinality(TimesOf(S \cup {e})) =
                 Cardinality(TimesOf(S)) + (IF e.time \in TimesOf(S) THEN 0 ELSE 1)
    BY <1>0, <1>10, <1>11, <2>1, TimesAdd DEF Counted
  <2> QED  BY <1>0, <1>7, <1>10, <1>14, <2>1, <2>2 DEF Counted
<1>18. d.cal_clock_ = c.cal_clock_ /\ d.lastbucket_ = c.lastbucket_
  BY <1>7 DEF Changed
<1>19. Sound(d)
  BY <1>0, <1>8, <1>9, <1>10, <1>16, <1>17, <1>18 DEF Sound
<1> QED  BY <1>7, <1>8, <1>10, <1>11, <1>18, <1>19

\* One event less.
LEMMA UnlinkLemma ==
    ASSUME NEW c, Sound(c), NEW i \in 0..(c.nbuckets_ - 1), NEW k \in 1..Len(List(c, i)),
           NEW e, e = List(c, i)[k], NEW alone \in BOOLEAN,
           alone <=> \A j \in 1..Len(List(c, i)) : j # k => List(c, i)[j].time # e.time,
           NEW d, d = Unlink(c, i, k, alone)
    PROVE  /\ Sound(d) /\ Settings(c) = Settings(d) /\ Kept(c, d)
           /\ d.cal_clock_ = c.cal_clock_
           /\ e \in Queued(c) /\ Queued(d) = Queued(c) \ {e}
<1> DEFINE n == c.nbuckets_
<1>0. /\ IsCalendar(c) /\ \A j \in 0..(n - 1) : BucketSound(c, j)
      /\ Counted(c) /\ \A f \in Queued(c) : c.cal_clock_ <= f.time
      /\ c.lastbucket_ = Hash(c, c.cal_clock_)
  BY DEF Sound
<1>1. /\ \A f \in Events : Hash(c, f.time) \in 0..(n - 1)
      /\ \A f \in Events : f \in Queued(c) <=> f \in ToSet(List(c, Hash(c, f.time)))
      /\ \A j \in 0..(n - 1) : \A f \in ToSet(List(c, j)) : f \in Events /\ Hash(c, f.time) = j
  BY <1>0, InBucket
<1>3. PICK l \in Seq(Events) : l = List(c, i)
  BY <1>0, BucketLemma
<1>4. Len(l) \in Nat /\ InOrder(l)
  BY <1>0, <1>3, LenProperties DEF BucketSound
<1>5. PICK m : m = RemoveAt(l, k)
  OBVIOUS
<1>6. /\ m \in Seq(Events) /\ Len(m) = Len(l) - 1
      /\ InOrder(m)
      /\ ToSet(m) = ToSet(l) \ {e}
  BY <1>3, <1>4, <1>5, RemoveInOrder
<1>12. /\ ToSet(l) \subseteq Events
       /\ \A x : x \in ToSet(l) <=> \E j \in 1..Len(l) : x = l[j]
       /\ \A x : x \in ToSet(m) <=> \E j \in 1..Len(m) : x = m[j]
  BY <1>6, ToSetLemma
<1>13. ToSet(l) \subseteq Queued(c) /\ e \in ToSet(l) /\ Queued(c) \subseteq Events
  BY <1>0, <1>3, <1>12, QueuedLemma
<1>15. IsFiniteSet(ToSet(l)) /\ IsFiniteSet(Queued(c))
  BY <1>0, <1>13, FS_Subset DEF Counted
<1>20. /\ IsFiniteSet(Queued(c) \ {e})
       /\ Cardinality(Queued(c) \ {e}) = Cardinality(Queued(c)) - 1
       /\ Cardinality(TimesOf(Queued(c) \ {e})) =
             Cardinality(TimesOf(Queued(c))) -
                (IF \E f \in Queued(c) \ {e} : f.time = e.time THEN 0 ELSE 1)
       /\ Cardinality(TimesOf(Queued(c))) > 0 /\ Cardinality(Queued(c)) > 0
  <2>1. PICK S : S = Queued(c)
    OBVIOUS
  <2>2. e \in S /\ S \subseteq Events /\ IsFiniteSet(S)
    BY <1>13, <1>15, <2>1
  <2>3. Cardinality(S) > 0
    BY <2>2, TimesLemma
  <2> QED  BY <2>1, <2>2, <2>3, TimesRemove
<1>21. /\ Cardinality(TimesOf(ToSet(l) \ {e})) =
             Cardinality(TimesOf(ToSet(l))) -
                (IF \E f \in ToSet(l) \ {e} : f.time = e.time THEN 0 ELSE 1)
       /\ Cardinality(TimesOf(ToSet(l))) > 0
  <2>1. PICK S : S = ToSet(l)
    OBVIOUS
  <2>2. e \in S /\ S \subseteq Events /\ IsFiniteSet(S)
    BY <1>12, <1>13, <1>15, <2>1
  <2> QED  BY <2>1, <2>2, TimesRemove
<1>22. c.buckets_[i].count_ = Cardinality(TimesOf(ToSet(l)))
  BY <1>0, <1>3 DEF BucketSound
<1>7. /\ Changed(c, i, m, d) /\ Kept(c, d)
      /\ d.buckets_[i].count_ = c.buckets_[i].count_ - (IF alone THEN 1 ELSE 0)
      /\ d.qsize_ = c.qsize_ - 1
      /\ d.stat_qsize_ = c.stat_qsize_ - (IF alone THEN 1 ELSE 0)
  <2>1. c.qsize_ > 0 /\ c.stat_qsize_ > 0 /\ c.buckets_[i].count_ > 0
    BY <1>0, <1>20, <1>21, <1>22 DEF Counted
  <2>2. k \in Nat
    BY <1>3, <1>4
  <2> QED  BY <1>0, <1>3, <1>5, <1>6, <2>1, <2>2, UnlinkShape
<1>8. /\ IsCalendar(d) /\ d.nbuckets_ = n /\ Settings(c) = Settings(d)
      /\ List(d, i) = m
      /\ \A j \in 0..(n - 1) \ {i} : d.buckets_[j] = c.buckets_[j] /\ List(d, j) = List(c, j)
  BY <1>7 DEF Changed, Settings, List
<1>9. \A t : Hash(d, t) = Hash(c, t)
  BY <1>8, SameHash
<1>10. Queued(d) = Queued(c) \ {e}
  <2>1. /\ \A f : f \in Queued(c) <=> \E j \in 0..(n - 1) : f \in ToSet(List(c, j))
        /\ \A f : f \in Queued(d) <=> \E j \in 0..(n - 1) : f \in ToSet(List(d, j))
    BY <1>0, <1>8, QueuedLemma
  <2>2. ASSUME NEW f \in Queued(d) PROVE f \in Queued(c) \ {e}
    <3>1. PICK j \in 0..(n - 1) : f \in ToSet(List(d, j))
      BY <2>1
    <3>2. CASE j = i
      BY <1>3, <1>6, <1>8, <2>1, <3>1, <3>2
    <3>3. CASE j # i
      <4>1. f \in ToSet(List(c, j)) /\ Hash(c, f.time) = j /\ Hash(c, e.time) = i
        BY <1>1, <1>3, <1>8, <1>13, <3>1, <3>3
      <4> QED  BY <2>1, <3>3, <4>1
    <3> QED  BY <3>2, <3>3
  <2>3. ASSUME NEW f \in Queued(c) \ {e} PROVE f \in Queued(d)
    <3>1. PICK j \in 0..(n - 1) : f \in ToSet(List(c, j))
      BY <2>1
    <3> QED  BY <1>3, <1>6, <1>8, <2>1, <3>1
  <2> QED  BY <2>2, <2>3
<1>14. /\ (\E f \in ToSet(l) \ {e} : f.time = e.time) <=> ~alone
       /\ (\E f \in Queued(c) \ {e} : f.time = e.time) <=> ~alone
  <2>1. ASSUME NEW j \in 1..Len(l), j # k PROVE l[j] # e
    <3>1. j < k \/ k < j
      BY <1>3, <1>4, <2>1
    <3>2. l[j] \in Events /\ l[k] \in Events /\ l[k] = e
      BY <1>3, ElementOfSeq
    <3>3. Earlier(l[j], l[k]) \/ Earlier(l[k], l[j])
      BY <1>3, <1>4, <2>1, <3>1 DEF InOrder
    <3> QED  BY <3>2, <3>3, EarlierLemma
  <2>2. (\E f \in ToSet(l) \ {e} : f.time = e.time) <=> \E j \in 1..Len(l) : j # k /\ l[j].time = e.time
    BY <1>3, <1>12, <2>1
  <2>3. ASSUME NEW f \in Queued(c), f.time = e.time PROVE f \in ToSet(l)
    BY <1>1, <1>3, <1>13, <2>3
  <2> QED  BY <1>3, <1>13, <2>2, <2>3
<1>16. ASSUME NEW j \in 0..(n - 1) PROVE BucketSound(d, j)
  <2>1. CASE j # i
    BY <1>0, <1>8, <1>9, <2>1 DEF BucketSound
  <2>2. CASE j = i
    <3>1. \A x \in 1..Len(m) : Hash(d, m[x].time) = i
      <4>1. \A x \in ToSet(m) : Hash(d, x.time) = i
        BY <1>1, <1>3, <1>6, <1>9
      <4> QED  BY <1>12, <4>1
    <3>2. d.buckets_[i].count_ = Cardinality(TimesOf(ToSet(m)))
      BY <1>6, <1>7, <1>14, <1>21, <1>22
    <3> QED  BY <1>6, <1>8, <2>2, <3>1, <3>2 DEF BucketSound
  <2> QED  BY <2>1, <2>2
<1>17. Counted(d)
  BY <1>0, <1>7, <1>10, <1>14, <1>20 DEF Counted
<1>18. d.cal_clock_ = c.cal_clock_ /\ d.lastbucket_ = c.lastbucket_
  BY <1>7 DEF Changed
<1>19. Sound(d)
  BY <1>0, <1>8, <1>9, <1>10, <1>16, <1>17, <1>18 DEF Sound
<1> QED  BY <1>7, <1>8, <1>10, <1>13, <1>18, <1>19

AtTime(c, t, i) == [c EXCEPT !.cal_clock_ = t, !.lastbucket_ = i]

\* The clock is set, to a time not past any event.
LEMMA ClockLemma ==
    ASSUME NEW c, Sound(c), NEW t \in Nat, \A e \in Queued(c) : t <= e.time,
           NEW i, i = Hash(c, t),
           NEW d, d = AtTime(c, t, i)
    PROVE  /\ Sound(d) /\ Settings(c) = Settings(d) /\ Kept(c, d)
           /\ d.cal_clock_ = t /\ d.lastbucket_ = i
           /\ d.buckets_ = c.buckets_ /\ Queued(d) = Queued(c)
           /\ d.qsize_ = c.qsize_
<1>0. /\ IsCalendar(c) /\ \A j \in 0..(c.nbuckets_ - 1) : BucketSound(c, j)
      /\ Counted(c)
  BY DEF Sound
<1>1. i \in Nat
  <2>1. c.width_ \in Ratio /\ c.nbuckets_ \in Nat \ {0}
    BY <1>0, BucketLemma
  <2> QED  BY <2>1, HashLemma
<1>2. /\ d \in Calendars /\ d.cal_clock_ = t /\ d.lastbucket_ = i
      /\ d.buckets_ = c.buckets_ /\ d.nbuckets_ = c.nbuckets_ /\ d.width_ = c.width_
      /\ d.qsize_ = c.qsize_ /\ d.stat_qsize_ = c.stat_qsize_
      /\ d.gap_num_ = c.gap_num_ /\ d.last_time_ = c.last_time_
      /\ d.avg_gap_ = c.avg_gap_ /\ d.round_num_ = c.round_num_
  BY <1>0, <1>1 DEF AtTime, IsCalendar, Calendars
<1>3. IsCalendar(d) /\ Queued(d) = Queued(c) /\ Settings(c) = Settings(d) /\ Kept(c, d)
  <2>1. Queued(d) = Queued(c)
    BY <1>2 DEF Queued
  <2>2. IsCalendar(d)
    BY <1>0, <1>2 DEF IsCalendar
  <2> QED  BY <1>2, <2>1, <2>2 DEF Settings, Kept
<1>4. \A u : Hash(d, u) = Hash(c, u)
  BY <1>3, SameHash
<1>5. \A j \in 0..(d.nbuckets_ - 1) : BucketSound(d, j)
  BY <1>0, <1>2, <1>4 DEF BucketSound, List
<1>6. Counted(d)
  BY <1>0, <1>2, <1>3 DEF Counted
<1> QED  BY <1>2, <1>3, <1>4, <1>5, <1>6 DEF Sound

\* A position in an ordered list of the events from a time on.
LEMMA LaterLemma ==
    ASSUME NEW l \in Seq(Events), InOrder(l)
    PROVE  /\ Len(l) \in Nat /\ DOMAIN l = 1..Len(l)
           /\ \A k \in 1..Len(l) : /\ l[k] \in Events /\ l[k].time \in Nat /\ l[k].uid \in Nat
                                   /\ l[k] \in ToSet(l)
           /\ \A j, k \in 1..Len(l) : j <= k => l[j].time <= l[k].time
<1>1. Len(l) \in Nat /\ DOMAIN l = 1..Len(l) /\ \A k \in 1..Len(l) : l[k] \in Events
  BY LenProperties, ElementOfSeq
<1>2. \A k \in 1..Len(l) : l[k].time \in Nat /\ l[k].uid \in Nat /\ l[k] \in ToSet(l)
  BY <1>1 DEF Events, ToSet
<1>3. ASSUME NEW j \in 1..Len(l), NEW k \in 1..Len(l), j <= k
      PROVE  l[j].time <= l[k].time
  <2>1. CASE j = k
    BY <1>2, <2>1
  <2>2. CASE j < k
    BY <1>2, <2>2 DEF InOrder, Earlier
  <2> QED  BY <1>1, <1>3, <2>1, <2>2
<1> QED  BY <1>1, <1>2, <1>3

\* insert2, which puts an event before those of its time, keeps the calendar sound.
LEMMA Insert2Lemma ==
    ASSUME NEW c, Sound(c), NEW e \in Events, c.cal_clock_ <= e.time,
           \A f \in Queued(c) : f.time = e.time => e.uid < f.uid,
           NEW d, d = insert2(c, e)
    PROVE  /\ Sound(d) /\ Settings(c) = Settings(d) /\ Kept(c, d)
           /\ d.cal_clock_ = c.cal_clock_
           /\ e \notin Queued(c) /\ Queued(d) = Queued(c) \cup {e}
<1>0. IsCalendar(c) /\ \A j \in 0..(c.nbuckets_ - 1) : BucketSound(c, j)
  BY DEF Sound
<1>1. PICK i \in 0..(c.nbuckets_ - 1) : i = Hash(c, e.time)
  BY <1>0, InBucket
<1>2. PICK l \in Seq(Events) : l = c.buckets_[i].list_ /\ l = List(c, i) /\ InOrder(l)
  BY <1>0, <1>1, BucketLemma DEF List, BucketSound
<1>3. /\ Len(l) \in Nat /\ DOMAIN l = 1..Len(l)
      /\ \A k \in 1..Len(l) : /\ l[k] \in Events /\ l[k].time \in Nat /\ l[k].uid \in Nat
                              /\ l[k] \in ToSet(l)
      /\ \A j, k \in 1..Len(l) : j <= k => l[j].time <= l[k].time
  BY <1>2, LaterLemma
<1> DEFINE later == {k \in DOMAIN l : l[k].time >= e.time}
           pos == IF later = {} THEN Len(l) ELSE Min(later) - 1
           unique == pos = Len(l) \/ l[pos + 1].time # e.time
<1>4. d = Place(c, i, pos, e, unique)
  BY <1>1, <1>2 DEF insert2
<1>5. e.time \in Nat /\ e.uid \in Nat
  BY DEF Events
<1>6. /\ pos \in 0..Len(l)
      /\ \A k \in 1..Len(l) : IF k <= pos THEN l[k].time < e.time ELSE l[k].time >= e.time
  <2>1. CASE later = {}
    <3>1. \A k \in 1..Len(l) : ~(l[k].time >= e.time)
      BY <1>3, <2>1
    <3> QED  BY <1>3, <1>5, <2>1, <3>1
  <2>2. CASE later # {}
    <3>1. later \in SUBSET Nat /\ later \subseteq 1..Len(l)
      BY <1>3
    <3>2. PICK m : m = Min(later)
      OBVIOUS
    <3>3. m \in later /\ \A y \in later : m <= y
      <4> HIDE DEF later
      <4> QED  BY <2>2, <3>1, <3>2, MinLemma
    <3>4. m \in 1..Len(l) /\ l[m].time >= e.time
      BY <1>3, <3>3
    <3>5. \A k \in 1..Len(l) : k < m => l[k].time < e.time
      <4>1. \A k \in 1..Len(l) : k < m => k \notin later
        BY <3>3, <3>4
      <4> QED  BY <1>3, <1>5, <4>1
    <3>6. \A k \in 1..Len(l) : k >= m => l[k].time >= e.time
      BY <1>3, <1>5, <3>4
    <3>7. pos = m - 1
      BY <2>2, <3>2
    <3> HIDE DEF pos, later
    <3> QED  BY <1>3, <3>4, <3>5, <3>6, <3>7
  <2> QED  BY <2>1, <2>2
<1>7. unique <=> \A k \in 1..Len(l) : l[k].time # e.time
  <2> HIDE DEF pos
  <2>1. CASE pos = Len(l)
    <3>1. \A k \in 1..Len(l) : l[k].time < e.time
      BY <1>3, <1>6, <2>1
    <3> QED  BY <1>3, <1>5, <2>1, <3>1
  <2>2. CASE pos # Len(l)
    <3>0. pos \in Nat /\ Len(l) \in Nat /\ pos < Len(l)
      <4>1. pos \in 0..Len(l)
        BY <1>6
      <4>2. Len(l) \in Nat
        BY <1>3
      <4> QED  BY <2>2, <4>1, <4>2
    <3>1. pos + 1 \in 1..Len(l) /\ \A k \in 1..Len(l) : k <= pos \/ pos + 1 <= k
      BY <3>0
    <3>2. l[pos + 1].time >= e.time /\ (unique <=> l[pos + 1].time # e.time)
      <4>1. ~(pos + 1 <= pos)
        BY <3>0
      <4> QED  BY <1>6, <2>2, <3>1, <4>1
    <3>3. ASSUME l[pos + 1].time # e.time, NEW k \in 1..Len(l) PROVE l[k].time # e.time
      <4>1. CASE k <= pos
        BY <1>3, <1>5, <1>6, <4>1
      <4>2. CASE pos + 1 <= k
        <5>1. l[pos + 1].time <= l[k].time
          BY <1>3, <3>1, <4>2
        <5> QED  BY <1>3, <1>5, <3>1, <3>2, <3>3, <5>1
      <4> QED  BY <3>1, <4>1, <4>2
    <3> QED  BY <3>1, <3>2, <3>3
  <2> QED  BY <2>1, <2>2
<1>8. \A k \in 1..Len(l) : IF k <= pos THEN Earlier(l[k], e) ELSE Earlier(e, l[k])
  <2>1. ASSUME NEW k \in 1..Len(l), l[k].time = e.time PROVE e.uid < l[k].uid
    <3>1. l[k] \in Queued(c)
      BY <1>0, <1>1, <1>2, <1>3, QueuedLemma
    <3> QED  BY <2>1, <3>1
  <2> HIDE DEF pos
  <2> QED  BY <1>3, <1>5, <1>6, <2>1 DEF Earlier
<1>9. unique \in BOOLEAN
  OBVIOUS
<1>10. PICK p, u : p = pos /\ u = unique
  OBVIOUS
<1> HIDE DEF pos, unique
<1>11. /\ d = Place(c, i, p, e, u) /\ p \in 0..Len(List(c, i)) /\ u \in BOOLEAN
       /\ u <=> \A k \in 1..Len(List(c, i)) : List(c, i)[k].time # e.time
       /\ \A k \in 1..Len(List(c, i)) :
             IF k <= p THEN Earlier(List(c, i)[k], e) ELSE Earlier(e, List(c, i)[k])
  BY <1>2, <1>4, <1>6, <1>7, <1>8, <1>9, <1>10
<1> QED  BY <1>1, <1>11, PlaceLemma

\* insert before it looks at the size.
InsertPlain(c, e) ==
    LET d == IF c.cal_clock_ > e.time
             THEN [c EXCEPT !.cal_clock_ = e.time, !.lastbucket_ = Hash(c, e.time)]
             ELSE c
        i == Hash(c, e.time)
        l == c.buckets_[i].list_
        pos == IF l = <<>> \/ e.time < l[1].time THEN 0
               ELSE Max({k \in DOMAIN l : l[k].time <= e.time})
    IN  Place(d, i, pos, e, pos = 0 \/ l[pos].time < e.time)

\* insert, before it resizes, keeps the calendar sound.
LEMMA InsertPlainLemma ==
    ASSUME NEW c, Sound(c), NEW e \in Events,
           \A f \in Queued(c) : f.time = e.time => f.uid < e.uid,
           NEW d, d = InsertPlain(c, e)
    PROVE  /\ Sound(d) /\ Settings(c) = Settings(d) /\ Kept(c, d)
           /\ e \notin Queued(c) /\ Queued(d) = Queued(c) \cup {e}
<1>0. /\ IsCalendar(c) /\ \A j \in 0..(c.nbuckets_ - 1) : BucketSound(c, j)
      /\ \A f \in Queued(c) : c.cal_clock_ <= f.time
  BY DEF Sound
<1>1. PICK i \in 0..(c.nbuckets_ - 1) : i = Hash(c, e.time)
  BY <1>0, InBucket
<1>2. PICK l \in Seq(Events) : l = c.buckets_[i].list_ /\ l = List(c, i) /\ InOrder(l)
  BY <1>0, <1>1, BucketLemma DEF List, BucketSound
<1>3. /\ Len(l) \in Nat /\ DOMAIN l = 1..Len(l)
      /\ \A k \in 1..Len(l) : /\ l[k] \in Events /\ l[k].time \in Nat /\ l[k].uid \in Nat
                              /\ l[k] \in ToSet(l)
      /\ \A j, k \in 1..Len(l) : j <= k => l[j].time <= l[k].time
  BY <1>2, LaterLemma
<1>5. e.time \in Nat /\ e.uid \in Nat /\ c.cal_clock_ \in Nat
  BY <1>0 DEF Events, IsCalendar, Calendars
<1> DEFINE b == IF c.cal_clock_ > e.time
                THEN [c EXCEPT !.cal_clock_ = e.time, !.lastbucket_ = i]
                ELSE c
           S == {k \in DOMAIN l : l[k].time <= e.time}
           pos == IF l = <<>> \/ e.time < l[1].time THEN 0 ELSE Max(S)
           unique == pos = 0 \/ l[pos].time < e.time
<1>4. d = Place(b, i, pos, e, unique)
  BY <1>1, <1>2 DEF InsertPlain
<1>20. /\ Sound(b) /\ Settings(c) = Settings(b) /\ Kept(c, b)
       /\ b.cal_clock_ <= e.time /\ b.buckets_ = c.buckets_ /\ Queued(b) = Queued(c)
  <2>1. CASE c.cal_clock_ > e.time
    <3>1. \A f \in Queued(c) : e.time <= f.time
      <4>1. Queued(c) \subseteq Events
        BY <1>0, QueuedLemma
      <4> QED  BY <1>0, <1>5, <2>1, <4>1 DEF Events
    <3>2. b = [c EXCEPT !.cal_clock_ = e.time, !.lastbucket_ = i]
      BY <2>1
    <3> HIDE DEF b
    <3>3. PICK t \in Nat : t = e.time
      BY <1>5
    <3>5. /\ \A f \in Queued(c) : t <= f.time
          /\ i = Hash(c, t) /\ b = AtTime(c, t, i)
      BY <1>1, <3>1, <3>2, <3>3 DEF AtTime
    <3>4. /\ Sound(b) /\ Settings(c) = Settings(b) /\ Kept(c, b)
          /\ b.cal_clock_ = t /\ b.buckets_ = c.buckets_ /\ Queued(b) = Queued(c)
      BY <3>5, ClockLemma
    <3> QED  BY <3>3, <3>4
  <2>2. CASE ~(c.cal_clock_ > e.time)
    <3>1. b = c
      BY <2>2
    <3> HIDE DEF b
    <3> QED  BY <1>5, <2>2, <3>1 DEF Kept
  <2> QED  BY <2>1, <2>2
<1>21. /\ b.nbuckets_ = c.nbuckets_ /\ i = Hash(b, e.time) /\ List(b, i) = l
  BY <1>1, <1>2, <1>20, SameHash DEF Settings, List
<1> HIDE DEF b
<1>6. /\ pos \in 0..Len(l)
      /\ \A k \in 1..Len(l) : IF k <= pos THEN l[k].time <= e.time ELSE l[k].time > e.time
  <2>0. l = <<>> <=> Len(l) = 0
    BY EmptySeq
  <2>1. CASE l = <<>>
    <3> QED  BY <1>3, <2>0, <2>1
  <2>2. CASE l # <<>> /\ e.time < l[1].time
    <3>1. \A k \in 1..Len(l) : l[1].time <= l[k].time /\ 1 \in 1..Len(l)
      BY <1>3
    <3>2. pos = 0
      BY <2>2
    <3> HIDE DEF pos
    <3> QED  BY <1>3, <1>5, <2>2, <3>1, <3>2
  <2>3. CASE l # <<>> /\ ~(e.time < l[1].time)
    <3>1. 1 \in 1..Len(l)
      BY <1>3, <2>0, <2>3
    <3>2. 1 \in S /\ S \in SUBSET (0..Len(l)) /\ S \subseteq 1..Len(l)
      BY <1>3, <1>5, <2>3, <3>1
    <3>3. PICK m : m = Max(S)
      OBVIOUS
    <3>4. m \in S /\ \A y \in S : y <= m
      <4> HIDE DEF S
      <4> QED  BY <1>3, <3>2, <3>3, MaxLemma
    <3>5. m \in 1..Len(l) /\ l[m].time <= e.time
      BY <1>3, <3>4
    <3>6. \A k \in 1..Len(l) : k > m => l[k].time > e.time
      <4>1. \A k \in 1..Len(l) : k > m => k \notin S
        BY <3>4, <3>5
      <4> QED  BY <1>3, <1>5, <4>1
    <3>7. \A k \in 1..Len(l) : k <= m => l[k].time <= e.time
      BY <1>3, <1>5, <3>5
    <3>8. pos = m
      BY <2>3, <3>3
    <3> HIDE DEF pos, S
    <3> QED  BY <1>3, <3>5, <3>6, <3>7, <3>8
  <2> QED  BY <2>1, <2>2, <2>3
<1>7. unique <=> \A k \in 1..Len(l) : l[k].time # e.time
  <2> HIDE DEF pos
  <2>1. CASE pos = 0
    <3>1. \A k \in 1..Len(l) : l[k].time > e.time
      BY <1>3, <1>6, <2>1
    <3> QED  BY <1>3, <1>5, <2>1, <3>1
  <2>2. CASE pos # 0
    <3>1. pos \in 1..Len(l)
      BY <1>3, <1>6, <2>2
    <3>2. l[pos].time <= e.time /\ (unique <=> l[pos].time < e.time)
      BY <1>3, <1>6, <2>2, <3>1
    <3>3. ASSUME l[pos].time < e.time, NEW k \in 1..Len(l) PROVE l[k].time # e.time
      <4>1. CASE k <= pos
        <5>1. l[k].time <= l[pos].time
          BY <1>3, <3>1, <4>1
        <5> QED  BY <1>3, <1>5, <3>1, <3>3, <5>1
      <4>2. CASE ~(k <= pos)
        BY <1>3, <1>5, <1>6, <4>2
      <4> QED  BY <4>1, <4>2
    <3> QED  BY <1>3, <1>5, <3>1, <3>2, <3>3
  <2> QED  BY <2>1, <2>2
<1>8. \A k \in 1..Len(l) : IF k <= pos THEN Earlier(l[k], e) ELSE Earlier(e, l[k])
  <2>1. ASSUME NEW k \in 1..Len(l), l[k].time = e.time PROVE l[k].uid < e.uid
    <3>1. l[k] \in Queued(c)
      BY <1>0, <1>1, <1>2, <1>3, QueuedLemma
    <3> QED  BY <2>1, <3>1
  <2> HIDE DEF pos
  <2> QED  BY <1>3, <1>5, <1>6, <2>1 DEF Earlier
<1>9. unique \in BOOLEAN
  OBVIOUS
<1>10. PICK p, u : p = pos /\ u = unique
  OBVIOUS
<1> HIDE DEF pos, unique
<1>11. /\ d = Place(b, i, p, e, u) /\ p \in 0..Len(List(b, i)) /\ u \in BOOLEAN
       /\ u <=> \A k \in 1..Len(List(b, i)) : List(b, i)[k].time # e.time
       /\ \A k \in 1..Len(List(b, i)) :
             IF k <= p THEN Earlier(List(b, i)[k], e) ELSE Earlier(e, List(b, i)[k])
  BY <1>21, <1>4, <1>6, <1>7, <1>8, <1>9, <1>10
<1>12. /\ Sound(d) /\ Settings(b) = Settings(d) /\ Kept(b, d)
       /\ e \notin Queued(b) /\ Queued(d) = Queued(b) \cup {e}
  BY <1>11, <1>20, <1>21, PlaceLemma
<1> QED  BY <1>12, <1>20 DEF Kept

\* An event is cancelled, whatever its neighbors are.
LEMMA CancelLemma ==
    ASSUME NEW c, Sound(c), NEW e \in Queued(c), NEW d, d = cancel(c, e)
    PROVE  /\ Sound(d) /\ Settings(c) = Settings(d) /\ Kept(c, d)
           /\ d.cal_clock_ = c.cal_clock_
           /\ Queued(d) = Queued(c) \ {e}
<1>0. IsCalendar(c) /\ \A j \in 0..(c.nbuckets_ - 1) : BucketSound(c, j)
  BY DEF Sound
<1>00. e \in Events
  BY <1>0, QueuedLemma
<1>1. PICK i \in 0..(c.nbuckets_ - 1) : i = Hash(c, e.time)
  BY <1>0, <1>00, InBucket
<1>2. PICK l \in Seq(Events) : l = c.buckets_[i].list_ /\ l = List(c, i) /\ InOrder(l)
  BY <1>0, <1>1, BucketLemma DEF List, BucketSound
<1>3. /\ Len(l) \in Nat /\ DOMAIN l = 1..Len(l)
      /\ \A k \in 1..Len(l) : /\ l[k] \in Events /\ l[k].time \in Nat /\ l[k].uid \in Nat
                              /\ l[k] \in ToSet(l)
      /\ \A j, k \in 1..Len(l) : j <= k => l[j].time <= l[k].time
  BY <1>2, LaterLemma
<1> DEFINE k == CHOOSE j \in DOMAIN l : l[j] = e
           next == l[(k % Len(l)) + 1]
           prev == IF k = 1 THEN Last(l) ELSE l[k - 1]
           alone == Len(l) = 1 \/ (next.time # e.time /\ prev.time # e.time)
<1>4. d = Unlink(c, i, k, alone)
  BY <1>1, <1>2 DEF cancel
<1>5. k \in 1..Len(l) /\ l[k] = e
  <2>1. e \in ToSet(l)
    BY <1>00, <1>0, <1>1, <1>2, InBucket
  <2>2. \E j \in DOMAIN l : l[j] = e
    BY <2>1 DEF ToSet
  <2> QED  BY <1>3, <2>2
<1> HIDE DEF k
<1>6. e.time \in Nat
  BY <1>00 DEF Events
<1>7. k % Len(l) = IF k = Len(l) THEN 0 ELSE k
  <2>1. k \in 0..Len(l) /\ Len(l) \in Nat \ {0}
    BY <1>3, <1>5
  <2> QED  BY <2>1, SmallMod
<1> HIDE DEF alone
<1>8. alone <=> \A j \in 1..Len(l) : j # k => l[j].time # e.time
  <2>0. k \in Nat /\ Len(l) \in Nat /\ k \in 1..Len(l)
    BY <1>3, <1>5
  <2>1. ASSUME alone, NEW j \in 1..Len(l), j # k, l[j].time = e.time PROVE FALSE
    <3>1. Len(l) # 1
      BY <1>3, <1>5, <2>1
    <3>2. CASE j < k
      <4>1. k # 1 /\ k - 1 \in 1..Len(l) /\ j <= k - 1 /\ k - 1 <= k
        BY <2>0, <3>2
      <4>2. l[j].time <= l[k - 1].time /\ l[k - 1].time <= l[k].time
        BY <1>3, <1>5, <4>1
      <4>3. l[k - 1].time = e.time
        BY <1>3, <1>5, <1>6, <2>1, <4>1, <4>2
      <4> QED  BY <2>1, <3>1, <4>1, <4>3 DEF alone
    <3>3. CASE j > k
      <4>1. k # Len(l) /\ k + 1 \in 1..Len(l) /\ k + 1 <= j /\ k <= k + 1
        BY <2>0, <3>3
      <4>2. l[k].time <= l[k + 1].time /\ l[k + 1].time <= l[j].time
        BY <1>3, <1>5, <4>1
      <4>4. l[j].time = e.time /\ l[k].time = e.time /\ l[k + 1].time \in Nat
        BY <1>3, <1>5, <2>1, <4>1
      <4>3. l[k + 1].time = e.time
        BY <1>6, <4>2, <4>4
      <4> QED  BY <1>7, <2>1, <3>1, <4>1, <4>3 DEF alone
    <3> QED  BY <1>3, <1>5, <2>1, <3>2, <3>3
  <2>2. ASSUME \A j \in 1..Len(l) : j # k => l[j].time # e.time PROVE alone
    <3>1. SUFFICES ASSUME Len(l) # 1 PROVE next.time # e.time /\ prev.time # e.time
      BY DEF alone
    <3>2. PICK m : m = (k % Len(l)) + 1
      OBVIOUS
    <3>3. m \in 1..Len(l) /\ m # k
      <4>1. m = IF k = Len(l) THEN 1 ELSE k + 1
        BY <1>7, <2>0, <3>2
      <4>2. k \in 1..Len(l)
        BY <1>5
      <4>3. CASE k = Len(l)
        BY <2>0, <3>1, <4>1, <4>2, <4>3
      <4>4. CASE k # Len(l)
        BY <2>0, <4>1, <4>2, <4>4
      <4> QED  BY <4>3, <4>4
    <3>4. k = 1 => Len(l) \in 1..Len(l) /\ Len(l) # k
      BY <1>3, <1>5, <3>1
    <3>5. k # 1 => k - 1 \in 1..Len(l) /\ k - 1 # k
      BY <1>3, <1>5
    <3> QED  BY <2>2, <3>2, <3>3, <3>4, <3>5 DEF Last
  <2> QED  BY <2>1, <2>2
<1>9. PICK u \in BOOLEAN : u = alone
  BY DEF alone
<1>10. /\ Sound(d) /\ Settings(c) = Settings(d) /\ Kept(c, d)
       /\ d.cal_clock_ = c.cal_clock_ /\ Queued(d) = Queued(c) \ {e}
  BY <1>2, <1>4, <1>5, <1>8, <1>9, UnlinkLemma
<1> QED  BY <1>10

-----------------------------------------------------------------------------
(* The search for the next event. *)

\* e is the event to be served first.
FirstOf(S, e) == e \in S /\ \A f \in S \ {e} : Earlier(e, f)

\* The bucket that head finds begins with the event that is due first.
LEMMA FoundLemma ==
    ASSUME NEW c, Sound(c), Queued(c) # {}, NEW b, b = FoundBucket(c)
    PROVE  /\ b \in 0..(c.nbuckets_ - 1) /\ Len(List(c, b)) > 0
           /\ FirstOf(Queued(c), List(c, b)[1])
<1> DEFINE n == c.nbuckets_
           s == c.lastbucket_
           t0 == c.cal_clock_
           Bucket(k) == (c.lastbucket_ + k) % c.nbuckets_
           HeadTime(k) == c.buckets_[Bucket(k)].list_[1].time
           Full == {k \in 0..(c.nbuckets_ - 1) : c.buckets_[Bucket(k)].list_ # <<>>}
           Found == {k \in Full \ {c.nbuckets_ - 1} :
                        InYear(c, k, HeadTime(k) - c.cal_clock_)}
           Least == CHOOSE k \in Full : \A m \in Full : HeadTime(k) <= HeadTime(m)
<1>0. /\ IsCalendar(c) /\ \A j \in 0..(n - 1) : BucketSound(c, j)
      /\ \A f \in Queued(c) : t0 <= f.time
      /\ s = Hash(c, t0)
  BY DEF Sound
<1>1. /\ n \in Nat /\ n >= 4 /\ c.width_ \in Ratio /\ t0 \in Nat /\ s \in 0..(n - 1)
      /\ \A j \in 0..(n - 1) : List(c, j) \in Seq(Events) /\ InOrder(List(c, j))
  <2>1. n \in Nat /\ n >= 4 /\ c.width_ \in Ratio
        /\ \A j \in 0..(n - 1) : List(c, j) \in Seq(Events)
    BY <1>0, BucketLemma
  <2>2. t0 \in Nat
    BY <1>0 DEF IsCalendar, Calendars
  <2>3. c.nbuckets_ \in Nat \ {0}
    BY <2>1
  <2>4. s \in 0..(n - 1)
    BY <1>0, <2>1, <2>2, <2>3, HashLemma
  <2> QED  BY <1>0, <2>1, <2>2, <2>4 DEF BucketSound
<1>2. b = IF Found # {} THEN Bucket(Min(Found)) ELSE Bucket(Least)
  BY DEF FoundBucket
<1>3. /\ \A k \in 0..(n - 1) : Bucket(k) \in 0..(n - 1)
      /\ \A i \in 0..(n - 1) : \E k \in 0..(n - 1) : Bucket(k) = i
  <2>0. PICK nn \in Nat \ {0} : nn = n
    BY <1>1
  <2>1. PICK ss \in 0..(nn - 1) : ss = s /\ nn = n
    BY <1>1, <2>0
  <2>2. /\ \A k \in 0..(nn - 1) : (ss + k) % nn = IF ss + k < nn THEN ss + k ELSE ss + k - nn
        /\ \A i \in 0..(nn - 1) : \E k \in 0..(nn - 1) : (ss + k) % nn = i
    BY RoundLemma
  <2>3. \A k \in 0..(nn - 1) : (ss + k) % nn \in 0..(nn - 1)
    BY <2>2
  <2> QED  BY <2>1, <2>2, <2>3
<1> DEFINE H(k) == List(c, Bucket(k))[1]
<1>4. ASSUME NEW k \in Full
      PROVE  /\ k \in 0..(n - 1) /\ Len(List(c, Bucket(k))) > 0
             /\ H(k) \in Queued(c) /\ H(k) \in Events /\ HeadTime(k) = H(k).time
             /\ HeadTime(k) \in Nat /\ t0 <= HeadTime(k)
             /\ Hash(c, HeadTime(k)) = (s + k) % n
  <2>1. PICK i \in 0..(n - 1) : i = Bucket(k)
    BY <1>3
  <2>2. PICK l \in Seq(Events) : l = List(c, i) /\ l # <<>> /\ InOrder(l)
    BY <1>1, <2>1 DEF List
  <2>3. /\ Len(l) \in Nat /\ \A x \in 1..Len(l) : l[x] \in Events /\ l[x].time \in Nat /\ l[x] \in ToSet(l)
    BY <2>2, LaterLemma
  <2>4. Len(l) > 0 /\ 1 \in 1..Len(l)
    BY <2>2, <2>3, EmptySeq
  <2>5. l[1] \in Queued(c) /\ Hash(c, l[1].time) = i
    BY <1>0, <2>2, <2>3, <2>4, QueuedLemma DEF BucketSound
  <2> QED  BY <1>0, <2>1, <2>2, <2>3, <2>4, <2>5 DEF List
<1>5. ASSUME NEW f \in Queued(c)
      PROVE  \E k \in Full : /\ Bucket(k) = Hash(c, f.time) /\ f \in Events
                             /\ f \in ToSet(List(c, Bucket(k))) /\ HeadTime(k) <= f.time
  <2>1. PICK i \in 0..(n - 1) : i = Hash(c, f.time) /\ f \in ToSet(List(c, i)) /\ f \in Events
    BY <1>0, InBucket, QueuedLemma
  <2>2. PICK l \in Seq(Events) : l = List(c, i) /\ InOrder(l)
    BY <1>1, <2>1
  <2>3. /\ Len(l) \in Nat /\ DOMAIN l = 1..Len(l)
        /\ \A x \in 1..Len(l) : l[x].time \in Nat
        /\ \A j, k \in 1..Len(l) : j <= k => l[j].time <= l[k].time
    BY <2>2, LaterLemma
  <2>4. PICK x \in 1..Len(l) : f = l[x]
    BY <2>1, <2>2, <2>3 DEF ToSet
  <2>5. 1 \in 1..Len(l) /\ 1 <= x /\ l # <<>>
    BY <2>3, <2>4, EmptySeq
  <2>6. PICK k \in 0..(n - 1) : Bucket(k) = i
    BY <1>3
  <2>7. k \in Full
    BY <2>2, <2>5, <2>6 DEF List
  <2>8. HeadTime(k) <= f.time
    BY <2>2, <2>3, <2>4, <2>5, <2>6 DEF List
  <2> QED  BY <2>1, <2>6, <2>7, <2>8
<1>6. Full # {}
  BY <1>5
<1>7. ASSUME NEW k \in Full
      PROVE  /\ Day(c, HeadTime(k)) \in Nat /\ Day(c, t0) \in Nat
             /\ Day(c, HeadTime(k)) - Day(c, t0) >= k
             /\ k # n - 1 => (k \in Found <=> Day(c, HeadTime(k)) - Day(c, t0) = k)
             /\ k \notin Found => \/ k = n - 1
                                  \/ Day(c, HeadTime(k)) - Day(c, t0) >= n + k
             /\ k \in Found => k # n - 1
  <2>1. PICK t \in Nat : t = HeadTime(k) /\ t0 <= t /\ Hash(c, t) = (s + k) % n
    BY <1>4
  <2>2. k \in 0..(c.nbuckets_ - 1) /\ Hash(c, t) = (Hash(c, t0) + k) % c.nbuckets_
    BY <1>0, <1>4, <2>1
  <2>3. /\ Day(c, t) - Day(c, t0) >= k
        /\ k # c.nbuckets_ - 1 =>
                 (InYear(c, k, t - t0) <=> Day(c, t) - Day(c, t0) = k)
        /\ Day(c, t) - Day(c, t0) # k => Day(c, t) - Day(c, t0) >= c.nbuckets_ + k
    <3> HIDE DEF Full, HeadTime
    <3>1. PICK u \in Nat : u = t0
      BY <1>1
    <3>2. PICK j \in 0..(c.nbuckets_ - 1) : j = k
      BY <2>2
    <3>3. u <= t /\ Hash(c, t) = (Hash(c, u) + j) % c.nbuckets_
      BY <2>1, <2>2, <3>1, <3>2
    <3>4. c.width_ \in Ratio /\ c.nbuckets_ \in Nat /\ c.nbuckets_ >= 4
      BY <1>1
    <3>5. /\ Day(c, t) - Day(c, u) >= j
          /\ j # c.nbuckets_ - 1 =>
                   (InYear(c, j, t - u) <=> Day(c, t) - Day(c, u) = j)
          /\ Day(c, t) - Day(c, u) # j => Day(c, t) - Day(c, u) >= c.nbuckets_ + j
      BY ONLY <3>3, <3>4, InYearLemma
    <3> QED  BY <3>1, <3>2, <3>5
  <2>4. k \in Found <=> k # n - 1 /\ InYear(c, k, t - t0)
    BY <2>1
  <2>5. Day(c, t) \in Nat /\ Day(c, t0) \in Nat
    <3>1. PICK w \in Ratio : w = c.width_
      BY <1>1
    <3> QED  BY <1>1, <2>1, <3>1, DayLemma
  <2> HIDE DEF Found, Full, HeadTime
  <2> QED  BY <2>1, <2>3, <2>4, <2>5
<1>8. PICK k \in Full : b = Bucket(k) /\ \A m \in Full : HeadTime(k) <= HeadTime(m)
  <2>1. CASE Found # {}
    <3>1. PICK k : k = Min(Found)
      OBVIOUS
    <3>2. k \in Found /\ \A m \in Found : k <= m
      <4>1. Found \in SUBSET Nat
        BY <1>1
      <4> HIDE DEF Found
      <4> QED  BY <2>1, <3>1, <4>1, MinLemma
    <3>3. k \in Full /\ b = Bucket(k)
      BY <1>2, <2>1, <3>1, <3>2
    <3>4. ASSUME NEW m \in Full PROVE HeadTime(k) <= HeadTime(m)
      <4>0. /\ k \in 0..(n - 1) /\ m \in 0..(n - 1) /\ k # n - 1
            /\ HeadTime(k) \in Nat /\ HeadTime(m) \in Nat
            /\ Day(c, HeadTime(k)) = Day(c, t0) + k /\ Day(c, t0) \in Nat
            /\ Day(c, HeadTime(k)) \in Nat /\ Day(c, HeadTime(m)) \in Nat
        <5>1. k \in 0..(n - 1) /\ m \in 0..(n - 1) /\ HeadTime(k) \in Nat /\ HeadTime(m) \in Nat
          BY <1>4, <3>3
        <5>2. /\ k # n - 1 /\ Day(c, HeadTime(k)) - Day(c, t0) = k
              /\ Day(c, t0) \in Nat /\ Day(c, HeadTime(k)) \in Nat
          BY <1>7, <3>2, <3>3
        <5>3. Day(c, HeadTime(m)) \in Nat
          BY <1>7
        <5> HIDE DEF HeadTime, Full, Found
        <5>4. PICK x \in Nat, y \in Nat : x = Day(c, HeadTime(k)) /\ y = Day(c, t0)
          BY <5>2
        <5>5. x = y + k
          BY <5>1, <5>2, <5>4
        <5> QED  BY <5>1, <5>2, <5>3, <5>4, <5>5
      <4>1. CASE m = k
        <5> HIDE DEF HeadTime
        <5>1. PICK x \in Nat : x = HeadTime(k)
          BY <4>0
        <5> QED  BY <4>1, <5>1
      <4>2. CASE m # k
        <5>1. Day(c, HeadTime(m)) - Day(c, t0) > k
          <6>1. Day(c, HeadTime(m)) - Day(c, t0) >= m
            BY <1>7
          <6>2. m < k => Day(c, HeadTime(m)) - Day(c, t0) >= n + m
            <7> SUFFICES ASSUME m < k PROVE Day(c, HeadTime(m)) - Day(c, t0) >= n + m
              OBVIOUS
            <7>1. m \notin Found /\ m # n - 1
              <8>1. ~(k <= m) /\ m # n - 1
                BY <4>0, <1>1
              <8> QED  BY <3>2, <8>1
            <7> QED  BY <1>7, <7>1
          <6> HIDE DEF HeadTime, Found, Full
          <6>3. PICK dm \in Nat, d0 \in Nat : dm = Day(c, HeadTime(m)) /\ d0 = Day(c, t0)
            BY <4>0
          <6>4. dm - d0 >= m /\ (m < k => dm - d0 >= n + m) /\ m # k
            BY <4>2, <6>1, <6>2, <6>3
          <6>5. dm - d0 > k
            BY <4>0, <1>1, <6>4
          <6> QED  BY <6>3, <6>5
        <5>2. Day(c, HeadTime(m)) > Day(c, HeadTime(k))
          <6> HIDE DEF HeadTime
          <6> QED  BY <4>0, <5>1
        <5>3. ASSUME HeadTime(m) < HeadTime(k) PROVE FALSE
          <6>1. PICK u \in Nat, v \in Nat, w \in Ratio :
                   u = HeadTime(m) /\ v = HeadTime(k) /\ w = c.width_
            BY <1>1, <4>0
          <6>2. u <= v
            BY <5>3, <6>1
          <6>3. Day(c, u) <= Day(c, v)
            BY <6>1, <6>2, DayLemma
          <6>4. Day(c, u) > Day(c, v) /\ Day(c, u) \in Nat /\ Day(c, v) \in Nat
            BY <4>0, <5>2, <6>1
          <6> QED  BY <6>3, <6>4
        <5> HIDE DEF HeadTime
        <5> QED  BY <4>0, <5>3
      <4> QED  BY <4>1, <4>2
    <3> QED  BY <3>3, <3>4
  <2>2. CASE Found = {}
    <3>1. \E k \in Full : \A m \in Full : HeadTime(k) <= HeadTime(m)
      <4> DEFINE T == {HeadTime(k) : k \in Full}
      <4>1. T \in SUBSET Nat /\ T # {}
        BY <1>4, <1>6
      <4>2. PICK x : x \in T /\ \A y \in T : x <= y
        <5> HIDE DEF T
        <5> QED  BY <4>1, MinLemma
      <4>3. PICK k \in Full : x = HeadTime(k)
        BY <4>2
      <4>4. \A m \in Full : HeadTime(k) <= HeadTime(m)
        BY <4>2, <4>3
      <4> QED  BY <4>4
    <3>2. Least \in Full /\ \A m \in Full : HeadTime(Least) <= HeadTime(m)
      <4> HIDE DEF Full, HeadTime
      <4> QED  BY <3>1
    <3>3. b = Bucket(Least)
      BY <1>2, <2>2
    <3> HIDE DEF Least
    <3> QED  BY <3>2, <3>3
  <2> QED  BY <2>1, <2>2
<1>9. b \in 0..(n - 1) /\ Len(List(c, b)) > 0
  BY <1>3, <1>4, <1>8
<1>10. PICK e, l : /\ e = List(c, b)[1] /\ l = List(c, b) /\ l \in Seq(Events) /\ InOrder(l)
                   /\ e \in Queued(c) /\ e = l[1] /\ e \in Events /\ HeadTime(k) = e.time
                   /\ Hash(c, e.time) = b
  BY <1>0, <1>1, <1>4, <1>8, <1>9
<1>11. ASSUME NEW f \in Queued(c) \ {e} PROVE Earlier(e, f)
  <2>1. PICK m \in Full : /\ Bucket(m) = Hash(c, f.time) /\ f \in Events
                          /\ f \in ToSet(List(c, Bucket(m))) /\ HeadTime(m) <= f.time
    BY <1>5
  <2>2. CASE Bucket(m) = b
    <3>1. PICK x \in DOMAIN l : f = l[x]
      BY <1>10, <2>1, <2>2 DEF ToSet
    <3>2. x \in 1..Len(l) /\ x # 1 /\ Len(l) \in Nat
      <4>1. Len(l) \in Nat /\ DOMAIN l = 1..Len(l)
        BY <1>10, LaterLemma
      <4> QED  BY <1>10, <3>1, <4>1
    <3>3. 1 \in 1..Len(l) /\ 1 < x
      BY <3>2
    <3> QED  BY <1>10, <3>1, <3>2, <3>3 DEF InOrder
  <2>3. CASE Bucket(m) # b
    <3>1. e.time # f.time
      BY <1>10, <2>1, <2>3
    <3>2. HeadTime(k) <= HeadTime(m)
      BY <1>8
    <3>3. e.time \in Nat /\ f.time \in Nat /\ HeadTime(m) \in Nat
      BY <1>4, <1>10, <2>1 DEF Events
    <3>4. e.time <= HeadTime(m) /\ HeadTime(m) <= f.time
      BY <1>10, <2>1, <3>2
    <3> HIDE DEF HeadTime
    <3>5. e.time < f.time
      BY <3>1, <3>3, <3>4
    <3> QED  BY <3>5 DEF Earlier
  <2> QED  BY <2>2, <2>3
<1> QED  BY <1>9, <1>10, <1>11 DEF FirstOf

\* Where head() leaves the calendar.
LEMMA HeadLemma ==
    ASSUME NEW c, Sound(c), Queued(c) # {}, NEW d, d = head(c), NEW e, e = HeadEvent(d)
    PROVE  /\ Sound(d) /\ Settings(c) = Settings(d) /\ Kept(c, d)
           /\ Queued(d) = Queued(c)
           /\ FirstOf(Queued(c), e) /\ d.cal_clock_ = e.time
<1>1. PICK b : b = FoundBucket(c)
  OBVIOUS
<1>2. /\ b \in 0..(c.nbuckets_ - 1) /\ Len(List(c, b)) > 0
      /\ FirstOf(Queued(c), List(c, b)[1])
  BY <1>1, FoundLemma
<1>3. PICK f : f = List(c, b)[1]
  OBVIOUS
<1>4. /\ IsCalendar(c) /\ \A j \in 0..(c.nbuckets_ - 1) : BucketSound(c, j)
      /\ Counted(c)
  BY DEF Sound
<1>5. f \in Events /\ f.time \in Nat
  <2>1. Queued(c) \subseteq Events
    BY <1>4, QueuedLemma
  <2>2. f \in Events
    BY <1>2, <1>3, <2>1 DEF FirstOf
  <2> QED  BY <2>2 DEF Events
<1>6. Hash(c, f.time) = b
  <2>1. List(c, b) \in Seq(Events)
    BY <1>2, <1>4, BucketLemma
  <2>2. 1 \in 1..Len(List(c, b))
    BY <1>2, <2>1, LenProperties
  <2> QED  BY <1>2, <1>3, <1>4, <2>2 DEF BucketSound
<1>7. c.qsize_ # 0
  <2>1. PICK S : S = Queued(c) /\ S # {} /\ IsFiniteSet(S) /\ S \in SUBSET Events
    BY <1>4, QueuedLemma DEF Counted
  <2>2. Cardinality(S) > 0 /\ Cardinality(S) \in Nat
    BY <2>1, TimesLemma
  <2>3. c.qsize_ = Cardinality(S)
    BY <1>4, <2>1 DEF Counted
  <2>4. Cardinality(S) # 0
    BY <2>2
  <2> QED  BY <2>3, <2>4
<1>8. d = AtTime(c, f.time, b)
  BY <1>1, <1>3, <1>7 DEF head, List, AtTime
<1>9. \A g \in Queued(c) : f.time <= g.time
  <2> SUFFICES ASSUME NEW g \in Queued(c) PROVE f.time <= g.time
    OBVIOUS
  <2>1. g \in Events
    BY <1>4, QueuedLemma
  <2> QED  BY <1>2, <1>3, <1>5, <2>1 DEF FirstOf, Earlier, Events
<1>10. PICK t \in Nat : t = f.time
  BY <1>5
<1>11. /\ Sound(d) /\ Settings(c) = Settings(d) /\ Kept(c, d)
       /\ d.cal_clock_ = t /\ d.lastbucket_ = b
       /\ d.buckets_ = c.buckets_ /\ Queued(d) = Queued(c)
  BY <1>6, <1>8, <1>9, <1>10, ClockLemma
<1>12. e = f
  BY <1>3, <1>11 DEF HeadEvent, List
<1> QED  BY <1>2, <1>3, <1>10, <1>11, <1>12

-----------------------------------------------------------------------------
(* Refilling the buckets. *)

\* Induction up to a bound, for a set.
LEMMA BoundedInduction ==
    ASSUME NEW n \in Nat, NEW S, 0 \in S, \A i \in 0..(n - 1) : i \in S => i + 1 \in S
    PROVE  \A i \in 0..n : i \in S
<1> DEFINE T == {i \in 0..n : i \notin S}
<1>1. T \in SUBSET Nat
  OBVIOUS
<1>2. SUFFICES ASSUME T # {} PROVE FALSE
  OBVIOUS
<1>3. PICK k : k \in T /\ \A y \in T : k <= y
  <2> HIDE DEF T
  <2> QED  BY <1>1, <1>2, MinLemma
<1>4. k \in 1..n
  BY <1>3
<1>5. k - 1 \in 0..(n - 1) /\ k - 1 \notin T /\ (k - 1) + 1 = k
  BY <1>3, <1>4
<1>6. k - 1 \in S
  BY <1>5
<1> QED  BY <1>3, <1>5, <1>6

\* The largest number of a subset of 1..(k+1) is k+1, or the subset is one of 1..k.
LEMMA SubsetLemma ==
    ASSUME NEW k \in Nat, NEW s \in SUBSET (1..(k + 1))
    PROVE  /\ s # {} => Max(s) \in s /\ \A y \in s : y <= Max(s)
           /\ k + 1 \in s => Max(s) = k + 1
           /\ k + 1 \notin s => s \in SUBSET (1..k)
           /\ s \ {k + 1} \in SUBSET (1..k)
<1>1. ASSUME s # {} PROVE Max(s) \in s /\ \A y \in s : y <= Max(s)
  <2>1. s \in SUBSET (0..(k + 1))
    OBVIOUS
  <2>2. k + 1 \in Nat
    OBVIOUS
  <2>3. PICK m \in Nat : m = k + 1
    BY <2>2
  <2>4. s \in SUBSET (0..m)
    BY <2>1, <2>3
  <2> QED  BY <1>1, <2>4, MaxLemma
<1>2. ASSUME k + 1 \in s PROVE Max(s) = k + 1
  <2>1. PICK m : m = Max(s)
    OBVIOUS
  <2>2. m \in 1..(k + 1) /\ k + 1 <= m
    BY <1>1, <1>2, <2>1
  <2> QED  BY <2>1, <2>2
<1>3. \A x \in 1..(k + 1) : x # k + 1 => x \in 1..k
  OBVIOUS
<1> QED  BY <1>1, <1>2, <1>3

\* The initial segments of a sequence.
LEMMA SegmentLemma ==
    ASSUME NEW k \in Nat
    PROVE  /\ Max(1..(k + 1)) = k + 1
           /\ (1..(k + 1)) \ {k + 1} = 1..k
           /\ 1..(k + 1) # {}
           /\ 1..0 = {}
<1>1. 1..(k + 1) \in SUBSET (1..(k + 1)) /\ k + 1 \in 1..(k + 1)
  OBVIOUS
<1>2. PICK s : s = 1..(k + 1)
  OBVIOUS
<1>3. Max(s) = k + 1
  BY <1>1, <1>2, SubsetLemma
<1> QED  BY <1>1, <1>2, <1>3

\* F is the function that defines the fold of insert2 over a sequence.
IsRefill(F, D, base, seq) ==
    F = [s \in SUBSET D |-> IF s = {} THEN base
                            ELSE insert2(F[s \ {Max(s)}], seq[Max(s)])]

\* The fold of resize reaches one event further.
LEMMA RefillLonger ==
    ASSUME NEW base, NEW seq, NEW k \in Nat, NEW F, IsRefill(F, 1..k, base, seq)
    PROVE  \E G : IsRefill(G, 1..(k + 1), base, seq)
<1> DEFINE G == [s \in SUBSET (1..(k + 1)) |->
                    IF k + 1 \in s THEN insert2(F[s \ {k + 1}], seq[k + 1]) ELSE F[s]]
           Body(s) == IF s = {} THEN base ELSE insert2(G[s \ {Max(s)}], seq[Max(s)])
<1>1. ASSUME NEW s \in SUBSET (1..k)
      PROVE  /\ F[s] = IF s = {} THEN base ELSE insert2(F[s \ {Max(s)}], seq[Max(s)])
             /\ s \in SUBSET (1..(k + 1)) /\ G[s] = F[s]
  <2>1. F[s] = IF s = {} THEN base ELSE insert2(F[s \ {Max(s)}], seq[Max(s)])
    BY DEF IsRefill
  <2>2. s \in SUBSET (1..(k + 1)) /\ k + 1 \notin s
    OBVIOUS
  <2> QED  BY <2>1, <2>2
<1>2. ASSUME NEW s \in SUBSET (1..(k + 1)) PROVE G[s] = Body(s)
  <2>1. CASE k + 1 \in s
    <3>1. Max(s) = k + 1 /\ s \ {k + 1} \in SUBSET (1..k) /\ s # {}
      BY <2>1, SubsetLemma
    <3>2. G[s \ {k + 1}] = F[s \ {k + 1}]
      BY <1>1, <3>1
    <3>3. G[s] = insert2(F[s \ {k + 1}], seq[k + 1])
      BY <2>1
    <3> HIDE DEF G
    <3> QED  BY <3>1, <3>2, <3>3
  <2>2. CASE k + 1 \notin s
    <3>1. s \in SUBSET (1..k)
      BY <2>2, SubsetLemma
    <3>2. s \ {Max(s)} \in SUBSET (1..k)
      BY <3>1
    <3>3. G[s] = F[s] /\ G[s \ {Max(s)}] = F[s \ {Max(s)}]
      BY <1>1, <3>1, <3>2
    <3>4. F[s] = IF s = {} THEN base ELSE insert2(F[s \ {Max(s)}], seq[Max(s)])
      BY <1>1, <3>1
    <3> HIDE DEF G
    <3> QED  BY <3>3, <3>4
  <2> QED  BY <2>1, <2>2
<1> DEFINE H == [s \in SUBSET (1..(k + 1)) |-> Body(s)]
<1>3. G = H
  <2>1. \A s \in SUBSET (1..(k + 1)) : G[s] = H[s]
    <3> HIDE DEF G, Body
    <3> QED  BY <1>2
  <2>2. /\ G = [s \in SUBSET (1..(k + 1)) |-> G[s]]
        /\ H = [s \in SUBSET (1..(k + 1)) |-> H[s]]
    OBVIOUS
  <2> HIDE DEF G, H
  <2> QED  BY <2>1, <2>2
<1>4. IsRefill(G, 1..(k + 1), base, seq)
  <2> HIDE DEF G
  <2> QED  BY <1>3 DEF IsRefill
<1> HIDE DEF G
<1> QED  BY <1>4

\* The fold of resize reaches every event.
LEMMA RefillExists ==
    ASSUME NEW base, NEW seq, NEW n \in Nat
    PROVE  \E F : IsRefill(F, 1..n, base, seq)
<1> DEFINE S == {k \in Nat : \E F : IsRefill(F, 1..k, base, seq)}
<1>1. 0 \in S
  <2> DEFINE F == [s \in SUBSET (1..0) |-> base]
             H == [s \in SUBSET (1..0) |-> IF s = {} THEN base
                                            ELSE insert2(F[s \ {Max(s)}], seq[Max(s)])]
  <2>1. \A s \in SUBSET (1..0) : s = {}
    OBVIOUS
  <2>2. F = H
    <3>1. \A s \in SUBSET (1..0) : F[s] = base /\ H[s] = base
      BY <2>1
    <3>2. /\ F = [s \in SUBSET (1..0) |-> F[s]]
          /\ H = [s \in SUBSET (1..0) |-> H[s]]
      OBVIOUS
    <3> HIDE DEF F, H
    <3> QED  BY <3>1, <3>2
  <2>3. IsRefill(F, 1..0, base, seq)
    <3> HIDE DEF F
    <3> QED  BY <2>2 DEF IsRefill
  <2> QED  BY <2>3
<1>2. \A k \in 0..(n - 1) : k \in S => k + 1 \in S
  BY RefillLonger
<1>3. \A k \in 0..n : k \in S
  <2> HIDE DEF S
  <2> QED  BY <1>1, <1>2, BoundedInduction
<1> QED  BY <1>3

Refill(base, seq) == FoldLeft(insert2, base, seq)

\* The calendars that the fold passes through.
LEMMA RefillRun ==
    ASSUME NEW base, NEW seq, NEW n \in Nat, DOMAIN seq = 1..n
    PROVE  \E g : /\ g[0] = base
                  /\ \A i \in 0..(n - 1) : g[i + 1] = insert2(g[i], seq[i + 1])
                  /\ Refill(base, seq) = g[n]
<1> DEFINE F == CHOOSE G : IsRefill(G, 1..n, base, seq)
           g == [i \in 0..n |-> F[1..i]]
<1>1. IsRefill(F, 1..n, base, seq)
  BY RefillExists
<1>2. Refill(base, seq) = F[1..n]
  BY DEF Refill, FoldLeft, MapThenFoldSet, IsRefill
<1> HIDE DEF F
<1>3. \A s \in SUBSET (1..n) : F[s] = IF s = {} THEN base
                                      ELSE insert2(F[s \ {Max(s)}], seq[Max(s)])
  BY <1>1 DEF IsRefill
<1>4. g[0] = base
  <2>1. F[{}] = base
    BY <1>3
  <2> QED  BY <2>1, SegmentLemma
<1>5. ASSUME NEW i \in 0..(n - 1) PROVE g[i + 1] = insert2(g[i], seq[i + 1])
  <2>1. 1..(i + 1) \in SUBSET (1..n) /\ i \in 0..n /\ i + 1 \in 0..n
    OBVIOUS
  <2>2. /\ Max(1..(i + 1)) = i + 1 /\ (1..(i + 1)) \ {i + 1} = 1..i /\ 1..(i + 1) # {}
    <3>1. PICK j \in Nat : j = i
      OBVIOUS
    <3>2. /\ Max(1..(j + 1)) = j + 1 /\ (1..(j + 1)) \ {j + 1} = 1..j /\ 1..(j + 1) # {}
      BY SegmentLemma
    <3> QED  BY <3>1, <3>2
  <2>3. F[1..(i + 1)] = insert2(F[1..i], seq[i + 1])
    BY <1>3, <2>1, <2>2
  <2> QED  BY <2>1, <2>3
<1>6. Refill(base, seq) = g[n]
  BY <1>2
<1> HIDE DEF g
<1> QED  BY <1>4, <1>5, <1>6

\* A sequence of events to be put back from its end, without repetition.
Descending(s) ==
    \A j, k \in 1..Len(s) : j < k /\ s[j].time = s[k].time => s[k].uid < s[j].uid

\* A list in the order of service, reversed.
LEMMA ReverseLemma ==
    ASSUME NEW l \in Seq(Events), InOrder(l), NEW r, r = Reverse(l)
    PROVE  r \in Seq(Events) /\ ToSet(r) = ToSet(l) /\ Descending(r)
<1>1. Len(l) \in Nat /\ \A k \in 1..Len(l) : l[k] \in Events
  BY LenProperties, ElementOfSeq
<1>2. PICK n \in Nat : n = Len(l)
  BY <1>1
<1>3. r = [i \in 1..n |-> l[(n - i) + 1]]
  BY <1>2 DEF Reverse
<1>4. \A i \in 1..n : (n - i) + 1 \in 1..n /\ (n - ((n - i) + 1)) + 1 = i
  OBVIOUS
<1>5. r \in [1..n -> Events]
  BY <1>1, <1>2, <1>3, <1>4
<1>6. r \in Seq(Events) /\ Len(r) = n
  BY <1>5, SeqDef, LenProperties
<1>7. \A e : e \in ToSet(l) <=> \E i \in 1..n : e = l[i]
  BY <1>2, ToSetLemma
<1>8. \A e : e \in ToSet(r) <=> \E i \in 1..n : e = r[i]
  BY <1>6, ToSetLemma
<1>9. \A i \in 1..n : r[i] = l[(n - i) + 1] /\ l[i] = r[(n - i) + 1]
  BY <1>3, <1>4
<1>10. ToSet(r) = ToSet(l)
  <2>1. ASSUME NEW e \in ToSet(r) PROVE e \in ToSet(l)
    <3>1. PICK i \in 1..n : e = r[i]
      BY <1>8
    <3>2. e = l[(n - i) + 1]
      BY <1>9, <3>1
    <3> QED  BY <1>4, <1>7, <3>2
  <2>2. ASSUME NEW e \in ToSet(l) PROVE e \in ToSet(r)
    <3>1. PICK i \in 1..n : e = l[i]
      BY <1>7
    <3>2. e = r[(n - i) + 1]
      BY <1>9, <3>1
    <3> QED  BY <1>4, <1>8, <3>2
  <2> QED  BY <2>1, <2>2
<1>11. ASSUME NEW j \in 1..n, NEW k \in 1..n, j < k, r[j].time = r[k].time
       PROVE  r[k].uid < r[j].uid
  <2>1. (n - k) + 1 < (n - j) + 1 /\ (n - k) + 1 \in 1..n /\ (n - j) + 1 \in 1..n
    BY <1>11
  <2>2. PICK a \in 1..n, b \in 1..n : a = (n - k) + 1 /\ b = (n - j) + 1
    BY <2>1
  <2>3. Earlier(l[a], l[b])
    BY <1>2, <2>1, <2>2 DEF InOrder
  <2>4. l[a] \in Events /\ l[b] \in Events /\ l[a] = r[k] /\ l[b] = r[j]
    BY <1>1, <1>2, <1>9, <2>2
  <2>5. l[a].time = l[b].time /\ l[a].time \in Nat
    BY <1>11, <2>4 DEF Events
  <2> QED  BY <2>3, <2>4, <2>5 DEF Earlier
<1> QED  BY <1>6, <1>10, <1>11 DEF Descending

\* The flattening of n sequences, one after the other.
IsFlat(f, seqs, n) ==
    f = [i \in 1..n |-> IF i = 1 THEN seqs[i] ELSE f[i - 1] \o seqs[i]]

\* The concatenation of the buckets reaches one bucket further.
LEMMA FlatLonger ==
    ASSUME NEW seqs, NEW n \in Nat \ {0}, NEW f, IsFlat(f, seqs, n)
    PROVE  \E g : IsFlat(g, seqs, n + 1)
<1> DEFINE g == [i \in 1..(n + 1) |-> IF i <= n THEN f[i] ELSE f[n] \o seqs[n + 1]]
           h == [i \in 1..(n + 1) |-> IF i = 1 THEN seqs[i] ELSE g[i - 1] \o seqs[i]]
<1>1. \A i \in 1..n : f[i] = IF i = 1 THEN seqs[i] ELSE f[i - 1] \o seqs[i]
  BY DEF IsFlat
<1>2. \A i \in 1..n : g[i] = f[i]
  OBVIOUS
<1>3. g[n + 1] = f[n] \o seqs[n + 1]
  <2>1. PICK m \in 1..(n + 1) : m = n + 1 /\ ~(m <= n)
    OBVIOUS
  <2>2. g[m] = f[n] \o seqs[n + 1]
    BY <2>1
  <2> HIDE DEF g
  <2> QED  BY <2>1, <2>2
<1>4. \A i \in 1..n : h[i] = g[i]
  <2> SUFFICES ASSUME NEW i \in 1..n PROVE h[i] = g[i]
    OBVIOUS
  <2>1. h[i] = IF i = 1 THEN seqs[i] ELSE g[i - 1] \o seqs[i]
    <3>1. PICK j \in 1..(n + 1) : j = i
      OBVIOUS
    <3>2. h[j] = IF j = 1 THEN seqs[j] ELSE g[j - 1] \o seqs[j]
      <4> HIDE DEF g
      <4> QED  OBVIOUS
    <3> HIDE DEF g, h
    <3> QED  BY <3>1, <3>2
  <2>2. i # 1 => i - 1 \in 1..n
    OBVIOUS
  <2> HIDE DEF g, h
  <2> QED  BY <1>1, <1>2, <2>1, <2>2
<1>5. h[n + 1] = g[n + 1]
  <2>1. n + 1 # 1 /\ (n + 1) - 1 = n /\ n \in 1..n /\ n + 1 \in 1..(n + 1)
    OBVIOUS
  <2>2. h[n + 1] = g[n] \o seqs[n + 1]
    BY <2>1
  <2> HIDE DEF g, h
  <2> QED  BY <1>2, <1>3, <2>1, <2>2
<1>6. \A i \in 1..(n + 1) : h[i] = g[i]
  <2> HIDE DEF g, h
  <2>1. \A i \in 1..(n + 1) : i \in 1..n \/ i = n + 1
    OBVIOUS
  <2> QED  BY <1>4, <1>5, <2>1
<1>7. g = h
  <2>1. /\ g = [i \in 1..(n + 1) |-> g[i]]
        /\ h = [i \in 1..(n + 1) |-> h[i]]
    OBVIOUS
  <2> HIDE DEF g, h
  <2> QED  BY <1>6, <2>1
<1>8. IsFlat(g, seqs, n + 1)
  <2> HIDE DEF g
  <2> QED  BY <1>7 DEF IsFlat
<1> HIDE DEF g, h
<1> QED  BY <1>8

\* The concatenation of the buckets reaches every bucket.
LEMMA FlatExists ==
    ASSUME NEW seqs, NEW n \in Nat \ {0}
    PROVE  \E f : IsFlat(f, seqs, n)
<1> DEFINE S == {k \in Nat : \E f : IsFlat(f, seqs, k + 1)}
<1>1. 0 \in S
  <2> DEFINE f == [i \in 1..1 |-> seqs[1]]
  <2>1. f = [i \in 1..1 |-> IF i = 1 THEN seqs[i] ELSE f[i - 1] \o seqs[i]]
    OBVIOUS
  <2>2. IsFlat(f, seqs, 0 + 1)
    <3> HIDE DEF f
    <3> QED  BY <2>1 DEF IsFlat
  <2> QED  BY <2>2
<1>2. ASSUME NEW k \in 0..(n - 1), k \in S PROVE k + 1 \in S
  <2>1. PICK m \in Nat \ {0} : m = k + 1
    OBVIOUS
  <2>2. \E f : IsFlat(f, seqs, m)
    BY <1>2, <2>1
  <2>3. \E f : IsFlat(f, seqs, m + 1)
    BY <2>2, FlatLonger
  <2> QED  BY <2>1, <2>3
<1>3. \A k \in 0..n : k \in S
  <2> HIDE DEF S
  <2> QED  BY <1>1, <1>2, BoundedInduction
<1>4. n - 1 \in S /\ (n - 1) + 1 = n
  <2> HIDE DEF S
  <2> QED  BY <1>3
<1> QED  BY <1>4

\* The parts that a flattening is built from.
LEMMA FlatRun ==
    ASSUME NEW seqs, NEW n \in Nat \ {0}, Len(seqs) = n
    PROVE  \E f : /\ f[1] = seqs[1]
                  /\ \A i \in 1..(n - 1) : f[i + 1] = f[i] \o seqs[i + 1]
                  /\ FlattenSeq(seqs) = f[n]
<1> DEFINE f == CHOOSE g : IsFlat(g, seqs, n)
<1>1. IsFlat(f, seqs, n)
  BY FlatExists
<1>2. FlattenSeq(seqs) = f[n]
  BY DEF FlattenSeq, IsFlat
<1> HIDE DEF f
<1>3. \A i \in 1..n : f[i] = IF i = 1 THEN seqs[i] ELSE f[i - 1] \o seqs[i]
  BY <1>1 DEF IsFlat
<1>4. f[1] = seqs[1]
  BY <1>3
<1>5. \A i \in 1..(n - 1) : f[i + 1] = f[i] \o seqs[i + 1]
  <2> SUFFICES ASSUME NEW i \in 1..(n - 1) PROVE f[i + 1] = f[i] \o seqs[i + 1]
    OBVIOUS
  <2>1. PICK j : j \in 1..n /\ j = i + 1 /\ j # 1 /\ j - 1 = i
    OBVIOUS
  <2> QED  BY <1>3, <2>1
<1> QED  BY <1>2, <1>4, <1>5

\* resize takes every event out, of several of the same time the last one first.
LEMMA BackwardsLemma ==
    ASSUME NEW c, IsCalendar(c), \A i \in 0..(c.nbuckets_ - 1) : BucketSound(c, i),
           NEW s, s = Backwards(c)
    PROVE  s \in Seq(Events) /\ ToSet(s) = Queued(c) /\ Descending(s)
<1>0. PICK n \in Nat \ {0} : n = c.nbuckets_
  BY BucketLemma
<1> DEFINE seqs == [k \in 1..n |-> Reverse(c.buckets_[k - 1].list_)]
<1>1. ASSUME NEW k \in 1..n
      PROVE  /\ seqs[k] \in Seq(Events) /\ ToSet(seqs[k]) = ToSet(List(c, k - 1))
             /\ Descending(seqs[k])
  <2>1. k - 1 \in 0..(c.nbuckets_ - 1)
    BY <1>0
  <2>2. PICK l \in Seq(Events) : l = List(c, k - 1) /\ InOrder(l)
    BY <2>1, BucketLemma DEF BucketSound
  <2>3. seqs[k] = Reverse(l)
    BY <2>2 DEF List
  <2>4. PICK r : r = seqs[k]
    OBVIOUS
  <2>5. r \in Seq(Events) /\ ToSet(r) = ToSet(l) /\ Descending(r)
    BY ONLY <2>2, <2>3, <2>4, ReverseLemma
  <2> QED  BY <2>2, <2>4, <2>5
<1>2. Len(seqs) = n
  <2>1. seqs \in [1..n -> Seq(Events)]
    BY <1>1
  <2> HIDE DEF seqs
  <2>2. seqs \in Seq(Seq(Events))
    BY <2>1, SeqDef
  <2> QED  BY <2>1, <2>2, LenProperties
<1>3. s = FlattenSeq(seqs)
  BY <1>0 DEF Backwards
<1> HIDE DEF seqs
<1>4. PICK f : /\ f[1] = seqs[1]
               /\ \A i \in 1..(n - 1) : f[i + 1] = f[i] \o seqs[i + 1]
               /\ s = f[n]
  <2>1. \E f : /\ f[1] = seqs[1]
               /\ \A i \in 1..(n - 1) : f[i + 1] = f[i] \o seqs[i + 1]
               /\ FlattenSeq(seqs) = f[n]
    <3>1. PICK q : q = seqs
      OBVIOUS
    <3>2. Len(q) = n
      BY <1>2, <3>1
    <3>3. \E f : /\ f[1] = q[1]
                 /\ \A i \in 1..(n - 1) : f[i + 1] = f[i] \o q[i + 1]
                 /\ FlattenSeq(q) = f[n]
      BY ONLY <3>2, n \in Nat \ {0}, FlatRun
    <3> QED  BY <3>1, <3>3
  <2> QED  BY <1>3, <2>1
<1> DEFINE Part(i) == UNION {ToSet(List(c, j)) : j \in 0..i}
           Good(i) == /\ f[i + 1] \in Seq(Events) /\ Descending(f[i + 1])
                      /\ ToSet(f[i + 1]) = Part(i)
           S == {i \in 0..(n - 1) : Good(i)}
<1>5. 0 \in S
  <2>1. Part(0) = ToSet(List(c, 0))
    OBVIOUS
  <2>2. 1 \in 1..n /\ 0 \in 0..(n - 1)
    OBVIOUS
  <2> HIDE DEF Part
  <2> QED  BY <1>1, <1>4, <2>1, <2>2
<1>6. ASSUME NEW i \in 0..((n - 1) - 1), i \in S PROVE i + 1 \in S
  <2>1. i + 1 \in 1..(n - 1) /\ i + 2 \in 1..n /\ (i + 1) + 1 = i + 2 /\ (i + 2) - 1 = i + 1
        /\ i + 1 \in 0..(n - 1)
    OBVIOUS
  <2>2. PICK a, b, u : a = f[i + 1] /\ b = seqs[i + 2] /\ u = f[i + 2]
    OBVIOUS
  <2>3. u = a \o b
    BY <1>4, <2>1, <2>2
  <2>4. /\ a \in Seq(Events) /\ Descending(a) /\ ToSet(a) = Part(i)
        /\ b \in Seq(Events) /\ Descending(b) /\ ToSet(b) = ToSet(List(c, i + 1))
    BY <1>1, <1>6, <2>1, <2>2
  <2>5. Part(i + 1) = Part(i) \cup ToSet(List(c, i + 1))
    <3>1. \A j \in 0..(i + 1) : j \in 0..i \/ j = i + 1
      OBVIOUS
    <3>2. \A j \in 0..i : j \in 0..(i + 1)
      OBVIOUS
    <3>3. i + 1 \in 0..(i + 1)
      OBVIOUS
    <3> QED  BY <3>1, <3>2, <3>3
  <2> HIDE DEF Part
  <2>6. u \in Seq(Events) /\ ToSet(u) = Part(i + 1)
    <3>1. /\ a \o b \in Seq(Events) /\ ToSet(a \o b) = ToSet(a) \cup ToSet(b)
      BY <2>4, ConcatLemma
    <3> QED  BY <2>3, <2>4, <2>5, <3>1
  <2>7. Descending(u)
    <3>1. /\ Len(a) \in Nat /\ Len(b) \in Nat /\ Len(u) = Len(a) + Len(b)
          /\ \A k \in 1..(Len(a) + Len(b)) :
                u[k] = IF k <= Len(a) THEN a[k] ELSE b[k - Len(a)]
      BY <2>3, <2>4, ConcatProperties, LenProperties
    <3>2. ASSUME NEW x \in ToSet(a), NEW y \in ToSet(b) PROVE x.time # y.time
      <4>1. PICK j \in 0..i : x \in ToSet(List(c, j))
        BY <2>4 DEF Part
      <4>2. j \in 0..(c.nbuckets_ - 1) /\ i + 1 \in 0..(c.nbuckets_ - 1) /\ j # i + 1
        BY <1>0
      <4>3. Hash(c, x.time) = j /\ Hash(c, y.time) = i + 1
        BY <2>4, <4>1, <4>2, InBucket
      <4> QED  BY <4>2, <4>3
    <3>3. SUFFICES ASSUME NEW j \in 1..Len(u), NEW k \in 1..Len(u), j < k,
                          u[j].time = u[k].time
                   PROVE  u[k].uid < u[j].uid
      BY DEF Descending
    <3>4. CASE k <= Len(a)
      <4>1. j \in 1..Len(a) /\ k \in 1..Len(a) /\ u[j] = a[j] /\ u[k] = a[k]
        BY <3>1, <3>3, <3>4
      <4> QED  BY <2>4, <3>3, <4>1 DEF Descending
    <3>5. CASE j > Len(a)
      <4>1. /\ j - Len(a) \in 1..Len(b) /\ k - Len(a) \in 1..Len(b)
            /\ j - Len(a) < k - Len(a)
            /\ u[j] = b[j - Len(a)] /\ u[k] = b[k - Len(a)]
        BY <3>1, <3>3, <3>5
      <4>2. PICK p \in 1..Len(b), q \in 1..Len(b) : p = j - Len(a) /\ q = k - Len(a)
        BY <4>1
      <4> QED  BY <2>4, <3>3, <4>1, <4>2 DEF Descending
    <3>6. CASE j <= Len(a) /\ k > Len(a)
      <4>1. j \in 1..Len(a) /\ k - Len(a) \in 1..Len(b) /\ u[j] = a[j] /\ u[k] = b[k - Len(a)]
        BY <3>1, <3>3, <3>6
      <4>2. u[j] \in ToSet(a) /\ u[k] \in ToSet(b)
        <5>1. \A e : e \in ToSet(a) <=> \E p \in 1..Len(a) : e = a[p]
          BY <2>4, ToSetLemma
        <5>2. \A e : e \in ToSet(b) <=> \E p \in 1..Len(b) : e = b[p]
          BY <2>4, ToSetLemma
        <5> QED  BY <4>1, <5>1, <5>2
      <4> QED  BY <3>2, <3>3, <4>2
    <3> QED  BY <3>1, <3>4, <3>5, <3>6
  <2> QED  BY <2>1, <2>2, <2>6, <2>7
<1>7. Good(n - 1)
  <2>1. n - 1 \in Nat /\ n - 1 \in 0..(n - 1)
    OBVIOUS
  <2>2. PICK m \in Nat : m = n - 1
    BY <2>1
  <2>3. \A i \in 0..m : i \in S
    <3>1. \A i \in 0..(m - 1) : i \in S => i + 1 \in S
      BY <1>6, <2>2
    <3> HIDE DEF S
    <3> QED  BY <1>5, <3>1, BoundedInduction
  <2> QED  BY <2>1, <2>2, <2>3
<1>8. Part(n - 1) = Queued(c)
  <2>1. \A e : e \in Queued(c) <=> \E i \in 0..(n - 1) : e \in ToSet(List(c, i))
    BY <1>0, QueuedLemma
  <2> QED  BY <2>1
<1>9. (n - 1) + 1 = n
  OBVIOUS
<1> HIDE DEF Part
<1> QED  BY <1>4, <1>7, <1>8, <1>9

\* A sequence that is put back event by event is what is in the queue then.
LEMMA RefillLemma ==
    ASSUME NEW base, Sound(base), Queued(base) = {},
           NEW seq \in Seq(Events), Descending(seq),
           \A k \in 1..Len(seq) : base.cal_clock_ <= seq[k].time,
           NEW d, d = Refill(base, seq)
    PROVE  /\ Sound(d) /\ Settings(base) = Settings(d)
           /\ d.cal_clock_ = base.cal_clock_ /\ Queued(d) = ToSet(seq)
<1>1. PICK n \in Nat : n = Len(seq) /\ DOMAIN seq = 1..n
  BY LenProperties
<1>2. PICK g : /\ g[0] = base
               /\ \A i \in 0..(n - 1) : g[i + 1] = insert2(g[i], seq[i + 1])
               /\ d = g[n]
  <2>1. \E g : /\ g[0] = base
               /\ \A i \in 0..(n - 1) : g[i + 1] = insert2(g[i], seq[i + 1])
               /\ Refill(base, seq) = g[n]
    BY <1>1, RefillRun
  <2> QED  BY <2>1
<1> DEFINE Back(i) == {seq[k] : k \in 1..i}
           Good(i) == /\ Sound(g[i]) /\ Settings(base) = Settings(g[i])
                      /\ g[i].cal_clock_ = base.cal_clock_ /\ Queued(g[i]) = Back(i)
           S == {i \in 0..n : Good(i)}
<1>3. 0 \in S
  BY <1>2
<1>4. ASSUME NEW i \in 0..(n - 1), i \in S PROVE i + 1 \in S
  <2>1. i + 1 \in 1..n /\ i + 1 \in 0..n
    OBVIOUS
  <2>2. PICK a, b, e : a = g[i] /\ b = g[i + 1] /\ e = seq[i + 1]
    OBVIOUS
  <2>3. b = insert2(a, e)
    BY <1>2, <2>2
  <2>4. Sound(a) /\ Settings(base) = Settings(a) /\ a.cal_clock_ = base.cal_clock_
        /\ Queued(a) = Back(i)
    BY <1>4, <2>2
  <2>5. e \in Events /\ a.cal_clock_ <= e.time
    <3>1. seq[i + 1] \in Events
      BY <1>1, <2>1, ElementOfSeq
    <3> QED  BY <1>1, <2>1, <2>2, <2>4, <3>1
  <2>6. \A f \in Queued(a) : f.time = e.time => e.uid < f.uid
    <3> SUFFICES ASSUME NEW f \in Queued(a), f.time = e.time PROVE e.uid < f.uid
      OBVIOUS
    <3>1. PICK k \in 1..i : f = seq[k]
      BY <2>4
    <3>2. k \in 1..Len(seq) /\ i + 1 \in 1..Len(seq) /\ k < i + 1
      BY <1>1, <2>1
    <3> QED  BY <2>2, <3>1, <3>2 DEF Descending
  <2>7. /\ Sound(b) /\ Settings(a) = Settings(b) /\ b.cal_clock_ = a.cal_clock_
        /\ Queued(b) = Queued(a) \cup {e}
    BY ONLY <2>3, <2>4, <2>5, <2>6, Insert2Lemma
  <2>8. Back(i + 1) = Back(i) \cup {e}
    <3>1. \A k \in 1..(i + 1) : k \in 1..i \/ k = i + 1
      OBVIOUS
    <3>2. \A k \in 1..i : k \in 1..(i + 1)
      OBVIOUS
    <3>3. i + 1 \in 1..(i + 1)
      OBVIOUS
    <3> QED  BY <2>2, <3>1, <3>2, <3>3
  <2> HIDE DEF Back
  <2> QED  BY <2>1, <2>2, <2>4, <2>7, <2>8
<1>5. n \in S
  <2> HIDE DEF S
  <2>1. \A i \in 0..n : i \in S
    BY <1>3, <1>4, BoundedInduction
  <2>2. n \in 0..n
    OBVIOUS
  <2> QED  BY <2>1, <2>2
<1>6. Back(n) = ToSet(seq)
  BY <1>1 DEF ToSet
<1> HIDE DEF Back
<1> QED  BY <1>2, <1>5, <1>6

\* A calendar with empty buckets.
LEMMA EmptyLemma ==
    ASSUME NEW c \in Calendars, NEW n \in Nat, n >= 4, NEW w \in Ratio,
           NEW d, d = reinit(c, n, w, c.cal_clock_)
    PROVE  /\ Sound(d) /\ Queued(d) = {} /\ d.cal_clock_ = c.cal_clock_
           /\ d.nbuckets_ = n /\ d.width_ = w
<1> DEFINE bs == [i \in 0..(n - 1) |-> EmptyBucket]
           b == [c EXCEPT !.buckets_ = bs, !.width_ = w, !.nbuckets_ = n,
                          !.qsize_ = 0, !.stat_qsize_ = 0]
<1>1. EmptyBucket \in [list_ : Seq(Events), count_ : Nat] /\ EmptyBucket.list_ = <<>>
      /\ EmptyBucket.count_ = 0
  BY DEF EmptyBucket
<1>2. bs \in [0..(n - 1) -> [list_ : Seq(Events), count_ : Nat]]
  BY <1>1
<1>3. bs \in BucketArrays
  <2> HIDE DEF bs
  <2> QED  BY <1>2 DEF BucketArrays
<1>4. DOMAIN bs = 0..(n - 1) /\ \A i \in 0..(n - 1) : bs[i] = EmptyBucket
  OBVIOUS
<1> HIDE DEF bs
<1>5. b \in Calendars /\ b.buckets_ = bs /\ b.width_ = w /\ b.nbuckets_ = n
      /\ b.qsize_ = 0 /\ b.stat_qsize_ = 0 /\ b.cal_clock_ = c.cal_clock_
  BY <1>3 DEF Calendars
<1>6. b.cal_clock_ \in Nat
  BY <1>5 DEF Calendars
<1>7. PICK x \in Nat : x = Hash(b, c.cal_clock_)
  <2>1. b.width_ \in Ratio /\ b.nbuckets_ \in Nat \ {0}
    BY <1>5
  <2>2. PICK t \in Nat : t = c.cal_clock_
    BY <1>5, <1>6
  <2>3. Hash(b, t) \in 0..(b.nbuckets_ - 1)
    BY <2>1, <2>2, HashLemma
  <2> QED  BY <1>5, <2>2, <2>3
<1>8. d = [b EXCEPT !.lastbucket_ = x]
  BY <1>7 DEF reinit, bs
<1> HIDE DEF b
<1>9. /\ d \in Calendars /\ d.buckets_ = bs /\ d.width_ = w /\ d.nbuckets_ = n
      /\ d.qsize_ = 0 /\ d.stat_qsize_ = 0 /\ d.cal_clock_ = c.cal_clock_ /\ d.lastbucket_ = x
  BY <1>5, <1>8 DEF Calendars
<1>10. d.lastbucket_ = Hash(d, d.cal_clock_)
  BY <1>5, <1>7, <1>9 DEF Hash
<1>11. IsCalendar(d)
  BY <1>4, <1>9 DEF IsCalendar
<1>12. Queued(d) = {}
  <2>1. ToSet(<<>>) = {}
    BY DEF ToSet
  <2> QED  BY <1>1, <1>4, <1>9, <2>1 DEF Queued
<1>13. TimesOf({}) = {} /\ Cardinality({}) = 0 /\ IsFiniteSet({})
  BY FS_EmptySet DEF TimesOf
<1>14. ASSUME NEW i \in 0..(d.nbuckets_ - 1) PROVE BucketSound(d, i)
  <2>1. List(d, i) = <<>> /\ d.buckets_[i].count_ = 0
    BY <1>1, <1>4, <1>9 DEF List
  <2>2. Len(List(d, i)) = 0 /\ ToSet(List(d, i)) = {}
    BY <2>1 DEF ToSet
  <2>3. InOrder(List(d, i))
    BY <2>2 DEF InOrder
  <2>4. d.buckets_[i].count_ = Cardinality(TimesOf(ToSet(List(d, i))))
    BY <1>13, <2>1, <2>2
  <2>5. \A k \in 1..Len(List(d, i)) : Hash(d, List(d, i)[k].time) = i
    BY <2>2
  <2> QED  BY <2>3, <2>4, <2>5 DEF BucketSound
<1>15. Counted(d)
  BY <1>9, <1>12, <1>13 DEF Counted
<1> QED  BY <1>9, <1>10, <1>11, <1>12, <1>14, <1>15 DEF Sound

\* The buckets of another number or width have the same events.
LEMMA RebuildLemma ==
    ASSUME NEW c, Sound(c), NEW n \in Nat, n >= 4, NEW w \in Ratio,
           NEW d, d = Rebuild(c, n, w)
    PROVE  Sound(d) /\ Queued(d) = Queued(c) /\ d.cal_clock_ = c.cal_clock_
<1>1. /\ IsCalendar(c) /\ \A i \in 0..(c.nbuckets_ - 1) : BucketSound(c, i)
      /\ \A e \in Queued(c) : c.cal_clock_ <= e.time
  BY DEF Sound
<1>2. PICK a : a = [c EXCEPT !.round_num_ = 0]
  OBVIOUS
<1>3. a \in Calendars /\ a.cal_clock_ = c.cal_clock_
  BY <1>1, <1>2 DEF IsCalendar, Calendars
<1>4. PICK b : b = reinit(a, n, w, a.cal_clock_)
  OBVIOUS
<1>5. Sound(b) /\ Queued(b) = {} /\ b.cal_clock_ = c.cal_clock_
  BY <1>3, <1>4, EmptyLemma
<1>6. PICK s : s = Backwards(c)
  OBVIOUS
<1>7. s \in Seq(Events) /\ ToSet(s) = Queued(c) /\ Descending(s)
  BY <1>1, <1>6, BackwardsLemma
<1>8. \A k \in 1..Len(s) : b.cal_clock_ <= s[k].time
  <2>1. \A e : e \in ToSet(s) <=> \E i \in 1..Len(s) : e = s[i]
    BY <1>7, ToSetLemma
  <2> QED  BY <1>1, <1>5, <1>7, <2>1
<1>9. d = Refill(b, s)
  BY <1>2, <1>3, <1>4, <1>6 DEF Rebuild, Refill
<1>10. Sound(d) /\ d.cal_clock_ = b.cal_clock_ /\ Queued(d) = ToSet(s)
  BY ONLY <1>5, <1>7, <1>8, <1>9, RefillLemma
<1> QED  BY <1>5, <1>7, <1>10

\* The constructor.
LEMMA NewCalendarLemma ==
    ASSUME NEW d, d = NewCalendar
    PROVE  Sound(d) /\ Queued(d) = {} /\ d.cal_clock_ = 0
<1>1. PICK c : c = Blank
  OBVIOUS
<1>2. <<>> \in BucketArrays
  <2>1. <<>> \in [0..(0 - 1) -> [list_ : Seq(Events), count_ : Nat]]
    <3>1. 0..(0 - 1) = {}
      OBVIOUS
    <3>2. \A T : <<>> \in [{} -> T]
      OBVIOUS
    <3> QED  BY <3>1, <3>2
  <2> QED  BY <2>1 DEF BucketArrays
<1>3. <<1, 1>> \in Ratio
  BY DEF Ratio
<1>4. c \in Calendars /\ c.cal_clock_ = 0
  <2>1. -2 \in Int /\ <<-2, 1>> \in Int \X (Nat \ {0})
    OBVIOUS
  <2> QED  BY <1>1, <1>2, <1>3, <2>1 DEF Calendars, Blank
<1>5. <<TicksPerSecond, 1>> \in Ratio
  BY CalendarAssumption DEF Ratio
<1>6. d = reinit(c, 4, <<TicksPerSecond, 1>>, c.cal_clock_)
  BY <1>1, <1>4 DEF NewCalendar
<1>7. 4 \in Nat /\ 4 >= 4
  OBVIOUS
<1>8. PICK w \in Ratio : w = <<TicksPerSecond, 1>>
  BY <1>5
<1>9. Sound(d) /\ Queued(d) = {} /\ d.cal_clock_ = c.cal_clock_
  <2>1. d = reinit(c, 4, w, c.cal_clock_)
    BY <1>6, <1>8
  <2> QED  BY ONLY <1>4, <1>7, <2>1, w \in Ratio, EmptyLemma
<1> QED  BY <1>4, <1>9

\* Products of positive numbers.
LEMMA ProductLemma ==
    ASSUME NEW a \in Nat \ {0}, NEW b \in Nat \ {0}
    PROVE  a * b \in Nat \ {0}
OBVIOUS

\* A width times a factor.
LEMMA TimesWidth ==
    ASSUME NEW w \in Ratio, NEW f, f[1] \in Nat \ {0}, f[2] \in Nat \ {0}
    PROVE  Times2(w, f) \in Ratio
<1>1. w[1] \in Nat \ {0} /\ w[2] \in Nat \ {0}
  BY DEF Ratio
<1>2. PICK a \in Nat \ {0}, b \in Nat \ {0}, x \in Nat \ {0}, y \in Nat \ {0} :
         a = w[1] /\ b = w[2] /\ x = f[1] /\ y = f[2]
  BY <1>1
<1>3. a * x \in Nat \ {0} /\ b * y \in Nat \ {0}
  BY ProductLemma
<1>4. Times2(w, f) = <<a * x, b * y>>
  BY <1>2 DEF Times2
<1> QED  BY <1>3, <1>4 DEF Ratio

\* There is a fullest bucket.
LEMMA FullestLemma ==
    ASSUME NEW c, Sound(c), NEW i, i = FullestBucket(c)
    PROVE  i \in 0..(c.nbuckets_ - 1)
<1>0. /\ IsCalendar(c) /\ \A j \in 0..(c.nbuckets_ - 1) : BucketSound(c, j)
      /\ Counted(c)
  BY DEF Sound
<1>1. PICK n \in Nat : /\ n = c.nbuckets_ /\ n >= 4 /\ DOMAIN c.buckets_ = 0..(n - 1)
                       /\ \A j \in 0..(n - 1) : c.buckets_[j].count_ \in Nat
  BY <1>0, BucketLemma DEF IsCalendar
<1>2. PICK m \in Nat : \A j \in 0..(n - 1) : c.buckets_[j].count_ <= m
  <2>1. PICK S \in SUBSET Events : S = Queued(c) /\ IsFiniteSet(S)
    BY <1>0, QueuedLemma DEF Counted
  <2>2. IsFiniteSet(TimesOf(S)) /\ Cardinality(TimesOf(S)) \in Nat
    BY <2>1, TimesLemma
  <2>3. ASSUME NEW j \in 0..(n - 1)
        PROVE  c.buckets_[j].count_ <= Cardinality(TimesOf(S))
    <3>1. ToSet(List(c, j)) \subseteq S
      BY <1>0, <1>1, <2>1, QueuedLemma
    <3>2. TimesOf(ToSet(List(c, j))) \in SUBSET TimesOf(S)
      BY <3>1 DEF TimesOf
    <3>3. Cardinality(TimesOf(ToSet(List(c, j)))) <= Cardinality(TimesOf(S))
      BY <2>2, <3>2, FS_Subset
    <3> QED  BY <1>0, <1>1, <3>3 DEF BucketSound
  <2> QED  BY <2>2, <2>3
<1> DEFINE T == {c.buckets_[j].count_ : j \in 0..(n - 1)}
           B == {j \in 0..(n - 1) : c.buckets_[j].count_ = Max(T)}
<1>3. T \in SUBSET (0..m) /\ T # {}
  <2>1. \A j \in 0..(n - 1) : c.buckets_[j].count_ \in 0..m
    BY <1>1, <1>2
  <2>2. 0 \in 0..(n - 1)
    BY <1>1
  <2> QED  BY <2>1, <2>2
<1>4. Max(T) \in T /\ \A y \in T : y <= Max(T)
  <2> HIDE DEF T
  <2> QED  BY <1>3, MaxLemma
<1>5. B \in SUBSET Nat /\ B # {}
  <2>1. PICK j \in 0..(n - 1) : c.buckets_[j].count_ = Max(T)
    BY <1>4
  <2>2. PICK x : x = Max(T)
    OBVIOUS
  <2> HIDE DEF T
  <2>3. j \in B
    BY <2>1
  <2>4. \A y \in 0..(n - 1) : y \in Nat
    OBVIOUS
  <2>5. B \subseteq 0..(n - 1)
    OBVIOUS
  <2> HIDE DEF B
  <2> QED  BY <2>3, <2>4, <2>5
<1>6. PICK k : k \in B /\ \A y \in B : k <= y
  <2> HIDE DEF B
  <2> QED  BY <1>5, MinLemma
<1>7. ASSUME NEW j \in 0..(n - 1)
      PROVE  \/ c.buckets_[j].count_ < c.buckets_[k].count_
             \/ c.buckets_[j].count_ = c.buckets_[k].count_ /\ k <= j
  <2>1. c.buckets_[j].count_ <= c.buckets_[k].count_
    BY <1>4, <1>6
  <2>2. c.buckets_[j].count_ = c.buckets_[k].count_ => k <= j
    BY <1>6
  <2>3. c.buckets_[j].count_ \in Nat /\ c.buckets_[k].count_ \in Nat
    BY <1>1, <1>6
  <2> QED  BY <2>1, <2>2, <2>3
<1>8. k \in 0..(n - 1)
  BY <1>6
<1> HIDE DEF B, T
<1>9. i \in DOMAIN c.buckets_
  BY <1>1, <1>7, <1>8 DEF FullestBucket
<1> QED  BY <1>1, <1>9

\* The width that resize chooses is one.
LEMMA WidthLemma ==
    ASSUME NEW c, Sound(c), NEW n \in Nat \ {0}, NEW w, w = newwidth(c, n)
    PROVE  w \in Ratio
<1>0. /\ IsCalendar(c) /\ \A j \in 0..(c.nbuckets_ - 1) : BucketSound(c, j)
  BY DEF Sound
<1>1. c.width_ \in Ratio
  BY <1>0, BucketLemma
<1>2. PICK i \in 0..(c.nbuckets_ - 1) : i = FullestBucket(c)
  BY FullestLemma
<1>3. CASE Adjust /\ Positive(c.avg_gap_)
  <2>1. PICK g \in Int \X (Nat \ {0}) : g = c.avg_gap_
    BY <1>0 DEF IsCalendar, Calendars
  <2>2. g \in Ratio
    BY <1>3, <2>1 DEF Positive, Ratio
  <2>3. <<4, 1>>[1] \in Nat \ {0} /\ <<4, 1>>[2] \in Nat \ {0}
    OBVIOUS
  <2>4. PICK f : f = <<4, 1>> /\ f[1] \in Nat \ {0} /\ f[2] \in Nat \ {0}
    BY <2>3
  <2>5. Times2(g, f) \in Ratio
    BY <2>2, <2>4, TimesWidth
  <2> QED  BY <1>3, <2>1, <2>4, <2>5 DEF newwidth
<1>4. CASE ~(Adjust /\ Positive(c.avg_gap_)) /\ c.buckets_[i].count_ <= 4
  BY <1>1, <1>2, <1>4 DEF newwidth
<1>5. CASE ~(Adjust /\ Positive(c.avg_gap_)) /\ ~(c.buckets_[i].count_ <= 4)
  <2>1. PICK l \in Seq(Events) : l = List(c, i) /\ InOrder(l)
    BY <1>0, BucketLemma DEF BucketSound
  <2>2. PICK x \in Nat : x = c.buckets_[i].count_ /\ x = Cardinality(TimesOf(ToSet(l)))
                         /\ x > 4
    <3>1. c.buckets_[i].count_ \in Nat
      BY <1>0, BucketLemma
    <3>2. c.buckets_[i].count_ = Cardinality(TimesOf(ToSet(l)))
      BY <1>0, <2>1 DEF BucketSound
    <3> QED  BY <1>5, <3>1, <3>2
  <2>3. /\ Len(l) \in Nat
        /\ \A k \in 1..Len(l) : l[k].time \in Nat
        /\ \A j, k \in 1..Len(l) : j <= k => l[j].time <= l[k].time
    BY <2>1, LaterLemma
  <2>4. \A e : e \in ToSet(l) <=> \E k \in 1..Len(l) : e = l[k]
    BY <2>1, ToSetLemma
  <2>5. Len(l) > 0
    <3> SUFFICES ASSUME Len(l) = 0 PROVE FALSE
      BY <2>3
    <3>1. TimesOf(ToSet(l)) = {}
      BY <2>4 DEF TimesOf
    <3> QED  BY <2>2, <3>1, FS_EmptySet
  <2>6. 1 \in 1..Len(l) /\ Len(l) \in 1..Len(l)
    BY <2>3, <2>5
  <2>7. l[1].time < l[Len(l)].time
    <3> SUFFICES ASSUME ~(l[1].time < l[Len(l)].time) PROVE FALSE
      OBVIOUS
    <3>1. \A k \in 1..Len(l) : l[k].time = l[1].time
      <4> SUFFICES ASSUME NEW k \in 1..Len(l) PROVE l[k].time = l[1].time
        OBVIOUS
      <4>1. l[1].time <= l[k].time /\ l[k].time <= l[Len(l)].time
        BY <2>3, <2>6
      <4>2. l[1].time \in Nat /\ l[k].time \in Nat /\ l[Len(l)].time \in Nat
        BY <2>3, <2>6
      <4> QED  BY <4>1, <4>2
    <3>2. TimesOf(ToSet(l)) = {l[1].time}
      BY <2>4, <2>6, <3>1 DEF TimesOf
    <3>3. PICK t : t = l[1].time
      OBVIOUS
    <3>4. Cardinality({t}) = 1
      BY FS_Singleton
    <3> QED  BY <2>2, <3>2, <3>3, <3>4
  <2>8. Head(l) = l[1] /\ Last(l) = l[Len(l)]
    BY DEF Last
  <2>9. PICK p : p = 4 * (Last(l).time - Head(l).time) /\ p \in Nat \ {0}
    <3>1. l[1].time \in Nat /\ l[Len(l)].time \in Nat
      BY <2>3, <2>6
    <3> QED  BY <2>7, <2>8, <3>1
  <2>10. PICK q : q = Min({n, x}) /\ q \in Nat \ {0}
    <3>1. {n, x} \in SUBSET Nat /\ {n, x} # {}
      OBVIOUS
    <3>2. PICK S : S = {n, x}
      OBVIOUS
    <3>3. Min(S) \in S
      BY <3>1, <3>2, MinLemma
    <3> QED  BY <2>2, <3>2, <3>3
  <2>11. w = <<p, q>>
    BY <1>2, <1>5, <2>1, <2>2, <2>9, <2>10 DEF newwidth, List
  <2> QED  BY <2>9, <2>10, <2>11 DEF Ratio
<1> QED  BY <1>3, <1>4, <1>5

\* resize keeps the events.
LEMMA ResizeLemma ==
    ASSUME NEW c, Sound(c), NEW n \in Nat \ {0}, NEW d, d = resize(c, n)
    PROVE  Sound(d) /\ Queued(d) = Queued(c) /\ d.cal_clock_ = c.cal_clock_
<1>1. PICK w : w = newwidth(c, n)
  OBVIOUS
<1>2. w \in Ratio
  BY <1>1, WidthLemma
<1>3. PICK m : m = Max({n, 4})
  OBVIOUS
<1>4. m \in Nat /\ m >= 4
  <2>1. {n, 4} \in SUBSET (0..(n + 4)) /\ {n, 4} # {} /\ n + 4 \in Nat
    OBVIOUS
  <2>2. PICK S, b : S = {n, 4} /\ b = n + 4
    OBVIOUS
  <2>3. Max(S) \in S /\ \A y \in S : y <= Max(S)
    BY <2>1, <2>2, MaxLemma
  <2> QED  BY <1>3, <2>2, <2>3
<1>5. d = Rebuild(c, m, w)
  BY <1>1, <1>3 DEF resize
<1> QED  BY <1>2, <1>4, <1>5, RebuildLemma

\* insert adds the event, which is after those of its time, and nothing else.
LEMMA InsertLemma ==
    ASSUME NEW c, Sound(c), NEW e \in Events,
           \A f \in Queued(c) : f.time = e.time => f.uid < e.uid,
           NEW d, d = insert(c, e)
    PROVE  Sound(d) /\ e \notin Queued(c) /\ Queued(d) = Queued(c) \cup {e}
<1>1. PICK f : f = InsertPlain(c, e)
  OBVIOUS
<1>2. Sound(f) /\ e \notin Queued(c) /\ Queued(f) = Queued(c) \cup {e}
  BY <1>1, InsertPlainLemma
<1>3. d = IF f.stat_qsize_ > top_threshold_(f) THEN resize(f, 2 * f.nbuckets_) ELSE f
  BY <1>1 DEF insert, InsertPlain
<1>4. 2 * f.nbuckets_ \in Nat \ {0}
  <2>1. IsCalendar(f)
    BY <1>2 DEF Sound
  <2>2. f.nbuckets_ \in Nat /\ f.nbuckets_ >= 4
    BY <2>1, BucketLemma
  <2> QED  BY <2>2
<1>5. PICK n \in Nat \ {0} : n = 2 * f.nbuckets_
  BY <1>4
<1>6. CASE d = resize(f, n)
  BY <1>2, <1>6, ResizeLemma
<1>7. CASE d = f
  BY <1>2, <1>7
<1> QED  BY <1>3, <1>5, <1>6, <1>7

\* A change of the width.
IsFactor(f) == f = KeepWidth \/ (f[1] \in Nat \ {0} /\ f[2] \in Nat \ {0})

\* A new width leaves the calendar sound and its events the same.
LEMMA AdjustLemma ==
    ASSUME NEW c, Sound(c), NEW e \in Events, NEW factor, IsFactor(factor),
           NEW d, d = AdjustWidth(c, e, factor)
    PROVE  Sound(d) /\ Queued(d) = Queued(c) /\ d.cal_clock_ = c.cal_clock_
<1>0. /\ IsCalendar(c) /\ \A j \in 0..(c.nbuckets_ - 1) : BucketSound(c, j)
      /\ Counted(c)
  BY DEF Sound
<1> DEFINE Like(b) == /\ b \in Calendars
                      /\ b.buckets_ = c.buckets_ /\ b.width_ = c.width_
                      /\ b.nbuckets_ = c.nbuckets_ /\ b.lastbucket_ = c.lastbucket_
                      /\ b.qsize_ = c.qsize_ /\ b.stat_qsize_ = c.stat_qsize_
                      /\ b.cal_clock_ = c.cal_clock_
<1>1. ASSUME NEW b, Like(b)
      PROVE  Sound(b) /\ Queued(b) = Queued(c) /\ b.cal_clock_ = c.cal_clock_
  <2>1. Queued(b) = Queued(c)
    BY <1>1 DEF Queued
  <2>2. IsCalendar(b)
    BY <1>0, <1>1 DEF IsCalendar
  <2>3. Settings(b) = Settings(c)
    BY <1>1 DEF Settings
  <2>4. \A t : Hash(b, t) = Hash(c, t)
    BY <2>3, SameHash
  <2>5. \A j \in 0..(b.nbuckets_ - 1) : BucketSound(b, j)
    BY <1>0, <1>1, <2>4 DEF BucketSound, List
  <2>6. Counted(b)
    BY <1>0, <1>1, <2>1 DEF Counted
  <2> QED  BY <1>1, <2>1, <2>2, <2>4, <2>5, <2>6 DEF Sound
<1> DEFINE n == c.gap_num_ + 1
           b == [c EXCEPT !.avg_gap_ = <<e.time - c.last_time_, n>>,
                          !.gap_num_ = 0, !.last_time_ = e.time, !.round_num_ = @ + 1]
<1>2. /\ c \in Calendars /\ c.gap_num_ \in Nat /\ c.last_time_ \in Int /\ c.round_num_ \in Nat
      /\ e.time \in Nat
  BY <1>0 DEF IsCalendar, Calendars, Events
<1>3. Like(b)
  <2>1. <<e.time - c.last_time_, n>> \in Int \X (Nat \ {0})
    BY <1>2
  <2>2. c.round_num_ + 1 \in Nat /\ e.time \in Int
    BY <1>2
  <2> HIDE DEF n
  <2> QED  BY <1>2, <2>1, <2>2 DEF Calendars
<1>4. Like(c)
  BY <1>2
<1>5. Like([c EXCEPT !.last_time_ = e.time])
  <2>1. e.time \in Int
    BY <1>2
  <2> QED  BY <1>2, <2>1 DEF Calendars
<1>6. Like([c EXCEPT !.gap_num_ = n])
  <2>1. n \in Nat
    BY <1>2
  <2> HIDE DEF n
  <2> QED  BY <1>2, <2>1 DEF Calendars
<1> HIDE DEF Like
<1>7. \/ d = c
      \/ d = [c EXCEPT !.last_time_ = e.time]
      \/ d = [c EXCEPT !.gap_num_ = n]
      \/ d = b
      \/ factor # KeepWidth /\ d = Rebuild(b, b.nbuckets_, Times2(b.width_, factor))
  BY DEF AdjustWidth
<1>8. CASE factor # KeepWidth /\ d = Rebuild(b, b.nbuckets_, Times2(b.width_, factor))
  <2>1. PICK f, m, w : f = b /\ m = f.nbuckets_ /\ w = Times2(f.width_, factor)
    OBVIOUS
  <2> HIDE DEF b
  <2>2. Sound(f) /\ Queued(f) = Queued(c) /\ f.cal_clock_ = c.cal_clock_
    BY <1>1, <1>3, <2>1
  <2>3. m \in Nat /\ m >= 4 /\ f.width_ \in Ratio
    <3>1. IsCalendar(f)
      BY <2>2 DEF Sound
    <3> QED  BY <2>1, <3>1, BucketLemma
  <2>4. PICK r \in Ratio : r = f.width_
    BY <2>3
  <2>5. Times2(r, factor) \in Ratio
    BY <1>8, TimesWidth DEF IsFactor
  <2>6. w \in Ratio /\ d = Rebuild(f, m, w)
    BY <1>8, <2>1, <2>4, <2>5
  <2>7. Sound(d) /\ Queued(d) = Queued(f) /\ d.cal_clock_ = f.cal_clock_
    BY ONLY <2>2, <2>3, <2>6, RebuildLemma
  <2> QED  BY <2>2, <2>7
<1>9. CASE Like(d)
  BY <1>1, <1>9
<1> HIDE DEF b, n
<1> QED  BY <1>3, <1>4, <1>5, <1>6, <1>7, <1>8, <1>9

\* deque serves the first event and leaves the others.
LEMMA DequeLemma ==
    ASSUME NEW c, Sound(c), Queued(c) # {}, NEW factor, IsFactor(factor),
           NEW r, r = deque(c, factor)
    PROVE  /\ r.event = HeadEvent(head(c)) /\ FirstOf(Queued(c), r.event)
           /\ Sound(r.left) /\ Queued(r.left) = Queued(c) \ {r.event}
<1>1. PICK h, e : h = head(c) /\ e = HeadEvent(h)
  OBVIOUS
<1>2. /\ Sound(h) /\ Queued(h) = Queued(c)
      /\ FirstOf(Queued(c), e) /\ h.cal_clock_ = e.time
  BY ONLY <1>1, Sound(c), Queued(c) # {}, HeadLemma
<1>3. e \in Events /\ e \in Queued(c)
  <2>1. IsCalendar(c)
    BY DEF Sound
  <2> QED  BY <1>2, <2>1, QueuedLemma DEF FirstOf
<1>4. PICK d : d = AdjustWidth(h, e, factor)
  OBVIOUS
<1>5. Sound(d) /\ Queued(d) = Queued(c) /\ d.cal_clock_ = e.time
  <2>1. Sound(d) /\ Queued(d) = Queued(h) /\ d.cal_clock_ = h.cal_clock_
    BY ONLY <1>2, <1>3, <1>4, IsFactor(factor), AdjustLemma
  <2> QED  BY <1>2, <2>1
<1>6. PICK i, l : i = d.lastbucket_ /\ l = List(d, i)
  OBVIOUS
<1>7. /\ IsCalendar(d) /\ \A j \in 0..(d.nbuckets_ - 1) : BucketSound(d, j)
      /\ i = Hash(d, e.time)
  BY <1>5, <1>6 DEF Sound
<1>8. i \in 0..(d.nbuckets_ - 1) /\ e \in ToSet(l)
  BY <1>3, <1>5, <1>6, <1>7, InBucket
<1>9. l \in Seq(Events) /\ InOrder(l)
  BY <1>6, <1>7, <1>8, BucketLemma DEF BucketSound
<1>10. /\ Len(l) \in Nat
       /\ \A k \in 1..Len(l) : l[k] \in Events /\ l[k].time \in Nat /\ l[k] \in ToSet(l)
       /\ \A j, k \in 1..Len(l) : j <= k => l[j].time <= l[k].time
  BY <1>9, LaterLemma
<1>11. PICK k \in 1..Len(l) : e = l[k]
  BY <1>8, <1>9, ToSetLemma
<1>12. 1 \in 1..Len(l) /\ l[1] = e
  <2>1. 1 \in 1..Len(l)
    BY <1>10, <1>11
  <2>2. l[1] \in Queued(c)
    BY <1>5, <1>6, <1>7, <1>8, <1>10, <2>1, QueuedLemma
  <2>3. ASSUME l[1] # e PROVE FALSE
    <3>1. Earlier(e, l[1])
      BY <1>2, <2>2, <2>3 DEF FirstOf
    <3>2. 1 < k
      BY <1>11, <2>3
    <3>3. Earlier(l[1], e)
      BY <1>9, <1>11, <2>1, <3>2 DEF InOrder
    <3> QED  BY <1>3, <1>10, <2>1, <3>1, <3>3, EarlierLemma
  <2> QED  BY <2>1, <2>3
<1> DEFINE alone == Len(l) = 1 \/ l[2].time # e.time
<1>13. alone <=> \A j \in 1..Len(l) : j # 1 => l[j].time # e.time
  <2>1. ASSUME alone, NEW j \in 1..Len(l), j # 1, l[j].time = e.time PROVE FALSE
    <3>1. 2 \in 1..Len(l) /\ 1 <= 2 /\ 2 <= j
      BY <1>10, <2>1
    <3>2. l[1].time <= l[2].time /\ l[2].time <= l[j].time
      BY <1>10, <1>12, <3>1
    <3>3. l[1].time \in Nat /\ l[2].time \in Nat
      BY <1>10, <1>12, <3>1
    <3>4. l[2].time = e.time
      BY <1>12, <2>1, <3>2, <3>3
    <3>5. Len(l) # 1
      <4>1. ~(2 \in 1..1)
        OBVIOUS
      <4> QED  BY <3>1, <4>1
    <3> QED  BY <2>1, <3>4, <3>5
  <2>2. ASSUME \A j \in 1..Len(l) : j # 1 => l[j].time # e.time PROVE alone
    <3>1. Len(l) = 1 \/ 2 \in 1..Len(l)
      <4>1. PICK x \in Nat : x = Len(l) /\ 1 \in 1..x
        BY <1>10, <1>12
      <4>2. x = 1 \/ 2 \in 1..x
        BY <4>1
      <4> QED  BY <4>1, <4>2
    <3> QED  BY <2>2, <3>1
  <2> QED  BY <2>1, <2>2
<1>14. PICK u \in BOOLEAN : u = alone
  OBVIOUS
<1> HIDE DEF alone
<1>15. PICK f : f = Unlink(d, i, 1, u)
  OBVIOUS
<1>16. Sound(f) /\ Queued(f) = Queued(d) \ {e}
  <2>1. 1 \in 1..Len(List(d, i)) /\ e = List(d, i)[1]
    BY <1>6, <1>12
  <2>2. u <=> \A j \in 1..Len(List(d, i)) : j # 1 => List(d, i)[j].time # e.time
    BY <1>6, <1>13, <1>14
  <2> QED  BY ONLY <1>5, <1>8, <1>15, <2>1, <2>2, u \in BOOLEAN, UnlinkLemma
<1>17. /\ r.event = e
       /\ r.left = IF f.stat_qsize_ < bot_threshold_(f)
                   THEN resize(f, f.nbuckets_ \div 2) ELSE f
  BY <1>1, <1>4, <1>6, <1>14, <1>15 DEF deque, alone, List
<1>18. PICK n \in Nat \ {0} : n = f.nbuckets_ \div 2
  <2>1. IsCalendar(f)
    BY <1>16 DEF Sound
  <2>2. f.nbuckets_ \in Nat /\ f.nbuckets_ >= 4
    BY <2>1, BucketLemma
  <2>3. f.nbuckets_ \div 2 \in Nat \ {0}
    BY <2>2
  <2> QED  BY <2>3
<1>19. Sound(r.left) /\ Queued(r.left) = Queued(f)
  <2>1. CASE r.left = resize(f, n)
    BY <1>16, <2>1, ResizeLemma
  <2>2. CASE r.left = f
    BY <1>16, <2>2
  <2> QED  BY <1>17, <1>18, <2>1, <2>2
<1> QED  BY <1>1, <1>2, <1>5, <1>16, <1>17, <1>19

-----------------------------------------------------------------------------
(* The list. *)

\* ListScheduler::insert keeps the list in the order of service.
LEMMA ListInsertLemma ==
    ASSUME NEW q \in Seq(Events), InOrder(q), NEW e \in Events,
           \A f \in ToSet(q) : f.time = e.time => f.uid < e.uid,
           NEW r, r = list_insert(q, e)
    PROVE  /\ r \in Seq(Events) /\ InOrder(r)
           /\ e \notin ToSet(q) /\ ToSet(r) = ToSet(q) \cup {e}
<1>1. /\ Len(q) \in Nat /\ DOMAIN q = 1..Len(q)
      /\ \A k \in 1..Len(q) : /\ q[k] \in Events /\ q[k].time \in Nat /\ q[k].uid \in Nat
                              /\ q[k] \in ToSet(q)
      /\ \A j, k \in 1..Len(q) : j <= k => q[j].time <= q[k].time
  BY LaterLemma
<1>2. e.time \in Nat /\ e.uid \in Nat
  BY DEF Events
<1> DEFINE later == {k \in DOMAIN q : e.time < q[k].time}
           pos == IF later = {} THEN Len(q) + 1 ELSE Min(later)
<1>3. r = InsertAt(q, pos, e)
  BY DEF list_insert
<1>4. /\ pos \in 1..(Len(q) + 1)
      /\ \A k \in 1..Len(q) : IF k < pos THEN q[k].time <= e.time ELSE e.time < q[k].time
  <2>1. CASE later = {}
    <3>1. \A k \in 1..Len(q) : ~(e.time < q[k].time)
      BY <1>1, <2>1
    <3> QED  BY <1>1, <1>2, <2>1, <3>1
  <2>2. CASE later # {}
    <3>1. later \in SUBSET Nat /\ later \subseteq 1..Len(q)
      BY <1>1
    <3>2. PICK m : m = Min(later)
      OBVIOUS
    <3>3. m \in later /\ \A y \in later : m <= y
      <4> HIDE DEF later
      <4> QED  BY <2>2, <3>1, <3>2, MinLemma
    <3>4. m \in 1..Len(q) /\ e.time < q[m].time
      BY <1>1, <3>3
    <3>5. \A k \in 1..Len(q) : k < m => q[k].time <= e.time
      <4>1. \A k \in 1..Len(q) : k < m => k \notin later
        BY <3>3, <3>4
      <4> QED  BY <1>1, <1>2, <4>1
    <3>6. \A k \in 1..Len(q) : k >= m => e.time < q[k].time
      BY <1>1, <1>2, <3>4
    <3>7. pos = m
      BY <2>2, <3>2
    <3> HIDE DEF pos, later
    <3> QED  BY <1>1, <3>4, <3>5, <3>6, <3>7
  <2> QED  BY <2>1, <2>2
<1>5. PICK p : p = pos
  OBVIOUS
<1> HIDE DEF pos
<1>6. \A k \in 1..Len(q) : IF k < p THEN Earlier(q[k], e) ELSE Earlier(e, q[k])
  BY <1>1, <1>2, <1>4, <1>5 DEF Earlier
<1>7. p \in 1..(Len(q) + 1) /\ r = InsertAt(q, p, e)
  BY <1>3, <1>4, <1>5
<1> QED  BY <1>6, <1>7, InsertInOrder

\* ListScheduler::cancel takes out the event and nothing else.
LEMMA ListCancelLemma ==
    ASSUME NEW q \in Seq(Events), InOrder(q), NEW e \in ToSet(q),
           NEW r, r = list_cancel(q, e)
    PROVE  r \in Seq(Events) /\ InOrder(r) /\ ToSet(r) = ToSet(q) \ {e}
<1>1. Len(q) \in Nat /\ DOMAIN q = 1..Len(q)
  BY LenProperties
<1>2. \E k \in DOMAIN q : q[k] = e
  BY DEF ToSet
<1>3. PICK p : p = CHOOSE k \in DOMAIN q : q[k] = e
  OBVIOUS
<1>4. p \in 1..Len(q) /\ q[p] = e
  BY <1>1, <1>2, <1>3
<1>5. r = RemoveAt(q, p)
  BY <1>3 DEF list_cancel
<1> QED  BY <1>4, <1>5, RemoveInOrder

\* The list serves its first event.
LEMMA ListServeLemma ==
    ASSUME NEW q \in Seq(Events), InOrder(q), ToSet(q) # {}
    PROVE  /\ FirstOf(ToSet(q), Head(q))
           /\ Tail(q) \in Seq(Events) /\ InOrder(Tail(q)) /\ ToSet(Tail(q)) = ToSet(q) \ {Head(q)}
<1>1. /\ Len(q) \in Nat /\ DOMAIN q = 1..Len(q)
      /\ \A k \in 1..Len(q) : q[k] \in Events
  BY LenProperties, ElementOfSeq
<1>2. \A e : e \in ToSet(q) <=> \E k \in 1..Len(q) : e = q[k]
  BY ToSetLemma
<1>3. Len(q) > 0 /\ q # <<>> /\ 1 \in 1..Len(q)
  <2>1. Len(q) > 0
    BY <1>1, <1>2
  <2> QED  BY <1>1, <2>1, EmptySeq
<1>4. /\ Head(q) = q[1] /\ Tail(q) \in Seq(Events) /\ Len(Tail(q)) = Len(q) - 1
      /\ \A i \in 1..Len(Tail(q)) : Tail(q)[i] = q[i + 1]
  BY <1>3, HeadTailProperties
<1>5. FirstOf(ToSet(q), Head(q))
  <2>1. q[1] \in ToSet(q)
    BY <1>2, <1>3
  <2>2. ASSUME NEW f \in ToSet(q) \ {q[1]} PROVE Earlier(q[1], f)
    <3>1. PICK k \in 1..Len(q) : f = q[k]
      BY <1>2
    <3>2. 1 < k
      BY <2>2, <3>1
    <3> QED  BY <1>3, <3>1, <3>2 DEF InOrder
  <2> QED  BY <1>4, <2>1, <2>2 DEF FirstOf
<1>6. PICK t \in Seq(Events) : t = Tail(q)
  BY <1>4
<1>7. /\ Len(t) = Len(q) - 1 /\ \A i \in 1..(Len(q) - 1) : t[i] = q[i + 1]
  BY <1>4, <1>6
<1>8. InOrder(t)
  <2> SUFFICES ASSUME NEW j \in 1..Len(t), NEW k \in 1..Len(t), j < k
               PROVE  Earlier(t[j], t[k])
    BY DEF InOrder
  <2>1. /\ j + 1 \in 1..Len(q) /\ k + 1 \in 1..Len(q) /\ j + 1 < k + 1
        /\ t[j] = q[j + 1] /\ t[k] = q[k + 1]
    BY <1>1, <1>7
  <2>2. PICK a \in 1..Len(q), b \in 1..Len(q) : a = j + 1 /\ b = k + 1
    BY <2>1
  <2> QED  BY <2>1, <2>2 DEF InOrder
<1>9. ToSet(t) = ToSet(q) \ {q[1]}
  <2>0. \A e : e \in ToSet(t) <=> \E k \in 1..Len(t) : e = t[k]
    BY ToSetLemma
  <2>1. ASSUME NEW e \in ToSet(t) PROVE e \in ToSet(q) \ {q[1]}
    <3>1. PICK k \in 1..Len(t) : e = t[k]
      BY <2>0
    <3>2. PICK b \in 1..Len(q) : b = k + 1 /\ e = q[b] /\ 1 < b
      BY <1>1, <1>7, <3>1
    <3>3. Earlier(q[1], q[b])
      BY <1>3, <3>2 DEF InOrder
    <3>4. q[1] \in Events /\ q[1] # q[b]
      BY <1>1, <1>3, <3>3, EarlierLemma
    <3> QED  BY <1>2, <3>2, <3>4
  <2>2. ASSUME NEW e \in ToSet(q) \ {q[1]} PROVE e \in ToSet(t)
    <3>1. PICK k \in 1..Len(q) : e = q[k]
      BY <1>2
    <3>2. k # 1
      BY <2>2, <3>1
    <3>3. k - 1 \in 1..(Len(q) - 1) /\ (k - 1) + 1 = k
      BY <1>1, <3>2
    <3>4. t[k - 1] = e
      BY <1>7, <3>1, <3>3
    <3> QED  BY <1>7, <2>0, <3>3, <3>4
  <2> QED  BY <2>1, <2>2
<1> QED  BY <1>4, <1>5, <1>6, <1>8, <1>9

\* The first event is one.
LEMMA FirstUnique ==
    ASSUME NEW S \in SUBSET Events, NEW e, NEW f, FirstOf(S, e), FirstOf(S, f)
    PROVE  e = f
<1>1. SUFFICES ASSUME e # f PROVE FALSE
  OBVIOUS
<1>2. e \in Events /\ f \in Events /\ Earlier(e, f) /\ Earlier(f, e)
  BY <1>1 DEF FirstOf
<1> QED  BY <1>2, EarlierLemma

-----------------------------------------------------------------------------
(* The queues before the run. *)

\* F is the function that defines the fold of Scheduled over a sequence.
IsStart(F, D, base, seq) ==
    F = [s \in SUBSET D |-> IF s = {} THEN base
                            ELSE Scheduled(F[s \ {Max(s)}], seq[Max(s)])]

\* The fold over the script reaches one event further.
LEMMA StartLonger ==
    ASSUME NEW base, NEW seq, NEW k \in Nat, NEW F, IsStart(F, 1..k, base, seq)
    PROVE  \E G : IsStart(G, 1..(k + 1), base, seq)
<1> DEFINE G == [s \in SUBSET (1..(k + 1)) |->
                    IF k + 1 \in s THEN Scheduled(F[s \ {k + 1}], seq[k + 1]) ELSE F[s]]
           Body(s) == IF s = {} THEN base ELSE Scheduled(G[s \ {Max(s)}], seq[Max(s)])
<1>1. ASSUME NEW s \in SUBSET (1..k)
      PROVE  /\ F[s] = IF s = {} THEN base ELSE Scheduled(F[s \ {Max(s)}], seq[Max(s)])
             /\ s \in SUBSET (1..(k + 1)) /\ G[s] = F[s]
  <2>1. F[s] = IF s = {} THEN base ELSE Scheduled(F[s \ {Max(s)}], seq[Max(s)])
    BY DEF IsStart
  <2>2. s \in SUBSET (1..(k + 1)) /\ k + 1 \notin s
    OBVIOUS
  <2> QED  BY <2>1, <2>2
<1>2. ASSUME NEW s \in SUBSET (1..(k + 1)) PROVE G[s] = Body(s)
  <2>1. CASE k + 1 \in s
    <3>1. Max(s) = k + 1 /\ s \ {k + 1} \in SUBSET (1..k) /\ s # {}
      BY <2>1, SubsetLemma
    <3>2. G[s \ {k + 1}] = F[s \ {k + 1}]
      BY <1>1, <3>1
    <3>3. G[s] = Scheduled(F[s \ {k + 1}], seq[k + 1])
      BY <2>1
    <3> HIDE DEF G
    <3> QED  BY <3>1, <3>2, <3>3
  <2>2. CASE k + 1 \notin s
    <3>1. s \in SUBSET (1..k)
      BY <2>2, SubsetLemma
    <3>2. s \ {Max(s)} \in SUBSET (1..k)
      BY <3>1
    <3>3. G[s] = F[s] /\ G[s \ {Max(s)}] = F[s \ {Max(s)}]
      BY <1>1, <3>1, <3>2
    <3>4. F[s] = IF s = {} THEN base ELSE Scheduled(F[s \ {Max(s)}], seq[Max(s)])
      BY <1>1, <3>1
    <3> HIDE DEF G
    <3> QED  BY <3>3, <3>4
  <2> QED  BY <2>1, <2>2
<1> DEFINE H == [s \in SUBSET (1..(k + 1)) |-> Body(s)]
<1>3. G = H
  <2>1. \A s \in SUBSET (1..(k + 1)) : G[s] = H[s]
    <3> HIDE DEF G, Body
    <3> QED  BY <1>2
  <2>2. /\ G = [s \in SUBSET (1..(k + 1)) |-> G[s]]
        /\ H = [s \in SUBSET (1..(k + 1)) |-> H[s]]
    OBVIOUS
  <2> HIDE DEF G, H
  <2> QED  BY <2>1, <2>2
<1>4. IsStart(G, 1..(k + 1), base, seq)
  <2> HIDE DEF G
  <2> QED  BY <1>3 DEF IsStart
<1> HIDE DEF G
<1> QED  BY <1>4

\* The fold over the script reaches every event.
LEMMA StartExists ==
    ASSUME NEW base, NEW seq, NEW n \in Nat
    PROVE  \E F : IsStart(F, 1..n, base, seq)
<1> DEFINE S == {k \in Nat : \E F : IsStart(F, 1..k, base, seq)}
<1>1. 0 \in S
  <2> DEFINE F == [s \in SUBSET (1..0) |-> base]
             H == [s \in SUBSET (1..0) |-> IF s = {} THEN base
                                            ELSE Scheduled(F[s \ {Max(s)}], seq[Max(s)])]
  <2>1. \A s \in SUBSET (1..0) : s = {}
    OBVIOUS
  <2>2. F = H
    <3>1. \A s \in SUBSET (1..0) : F[s] = base /\ H[s] = base
      BY <2>1
    <3>2. /\ F = [s \in SUBSET (1..0) |-> F[s]]
          /\ H = [s \in SUBSET (1..0) |-> H[s]]
      OBVIOUS
    <3> HIDE DEF F, H
    <3> QED  BY <3>1, <3>2
  <2>3. IsStart(F, 1..0, base, seq)
    <3> HIDE DEF F
    <3> QED  BY <2>2 DEF IsStart
  <2> QED  BY <2>3
<1>2. \A k \in 0..(n - 1) : k \in S => k + 1 \in S
  BY StartLonger
<1>3. \A k \in 0..n : k \in S
  <2> HIDE DEF S
  <2> QED  BY <1>1, <1>2, BoundedInduction
<1> QED  BY <1>3

Start(base, seq) == FoldLeft(Scheduled, base, seq)

\* The queues that the fold passes through.
LEMMA StartRun ==
    ASSUME NEW base, NEW seq, NEW n \in Nat, DOMAIN seq = 1..n
    PROVE  \E g : /\ g[0] = base
                  /\ \A i \in 0..(n - 1) : g[i + 1] = Scheduled(g[i], seq[i + 1])
                  /\ Start(base, seq) = g[n]
<1> DEFINE F == CHOOSE G : IsStart(G, 1..n, base, seq)
           g == [i \in 0..n |-> F[1..i]]
<1>1. IsStart(F, 1..n, base, seq)
  BY StartExists
<1>2. Start(base, seq) = F[1..n]
  BY DEF Start, FoldLeft, MapThenFoldSet, IsStart
<1> HIDE DEF F
<1>3. \A s \in SUBSET (1..n) : F[s] = IF s = {} THEN base
                                      ELSE Scheduled(F[s \ {Max(s)}], seq[Max(s)])
  BY <1>1 DEF IsStart
<1>4. g[0] = base
  <2>1. F[{}] = base
    BY <1>3
  <2> QED  BY <2>1, SegmentLemma
<1>5. ASSUME NEW i \in 0..(n - 1) PROVE g[i + 1] = Scheduled(g[i], seq[i + 1])
  <2>1. 1..(i + 1) \in SUBSET (1..n) /\ i \in 0..n /\ i + 1 \in 0..n
    OBVIOUS
  <2>2. /\ Max(1..(i + 1)) = i + 1 /\ (1..(i + 1)) \ {i + 1} = 1..i /\ 1..(i + 1) # {}
    <3>1. PICK j \in Nat : j = i
      OBVIOUS
    <3>2. /\ Max(1..(j + 1)) = j + 1 /\ (1..(j + 1)) \ {j + 1} = 1..j /\ 1..(j + 1) # {}
      BY SegmentLemma
    <3> QED  BY <3>1, <3>2
  <2>3. F[1..(i + 1)] = Scheduled(F[1..i], seq[i + 1])
    BY <1>3, <2>1, <2>2
  <2> QED  BY <2>1, <2>3
<1>6. Start(base, seq) = g[n]
  BY <1>2
<1> HIDE DEF g
<1> QED  BY <1>4, <1>5, <1>6

\* The calendar and the list have the same events, all numbered below u.
Agree(c, q, u) ==
    /\ Sound(c) /\ u \in Nat \ {0}
    /\ \A e \in Queued(c) : e.uid < u
    /\ q \in Seq(Events) /\ InOrder(q) /\ ToSet(q) = Queued(c)

\* An insertion into both queues.
LEMMA AgreeInsert ==
    ASSUME NEW c, NEW q, NEW u, Agree(c, q, u), NEW e \in Events, e.uid = u,
           NEW d, d = insert(c, e), NEW r, r = list_insert(q, e)
    PROVE  Agree(d, r, u + 1) /\ e \notin Queued(c) /\ Queued(d) = Queued(c) \cup {e}
<1>1. Sound(c) /\ u \in Nat \ {0} /\ q \in Seq(Events) /\ InOrder(q) /\ ToSet(q) = Queued(c)
      /\ \A f \in Queued(c) : f.uid < u
  BY DEF Agree
<1>2. Queued(c) \subseteq Events
  <2>1. IsCalendar(c)
    BY <1>1 DEF Sound
  <2> QED  BY <2>1, QueuedLemma
<1>3. /\ \A f \in Queued(c) : f.time = e.time => f.uid < e.uid
      /\ \A f \in ToSet(q) : f.time = e.time => f.uid < e.uid
  BY <1>1
<1>4. Sound(d) /\ e \notin Queued(c) /\ Queued(d) = Queued(c) \cup {e}
  BY <1>1, <1>3, InsertLemma
<1>5. r \in Seq(Events) /\ InOrder(r) /\ ToSet(r) = ToSet(q) \cup {e}
  BY <1>1, <1>3, ListInsertLemma
<1>6. \A f \in Queued(d) : f.uid < u + 1
  <2> SUFFICES ASSUME NEW f \in Queued(d) PROVE f.uid < u + 1
    OBVIOUS
  <2>1. f \in Events /\ (f = e \/ f \in Queued(c))
    BY <1>2, <1>4
  <2>2. f.uid \in Nat
    BY <2>1 DEF Events
  <2>3. f.uid = u \/ f.uid < u
    BY <1>1, <2>1
  <2> QED  BY <1>1, <2>2, <2>3
<1> QED  BY <1>1, <1>4, <1>5, <1>6 DEF Agree

\* A cancellation in both queues.
LEMMA AgreeCancel ==
    ASSUME NEW c, NEW q, NEW u, Agree(c, q, u), NEW e \in Queued(c),
           NEW d, d = cancel(c, e), NEW r, r = list_cancel(q, e)
    PROVE  Agree(d, r, u) /\ Queued(d) = Queued(c) \ {e}
<1>1. /\ Sound(c) /\ u \in Nat \ {0} /\ q \in Seq(Events) /\ InOrder(q) /\ ToSet(q) = Queued(c)
      /\ \A f \in Queued(c) : f.uid < u
  BY DEF Agree
<1>2. Sound(d) /\ Queued(d) = Queued(c) \ {e}
  BY <1>1, CancelLemma
<1>3. r \in Seq(Events) /\ InOrder(r) /\ ToSet(r) = ToSet(q) \ {e}
  BY <1>1, ListCancelLemma
<1> QED  BY <1>1, <1>2, <1>3 DEF Agree

\* Both queues serve the same event, the first one.
LEMMA AgreeServe ==
    ASSUME NEW c, NEW q, NEW u, Agree(c, q, u), Queued(c) # {},
           NEW factor, IsFactor(factor), NEW r, r = deque(c, factor)
    PROVE  /\ r.event = HeadEvent(head(c)) /\ FirstOf(Queued(c), r.event) /\ Head(q) = r.event
           /\ Agree(r.left, Tail(q), u) /\ Queued(r.left) = Queued(c) \ {r.event}
<1>1. /\ Sound(c) /\ u \in Nat \ {0} /\ q \in Seq(Events) /\ InOrder(q) /\ ToSet(q) = Queued(c)
      /\ \A f \in Queued(c) : f.uid < u
  BY DEF Agree
<1>2. /\ r.event = HeadEvent(head(c)) /\ FirstOf(Queued(c), r.event)
      /\ Sound(r.left) /\ Queued(r.left) = Queued(c) \ {r.event}
  BY <1>1, DequeLemma
<1>3. /\ FirstOf(ToSet(q), Head(q))
      /\ Tail(q) \in Seq(Events) /\ InOrder(Tail(q)) /\ ToSet(Tail(q)) = ToSet(q) \ {Head(q)}
  BY <1>1, ListServeLemma
<1>4. Head(q) = r.event
  <2>1. IsCalendar(c)
    BY <1>1 DEF Sound
  <2>2. PICK S \in SUBSET Events : S = Queued(c)
    BY <2>1, QueuedLemma
  <2>3. PICK a, b : a = Head(q) /\ b = r.event
    OBVIOUS
  <2>4. FirstOf(S, a) /\ FirstOf(S, b)
    BY <1>1, <1>2, <1>3, <2>2, <2>3
  <2>5. a = b
    BY <2>4, FirstUnique
  <2> QED  BY <2>3, <2>5
<1> QED  BY <1>1, <1>2, <1>3, <1>4 DEF Agree

\* The queues after the events es, which are numbered in their order.
LEMMA StartLemma ==
    ASSUME NEW es \in Seq(Events), \A k \in 1..Len(es) : es[k].uid = k,
           NEW d, d = Start(NewQueues, es)
    PROVE  Agree(d.cal, d.list, Len(es) + 1) /\ Queued(d.cal) = ToSet(es)
<1>1. PICK n \in Nat : n = Len(es) /\ DOMAIN es = 1..n
  BY LenProperties
<1>2. PICK g : /\ g[0] = NewQueues
               /\ \A i \in 0..(n - 1) : g[i + 1] = Scheduled(g[i], es[i + 1])
               /\ d = g[n]
  <2>1. \E g : /\ g[0] = NewQueues
               /\ \A i \in 0..(n - 1) : g[i + 1] = Scheduled(g[i], es[i + 1])
               /\ Start(NewQueues, es) = g[n]
    BY <1>1, StartRun
  <2> QED  BY <2>1
<1> DEFINE Upto(i) == {es[k] : k \in 1..i}
           Good(i) == Agree(g[i].cal, g[i].list, i + 1) /\ Queued(g[i].cal) = Upto(i)
           S == {i \in 0..n : Good(i)}
<1>3. 0 \in S
  <2>1. g[0].cal = NewCalendar /\ g[0].list = <<>>
    BY <1>2 DEF NewQueues
  <2>2. Sound(g[0].cal) /\ Queued(g[0].cal) = {}
    BY <2>1, NewCalendarLemma
  <2>3. <<>> \in Seq(Events) /\ Len(<<>>) = 0 /\ ToSet(<<>>) = {}
    BY DEF ToSet
  <2>4. InOrder(<<>>)
    BY <2>3 DEF InOrder
  <2>5. Agree(g[0].cal, g[0].list, 0 + 1)
    <3>1. 0 + 1 \in Nat \ {0}
      OBVIOUS
    <3> QED  BY <2>1, <2>2, <2>3, <2>4, <3>1 DEF Agree
  <2>6. Upto(0) = {}
    OBVIOUS
  <2> QED  BY <2>2, <2>5, <2>6
<1>4. ASSUME NEW i \in 0..(n - 1), i \in S PROVE i + 1 \in S
  <2>1. i + 1 \in 1..n /\ i + 1 \in 0..n
    OBVIOUS
  <2>2. PICK a, b, c, e : /\ a = g[i] /\ b = g[i + 1] /\ e = es[i + 1]
                          /\ c = insert(a.cal, e)
    OBVIOUS
  <2>3. PICK r : r = list_insert(a.list, e)
    OBVIOUS
  <2>4. b.cal = c /\ b.list = r
    <3>1. b = Scheduled(a, e)
      BY <1>2, <2>2
    <3>2. b = [cal |-> c, heap |-> heap_insert(a.heap, e), list |-> r]
      BY <2>2, <2>3, <3>1 DEF Scheduled
    <3> QED  BY <3>2
  <2>5. e \in Events /\ e.uid = i + 1
    BY <1>1, <2>1, <2>2, ElementOfSeq
  <2>6. PICK x, y, u : x = a.cal /\ y = a.list /\ u = i + 1
    OBVIOUS
  <2>7. Agree(x, y, u) /\ Queued(x) = Upto(i)
    BY <1>4, <2>2, <2>6
  <2>8. Agree(c, r, u + 1) /\ Queued(c) = Queued(x) \cup {e}
    <3>1. e.uid = u /\ c = insert(x, e) /\ r = list_insert(y, e)
      BY <2>2, <2>3, <2>5, <2>6
    <3> HIDE DEF Upto
    <3> QED  BY ONLY <2>5, <2>7, <3>1, AgreeInsert
  <2>9. Upto(i + 1) = Upto(i) \cup {e}
    <3>1. \A k \in 1..(i + 1) : k \in 1..i \/ k = i + 1
      OBVIOUS
    <3>2. \A k \in 1..i : k \in 1..(i + 1)
      OBVIOUS
    <3>3. i + 1 \in 1..(i + 1)
      OBVIOUS
    <3> QED  BY <2>2, <3>1, <3>2, <3>3
  <2> HIDE DEF Upto
  <2> QED  BY <2>1, <2>2, <2>4, <2>6, <2>7, <2>8, <2>9
<1>5. n \in S
  <2> HIDE DEF S
  <2>1. \A i \in 0..n : i \in S
    BY <1>3, <1>4, BoundedInduction
  <2>2. n \in 0..n
    OBVIOUS
  <2> QED  BY <2>1, <2>2
<1>6. Upto(n) = ToSet(es)
  BY <1>1 DEF ToSet
<1> HIDE DEF Upto
<1> QED  BY <1>1, <1>2, <1>5, <1>6

\* A finite set put in some order: each element once.
LEMMA SetToSeqOnce ==
    ASSUME NEW S, IsFiniteSet(S), NEW s, s = SetToSeq(S)
    PROVE  /\ s \in Seq(S)
           /\ \A i, j \in 1..Len(s) : s[i] = s[j] => i = j
           /\ \A x \in S : \E i \in 1..Len(s) : s[i] = x
<1> DEFINE n == Cardinality(S)
<1>1. n \in Nat
  BY FS_CardinalityType
<1>2. \E f : f \in [1..n -> S] /\ IsInjective(f)
  <2>1. PICK f : f \in Bijection(1..n, S)
    BY FS_CardinalityType DEF ExistsBijection
  <2> QED  BY <2>1 DEF Bijection, Injection, IsInjective
<1>3. s \in [1..n -> S] /\ IsInjective(s)
  BY <1>2 DEF SetToSeq
<1>4. s \in Injection(1..n, S)
  BY <1>3 DEF Injection
<1>5. IsFiniteSet(1..n) /\ Cardinality(1..n) = n
  BY <1>1, FS_Interval
<1>6. s \in Surjection(1..n, S)
  <2>1. PICK T : T = 1..n
    OBVIOUS
  <2>2. s \in Injection(T, S) /\ Cardinality(T) = Cardinality(S)
    BY <1>4, <1>5, <2>1
  <2>3. s \in Surjection(T, S)
    BY <2>2, FS_Injection
  <2> QED  BY <2>1, <2>3
<1>7. s \in Seq(S) /\ Len(s) = n
  <2> HIDE DEF n
  <2> QED  BY <1>1, <1>3, SeqDef, LenProperties
<1>8. \A i, j \in 1..n : s[i] = s[j] => i = j
  BY <1>3 DEF IsInjective
<1>9. \A x \in S : \E i \in 1..n : s[i] = x
  BY <1>6 DEF Surjection
<1> QED  BY <1>7, <1>8, <1>9

\* What is scheduled before the run: one event of each timer that was
\* started, and others that are not of timers.
LEMMA StartedLemma ==
    ASSUME NEW A \in Agents, NEW times \in Seq(Nat), NEW es, es = Started(A, times)
    PROVE  /\ A \subseteq Timers
           /\ es \in Seq(Events) /\ \A k \in 1..Len(es) : es[k].uid = k
           /\ \A e \in ToSet(es) : e.owner \in A \cup {Packet}
           /\ \A t \in A : \E e \in ToSet(es) : e.owner = t
           /\ \A e, f \in ToSet(es) : e.owner \in A /\ f.owner = e.owner => e = f
<1>1. A \subseteq Periodic /\ A \subseteq {"Hello", "Neighbor", "Clean", "Trace"}
  BY SimulatorAssumption
<1>2. A \subseteq Timers /\ Packet \notin A /\ Packet \in Owners /\ A \subseteq Owners
  BY <1>1, SimulatorAssumption DEF Timers, Owners
<1>3. IsFiniteSet(A)
  <2>1. IsFiniteSet({"Hello", "Neighbor", "Clean", "Trace"})
    <3>1. IsFiniteSet({})
      BY FS_EmptySet
    <3>2. IsFiniteSet({} \cup {"Hello"})
      BY <3>1, FS_AddElement
    <3>3. IsFiniteSet({"Hello"} \cup {"Neighbor"})
      BY <3>2, FS_AddElement
    <3>4. IsFiniteSet({"Hello", "Neighbor"} \cup {"Clean"})
      <4>1. {"Hello"} \cup {"Neighbor"} = {"Hello", "Neighbor"}
        OBVIOUS
      <4> QED  BY <3>3, <4>1, FS_AddElement
    <3>5. IsFiniteSet({"Hello", "Neighbor", "Clean"} \cup {"Trace"})
      <4>1. {"Hello", "Neighbor"} \cup {"Clean"} = {"Hello", "Neighbor", "Clean"}
        OBVIOUS
      <4> QED  BY <3>4, <4>1, FS_AddElement
    <3>6. {"Hello", "Neighbor", "Clean"} \cup {"Trace"} = {"Hello", "Neighbor", "Clean", "Trace"}
      OBVIOUS
    <3> QED  BY <3>5, <3>6
  <2> QED  BY <1>1, <2>1, FS_Subset
<1>4. PICK p : p = SetToSeq(A)
  OBVIOUS
<1>5. /\ p \in Seq(A)
      /\ \A i, j \in 1..Len(p) : p[i] = p[j] => i = j
      /\ \A x \in A : \E i \in 1..Len(p) : p[i] = x
  BY <1>3, <1>4, SetToSeqOnce
<1>6. PICK n \in Nat : n = Len(p) /\ \A i \in 1..n : p[i] \in A
  BY <1>5, LenProperties, ElementOfSeq
<1>7. PICK m \in Nat : m = Len(times) /\ \A i \in 1..m : times[i] \in Nat
  BY LenProperties, ElementOfSeq
<1>8. PICK first : first = [k \in 1..n |-> Event(Min(Interval[p[k]]), k, p[k])]
  OBVIOUS
<1>9. PICK last : last = [k \in 1..m |-> Event(times[k], n + k, Packet)]
  OBVIOUS
<1>10. es = first \o last
  BY <1>4, <1>6, <1>7, <1>8, <1>9 DEF Started
<1>11. \A k \in 1..n : /\ first[k] \in Events /\ first[k].uid = k /\ first[k].owner = p[k]
  <2> SUFFICES ASSUME NEW k \in 1..n
               PROVE  first[k] \in Events /\ first[k].uid = k /\ first[k].owner = p[k]
    OBVIOUS
  <2>1. PICK I : I = Interval[p[k]]
    OBVIOUS
  <2>2. I \in SUBSET Nat /\ I # {}
    BY <1>2, <1>6, <2>1, SimulatorAssumption
  <2>3. Min(I) \in Nat
    BY <2>2, MinLemma
  <2>4. first[k] = [time |-> Min(I), uid |-> k, owner |-> p[k]]
    BY <1>8, <2>1 DEF Event
  <2>5. p[k] \in Owners /\ k \in Nat \ {0}
    BY <1>2, <1>6
  <2> QED  BY <2>3, <2>4, <2>5 DEF Events
<1>12. \A k \in 1..m : /\ last[k] \in Events /\ last[k].uid = n + k /\ last[k].owner = Packet
  <2> SUFFICES ASSUME NEW k \in 1..m
               PROVE  last[k] \in Events /\ last[k].uid = n + k /\ last[k].owner = Packet
    OBVIOUS
  <2>1. last[k] = [time |-> times[k], uid |-> n + k, owner |-> Packet]
    BY <1>9 DEF Event
  <2>2. n + k \in Nat \ {0} /\ times[k] \in Nat
    BY <1>7
  <2> QED  BY <1>2, <2>1, <2>2 DEF Events
<1>13. first \in Seq(Events) /\ Len(first) = n /\ last \in Seq(Events) /\ Len(last) = m
  <2>1. first \in [1..n -> Events]
    BY <1>8, <1>11
  <2>2. last \in [1..m -> Events]
    BY <1>9, <1>12
  <2> QED  BY <2>1, <2>2, SeqDef, LenProperties
<1>14. /\ es \in Seq(Events) /\ Len(es) = n + m
       /\ \A i \in 1..(n + m) : es[i] = IF i <= n THEN first[i] ELSE last[i - n]
  <2>1. /\ first \o last \in Seq(Events) /\ Len(first \o last) = Len(first) + Len(last)
        /\ \A i \in 1..(Len(first) + Len(last)) :
              (first \o last)[i] = IF i <= Len(first) THEN first[i] ELSE last[i - Len(first)]
    BY ONLY <1>13, ConcatProperties
  <2> QED  BY <1>10, <1>13, <2>1
<1>15. ASSUME NEW i \in 1..(n + m)
       PROVE  /\ es[i].uid = i
              /\ i <= n => i \in 1..n /\ es[i].owner = p[i]
              /\ i > n => es[i].owner = Packet
  <2>1. CASE i <= n
    <3>1. i \in 1..n /\ es[i] = first[i]
      BY <1>14, <2>1
    <3> QED  BY <1>11, <2>1, <3>1
  <2>2. CASE i > n
    <3>1. i - n \in 1..m /\ n + (i - n) = i /\ es[i] = last[i - n]
      BY <1>14, <2>2
    <3>2. PICK k \in 1..m : k = i - n
      BY <3>1
    <3> QED  BY <1>12, <2>2, <3>1, <3>2
  <2> QED  BY <2>1, <2>2
<1>16. \A e : e \in ToSet(es) <=> \E i \in 1..(n + m) : e = es[i]
  BY <1>14, ToSetLemma
<1>17. \A e \in ToSet(es) : e.owner \in A \cup {Packet}
  BY <1>6, <1>15, <1>16
<1>18. ASSUME NEW t \in A PROVE \E e \in ToSet(es) : e.owner = t
  <2>1. PICK i \in 1..n : p[i] = t
    BY <1>5, <1>6
  <2>2. i \in 1..(n + m) /\ i <= n
    OBVIOUS
  <2> QED  BY <1>15, <1>16, <2>1, <2>2
<1>19. ASSUME NEW e \in ToSet(es), NEW f \in ToSet(es), e.owner \in A, f.owner = e.owner
       PROVE  e = f
  <2>1. PICK i \in 1..(n + m), j \in 1..(n + m) : e = es[i] /\ f = es[j]
    BY <1>16
  <2>2. i <= n /\ j <= n
    BY <1>2, <1>15, <1>19, <2>1
  <2> QED  BY <1>5, <1>6, <1>15, <1>19, <2>1, <2>2
<1> QED  BY <1>2, <1>14, <1>15, <1>17, <1>18, <1>19

-----------------------------------------------------------------------------
(* Timers and their events. *)

Mine(Q, t) == {e \in Q : e.owner = t}

\* What TimersMatchQueue says of a timer.
MatchAt(Q, st, ev, L, t) ==
    IF t \in L /\ st[t] = "PENDING" THEN Mine(Q, t) = {ev[t]}
    ELSE Mine(Q, t) = {} /\ ~InQueue(ev[t])

Match(Q, st, ev, L) == \A t \in Timers : MatchAt(Q, st, ev, L, t)

-----------------------------------------------------------------------------
(* The calls that a handler still makes. *)

CallRecords ==
    [op : {"resched", "new", "delete"}, timer : Timers] \cup [op : {"send", "cancel", "halt"}]

CallOk(c, L) ==
    /\ c.op = "resched" => c.timer \in L
    /\ c.op = "new" => c.timer \in Blocks \ L
    /\ c.op = "delete" => c.timer \in Blocks \cap L

\* One of a and b makes or deletes the timer of the other.
Clash(a, b) ==
    /\ a.op \in {"new", "delete"} /\ b.op \in {"resched", "new", "delete"}
    /\ a.timer = b.timer

\* The calls are on timers that exist when it is their turn.
CallsOk(cs, L) ==
    /\ cs \in Seq(CallRecords)
    /\ \A k \in 1..Len(cs) : CallOk(cs[k], L)
    /\ \A j, k \in 1..Len(cs) : j # k => ~Clash(cs[j], cs[k])

\* A handler that makes no call.
LEMMA NoCalls == \A L : CallsOk(<<>>, L)
<1>1. <<>> \in Seq(CallRecords) /\ Len(<<>>) = 0
  OBVIOUS
<1>2. \A k \in 1..0 : FALSE
  OBVIOUS
<1> QED  BY <1>1, <1>2 DEF CallsOk

\* A handler that makes one call.
LEMMA OneCall ==
    ASSUME NEW L, NEW a \in CallRecords, CallOk(a, L)
    PROVE  CallsOk(<<a>>, L)
<1>1. PICK s : s = <<a>>
  OBVIOUS
<1>2. s \in Seq(CallRecords) /\ Len(s) = 1 /\ s[1] = a
  BY <1>1
<1>3. \A k \in 1..1 : k = 1
  OBVIOUS
<1>4. CallsOk(s, L)
  BY <1>2, <1>3 DEF CallsOk
<1> QED  BY <1>1, <1>4

\* A handler that makes two calls, of which neither undoes the other.
LEMMA TwoCalls ==
    ASSUME NEW L, NEW a \in CallRecords, NEW b \in CallRecords, CallOk(a, L), CallOk(b, L),
           ~Clash(a, b), ~Clash(b, a)
    PROVE  CallsOk(<<a, b>>, L)
<1>1. PICK s : s = <<a, b>>
  OBVIOUS
<1>2. s \in Seq(CallRecords) /\ Len(s) = 2 /\ s[1] = a /\ s[2] = b
  BY <1>1
<1>3. \A k \in 1..2 : k = 1 \/ k = 2
  OBVIOUS
<1>4. CallsOk(s, L)
  BY <1>2, <1>3 DEF CallsOk
<1> QED  BY <1>1, <1>4

\* A handler that makes three.
LEMMA ThreeCalls ==
    ASSUME NEW L, NEW a \in CallRecords, NEW b \in CallRecords, NEW c \in CallRecords,
           CallOk(a, L), CallOk(b, L), CallOk(c, L),
           ~Clash(a, b), ~Clash(b, a), ~Clash(a, c), ~Clash(c, a), ~Clash(b, c), ~Clash(c, b)
    PROVE  CallsOk(<<a, b, c>>, L)
<1>1. PICK s : s = <<a, b, c>>
  OBVIOUS
<1>2. s \in Seq(CallRecords) /\ Len(s) = 3 /\ s[1] = a /\ s[2] = b /\ s[3] = c
  BY <1>1
<1>3. \A k \in 1..3 : k = 1 \/ k = 2 \/ k = 3
  OBVIOUS
<1>4. CallsOk(s, L)
  BY <1>2, <1>3 DEF CallsOk
<1> QED  BY <1>1, <1>4

\* The first call is made.
LEMMA NextCall ==
    ASSUME NEW cs, NEW L, CallsOk(cs, L), cs # <<>>, NEW c, c = Head(cs)
    PROVE  /\ c \in CallRecords /\ CallOk(c, L)
           /\ c.op \in {"resched", "send", "cancel", "halt"} => CallsOk(Tail(cs), L)
           /\ c.op = "new" => CallsOk(Tail(cs), L \cup {c.timer})
           /\ c.op = "delete" => CallsOk(Tail(cs), L \ {c.timer})
<1>1. /\ cs \in Seq(CallRecords)
      /\ \A k \in 1..Len(cs) : CallOk(cs[k], L)
      /\ \A j, k \in 1..Len(cs) : j # k => ~Clash(cs[j], cs[k])
  BY DEF CallsOk
<1>2. Len(cs) \in Nat \ {0}
  BY <1>1, EmptySeq, LenProperties
<1>3. PICK t : t = Tail(cs)
  OBVIOUS
<1>4. /\ c = cs[1] /\ t \in Seq(CallRecords) /\ Len(t) = Len(cs) - 1
      /\ \A i \in 1..(Len(cs) - 1) : t[i] = cs[i + 1]
  <2>1. /\ Head(cs) = cs[1] /\ Tail(cs) \in Seq(CallRecords) /\ Len(Tail(cs)) = Len(cs) - 1
        /\ \A i \in 1..Len(Tail(cs)) : Tail(cs)[i] = cs[i + 1]
    BY <1>1, HeadTailProperties
  <2> QED  BY <1>3, <2>1
<1>5. 1 \in 1..Len(cs) /\ c \in CallRecords /\ CallOk(c, L)
  <2>1. 1 \in 1..Len(cs)
    BY <1>2
  <2> QED  BY <1>1, <1>4, <2>1, ElementOfSeq
<1>6. \A j, k \in 1..Len(t) : j # k => ~Clash(t[j], t[k])
  <2> SUFFICES ASSUME NEW j \in 1..Len(t), NEW k \in 1..Len(t), j # k
               PROVE  ~Clash(t[j], t[k])
    OBVIOUS
  <2>1. PICK a \in 1..Len(cs), b \in 1..Len(cs) : a = j + 1 /\ b = k + 1
    BY <1>2, <1>4
  <2>2. a # b /\ t[j] = cs[a] /\ t[k] = cs[b]
    BY <1>2, <1>4, <2>1
  <2> QED  BY <1>1, <2>2
<1>7. ASSUME NEW k \in 1..Len(t)
      PROVE  t[k] \in CallRecords /\ CallOk(t[k], L) /\ ~Clash(c, t[k])
  <2>1. PICK a \in 1..Len(cs) : a = k + 1
    BY <1>2, <1>4
  <2>2. a # 1 /\ t[k] = cs[a]
    BY <1>2, <1>4, <2>1
  <2>3. t[k] \in CallRecords
    BY <1>4, ElementOfSeq
  <2> QED  BY <1>1, <1>4, <1>5, <2>2, <2>3
<1>8. CallsOk(t, L)
  BY <1>4, <1>6, <1>7 DEF CallsOk
<1>9. ASSUME c.op = "new" PROVE CallsOk(t, L \cup {c.timer})
  <2>1. \A k \in 1..Len(t) : CallOk(t[k], L \cup {c.timer})
    BY <1>7, <1>9 DEF CallOk, Clash
  <2> QED  BY <1>4, <1>6, <2>1 DEF CallsOk
<1>10. ASSUME c.op = "delete" PROVE CallsOk(t, L \ {c.timer})
  <2>1. \A k \in 1..Len(t) : CallOk(t[k], L \ {c.timer})
    BY <1>7, <1>10 DEF CallOk, Clash
  <2> QED  BY <1>4, <1>6, <2>1 DEF CallsOk
<1> QED  BY <1>3, <1>5, <1>8, <1>9, <1>10

\* The calls of the handlers, on the timers that exist.
LEMMA NeighborCalls ==
    live \subseteq Timers => CheckNeighbors = <<>> \/ (CheckNeighbors = <<Re("Neighbor")>> /\ "Neighbor" \in live)
BY DEF CheckNeighbors

\* The calls that are in order, each by itself.
LEMMA CallTypes ==
    /\ \A t \in Timers : {Re(t), New(t), Delete(t)} \subseteq CallRecords
    /\ {Send, Cancel, Halt} \subseteq CallRecords
    /\ \A L : CallOk(Send, L) /\ CallOk(Cancel, L) /\ CallOk(Halt, L)
    /\ \A L : \A t \in L : CallOk(Re(t), L)
    /\ \A L : \A b \in Blocks \ L : CallOk(New(b), L)
    /\ \A L : \A b \in Blocks \cap L : CallOk(Delete(b), L)
    /\ \A a : ~Clash(Send, a) /\ ~Clash(a, Send)
    /\ \A t, u : ~Clash(Re(t), Re(u))
    /\ \A t, u : t # u => /\ ~Clash(Re(t), New(u)) /\ ~Clash(New(u), Re(t))
                          /\ ~Clash(Re(t), Delete(u)) /\ ~Clash(Delete(u), Re(t))
<1>1. /\ \A t \in Timers : {Re(t), New(t), Delete(t)} \subseteq CallRecords
      /\ {Send, Cancel, Halt} \subseteq CallRecords
  BY DEF CallRecords, Re, New, Delete, Send, Cancel, Halt
<1>2. \A L : CallOk(Send, L) /\ CallOk(Cancel, L) /\ CallOk(Halt, L)
  BY DEF CallOk, Send, Cancel, Halt
<1>3. /\ \A L : \A t \in L : CallOk(Re(t), L)
      /\ \A L : \A b \in Blocks \ L : CallOk(New(b), L)
      /\ \A L : \A b \in Blocks \cap L : CallOk(Delete(b), L)
  BY DEF CallOk, Re, New, Delete
<1>4. \A a : ~Clash(Send, a) /\ ~Clash(a, Send)
  BY DEF Clash, Send
<1>5. /\ \A t, u : ~Clash(Re(t), Re(u))
      /\ \A t, u : t # u => /\ ~Clash(Re(t), New(u)) /\ ~Clash(New(u), Re(t))
                            /\ ~Clash(Re(t), Delete(u)) /\ ~Clash(Delete(u), Re(t))
  BY DEF Clash, Re, New, Delete
<1> QED  BY <1>1, <1>2, <1>3, <1>4, <1>5

\* The timer of a block is not the timer of the agent.
LEMMA BlockNames ==
    ASSUME NEW b \in Blocks
    PROVE  b # "Neighbor" /\ b \in Timers
BY SimulatorAssumption DEF Timers

\* Concatenations of short sequences.
LEMMA JoinLemma ==
    ASSUME NEW a, NEW b, NEW c
    PROVE  /\ <<a>> \o <<b>> = <<a, b>> /\ <<a>> \o <<b, c>> = <<a, b, c>>
           /\ <<a>> \o <<>> = <<a>>
<1> DEFINE S == {a, b, c}
<1>1. PICK x, y, z : x = <<a>> /\ y = <<b>> /\ z = <<b, c>>
  OBVIOUS
<1>2. /\ x \in Seq(S) /\ y \in Seq(S) /\ z \in Seq(S)
      /\ Len(x) = 1 /\ Len(y) = 1 /\ Len(z) = 2
      /\ x[1] = a /\ y[1] = b /\ z[1] = b /\ z[2] = c
  BY <1>1
<1>3. <<a>> \o <<b>> = <<a, b>>
  <2>1. PICK s : s = x \o y
    OBVIOUS
  <2>2. /\ s \in Seq(S) /\ Len(s) = Len(x) + Len(y)
        /\ \A i \in 1..(Len(x) + Len(y)) : s[i] = IF i <= Len(x) THEN x[i] ELSE y[i - Len(x)]
    BY <1>2, <2>1, ConcatProperties
  <2>3. 1 \in 1..2 /\ 2 \in 1..2 /\ 1 <= 1 /\ ~(2 <= 1) /\ 2 - 1 = 1
    OBVIOUS
  <2>4. Len(s) = 2 /\ s[1] = a /\ s[2] = b
    BY <1>2, <2>2, <2>3
  <2>5. PICK t : t = <<a, b>>
    OBVIOUS
  <2>6. t \in Seq(S) /\ Len(t) = 2 /\ t[1] = a /\ t[2] = b
    BY <2>5
  <2>7. \A i \in 1..2 : s[i] = t[i]
    <3>1. \A i \in 1..2 : i = 1 \/ i = 2
      OBVIOUS
    <3> QED  BY <2>4, <2>6, <3>1
  <2>8. s = t
    <3>1. s \in [1..2 -> S] /\ t \in [1..2 -> S]
      BY <2>2, <2>4, <2>6, LenProperties
    <3> QED  BY <2>7, <3>1
  <2> QED  BY <1>1, <2>1, <2>5, <2>8
<1>4. <<a>> \o <<b, c>> = <<a, b, c>>
  <2>1. PICK s : s = x \o z
    OBVIOUS
  <2>2. /\ s \in Seq(S) /\ Len(s) = Len(x) + Len(z)
        /\ \A i \in 1..(Len(x) + Len(z)) : s[i] = IF i <= Len(x) THEN x[i] ELSE z[i - Len(x)]
    BY <1>2, <2>1, ConcatProperties
  <2>3. /\ 1 \in 1..3 /\ 2 \in 1..3 /\ 3 \in 1..3 /\ 1 <= 1 /\ ~(2 <= 1) /\ ~(3 <= 1)
        /\ 2 - 1 = 1 /\ 3 - 1 = 2
    OBVIOUS
  <2>4. Len(s) = 3 /\ s[1] = a /\ s[2] = b /\ s[3] = c
    BY <1>2, <2>2, <2>3
  <2>5. PICK t : t = <<a, b, c>>
    OBVIOUS
  <2>6. t \in Seq(S) /\ Len(t) = 3 /\ t[1] = a /\ t[2] = b /\ t[3] = c
    BY <2>5
  <2>7. \A i \in 1..3 : s[i] = t[i]
    <3>1. \A i \in 1..3 : i = 1 \/ i = 2 \/ i = 3
      OBVIOUS
    <3> QED  BY <2>4, <2>6, <3>1
  <2>8. s = t
    <3>1. s \in [1..3 -> S] /\ t \in [1..3 -> S]
      BY <2>2, <2>4, <2>6, LenProperties
    <3> QED  BY <2>7, <3>1
  <2> QED  BY <1>1, <2>1, <2>5, <2>8
<1>5. x \o <<>> = x
  BY <1>2, ConcatEmptySeq
<1> QED  BY <1>1, <1>3, <1>4, <1>5

\* Concatenations with the empty sequence.
LEMMA JoinEmpty ==
    ASSUME NEW a, NEW b
    PROVE  /\ <<>> \o <<>> = <<>> /\ <<>> \o <<a>> = <<a>> /\ <<>> \o <<a, b>> = <<a, b>>
<1>1. PICK x, y, z : x = <<>> /\ y = <<a>> /\ z = <<a, b>>
  OBVIOUS
<1>2. x \in Seq({a, b}) /\ y \in Seq({a, b}) /\ z \in Seq({a, b})
  BY <1>1
<1>3. <<>> \o x = x /\ <<>> \o y = y /\ <<>> \o z = z
  BY <1>2, ConcatEmptySeq
<1> QED  BY <1>1, <1>3

\* The calls made when a packet arrives are in order.
LEMMA PacketCallsLemma ==
    ASSUME live \subseteq Timers, NEW cs \in PacketCalls
    PROVE  CallsOk(cs, live)
<1>1. CASE cs \in CommandCalls
  BY <1>1, OneCall, CallTypes DEF CommandCalls
<1>2. ASSUME NEW b \in Blocks \ live, cs = CheckNeighbors \o <<New(b), Send>>
      PROVE  CallsOk(cs, live)
  <2>1. b \in Timers /\ b # "Neighbor"
    BY BlockNames
  <2>2. CASE CheckNeighbors = <<>>
    <3>1. cs = <<New(b), Send>>
      BY <1>2, <2>2
    <3> QED  BY <2>1, <3>1, TwoCalls, CallTypes
  <2>3. CASE CheckNeighbors = <<Re("Neighbor")>> /\ "Neighbor" \in live
    <3>1. cs = <<Re("Neighbor"), New(b), Send>>
      <4>1. cs = <<Re("Neighbor")>> \o <<New(b), Send>>
        BY <1>2, <2>3
      <4> QED  BY <4>1, JoinLemma
    <3>2. "Neighbor" \in Timers
      BY <2>3
    <3> QED  BY <2>1, <2>3, <3>1, <3>2, ThreeCalls, CallTypes
  <2> QED  BY <2>2, <2>3, NeighborCalls
<1>3. ASSUME NEW b \in Blocks \cap live, cs = <<Delete(b)>> PROVE CallsOk(cs, live)
  BY <1>3, OneCall, CallTypes, BlockNames
<1> QED  BY <1>1, <1>2, <1>3 DEF PacketCalls

\* The calls made when a timer expires are in order: it is re-armed or deleted, never both.
LEMMA ExpireCallsLemma ==
    ASSUME live \subseteq Timers, NEW t \in live, NEW cs \in ExpireCalls(t)
    PROVE  CallsOk(cs, live)
<1>0. t \in Timers
  OBVIOUS
<1>1. CASE t = "Hello"
  <2>1. cs = <<Send, Re("Hello")>>
    BY <1>1 DEF ExpireCalls
  <2> QED  BY <1>0, <1>1, <2>1, TwoCalls, CallTypes
<1>2. CASE t = "Neighbor"
  <2>1. cs = <<Re("Neighbor")>>
    BY <1>2 DEF ExpireCalls
  <2> QED  BY <1>0, <1>2, <2>1, OneCall, CallTypes
<1>3. MakeClean = <<>> \/ (MakeClean = <<Re("Clean")>> /\ "Clean" \in live)
  BY DEF MakeClean
<1>4. CASE t = "Clean"
  <2>1. cs = MakeClean
    BY <1>4 DEF ExpireCalls
  <2> QED  BY <1>0, <1>3, <1>4, <2>1, NoCalls, OneCall, CallTypes
<1>5. CASE t = "Trace"
  <2>1. cs = MakeClean \o (IF clock_ < TraceUntil THEN <<Re("Trace")>> ELSE <<>>)
    BY <1>5 DEF ExpireCalls
  <2>2. \/ cs = <<>>
        \/ cs = <<Re("Trace")>>
        \/ cs = <<Re("Clean")>> /\ "Clean" \in live
        \/ cs = <<Re("Clean"), Re("Trace")>> /\ "Clean" \in live
    <3>1. cs = MakeClean \o <<Re("Trace")>> \/ cs = MakeClean \o <<>>
      BY <2>1
    <3> QED  BY <1>3, <3>1, JoinLemma, JoinEmpty
  <2>3. "Clean" \in live => "Clean" \in Timers
    OBVIOUS
  <2> QED  BY <1>0, <1>5, <2>2, <2>3, NoCalls, OneCall, TwoCalls, CallTypes
<1>6. CASE t \notin {"Hello", "Neighbor", "Clean", "Trace"}
  <2>1. t \in Blocks \cap live /\ t # "Neighbor"
    BY <1>0, <1>6, SimulatorAssumption DEF Timers
  <2>2. cs = CheckNeighbors \o <<Send, Re(t)>> \/ cs = CheckNeighbors \o <<Delete(t)>>
    BY <1>6 DEF ExpireCalls
  <2>3. CASE CheckNeighbors = <<>>
    <3>1. cs = <<Send, Re(t)>> \/ cs = <<Delete(t)>>
      BY <2>2, <2>3
    <3>2. CallsOk(<<Send, Re(t)>>, live)
      BY <1>0, TwoCalls, CallTypes
    <3>3. CallsOk(<<Delete(t)>>, live)
      BY <1>0, <2>1, OneCall, CallTypes
    <3> QED  BY <3>1, <3>2, <3>3
  <2>4. CASE CheckNeighbors = <<Re("Neighbor")>> /\ "Neighbor" \in live
    <3>1. cs = <<Re("Neighbor"), Send, Re(t)>> \/ cs = <<Re("Neighbor"), Delete(t)>>
      BY <2>2, <2>4
    <3>2. "Neighbor" \in Timers
      BY <2>4
    <3>3. CallsOk(<<Re("Neighbor"), Send, Re(t)>>, live)
      BY <1>0, <2>4, <3>2, ThreeCalls, CallTypes
    <3>4. CallsOk(<<Re("Neighbor"), Delete(t)>>, live)
      BY <1>0, <2>1, <2>4, <3>2, TwoCalls, CallTypes
    <3> QED  BY <3>1, <3>3, <3>4
  <2> QED  BY <2>3, <2>4, NeighborCalls
<1> QED  BY <1>1, <1>2, <1>4, <1>5, <1>6

-----------------------------------------------------------------------------
(* The inductive invariant of the event loop. *)

\* The loop, and the handler that runs.
Control ==
    /\ clock_ \in Nat /\ halted_ \in BOOLEAN /\ realtime \in BOOLEAN
    /\ running \in Owners \cup {Idle}
    /\ commands \in 0..MaxCommands
    /\ fault = "none"

TimerTypes ==
    /\ live \subseteq Timers
    /\ status_ \in [Timers -> {"IDLE", "PENDING", "HANDLING"}]
    /\ event_ \in [Timers -> [time : Nat, uid : Int, owner : Owners]]

Handling == \A t \in live : status_[t] = "HANDLING" => running = t

\* A simulation never has an event before its time of day.
NotLate == ~realtime => \A e \in Queued(cal) : clock_ <= e.time

SimInv ==
    /\ Control
    /\ TimerTypes
    /\ Agree(cal, queue_, uid_)
    /\ Match(Queued(cal), status_, event_, live)
    /\ Handling
    /\ CallsOk(calls, live)
    /\ NotLate

\* What a step does to the events.
Stays == Queued(cal') = Queued(cal) /\ UNCHANGED <<heap, uid_, out>>

Adds ==
    \E e \in Queued(cal') :
        /\ e.uid = uid_ /\ Queued(cal') = Queued(cal) \cup {e}
        /\ heap' = heap_insert(heap, e)
        /\ uid_' = uid_ + 1 /\ out' = out

Removes ==
    \E e \in Queued(cal) :
        /\ Queued(cal') = Queued(cal) \ {e}
        /\ heap' = heap_delete(heap, e)
        /\ uid_' = uid_ /\ out' = out

Moves ==
    \E e \in Queued(cal), f \in Queued(cal') :
        /\ f.uid = uid_ /\ f.owner = e.owner
        /\ Queued(cal') = (Queued(cal) \ {e}) \cup {f}
        /\ heap' = heap_insert(heap_delete(heap, e), f)
        /\ uid_' = uid_ + 1 /\ out' = out

Serves ==
    \E e \in Queued(cal) :
        /\ FirstOf(Queued(cal), e) /\ Queued(cal') = Queued(cal) \ {e}
        /\ heap' = heap_extract_min(heap)
        /\ uid_' = uid_ /\ out'.cal = e /\ out'.heap = heap_min(heap) /\ out'.list = e

QueueStep == Stays \/ Adds \/ Removes \/ Moves \/ Serves

-----------------------------------------------------------------------------
(* The calls on the queues. *)

\* The queues as sets of events.
LEMMA AgreeFacts ==
    ASSUME NEW c, NEW q, NEW u, Agree(c, q, u)
    PROVE  /\ Queued(c) \subseteq Events /\ ToSet(q) = Queued(c) /\ u \in Nat \ {0}
           /\ \A e \in Queued(c) : e.uid < u /\ e.uid # u
           /\ c.qsize_ > 0 <=> Queued(c) # {}
<1>1. /\ Sound(c) /\ u \in Nat \ {0} /\ ToSet(q) = Queued(c)
      /\ \A e \in Queued(c) : e.uid < u
  BY DEF Agree
<1>2. IsCalendar(c) /\ IsFiniteSet(Queued(c)) /\ c.qsize_ = Cardinality(Queued(c))
  BY <1>1 DEF Sound, Counted
<1>3. PICK Q : Q = Queued(c)
  OBVIOUS
<1>4. Q \in SUBSET Events
  BY <1>2, <1>3, QueuedLemma
<1>5. Cardinality(Q) > 0 <=> Q # {}
  BY <1>2, <1>3, <1>4, TimesLemma
<1>6. \A e \in Q : e.uid # u
  <2> SUFFICES ASSUME NEW e \in Q PROVE e.uid # u
    OBVIOUS
  <2>1. e.uid \in Nat /\ e.uid < u
    BY <1>1, <1>3, <1>4 DEF Events
  <2> QED  BY <1>1, <2>1
<1> QED  BY <1>1, <1>2, <1>3, <1>4, <1>5, <1>6

\* The fields of an event.
LEMMA EventLemma ==
    ASSUME NEW t \in Nat, NEW u \in Nat \ {0}, NEW o \in Owners
    PROVE  /\ Event(t, u, o) \in Events
           /\ Event(t, u, o).time = t /\ Event(t, u, o).uid = u /\ Event(t, u, o).owner = o
BY DEF Event, Events

\* Scheduler::schedule, on the queues.
LEMMA EnqueueLemma ==
    ASSUME Agree(cal, queue_, uid_), NEW t \in Nat, NEW o \in Owners, Enqueue(t, o),
           NEW e, e = Event(t, uid_, o)
    PROVE  /\ Agree(cal', queue_', uid_') /\ uid_' = uid_ + 1
           /\ e \in Events /\ e.time = t /\ e.uid = uid_ /\ e.owner = o
           /\ Queued(cal') = Queued(cal) \cup {e} /\ heap' = heap_insert(heap, e)
<1>1. uid_ \in Nat \ {0}
  BY AgreeFacts
<1>2. e \in Events /\ e.time = t /\ e.uid = uid_ /\ e.owner = o
  BY <1>1, EventLemma
<1>3. /\ cal' = insert(cal, e) /\ queue_' = list_insert(queue_, e) /\ uid_' = uid_ + 1
      /\ heap' = heap_insert(heap, e)
  BY DEF Enqueue
<1>4. Agree(cal', queue_', uid_ + 1) /\ Queued(cal') = Queued(cal) \cup {e}
  BY <1>2, <1>3, AgreeInsert
<1> QED  BY <1>2, <1>3, <1>4

\* Scheduler::cancel, on the queues.
LEMMA DequeueLemma ==
    ASSUME Agree(cal, queue_, uid_), NEW e \in Queued(cal), Dequeue(e)
    PROVE  /\ Agree(cal', queue_', uid_') /\ uid_' = uid_
           /\ Queued(cal') = Queued(cal) \ {e} /\ heap' = heap_delete(heap, e)
<1>1. /\ cal' = cancel(cal, e) /\ queue_' = list_cancel(queue_, e) /\ uid_' = uid_
      /\ heap' = heap_delete(heap, e)
  BY DEF Dequeue
<1>2. Agree(cal', queue_', uid_) /\ Queued(cal') = Queued(cal) \ {e}
  BY <1>1, AgreeCancel
<1> QED  BY <1>1, <1>2

\* A cancel and a schedule, on the queues.
LEMMA MoveLemma ==
    ASSUME Agree(cal, queue_, uid_), NEW e \in Queued(cal), NEW t \in Nat,
           e.owner \in Owners, Move(e, t), NEW f, f = Event(t, uid_, e.owner)
    PROVE  /\ Agree(cal', queue_', uid_') /\ uid_' = uid_ + 1
           /\ f \in Events /\ f.time = t /\ f.uid = uid_ /\ f.owner = e.owner
           /\ Queued(cal') = (Queued(cal) \ {e}) \cup {f}
           /\ heap' = heap_insert(heap_delete(heap, e), f)
<1>1. uid_ \in Nat \ {0}
  BY AgreeFacts
<1>2. f \in Events /\ f.time = t /\ f.uid = uid_ /\ f.owner = e.owner
  BY <1>1, EventLemma
<1>3. PICK c, q : c = cancel(cal, e) /\ q = list_cancel(queue_, e)
  OBVIOUS
<1>4. Agree(c, q, uid_) /\ Queued(c) = Queued(cal) \ {e}
  BY <1>3, AgreeCancel
<1>5. /\ cal' = insert(c, f) /\ queue_' = list_insert(q, f) /\ uid_' = uid_ + 1
      /\ heap' = heap_insert(heap_delete(heap, e), f)
  BY <1>3 DEF Move
<1>6. Agree(cal', queue_', uid_ + 1) /\ Queued(cal') = Queued(c) \cup {f}
  BY <1>2, <1>4, <1>5, AgreeInsert
<1> QED  BY <1>2, <1>4, <1>5, <1>6

-----------------------------------------------------------------------------
(* What a call leaves alone, and what it keeps. *)

\* The call c is the next one, and it changes neither the loop nor the clock.
LEMMA CallKeeps ==
    ASSUME SimInv, UNCHANGED clockVars, UNCHANGED <<out, running, commands>>, fault' = "none",
           TimerTypes', Agree(cal, queue_, uid_)', Handling', CallsOk(calls, live)',
           Match(Queued(cal), status_, event_, live)',
           \A e \in Queued(cal') \ Queued(cal) : clock_ <= e.time
    PROVE  SimInv'
<1>1. Control'
  BY DEF SimInv, Control, clockVars
<1>2. NotLate'
  BY DEF SimInv, NotLate, clockVars
<1> QED  BY <1>1, <1>2 DEF SimInv

\* The event of a timer that exists is queued if, and only if, it is PENDING.
LEMMA PendingLemma ==
    ASSUME SimInv, NEW t \in Timers
    PROVE  /\ t \in live /\ status_[t] = "PENDING" =>
                 event_[t] \in Queued(cal) /\ event_[t].owner = t /\ InQueue(event_[t])
           /\ t \in live /\ status_[t] # "PENDING" => ~InQueue(event_[t])
           /\ t \notin live => Mine(Queued(cal), t) = {} /\ ~InQueue(event_[t])
<1>1. MatchAt(Queued(cal), status_, event_, live, t)
  BY DEF SimInv, Match
<1>2. Queued(cal) \subseteq Events
  BY AgreeFacts DEF SimInv
<1>3. ASSUME t \in live, status_[t] = "PENDING"
      PROVE  event_[t] \in Queued(cal) /\ event_[t].owner = t /\ InQueue(event_[t])
  <2>1. Mine(Queued(cal), t) = {event_[t]}
    BY <1>1, <1>3 DEF MatchAt
  <2>2. event_[t] \in Mine(Queued(cal), t)
    BY <2>1
  <2>3. event_[t] \in Queued(cal) /\ event_[t].owner = t
    BY <2>2 DEF Mine
  <2>4. event_[t].uid \in Nat \ {0}
    BY <1>2, <2>3 DEF Events
  <2> QED  BY <2>3, <2>4 DEF InQueue
<1> QED  BY <1>1, <1>3 DEF MatchAt

-----------------------------------------------------------------------------
(* One lemma for each call of a handler. *)

\* The next call, and what the calls after it need.
LEMMA TimesOfCalls ==
    ASSUME SimInv, NEW t \in Timers, NEW d \in Interval[t]
    PROVE  /\ clock_ + d \in Nat /\ clock_ <= clock_ + d /\ t \in Owners /\ uid_ \in Nat \ {0}
           /\ Event(clock_ + d, uid_, t) \in [time : Nat, uid : Int, owner : Owners]
<1>1. d \in Nat /\ clock_ \in Nat /\ t \in Owners /\ uid_ \in Nat \ {0}
  BY SimulatorAssumption, AgreeFacts DEF SimInv, Control, Owners
<1>2. clock_ + d \in Nat /\ clock_ <= clock_ + d
  BY <1>1
<1>3. Event(clock_ + d, uid_, t) \in Events
  BY <1>1, <1>2, EventLemma
<1> QED  BY <1>1, <1>2, <1>3 DEF Events

\* A timer t gets a new event e, and becomes PENDING.
LEMMA PendingAgain ==
    ASSUME SimInv, NEW t \in Timers, NEW e, e \in [time : Nat, uid : Int, owner : Owners],
           e.owner = t,
           status_' = [status_ EXCEPT ![t] = "PENDING"],
           event_' = [event_ EXCEPT ![t] = e],
           t \in live', live' \subseteq live \cup {t}, live \subseteq live',
           running' = running,
           \A u \in Timers \ {t} : Mine(Queued(cal'), u) = Mine(Queued(cal), u),
           Mine(Queued(cal'), t) = {e}
    PROVE  TimerTypes' /\ Match(Queued(cal), status_, event_, live)' /\ Handling'
<1>1. /\ status_ \in [Timers -> {"IDLE", "PENDING", "HANDLING"}]
      /\ event_ \in [Timers -> [time : Nat, uid : Int, owner : Owners]]
      /\ live \subseteq Timers
  BY DEF SimInv, TimerTypes
<1>2. /\ status_'[t] = "PENDING" /\ event_'[t] = e
      /\ \A u \in Timers \ {t} : status_'[u] = status_[u] /\ event_'[u] = event_[u]
  BY <1>1
<1>3. TimerTypes'
  BY <1>1 DEF TimerTypes
<1>4. Match(Queued(cal'), status_', event_', live')
  <2>1. MatchAt(Queued(cal'), status_', event_', live', t)
    BY <1>2 DEF MatchAt
  <2>2. Match(Queued(cal), status_, event_, live)
    BY DEF SimInv
  <2>3. \A u \in Timers \ {t} : u \in live' <=> u \in live
    OBVIOUS
  <2> QED  BY <1>2, <2>1, <2>2, <2>3 DEF Match, MatchAt
<1>5. Handling'
  <2> SUFFICES ASSUME NEW u \in live', status_'[u] = "HANDLING" PROVE running' = u
    BY DEF Handling
  <2>1. u # t /\ u \in live /\ u \in Timers
    BY <1>1, <1>2
  <2>2. status_[u] = "HANDLING"
    BY <1>2, <2>1
  <2> QED  BY <2>1, <2>2 DEF SimInv, Handling
<1> QED  BY <1>3, <1>4, <1>5

\* TimerHandler::resched keeps one event per timer: the old one is cancelled first.
LEMMA ReschedStep ==
    ASSUME SimInv, NEW t \in live, NEW d \in Interval[t], Resched(t, d),
           CallsOk(calls', live), UNCHANGED clockVars, UNCHANGED <<out, running, commands>>
    PROVE  SimInv' /\ QueueStep
<1>1. t \in Timers
  BY DEF SimInv, TimerTypes
<1>2. PICK tt : tt = clock_ + d
  OBVIOUS
<1>3. /\ tt \in Nat /\ clock_ <= tt /\ t \in Owners /\ uid_ \in Nat \ {0}
      /\ Event(tt, uid_, t) \in [time : Nat, uid : Int, owner : Owners]
  BY <1>1, <1>2, TimesOfCalls
<1>4. PICK e : e = Event(tt, uid_, t)
  OBVIOUS
<1>5. ~(status_[t] # "PENDING" /\ InQueue(event_[t]))
  BY <1>1, PendingLemma
<1>6. /\ IF InQueue(event_[t]) THEN Move(event_[t], tt) ELSE Enqueue(tt, t)
      /\ event_' = [event_ EXCEPT ![t] = e] /\ status_' = [status_ EXCEPT ![t] = "PENDING"]
      /\ live' = live /\ fault' = fault
  BY <1>2, <1>4, <1>5 DEF Resched
<1>7. Agree(cal, queue_, uid_) /\ fault = "none"
  BY DEF SimInv, Control
<1>8. MatchAt(Queued(cal), status_, event_, live, t)
  BY <1>1 DEF SimInv, Match
<1>9. /\ Agree(cal', queue_', uid_') /\ uid_' = uid_ + 1
      /\ e \in Events /\ e.time = tt /\ e.uid = uid_ /\ e.owner = t
      /\ \A u \in Timers \ {t} : Mine(Queued(cal'), u) = Mine(Queued(cal), u)
      /\ Mine(Queued(cal'), t) = {e}
      /\ e \in Queued(cal') /\ Queued(cal') \ Queued(cal) \subseteq {e}
      /\ QueueStep
  <2>1. CASE InQueue(event_[t])
    <3>1. PICK f : f = event_[t]
      OBVIOUS
    <3>2. status_[t] = "PENDING"
      BY <1>5, <2>1
    <3>3. f \in Queued(cal) /\ f.owner = t
      BY <1>1, <3>1, <3>2, PendingLemma
    <3>4. Move(f, tt)
      BY <1>6, <2>1, <3>1
    <3>5. /\ Agree(cal', queue_', uid_') /\ uid_' = uid_ + 1
          /\ e \in Events /\ e.time = tt /\ e.uid = uid_ /\ e.owner = f.owner
          /\ Queued(cal') = (Queued(cal) \ {f}) \cup {e}
          /\ heap' = heap_insert(heap_delete(heap, f), e)
      BY <1>3, <1>4, <1>7, <3>3, <3>4, MoveLemma
    <3>6. Mine(Queued(cal), t) = {f}
      BY <1>8, <3>1, <3>2 DEF MatchAt
    <3>7. PICK Q : Q = Queued(cal) \ {f}
      OBVIOUS
    <3>8. /\ \A u : u # t => Mine(Q, u) = Mine(Queued(cal), u)
          /\ Mine(Q, t) = Mine(Queued(cal), t) \ {f}
      BY <3>3, <3>7 DEF Mine
    <3>9. /\ \A u : u # t => Mine(Queued(cal'), u) = Mine(Q, u)
          /\ Mine(Queued(cal'), t) = Mine(Q, t) \cup {e}
      <4>1. Queued(cal') = Q \cup {e} /\ e.owner = t
        BY <3>3, <3>5, <3>7
      <4> QED  BY <4>1 DEF Mine
    <3>10. Moves
      BY <3>3, <3>5 DEF Moves
    <3>11. e \in Queued(cal') /\ Queued(cal') \ Queued(cal) \subseteq {e}
      BY <3>5
    <3> QED  BY <3>3, <3>5, <3>6, <3>8, <3>9, <3>10, <3>11 DEF QueueStep
  <2>2. CASE ~InQueue(event_[t])
    <3>1. Enqueue(tt, t)
      BY <1>6, <2>2
    <3>2. /\ Agree(cal', queue_', uid_') /\ uid_' = uid_ + 1
          /\ e \in Events /\ e.time = tt /\ e.uid = uid_ /\ e.owner = t
          /\ Queued(cal') = Queued(cal) \cup {e} /\ heap' = heap_insert(heap, e)
      BY <1>3, <1>4, <1>7, <3>1, EnqueueLemma
    <3>3. Mine(Queued(cal), t) = {}
      <4>1. status_[t] # "PENDING"
        BY <1>1, <2>2, PendingLemma
      <4> QED  BY <1>8, <4>1 DEF MatchAt
    <3>5. /\ \A u : u # t => Mine(Queued(cal'), u) = Mine(Queued(cal), u)
          /\ Mine(Queued(cal'), t) = Mine(Queued(cal), t) \cup {e}
      BY <3>2 DEF Mine
    <3>6. Adds
      BY <3>2 DEF Adds
    <3>7. e \in Queued(cal') /\ Queued(cal') \ Queued(cal) \subseteq {e}
      BY <3>2
    <3> QED  BY <3>2, <3>3, <3>5, <3>6, <3>7 DEF QueueStep
  <2> QED  BY <2>1, <2>2
<1>10. e \in [time : Nat, uid : Int, owner : Owners]
  BY <1>3, <1>4
<1>11. TimerTypes' /\ Match(Queued(cal), status_, event_, live)' /\ Handling'
  BY <1>1, <1>6, <1>9, <1>10, PendingAgain
<1>12. CallsOk(calls, live)'
  BY <1>6
<1>13. \A x \in Queued(cal') \ Queued(cal) : clock_ <= x.time
  BY <1>3, <1>9
<1>14. SimInv'
  BY <1>6, <1>7, <1>9, <1>11, <1>12, <1>13, CallKeeps
<1> QED  BY <1>9, <1>14

\* A new block starts its timer.
LEMMA NewBlockStep ==
    ASSUME SimInv, NEW b \in Blocks \ live, NEW d \in Interval[b], NewBlock(b, d),
           CallsOk(calls', live \cup {b}), UNCHANGED clockVars,
           UNCHANGED <<out, running, commands>>
    PROVE  SimInv' /\ QueueStep
<1>1. b \in Timers
  BY DEF Timers
<1>2. PICK tt : tt = clock_ + d
  OBVIOUS
<1>3. /\ tt \in Nat /\ clock_ <= tt /\ b \in Owners /\ uid_ \in Nat \ {0}
      /\ Event(tt, uid_, b) \in [time : Nat, uid : Int, owner : Owners]
  BY <1>1, <1>2, TimesOfCalls
<1>4. PICK e : e = Event(tt, uid_, b)
  OBVIOUS
<1>5. /\ Enqueue(tt, b)
      /\ event_' = [event_ EXCEPT ![b] = e] /\ status_' = [status_ EXCEPT ![b] = "PENDING"]
      /\ live' = live \cup {b} /\ fault' = fault
  BY <1>2, <1>4 DEF NewBlock
<1>6. Agree(cal, queue_, uid_) /\ fault = "none"
  BY DEF SimInv, Control
<1>7. /\ Agree(cal', queue_', uid_') /\ uid_' = uid_ + 1
      /\ e \in Events /\ e.time = tt /\ e.uid = uid_ /\ e.owner = b
      /\ Queued(cal') = Queued(cal) \cup {e} /\ heap' = heap_insert(heap, e)
  BY <1>3, <1>4, <1>5, <1>6, EnqueueLemma
<1>8. Mine(Queued(cal), b) = {}
  BY <1>1, PendingLemma
<1>10. /\ \A u : u # b => Mine(Queued(cal'), u) = Mine(Queued(cal), u)
       /\ Mine(Queued(cal'), b) = Mine(Queued(cal), b) \cup {e}
  BY <1>7 DEF Mine
<1>11. Adds
  BY <1>7 DEF Adds
<1>12. e \in [time : Nat, uid : Int, owner : Owners]
  BY <1>3, <1>4
<1>13. TimerTypes' /\ Match(Queued(cal), status_, event_, live)' /\ Handling'
  <2>1. b \in live' /\ live' \subseteq live \cup {b} /\ live \subseteq live'
    BY <1>5
  <2>2. /\ \A u \in Timers \ {b} : Mine(Queued(cal'), u) = Mine(Queued(cal), u)
        /\ Mine(Queued(cal'), b) = {e}
    BY <1>8, <1>10
  <2> QED  BY <1>1, <1>5, <1>7, <1>12, <2>1, <2>2, PendingAgain
<1>14. CallsOk(calls, live)'
  BY <1>5
<1>15. \A x \in Queued(cal') \ Queued(cal) : clock_ <= x.time
  BY <1>3, <1>7
<1>16. SimInv'
  BY <1>5, <1>6, <1>7, <1>13, <1>14, <1>15, CallKeeps
<1> QED  BY <1>11, <1>16 DEF QueueStep

\* The destructor of a block cancels its pending event.
LEMMA DeleteBlockStep ==
    ASSUME SimInv, NEW b \in Blocks \cap live, DeleteBlock(b),
           CallsOk(calls', live \ {b}), UNCHANGED clockVars,
           UNCHANGED <<out, running, commands>>
    PROVE  SimInv' /\ QueueStep
<1>1. b \in Timers /\ Agree(cal, queue_, uid_) /\ fault = "none"
  BY DEF Timers, SimInv, Control
<1>2. /\ status_ \in [Timers -> {"IDLE", "PENDING", "HANDLING"}]
      /\ event_ \in [Timers -> [time : Nat, uid : Int, owner : Owners]]
      /\ live \subseteq Timers
  BY DEF SimInv, TimerTypes
<1>3. live' = live \ {b} /\ fault' = fault
  BY DEF DeleteBlock
<1>4. /\ Agree(cal', queue_', uid_') /\ QueueStep /\ Queued(cal') \subseteq Queued(cal)
      /\ \A u \in Timers \ {b} : Mine(Queued(cal'), u) = Mine(Queued(cal), u)
      /\ Mine(Queued(cal'), b) = {} /\ ~InQueue(event_'[b])
      /\ \A u \in Timers \ {b} : status_'[u] = status_[u] /\ event_'[u] = event_[u]
      /\ status_' \in [Timers -> {"IDLE", "PENDING", "HANDLING"}]
      /\ event_' \in [Timers -> [time : Nat, uid : Int, owner : Owners]]
  <2>1. CASE status_[b] = "PENDING"
    <3>1. PICK e : e = event_[b]
      OBVIOUS
    <3>2. /\ Dequeue(e)
          /\ event_' = [event_ EXCEPT ![b] = OutOfQueue(@)]
          /\ status_' = [status_ EXCEPT ![b] = "IDLE"]
      BY <2>1, <3>1 DEF DeleteBlock
    <3>3. e \in Queued(cal) /\ e.owner = b /\ InQueue(e)
      BY <1>1, <2>1, <3>1, PendingLemma
    <3>4. /\ Agree(cal', queue_', uid_') /\ uid_' = uid_ /\ Queued(cal') = Queued(cal) \ {e}
          /\ heap' = heap_delete(heap, e)
      BY <1>1, <3>2, <3>3, DequeueLemma
    <3>5. Mine(Queued(cal), b) = {e}
      BY <1>1, <2>1, <3>1 DEF SimInv, Match, MatchAt
    <3>6. /\ \A u \in Timers \ {b} : Mine(Queued(cal'), u) = Mine(Queued(cal), u)
          /\ Mine(Queued(cal'), b) = {}
      BY <3>3, <3>4, <3>5 DEF Mine
    <3>7. Removes
      BY <3>3, <3>4 DEF Removes
    <3>8. e \in [time : Nat, uid : Int, owner : Owners]
      BY <1>1, <1>2, <3>1
    <3>9. PICK g : g = OutOfQueue(e)
      OBVIOUS
    <3>10. g \in [time : Nat, uid : Int, owner : Owners] /\ g.uid = -e.uid
      BY <3>8, <3>9 DEF OutOfQueue
    <3>11. ~InQueue(g)
      BY <3>3, <3>8, <3>10 DEF InQueue
    <3>12. event_' = [event_ EXCEPT ![b] = g]
      BY <1>1, <1>2, <3>1, <3>2, <3>9
    <3>13. event_'[b] = g
      BY <1>1, <1>2, <3>12
    <3>14. /\ \A u \in Timers \ {b} : status_'[u] = status_[u] /\ event_'[u] = event_[u]
           /\ status_' \in [Timers -> {"IDLE", "PENDING", "HANDLING"}]
           /\ event_' \in [Timers -> [time : Nat, uid : Int, owner : Owners]]
      BY <1>1, <1>2, <3>2, <3>10, <3>12
    <3> QED  BY <3>4, <3>6, <3>7, <3>11, <3>13, <3>14 DEF QueueStep
  <2>2. CASE status_[b] # "PENDING"
    <3>1. UNCHANGED <<cal, heap, queue_, uid_, event_, status_>>
      BY <2>2 DEF DeleteBlock, queueVars
    <3>2. Mine(Queued(cal), b) = {} /\ ~InQueue(event_[b])
      BY <1>1, <2>2 DEF SimInv, Match, MatchAt
    <3>3. Stays
      BY <3>1 DEF Stays
    <3> QED  BY <1>1, <1>2, <3>1, <3>2, <3>3 DEF QueueStep
  <2> QED  BY <2>1, <2>2
<1>5. TimerTypes'
  BY <1>2, <1>3, <1>4 DEF TimerTypes
<1>6. Match(Queued(cal), status_, event_, live)'
  <2>1. MatchAt(Queued(cal'), status_', event_', live', b)
    BY <1>3, <1>4 DEF MatchAt
  <2>2. Match(Queued(cal), status_, event_, live)
    BY DEF SimInv
  <2> QED  BY <1>3, <1>4, <2>1, <2>2 DEF Match, MatchAt
<1>7. Handling'
  BY <1>2, <1>3, <1>4 DEF SimInv, Handling
<1>8. CallsOk(calls, live)'
  BY <1>3
<1>9. SimInv'
  BY <1>1, <1>3, <1>4, <1>5, <1>6, <1>7, <1>8, CallKeeps
<1> QED  BY <1>4, <1>9

\* A packet is scheduled.
LEMMA SendStep ==
    ASSUME SimInv, NEW d \in PacketDelays, Enqueue(clock_ + d, Packet),
           UNCHANGED <<clockVars, timerVars, fault>>,
           CallsOk(calls', live), UNCHANGED <<out, running, commands>>
    PROVE  SimInv' /\ QueueStep
<1>1. PICK t : t = clock_ + d
  OBVIOUS
<1>2. clock_ \in Nat /\ d \in Nat /\ Agree(cal, queue_, uid_) /\ fault = "none"
  BY SimulatorAssumption DEF SimInv, Control
<1>3. t \in Nat /\ clock_ <= t
  BY <1>1, <1>2
<1>4. Packet \in Owners /\ Packet \notin Timers
  BY SimulatorAssumption DEF Owners
<1>5. PICK e : e = Event(t, uid_, Packet)
  OBVIOUS
<1>6. /\ Agree(cal', queue_', uid_') /\ uid_' = uid_ + 1
      /\ e \in Events /\ e.time = t /\ e.uid = uid_ /\ e.owner = Packet
      /\ Queued(cal') = Queued(cal) \cup {e} /\ heap' = heap_insert(heap, e)
  BY <1>1, <1>2, <1>3, <1>4, <1>5, EnqueueLemma
<1>7. \A u \in Timers : Mine(Queued(cal'), u) = Mine(Queued(cal), u)
  BY <1>4, <1>6 DEF Mine
<1>8. Adds
  BY <1>6 DEF Adds
<1>9. live' = live /\ status_' = status_ /\ event_' = event_ /\ fault' = "none" /\ UNCHANGED clockVars
  BY <1>2 DEF timerVars
<1>10. TimerTypes' /\ Match(Queued(cal), status_, event_, live)' /\ Handling'
  BY <1>7, <1>9 DEF SimInv, TimerTypes, Match, MatchAt, Handling
<1>11. CallsOk(calls, live)'
  BY <1>9
<1>12. \A x \in Queued(cal') \ Queued(cal) : clock_ <= x.time
  BY <1>3, <1>6
<1>13. SimInv'
  BY <1>6, <1>9, <1>10, <1>11, <1>12, CallKeeps
<1> QED  BY <1>8, <1>13 DEF QueueStep

\* A packet event is cancelled, or none is there.
LEMMA CancelStep ==
    ASSUME SimInv,
           \/ \E e \in Queued(cal) : e.owner = Packet /\ Dequeue(e)
           \/ UNCHANGED queueVars,
           UNCHANGED <<clockVars, timerVars, fault>>,
           CallsOk(calls', live), UNCHANGED <<out, running, commands>>
    PROVE  SimInv' /\ QueueStep
<1>1. Agree(cal, queue_, uid_) /\ fault = "none" /\ Packet \notin Timers
  BY SimulatorAssumption DEF SimInv, Control
<1>2. /\ Agree(cal', queue_', uid_') /\ QueueStep /\ Queued(cal') \subseteq Queued(cal)
      /\ \A u \in Timers : Mine(Queued(cal'), u) = Mine(Queued(cal), u)
  <2>1. ASSUME NEW e \in Queued(cal), e.owner = Packet, Dequeue(e)
        PROVE  /\ Agree(cal', queue_', uid_') /\ QueueStep /\ Queued(cal') \subseteq Queued(cal)
               /\ \A u \in Timers : Mine(Queued(cal'), u) = Mine(Queued(cal), u)
    <3>1. /\ Agree(cal', queue_', uid_') /\ uid_' = uid_ /\ Queued(cal') = Queued(cal) \ {e}
          /\ heap' = heap_delete(heap, e)
      BY <1>1, <2>1, DequeueLemma
    <3>2. \A u \in Timers : Mine(Queued(cal'), u) = Mine(Queued(cal), u)
      BY <1>1, <2>1, <3>1 DEF Mine
    <3>3. Removes
      BY <3>1 DEF Removes
    <3> QED  BY <3>1, <3>2, <3>3 DEF QueueStep
  <2>2. CASE UNCHANGED queueVars
    <3>1. UNCHANGED <<cal, heap, queue_, uid_>>
      BY <2>2 DEF queueVars
    <3>2. Stays
      BY <3>1 DEF Stays
    <3> QED  BY <1>1, <3>1, <3>2 DEF QueueStep
  <2> QED  BY <2>1, <2>2
<1>3. live' = live /\ status_' = status_ /\ event_' = event_ /\ fault' = "none" /\ UNCHANGED clockVars
  BY <1>1 DEF timerVars
<1>4. TimerTypes' /\ Match(Queued(cal), status_, event_, live)' /\ Handling'
  BY <1>2, <1>3 DEF SimInv, TimerTypes, Match, MatchAt, Handling
<1>5. CallsOk(calls, live)'
  BY <1>3
<1>6. SimInv'
  BY <1>2, <1>3, <1>4, <1>5, CallKeeps
<1> QED  BY <1>2, <1>6

\* The halt command of Tcl.
LEMMA HaltStep ==
    ASSUME SimInv, halted_' = TRUE,
           UNCHANGED <<clock_, realtime, queueVars, timerVars, fault>>,
           CallsOk(calls', live), UNCHANGED <<out, running, commands>>
    PROVE  SimInv' /\ QueueStep
<1>1. UNCHANGED <<clock_, realtime, cal, heap, queue_, uid_, status_, event_, live, fault, out,
                  running, commands>>
  BY DEF queueVars, timerVars
<1>2. Control' /\ TimerTypes' /\ Handling' /\ NotLate'
  BY <1>1 DEF SimInv, Control, TimerTypes, Handling, NotLate
<1>3. Agree(cal, queue_, uid_)' /\ Match(Queued(cal), status_, event_, live)' /\ CallsOk(calls, live)'
  BY <1>1 DEF SimInv
<1>4. Stays
  BY <1>1 DEF Stays
<1> QED  BY <1>2, <1>3, <1>4 DEF SimInv, QueueStep

\* Every call of a handler.
LEMMA CallStep ==
    ASSUME SimInv, Call
    PROVE  SimInv' /\ QueueStep
<1>1. PICK c : c = Head(calls)
  OBVIOUS
<1>2. CallsOk(calls, live) /\ calls # <<>> /\ calls' = Tail(calls)
      /\ UNCHANGED <<out, running, commands>>
  BY DEF SimInv, Call
<1>3. /\ c \in CallRecords /\ CallOk(c, live)
      /\ c.op \in {"resched", "send", "cancel", "halt"} => CallsOk(calls', live)
      /\ c.op = "new" => CallsOk(calls', live \cup {c.timer})
      /\ c.op = "delete" => CallsOk(calls', live \ {c.timer})
  BY <1>1, <1>2, NextCall
<1>4. CASE /\ c.op = "resched"
           /\ \E d \in Interval[c.timer] : Resched(c.timer, d)
           /\ UNCHANGED clockVars
  <2>1. PICK t : t = c.timer
    OBVIOUS
  <2>2. PICK d \in Interval[t] : Resched(t, d)
    BY <1>4, <2>1
  <2>3. t \in live
    BY <1>3, <1>4, <2>1 DEF CallOk
  <2> QED  BY <1>2, <1>3, <1>4, <2>2, <2>3, ReschedStep
<1>5. CASE /\ c.op = "new"
           /\ \E d \in Interval[c.timer] : NewBlock(c.timer, d)
           /\ UNCHANGED clockVars
  <2>1. PICK t : t = c.timer
    OBVIOUS
  <2>2. PICK d \in Interval[t] : NewBlock(t, d)
    BY <1>5, <2>1
  <2>3. t \in Blocks \ live /\ CallsOk(calls', live \cup {t})
    BY <1>3, <1>5, <2>1 DEF CallOk
  <2> QED  BY <1>2, <1>5, <2>2, <2>3, NewBlockStep
<1>6. CASE c.op = "delete" /\ DeleteBlock(c.timer) /\ UNCHANGED clockVars
  <2>1. PICK t : t = c.timer
    OBVIOUS
  <2>2. t \in Blocks \cap live /\ CallsOk(calls', live \ {t}) /\ DeleteBlock(t)
    BY <1>3, <1>6, <2>1 DEF CallOk
  <2> QED  BY <1>2, <1>6, <2>2, DeleteBlockStep
<1>7. CASE /\ c.op = "send"
           /\ \E d \in PacketDelays : Enqueue(clock_ + d, Packet)
           /\ UNCHANGED <<clockVars, timerVars, fault>>
  <2>1. PICK d \in PacketDelays : Enqueue(clock_ + d, Packet)
    BY <1>7
  <2> QED  BY <1>2, <1>3, <1>7, <2>1, SendStep
<1>8. CASE /\ c.op = "cancel"
           /\ \/ \E e \in Queued(cal) : e.owner = Packet /\ Dequeue(e)
              \/ UNCHANGED queueVars
           /\ UNCHANGED <<clockVars, timerVars, fault>>
  BY <1>2, <1>3, <1>8, CancelStep
<1>9. CASE /\ c.op = "halt" /\ halted_' = TRUE
           /\ UNCHANGED <<clock_, realtime, queueVars, timerVars, fault>>
  BY <1>2, <1>3, <1>9, HaltStep
<1> QED  BY <1>1, <1>4, <1>5, <1>6, <1>7, <1>8, <1>9 DEF Call

-----------------------------------------------------------------------------
(* The steps of the loop. *)

\* TimerHandler::handle returns: a timer that was not re-armed is idle.
LEMMA ReturnStep ==
    ASSUME SimInv, Return
    PROVE  SimInv' /\ QueueStep
<1>1. /\ status_' = IF running \in live /\ status_[running] = "HANDLING"
                    THEN [status_ EXCEPT ![running] = "IDLE"] ELSE status_
      /\ running' = Idle
      /\ UNCHANGED <<clock_, halted_, realtime, cal, heap, queue_, uid_, out, event_, live,
                     calls, commands, fault>>
  BY DEF Return, clockVars, queueVars
<1>2. /\ status_ \in [Timers -> {"IDLE", "PENDING", "HANDLING"}] /\ live \subseteq Timers
      /\ event_ \in [Timers -> [time : Nat, uid : Int, owner : Owners]]
  BY DEF SimInv, TimerTypes
<1>3. /\ status_' \in [Timers -> {"IDLE", "PENDING", "HANDLING"}]
      /\ \A t \in Timers : status_'[t] = "PENDING" <=> status_[t] = "PENDING"
      /\ \A t \in live : status_'[t] # "HANDLING"
  <2>1. \A t \in live : status_[t] = "HANDLING" => running = t
    BY DEF SimInv, Handling
  <2> QED  BY <1>1, <1>2, <2>1
<1>4. Control'
  BY <1>1 DEF SimInv, Control
<1>5. TimerTypes' /\ Handling' /\ NotLate'
  BY <1>1, <1>2, <1>3 DEF SimInv, TimerTypes, Handling, NotLate
<1>6. Match(Queued(cal'), status_', event_', live')
  BY <1>1, <1>3 DEF SimInv, Match, MatchAt
<1>7. Agree(cal, queue_, uid_)' /\ CallsOk(calls, live)'
  BY <1>1 DEF SimInv
<1>8. Stays
  BY <1>1 DEF Stays
<1> QED  BY <1>4, <1>5, <1>6, <1>7, <1>8 DEF SimInv, QueueStep

\* The calls of the handler that is dispatched.
LEMMA DispatchCalls ==
    ASSUME SimInv, NEW e, e.owner = Packet \/ e.owner \in live,
           IF e.owner = Packet THEN Obey(PacketCalls) \/ Ignore
           ELSE /\ \E c \in ExpireCalls(e.owner) : Room(c) /\ calls' = c
                /\ UNCHANGED commands
    PROVE  CallsOk(calls', live) /\ commands' \in 0..MaxCommands
<1>1. live \subseteq Timers /\ commands \in 0..MaxCommands /\ MaxCommands \in Nat
  BY SimulatorAssumption DEF SimInv, TimerTypes, Control
<1>2. CASE e.owner = Packet /\ Obey(PacketCalls)
  <2>1. commands' \in 0..MaxCommands
    BY <1>1, <1>2 DEF Obey
  <2>2. PICK c \in PacketCalls : calls' = c
    BY <1>2 DEF Obey
  <2> QED  BY <1>1, <2>1, <2>2, PacketCallsLemma
<1>3. CASE e.owner = Packet /\ Ignore
  BY <1>1, <1>3, NoCalls DEF Ignore
<1>4. CASE e.owner # Packet
  <2>1. PICK t : t = e.owner
    OBVIOUS
  <2>2. PICK c \in ExpireCalls(t) : calls' = c
    BY <1>4, <2>1
  <2>3. t \in live
    BY <1>4, <2>1
  <2>4. CallsOk(c, live)
    BY <1>1, <2>2, <2>3, ExpireCallsLemma
  <2> QED  BY <1>1, <1>4, <2>2, <2>4
<1> QED  BY <1>2, <1>3, <1>4

\* The event e that is served next is dispatched at the time t.
LEMMA DispatchStep ==
    ASSUME SimInv, running = Idle, cal.qsize_ > 0, NEW e, e = NextEvent, Deque(e),
           NEW t \in Nat, Dispatch(e, t), t >= clock_, ~realtime => t = e.time,
           UNCHANGED <<uid_, halted_, realtime, live>>
    PROVE  SimInv' /\ QueueStep
<1>1. /\ Agree(cal, queue_, uid_) /\ Control /\ TimerTypes
      /\ Match(Queued(cal), status_, event_, live) /\ Handling
  BY DEF SimInv
<1>2. Queued(cal) # {} /\ Queued(cal) \subseteq Events
  BY <1>1, AgreeFacts
<1>3. PICK f \in Factors \cup {KeepWidth} : e = deque(cal, f).event /\ cal' = deque(cal, f).left
  BY DEF Deque
<1>4. IsFactor(f)
  BY SimulatorAssumption DEF IsFactor
<1>5. PICK r : r = deque(cal, f)
  OBVIOUS
<1>6. /\ FirstOf(Queued(cal), r.event) /\ Head(queue_) = r.event
      /\ Agree(r.left, Tail(queue_), uid_) /\ Queued(r.left) = Queued(cal) \ {r.event}
  BY <1>1, <1>2, <1>4, <1>5, AgreeServe
<1>7. /\ FirstOf(Queued(cal), e) /\ Head(queue_) = e /\ e \in Queued(cal) /\ e \in Events
      /\ Agree(cal', queue_', uid_') /\ Queued(cal') = Queued(cal) \ {e}
  <2>1. e = r.event /\ cal' = r.left /\ queue_' = Tail(queue_) /\ uid_' = uid_
    BY <1>3, <1>5 DEF Deque
  <2> QED  BY <1>2, <1>6, <2>1 DEF FirstOf
<1>8. Serves
  <2>1. /\ out' = [cal |-> e, heap |-> heap_min(heap), list |-> Head(queue_)]
        /\ heap' = heap_extract_min(heap)
    BY DEF Deque
  <2>2. out'.cal = e /\ out'.heap = heap_min(heap) /\ out'.list = e
    BY <1>7, <2>1
  <2> QED  BY <1>7, <2>1, <2>2 DEF Serves
<1>9. PICK o : o = e.owner
  OBVIOUS
<1>10. o \in Owners /\ e.time \in Nat /\ clock_ \in Nat /\ Packet \notin Timers /\ Idle \notin Timers
       /\ live \subseteq Timers
  BY <1>1, <1>7, <1>9, SimulatorAssumption DEF Events, Control, TimerTypes
<1>11. o \in Timers => /\ o \in live /\ status_[o] = "PENDING" /\ event_[o] = e
                       /\ Mine(Queued(cal), o) = {e}
  <2> SUFFICES ASSUME o \in Timers
               PROVE  /\ o \in live /\ status_[o] = "PENDING" /\ event_[o] = e
                      /\ Mine(Queued(cal), o) = {e}
    OBVIOUS
  <2>1. e \in Mine(Queued(cal), o)
    BY <1>7, <1>9 DEF Mine
  <2>2. MatchAt(Queued(cal), status_, event_, live, o)
    BY <1>1 DEF Match
  <2> QED  BY <2>1, <2>2 DEF MatchAt
<1>12. o = Packet \/ o \in live
  BY <1>10, <1>11 DEF Owners
<1>13. fault' = "none" /\ clock_' = t /\ running' = o
  <2>1. ~(t < clock_)
    BY <1>10
  <2>2. ~(o \in Timers \ live) /\ ~(o \in live /\ status_[o] # "PENDING")
    BY <1>10, <1>11
  <2> QED  BY <1>9, <2>1, <2>2 DEF Dispatch
<1>14. CallsOk(calls', live) /\ commands' \in 0..MaxCommands
  <2>1. IF e.owner = Packet THEN Obey(PacketCalls) \/ Ignore
        ELSE /\ \E c \in ExpireCalls(e.owner) : Room(c) /\ calls' = c
             /\ UNCHANGED commands
    BY DEF Dispatch
  <2> QED  BY <1>9, <1>12, <2>1, DispatchCalls
<1>15. CallsOk(calls, live)'
  BY <1>14
<1>16. Control'
  BY <1>1, <1>10, <1>13, <1>14 DEF Control
<1>17. NotLate'
  <2> SUFFICES ASSUME ~realtime', NEW x \in Queued(cal') PROVE clock_' <= x.time
    BY DEF NotLate
  <2>1. x \in Queued(cal) \ {e} /\ x \in Events
    BY <1>2, <1>7
  <2>2. Earlier(e, x)
    BY <1>7, <2>1 DEF FirstOf
  <2>3. clock_' = e.time
    BY <1>13
  <2>4. x.time \in Nat /\ e.time <= x.time
    BY <1>10, <2>1, <2>2 DEF Earlier, Events
  <2> QED  BY <2>3, <2>4
<1>18. TimerTypes' /\ Match(Queued(cal'), status_', event_', live') /\ Handling'
  <2>0. /\ status_ \in [Timers -> {"IDLE", "PENDING", "HANDLING"}]
        /\ event_ \in [Timers -> [time : Nat, uid : Int, owner : Owners]]
        /\ \A u \in live : status_[u] # "HANDLING"
    <3>1. \A u \in live : u # Idle
      BY <1>10
    <3> QED  BY <1>1, <3>1 DEF TimerTypes, Handling
  <2>1. CASE o = Packet
    <3>1. status_' = status_ /\ event_' = event_
      BY <1>9, <1>10, <2>1 DEF Dispatch
    <3>2. \A u \in Timers : Mine(Queued(cal'), u) = Mine(Queued(cal), u)
      BY <1>7, <1>9, <1>10, <2>1 DEF Mine
    <3> QED  BY <1>1, <2>0, <3>1, <3>2 DEF TimerTypes, Match, MatchAt, Handling
  <2>2. CASE o \in live
    <3>1. PICK g : g = OutOfQueue(e)
      OBVIOUS
    <3>2. g \in [time : Nat, uid : Int, owner : Owners] /\ ~InQueue(g)
      <4>1. e.uid \in Nat \ {0}
        BY <1>7 DEF Events
      <4>2. g = [e EXCEPT !.uid = -e.uid]
        BY <3>1 DEF OutOfQueue
      <4>3. g \in [time : Nat, uid : Int, owner : Owners] /\ g.uid = -e.uid
        BY <1>7, <4>1, <4>2 DEF Events
      <4> QED  BY <4>1, <4>3 DEF InQueue
    <3>3. status_' = [status_ EXCEPT ![o] = "HANDLING"]
      BY <1>9, <2>2 DEF Dispatch
    <3>4. event_' = [event_ EXCEPT ![o] = g]
      <4>1. o # Packet /\ o \in Timers
        BY <1>10, <2>2
      <4>2. event_' = [event_ EXCEPT ![o] = OutOfQueue(event_[o])]
        BY <1>9, <4>1 DEF Dispatch
      <4> QED  BY <1>11, <3>1, <4>1, <4>2
    <3>5. o \in Timers
      BY <1>10, <2>2
    <3>6. /\ status_'[o] = "HANDLING" /\ event_'[o] = g
          /\ \A u \in Timers \ {o} : status_'[u] = status_[u] /\ event_'[u] = event_[u]
      BY <2>0, <3>3, <3>4, <3>5
    <3>7. TimerTypes'
      BY <1>10, <2>0, <3>2, <3>3, <3>4, <3>5 DEF TimerTypes
    <3>8. Handling'
      BY <1>10, <1>13, <2>0, <3>6 DEF Handling
    <3>9. /\ \A u \in Timers \ {o} : Mine(Queued(cal'), u) = Mine(Queued(cal), u)
          /\ Mine(Queued(cal'), o) = {}
      BY <1>7, <1>9, <1>11, <3>5 DEF Mine
    <3>10. MatchAt(Queued(cal'), status_', event_', live', o)
      BY <3>2, <3>6, <3>9 DEF MatchAt
    <3>11. Match(Queued(cal'), status_', event_', live')
      BY <1>1, <3>6, <3>9, <3>10 DEF Match, MatchAt
    <3> QED  BY <3>7, <3>8, <3>11
  <2> QED  BY <1>12, <2>1, <2>2
<1> QED  BY <1>7, <1>8, <1>15, <1>16, <1>17, <1>18 DEF SimInv, QueueStep

\* The event the loop takes next is the first one.
LEMMA NextEventLemma ==
    ASSUME SimInv, cal.qsize_ > 0, NEW e, e = NextEvent
    PROVE  FirstOf(Queued(cal), e) /\ e \in Queued(cal) /\ e.time \in Nat
<1>1. Agree(cal, queue_, uid_)
  BY DEF SimInv
<1>2. Queued(cal) # {} /\ Queued(cal) \subseteq Events
  BY <1>1, AgreeFacts
<1>3. Sound(cal)
  BY <1>1 DEF Agree
<1>4. PICK d : d = head(cal)
  OBVIOUS
<1>5. e = HeadEvent(d)
  BY <1>4 DEF NextEvent
<1>6. FirstOf(Queued(cal), e)
  BY <1>2, <1>3, <1>4, <1>5, HeadLemma
<1> QED  BY <1>2, <1>6 DEF FirstOf, Events

\* Scheduler::run dispatches an event and moves the clock to its time.
LEMMA RunStep ==
    ASSUME SimInv, Run
    PROVE  SimInv' /\ QueueStep
<1>1. PICK e : e = NextEvent
  OBVIOUS
<1>2. /\ running = Idle /\ ~realtime /\ cal.qsize_ > 0 /\ Deque(e) /\ Dispatch(e, e.time)
      /\ UNCHANGED <<uid_, halted_, realtime, live>>
  BY <1>1 DEF Run
<1>3. e \in Queued(cal) /\ e.time \in Nat
  BY <1>1, <1>2, NextEventLemma
<1>4. PICK t \in Nat : t = e.time
  BY <1>3
<1>5. t >= clock_
  BY <1>2, <1>3, <1>4 DEF SimInv, NotLate, Control
<1> QED  BY <1>1, <1>2, <1>4, <1>5, DispatchStep

\* RealTimeScheduler::run dispatches an event that is due.
LEMMA RunDueStep ==
    ASSUME SimInv, RunDue
    PROVE  SimInv' /\ QueueStep
<1>1. PICK e : e = NextEvent
  OBVIOUS
<1>2. /\ running = Idle /\ realtime /\ cal.qsize_ > 0 /\ Deque(e)
      /\ UNCHANGED <<uid_, halted_, realtime, live>>
      /\ \E w \in {0} \cup Waits : Dispatch(e, clock_ + w)
  BY <1>1 DEF RunDue
<1>3. PICK w \in {0} \cup Waits : Dispatch(e, clock_ + w)
  BY <1>2
<1>4. PICK t : t = clock_ + w /\ Dispatch(e, t)
  BY <1>3
<1>5. t \in Nat /\ t >= clock_
  <2>1. clock_ \in Nat
    BY DEF SimInv, Control
  <2>2. w \in Nat
    BY SimulatorAssumption
  <2> QED  BY <1>4, <2>1, <2>2
<1>6. ~realtime => t = e.time
  BY <1>2
<1> QED  BY <1>1, <1>2, <1>4, <1>5, <1>6, DispatchStep

\* RealTimeScheduler::run looks at the queue while time passes.
LEMMA WaitStep ==
    ASSUME SimInv, Wait
    PROVE  SimInv' /\ QueueStep
<1>1. PICK w \in Waits : clock_' = clock_ + w
  BY DEF Wait
<1>2. /\ realtime /\ cal' = head(cal)
      /\ UNCHANGED <<uid_, halted_, realtime, heap, queue_, out, status_, event_, live, running,
                     calls, commands, fault>>
  BY DEF Wait, timerVars
<1>3. Agree(cal, queue_, uid_)
  BY DEF SimInv
<1>4. Sound(cal') /\ Queued(cal') = Queued(cal)
  <2>1. Sound(cal) /\ cal.qsize_ \in Nat
    <3>1. Sound(cal)
      BY <1>3 DEF Agree
    <3>2. IsCalendar(cal)
      BY <3>1 DEF Sound
    <3> QED  BY <3>1, <3>2 DEF IsCalendar, Calendars
  <2>2. CASE cal.qsize_ = 0
    BY <1>2, <2>1, <2>2 DEF head
  <2>3. CASE cal.qsize_ # 0
    <3>1. cal.qsize_ > 0
      BY <2>1, <2>3
    <3>2. Queued(cal) # {}
      BY <1>3, <3>1, AgreeFacts
    <3>3. PICK d, e : d = head(cal) /\ e = HeadEvent(d)
      OBVIOUS
    <3>4. Sound(d) /\ Queued(d) = Queued(cal)
      BY <2>1, <3>2, <3>3, HeadLemma
    <3> QED  BY <1>2, <3>3, <3>4
  <2> QED  BY <2>2, <2>3
<1>5. Agree(cal', queue_', uid_')
  BY <1>2, <1>3, <1>4 DEF Agree
<1>6. Control'
  BY <1>1, <1>2, SimulatorAssumption DEF SimInv, Control
<1>7. TimerTypes' /\ Handling' /\ NotLate'
  BY <1>2, <1>4 DEF SimInv, TimerTypes, Handling, NotLate
<1>8. Match(Queued(cal), status_, event_, live)' /\ CallsOk(calls, live)'
  BY <1>2, <1>4 DEF SimInv
<1>9. Stays
  BY <1>2, <1>4 DEF Stays
<1> QED  BY <1>5, <1>6, <1>7, <1>8, <1>9 DEF SimInv, QueueStep

\* A Tcl command is executed between two events.
LEMMA TclEventStep ==
    ASSUME SimInv, TclEvent
    PROVE  SimInv' /\ QueueStep
<1>1. /\ running = Idle /\ running' = Packet /\ Obey(CommandCalls)
      /\ UNCHANGED <<clock_, halted_, realtime, cal, heap, queue_, uid_, out, status_, event_,
                     live, fault>>
  BY DEF TclEvent, clockVars, queueVars, timerVars
<1>2. PICK c \in CommandCalls : calls' = c
  BY <1>1 DEF Obey
<1>3. live \subseteq Timers /\ commands \in 0..MaxCommands /\ MaxCommands \in Nat
      /\ Packet \in Owners /\ Idle \notin Timers
  BY SimulatorAssumption DEF SimInv, TimerTypes, Control, Owners
<1>4. CallsOk(calls, live)'
  BY <1>1, <1>2, <1>3, PacketCallsLemma DEF PacketCalls
<1>5. commands' \in 0..MaxCommands
  BY <1>1, <1>3 DEF Obey
<1>6. Control'
  BY <1>1, <1>3, <1>5 DEF SimInv, Control
<1>7. \A t \in live : status_[t] # "HANDLING"
  BY <1>1, <1>3 DEF SimInv, Handling
<1>8. TimerTypes' /\ Handling' /\ NotLate'
  BY <1>1, <1>7 DEF SimInv, TimerTypes, Handling, NotLate
<1>9. Agree(cal, queue_, uid_)' /\ Match(Queued(cal), status_, event_, live)'
  BY <1>1 DEF SimInv
<1>10. Stays
  BY <1>1 DEF Stays
<1> QED  BY <1>4, <1>6, <1>8, <1>9, <1>10 DEF SimInv, QueueStep

\* The run command after a halt.
LEMMA ResumeStep ==
    ASSUME SimInv, Resume
    PROVE  SimInv' /\ QueueStep
<1>1. /\ halted_' = FALSE
      /\ UNCHANGED <<clock_, realtime, cal, heap, queue_, uid_, out, status_, event_, live,
                     running, calls, commands, fault>>
  BY DEF Resume, queueVars, timerVars
<1>2. Control' /\ TimerTypes' /\ Handling' /\ NotLate'
  BY <1>1 DEF SimInv, Control, TimerTypes, Handling, NotLate
<1>3. Agree(cal, queue_, uid_)' /\ Match(Queued(cal), status_, event_, live)' /\ CallsOk(calls, live)'
  BY <1>1 DEF SimInv
<1>4. Stays
  BY <1>1 DEF Stays
<1> QED  BY <1>2, <1>3, <1>4 DEF SimInv, QueueStep

\* The state that the script leaves has the invariant.
LEMMA InitLemma ==
    ASSUME Init
    PROVE  SimInv /\ out = [cal |-> NoEvent, heap |-> NoEvent, list |-> NoEvent]
<1>1. PICK A \in Agents, script \in Scripts :
         LET es == Started(A, script.times)
             queues == FoldLeft(Scheduled, NewQueues, es)
         IN
         /\ clock_ = 0 /\ halted_ = FALSE /\ realtime = script.realtime
         /\ uid_ = Len(es) + 1
         /\ cal = queues.cal /\ heap = queues.heap /\ queue_ = queues.list
         /\ out = [cal |-> NoEvent, heap |-> NoEvent, list |-> NoEvent]
         /\ live = A
         /\ status_ = [t \in Timers |-> IF t \in A THEN "PENDING" ELSE "IDLE"]
         /\ event_ = [t \in Timers |->
                        IF t \in A THEN CHOOSE e \in ToSet(es) : e.owner = t
                        ELSE NoEvent]
         /\ running = Idle /\ calls = <<>> /\ commands = 0 /\ fault = "none"
  BY DEF Init
<1>2. PICK times : times = script.times
  OBVIOUS
<1>3. times \in Seq(Nat) /\ script.realtime \in BOOLEAN
  BY <1>2, SimulatorAssumption
<1>4. PICK es : es = Started(A, times)
  OBVIOUS
<1>5. PICK d : d = Start(NewQueues, es)
  OBVIOUS
<1>6. /\ clock_ = 0 /\ halted_ = FALSE /\ realtime = script.realtime
      /\ uid_ = Len(es) + 1 /\ cal = d.cal /\ queue_ = d.list
      /\ out = [cal |-> NoEvent, heap |-> NoEvent, list |-> NoEvent]
      /\ live = A
      /\ status_ = [t \in Timers |-> IF t \in A THEN "PENDING" ELSE "IDLE"]
      /\ event_ = [t \in Timers |->
                     IF t \in A THEN CHOOSE e \in ToSet(es) : e.owner = t ELSE NoEvent]
      /\ running = Idle /\ calls = <<>> /\ commands = 0 /\ fault = "none"
  BY <1>1, <1>2, <1>4, <1>5 DEF Start
<1>7. /\ A \subseteq Timers
      /\ es \in Seq(Events) /\ \A k \in 1..Len(es) : es[k].uid = k
      /\ \A e \in ToSet(es) : e.owner \in A \cup {Packet}
      /\ \A t \in A : \E e \in ToSet(es) : e.owner = t
      /\ \A e, f \in ToSet(es) : e.owner \in A /\ f.owner = e.owner => e = f
  BY <1>3, <1>4, StartedLemma
<1>8. Agree(cal, queue_, uid_) /\ Queued(cal) = ToSet(es)
  <2>1. Agree(d.cal, d.list, Len(es) + 1) /\ Queued(d.cal) = ToSet(es)
    BY <1>5, <1>7, StartLemma
  <2> QED  BY <1>6, <2>1
<1>9. Queued(cal) \subseteq Events /\ Packet \notin Timers
  BY <1>8, AgreeFacts, SimulatorAssumption
<1>10. Control
  <2>1. MaxCommands \in Nat
    BY SimulatorAssumption
  <2>2. commands \in 0..MaxCommands /\ clock_ \in Nat
    BY <1>6, <2>1
  <2>3. halted_ \in BOOLEAN /\ realtime \in BOOLEAN
    BY <1>3, <1>6
  <2> QED  BY <1>6, <2>2, <2>3 DEF Control
<1>11. ASSUME NEW t \in A
       PROVE  event_[t] \in Queued(cal) /\ Mine(Queued(cal), t) = {event_[t]}
  <2>1. event_[t] = CHOOSE e \in ToSet(es) : e.owner = t
    BY <1>6, <1>7
  <2>2. event_[t] \in ToSet(es) /\ event_[t].owner = t
    BY <1>7, <2>1
  <2> QED  BY <1>7, <1>8, <2>2 DEF Mine
<1>12. ASSUME NEW t \in Timers \ A
       PROVE  event_[t] = NoEvent /\ Mine(Queued(cal), t) = {} /\ ~InQueue(event_[t])
  <2>1. event_[t] = NoEvent
    BY <1>6
  <2>2. ~InQueue(event_[t])
    BY <2>1 DEF InQueue, NoEvent
  <2> QED  BY <1>7, <1>8, <1>9, <2>1, <2>2 DEF Mine
<1>13. TimerTypes
  <2>1. \A t \in Timers : event_[t] \in [time : Nat, uid : Int, owner : Owners]
    BY <1>9, <1>11, <1>12 DEF NoEvent, Events, Owners
  <2>2. event_ \in [Timers -> [time : Nat, uid : Int, owner : Owners]]
    BY <1>6, <2>1
  <2>3. status_ \in [Timers -> {"IDLE", "PENDING", "HANDLING"}]
    BY <1>6
  <2> QED  BY <1>6, <1>7, <2>2, <2>3 DEF TimerTypes
<1>14. Match(Queued(cal), status_, event_, live) /\ Handling
  <2>1. \A t \in A : t \in live /\ status_[t] = "PENDING"
    BY <1>6, <1>7
  <2>2. \A t \in Timers \ A : t \notin live
    BY <1>6
  <2> QED  BY <1>6, <1>11, <1>12, <2>1, <2>2 DEF Match, MatchAt, Handling
<1>15. CallsOk(calls, live)
  BY <1>6, NoCalls
<1>16. NotLate
  BY <1>6, <1>9 DEF NotLate, Events
<1> QED  BY <1>6, <1>8, <1>10, <1>13, <1>14, <1>15, <1>16 DEF SimInv

\* Every step keeps the invariant and treats the events as one of QueueStep.
LEMMA NextLemma ==
    ASSUME SimInv, Next
    PROVE  SimInv' /\ QueueStep
BY CallStep, ReturnStep, RunStep, RunDueStep, WaitStep, TclEventStep, ResumeStep DEF Next

\* So does a step that changes nothing.
LEMMA StutterLemma ==
    ASSUME SimInv, UNCHANGED vars
    PROVE  SimInv' /\ QueueStep
<1>1. UNCHANGED <<clock_, uid_, halted_, realtime, cal, heap, queue_, out, status_, event_, live,
                  running, calls, commands, fault>>
  BY DEF vars
<1>2. Control' /\ TimerTypes' /\ Handling' /\ NotLate'
  BY <1>1 DEF SimInv, Control, TimerTypes, Handling, NotLate
<1>3. Agree(cal, queue_, uid_)' /\ Match(Queued(cal), status_, event_, live)' /\ CallsOk(calls, live)'
  BY <1>1 DEF SimInv
<1>4. Stays
  BY <1>1 DEF Stays
<1> QED  BY <1>2, <1>3, <1>4 DEF SimInv, QueueStep

\* The inductive invariant of the event loop: SimInv holds of what the script
\* schedules, and every call a handler makes, every return, every dispatch of
\* Scheduler::run and RealTimeScheduler::run and every Tcl command keeps it.
THEOREM SimulatorInvariant == Spec => []SimInv
<1>1. Init => SimInv
  BY InitLemma
<1>2. SimInv /\ [Next]_vars => SimInv'
  BY NextLemma, StutterLemma
<1> QED  BY <1>1, <1>2, PTL DEF Spec

-----------------------------------------------------------------------------
(* The theorems. *)

\* Sound says what CalendarSound says.
LEMMA CalendarSoundLemma ==
    ASSUME NEW c, Sound(c)
    PROVE  /\ c.nbuckets_ >= 4 /\ DOMAIN c.buckets_ = 0..(c.nbuckets_ - 1) /\ Positive(c.width_)
           /\ \A i \in DOMAIN c.buckets_ :
                 LET b == c.buckets_[i] IN
                 /\ b.count_ = Cardinality({e.time : e \in ToSet(b.list_)})
                 /\ \A k \in DOMAIN b.list_ :
                       /\ Hash(c, b.list_[k].time) = i
                       /\ k > 1 => \/ b.list_[k - 1].time < b.list_[k].time
                                  \/ /\ b.list_[k - 1].time = b.list_[k].time
                                     /\ b.list_[k - 1].uid < b.list_[k].uid
           /\ c.stat_qsize_ = Cardinality({e.time : e \in Queued(c)})
           /\ c.qsize_ = Cardinality(Queued(c))
           /\ c.lastbucket_ = Hash(c, c.cal_clock_)
<1>1. /\ IsCalendar(c) /\ \A i \in 0..(c.nbuckets_ - 1) : BucketSound(c, i)
      /\ c.qsize_ = Cardinality(Queued(c)) /\ c.stat_qsize_ = Cardinality(TimesOf(Queued(c)))
      /\ c.lastbucket_ = Hash(c, c.cal_clock_)
  BY DEF Sound, Counted
<1>2. c.nbuckets_ >= 4 /\ DOMAIN c.buckets_ = 0..(c.nbuckets_ - 1) /\ c.width_ \in Ratio
  BY <1>1, BucketLemma DEF IsCalendar
<1>3. Positive(c.width_)
  BY <1>2 DEF Positive, Ratio
<1>4. ASSUME NEW i \in 0..(c.nbuckets_ - 1)
      PROVE  LET b == c.buckets_[i] IN
             /\ b.count_ = Cardinality({e.time : e \in ToSet(b.list_)})
             /\ \A k \in DOMAIN b.list_ :
                   /\ Hash(c, b.list_[k].time) = i
                   /\ k > 1 => \/ b.list_[k - 1].time < b.list_[k].time
                              \/ /\ b.list_[k - 1].time = b.list_[k].time
                                 /\ b.list_[k - 1].uid < b.list_[k].uid
  <2>1. PICK l : l = List(c, i)
    OBVIOUS
  <2>2. l \in Seq(Events) /\ l = c.buckets_[i].list_
    BY <1>1, <2>1, BucketLemma DEF List
  <2>3. DOMAIN l = 1..Len(l) /\ Len(l) \in Nat
    BY <2>2, LenProperties
  <2>4. /\ \A k \in 1..Len(l) : Hash(c, l[k].time) = i
        /\ InOrder(l)
        /\ c.buckets_[i].count_ = Cardinality(TimesOf(ToSet(l)))
    BY <1>1, <2>1 DEF BucketSound
  <2>5. ASSUME NEW k \in 1..Len(l), k > 1
        PROVE  \/ l[k - 1].time < l[k].time
               \/ l[k - 1].time = l[k].time /\ l[k - 1].uid < l[k].uid
    <3>1. PICK j \in 1..Len(l) : j = k - 1 /\ j < k
      BY <2>3, <2>5
    <3>2. Earlier(l[j], l[k])
      BY <2>4, <3>1 DEF InOrder
    <3> QED  BY <3>1, <3>2 DEF Earlier
  <2>6. c.buckets_[i].count_ = Cardinality({e.time : e \in ToSet(l)})
    BY <2>4 DEF TimesOf
  <2> QED  BY <2>2, <2>3, <2>4, <2>5, <2>6
<1>5. c.stat_qsize_ = Cardinality({e.time : e \in Queued(c)})
  BY <1>1 DEF TimesOf
<1> QED  BY <1>1, <1>2, <1>3, <1>4, <1>5

\* What the invariant implies.
LEMMA SimInvImplies ==
    ASSUME SimInv
    PROVE  TypeOK /\ NoFault /\ TimersMatchQueue /\ CalendarSound
<1>1. Control /\ TimerTypes /\ Agree(cal, queue_, uid_) /\ Sound(cal)
  BY DEF SimInv, Agree
<1>2. TypeOK
  <2>1. /\ cal.nbuckets_ >= 4 /\ DOMAIN cal.buckets_ = 0..(cal.nbuckets_ - 1)
        /\ Positive(cal.width_)
    BY <1>1, CalendarSoundLemma
  <2>2. uid_ \in Nat
    BY <1>1, AgreeFacts
  <2>3. \A t \in Timers : event_[t].time \in Nat /\ event_[t].uid \in Int
    BY <1>1 DEF TimerTypes
  <2> QED  BY <1>1, <2>1, <2>2, <2>3 DEF TypeOK, Control, TimerTypes
<1>3. NoFault
  BY <1>1 DEF Control, NoFault
<1>4. TimersMatchQueue
  BY DEF SimInv, Match, MatchAt, Mine, Handling, TimersMatchQueue
<1>5. CalendarSound
  BY <1>1, CalendarSoundLemma DEF CalendarSound
<1> QED  BY <1>2, <1>3, <1>4, <1>5

\* The variables of the simulator keep their types; in particular the calendar
\* queue has at least four buckets and a positive width after any number of
\* resizes (CalendarScheduler::resize, newwidth, deque).
THEOREM TypeCorrect == Spec => []TypeOK
BY SimulatorInvariant, SimInvImplies, PTL

\* No sanity check of Scheduler::schedule, Scheduler::dispatch and
\* TimerHandler::handle aborts the simulation, and no call is made on a deleted
\* timer, in whatever order packets, commands and expiries run their handlers.
THEOREM NeverFaults == Spec => []NoFault
BY SimulatorInvariant, SimInvImplies, PTL

\* A timer is TIMER_PENDING exactly when one event of its own is in the queue,
\* and that event is its event_; a deleted block leaves none behind, so no event
\* is ever dispatched to a freed handler.
THEOREM TimersAgree == Spec => []TimersMatchQueue
BY SimulatorInvariant, SimInvImplies, PTL

\* Insertions, cancellations, dequeues, resizes and changes of width leave the
\* calendar queue consistent: every event is in the bucket of its time, buckets
\* are in order, and qsize_, stat_qsize_, count_ and lastbucket_ are right.
THEOREM CalendarStaysSound == Spec => []CalendarSound
BY SimulatorInvariant, SimInvImplies, PTL

-----------------------------------------------------------------------------
(* Each step is a step of the abstract queue. *)

\* A step is one of the abstract queue, for the events of the calendar.
LEMMA CalendarStep ==
    ASSUME SimInv, SimInv', QueueStep
    PROVE  [CalendarQueue!ENext]_(CalendarQueue!evars)
<1>1. CASE Stays
  BY <1>1 DEF Stays, CalendarQueue!evars
<1>2. CASE Adds
  BY <1>2 DEF Adds, CalendarQueue!ENext, CalendarQueue!Schedule
<1>3. CASE Removes
  BY <1>3 DEF Removes, CalendarQueue!ENext, CalendarQueue!Withdraw
<1>4. CASE Moves
  BY <1>4 DEF Moves, CalendarQueue!ENext, CalendarQueue!Postpone
<1>5. CASE Serves
  BY <1>5 DEF Serves, FirstOf, Earlier, CalendarQueue!ENext, CalendarQueue!Serve,
              CalendarQueue!Before
<1> QED  BY <1>1, <1>2, <1>3, <1>4, <1>5 DEF QueueStep

\* A step is one of the abstract queue, for the events of the list.
LEMMA ListStep ==
    ASSUME SimInv, SimInv', QueueStep
    PROVE  [ListQueue!ENext]_(ListQueue!evars)
<1>0. ToSet(queue_) = Queued(cal) /\ ToSet(queue_') = Queued(cal')
  BY DEF SimInv, Agree
<1>1. CASE Stays
  BY <1>0, <1>1 DEF Stays, ListQueue!evars
<1>2. CASE Adds
  BY <1>0, <1>2 DEF Adds, ListQueue!ENext, ListQueue!Schedule
<1>3. CASE Removes
  BY <1>0, <1>3 DEF Removes, ListQueue!ENext, ListQueue!Withdraw
<1>4. CASE Moves
  BY <1>0, <1>4 DEF Moves, ListQueue!ENext, ListQueue!Postpone
<1>5. CASE Serves
  BY <1>0, <1>5 DEF Serves, FirstOf, Earlier, ListQueue!ENext, ListQueue!Serve, ListQueue!Before
<1> QED  BY <1>1, <1>2, <1>3, <1>4, <1>5 DEF QueueStep

\* The calendar queue implements the abstract queue of events: no event is lost
\* or duplicated, also by resize, and CalendarScheduler::deque serves the
\* earliest one, first in first out for equal times.
THEOREM CalendarRefinement == Spec => CalendarImplements
<1>1. Init => CalendarQueue!EInit
  <2> SUFFICES ASSUME Init PROVE CalendarQueue!EInit
    OBVIOUS
  <2>1. Agree(cal, queue_, uid_) /\ out = [cal |-> NoEvent, heap |-> NoEvent, list |-> NoEvent]
    BY InitLemma DEF SimInv
  <2>2. out.cal = NoEvent
    BY <2>1
  <2> QED  BY <2>1, <2>2 DEF Agree, CalendarQueue!EInit
<1>2. SimInv /\ SimInv' /\ [Next]_vars => [CalendarQueue!ENext]_(CalendarQueue!evars)
  BY NextLemma, StutterLemma, CalendarStep
<1> QED  BY <1>1, <1>2, SimulatorInvariant, PTL DEF Spec, CalendarImplements, CalendarQueue!ESpec

\* ListScheduler implements the abstract queue of events: its insert and cancel
\* neither lose nor duplicate one, and its head is the earliest.
THEOREM ListRefinement == Spec => ListImplements
<1>1. Init => ListQueue!EInit
  <2> SUFFICES ASSUME Init PROVE ListQueue!EInit
    OBVIOUS
  <2>1. Agree(cal, queue_, uid_) /\ out = [cal |-> NoEvent, heap |-> NoEvent, list |-> NoEvent]
    BY InitLemma DEF SimInv
  <2>2. out.list = NoEvent
    BY <2>1
  <2> QED  BY <2>1, <2>2 DEF Agree, ListQueue!EInit
<1>2. SimInv /\ SimInv' /\ [Next]_vars => [ListQueue!ENext]_(ListQueue!evars)
  BY NextLemma, StutterLemma, ListStep
<1> QED  BY <1>1, <1>2, SimulatorInvariant, PTL DEF Spec, ListImplements, ListQueue!ESpec

-----------------------------------------------------------------------------
(* The positions of the heap. *)

\* A position, its parent and its children.
LEMMA ParentLemma ==
    /\ \A j \in Nat \ {0} : parent(j) \in Nat /\ parent(j) < j
    /\ \A i \in Nat : /\ left(i) \in Nat /\ right(i) \in Nat /\ left(i) > i /\ right(i) > left(i)
                      /\ parent(left(i)) = i /\ parent(right(i)) = i
    /\ \A j \in Nat \ {0} : j = left(parent(j)) \/ j = right(parent(j))
BY DEF parent, left, right

\* up is the function that Ascent defines, on 0..i.
IsUp(up, i) == up = [j \in 0..i |-> IF j = 0 THEN {} ELSE {j} \cup up[parent(j)]]

\* The recursion of Ascent reaches one place further.
LEMMA UpLonger ==
    ASSUME NEW i \in Nat, NEW up, IsUp(up, i)
    PROVE  \E f : IsUp(f, i + 1)
<1> DEFINE f == [j \in 0..(i + 1) |-> IF j = i + 1 THEN {j} \cup up[parent(j)] ELSE up[j]]
           g == [j \in 0..(i + 1) |-> IF j = 0 THEN {} ELSE {j} \cup f[parent(j)]]
<1>1. \A j \in 0..i : up[j] = IF j = 0 THEN {} ELSE {j} \cup up[parent(j)]
  BY DEF IsUp
<1>2. \A j \in 0..i : j \in 0..(i + 1) /\ f[j] = up[j]
  OBVIOUS
<1>3. ASSUME NEW j \in 0..(i + 1) PROVE f[j] = g[j]
  <2>1. CASE j = 0
    <3>1. up[0] = {} /\ f[0] = up[0]
      <4>1. 0 \in 0..i
        OBVIOUS
      <4> QED  BY <1>1, <1>2, <4>1
    <3> QED  BY <2>1, <3>1
  <2>2. CASE j # 0
    <3>1. parent(j) \in 0..i
      <4>1. j \in Nat \ {0} /\ parent(j) \in Nat /\ parent(j) < j
        BY <2>2, ParentLemma
      <4> QED  BY <4>1
    <3>2. f[parent(j)] = up[parent(j)]
      BY <1>2, <3>1
    <3>3. g[j] = {j} \cup up[parent(j)]
      BY <2>2, <3>2
    <3>4. f[j] = {j} \cup up[parent(j)]
      <4>1. j = i + 1 \/ j \in 0..i
        OBVIOUS
      <4> QED  BY <1>1, <1>2, <2>2, <4>1
    <3> QED  BY <3>3, <3>4
  <2> QED  BY <2>1, <2>2
<1>4. f = g
  <2>1. f = [j \in 0..(i + 1) |-> f[j]] /\ g = [j \in 0..(i + 1) |-> g[j]]
    OBVIOUS
  <2> HIDE DEF f, g
  <2> QED  BY <1>3, <2>1
<1>5. IsUp(f, i + 1)
  BY <1>4 DEF IsUp
<1> QED  BY <1>5

\* The recursion of Ascent reaches every place.
LEMMA UpExists ==
    ASSUME NEW n \in Nat
    PROVE  \E up : IsUp(up, n)
<1> DEFINE S == {i \in Nat : \E up : IsUp(up, i)}
<1>1. 0 \in S
  <2> DEFINE f == [j \in 0..0 |-> {}]
             g == [j \in 0..0 |-> IF j = 0 THEN {} ELSE {j} \cup f[parent(j)]]
  <2>1. \A j \in 0..0 : j = 0
    OBVIOUS
  <2>2. \A j \in 0..0 : f[j] = g[j]
    BY <2>1
  <2>3. f = g
    <3>1. f = [j \in 0..0 |-> f[j]] /\ g = [j \in 0..0 |-> g[j]]
      OBVIOUS
    <3> HIDE DEF f, g
    <3> QED  BY <2>2, <3>1
  <2>4. IsUp(f, 0)
    BY <2>3 DEF IsUp
  <2> QED  BY <2>4
<1>2. \A i \in 0..(n - 1) : i \in S => i + 1 \in S
  BY UpLonger
<1> HIDE DEF S
<1>3. \A i \in 0..n : i \in S
  BY <1>1, <1>2, BoundedInduction
<1> QED  BY <1>3 DEF S

\* A is a way from i up to the root.
Way(A, i) ==
    /\ A \subseteq 1..i
    /\ i > 0 => i \in A
    /\ \A j \in A : parent(j) > 0 => parent(j) \in A
    /\ \A j, k \in A : k < j => k <= parent(j)
    /\ \A j \in A : j # i => \E k \in A : parent(k) = j

\* One more place below a way to the root.
LEMMA WayLonger ==
    ASSUME NEW i \in Nat \ {0}, NEW A, Way(A, parent(i))
    PROVE  Way({i} \cup A, i)
<1>1. parent(i) \in Nat /\ parent(i) < i
  BY ParentLemma
<1>2. PICK p \in Nat : p = parent(i)
  BY <1>1
<1>3. /\ A \subseteq 1..p
      /\ p > 0 => p \in A
      /\ \A j \in A : parent(j) > 0 => parent(j) \in A
      /\ \A j, k \in A : k < j => k <= parent(j)
      /\ \A j \in A : j # p => \E k \in A : parent(k) = j
  BY <1>2 DEF Way
<1>4. \A j \in A : j \in Nat /\ j <= p /\ j < i
  BY <1>1, <1>2, <1>3
<1>5. {i} \cup A \subseteq 1..i
  BY <1>1, <1>2, <1>3
<1>6. \A j \in {i} \cup A : parent(j) > 0 => parent(j) \in {i} \cup A
  BY <1>2, <1>3
<1>7. \A j, k \in {i} \cup A : k < j => k <= parent(j)
  <2> SUFFICES ASSUME NEW j \in {i} \cup A, NEW k \in {i} \cup A, k < j PROVE k <= parent(j)
    OBVIOUS
  <2>1. CASE j = i
    <3>1. k \in A
      BY <2>1
    <3> QED  BY <1>2, <1>4, <2>1, <3>1
  <2>2. CASE j \in A
    <3>1. k \in A
      BY <1>4, <2>2
    <3> QED  BY <1>3, <2>2, <3>1
  <2> QED  BY <2>1, <2>2
<1>8. \A j \in {i} \cup A : j # i => \E k \in {i} \cup A : parent(k) = j
  BY <1>2, <1>3
<1> QED  BY <1>5, <1>6, <1>7, <1>8 DEF Way

\* Ascent is the way from n to the root.
LEMMA AscentLemma ==
    ASSUME NEW n \in Nat
    PROVE  Way(Ascent(n), n)
<1> DEFINE up == CHOOSE f : IsUp(f, n)
<1>1. IsUp(up, n)
  BY UpExists
<1>2. Ascent(n) = up[n]
  BY DEF Ascent, IsUp
<1> HIDE DEF up
<1>3. \A j \in 0..n : up[j] = IF j = 0 THEN {} ELSE {j} \cup up[parent(j)]
  BY <1>1 DEF IsUp
<1> DEFINE S == {i \in Nat : i <= n => \A j \in 0..i : Way(up[j], j)}
<1>4. 0 \in S
  <2>1. up[0] = {}
    <3>1. 0 \in 0..n
      OBVIOUS
    <3> QED  BY <1>3, <3>1
  <2>2. Way({}, 0)
    BY DEF Way
  <2>3. \A j \in 0..0 : Way(up[j], j)
    BY <2>1, <2>2
  <2> QED  BY <2>3
<1>5. \A i \in 0..(n - 1) : i \in S => i + 1 \in S
  <2> SUFFICES ASSUME NEW i \in 0..(n - 1), \A j \in 0..i : Way(up[j], j)
               PROVE  Way(up[i + 1], i + 1)
    OBVIOUS
  <2>1. PICK k \in Nat \ {0} : k = i + 1 /\ k \in 0..n
    OBVIOUS
  <2>2. parent(k) \in 0..i
    <3>1. parent(k) \in Nat /\ parent(k) < k
      BY ParentLemma
    <3> QED  BY <2>1, <3>1
  <2>3. Way(up[parent(k)], parent(k))
    BY <2>2
  <2>4. Way({k} \cup up[parent(k)], k)
    BY <2>3, WayLonger
  <2>5. up[k] = {k} \cup up[parent(k)]
    BY <1>3, <2>1
  <2> QED  BY <2>1, <2>4, <2>5
<1> HIDE DEF S
<1>6. n \in S
  BY <1>4, <1>5, BoundedInduction
<1>7. Way(up[n], n)
  BY <1>6 DEF S
<1> QED  BY <1>2, <1>7

-----------------------------------------------------------------------------
(* Arrays of events. *)

\* An event with its keys, the second of which has not wrapped around.
Entry(e) == [key |-> e.time, s_key |-> e.uid - 1, elem |-> e]

Entries == {Entry(e) : e \in Events}

\* No two events of S have the same place in the order of service.
Apart(S) == \A e, f \in S : e = f \/ Earlier(e, f) \/ Earlier(f, e)

\* The first n places of b have the events of S, each once.
Holds(b, n, S) ==
    /\ n \in Nat /\ b \in [0..(n - 1) -> Entries]
    /\ S \subseteq Events /\ IsFiniteSet(S) /\ Cardinality(S) = n /\ Apart(S)
    /\ {b[j].elem : j \in 0..(n - 1)} = S

\* Every parent is earlier than its child.
Heaped(b, n) == \A j \in 1..(n - 1) : KeyLess(b[parent(j)], b[j])

\* ... unless the parent is the root.
Nearly(b, n) == \A j \in 1..(n - 1) : parent(j) > 0 => KeyLess(b[parent(j)], b[j])

\* The keys order the entries as their events are served.
LEMMA KeyLemma ==
    /\ \A x \in Entries : x = Entry(x.elem) /\ x.elem \in Events
    /\ \A x, y \in Entries : KeyLess(x, y) <=> Earlier(x.elem, y.elem)
    /\ \A x, y, z \in Entries : KeyLess(x, y) /\ KeyLess(y, z) => KeyLess(x, z)
    /\ \A x, y \in Entries : x.elem = y.elem => x = y
<1>1. \A x \in Entries : x = Entry(x.elem) /\ x.elem \in Events
  BY DEF Entries, Entry
<1>2. \A e, f \in Events : KeyLess(Entry(e), Entry(f)) <=> Earlier(e, f)
  BY DEF Entry, KeyLess, Earlier, Events
<1>3. \A x, y \in Entries : KeyLess(x, y) <=> Earlier(x.elem, y.elem)
  <2> SUFFICES ASSUME NEW x \in Entries, NEW y \in Entries
               PROVE  KeyLess(x, y) <=> Earlier(x.elem, y.elem)
    OBVIOUS
  <2>1. PICK e \in Events, f \in Events : x = Entry(e) /\ y = Entry(f)
    BY <1>1
  <2>2. x.elem = e /\ y.elem = f
    BY <2>1 DEF Entry
  <2> QED  BY <1>2, <2>1, <2>2
<1>4. \A x, y, z \in Entries : KeyLess(x, y) /\ KeyLess(y, z) => KeyLess(x, z)
  BY <1>1, <1>3, EarlierLemma
<1>5. \A x, y \in Entries : x.elem = y.elem => x = y
  BY <1>1
<1> QED  BY <1>1, <1>3, <1>4, <1>5

\* Two places have different events.
LEMMA HoldsLemma ==
    ASSUME NEW b, NEW n, NEW S, Holds(b, n, S)
    PROVE  /\ n \in Nat /\ \A j \in 0..(n - 1) : b[j] \in Entries /\ b[j].elem \in S
           /\ \A e \in S : \E j \in 0..(n - 1) : b[j].elem = e
           /\ \A j, k \in 0..(n - 1) : j # k => b[j].elem # b[k].elem
           /\ \A j, k \in 0..(n - 1) : j # k => KeyLess(b[j], b[k]) \/ KeyLess(b[k], b[j])
<1>1. /\ n \in Nat /\ b \in [0..(n - 1) -> Entries] /\ S \subseteq Events /\ IsFiniteSet(S)
      /\ Cardinality(S) = n /\ Apart(S) /\ {b[j].elem : j \in 0..(n - 1)} = S
  BY DEF Holds
<1>2. /\ \A j \in 0..(n - 1) : b[j] \in Entries /\ b[j].elem \in S
      /\ \A e \in S : \E j \in 0..(n - 1) : b[j].elem = e
  BY <1>1
<1>3. \A j, k \in 0..(n - 1) : j # k => b[j].elem # b[k].elem
  <2> DEFINE I == 0..(n - 1)
             f == [j \in I |-> b[j].elem]
  <2>1. f \in Surjection(I, S)
    BY <1>2 DEF Surjection
  <2>2. IsFiniteSet(I) /\ Cardinality(I) = n
    <3>1. 0 \in Int /\ n - 1 \in Int /\ (0 > n - 1 <=> n = 0) /\ (n - 1) - 0 + 1 = n
      BY <1>1
    <3> QED  BY <3>1, FS_Interval
  <2>3. \A j \in I : f[j] = b[j].elem
    OBVIOUS
  <2> HIDE DEF I, f
  <2>4. f \in Injection(I, S)
    BY <1>1, <2>1, <2>2, FS_SurjSameCardinalityImpliesInj
  <2>5. \A j, k \in I : f[j] = f[k] => j = k
    BY <2>4 DEF Injection, IsInjective
  <2>6. \A j, k \in I : j # k => b[j].elem # b[k].elem
    BY <2>3, <2>5
  <2> QED  BY <2>6 DEF I
<1>4. \A j, k \in 0..(n - 1) : j # k => KeyLess(b[j], b[k]) \/ KeyLess(b[k], b[j])
  BY <1>1, <1>2, <1>3, KeyLemma DEF Apart
<1> QED  BY <1>1, <1>2, <1>3, <1>4

\* The root of a heap is served first.
LEMMA RootLemma ==
    ASSUME NEW b, NEW n, NEW S, Holds(b, n, S), Heaped(b, n), n > 0
    PROVE  FirstOf(S, b[0].elem)
<1>1. /\ n \in Nat /\ \A j \in 0..(n - 1) : b[j] \in Entries /\ b[j].elem \in S
      /\ \A e \in S : \E j \in 0..(n - 1) : b[j].elem = e
  BY HoldsLemma
<1>2. 0 \in 0..(n - 1)
  BY <1>1
<1> DEFINE R == {i \in Nat : i < n => \A j \in 1..i : KeyLess(b[0], b[j])}
<1>3. 0 \in R
  OBVIOUS
<1>4. \A i \in 0..(n - 1) : i \in R => i + 1 \in R
  <2> SUFFICES ASSUME NEW i \in 0..(n - 1), i + 1 < n, \A j \in 1..i : KeyLess(b[0], b[j])
               PROVE  KeyLess(b[0], b[i + 1])
    <3>1. \A i \in 0..(n - 1) : i \in Nat /\ i + 1 \in Nat /\ (i + 1 < n => i < n)
      BY <1>1
    <3>2. \A i \in 0..(n - 1) : \A j \in 1..(i + 1) : j \in 1..i \/ j = i + 1
      OBVIOUS
    <3> QED  BY <3>1, <3>2
  <2>1. PICK k \in Nat \ {0} : k = i + 1 /\ k \in 1..(n - 1) /\ k \in 0..(n - 1)
    BY <1>1
  <2>2. KeyLess(b[parent(k)], b[k])
    BY <2>1 DEF Heaped
  <2>3. parent(k) \in Nat /\ parent(k) < k
    BY ParentLemma
  <2>4. PICK p \in 0..i : p = parent(k)
    BY <2>1, <2>3
  <2>5. p \in 0..(n - 1)
    BY <1>1
  <2>6. CASE p = 0
    BY <2>1, <2>2, <2>4, <2>6
  <2>7. CASE p # 0
    <3>1. p \in 1..i
      BY <2>7
    <3>2. KeyLess(b[0], b[p]) /\ KeyLess(b[p], b[k])
      BY <2>2, <2>4, <3>1
    <3>3. b[0] \in Entries /\ b[p] \in Entries /\ b[k] \in Entries
      BY <1>1, <1>2, <2>1, <2>5
    <3> QED  BY <2>1, <3>2, <3>3, KeyLemma
  <2> QED  BY <2>6, <2>7
<1> HIDE DEF R
<1>5. \A i \in 0..n : i \in R
  BY <1>1, <1>3, <1>4, BoundedInduction
<1>6. ASSUME NEW j \in 0..(n - 1), j # 0 PROVE KeyLess(b[0], b[j])
  <2>1. j \in R /\ j \in Nat /\ j < n /\ j \in 1..j
    BY <1>1, <1>5, <1>6
  <2> QED  BY <2>1 DEF R
<1>7. b[0].elem \in S
  BY <1>1, <1>2
<1>8. ASSUME NEW e \in S \ {b[0].elem} PROVE Earlier(b[0].elem, e)
  <2>1. PICK j \in 0..(n - 1) : b[j].elem = e
    BY <1>1
  <2>2. KeyLess(b[0], b[j])
    BY <1>6, <2>1
  <2> QED  BY <1>1, <1>2, <2>1, <2>2, KeyLemma
<1> QED  BY <1>7, <1>8 DEF FirstOf

-----------------------------------------------------------------------------
(* heap_insert. *)

\* The entries of the array that an operation leaves.
LEMMA HoldsAgain ==
    ASSUME NEW b, NEW n \in Nat, NEW S, S \subseteq Events, IsFiniteSet(S), Cardinality(S) = n,
           Apart(S), b \in [0..(n - 1) -> Entries],
           \A j \in 0..(n - 1) : b[j].elem \in S,
           \A e \in S : \E j \in 0..(n - 1) : b[j].elem = e
    PROVE  Holds(b, n, S)
<1>1. {b[j].elem : j \in 0..(n - 1)} = S
  OBVIOUS
<1> QED  BY <1>1 DEF Holds

\* The hole rises from place n past the entries that are later than x, then x
\* is put into it.
Risen(a, n, x) ==
    LET Moved == {j \in Ascent(n) :
                    \A k \in Ascent(n) : k >= j => KeyLess(x, a[parent(k)])}
        hole == IF Moved = {} THEN n ELSE parent(Min(Moved))
    IN  [j \in 0..n |-> CASE j = hole -> x
                          [] j \in Moved -> a[parent(j)]
                          [] OTHER -> a[j]]

\* heap_insert puts an entry into a heap.
LEMMA RiseLemma ==
    ASSUME NEW a, NEW n, NEW S, Holds(a, n, S), Heaped(a, n),
           NEW x \in Entries, x.elem \notin S, Apart(S \cup {x.elem}),
           NEW b, b = Risen(a, n, x)
    PROVE  Holds(b, n + 1, S \cup {x.elem}) /\ Heaped(b, n + 1)
<1>a. PICK A : A = Ascent(n)
  OBVIOUS
<1>b. PICK M : M = {j \in A : \A k \in A : k >= j => KeyLess(x, a[parent(k)])}
  OBVIOUS
<1>c. PICK hole : hole = IF M = {} THEN n ELSE parent(Min(M))
  OBVIOUS
<1>d. b = [j \in 0..n |-> CASE j = hole -> x
                            [] j \in M -> a[parent(j)]
                            [] OTHER -> a[j]]
  BY <1>a, <1>b, <1>c DEF Risen
<1> USE <1>a, <1>b, <1>c, <1>d
<1>1. /\ n \in Nat /\ \A j \in 0..(n - 1) : a[j] \in Entries /\ a[j].elem \in S
      /\ \A e \in S : \E j \in 0..(n - 1) : a[j].elem = e
      /\ S \subseteq Events /\ IsFiniteSet(S) /\ Cardinality(S) = n
  BY HoldsLemma DEF Holds
<1>2. /\ A \subseteq 1..n
      /\ n > 0 => n \in A
      /\ \A j \in A : parent(j) > 0 => parent(j) \in A
      /\ \A j, k \in A : k < j => k <= parent(j)
      /\ \A j \in A : j # n => \E k \in A : parent(k) = j
  BY <1>1, AscentLemma DEF Way
<1>3. M \subseteq A /\ \A j \in M : KeyLess(x, a[parent(j)])
  <2>1. \A j \in A : j >= j
    BY <1>1, <1>2
  <2> QED  BY <2>1
<1>4. \A j \in M, k \in A : k >= j => k \in M
  <2> SUFFICES ASSUME NEW j \in M, NEW k \in A, k >= j PROVE k \in M
    OBVIOUS
  <2>1. \A i \in A : i >= k => i >= j
    BY <1>1, <1>2, <1>3
  <2> QED  BY <2>1
\* What the hole is.
<1>5. /\ hole \in 0..n /\ hole \notin M
      /\ M = {} => hole = n
      /\ M # {} => /\ n \in M /\ n > 0 /\ hole < n /\ KeyLess(x, a[hole])
                   /\ \E m \in M : parent(m) = hole /\ \A j \in M : m <= j
  <2>1. CASE M = {}
    BY <1>1, <2>1
  <2>2. CASE M # {}
    <3>1. PICK m : m = Min(M)
      OBVIOUS
    <3>2. m \in M /\ \A j \in M : m <= j
      <4>1. M \in SUBSET Nat /\ M # {}
        BY <1>1, <1>2, <1>3, <2>2
      <4> QED  BY <3>1, <4>1, MinLemma
    <3>3. m \in Nat \ {0} /\ m <= n
      BY <1>1, <1>2, <1>3, <3>2
    <3>4. parent(m) \in Nat /\ parent(m) < m /\ hole = parent(m)
      BY <2>2, <3>1, <3>3, ParentLemma
    <3>5. hole \in 0..n /\ hole < n /\ n > 0
      BY <1>1, <3>3, <3>4
    <3>6. n \in M
      BY <1>1, <1>2, <1>4, <3>2, <3>3, <3>5
    <3>7. hole \notin M
      BY <3>2, <3>3, <3>4
    <3> QED  BY <1>3, <2>2, <3>2, <3>4, <3>5, <3>6, <3>7
  <2> QED  BY <2>1, <2>2
\* The parent of a place that moved is the hole or moved as well.
<1>6. ASSUME NEW j \in M
      PROVE  /\ j \in Nat \ {0} /\ j \in 0..n /\ parent(j) \in 0..(n - 1)
             /\ parent(j) = hole \/ parent(j) \in M
  <2>1. j \in Nat \ {0} /\ j \in 0..n /\ j \in A /\ j <= n
    BY <1>1, <1>2, <1>3
  <2>2. parent(j) \in Nat /\ parent(j) < j
    BY <2>1, ParentLemma
  <2>3. parent(j) \in 0..(n - 1)
    BY <1>1, <2>1, <2>2
  <2>4. PICK m \in M : parent(m) = hole /\ \A k \in M : m <= k
    BY <1>5
  <2>5. CASE j = m
    BY <2>1, <2>3, <2>4, <2>5
  <2>6. CASE j # m
    <3>1. m \in A /\ m \in Nat \ {0} /\ m <= j
      BY <1>1, <1>2, <1>3, <2>4
    <3>2. m < j
      BY <2>1, <2>6, <3>1
    <3>3. m <= parent(j)
      BY <1>2, <2>1, <3>1, <3>2
    <3>4. parent(j) > 0 /\ parent(j) >= m
      BY <2>2, <3>1, <3>3
    <3>5. parent(j) \in A
      BY <1>2, <2>1, <3>4
    <3>6. parent(j) \in M
      BY <1>4, <3>4, <3>5
    <3> QED  BY <2>1, <2>3, <3>6
  <2> QED  BY <2>5, <2>6
\* The places of the new array.
<1>7. /\ b[hole] = x
      /\ \A j \in M : b[j] = a[parent(j)]
      /\ \A j \in 0..n : j # hole /\ j \notin M => b[j] = a[j] /\ j \in 0..(n - 1)
  <2>1. b[hole] = x
    <3>1. hole \in 0..n /\ hole \notin M
      BY <1>5
    <3> QED  BY ONLY <1>d, <3>1
  <2>2. \A j \in M : b[j] = a[parent(j)]
    BY <1>5, <1>6
  <2>3. ASSUME NEW j \in 0..n, j # hole, j \notin M PROVE b[j] = a[j] /\ j \in 0..(n - 1)
    <3>1. j # n
      BY <1>5, <2>3
    <3> QED  BY <1>1, <2>3, <3>1
  <2> QED  BY <2>1, <2>2, <2>3
<1>8. \A j \in 0..n : b[j] \in Entries /\ b[j].elem \in S \cup {x.elem}
  <2> SUFFICES ASSUME NEW j \in 0..n PROVE b[j] \in Entries /\ b[j].elem \in S \cup {x.elem}
    OBVIOUS
  <2>1. CASE j = hole
    BY ONLY <1>7, <2>1, x \in Entries
  <2>2. CASE j \in M
    BY ONLY <1>1, <1>6, <1>7, <2>2
  <2>3. CASE j # hole /\ j \notin M
    BY ONLY <1>1, <1>7, <2>3, j \in 0..n
  <2> QED  BY <2>1, <2>2, <2>3
<1>9. ASSUME NEW e \in S \cup {x.elem} PROVE \E j \in 0..n : b[j].elem = e
  <2>1. CASE e = x.elem
    BY <1>5, <1>7, <2>1
  <2>2. CASE e \in S
    <3>1. PICK i \in 0..(n - 1) : a[i].elem = e
      BY <1>1, <2>2
    <3>2. i \in 0..n /\ i # n
      BY <1>1
    <3>3. CASE i # hole /\ i \notin M
      BY <1>7, <3>1, <3>2, <3>3
    <3>4. CASE i = hole
      <4>1. M # {}
        BY <1>5, <3>2, <3>4
      <4>2. PICK m \in M : parent(m) = hole
        BY <1>5, <4>1
      <4> QED  BY <1>6, <1>7, <3>1, <3>4, <4>2
    <3>5. CASE i \in M
      <4>1. PICK k \in A : parent(k) = i
        BY <1>2, <1>3, <3>2, <3>5
      <4>2. k \in Nat \ {0}
        BY <1>1, <1>2
      <4>3. k >= i
        BY <3>2, <4>1, <4>2, ParentLemma
      <4>4. k \in M
        BY <1>4, <3>5, <4>3
      <4> QED  BY <1>6, <1>7, <3>1, <4>1, <4>4
    <3> QED  BY <3>3, <3>4, <3>5
  <2> QED  BY <2>1, <2>2
<1>10. Holds(b, n + 1, S \cup {x.elem})
  <2>1. PICK T : T = S \cup {x.elem}
    OBVIOUS
  <2>2. PICK N \in Nat : N = n + 1 /\ N - 1 = n
    BY <1>1
  <2>3. IsFiniteSet(T) /\ Cardinality(T) = N
    BY <1>1, <2>1, <2>2, FS_AddElement
  <2>4. T \subseteq Events /\ Apart(T)
    BY <1>1, <2>1, KeyLemma
  <2>5. b \in [0..(N - 1) -> Entries]
    BY <1>8, <2>2
  <2>6. /\ \A j \in 0..(N - 1) : b[j].elem \in T
        /\ \A e \in T : \E j \in 0..(N - 1) : b[j].elem = e
    <3>1. \A j \in 0..n : b[j].elem \in T
      BY <1>8, <2>1
    <3>2. \A e \in T : \E j \in 0..n : b[j].elem = e
      BY <1>9, <2>1
    <3> QED  BY <2>2, <3>1, <3>2
  <2>7. Holds(b, N, T)
    BY <2>3, <2>4, <2>5, <2>6, HoldsAgain
  <2> QED  BY <2>1, <2>2, <2>7
\* x is later than what it does not pass.
<1>11. ASSUME NEW j \in 0..(n - 1), ~KeyLess(x, a[j]) PROVE KeyLess(a[j], x)
  <2>1. a[j].elem # x.elem /\ a[j] \in Entries /\ a[j].elem \in S
    BY <1>1
  <2>2. Earlier(a[j].elem, x.elem) \/ Earlier(x.elem, a[j].elem)
    BY <2>1 DEF Apart
  <2> QED  BY <1>11, <2>1, <2>2, KeyLemma
<1>12. ASSUME NEW j \in 1..n PROVE KeyLess(b[parent(j)], b[j])
  <2>1. j \in Nat \ {0} /\ j \in 0..n /\ parent(j) \in Nat /\ parent(j) < j
    BY <1>1, ParentLemma
  <2>2. PICK p \in 0..(n - 1) : p = parent(j) /\ p < j
    BY <1>1, <2>1
  <2>3. p \in 0..n /\ a[p] \in Entries
    BY <1>1
  <2>4. CASE j \in M
    <3>1. b[j] = a[p]
      BY <1>7, <2>2, <2>4
    <3>2. CASE p = hole
      <4>1. KeyLess(x, a[p])
        BY <1>3, <2>2, <2>4
      <4>2. b[p] = x
        BY <1>7, <3>2
      <4> QED  BY <2>2, <3>1, <4>1, <4>2
    <3>3. CASE p \in M
      <4>1. b[p] = a[parent(p)]
        BY <1>7, <3>3
      <4>2. p \in 1..(n - 1)
        BY <1>6, <2>2, <3>3
      <4>3. KeyLess(a[parent(p)], a[p])
        BY <4>2 DEF Heaped
      <4> QED  BY <2>2, <3>1, <4>1, <4>3
    <3> QED  BY <1>6, <2>2, <2>4, <3>2, <3>3
  <2>5. CASE j = hole
    <3>1. j \in A /\ j \notin M
      <4>1. CASE M = {}
        BY <1>1, <1>2, <1>5, <2>1, <2>5, <4>1
      <4>2. CASE M # {}
        <5>1. PICK m \in M : parent(m) = hole
          BY <1>5, <4>2
        <5>2. m \in A /\ parent(m) = j
          BY <1>3, <2>5, <5>1
        <5>3. parent(m) > 0
          BY <2>1, <5>2
        <5>4. j \in A
          BY <1>2, <5>2, <5>3
        <5> QED  BY <1>5, <2>5, <5>4
      <4> QED  BY <4>1, <4>2
    <3>2. ~KeyLess(x, a[p])
      <4>1. PICK k \in A : k >= j /\ ~KeyLess(x, a[parent(k)])
        BY <3>1
      <4>2. k = j
        <5>1. SUFFICES ASSUME k # j PROVE FALSE
          OBVIOUS
        <5>2. k \in Nat \ {0} /\ k > j /\ k <= n
          BY <1>1, <1>2, <2>1, <4>1, <5>1
        <5>3. k \notin M
          BY <1>3, <4>1
        <5>4. M # {}
          BY <1>1, <1>5, <2>5, <5>2
        <5>5. PICK m \in M : parent(m) = hole /\ \A i \in M : m <= i
          BY <1>5, <5>4
        <5>6. m \in A /\ m \in Nat \ {0}
          BY <1>1, <1>2, <1>3
        <5>7. k < m
          BY <1>4, <5>2, <5>3, <5>6
        <5>8. k <= parent(m)
          BY <1>2, <5>6, <5>7
        <5> QED  BY <2>1, <2>5, <5>2, <5>5, <5>8
      <4> QED  BY <2>2, <4>1, <4>2
    <3>3. KeyLess(a[p], x)
      BY <1>11, <3>2
    <3>4. p # hole /\ p \notin M
      <4>1. p # hole
        BY <2>1, <2>2, <2>5
      <4>2. ASSUME p \in M PROVE FALSE
        <5>1. j >= p
          BY <2>1, <2>2
        <5> QED  BY <1>4, <3>1, <4>2, <5>1
      <4> QED  BY <4>1, <4>2
    <3>5. b[p] = a[p] /\ b[j] = x
      BY <1>7, <2>3, <2>5, <3>4
    <3> QED  BY <2>2, <3>3, <3>5
  <2>6. CASE j # hole /\ j \notin M
    <3>1. b[j] = a[j] /\ j \in 0..(n - 1) /\ j \in 1..(n - 1)
      BY <1>7, <2>1, <2>6
    <3>2. KeyLess(a[p], a[j]) /\ a[j] \in Entries
      BY <1>1, <2>2, <3>1 DEF Heaped
    <3>3. CASE p # hole /\ p \notin M
      BY <1>7, <2>2, <2>3, <3>1, <3>2, <3>3
    <3>4. CASE p = hole
      <4>1. M # {}
        BY <1>1, <1>5, <3>4
      <4>2. KeyLess(x, a[p]) /\ b[p] = x
        BY <1>5, <1>7, <3>4, <4>1
      <4> QED  BY <2>2, <2>3, <3>1, <3>2, <4>2, KeyLemma
    <3>5. CASE p \in M
      <4>1. b[p] = a[parent(p)] /\ parent(p) \in 0..(n - 1) /\ p \in 1..(n - 1)
        BY <1>6, <1>7, <3>5
      <4>2. KeyLess(a[parent(p)], a[p]) /\ a[parent(p)] \in Entries
        BY <1>1, <4>1 DEF Heaped
      <4> QED  BY <2>2, <2>3, <3>1, <3>2, <4>1, <4>2, KeyLemma
    <3> QED  BY <3>3, <3>4, <3>5
  <2> QED  BY <2>4, <2>5, <2>6
<1>13. Heaped(b, n + 1)
  <2>1. (n + 1) - 1 = n
    BY <1>1
  <2> QED  BY <1>12, <2>1 DEF Heaped
<1> QED  BY <1>10, <1>13

-----------------------------------------------------------------------------
(* heap_extract_min: the way down on which x sinks. *)

\* The earlier child of place i, and whether x sinks below i.
ChildOf(a, n, i) ==
    IF right(i) < n /\ ~KeyLess(a[left(i)], a[right(i)]) THEN right(i) ELSE left(i)

SinksAt(a, n, x, i) == left(i) < n /\ KeyLess(a[ChildOf(a, n, i)], x)

Sunk(a, n, x) ==
    LET down[i \in 0..n] == IF SinksAt(a, n, x, i) THEN {i} \cup down[ChildOf(a, n, i)] ELSE {i}
    IN  [j \in 0..(n - 1) |-> CASE j \notin down[0] -> a[j]
                                [] j \in down[0] /\ SinksAt(a, n, x, j) -> a[ChildOf(a, n, j)]
                                [] OTHER -> x]

\* heap_extract_min is Sunk.
LEMMA ExtractForm ==
    ASSUME NEW h
    PROVE  heap_extract_min(h) =
             [h EXCEPT !.h_size = h.h_size - 1,
                       !.h_elems = Sunk([j \in 0..((h.h_size - 1) - 1) |-> h.h_elems[j]],
                                        h.h_size - 1, h.h_elems[h.h_size - 1])]
BY DEF heap_extract_min, Sunk, SinksAt, ChildOf

\* The child that is chosen is a child, and it is in the array.
LEMMA ChildLemma ==
    ASSUME NEW a, NEW n \in Nat, NEW x, NEW i \in Nat
    PROVE  /\ SinksAt(a, n, x, i) => ChildOf(a, n, i) \in (i + 1)..(n - 1)
           /\ left(i) < n => ChildOf(a, n, i) \in (i + 1)..(n - 1)
           /\ parent(ChildOf(a, n, i)) = i
           /\ i >= n => ~SinksAt(a, n, x, i)
<1>1. /\ left(i) \in Nat /\ right(i) \in Nat /\ left(i) > i /\ right(i) > left(i)
      /\ parent(left(i)) = i /\ parent(right(i)) = i
  BY ParentLemma
<1>2. parent(ChildOf(a, n, i)) = i
  BY <1>1 DEF ChildOf
<1>3. left(i) < n => ChildOf(a, n, i) \in (i + 1)..(n - 1)
  <2>1. left(i) < n => left(i) \in (i + 1)..(n - 1)
    BY <1>1
  <2>2. right(i) < n => right(i) \in (i + 1)..(n - 1)
    BY <1>1
  <2> QED  BY <2>1, <2>2 DEF ChildOf
<1>4. i >= n => ~(left(i) < n)
  BY <1>1
<1> QED  BY <1>2, <1>3, <1>4 DEF SinksAt

IsDown(f, m, a, n, x) ==
    f = [i \in m..n |-> IF SinksAt(a, n, x, i) THEN {i} \cup f[ChildOf(a, n, i)] ELSE {i}]

\* The recursion of heap_extract_min reaches one place further up.
LEMMA DownLonger ==
    ASSUME NEW a, NEW n \in Nat, NEW x, NEW m \in Nat, m < n, NEW f, IsDown(f, m + 1, a, n, x)
    PROVE  \E g : IsDown(g, m, a, n, x)
<1> DEFINE g == [i \in m..n |-> IF i = m
                                THEN IF SinksAt(a, n, x, m) THEN {m} \cup f[ChildOf(a, n, m)] ELSE {m}
                                ELSE f[i]]
           h == [i \in m..n |-> IF SinksAt(a, n, x, i) THEN {i} \cup g[ChildOf(a, n, i)] ELSE {i}]
<1>1. \A i \in (m + 1)..n :
         f[i] = IF SinksAt(a, n, x, i) THEN {i} \cup f[ChildOf(a, n, i)] ELSE {i}
  BY DEF IsDown
<1>2. \A i \in (m + 1)..n : i \in m..n /\ i # m /\ g[i] = f[i]
  <2>1. \A i \in (m + 1)..n : i \in m..n /\ i # m
    OBVIOUS
  <2> QED  BY <2>1
<1>3. ASSUME NEW i \in m..n PROVE g[i] = h[i]
  <2>1. i \in Nat
    OBVIOUS
  <2>2. h[i] = IF SinksAt(a, n, x, i) THEN {i} \cup g[ChildOf(a, n, i)] ELSE {i}
    OBVIOUS
  <2>3. SinksAt(a, n, x, i) => g[ChildOf(a, n, i)] = f[ChildOf(a, n, i)]
    <3> SUFFICES ASSUME SinksAt(a, n, x, i) PROVE g[ChildOf(a, n, i)] = f[ChildOf(a, n, i)]
      OBVIOUS
    <3>1. PICK k \in (i + 1)..(n - 1) : k = ChildOf(a, n, i)
      BY <2>1, ChildLemma
    <3>2. k \in (m + 1)..n
      OBVIOUS
    <3> QED  BY <1>2, <3>1, <3>2
  <2>4. g[i] = IF SinksAt(a, n, x, i) THEN {i} \cup f[ChildOf(a, n, i)] ELSE {i}
    <3>1. i = m \/ i \in (m + 1)..n
      OBVIOUS
    <3> QED  BY <1>1, <1>2, <3>1
  <2> HIDE DEF g, h
  <2> QED  BY <2>2, <2>3, <2>4
<1>4. g = h
  <2>1. g = [i \in m..n |-> g[i]] /\ h = [i \in m..n |-> h[i]]
    OBVIOUS
  <2> HIDE DEF g, h
  <2> QED  BY <1>3, <2>1
<1>5. IsDown(g, m, a, n, x)
  BY <1>4 DEF IsDown
<1> QED  BY <1>5

\* The recursion of heap_extract_min reaches the root.
LEMMA DownExists ==
    ASSUME NEW a, NEW n \in Nat, NEW x
    PROVE  \E f : IsDown(f, 0, a, n, x)
<1> DEFINE S == {k \in Nat : \E f : IsDown(f, n - k, a, n, x)}
<1>1. 0 \in S
  <2> DEFINE f == [i \in n..n |-> {i}]
             g == [i \in n..n |-> IF SinksAt(a, n, x, i) THEN {i} \cup f[ChildOf(a, n, i)] ELSE {i}]
  <2>1. \A i \in n..n : f[i] = g[i]
    <3>1. \A i \in n..n : i \in Nat /\ i >= n
      OBVIOUS
    <3>2. \A i \in n..n : ~SinksAt(a, n, x, i)
      BY <3>1, ChildLemma
    <3> QED  BY <3>2
  <2>2. f = g
    <3>1. f = [i \in n..n |-> f[i]] /\ g = [i \in n..n |-> g[i]]
      OBVIOUS
    <3> HIDE DEF f, g
    <3> QED  BY <2>1, <3>1
  <2>3. IsDown(f, n, a, n, x)
    BY <2>2 DEF IsDown
  <2>4. n - 0 = n
    OBVIOUS
  <2> QED  BY <2>3, <2>4
<1>2. \A k \in 0..(n - 1) : k \in S => k + 1 \in S
  <2> SUFFICES ASSUME NEW k \in 0..(n - 1), NEW f, IsDown(f, n - k, a, n, x)
               PROVE  \E g : IsDown(g, n - (k + 1), a, n, x)
    OBVIOUS
  <2>1. PICK m \in Nat : m = n - (k + 1) /\ m + 1 = n - k /\ m < n
    OBVIOUS
  <2>2. IsDown(f, m + 1, a, n, x)
    BY <2>1
  <2>3. \E g : IsDown(g, m, a, n, x)
    BY <2>1, <2>2, DownLonger
  <2> QED  BY <2>1, <2>3
<1> HIDE DEF S
<1>3. n \in S
  BY <1>1, <1>2, BoundedInduction
<1>4. n - n = 0
  OBVIOUS
<1> QED  BY <1>3, <1>4 DEF S

\* D is the way down from place i.
Path(D, i, a, n, x) ==
    /\ i \in D /\ D \subseteq i..n
    /\ \A j \in D : j # i => /\ parent(j) \in D /\ SinksAt(a, n, x, parent(j))
                             /\ ChildOf(a, n, parent(j)) = j /\ j < n
    /\ \A j \in D : SinksAt(a, n, x, j) => ChildOf(a, n, j) \in D
    /\ \E j \in D : ~SinksAt(a, n, x, j)

\* One more place above a path.
LEMMA PathLonger ==
    ASSUME NEW a, NEW n \in Nat, NEW x, NEW i \in 0..n, SinksAt(a, n, x, i),
           NEW k, k = ChildOf(a, n, i), NEW D, Path(D, k, a, n, x)
    PROVE  Path({i} \cup D, i, a, n, x)
<1>1. k \in (i + 1)..(n - 1) /\ parent(k) = i
  BY ChildLemma
<1>2. /\ k \in D /\ D \subseteq k..n
      /\ \A j \in D : j # k => /\ parent(j) \in D /\ SinksAt(a, n, x, parent(j))
                               /\ ChildOf(a, n, parent(j)) = j /\ j < n
      /\ \A j \in D : SinksAt(a, n, x, j) => ChildOf(a, n, j) \in D
      /\ \E j \in D : ~SinksAt(a, n, x, j)
  BY DEF Path
<1>3. D \subseteq i..n /\ {i} \cup D \subseteq i..n /\ k < n
  BY <1>1, <1>2
<1>4. \A j \in {i} \cup D : j # i => /\ parent(j) \in {i} \cup D /\ SinksAt(a, n, x, parent(j))
                                     /\ ChildOf(a, n, parent(j)) = j /\ j < n
  BY <1>1, <1>2, <1>3
<1>5. \A j \in {i} \cup D : SinksAt(a, n, x, j) => ChildOf(a, n, j) \in {i} \cup D
  BY <1>2
<1> QED  BY <1>2, <1>3, <1>4, <1>5 DEF Path

\* The places that x sinks past, and the one it takes, are a path from the root.
LEMMA DownLemma ==
    ASSUME NEW a, NEW n \in Nat, NEW x, NEW down, IsDown(down, 0, a, n, x)
    PROVE  Path(down[0], 0, a, n, x)
<1>1. \A i \in 0..n : down[i] = IF SinksAt(a, n, x, i) THEN {i} \cup down[ChildOf(a, n, i)] ELSE {i}
  BY DEF IsDown
<1> DEFINE S == {k \in Nat : k <= n => \A i \in (n - k)..n : Path(down[i], i, a, n, x)}
<1>2. ASSUME NEW i \in 0..n, \A j \in (i + 1)..n : Path(down[j], j, a, n, x)
      PROVE  Path(down[i], i, a, n, x)
  <2>1. CASE SinksAt(a, n, x, i)
    <3>1. PICK k \in (i + 1)..(n - 1) : k = ChildOf(a, n, i)
      BY <2>1, ChildLemma
    <3>2. k \in (i + 1)..n
      OBVIOUS
    <3>3. Path(down[k], k, a, n, x)
      BY <1>2, <3>2
    <3>4. Path({i} \cup down[k], i, a, n, x)
      BY <2>1, <3>1, <3>3, PathLonger
    <3> QED  BY <1>1, <2>1, <3>1, <3>4
  <2>2. CASE ~SinksAt(a, n, x, i)
    <3>1. down[i] = {i}
      BY <1>1, <2>2
    <3> QED  BY <2>2, <3>1 DEF Path
  <2> QED  BY <2>1, <2>2
<1>3. 0 \in S
  <2>1. \A j \in (n + 1)..n : FALSE
    OBVIOUS
  <2>2. Path(down[n], n, a, n, x)
    BY <1>2, <2>1
  <2>3. \A i \in (n - 0)..n : i = n
    OBVIOUS
  <2> QED  BY <2>2, <2>3
<1>4. \A k \in 0..(n - 1) : k \in S => k + 1 \in S
  <2> SUFFICES ASSUME NEW k \in 0..(n - 1), \A i \in (n - k)..n : Path(down[i], i, a, n, x)
               PROVE  \A i \in (n - (k + 1))..n : Path(down[i], i, a, n, x)
    <3>1. \A k \in 0..(n - 1) : k \in Nat /\ k <= n /\ k + 1 \in Nat
      OBVIOUS
    <3> QED  BY <3>1
  <2>1. PICK m \in 0..n : m = n - (k + 1) /\ m + 1 = n - k
    OBVIOUS
  <2>2. Path(down[m], m, a, n, x)
    BY <1>2, <2>1
  <2>3. \A i \in m..n : i = m \/ i \in (m + 1)..n
    OBVIOUS
  <2> QED  BY <2>1, <2>2, <2>3
<1> HIDE DEF S
<1>5. n \in S
  BY <1>3, <1>4, BoundedInduction
<1>6. n - n = 0 /\ n <= n /\ 0 \in 0..n
  OBVIOUS
<1> QED  BY <1>5, <1>6 DEF S

-----------------------------------------------------------------------------
(* heap_extract_min and heap_delete. *)

\* The root is dropped and x, from the last place, sinks to its own: the order
\* below the root is enough for that.
LEMMA SinkLemma ==
    ASSUME NEW c, NEW N, NEW S, Holds(c, N, S), Nearly(c, N), N > 0,
           NEW n, n = N - 1, NEW a, a = [j \in 0..(n - 1) |-> c[j]], NEW x, x = c[n],
           NEW b, b = Sunk(a, n, x)
    PROVE  Holds(b, n, S \ {c[0].elem}) /\ Heaped(b, n)
<1>1. /\ N \in Nat /\ \A j \in 0..(N - 1) : c[j] \in Entries /\ c[j].elem \in S
      /\ \A e \in S : \E j \in 0..(N - 1) : c[j].elem = e
      /\ \A j, k \in 0..(N - 1) : j # k => c[j].elem # c[k].elem
      /\ \A j, k \in 0..(N - 1) : j # k => KeyLess(c[j], c[k]) \/ KeyLess(c[k], c[j])
  BY HoldsLemma
<1>2. S \subseteq Events /\ IsFiniteSet(S) /\ Cardinality(S) = N /\ Apart(S)
  BY DEF Holds
<1>3. n \in Nat /\ n \in 0..(N - 1) /\ 0 \in 0..(N - 1) /\ \A j \in 0..(n - 1) : j \in 0..(N - 1) /\ j # n
  BY <1>1
<1>4. x \in Entries /\ \A j \in 0..(n - 1) : a[j] = c[j] /\ a[j] \in Entries
  BY <1>1, <1>3
<1>5. /\ \A j, k \in 0..(n - 1) : j # k => KeyLess(a[j], a[k]) \/ KeyLess(a[k], a[j])
      /\ \A j \in 0..(n - 1) : KeyLess(a[j], x) \/ KeyLess(x, a[j])
  BY <1>1, <1>3, <1>4
<1>6. \A j \in 1..(n - 1) : parent(j) > 0 => KeyLess(a[parent(j)], a[j])
  <2> SUFFICES ASSUME NEW j \in 1..(n - 1), parent(j) > 0 PROVE KeyLess(a[parent(j)], a[j])
    OBVIOUS
  <2>1. j \in Nat \ {0} /\ parent(j) \in Nat /\ parent(j) < j
    BY <1>3, ParentLemma
  <2>2. j \in 0..(n - 1) /\ parent(j) \in 0..(n - 1) /\ j \in 1..(N - 1)
    BY <1>1, <1>3, <2>1
  <2>3. KeyLess(c[parent(j)], c[j])
    BY <2>2 DEF Nearly
  <2> QED  BY <1>4, <2>2, <2>3
\* The way down.
<1>7. PICK D : /\ Path(D, 0, a, n, x)
               /\ b = [j \in 0..(n - 1) |-> CASE j \notin D -> a[j]
                                             [] j \in D /\ SinksAt(a, n, x, j) -> a[ChildOf(a, n, j)]
                                             [] OTHER -> x]
  <2> DEFINE down == CHOOSE f : IsDown(f, 0, a, n, x)
  <2>1. IsDown(down, 0, a, n, x)
    BY <1>3, DownExists
  <2>2. b = [j \in 0..(n - 1) |-> CASE j \notin down[0] -> a[j]
                                   [] j \in down[0] /\ SinksAt(a, n, x, j) -> a[ChildOf(a, n, j)]
                                   [] OTHER -> x]
    BY DEF Sunk, IsDown
  <2> HIDE DEF down
  <2>3. Path(down[0], 0, a, n, x)
    BY <1>3, <2>1, DownLemma
  <2> QED  BY <2>2, <2>3
<1>8. /\ 0 \in D /\ D \subseteq 0..n
      /\ \A j \in D : j # 0 => /\ parent(j) \in D /\ SinksAt(a, n, x, parent(j))
                               /\ ChildOf(a, n, parent(j)) = j /\ j < n
      /\ \A j \in D : SinksAt(a, n, x, j) => ChildOf(a, n, j) \in D
      /\ \E j \in D : ~SinksAt(a, n, x, j)
  BY <1>7 DEF Path
<1>9. /\ \A j \in 0..(n - 1) : j \notin D => b[j] = a[j] /\ j # 0
      /\ \A j \in 0..(n - 1) : j \in D /\ SinksAt(a, n, x, j) => b[j] = a[ChildOf(a, n, j)]
      /\ \A j \in 0..(n - 1) : j \in D /\ ~SinksAt(a, n, x, j) => b[j] = x
  BY <1>7, <1>8
<1>10. ASSUME NEW j \in 0..(n - 1), left(j) < n
       PROVE  ChildOf(a, n, j) \in 0..(n - 1) /\ ChildOf(a, n, j) # 0 /\ ChildOf(a, n, j) \in 1..(n - 1)
  <2>1. j \in Nat
    BY <1>3
  <2>2. ChildOf(a, n, j) \in (j + 1)..(n - 1)
    BY <1>3, <1>10, <2>1, ChildLemma
  <2> QED  BY <1>3, <2>1, <2>2
<1>11. \A j \in 0..(n - 1) : SinksAt(a, n, x, j) => left(j) < n
  BY DEF SinksAt
<1>12. ASSUME NEW j \in 0..(n - 1)
       PROVE  b[j] \in Entries /\ b[j].elem \in S \ {c[0].elem}
  <2>1. CASE j \notin D
    <3>1. b[j] = c[j] /\ j # 0 /\ j \in 0..(N - 1)
      BY <1>3, <1>4, <1>9, <2>1
    <3> QED  BY <1>1, <1>3, <3>1
  <2>2. CASE j \in D /\ SinksAt(a, n, x, j)
    <3>1. PICK k \in 0..(n - 1) : k = ChildOf(a, n, j) /\ k # 0
      BY <1>10, <1>11, <2>2
    <3>2. b[j] = c[k] /\ k \in 0..(N - 1)
      BY <1>3, <1>4, <1>9, <2>2, <3>1
    <3> QED  BY <1>1, <1>3, <3>1, <3>2
  <2>3. CASE j \in D /\ ~SinksAt(a, n, x, j)
    <3>1. b[j] = c[n] /\ n # 0
      BY <1>3, <1>9, <2>3
    <3> QED  BY <1>1, <1>3, <3>1
  <2> QED  BY <2>1, <2>2, <2>3
<1>13. ASSUME NEW e \in S \ {c[0].elem} PROVE \E j \in 0..(n - 1) : b[j].elem = e
  <2>1. PICK i \in 0..(N - 1) : c[i].elem = e
    BY <1>1
  <2>2. i # 0
    BY <2>1
  <2>3. CASE i = n
    <3>1. PICK j \in D : ~SinksAt(a, n, x, j)
      BY <1>8
    <3>2. j \in 0..n /\ (j # 0 => j < n) /\ n # 0
      BY <1>8, <2>2, <2>3, <3>1
    <3>3. j \in 0..(n - 1)
      <4>0. 0 \in 0..(n - 1)
        <5>1. n \in Nat /\ n # 0
          BY <1>3, <3>2
        <5> QED  BY ONLY <5>1
      <4>1. CASE j = 0
        BY <4>0, <4>1
      <4>2. CASE j # 0
        BY <1>3, <3>2, <4>2
      <4> QED  BY <4>1, <4>2
    <3>4. b[j] = x
      BY <1>9, <3>1, <3>3
    <3> QED  BY <1>3, <2>1, <2>3, <3>3, <3>4
  <2>4. CASE i # n
    <3>1. i \in 0..(n - 1) /\ a[i] = c[i]
      <4>1. i \in 0..(n - 1)
        BY <1>1, <1>3, <2>4
      <4> QED  BY <1>4, <4>1
    <3>2. CASE i \notin D
      BY <1>9, <2>1, <3>1, <3>2
    <3>3. CASE i \in D
      <4>1. PICK p : p = parent(i) /\ p \in D /\ SinksAt(a, n, x, p) /\ ChildOf(a, n, p) = i
        BY <1>8, <2>2, <3>3
      <4>2. p \in 0..(n - 1)
        <5>1. i \in Nat \ {0} /\ parent(i) \in Nat /\ parent(i) < i
          BY <1>3, <2>2, <3>1, ParentLemma
        <5> QED  BY <1>3, <3>1, <4>1, <5>1
      <4>3. b[p] = a[i]
        BY <1>9, <4>1, <4>2
      <4> QED  BY <2>1, <3>1, <4>2, <4>3
    <3> QED  BY <3>2, <3>3
  <2> QED  BY <2>3, <2>4
<1>14. Holds(b, n, S \ {c[0].elem})
  <2>1. PICK T : T = S \ {c[0].elem}
    OBVIOUS
  <2>2. IsFiniteSet(T) /\ Cardinality(T) = n
    <3>1. c[0].elem \in S
      BY <1>1, <1>3
    <3> QED  BY <1>2, <2>1, <3>1, FS_RemoveElement
  <2>3. T \subseteq Events /\ Apart(T)
    BY <1>2, <2>1 DEF Apart
  <2>4. b \in [0..(n - 1) -> Entries]
    BY <1>7, <1>12
  <2>5. /\ \A j \in 0..(n - 1) : b[j].elem \in T
        /\ \A e \in T : \E j \in 0..(n - 1) : b[j].elem = e
    BY <1>12, <1>13, <2>1
  <2>6. Holds(b, n, T)
    BY <1>3, <2>2, <2>3, <2>4, <2>5, HoldsAgain
  <2> QED  BY <2>1, <2>6
\* The child that is chosen is the earlier one.
<1>15. ASSUME NEW p \in 0..(n - 1), NEW j \in 1..(n - 1), parent(j) = p, NEW k, k = ChildOf(a, n, p)
       PROVE  left(p) < n /\ (j # k => KeyLess(a[k], a[j]))
  <2>1. j = left(p) \/ j = right(p)
    <3>1. j \in Nat \ {0}
      BY <1>3
    <3> QED  BY <1>15, <3>1, ParentLemma
  <2>2. left(p) \in Nat /\ right(p) \in Nat /\ left(p) < right(p) /\ left(p) > p /\ p \in Nat
    <3>1. p \in Nat
      BY <1>3
    <3> QED  BY <3>1, ParentLemma
  <2>3. left(p) < n /\ left(p) \in 0..(n - 1)
    BY <1>3, <2>1, <2>2
  <2>4. ASSUME j # k PROVE KeyLess(a[k], a[j])
    <3>1. CASE right(p) < n /\ ~KeyLess(a[left(p)], a[right(p)])
      <4>1. k = right(p)
        BY <1>15, <3>1 DEF ChildOf
      <4>2. j = left(p) /\ right(p) \in 0..(n - 1) /\ left(p) # right(p)
        BY <1>3, <2>1, <2>2, <2>4, <3>1, <4>1
      <4> QED  BY <1>5, <2>3, <3>1, <4>1, <4>2
    <3>2. CASE ~(right(p) < n /\ ~KeyLess(a[left(p)], a[right(p)]))
      <4>1. k = left(p)
        BY <1>15, <3>2 DEF ChildOf
      <4>2. j = right(p)
        BY <2>1, <2>4, <4>1
      <4>3. right(p) < n
        BY <1>3, <2>2, <4>2
      <4> QED  BY <3>2, <4>1, <4>2, <4>3
    <3> QED  BY <3>1, <3>2
  <2> QED  BY <2>3, <2>4
<1>16. ASSUME NEW j \in 1..(n - 1) PROVE KeyLess(b[parent(j)], b[j])
  <2>1. j \in Nat \ {0} /\ j \in 0..(n - 1) /\ parent(j) \in Nat /\ parent(j) < j
    BY <1>3, ParentLemma
  <2>2. PICK p \in 0..(n - 1) : p = parent(j)
    BY <1>3, <2>1
  <2>3. PICK k : k = ChildOf(a, n, p)
    OBVIOUS
  <2>4. left(p) < n /\ (j # k => KeyLess(a[k], a[j]))
    BY <1>15, <2>2, <2>3
  <2>5. k \in 0..(n - 1) /\ k # 0 /\ k \in 1..(n - 1)
    BY <1>10, <2>3, <2>4
  <2>6. j \in D => p \in D /\ SinksAt(a, n, x, p) /\ k = j
    BY <1>8, <2>1, <2>2, <2>3
  <2>7. CASE p \notin D
    <3>1. b[p] = a[p] /\ b[j] = a[j] /\ p # 0
      BY <1>9, <2>1, <2>6, <2>7
    <3>2. parent(j) > 0
      BY <2>1, <2>2, <3>1
    <3> QED  BY <1>6, <2>2, <3>1, <3>2
  <2>8. CASE p \in D /\ SinksAt(a, n, x, p)
    <3>1. b[p] = a[k] /\ KeyLess(a[k], x)
      BY <1>9, <2>3, <2>8 DEF SinksAt
    <3>2. CASE j # k
      <4>1. b[j] = a[j]
        BY <1>9, <2>1, <2>6, <3>2
      <4> QED  BY <2>2, <2>4, <3>1, <3>2, <4>1
    <3>3. CASE j = k
      <4>1. j \in D
        BY <1>8, <2>3, <2>8, <3>3
      <4>2. CASE ~SinksAt(a, n, x, j)
        BY <1>9, <2>1, <2>2, <3>1, <3>3, <4>1, <4>2
      <4>3. CASE SinksAt(a, n, x, j)
        <5>1. PICK i \in 1..(n - 1) : i = ChildOf(a, n, j)
          BY <1>10, <1>11, <2>1, <4>3
        <5>2. parent(i) = j
          BY <1>3, <2>1, <5>1, ChildLemma
        <5>3. parent(i) > 0
          BY <2>1, <5>2
        <5>4. KeyLess(a[j], a[i])
          BY <1>6, <5>2, <5>3
        <5>5. b[j] = a[i]
          BY <1>9, <2>1, <4>1, <4>3, <5>1
        <5> QED  BY <2>2, <3>1, <3>3, <5>4, <5>5
      <4> QED  BY <4>2, <4>3
    <3> QED  BY <3>2, <3>3
  <2>9. CASE p \in D /\ ~SinksAt(a, n, x, p)
    <3>1. b[p] = x /\ b[j] = a[j]
      BY <1>9, <2>1, <2>6, <2>9
    <3>2. ~KeyLess(a[k], x)
      BY <2>3, <2>4, <2>9 DEF SinksAt
    <3>3. KeyLess(x, a[k])
      BY <1>5, <2>5, <3>2
    <3>4. KeyLess(x, a[j])
      <4>1. CASE j = k
        BY <3>3, <4>1
      <4>2. CASE j # k
        BY <1>4, <2>1, <2>4, <2>5, <3>3, <4>2, KeyLemma
      <4> QED  BY <4>1, <4>2
    <3> QED  BY <2>2, <3>1, <3>4
  <2> QED  BY <2>7, <2>8, <2>9
<1>17. Heaped(b, n)
  BY <1>16 DEF Heaped
<1> QED  BY <1>14, <1>17

\* The entry at i moves up to the root, and those on its way move down.
Raised(a, n, i) ==
    [j \in 0..(n - 1) |-> CASE j = 0 -> a[i]
                            [] j \in Ascent(i) -> a[parent(j)]
                            [] OTHER -> a[j]]


\* The entry at place i is swapped up to the root.
LEMMA RaiseLemma ==
    ASSUME NEW a, NEW n, NEW S, Holds(a, n, S), Heaped(a, n), NEW i \in 0..(n - 1),
           NEW b, b = Raised(a, n, i)
    PROVE  Holds(b, n, S) /\ Nearly(b, n) /\ b[0] = a[i]
<1>0. b = [j \in 0..(n - 1) |-> CASE j = 0 -> a[i]
                                  [] j \in Ascent(i) -> a[parent(j)]
                                  [] OTHER -> a[j]]
  BY DEF Raised
<1> USE <1>0
<1>1. /\ n \in Nat /\ \A j \in 0..(n - 1) : a[j] \in Entries /\ a[j].elem \in S
      /\ \A e \in S : \E j \in 0..(n - 1) : a[j].elem = e
  BY HoldsLemma
<1>2. S \subseteq Events /\ IsFiniteSet(S) /\ Cardinality(S) = n /\ Apart(S)
  BY DEF Holds
<1>3. PICK A : A = Ascent(i)
  OBVIOUS
<1>4. i \in Nat /\ 0 \in 0..(n - 1)
  BY <1>1
<1>5. /\ A \subseteq 1..i
      /\ i > 0 => i \in A
      /\ \A j \in A : parent(j) > 0 => parent(j) \in A
      /\ \A j \in A : j # i => \E k \in A : parent(k) = j
  BY <1>3, <1>4, AscentLemma DEF Way
<1>6. \A j \in A : /\ j \in Nat \ {0} /\ j \in 0..(n - 1) /\ j # 0
                   /\ parent(j) \in Nat /\ parent(j) < j /\ parent(j) \in 0..(n - 1)
  <2> SUFFICES ASSUME NEW j \in A
               PROVE  /\ j \in Nat \ {0} /\ j \in 0..(n - 1) /\ j # 0
                      /\ parent(j) \in Nat /\ parent(j) < j /\ parent(j) \in 0..(n - 1)
    OBVIOUS
  <2>1. j \in Nat \ {0} /\ j \in 0..(n - 1)
    BY <1>1, <1>4, <1>5
  <2>2. parent(j) \in Nat /\ parent(j) < j
    BY <2>1, ParentLemma
  <2> QED  BY <1>1, <2>1, <2>2
<1>7. /\ b[0] = a[i]
      /\ \A j \in A : b[j] = a[parent(j)]
      /\ \A j \in 0..(n - 1) : j # 0 /\ j \notin A => b[j] = a[j]
  BY <1>3, <1>4, <1>6
<1>8. \A j \in 0..(n - 1) : b[j] \in Entries /\ b[j].elem \in S
  BY <1>1, <1>6, <1>7
\* Someone on the way is a child of the root.
<1>9. i # 0 => \E k \in A : parent(k) = 0
  <2> SUFFICES ASSUME i # 0 PROVE \E k \in A : parent(k) = 0
    OBVIOUS
  <2>1. A \in SUBSET Nat /\ A # {}
    BY <1>4, <1>5
  <2>2. PICK m : m = Min(A)
    OBVIOUS
  <2>3. m \in A /\ \A j \in A : m <= j
    BY <2>1, <2>2, MinLemma
  <2>4. m \in Nat /\ parent(m) \in Nat /\ parent(m) < m
    BY <1>6, <2>3
  <2>5. ASSUME parent(m) > 0 PROVE FALSE
    <3>1. m <= parent(m)
      BY <1>5, <2>3, <2>5
    <3> QED  BY <2>4, <3>1
  <2> QED  BY <2>3, <2>4, <2>5
<1>10. ASSUME NEW e \in S PROVE \E j \in 0..(n - 1) : b[j].elem = e
  <2>1. PICK k \in 0..(n - 1) : a[k].elem = e
    BY <1>1
  <2>2. CASE k = i
    BY <1>4, <1>7, <2>1, <2>2
  <2>3. CASE k # i /\ k = 0
    BY <1>6, <1>7, <1>9, <2>1, <2>3
  <2>4. CASE k # i /\ k \in A
    <3>1. PICK j \in A : parent(j) = k
      BY <1>5, <2>4
    <3> QED  BY <1>6, <1>7, <2>1, <3>1
  <2>5. CASE k # 0 /\ k \notin A
    BY <1>7, <2>1, <2>5
  <2> QED  BY <2>2, <2>3, <2>4, <2>5
<1>11. b \in [0..(n - 1) -> Entries]
  BY <1>8
<1>12. Holds(b, n, S)
  BY <1>1, <1>2, <1>8, <1>10, <1>11, HoldsAgain
<1>13. ASSUME NEW j \in 1..(n - 1), parent(j) > 0 PROVE KeyLess(b[parent(j)], b[j])
  <2>1. j \in Nat \ {0} /\ j \in 0..(n - 1) /\ parent(j) \in Nat /\ parent(j) < j
    BY <1>1, ParentLemma
  <2>2. PICK p \in 1..(n - 1) : p = parent(j) /\ p < j
    BY <1>1, <1>13, <2>1
  <2>3. p \in 0..(n - 1) /\ p # 0
    BY <2>2
  <2>4. KeyLess(a[p], a[j]) /\ KeyLess(a[parent(p)], a[p])
    BY <2>2 DEF Heaped
  <2>5. CASE p \in A
    <3>1. b[p] = a[parent(p)] /\ parent(p) \in 0..(n - 1)
      BY <1>6, <1>7, <2>5
    <3>2. CASE j \in A
      BY <1>7, <2>2, <2>4, <3>1, <3>2
    <3>3. CASE j \notin A
      <4>1. b[j] = a[j]
        BY <1>7, <2>1, <3>3
      <4> QED  BY <1>1, <2>1, <2>2, <2>3, <2>4, <3>1, <4>1, KeyLemma
    <3> QED  BY <3>2, <3>3
  <2>6. CASE p \notin A
    <3>1. j \notin A
      BY <1>5, <1>13, <2>2, <2>6
    <3> QED  BY <1>7, <2>1, <2>2, <2>3, <2>4, <2>6, <3>1
  <2> QED  BY <2>5, <2>6
<1>14. Nearly(b, n)
  BY <1>13 DEF Nearly
<1> QED  BY <1>7, <1>12, <1>14

-----------------------------------------------------------------------------
(* The operations of the heap. *)

\* h holds the events of S, and its next secondary key is that of the uid u.
IsHeap(h, S, u) ==
    /\ h = [h_elems |-> h.h_elems, h_size |-> h.h_size, h_s_key |-> h.h_s_key]
    /\ Holds(h.h_elems, h.h_size, S) /\ Heaped(h.h_elems, h.h_size)
    /\ u \in Nat \ {0} /\ h.h_s_key = u - 1

\* The heap of a new scheduler is empty.
LEMMA NewHeapLemma == IsHeap(NewHeap, {}, 1)
<1>1. /\ NewHeap.h_elems = <<>> /\ NewHeap.h_size = 0 /\ NewHeap.h_s_key = 0
      /\ NewHeap = [h_elems |-> NewHeap.h_elems, h_size |-> NewHeap.h_size,
                    h_s_key |-> NewHeap.h_s_key]
  BY DEF NewHeap
<1>2. Holds(<<>>, 0, {})
  <2>1. IsFiniteSet({}) /\ Cardinality({}) = 0
    BY FS_EmptySet
  <2>2. Apart({}) /\ {} \subseteq Events
    BY DEF Apart
  <2>3. <<>> \in [0..(0 - 1) -> Entries] /\ 0 \in Nat
    OBVIOUS
  <2>4. \A j \in 0..(0 - 1) : FALSE
    OBVIOUS
  <2> QED  BY <2>1, <2>2, <2>3, <2>4, HoldsAgain
<1>3. Heaped(<<>>, 0)
  BY DEF Heaped
<1>4. 1 \in Nat \ {0} /\ 0 = 1 - 1
  OBVIOUS
<1> QED  BY <1>1, <1>2, <1>3, <1>4 DEF IsHeap

\* The operations in terms of what they do to the array.
LEMMA InsertForm ==
    ASSUME NEW h, NEW e
    PROVE  heap_insert(h, e) =
             [h_elems |-> Risen(h.h_elems, h.h_size,
                                [key |-> e.time, s_key |-> h.h_s_key, elem |-> e]),
              h_size |-> h.h_size + 1,
              h_s_key |-> (h.h_s_key + 1) % KeyModulus]
BY DEF heap_insert, Risen

\* heap_delete in terms of what it does to the array.
LEMMA DeleteForm ==
    ASSUME NEW h, NEW e
    PROVE  heap_delete(h, e) =
             heap_extract_min(
               [h EXCEPT !.h_elems =
                  Raised(h.h_elems, h.h_size,
                         CHOOSE j \in 0..(h.h_size - 1) : h.h_elems[j].elem = e)])
BY DEF heap_delete, Raised

\* heap_insert adds the event, as long as the secondary key does not wrap around.
LEMMA HeapInsertLemma ==
    ASSUME NEW h, NEW S, NEW u, IsHeap(h, S, u), u < KeyModulus,
           NEW e \in Events, e.uid = u, e \notin S, NEW T, T = S \cup {e}, Apart(T),
           NEW d, d = heap_insert(h, e)
    PROVE  IsHeap(d, T, u + 1)
<1>1. PICK a, n, s : a = h.h_elems /\ n = h.h_size /\ s = h.h_s_key
  OBVIOUS
<1>2. Holds(a, n, S) /\ Heaped(a, n) /\ u \in Nat \ {0} /\ s = u - 1
  BY <1>1 DEF IsHeap
<1>3. PICK x : x = [key |-> e.time, s_key |-> s, elem |-> e]
  OBVIOUS
<1>4. x = Entry(e) /\ x \in Entries /\ x.elem = e
  BY <1>2, <1>3 DEF Entry, Entries
<1>8. PICK b : b = Risen(a, n, x)
  OBVIOUS
<1>9. d = [h_elems |-> b, h_size |-> n + 1, h_s_key |-> (s + 1) % KeyModulus]
  BY <1>1, <1>3, <1>8, InsertForm
<1>10. Holds(b, n + 1, T) /\ Heaped(b, n + 1)
  BY <1>2, <1>4, <1>8, RiseLemma
<1>11. (s + 1) % KeyModulus = u
  <2>1. KeyModulus \in Nat \ {0} /\ u \in 0..KeyModulus /\ u # KeyModulus /\ s + 1 = u
    BY <1>2, HeapAssumption
  <2>2. u % KeyModulus = u
    BY <2>1, SmallMod
  <2> QED  BY <2>1, <2>2
<1>12. d.h_elems = b /\ d.h_size = n + 1 /\ d.h_s_key = u
  BY <1>9, <1>11
<1>13. u + 1 \in Nat \ {0} /\ u = (u + 1) - 1
  BY <1>2
<1> QED  BY <1>9, <1>10, <1>11, <1>12, <1>13 DEF IsHeap

\* heap_extract_min of an array that is in order below its root drops the root.
LEMMA ExtractLemma ==
    ASSUME NEW h, NEW a, NEW n, NEW s, h = [h_elems |-> a, h_size |-> n, h_s_key |-> s],
           NEW S, Holds(a, n, S), Nearly(a, n), n > 0,
           NEW u \in Nat \ {0}, s = u - 1, NEW d, d = heap_extract_min(h)
    PROVE  IsHeap(d, S \ {a[0].elem}, u)
<1>1. h.h_elems = a /\ h.h_size = n /\ h.h_s_key = s
  OBVIOUS
<1>2. PICK m : m = n - 1
  OBVIOUS
<1>3. PICK l : l = [j \in 0..(m - 1) |-> a[j]]
  OBVIOUS
<1>4. PICK x : x = a[m]
  OBVIOUS
<1>5. PICK b : b = Sunk(l, m, x)
  OBVIOUS
<1>6. Holds(b, m, S \ {a[0].elem}) /\ Heaped(b, m)
  BY <1>2, <1>3, <1>4, <1>5, SinkLemma
<1>7. d = [h EXCEPT !.h_size = m, !.h_elems = b]
  BY <1>1, <1>2, <1>3, <1>4, <1>5, ExtractForm
<1>8. d = [h_elems |-> b, h_size |-> m, h_s_key |-> s]
  BY <1>7
<1>9. d.h_elems = b /\ d.h_size = m /\ d.h_s_key = s
  BY <1>8
<1> QED  BY <1>6, <1>8, <1>9 DEF IsHeap

\* deque() gives the event that is due first, and takes it out.
LEMMA HeapServeLemma ==
    ASSUME NEW h, NEW S, NEW u, IsHeap(h, S, u), NEW e, FirstOf(S, e),
           NEW d, d = heap_extract_min(h)
    PROVE  heap_min(h) = e /\ IsHeap(d, S \ {e}, u)
<1>1. PICK a, n, s : a = h.h_elems /\ n = h.h_size /\ s = h.h_s_key
  OBVIOUS
<1>2. /\ h = [h_elems |-> a, h_size |-> n, h_s_key |-> s]
      /\ Holds(a, n, S) /\ Heaped(a, n) /\ u \in Nat \ {0} /\ s = u - 1
  BY <1>1 DEF IsHeap
<1>3. n \in Nat /\ S \in SUBSET Events /\ IsFiniteSet(S) /\ Cardinality(S) = n /\ e \in S
  BY <1>2 DEF Holds, FirstOf
<1>4. n > 0
  <2>1. n # 0
    BY <1>3, FS_EmptySet
  <2> QED  BY <1>3, <2>1
<1>5. FirstOf(S, a[0].elem)
  BY <1>2, <1>4, RootLemma
<1>6. a[0].elem = e
  BY <1>3, <1>5, FirstUnique
<1>7. heap_min(h) = e
  BY <1>1, <1>6 DEF heap_min
<1>8. Nearly(a, n)
  BY <1>2 DEF Heaped, Nearly
<1>9. IsHeap(d, S \ {a[0].elem}, u)
  BY <1>2, <1>4, <1>8, ExtractLemma
<1> QED  BY <1>6, <1>7, <1>9

\* heap_delete takes out the event, wherever it is.
LEMMA HeapDeleteLemma ==
    ASSUME NEW h, NEW S, NEW u, IsHeap(h, S, u), NEW e \in S, NEW d, d = heap_delete(h, e)
    PROVE  IsHeap(d, S \ {e}, u)
<1>1. PICK a, n, s : a = h.h_elems /\ n = h.h_size /\ s = h.h_s_key
  OBVIOUS
<1>2. /\ h = [h_elems |-> a, h_size |-> n, h_s_key |-> s]
      /\ Holds(a, n, S) /\ Heaped(a, n) /\ u \in Nat \ {0} /\ s = u - 1
  BY <1>1 DEF IsHeap
<1>3. n \in Nat /\ \E j \in 0..(n - 1) : a[j].elem = e
  BY <1>2, HoldsLemma
<1>4. PICK i : i = CHOOSE j \in 0..(n - 1) : a[j].elem = e
  OBVIOUS
<1>5. i \in 0..(n - 1) /\ a[i].elem = e
  BY <1>3, <1>4
<1>6. n > 0
  BY <1>3, <1>5
<1>7. PICK b : b = Raised(a, n, i)
  OBVIOUS
<1>8. Holds(b, n, S) /\ Nearly(b, n) /\ b[0] = a[i]
  BY <1>2, <1>5, <1>7, RaiseLemma
<1>9. PICK g : g = [h EXCEPT !.h_elems = b]
  OBVIOUS
<1>10. d = heap_extract_min(g)
  BY <1>1, <1>4, <1>7, <1>9, DeleteForm
<1>11. g = [h_elems |-> b, h_size |-> n, h_s_key |-> s]
  BY <1>2, <1>9
<1>12. IsHeap(d, S \ {b[0].elem}, u)
  BY <1>2, <1>6, <1>8, <1>10, <1>11, ExtractLemma
<1> QED  BY <1>5, <1>8, <1>12

\* lookup finds the events of S.
LEMMA HeapEventsLemma ==
    ASSUME NEW h, NEW S, NEW u, IsHeap(h, S, u)
    PROVE  HeapEvents(h) = S
BY DEF IsHeap, Holds, HeapEvents

-----------------------------------------------------------------------------
(* The heap of the simulator. *)

HeapInv == IsHeap(heap, Queued(cal), uid_)

\* Fewer events have been scheduled than there are secondary keys.
KeysLast == uid_ <= KeyModulus

\* A list in the order of service has no two events in the same place.
LEMMA ApartLemma ==
    ASSUME NEW c, NEW q, NEW u, Agree(c, q, u)
    PROVE  Apart(Queued(c))
<1>1. q \in Seq(Events) /\ InOrder(q) /\ ToSet(q) = Queued(c)
  BY DEF Agree
<1>2. Len(q) \in Nat /\ DOMAIN q = 1..Len(q)
  BY <1>1, LenProperties
<1>3. ASSUME NEW e \in Queued(c), NEW f \in Queued(c)
      PROVE  e = f \/ Earlier(e, f) \/ Earlier(f, e)
  <2>1. PICK j \in 1..Len(q), k \in 1..Len(q) : e = q[j] /\ f = q[k]
    BY <1>1, <1>2 DEF ToSet
  <2>2. j = k \/ j < k \/ k < j
    BY <1>2
  <2>3. /\ j < k => Earlier(q[j], q[k])
        /\ k < j => Earlier(q[k], q[j])
    BY <1>1 DEF InOrder
  <2> QED  BY <2>1, <2>2, <2>3
<1> QED  BY <1>3 DEF Apart

\* The heap after the first insertions of the script.
LEMMA StartHeapLemma ==
    ASSUME NEW es \in Seq(Events), \A k \in 1..Len(es) : es[k].uid = k,
           Len(es) < KeyModulus, NEW d, d = Start(NewQueues, es), Apart(ToSet(es))
    PROVE  IsHeap(d.heap, ToSet(es), Len(es) + 1)
<1>1. PICK n \in Nat : n = Len(es) /\ DOMAIN es = 1..n
  BY LenProperties
<1>2. PICK g : /\ g[0] = NewQueues
               /\ \A i \in 0..(n - 1) : g[i + 1] = Scheduled(g[i], es[i + 1])
               /\ d = g[n]
  <2>1. \E g : /\ g[0] = NewQueues
               /\ \A i \in 0..(n - 1) : g[i + 1] = Scheduled(g[i], es[i + 1])
               /\ Start(NewQueues, es) = g[n]
    BY <1>1, StartRun
  <2> QED  BY <2>1
<1> DEFINE Upto(i) == {es[k] : k \in 1..i}
           S == {i \in 0..n : IsHeap(g[i].heap, Upto(i), i + 1)}
<1>3. 0 \in S
  <2>1. g[0].heap = NewHeap
    BY <1>2 DEF NewQueues
  <2>2. Upto(0) = {} /\ 0 + 1 = 1
    OBVIOUS
  <2>3. IsHeap(g[0].heap, Upto(0), 0 + 1)
    BY <2>1, <2>2, NewHeapLemma
  <2> QED  BY <2>3
<1>4. ASSUME NEW i \in 0..(n - 1), i \in S PROVE i + 1 \in S
  <2>1. i + 1 \in 1..n /\ i + 1 \in 0..n /\ i + 1 < KeyModulus + 1
    BY <1>1, HeapAssumption
  <2>2. PICK a, b, e : a = g[i] /\ b = g[i + 1] /\ e = es[i + 1]
    OBVIOUS
  <2>3. PICK x, y, u : x = a.heap /\ y = heap_insert(x, e) /\ u = i + 1
    OBVIOUS
  <2>4. b.heap = y
    <3>1. b = Scheduled(a, e)
      BY <1>2, <2>2
    <3>2. b = [cal |-> insert(a.cal, e), heap |-> y, list |-> list_insert(a.list, e)]
      BY <2>2, <2>3, <3>1 DEF Scheduled
    <3> QED  BY <3>2
  <2>5. e \in Events /\ e.uid = u
    BY <1>1, <2>1, <2>2, <2>3, ElementOfSeq
  <2>6. PICK P, T : P = Upto(i) /\ T = Upto(i + 1)
    OBVIOUS
  <2>7. IsHeap(x, P, u)
    BY <1>4, <2>2, <2>3, <2>6
  <2>8. T = P \cup {e}
    <3>1. \A k \in 1..(i + 1) : k \in 1..i \/ k = i + 1
      OBVIOUS
    <3>2. \A k \in 1..i : k \in 1..(i + 1)
      OBVIOUS
    <3>3. i + 1 \in 1..(i + 1)
      OBVIOUS
    <3> QED  BY <2>2, <2>6, <3>1, <3>2, <3>3
  <2>9. e \notin P
    <3>1. \A k \in 1..i : es[k].uid = k /\ k # u
      BY <1>1, <2>3
    <3> QED  BY <2>5, <2>6, <3>1
  <2>10. Apart(T)
    <3>1. \A k \in 1..(i + 1) : k \in DOMAIN es
      BY <1>1
    <3>2. T \subseteq ToSet(es)
      BY <2>6, <3>1 DEF ToSet
    <3> QED  BY <3>2 DEF Apart
  <2>11. u < KeyModulus
    BY <1>1, <2>1, <2>3, HeapAssumption
  <2>12. IsHeap(y, T, u + 1)
    <3> HIDE DEF Upto
    <3> QED  BY ONLY <2>3, <2>5, <2>7, <2>8, <2>9, <2>10, <2>11, HeapInsertLemma
  <2> HIDE DEF Upto
  <2> QED  BY <2>1, <2>2, <2>3, <2>4, <2>6, <2>12
<1>5. n \in S
  <2> HIDE DEF S
  <2>1. \A i \in 0..n : i \in S
    BY <1>3, <1>4, BoundedInduction
  <2>2. n \in 0..n
    OBVIOUS
  <2> QED  BY <2>1, <2>2
<1>6. Upto(n) = ToSet(es)
  BY <1>1 DEF ToSet
<1> HIDE DEF Upto
<1> QED  BY <1>1, <1>2, <1>5, <1>6

\* Init leaves a heap of the events of the script.
LEMMA InitHeapLemma ==
    ASSUME Init, KeysLast
    PROVE  HeapInv
<1>1. PICK A \in Agents, script \in Scripts :
         LET es == Started(A, script.times)
             queues == FoldLeft(Scheduled, NewQueues, es)
         IN  uid_ = Len(es) + 1 /\ cal = queues.cal /\ heap = queues.heap /\ queue_ = queues.list
  BY DEF Init
<1>2. PICK times : times = script.times
  OBVIOUS
<1>3. times \in Seq(Nat)
  BY <1>2, SimulatorAssumption
<1>4. PICK es : es = Started(A, times)
  OBVIOUS
<1>5. PICK d : d = Start(NewQueues, es)
  OBVIOUS
<1>6. uid_ = Len(es) + 1 /\ cal = d.cal /\ queue_ = d.list /\ heap = d.heap
  BY <1>1, <1>2, <1>4, <1>5 DEF Start
<1>7. es \in Seq(Events) /\ \A k \in 1..Len(es) : es[k].uid = k
  BY <1>3, <1>4, StartedLemma
<1>8. Agree(d.cal, d.list, Len(es) + 1) /\ Queued(d.cal) = ToSet(es)
  BY <1>5, <1>7, StartLemma
<1>9. PICK c, q, u : c = d.cal /\ q = d.list /\ u = Len(es) + 1
  OBVIOUS
<1>10. Apart(ToSet(es))
  <2>1. Agree(c, q, u) /\ Queued(c) = ToSet(es)
    BY <1>8, <1>9
  <2>2. Apart(Queued(c))
    BY <2>1, ApartLemma
  <2> QED  BY <2>1, <2>2
<1>11. Len(es) < KeyModulus
  <2>1. Len(es) \in Nat
    BY <1>7, LenProperties
  <2> QED  BY <1>6, <2>1, HeapAssumption DEF KeysLast
<1>12. IsHeap(d.heap, ToSet(es), Len(es) + 1)
  BY <1>5, <1>7, <1>10, <1>11, StartHeapLemma
<1> QED  BY <1>6, <1>8, <1>12 DEF HeapInv

\* The heap gets the same calls as the calendar and keeps the same events.
LEMMA HeapStep ==
    ASSUME SimInv, SimInv', KeysLast', HeapInv, QueueStep
    PROVE  HeapInv' /\ [HeapQueue!ENext]_(HeapQueue!evars)
<1>1. PICK S, T, u, v : S = Queued(cal) /\ T = Queued(cal') /\ u = uid_ /\ v = uid_'
  OBVIOUS
<1>2. /\ S \subseteq Events /\ T \subseteq Events /\ u \in Nat \ {0} /\ v \in Nat \ {0}
      /\ \A e \in S : e.uid # u
      /\ Apart(S) /\ Apart(T)
  <2>1. Agree(cal, queue_, uid_) /\ Agree(cal', queue_', uid_')
    BY DEF SimInv
  <2>2. /\ Queued(cal) \subseteq Events /\ uid_ \in Nat \ {0} /\ \A e \in Queued(cal) : e.uid # uid_
        /\ Apart(Queued(cal))
    BY <2>1, AgreeFacts, ApartLemma
  <2>3. Queued(cal') \subseteq Events /\ uid_' \in Nat \ {0} /\ Apart(Queued(cal'))
    BY <2>1, AgreeFacts, ApartLemma
  <2> QED  BY <1>1, <2>2, <2>3
<1>3. IsHeap(heap, S, u) /\ v <= KeyModulus /\ KeyModulus \in Nat
  BY <1>1, HeapAssumption DEF HeapInv, KeysLast
<1>4. HeapEvents(heap) = S
  BY <1>3, HeapEventsLemma
<1>5. IsHeap(heap', T, v) => HeapInv' /\ HeapEvents(heap') = T
  <2>1. HeapInv' <=> IsHeap(heap', T, v)
    BY <1>1 DEF HeapInv
  <2> QED  BY <2>1, HeapEventsLemma
<1>6. CASE Stays
  <2>1. IsHeap(heap', T, v)
    BY <1>1, <1>3, <1>6 DEF Stays
  <2> QED  BY <1>1, <1>4, <1>5, <1>6, <2>1 DEF Stays, HeapQueue!evars
<1>7. CASE Adds
  <2>1. PICK e \in T : /\ e.uid = u /\ T = S \cup {e} /\ heap' = heap_insert(heap, e)
                       /\ v = u + 1 /\ out' = out
    BY <1>1, <1>7 DEF Adds
  <2>2. u < KeyModulus /\ e \in Events /\ e \notin S
    BY <1>2, <1>3, <2>1
  <2>3. IsHeap(heap', T, v)
    BY <1>2, <1>3, <2>1, <2>2, HeapInsertLemma
  <2>4. HeapQueue!Schedule
    BY <1>1, <1>4, <1>5, <2>1, <2>3 DEF HeapQueue!Schedule
  <2> QED  BY <1>5, <2>3, <2>4 DEF HeapQueue!ENext
<1>8. CASE Removes
  <2>1. PICK e \in S : T = S \ {e} /\ heap' = heap_delete(heap, e) /\ v = u /\ out' = out
    BY <1>1, <1>8 DEF Removes
  <2>2. IsHeap(heap', T, v)
    BY <1>3, <2>1, HeapDeleteLemma
  <2>3. HeapQueue!Withdraw
    BY <1>1, <1>4, <1>5, <2>1, <2>2 DEF HeapQueue!Withdraw
  <2> QED  BY <1>5, <2>2, <2>3 DEF HeapQueue!ENext
<1>9. CASE Moves
  <2>1. PICK e \in S, f \in T : /\ f.uid = u /\ f.owner = e.owner /\ T = (S \ {e}) \cup {f}
                                /\ heap' = heap_insert(heap_delete(heap, e), f)
                                /\ v = u + 1 /\ out' = out
    BY <1>1, <1>9 DEF Moves
  <2>2. u < KeyModulus /\ f \in Events /\ f \notin S
    BY <1>2, <1>3, <2>1
  <2>3. PICK h, R : h = heap_delete(heap, e) /\ R = S \ {e}
    OBVIOUS
  <2>4. IsHeap(h, R, u)
    BY <1>3, <2>1, <2>3, HeapDeleteLemma
  <2>5. f \notin R /\ T = R \cup {f} /\ heap' = heap_insert(h, f)
    BY <2>1, <2>2, <2>3
  <2>6. IsHeap(heap', T, v)
    BY <1>2, <2>1, <2>2, <2>4, <2>5, HeapInsertLemma
  <2>7. HeapQueue!Postpone
    BY <1>1, <1>4, <1>5, <2>1, <2>6 DEF HeapQueue!Postpone
  <2> QED  BY <1>5, <2>6, <2>7 DEF HeapQueue!ENext
<1>10. CASE Serves
  <2>1. PICK e \in S : /\ FirstOf(S, e) /\ T = S \ {e} /\ heap' = heap_extract_min(heap)
                       /\ v = u /\ out'.heap = heap_min(heap)
    BY <1>1, <1>10 DEF Serves
  <2>2. heap_min(heap) = e /\ IsHeap(heap', T, v)
    BY <1>3, <2>1, HeapServeLemma
  <2>3. HeapQueue!Serve
    BY <1>1, <1>4, <1>5, <2>1, <2>2 DEF FirstOf, Earlier, HeapQueue!Serve, HeapQueue!Before
  <2> QED  BY <1>5, <2>2, <2>3 DEF HeapQueue!ENext
<1> QED  BY <1>6, <1>7, <1>8, <1>9, <1>10 DEF QueueStep

\* HeapScheduler implements the abstract queue of events while its secondary key
\* has not wrapped around: heap_insert, heap_delete from the middle and
\* heap_extract_min keep the events, and deque serves the earliest one, first in
\* first out for equal times.
THEOREM HeapRefinement == Spec /\ []KeysLast => HeapImplements
<1>1. Init /\ KeysLast => HeapInv /\ HeapQueue!EInit
  <2> SUFFICES ASSUME Init, KeysLast PROVE HeapInv /\ HeapQueue!EInit
    OBVIOUS
  <2>1. Agree(cal, queue_, uid_) /\ out = [cal |-> NoEvent, heap |-> NoEvent, list |-> NoEvent]
    BY InitLemma DEF SimInv
  <2>2. out.heap = NoEvent
    BY <2>1
  <2>3. HeapInv
    BY InitHeapLemma
  <2>4. HeapEvents(heap) = Queued(cal)
    BY <2>3, HeapEventsLemma DEF HeapInv
  <2> QED  BY <2>1, <2>2, <2>3, <2>4 DEF Agree, HeapQueue!EInit
<1>2. SimInv /\ SimInv' /\ KeysLast' /\ HeapInv /\ [Next]_vars
         => HeapInv' /\ [HeapQueue!ENext]_(HeapQueue!evars)
  BY NextLemma, StutterLemma, HeapStep
<1> QED  BY <1>1, <1>2, SimulatorInvariant, PTL DEF Spec, HeapImplements, HeapQueue!ESpec
=============================================================================
