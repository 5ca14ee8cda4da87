------------------------- MODULE CalendarScheduler -------------------------
(***************************************************************************)
(* CalendarScheduler, the default scheduler of ns-2: events are hashed by  *)
(* their time into the buckets of a "year"; each bucket is a list sorted   *)
(* by time.  The queue doubles or halves its buckets when the number of    *)
(* distinct times in it passes a threshold, and then chooses another       *)
(* width.  A scheduler is a record; the operations are operators on it.    *)
(*                                                                         *)
(* Times are natural numbers of ticks.  A width is a ratio <<num, den>> of *)
(* ticks, so that the divisions of the code are exact; the rounding of its *)
(* doubles is left out.  So are the counters of searches, which decide     *)
(* whether enough rounds of dequeues are followed by a change of width,    *)
(* and by how much: deque takes that decision as a parameter.              *)
(***************************************************************************)
EXTENDS Integers, Sequences, FiniteSets, SequencesExt

CONSTANTS
    TicksPerSecond,     \* ticks in a width of 1.0
    Adjust,             \* adjust_new_width_interval_ is not 0
    MinRounds           \* 20: rounds of dequeues before the width may change

ASSUME CalendarAssumption ==
    /\ TicksPerSecond \in Nat \ {0}
    /\ Adjust \in BOOLEAN
    /\ MinRounds \in Nat

\* The decision of deque not to change the width.
KeepWidth == <<0, 1>>

Times2(w, f) == <<w[1] * f[1], w[2] * f[2]>>
Positive(w) == w[1] > 0

\* CALENDAR_HASH
Hash(c, t) == ((t * c.width_[2]) \div c.width_[1]) % c.nbuckets_

EmptyBucket == [list_ |-> <<>>, count_ |-> 0]

reinit(c, nbuck, bwidth, start) ==
    LET d == [c EXCEPT !.buckets_ = [i \in 0..(nbuck - 1) |-> EmptyBucket],
                       !.width_ = bwidth, !.nbuckets_ = nbuck,
                       !.qsize_ = 0, !.stat_qsize_ = 0]
    IN  [d EXCEPT !.lastbucket_ = Hash(d, start)]

Blank == [buckets_ |-> <<>>, width_ |-> <<1, 1>>, nbuckets_ |-> 1,
          lastbucket_ |-> 0, qsize_ |-> 0, stat_qsize_ |-> 0,
          cal_clock_ |-> 0, gap_num_ |-> 0, last_time_ |-> -2,
          avg_gap_ |-> <<-2, 1>>, round_num_ |-> 0]

\* Faulty variant: two buckets to start with.
NewCalendar_two == reinit(Blank, 2, <<TicksPerSecond, 1>>, 0)

\* The constructor.
NewCalendar == reinit(Blank, 4, <<TicksPerSecond, 1>>, 0)

top_threshold_(c) == 2 * c.nbuckets_
bot_threshold_(c) == (c.nbuckets_ \div 2) - 2

\* Put e after the first pos events of bucket i; unique says that no event
\* of the bucket has its time.
Place(c, i, pos, e, unique) ==
    LET more == IF unique THEN 1 ELSE 0
    IN  [c EXCEPT !.buckets_[i] = [list_ |-> InsertAt(@.list_, pos + 1, e),
                                   count_ |-> @.count_ + more],
                  !.stat_qsize_ = @ + more,
                  !.qsize_ = @ + 1]

\* Before the events of the same time: used to refill the buckets backwards.
insert2(c, e) ==
    LET i == Hash(c, e.time)
        l == c.buckets_[i].list_
        later == {k \in DOMAIN l : l[k].time >= e.time}
        pos == IF later = {} THEN Len(l) ELSE Min(later) - 1
    IN  Place(c, i, pos, e, pos = Len(l) \/ l[pos + 1].time # e.time)

\* The fullest bucket, the first one of several.
FullestBucket(c) ==
    CHOOSE i \in DOMAIN c.buckets_ : \A j \in DOMAIN c.buckets_ :
        \/ c.buckets_[j].count_ < c.buckets_[i].count_
        \/ c.buckets_[j].count_ = c.buckets_[i].count_ /\ i <= j

newwidth(c, newsize) ==
    LET b == c.buckets_[FullestBucket(c)]
    IN  IF Adjust /\ Positive(c.avg_gap_) THEN Times2(c.avg_gap_, <<4, 1>>)
        ELSE IF b.count_ <= 4 THEN c.width_
        ELSE <<4 * (Last(b.list_).time - Head(b.list_).time),
               Min({newsize, b.count_})>>

\* The events in the order in which resize moves them: bucket after bucket,
\* each from its tail.
Backwards(c) ==
    FlattenSeq([k \in 1..c.nbuckets_ |-> Reverse(c.buckets_[k - 1].list_)])

\* resize, once the width is chosen.
Rebuild(c, newsize, bwidth) ==
    FoldLeft(insert2, reinit([c EXCEPT !.round_num_ = 0], newsize, bwidth, c.cal_clock_),
             Backwards(c))

\* resize for size.
resize(c, newsize) ==
    Rebuild(c, Max({newsize, 4}), newwidth(c, newsize))

\* After the events of the same time.
insert(c, e) ==
    LET d == IF c.cal_clock_ > e.time
             THEN [c EXCEPT !.cal_clock_ = e.time, !.lastbucket_ = Hash(c, e.time)]
             ELSE c
        i == Hash(c, e.time)
        l == c.buckets_[i].list_
        pos == IF l = <<>> \/ e.time < l[1].time THEN 0
               ELSE Max({k \in DOMAIN l : l[k].time <= e.time})
        f == Place(d, i, pos, e, pos = 0 \/ l[pos].time < e.time)
    IN  IF f.stat_qsize_ > top_threshold_(f) THEN resize(f, 2 * f.nbuckets_) ELSE f

\* The tests of CAL_DEQUEUE: is a time that is diff ahead of cal_clock_, in
\* the k-th bucket from lastbucket_, of this year?  (diff0_, diff1_, diff2_)
InYear(c, k, diff) ==
    CASE k = 0 -> 2 * diff * c.width_[2] < c.width_[1] * c.nbuckets_
      [] k = 1 -> 2 * diff * c.width_[2] < c.width_[1] * (c.nbuckets_ + 2)
      [] OTHER -> diff * c.width_[2] < c.width_[1] * c.nbuckets_

\* Faulty variant: without an event of this year, the first bucket that is not empty.
FoundBucket_first(c) ==
    LET Bucket(k) == (c.lastbucket_ + k) % c.nbuckets_
        HeadTime(k) == c.buckets_[Bucket(k)].list_[1].time
        Full == {k \in 0..(c.nbuckets_ - 1) : c.buckets_[Bucket(k)].list_ # <<>>}
        Found == {k \in Full : InYear(c, k, HeadTime(k) - c.cal_clock_)}
    IN  Bucket(Min(IF Found # {} THEN Found ELSE Full))

\* The bucket head() finds: the first one from lastbucket_ on whose head is
\* of this year, the last bucket excepted, and without one the bucket with
\* the earliest head.
FoundBucket(c) ==
    LET Bucket(k) == (c.lastbucket_ + k) % c.nbuckets_
        HeadTime(k) == c.buckets_[Bucket(k)].list_[1].time
        Full == {k \in 0..(c.nbuckets_ - 1) : c.buckets_[Bucket(k)].list_ # <<>>}
        Found == {k \in Full \ {c.nbuckets_ - 1} :
                    InYear(c, k, HeadTime(k) - c.cal_clock_)}
    IN  IF Found # {} THEN Bucket(Min(Found))
        ELSE Bucket(CHOOSE k \in Full :
                        \A m \in Full : HeadTime(k) <= HeadTime(m))

\* head(), for its effect: the search starts there the next time.
head(c) ==
    IF c.qsize_ = 0 THEN c
    ELSE LET l == FoundBucket(c)
         IN  [c EXCEPT !.lastbucket_ = l,
                       !.cal_clock_ = c.buckets_[l].list_[1].time]

\* ... and for its result, after that effect.
HeadEvent(c) == c.buckets_[c.lastbucket_].list_[1]

\* The average gap of the last qsize_ dequeues, and after it perhaps another
\* width: width_ times factor.
AdjustWidth(c, e, factor) ==
    LET n == c.gap_num_ + 1
        d == [c EXCEPT !.avg_gap_ = <<e.time - c.last_time_, n>>,
                       !.gap_num_ = 0, !.last_time_ = e.time, !.round_num_ = @ + 1]
    IN  CASE ~Adjust -> c
          [] Adjust /\ c.last_time_ < 0 -> [c EXCEPT !.last_time_ = e.time]
          [] Adjust /\ c.last_time_ >= 0 /\ n < c.qsize_ -> [c EXCEPT !.gap_num_ = n]
          [] OTHER -> IF factor = KeepWidth \/ d.round_num_ <= MinRounds THEN d
                      ELSE Rebuild(d, d.nbuckets_, Times2(d.width_, factor))

\* Take the k-th event of bucket i; alone says that it was the only one of
\* its time.
Unlink(c, i, k, alone) ==
    LET less == IF alone THEN 1 ELSE 0
    IN  [c EXCEPT !.buckets_[i] = [list_ |-> RemoveAt(@.list_, k),
                                   count_ |-> @.count_ - less],
                  !.stat_qsize_ = @ - less,
                  !.qsize_ = @ - 1]

\* deque() of a queue that is not empty: the event and what is left.
deque(c, factor) ==
    LET e == HeadEvent(head(c))
        d == AdjustWidth(head(c), e, factor)
        l == d.buckets_[d.lastbucket_].list_
        f == Unlink(d, d.lastbucket_, 1, Len(l) = 1 \/ l[2].time # e.time)
    IN  [event |-> e,
         left |-> IF f.stat_qsize_ < bot_threshold_(f)
                  THEN resize(f, f.nbuckets_ \div 2) ELSE f]

\* Faulty variant: only the next event is looked at, as in deque.
cancel_next(c, e) ==
    LET i == Hash(c, e.time)
        l == c.buckets_[i].list_
        k == CHOOSE j \in DOMAIN l : l[j] = e
    IN  Unlink(c, i, k, Len(l) = 1 \/ l[(k % Len(l)) + 1].time # e.time)

\* cancel(e) of an event in the queue; its neighbors are those of a ring.
cancel(c, e) ==
    LET i == Hash(c, e.time)
        l == c.buckets_[i].list_
        k == CHOOSE j \in DOMAIN l : l[j] = e
        next == l[(k % Len(l)) + 1]
        prev == IF k = 1 THEN Last(l) ELSE l[k - 1]
    IN  Unlink(c, i, k, Len(l) = 1 \/ (next.time # e.time /\ prev.time # e.time))

\* The events in the queue, as lookup(uid) walks them.
Queued(c) == UNION {ToSet(c.buckets_[i].list_) : i \in DOMAIN c.buckets_}
=============================================================================
