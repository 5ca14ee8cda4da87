--------------------------- MODULE ListScheduler ---------------------------
(***************************************************************************)
(* ListScheduler: the events in a list, each before the first later one.   *)
(* Taking the first one is Head and Tail.                                  *)
(***************************************************************************)
EXTENDS Integers, Sequences, SequencesExt

\* Faulty variant: before the events of the same time.
list_insert_before(q, e) ==
    LET later == {k \in DOMAIN q : e.time <= q[k].time}
    IN  InsertAt(q, IF later = {} THEN Len(q) + 1 ELSE Min(later), e)

list_insert(q, e) ==
    LET later == {k \in DOMAIN q : e.time < q[k].time}
    IN  InsertAt(q, IF later = {} THEN Len(q) + 1 ELSE Min(later), e)

list_cancel(q, e) == RemoveAt(q, CHOOSE k \in DOMAIN q : q[k] = e)
=============================================================================
