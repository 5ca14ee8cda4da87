----------------------------- MODULE EventQueue -----------------------------
(***************************************************************************)
(* What every ns-2 Scheduler promises, without saying how it keeps its     *)
(* events: an event stays pending until it is cancelled or served, and the *)
(* one that is served is the earliest, the one scheduled first if several  *)
(* are due at the same time.                                               *)
(***************************************************************************)
EXTENDS Integers

CONSTANT NoEvent

VARIABLES
    pending,     \* the events [time, uid, owner] that are scheduled and neither
                 \* cancelled nor served
    nextUid,     \* the number the next event will get
    out          \* the event served last

evars == <<pending, nextUid, out>>

EInit ==
    /\ \A e \in pending : e.uid < nextUid
    /\ out = NoEvent

\* a is served before b.
Before(a, b) == a.time < b.time \/ (a.time = b.time /\ a.uid < b.uid)

Schedule ==
    \E e \in pending' :
        /\ e.uid = nextUid
        /\ pending' = pending \cup {e}
        /\ nextUid' = nextUid + 1
        /\ UNCHANGED out

Withdraw ==
    \E e \in pending :
        /\ pending' = pending \ {e}
        /\ UNCHANGED <<nextUid, out>>

\* An event is moved to another time; it counts as scheduled now.
Postpone ==
    \E e \in pending, f \in pending' :
        /\ f.uid = nextUid /\ f.owner = e.owner
        /\ pending' = (pending \ {e}) \cup {f}
        /\ nextUid' = nextUid + 1
        /\ UNCHANGED out

Serve ==
    \E e \in pending :
        /\ \A f \in pending \ {e} : Before(e, f)
        /\ pending' = pending \ {e}
        /\ out' = e
        /\ UNCHANGED nextUid

ENext == Schedule \/ Withdraw \/ Postpone \/ Serve

ESpec == EInit /\ [][ENext]_evars
=============================================================================
