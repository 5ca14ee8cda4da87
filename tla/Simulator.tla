----------------------------- MODULE Simulator -----------------------------
(***************************************************************************)
(* The event loop of ns-2 with the timers of a DTN agent on it: Scheduler  *)
(* (schedule, run, dispatch), RealTimeScheduler, TimerHandler, and the     *)
(* handlers through which the agent's timers call back.                    *)
(*                                                                         *)
(* A simulation has one of the schedulers; here the calendar decides what  *)
(* is dispatched, and the heap and the list get the same calls, so that    *)
(* one behaviour shows what each of them would have done.                  *)
(*                                                                         *)
(* An event belongs to a timer, whose event_ is a member of it, or to      *)
(* Packet: a packet or a command of the script, with an Event of its own.  *)
(* A handler is the sequence of calls it makes, one step each.             *)
(***************************************************************************)
EXTENDS CalendarScheduler, HeapScheduler, ListScheduler

CONSTANTS
    Periodic,         \* the agent's own timers, of {"Hello", "Neighbor", "Clean", "Trace"}
    Agents,           \* which of them may have been created before the run
    Blocks,           \* memory for the timers of blocks (ResendListTimer)
    Interval,         \* Interval[t]: the delays t may be given
    PacketDelays,     \* the delays of the other events
    InfiniteTtl,      \* infinite_ttl is not 0
    TraceUntil,       \* 7200, the time at which the trace stops
    Factors,          \* what a change of width may multiply width_ by
    Scripts,          \* what is scheduled before the run: [times, realtime]
    Waits,            \* how long a real-time run may wait
    MaxUid,           \* MaxUid[realtime], bound: events scheduled
    MaxCommands,      \* bound: packets and commands that do something
    MaxTime           \* bound: time of day of a real-time run

Packet == "Packet"
Timers == Periodic \cup Blocks
Owners == Timers \cup {Packet}
Idle == "Idle"

ASSUME SimulatorAssumption ==
    /\ Periodic \subseteq {"Hello", "Neighbor", "Clean", "Trace"}
    /\ Agents \subseteq SUBSET Periodic
    /\ {Packet, Idle} \cap Timers = {}
    /\ Blocks \cap {"Hello", "Neighbor", "Clean", "Trace"} = {}
    /\ Interval \in [Timers -> (SUBSET Nat) \ {{}}]
    /\ PacketDelays \subseteq Nat /\ Waits \subseteq Nat
    /\ InfiniteTtl \in BOOLEAN
    /\ MaxUid \in [BOOLEAN -> Nat]
    /\ {TraceUntil, MaxCommands, MaxTime} \subseteq Nat
    /\ \A f \in Factors : f[1] \in Nat \ {0} /\ f[2] \in Nat \ {0}
    /\ \A s \in Scripts : s.times \in Seq(Nat) /\ s.realtime \in BOOLEAN

VARIABLES
    clock_, uid_, halted_,
    realtime,         \* a RealTimeScheduler runs
    cal, heap, queue_,
    out,              \* what each scheduler gave when it was asked last
    status_, event_,  \* of each timer; event_.uid is negative out of the queue
    live,             \* the timers that exist
    running,          \* whose handler runs, Idle in the loop of run()
    calls,            \* the calls it still makes
    commands,         \* packets and commands so far that did something
    fault             \* "abort", or "freed": a call on a deleted timer

clockVars == <<clock_, halted_, realtime>>
queueVars == <<cal, heap, queue_, uid_>>
timerVars == <<status_, event_, live>>
vars == <<clock_, uid_, halted_, realtime, cal, heap, queue_, out, status_,
          event_, live, running, calls, commands, fault>>

NoEvent == [time |-> 0, uid |-> 0, owner |-> Packet]

-----------------------------------------------------------------------------
\* The queues.

Event(t, u, o) == [time |-> t, uid |-> u, owner |-> o]

\* Scheduler::schedule, for the queues.
Enqueue(t, o) ==
    LET e == Event(t, uid_, o)
    IN  /\ cal' = insert(cal, e)
        /\ heap' = heap_insert(heap, e)
        /\ queue_' = list_insert(queue_, e)
        /\ uid_' = uid_ + 1

\* Scheduler::cancel, for the queues.
Dequeue(e) ==
    /\ cal' = cancel(cal, e)
    /\ heap' = heap_delete(heap, e)
    /\ queue_' = list_cancel(queue_, e)
    /\ UNCHANGED uid_

\* A cancel and the schedule after it.
Move(e, t) ==
    LET f == Event(t, uid_, e.owner)
    IN  /\ cal' = insert(cancel(cal, e), f)
        /\ heap' = heap_insert(heap_delete(heap, e), f)
        /\ queue_' = list_insert(list_cancel(queue_, e), f)
        /\ uid_' = uid_ + 1

InQueue(e) == e.uid > 0
OutOfQueue(e) == [e EXCEPT !.uid = -@]

-----------------------------------------------------------------------------
\* TimerHandler.

Abort ==
    /\ fault' = "abort"
    /\ UNCHANGED <<queueVars, timerVars>>

\* Faulty variant: resched does not cancel the event that is pending.
Resched_uncancelled(t, d) ==
    IF InQueue(event_[t]) THEN Abort
    ELSE /\ Enqueue(clock_ + d, t)
         /\ event_' = [event_ EXCEPT ![t] = Event(clock_ + d, uid_, t)]
         /\ status_' = [status_ EXCEPT ![t] = "PENDING"]
         /\ UNCHANGED <<live, fault>>

\* resched(delay)
Resched(t, d) ==
    IF status_[t] # "PENDING" /\ InQueue(event_[t]) THEN Abort
    ELSE /\ IF InQueue(event_[t]) THEN Move(event_[t], clock_ + d)
            ELSE Enqueue(clock_ + d, t)
         /\ event_' = [event_ EXCEPT ![t] = Event(clock_ + d, uid_, t)]
         /\ status_' = [status_ EXCEPT ![t] = "PENDING"]
         /\ UNCHANGED <<live, fault>>

\* new ListWaitingAck(new ResendListTimer): the memory of a deleted timer may
\* be used again.
NewBlock(b, d) ==
    /\ Enqueue(clock_ + d, b)
    /\ event_' = [event_ EXCEPT ![b] = Event(clock_ + d, uid_, b)]
    /\ status_' = [status_ EXCEPT ![b] = "PENDING"]
    /\ live' = live \cup {b}
    /\ UNCHANGED fault

\* delete of a ListWaitingAck, and in it of its timer, cancelled if pending.
DeleteBlock(b) ==
    /\ IF status_[b] = "PENDING"
       THEN /\ Dequeue(event_[b])
            /\ event_' = [event_ EXCEPT ![b] = OutOfQueue(@)]
            /\ status_' = [status_ EXCEPT ![b] = "IDLE"]
       ELSE UNCHANGED <<queueVars, event_, status_>>
    /\ live' = live \ {b}
    /\ UNCHANGED fault

-----------------------------------------------------------------------------
\* The calls of the handlers.

Re(t) == [op |-> "resched", timer |-> t]
New(b) == [op |-> "new", timer |-> b]
Delete(b) == [op |-> "delete", timer |-> b]
Send == [op |-> "send"]
Cancel == [op |-> "cancel"]
Halt == [op |-> "halt"]

\* check_neighbors() of an agent whose neighbors are watched.
CheckNeighbors == IF "Neighbor" \in live THEN <<Re("Neighbor")>> ELSE <<>>

\* make_clean()
MakeClean == IF InfiniteTtl \/ "Clean" \notin live THEN <<>> ELSE <<Re("Clean")>>

\* What the handlers of the agent's timers may do.
ExpireCalls(t) ==
    CASE t = "Hello" -> {<<Send, Re("Hello")>>}
      [] t = "Neighbor" -> {<<Re("Neighbor")>>}
      [] t = "Clean" -> {MakeClean}
      [] t = "Trace" -> {MakeClean \o (IF clock_ < TraceUntil THEN <<Re("Trace")>>
                                                              ELSE <<>>)}
      [] OTHER -> {CheckNeighbors \o <<Send, Re(t)>>, CheckNeighbors \o <<Delete(t)>>}

\* What a command of the script may do: schedule another one, cancel one, halt.
CommandCalls == {<<Send>>, <<Cancel>>, <<Halt>>}

\* What the handler of a packet may do: the above, accept a list of wanted
\* bundles and send them, take a block ack.
PacketCalls ==
    CommandCalls
    \cup {CheckNeighbors \o <<New(b), Send>> : b \in Blocks \ live}
    \cup {<<Delete(b)>> : b \in Blocks \cap live}

\* Bound: the events a handler schedules.
Room(c) == uid_ + Cardinality({k \in DOMAIN c : c[k].op \in {"resched", "new", "send"}})
             <= MaxUid[realtime]

\* A packet or a command is obeyed, or it asks for nothing.
Obey(C) ==
    /\ commands < MaxCommands
    /\ commands' = commands + 1
    /\ \E c \in C : Room(c) /\ calls' = c

Ignore == calls' = <<>> /\ UNCHANGED commands

\* One call of the running handler.
Call ==
    /\ fault = "none" /\ running # Idle /\ calls # <<>>
    /\ LET c == Head(calls) IN
       \/ /\ c.op = "resched"
          /\ \E d \in Interval[c.timer] : Resched(c.timer, d)
          /\ UNCHANGED clockVars
       \/ /\ c.op = "new"
          /\ \E d \in Interval[c.timer] : NewBlock(c.timer, d)
          /\ UNCHANGED clockVars
       \/ /\ c.op = "delete"
          /\ DeleteBlock(c.timer)
          /\ UNCHANGED clockVars
       \/ /\ c.op = "send"
          /\ \E d \in PacketDelays : Enqueue(clock_ + d, Packet)
          /\ UNCHANGED <<clockVars, timerVars, fault>>
       \/ /\ c.op = "cancel"
          /\ \/ \E e \in Queued(cal) : e.owner = Packet /\ Dequeue(e)
             \/ UNCHANGED queueVars         \* lookup(uid) finds none
          /\ UNCHANGED <<clockVars, timerVars, fault>>
       \/ /\ c.op = "halt"
          /\ halted_' = TRUE
          /\ UNCHANGED <<clock_, realtime, queueVars, timerVars, fault>>
    /\ calls' = Tail(calls)
    /\ UNCHANGED <<out, running, commands>>

\* Faulty variant: handle does not look at the status again.
Return_unchecked ==
    /\ fault = "none" /\ running # Idle /\ calls = <<>>
    /\ running' = Idle
    /\ UNCHANGED <<clockVars, queueVars, out, timerVars, calls, commands, fault>>

\* The handler returns; TimerHandler::handle looks at the status again. If the
\* handler deleted the block that holds the timer, that reads, and may write,
\* memory that is free: whatever it finds there changes no timer that lives.
Return ==
    /\ fault = "none" /\ running # Idle /\ calls = <<>>
    /\ status_' = IF running \in live /\ status_[running] = "HANDLING"
                  THEN [status_ EXCEPT ![running] = "IDLE"] ELSE status_
    /\ running' = Idle
    /\ UNCHANGED <<clockVars, queueVars, out, event_, live, calls, commands, fault>>

-----------------------------------------------------------------------------
\* dispatch(e, t): the handler of a timer is TimerHandler::handle.
Dispatch(e, t) ==
    /\ clock_' = t
    /\ event_' = IF e.owner = Packet THEN event_
                 ELSE [event_ EXCEPT ![e.owner] = OutOfQueue(@)]
    /\ fault' = CASE t < clock_ -> "abort"
                  [] t >= clock_ /\ e.owner \in Timers \ live -> "freed"
                  [] t >= clock_ /\ e.owner \in live
                       /\ status_[e.owner] # "PENDING" -> "abort"
                  [] OTHER -> "none"
    /\ status_' = IF e.owner \in live THEN [status_ EXCEPT ![e.owner] = "HANDLING"]
                  ELSE status_
    /\ running' = e.owner
    /\ IF e.owner = Packet THEN Obey(PacketCalls) \/ Ignore
       ELSE /\ \E c \in ExpireCalls(e.owner) : Room(c) /\ calls' = c
            /\ UNCHANGED commands

\* The schedulers are asked for the next event.
Deque(e) ==
    /\ \E f \in Factors \cup {KeepWidth} :
          LET d == deque(cal, f) IN e = d.event /\ cal' = d.left
    /\ heap' = heap_extract_min(heap)
    /\ queue_' = Tail(queue_)
    /\ out' = [cal |-> e, heap |-> heap_min(heap), list |-> Head(queue_)]

NextEvent == HeadEvent(head(cal))

\* An iteration of Scheduler::run.
Run ==
    /\ fault = "none" /\ running = Idle /\ ~halted_ /\ ~realtime
    /\ cal.qsize_ > 0
    /\ Deque(NextEvent)
    /\ Dispatch(NextEvent, NextEvent.time)
    /\ UNCHANGED <<uid_, halted_, realtime, live>>

\* RealTimeScheduler::run: an event that is due is dispatched at the time of
\* day, which is read again after each dispatch and may be later than it was.
RunDue ==
    /\ fault = "none" /\ running = Idle /\ ~halted_ /\ realtime
    /\ cal.qsize_ > 0
    /\ Deque(NextEvent)
    /\ \E w \in {0} \cup Waits :
          /\ clock_ + w <= MaxTime
          /\ NextEvent.time <= clock_ + w
          /\ Dispatch(NextEvent, clock_ + w)
    /\ UNCHANGED <<uid_, halted_, realtime, live>>

\* ... otherwise it looked at the head only, and waits until it is due or Tcl
\* has an event: head() moves the calendar to a time that is still to come.
Wait ==
    /\ fault = "none" /\ running = Idle /\ ~halted_ /\ realtime
    /\ cal.qsize_ > 0 => NextEvent.time > clock_
    /\ cal' = head(cal)
    /\ \E w \in Waits : clock_ + w <= MaxTime /\ clock_' = clock_ + w
    /\ UNCHANGED <<uid_, halted_, realtime, heap, queue_, out, timerVars, running,
                   calls, commands, fault>>

\* Tcl_DoOneEvent: a command of the user, outside of any event.
TclEvent ==
    /\ fault = "none" /\ running = Idle /\ ~halted_ /\ realtime
    /\ Obey(CommandCalls)
    /\ running' = Packet
    /\ UNCHANGED <<clockVars, queueVars, out, timerVars, fault>>

\* The command resume, after the one to halt.
Resume ==
    /\ fault = "none" /\ running = Idle /\ halted_
    /\ halted_' = FALSE
    /\ UNCHANGED <<clock_, realtime, queueVars, out, timerVars, running, calls,
                   commands, fault>>

-----------------------------------------------------------------------------
\* What is scheduled before the run: the timers of the agents that were
\* created, in the order of their names, and the commands of the script.
Started(S, times) ==
    LET periodic == SetToSeq(S)
        n == Len(periodic)
        first == [k \in 1..n |->
                    Event(Min(Interval[periodic[k]]), k, periodic[k])]
    IN  first \o [k \in 1..Len(times) |-> Event(times[k], n + k, Packet)]

\* The queue of each scheduler, empty and with another event.
NewQueues == [cal |-> NewCalendar, heap |-> NewHeap, list |-> <<>>]

Scheduled(q, e) ==
    [cal |-> insert(q.cal, e), heap |-> heap_insert(q.heap, e),
     list |-> list_insert(q.list, e)]

Init ==
    \E S \in Agents, script \in Scripts :
       LET es == Started(S, script.times)
           queues == FoldLeft(Scheduled, NewQueues, es)
       IN
       /\ clock_ = 0 /\ halted_ = FALSE /\ realtime = script.realtime
       /\ uid_ = Len(es) + 1
       /\ cal = queues.cal /\ heap = queues.heap /\ queue_ = queues.list
       /\ out = [cal |-> NoEvent, heap |-> NoEvent, list |-> NoEvent]
       /\ live = S
       /\ status_ = [t \in Timers |-> IF t \in S THEN "PENDING" ELSE "IDLE"]
       /\ event_ = [t \in Timers |->
                      IF t \in S THEN CHOOSE e \in ToSet(es) : e.owner = t
                      ELSE NoEvent]
       /\ running = Idle /\ calls = <<>> /\ commands = 0 /\ fault = "none"

Next == Call \/ Return \/ Run \/ RunDue \/ Wait \/ TclEvent \/ Resume

Spec == Init /\ [][Next]_vars

-----------------------------------------------------------------------------
\* Properties.

\* The calendar never has fewer than the four buckets its search relies on.
TypeOK ==
    /\ clock_ \in Nat /\ uid_ \in Nat
    /\ {halted_, realtime} \subseteq BOOLEAN
    /\ status_ \in [Timers -> {"IDLE", "PENDING", "HANDLING"}]
    /\ \A t \in Timers : event_[t].time \in Nat /\ event_[t].uid \in Int
    /\ live \subseteq Timers
    /\ cal.nbuckets_ >= 4 /\ DOMAIN cal.buckets_ = 0..(cal.nbuckets_ - 1)
    /\ Positive(cal.width_)
    /\ running \in Owners \cup {Idle}
    /\ commands \in 0..MaxCommands
    /\ fault \in {"none", "abort", "freed"}

\* Under the calls of the agent's handlers none of the sanity checks of
\* Scheduler::schedule, Scheduler::dispatch and TimerHandler::handle aborts the
\* simulation: no timer is put twice into the queue, none fires that is not
\* pending, time does not run backwards; and no event outlives its timer.
NoFault == fault = "none"

\* A timer is PENDING exactly while its event is in the queue, once, at the
\* time it was given, and the event of a deleted timer never is: the status
\* kept by TimerHandler and the queue kept by the scheduler agree across
\* resched, expiry, cancellation and deletion.
TimersMatchQueue ==
    /\ \A t \in Timers :
          LET mine == {e \in Queued(cal) : e.owner = t} IN
          IF t \in live /\ status_[t] = "PENDING" THEN mine = {event_[t]}
          ELSE mine = {} /\ ~InQueue(event_[t])
    /\ \A t \in live : status_[t] = "HANDLING" => running = t

\* The bookkeeping that decides when the calendar is resized and where its
\* search starts is right after every insertion, removal and resize: each
\* event is in the bucket of its time, each bucket in the order of service,
\* stat_qsize_ and count_ count the distinct times, and the search starts in
\* the bucket of cal_clock_.
CalendarSound ==
    /\ \A i \in DOMAIN cal.buckets_ :
          LET b == cal.buckets_[i] IN
          /\ b.count_ = Cardinality({e.time : e \in ToSet(b.list_)})
          /\ \A k \in DOMAIN b.list_ :
                /\ Hash(cal, b.list_[k].time) = i
                /\ k > 1 => \/ b.list_[k - 1].time < b.list_[k].time
                           \/ /\ b.list_[k - 1].time = b.list_[k].time
                              /\ b.list_[k - 1].uid < b.list_[k].uid
    /\ cal.stat_qsize_ = Cardinality({e.time : e \in Queued(cal)})
    /\ cal.qsize_ = Cardinality(Queued(cal))
    /\ cal.lastbucket_ = Hash(cal, cal.cal_clock_)

CalendarQueue ==
    INSTANCE EventQueue WITH pending <- Queued(cal), nextUid <- uid_, out <- out.cal

HeapQueue ==
    INSTANCE EventQueue WITH pending <- HeapEvents(heap), nextUid <- uid_,
                             out <- out.heap

ListQueue ==
    INSTANCE EventQueue WITH pending <- ToSet(queue_), nextUid <- uid_, out <- out.list

\* Through every hash, search, change of the number of buckets and change of
\* width, the calendar serves the events in the order of their times, and in
\* the order they were scheduled when these are equal; none is lost, served
\* twice or left behind by a search that starts too late.
CalendarImplements == CalendarQueue!ESpec

\* So does the heap, also after deletions from its middle.
HeapImplements == HeapQueue!ESpec

\* And so does the list, to which the other two are alternatives.
ListImplements == ListQueue!ESpec
=============================================================================
