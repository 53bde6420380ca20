--------------------------- MODULE PriorityQueue ----------------------------
(***************************************************************************)
(* schedulers/priority_queue_round_robin.rs: before a slice begins, the    *)
(* ready processes are sorted by priority.  A process gains a priority     *)
(* level, up to its own, when it makes a system call, and loses one when   *)
(* its slice expires.                                                      *)
(***************************************************************************)
EXTENDS ProcessQueues

\* Priorities are i8: subtraction wraps.
DecPriority(p) ==
    IF p.priority = 0 THEN p
    ELSE [p EXCEPT !.priority = IF @ = -128 THEN 127 ELSE @ - 1]

IncPriority(p) ==
    IF p.actual_priority > p.priority THEN [p EXCEPT !.priority = @ + 1] ELSE p

Boot == BootBy(NewPcb(1, 0))

Fork(left, priority) == ForkBy(IncPriority(Charged(left)), left, NewPcb(next_pid, priority))
SleepFor(left, time) == SleepBy(IncPriority(Charged(left)), left, time)
Signal(left, signal) == SignalBy(IncPriority(Charged(left)), left, signal)
Wait(left, event) == WaitBy(IncPriority(Charged(left)), left, event)
Exit(left) == ExitBy(left)
Expired == ExpireBy(DecPriority(Spent))

Higher(p, r) == p.priority > r.priority
\* sort_by is stable: equals keep their order.
Sorted(q) ==
    LET Precedes(i, j) ==
            \/ Higher(q.ready[i], q.ready[j])
            \/ i < j /\ ~Higher(q.ready[j], q.ready[i])
        before == [i \in DOMAIN q.ready |-> {j \in DOMAIN q.ready : Precedes(j, i)}]
    IN  [q EXCEPT !.ready = InOrder(@, before)]

Reschedule(q) == FrontRuns(q) /\ CheckIfReschedule /\ KeepRunning(q, remaining)
Preempt(q) == FrontRuns(q) /\ ~CheckIfReschedule /\ RunFirst(Sorted(Preempted(q)), MaxSlice)
Start_Unsorted(q) == CanStart(q) /\ RunFirst(q, MaxSlice)
Start(q) == CanStart(q) /\ RunFirst(Sorted(q), MaxSlice)

NextDecision ==
    /\ Asked
    /\ Reschedule(Awake) \/ Preempt(Awake) \/ NobodyToRun(Awake) \/ Start(Awake)

Next ==
    \/ Boot
    \/ \E left \in Lefts :
        \/ \E priority \in Priorities : Fork(left, priority)
        \/ \E time \in SleepTimes : SleepFor(left, time)
        \/ \E signal \in Events : Signal(left, signal) \/ Wait(left, signal)
        \/ Exit(left)
    \/ Expired
    \/ NextDecision

\* The processor calls next() until it gets a process to run.
Spec == Init /\ [][Next]_vars /\ WF_vars(NextDecision)

-----------------------------------------------------------------------------
\* A process keeps a ready one of higher priority waiting for less than a slice,
\* however both their priorities moved since they were last sorted.
HigherPriorityWaitsLittle == InversionIsShort(LAMBDA r, p : Higher(p, r))
=============================================================================
