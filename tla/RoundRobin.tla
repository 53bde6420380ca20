----------------------------- MODULE RoundRobin -----------------------------
(***************************************************************************)
(* schedulers/round_robin.rs: the ready processes run in turn, each for a  *)
(* slice.  A process that makes a system call goes on while enough of its  *)
(* slice remains.                                                          *)
(***************************************************************************)
EXTENDS ProcessQueues

Boot == BootBy(NewPcb(1, 0))

Fork(left, priority) == ForkBy(Charged(left), left, NewPcb(next_pid, priority))
SleepFor(left, time) == SleepBy(Charged(left), left, time)
Signal(left, signal) == SignalBy(Charged(left), left, signal)
Wait(left, event) == WaitBy(Charged(left), left, event)
Exit(left) == ExitBy(left)
Expired == ExpireBy(Spent)

Reschedule_FullSlice(q) == FrontRuns(q) /\ CheckIfReschedule /\ KeepRunning(q, MaxSlice)
Reschedule(q) == FrontRuns(q) /\ CheckIfReschedule /\ KeepRunning(q, remaining)
Preempt(q) == FrontRuns(q) /\ ~CheckIfReschedule /\ RunFirst(Preempted(q), MaxSlice)
Start(q) == CanStart(q) /\ RunFirst(q, MaxSlice)

NextDecision ==
    /\ Asked
    /\ Reschedule(Awake) \/ Preempt(Awake) \/ NobodyToRun(Awake) \/ Start(Awake)

Next ==
    \/ Boot
    \/ \E left \in Lefts :
        \/ \E priority \in Priorities : Fork(left, priority)
        \/ \E time \in SleepTimes : SleepFor(left, time)
        \/ \E signal \in Events : Signal(left, signal) \/ Wait(left, signal)
        \/ Exit(left)
    \/ Expired
    \/ NextDecision

\* The processor calls next() until it gets a process to run.
Spec == Init /\ [][Next]_vars /\ WF_vars(NextDecision)

-----------------------------------------------------------------------------
\* A ready process runs after those that were ready before it, each of which
\* holds the processor for at most one slice: nobody starves.
BoundedWait ==
    \A p \in Range(ready) :
        IsReady(p) => clock - entered[p.pid].at <= entered[p.pid].ahead * MaxSlice
=============================================================================
