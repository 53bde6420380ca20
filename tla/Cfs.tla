-------------------------------- MODULE Cfs ---------------------------------
(***************************************************************************)
(* schedulers/cfs.rs: the ready process that used the processor least runs *)
(* next.  Its slice is its share of cpu_time, and shrinks while it runs    *)
(* when others become ready.                                               *)
(***************************************************************************)
EXTENDS ProcessQueues

CONSTANT VruntimeCap    \* the 100000 of get_minimum_vruntime

CpuTime == MaxSlice
Share(q) == CpuTime \div Len(q.ready)

MinimumVruntime(processes) == Min({VruntimeCap} \cup {p.extra : p \in processes})

Boot == BootBy(NewPcb(1, 0))

ChargedCpu(left) == [Charged(left) EXCEPT !.extra = @ + Used(left)]

Fork(left, priority) ==
    LET parent == ChargedCpu(left)
        least == MinimumVruntime({parent} \cup Range(Everyone(Others)))
    IN  ForkBy(parent, left, [NewPcb(next_pid, priority) EXCEPT !.extra = least])

SleepFor(left, time) == SleepBy(ChargedCpu(left), left, time)
Signal(left, signal) == SignalBy(ChargedCpu(left), left, signal)
Wait(left, event) == WaitBy(ChargedCpu(left), left, event)
Exit(left) == ExitBy(left)
Expired == ExpireBy([Spent EXCEPT !.extra = @ + remaining])

UsedLess_MostFirst(p, r) == p.extra > r.extra \/ (p.extra = r.extra /\ p.pid < r.pid)
UsedLess(p, r) == p.extra < r.extra \/ (p.extra = r.extra /\ p.pid < r.pid)
Sorted(q) ==
    LET before == [i \in DOMAIN q.ready |->
                      {j \in DOMAIN q.ready : UsedLess(q.ready[j], q.ready[i])}]
    IN  [q EXCEPT !.ready = InOrder(@, before)]

Shrunk(q) ==
    CASE Share(q) = 0 -> 1
      [] Share(q) # 0 -> Min({Share(q), remaining})

Reschedule(q) == FrontRuns(q) /\ CheckIfReschedule /\ KeepRunning(q, Shrunk(q))
Preempt(q) == FrontRuns(q) /\ ~CheckIfReschedule /\ RunFirst(Sorted(Preempted(q)), Share(q))
Start(q) == CanStart(q) /\ RunFirst(Sorted(q), Share(q))

NextDecision ==
    /\ Asked
    /\ Reschedule(Awake) \/ Preempt(Awake) \/ NobodyToRun(Awake) \/ Start(Awake)

Next ==
    \/ Boot
    \/ \E left \in Lefts :
        \/ \E priority \in Priorities : Fork(left, priority)
        \/ \E time \in SleepTimes : SleepFor(left, time)
        \/ \E signal \in Events : Signal(left, signal) \/ Wait(left, signal)
        \/ Exit(left)
    \/ Expired
    \/ NextDecision

\* The processor calls next() until it gets a process to run.
Spec == Init /\ [][Next]_vars /\ WF_vars(NextDecision)

-----------------------------------------------------------------------------
\* A process that used the processor a whole cpu_time more than a ready one
\* keeps it waiting for less than that: it was running when the other woke.
LeastUsedWaitsLittle == InversionIsShort(LAMBDA r, p : r.extra >= p.extra + CpuTime)
=============================================================================
