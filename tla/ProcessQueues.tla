--------------------------- MODULE ProcessQueues ----------------------------
(***************************************************************************)
(* The state and the helpers that the three schedulers of                  *)
(* PCLP4-process-scheduler have in common: RoundRobin,                     *)
(* PriorityQueueRoundRobin and CFS repeat this code in a file each (their  *)
(* README says so), and differ in what they charge the running process and *)
(* whom they run next.  The caller is the Processor: it calls next() until *)
(* it gets a process to run or a reason to give up, and stop() on behalf   *)
(* of the running process only.                                            *)
(***************************************************************************)
EXTENDS Integers, Sequences, FiniteSetsExt, SequencesExt

CONSTANTS
    MaxPid,         \* bound: no Fork beyond this pid
    MaxTime,        \* bound: no stop() from this time on
    MinRemaining,   \* minimum_remaining_timeslice
    MaxSlice,       \* the timeslice, or the cpu_time of CFS
    SleepCap,       \* the 10000 of check_if_all_processes_sleep
    Priorities,     \* the priorities that Fork is called with
    SleepTimes, Events, NoEvent

ASSUME QueuesAssumption ==
    /\ MaxPid \in Nat \ {0} /\ MaxTime \in Nat /\ MinRemaining \in Nat
    /\ MaxSlice \in Nat \ {0} /\ SleepCap \in Nat \ {0}
    /\ Priorities \subseteq -128 .. 127 /\ SleepTimes \subseteq Nat

VARIABLES
    ready, waiting,     \* ready_processes (the running one in front), waiting_processes
    remaining,          \* remaining_timeslice
    next_pid, sleep, sleep_time,
    decision,           \* what next() returned; "Stopped" from stop() to next()
    clock, idle, gone,  \* history: time elapsed, slept, and used by exited processes
    born,               \* history: when a process was created
    entered             \* history: when a process last became ready, behind how many

code == <<ready, waiting, remaining, next_pid, sleep, sleep_time, decision>>
history == <<clock, idle, gone, born, entered>>
vars == <<code, history>>

Pids == 1 .. MaxPid
Plain(kind) == [kind |-> kind, pid |-> 0, timeslice |-> 0]
Queues == [ready |-> ready, waiting |-> waiting]
Everyone(q) == q.ready \o q.waiting

NewPcb(pid, priority) ==
    [pid |-> pid, priority |-> priority, actual_priority |-> priority, total |-> 0,
     syscall |-> 0, execute |-> 0, sleep |-> 0, state |-> "Ready", event |-> NoEvent, extra |-> 0]

Init ==
    /\ ready = <<>> /\ waiting = <<>>
    /\ remaining = 0 /\ next_pid = 1
    /\ sleep = FALSE /\ sleep_time = 0
    /\ decision = Plain("Start")
    /\ clock = 0 /\ idle = 0 /\ gone = 0
    /\ born = [p \in Pids |-> 0]
    /\ entered = [p \in Pids |-> [at |-> 0, ahead |-> 0]]

-----------------------------------------------------------------------------
(* The helpers. *)

Older(p, t) == [p EXCEPT !.total = @ + t]
Aged(s, t) == [i \in DOMAIN s |-> Older(s[i], t)]

Rested_OffByOne(p, t) ==
    IF p.sleep = 0 THEN p
    ELSE IF p.sleep >= t THEN [p EXCEPT !.sleep = @ - t]
    ELSE [p EXCEPT !.sleep = 0, !.state = "Ready"]
Rested(p, t) ==
    IF p.sleep = 0 THEN p
    ELSE IF p.sleep > t THEN [p EXCEPT !.sleep = @ - t]
    ELSE [p EXCEPT !.sleep = 0, !.state = "Ready"]

IsReady(p) == p.state = "Ready"

\* The elements of s at the indices in I, in their order.
Only(s, I) ==
    LET Before(i) == {j \in I : j < i}
    IN  [k \in 1 .. Cardinality(I) |-> s[CHOOSE i \in I : Cardinality(Before(i)) = k - 1]]

\* s, where the indices in before[i] go before i.
InOrder(s, before) ==
    LET Place(i) == Cardinality(before[i]) + 1
    IN  [k \in DOMAIN s |-> s[CHOOSE i \in DOMAIN s : Place(i) = k]]

\* t time units pass for the processes of q.
ActualiseTimings(q, t) ==
    LET rested == [i \in DOMAIN q.waiting |-> Rested(Older(q.waiting[i], t), t)]
        awake == {i \in DOMAIN rested : IsReady(rested[i])}
    IN  [ready |-> Aged(q.ready, t) \o Only(rested, awake),
         waiting |-> Only(rested, DOMAIN rested \ awake)]

Roused(p) == [p EXCEPT !.state = "Ready", !.event = NoEvent]

UpdateWaiting(q, signal) ==
    LET hears == {i \in DOMAIN q.waiting : q.waiting[i].event = signal}
        woken == Only(q.waiting, hears)
    IN  [ready |-> q.ready \o [i \in DOMAIN woken |-> Roused(woken[i])],
         waiting |-> Only(q.waiting, DOMAIN q.waiting \ hears)]

Sleepers(q) == {p \in Range(q.waiting) : p.event = NoEvent}
FirstProcessExists_Ready(q) == \E p \in Range(q.ready) : p.pid = 1
FirstProcessExists(q) == \E p \in Range(Everyone(q)) : p.pid = 1
FrontRuns(q) == q.ready # <<>> /\ Head(q.ready).state = "Running"
AllAwaitSignal(q) == q.ready = <<>> /\ Sleepers(q) = {}
MinimumSleepTime(q) == Min({SleepCap} \cup {p.sleep : p \in Sleepers(q)})
CheckIfReschedule == remaining >= MinRemaining

\* The queues become q at time now; whoever becomes ready enters behind the others.
Become(q, now) ==
    /\ ready' = q.ready /\ waiting' = q.waiting
    /\ clock' = now
    /\ LET stays == {p.pid : p \in {r \in Range(ready) : IsReady(r)}}
           At(pid) == CHOOSE i \in DOMAIN ready' : ready'[i].pid = pid
       IN  entered' = [pid \in Pids |->
               IF \E p \in Range(ready') : p.pid = pid /\ IsReady(p) /\ pid \notin stays
               THEN [at |-> now, ahead |-> At(pid) - 1]
               ELSE entered[pid]]

-----------------------------------------------------------------------------
(* stop(): the running process is p once charged for its time, and left is *)
(* what remains of its slice.  Each policy charges it in its own way.      *)

Running == Head(ready)
Others == [Queues EXCEPT !.ready = Tail(ready)]
Used(left) == remaining - left
Charged(left) == [Running EXCEPT !.syscall = @ + 1, !.execute = @ + Used(left) - 1]
Calls == decision.kind = "Run" /\ clock < MaxTime
Lefts == 0 .. remaining - 1

Stops(q, t, left) ==
    /\ Calls
    /\ Become(q, clock + t)
    /\ remaining' = left
    /\ decision' = Plain("Stopped")
    /\ UNCHANGED <<sleep, sleep_time, idle>>

\* The first Fork, before any process runs.
BootBy(child) ==
    /\ decision.kind = "Start"
    /\ Become([Queues EXCEPT !.ready = <<child>>], clock)
    /\ remaining' = 0 /\ next_pid' = 2
    /\ decision' = Plain("Stopped")
    /\ UNCHANGED <<sleep, sleep_time, idle, gone, born>>

ForkBy(p, left, child) ==
    LET q == ActualiseTimings([Others EXCEPT !.ready = <<p>> \o @], Used(left))
    IN  /\ next_pid <= MaxPid
        /\ Stops([q EXCEPT !.ready = Append(@, child)], Used(left), left)
        /\ next_pid' = next_pid + 1
        /\ born' = [born EXCEPT ![next_pid] = clock']
        /\ UNCHANGED gone

\* The slice of a process that goes to sleep keeps its length: it is not read again.
SleepBy(p, left, time) ==
    LET q == ActualiseTimings(Others, Used(left))
        sleeper == [p EXCEPT !.state = "Waiting", !.sleep = time, !.total = @ + Used(left)]
    IN  /\ Stops([q EXCEPT !.waiting = Append(@, sleeper)], Used(left), remaining)
        /\ UNCHANGED <<next_pid, gone, born>>

SignalBy(p, left, signal) ==
    LET q == ActualiseTimings([Others EXCEPT !.ready = <<p>> \o @], Used(left))
    IN  /\ Stops(UpdateWaiting(q, signal), Used(left), left)
        /\ UNCHANGED <<next_pid, gone, born>>

WaitBy_PushedLate(p, left, event) ==
    LET waiter == [p EXCEPT !.state = "Waiting", !.event = event]
        q == ActualiseTimings(Others, Used(left))
    IN  /\ Stops([q EXCEPT !.waiting = Append(@, waiter)], Used(left), left)
        /\ UNCHANGED <<next_pid, gone, born>>
WaitBy(p, left, event) ==
    LET waiter == [p EXCEPT !.state = "Waiting", !.event = event]
        q == [Others EXCEPT !.waiting = Append(@, waiter)]
    IN  /\ Stops(ActualiseTimings(q, Used(left)), Used(left), left)
        /\ UNCHANGED <<next_pid, gone, born>>

ExitBy(left) ==
    /\ Stops(ActualiseTimings(Others, Used(left)), Used(left), left)
    /\ gone' = gone + Running.execute + Running.syscall + Used(left)
    /\ UNCHANGED <<next_pid, born>>

\* A process that used its whole slice.
Spent == [Running EXCEPT !.execute = @ + remaining, !.total = @ + remaining, !.state = "Ready"]

ExpireBy(p) ==
    LET q == ActualiseTimings(Others, remaining)
    IN  /\ Stops([q EXCEPT !.ready = Append(@, p)], remaining, remaining)
        /\ UNCHANGED <<next_pid, gone, born>>

-----------------------------------------------------------------------------
(* next(): the sleep that the processor took comes first, then a decision. *)

Asked == decision.kind \in {"Stopped", "Sleep"}
Slept == IF sleep THEN sleep_time ELSE 0
Awake == IF sleep THEN ActualiseTimings(Queues, sleep_time) ELSE Queues

\* NonZeroUsize::new(0).unwrap() panics.
Unwrapped(d) == IF d.timeslice = 0 THEN Plain("Crashed") ELSE d

Decide(q, left, d) ==
    /\ Become(q, clock + Slept)
    /\ remaining' = left
    /\ sleep' = FALSE /\ sleep_time' = 0
    /\ decision' = d
    /\ idle' = idle + Slept
    /\ UNCHANGED <<next_pid, gone, born>>

KeepRunning(q, left) ==
    Decide(q, left, Unwrapped([kind |-> "Run", pid |-> Head(ready').pid, timeslice |-> left]))

RunFirst(q, slice) ==
    KeepRunning([q EXCEPT !.ready[1].state = "Running"], slice)

\* The front process, preempted, goes to the back of the ready queue.
Preempted(q) == [q EXCEPT !.ready = Tail(@) \o <<[Head(@) EXCEPT !.state = "Ready"]>>]

Done(q) == Everyone(q) = <<>> /\ Decide(q, remaining, Plain("Done"))

Panic(q) ==
    /\ ~FrontRuns(q) /\ Everyone(q) # <<>> /\ ~FirstProcessExists(q)
    /\ Decide(q, remaining, Plain("Panic"))

Deadlock(q) ==
    /\ FirstProcessExists(q) /\ AllAwaitSignal(q)
    /\ Decide(q, remaining, Plain("Deadlock"))

Sleep(q) ==
    /\ FirstProcessExists(q) /\ q.ready = <<>> /\ ~AllAwaitSignal(q)
    /\ Become(q, clock + Slept)
    /\ sleep' = TRUE /\ sleep_time' = MinimumSleepTime(q)
    /\ decision' = Unwrapped([kind |-> "Sleep", pid |-> 0, timeslice |-> sleep_time'])
    /\ idle' = idle + Slept
    /\ UNCHANGED <<remaining, next_pid, gone, born>>

NobodyToRun(q) == Done(q) \/ Panic(q) \/ Deadlock(q) \/ Sleep(q)
CanStart(q) == q.ready # <<>> /\ ~FrontRuns(q) /\ FirstProcessExists(q)

-----------------------------------------------------------------------------
(* What holds of every policy. *)

\* What the processes in S have used of the processor.
TimeUsed(S) ==
    MapThenFoldSet(LAMBDA a, b : a + b, 0, LAMBDA p : p.execute + p.syscall,
                   LAMBDA processes : CHOOSE p \in processes : TRUE, S)

\* Every unit of time is accounted for once: it was slept by the processor, or
\* spent by one process in execution or in a system call; and the total of a
\* process is its age, wherever it was meanwhile.
TimesAddUp ==
    /\ clock = idle + gone + TimeUsed(Range(Everyone(Queues)))
    /\ \A p \in Range(Everyone(Queues)) : p.total = clock - born[p.pid]

\* A process runs although a ready one should be preferred to it (by Yields)
\* for less than a slice: it was already running when the other became ready.
InversionIsShort(Yields(_, _)) ==
    decision.kind = "Run" =>
        \A p \in Range(Tail(ready)) :
            Yields(Running, p) => clock - entered[p.pid].at < MaxSlice

\* The processor calls next() again and again while it says Sleep
\* (processor/src/lib.rs:227): in the end it says something else.
SleepEnds == decision.kind = "Stopped" ~> decision.kind \in {"Run", "Done", "Panic", "Deadlock"}

\* What a process is to the processor and to the other processes.
Seen(is, until, event) == [is |-> is, until |-> until, event |-> event]
SeenAs(pid) ==
    IF pid >= next_pid THEN Seen("Unborn", 0, NoEvent)
    ELSE IF decision.kind = "Run" /\ decision.pid = pid
         THEN Seen("Running", clock + decision.timeslice, NoEvent)
    ELSE LET pcbs == {p \in Range(Everyone(Queues)) : p.pid = pid}
             pcb == CHOOSE p \in pcbs : TRUE
         IN  CASE pcbs = {} -> Seen("Gone", 0, NoEvent)
               [] pcbs # {} /\ pcb.state # "Waiting" -> Seen("Ready", 0, NoEvent)
               [] pcbs # {} /\ pcb.state = "Waiting" ->
                      IF pcb.event = NoEvent THEN Seen("Asleep", clock + pcb.sleep, NoEvent)
                      ELSE Seen("Waiting", 0, pcb.event)

Abstract == INSTANCE Scheduling WITH
    Durations <- SleepTimes,
    proc <- [pid \in Pids |-> SeenAs(pid)],
    verdict <- IF decision.kind \in {"Start", "Stopped", "Run", "Sleep"} THEN "none" ELSE decision.kind

\* The scheduler keeps the promises of scheduler.rs, whatever its policy.
KeepsPromises == Abstract!SchedSpec
=============================================================================
