-------------------------- MODULE Schedulers_proofs --------------------------
(***************************************************************************)
(* For every number of processes, every slice, every set of priorities,    *)
(* sleeps and events, and whichever of the three schedulers was chosen:    *)
(* every unit of time is accounted for once, the scheduler implements      *)
(* Scheduling, the promises scheduler.rs makes to its caller, and no       *)
(* process is kept waiting for longer than its policy allows.              *)
(*                                                                         *)
(* Each policy is shown to charge, sort and choose in a way                *)
(* ProcessQueues_proofs allows for; its definitions are first shown to be  *)
(* those of ProcessQueues.                                                 *)
(***************************************************************************)
EXTENDS Schedulers, ProcessQueues_proofs

\* The instances share their definitions with this module.

LEMMA RRCardinality == ASSUME NEW I PROVE RR!Cardinality(I) = Cardinality(I)
  BY DEF RR!Cardinality, Cardinality

LEMMA RROnly == ASSUME NEW s, NEW I PROVE RR!Only(s, I) = Only(s, I)
  <1>1. RR!Only(s, I) = [k \in 1 .. RR!Cardinality(I) |-> s[CHOOSE i \in I : RR!Cardinality({j \in I : j < i}) = k - 1]]
    BY Zenon DEF RR!Only
  <1>2. \A k : (CHOOSE i \in I : RR!Cardinality({j \in I : j < i}) = k - 1)
             = (CHOOSE i \in I : Cardinality({j \in I : j < i}) = k - 1)
    BY RRCardinality
  <1>3. RR!Only(s, I) = [k \in 1 .. Cardinality(I) |-> s[CHOOSE i \in I : Cardinality({j \in I : j < i}) = k - 1]]
    BY <1>1, <1>2, RRCardinality
  <1> QED
    BY <1>3 DEF Only

LEMMA RRActualiseTimings == ASSUME NEW q, NEW t PROVE RR!ActualiseTimings(q, t) = ActualiseTimings(q, t)
  <1>1. \A p : RR!Rested(p, t) = Rested(p, t) /\ RR!Older(p, t) = Older(p, t) /\ RR!IsReady(p) = IsReady(p)
    BY DEF RR!Rested, Rested, RR!Older, Older, RR!IsReady, IsReady
  <1>2. \A s : RR!Aged(s, t) = Aged(s, t)
    BY <1>1 DEF RR!Aged, Aged
  <1>3. RR!ActualiseTimings(q, t) =
            LET rested == [i \in DOMAIN q.waiting |-> Rested(Older(q.waiting[i], t), t)]
                awake == {i \in DOMAIN rested : IsReady(rested[i])}
            IN  [ready |-> Aged(q.ready, t) \o Only(rested, awake),
                 waiting |-> Only(rested, DOMAIN rested \ awake)]
    BY <1>1, <1>2, RROnly DEF RR!ActualiseTimings
  <1> QED
    BY <1>3 DEF ActualiseTimings

LEMMA RRUpdateWaiting == ASSUME NEW q, NEW signal PROVE RR!UpdateWaiting(q, signal) = UpdateWaiting(q, signal)
  <1>1. \A p : RR!Roused(p) = Roused(p)
    BY DEF RR!Roused, Roused
  <1>2. RR!UpdateWaiting(q, signal) =
            LET hears == {i \in DOMAIN q.waiting : q.waiting[i].event = signal}
                woken == Only(q.waiting, hears)
            IN  [ready |-> q.ready \o [i \in DOMAIN woken |-> Roused(woken[i])],
                 waiting |-> Only(q.waiting, DOMAIN q.waiting \ hears)]
    BY <1>1, RROnly DEF RR!UpdateWaiting
  <1> QED
    BY <1>2 DEF UpdateWaiting

LEMMA RRBecome == ASSUME NEW q, NEW now PROVE RR!Become(q, now) = Become(q, now)
  BY Zenon DEF RR!Become, Become, RR!IsReady, IsReady, RR!Pids, Pids, RR!Range, Range

LEMMA RRStops == ASSUME NEW q, NEW t, NEW left PROVE RR!Stops(q, t, left) = Stops(q, t, left)
  BY RRBecome, Zenon DEF RR!Stops, Stops, RR!Calls, Calls, RR!Plain, Plain

LEMMA RRBy ==
    ASSUME NEW p, NEW left, NEW x
    PROVE  /\ RR!BootBy(x) = BootBy(x)
           /\ RR!ForkBy(p, left, x) = ForkBy(p, left, x)
           /\ RR!SleepBy(p, left, x) = SleepBy(p, left, x)
           /\ RR!SignalBy(p, left, x) = SignalBy(p, left, x)
           /\ RR!WaitBy(p, left, x) = WaitBy(p, left, x)
           /\ RR!ExitBy(left) = ExitBy(left)
           /\ RR!ExpireBy(p) = ExpireBy(p)
  <1>1. RR!Used(left) = Used(left) /\ RR!Others = Others /\ RR!Queues = Queues /\ RR!Running = Running
    BY Zenon DEF RR!Used, Used, RR!Others, Others, RR!Queues, Queues, RR!Running, Running
  <1>2. RR!BootBy(x) = BootBy(x)
    BY <1>1, RRBecome, Zenon DEF RR!BootBy, BootBy, RR!Plain, Plain
  <1>3. RR!ForkBy(p, left, x) = ForkBy(p, left, x)
    BY <1>1, RRStops, RRActualiseTimings, Zenon DEF RR!ForkBy, ForkBy
  <1>4. RR!SleepBy(p, left, x) = SleepBy(p, left, x)
    BY <1>1, RRStops, RRActualiseTimings, Zenon DEF RR!SleepBy, SleepBy
  <1>5. RR!SignalBy(p, left, x) = SignalBy(p, left, x)
    BY <1>1, RRStops, RRActualiseTimings, RRUpdateWaiting, Zenon DEF RR!SignalBy, SignalBy
  <1>6. RR!WaitBy(p, left, x) = WaitBy(p, left, x)
    BY <1>1, RRStops, RRActualiseTimings, Zenon DEF RR!WaitBy, WaitBy
  <1>7. RR!ExitBy(left) = ExitBy(left)
    BY <1>1, RRStops, RRActualiseTimings, Zenon DEF RR!ExitBy, ExitBy
  <1>8. RR!ExpireBy(p) = ExpireBy(p)
    BY <1>1, RRStops, RRActualiseTimings, Zenon DEF RR!ExpireBy, ExpireBy
  <1> QED
    BY <1>2, <1>3, <1>4, <1>5, <1>6, <1>7, <1>8

LEMMA RRDecide ==
    ASSUME NEW q, NEW left
    PROVE  /\ RR!KeepRunning(q, left) = KeepRunning(q, left)
           /\ RR!RunFirst(q, left) = RunFirst(q, left)
           /\ RR!NobodyToRun(q) = NobodyToRun(q)
  <1>1. RR!Slept = Slept /\ \A d : RR!Unwrapped(d) = Unwrapped(d)
    BY Zenon DEF RR!Slept, Slept, RR!Unwrapped, Unwrapped, RR!Plain, Plain
  <1>2. \A l, d : RR!Decide(q, l, d) = Decide(q, l, d)
    BY <1>1, RRBecome, Zenon DEF RR!Decide, Decide
  <1>3. \A r, l, d : RR!Decide(r, l, d) = Decide(r, l, d)
    BY <1>1, RRBecome, Zenon DEF RR!Decide, Decide
  <1>4. \A r, l : RR!KeepRunning(r, l) = KeepRunning(r, l)
    BY <1>1, <1>3, Zenon DEF RR!KeepRunning, KeepRunning
  <1>5. RR!RunFirst(q, left) = RunFirst(q, left)
    BY <1>4, Zenon DEF RR!RunFirst, RunFirst
  <1>6. /\ RR!Everyone(q) = Everyone(q) /\ RR!FrontRuns(q) = FrontRuns(q)
        /\ RR!FirstProcessExists(q) = FirstProcessExists(q) /\ RR!AllAwaitSignal(q) = AllAwaitSignal(q)
    BY Zenon DEF RR!Everyone, Everyone, RR!FrontRuns, FrontRuns, RR!FirstProcessExists, FirstProcessExists,
        RR!AllAwaitSignal, AllAwaitSignal, RR!Sleepers, Sleepers, RR!Range, Range
  <1>7. RR!MinimumSleepTime(q) = MinimumSleepTime(q)
    BY Zenon DEF RR!MinimumSleepTime, MinimumSleepTime, RR!Sleepers, Sleepers, RR!Range, Range, RR!Min, Min
  <1>8. /\ RR!Done(q) = Done(q) /\ RR!Panic(q) = Panic(q) /\ RR!Deadlock(q) = Deadlock(q)
    BY <1>3, <1>6, Zenon DEF RR!Done, Done, RR!Panic, Panic, RR!Deadlock, Deadlock, RR!Plain, Plain
  <1>9. RR!Sleep(q) = Sleep(q)
    BY <1>1, <1>6, <1>7, RRBecome, Zenon DEF RR!Sleep, Sleep
  <1>10. RR!NobodyToRun(q) = NobodyToRun(q)
    BY <1>8, <1>9, Zenon DEF RR!NobodyToRun, NobodyToRun
  <1> QED
    BY <1>4, <1>5, <1>10

LEMMA RRQueues ==
    ASSUME NEW q
    PROVE  /\ RR!Awake = Awake /\ RR!Asked = Asked /\ RR!CheckIfReschedule = CheckIfReschedule
           /\ RR!Lefts = Lefts
           /\ RR!FrontRuns(q) = FrontRuns(q) /\ RR!CanStart(q) = CanStart(q) /\ RR!Preempted(q) = Preempted(q)
  <1>1. RR!Queues = Queues
    BY Zenon DEF RR!Queues, Queues
  <1>2. RR!Awake = Awake
    BY <1>1, RRActualiseTimings, Zenon DEF RR!Awake, Awake
  <1>3. RR!Asked = Asked /\ RR!CheckIfReschedule = CheckIfReschedule /\ RR!Lefts = Lefts
    BY Zenon DEF RR!Asked, Asked, RR!CheckIfReschedule, CheckIfReschedule, RR!Lefts, Lefts
  <1>4. RR!FrontRuns(q) = FrontRuns(q) /\ RR!CanStart(q) = CanStart(q) /\ RR!Preempted(q) = Preempted(q)
    BY Zenon DEF RR!FrontRuns, FrontRuns, RR!CanStart, CanStart, RR!Preempted, Preempted,
        RR!FirstProcessExists, FirstProcessExists, RR!Everyone, Everyone, RR!Range, Range
  <1> QED
    BY <1>2, <1>3, <1>4

LEMMA PQCardinality == ASSUME NEW I PROVE PQ!Cardinality(I) = Cardinality(I)
  BY DEF PQ!Cardinality, Cardinality

LEMMA PQOnly == ASSUME NEW s, NEW I PROVE PQ!Only(s, I) = Only(s, I)
  <1>1. PQ!Only(s, I) = [k \in 1 .. PQ!Cardinality(I) |-> s[CHOOSE i \in I : PQ!Cardinality({j \in I : j < i}) = k - 1]]
    BY Zenon DEF PQ!Only
  <1>2. \A k : (CHOOSE i \in I : PQ!Cardinality({j \in I : j < i}) = k - 1)
             = (CHOOSE i \in I : Cardinality({j \in I : j < i}) = k - 1)
    BY PQCardinality
  <1>3. PQ!Only(s, I) = [k \in 1 .. Cardinality(I) |-> s[CHOOSE i \in I : Cardinality({j \in I : j < i}) = k - 1]]
    BY <1>1, <1>2, PQCardinality
  <1> QED
    BY <1>3 DEF Only

LEMMA PQActualiseTimings == ASSUME NEW q, NEW t PROVE PQ!ActualiseTimings(q, t) = ActualiseTimings(q, t)
  <1>1. \A p : PQ!Rested(p, t) = Rested(p, t) /\ PQ!Older(p, t) = Older(p, t) /\ PQ!IsReady(p) = IsReady(p)
    BY DEF PQ!Rested, Rested, PQ!Older, Older, PQ!IsReady, IsReady
  <1>2. \A s : PQ!Aged(s, t) = Aged(s, t)
    BY <1>1 DEF PQ!Aged, Aged
  <1>3. PQ!ActualiseTimings(q, t) =
            LET rested == [i \in DOMAIN q.waiting |-> Rested(Older(q.waiting[i], t), t)]
                awake == {i \in DOMAIN rested : IsReady(rested[i])}
            IN  [ready |-> Aged(q.ready, t) \o Only(rested, awake),
                 waiting |-> Only(rested, DOMAIN rested \ awake)]
    BY <1>1, <1>2, PQOnly DEF PQ!ActualiseTimings
  <1> QED
    BY <1>3 DEF ActualiseTimings

LEMMA PQUpdateWaiting == ASSUME NEW q, NEW signal PROVE PQ!UpdateWaiting(q, signal) = UpdateWaiting(q, signal)
  <1>1. \A p : PQ!Roused(p) = Roused(p)
    BY DEF PQ!Roused, Roused
  <1>2. PQ!UpdateWaiting(q, signal) =
            LET hears == {i \in DOMAIN q.waiting : q.waiting[i].event = signal}
                woken == Only(q.waiting, hears)
            IN  [ready |-> q.ready \o [i \in DOMAIN woken |-> Roused(woken[i])],
                 waiting |-> Only(q.waiting, DOMAIN q.waiting \ hears)]
    BY <1>1, PQOnly DEF PQ!UpdateWaiting
  <1> QED
    BY <1>2 DEF UpdateWaiting

LEMMA PQBecome == ASSUME NEW q, NEW now PROVE PQ!Become(q, now) = Become(q, now)
  BY Zenon DEF PQ!Become, Become, PQ!IsReady, IsReady, PQ!Pids, Pids, PQ!Range, Range

LEMMA PQStops == ASSUME NEW q, NEW t, NEW left PROVE PQ!Stops(q, t, left) = Stops(q, t, left)
  BY PQBecome, Zenon DEF PQ!Stops, Stops, PQ!Calls, Calls, PQ!Plain, Plain

LEMMA PQBy ==
    ASSUME NEW p, NEW left, NEW x
    PROVE  /\ PQ!BootBy(x) = BootBy(x)
           /\ PQ!ForkBy(p, left, x) = ForkBy(p, left, x)
           /\ PQ!SleepBy(p, left, x) = SleepBy(p, left, x)
           /\ PQ!SignalBy(p, left, x) = SignalBy(p, left, x)
           /\ PQ!WaitBy(p, left, x) = WaitBy(p, left, x)
           /\ PQ!ExitBy(left) = ExitBy(left)
           /\ PQ!ExpireBy(p) = ExpireBy(p)
  <1>1. PQ!Used(left) = Used(left) /\ PQ!Others = Others /\ PQ!Queues = Queues /\ PQ!Running = Running
    BY Zenon DEF PQ!Used, Used, PQ!Others, Others, PQ!Queues, Queues, PQ!Running, Running
  <1>2. PQ!BootBy(x) = BootBy(x)
    BY <1>1, PQBecome, Zenon DEF PQ!BootBy, BootBy, PQ!Plain, Plain
  <1>3. PQ!ForkBy(p, left, x) = ForkBy(p, left, x)
    BY <1>1, PQStops, PQActualiseTimings, Zenon DEF PQ!ForkBy, ForkBy
  <1>4. PQ!SleepBy(p, left, x) = SleepBy(p, left, x)
    BY <1>1, PQStops, PQActualiseTimings, Zenon DEF PQ!SleepBy, SleepBy
  <1>5. PQ!SignalBy(p, left, x) = SignalBy(p, left, x)
    BY <1>1, PQStops, PQActualiseTimings, PQUpdateWaiting, Zenon DEF PQ!SignalBy, SignalBy
  <1>6. PQ!WaitBy(p, left, x) = WaitBy(p, left, x)
    BY <1>1, PQStops, PQActualiseTimings, Zenon DEF PQ!WaitBy, WaitBy
  <1>7. PQ!ExitBy(left) = ExitBy(left)
    BY <1>1, PQStops, PQActualiseTimings, Zenon DEF PQ!ExitBy, ExitBy
  <1>8. PQ!ExpireBy(p) = ExpireBy(p)
    BY <1>1, PQStops, PQActualiseTimings, Zenon DEF PQ!ExpireBy, ExpireBy
  <1> QED
    BY <1>2, <1>3, <1>4, <1>5, <1>6, <1>7, <1>8

LEMMA PQDecide ==
    ASSUME NEW q, NEW left
    PROVE  /\ PQ!KeepRunning(q, left) = KeepRunning(q, left)
           /\ PQ!RunFirst(q, left) = RunFirst(q, left)
           /\ PQ!NobodyToRun(q) = NobodyToRun(q)
  <1>1. PQ!Slept = Slept /\ \A d : PQ!Unwrapped(d) = Unwrapped(d)
    BY Zenon DEF PQ!Slept, Slept, PQ!Unwrapped, Unwrapped, PQ!Plain, Plain
  <1>2. \A l, d : PQ!Decide(q, l, d) = Decide(q, l, d)
    BY <1>1, PQBecome, Zenon DEF PQ!Decide, Decide
  <1>3. \A r, l, d : PQ!Decide(r, l, d) = Decide(r, l, d)
    BY <1>1, PQBecome, Zenon DEF PQ!Decide, Decide
  <1>4. \A r, l : PQ!KeepRunning(r, l) = KeepRunning(r, l)
    BY <1>1, <1>3, Zenon DEF PQ!KeepRunning, KeepRunning
  <1>5. PQ!RunFirst(q, left) = RunFirst(q, left)
    BY <1>4, Zenon DEF PQ!RunFirst, RunFirst
  <1>6. /\ PQ!Everyone(q) = Everyone(q) /\ PQ!FrontRuns(q) = FrontRuns(q)
        /\ PQ!FirstProcessExists(q) = FirstProcessExists(q) /\ PQ!AllAwaitSignal(q) = AllAwaitSignal(q)
    BY Zenon DEF PQ!Everyone, Everyone, PQ!FrontRuns, FrontRuns, PQ!FirstProcessExists, FirstProcessExists,
        PQ!AllAwaitSignal, AllAwaitSignal, PQ!Sleepers, Sleepers, PQ!Range, Range
  <1>7. PQ!MinimumSleepTime(q) = MinimumSleepTime(q)
    BY Zenon DEF PQ!MinimumSleepTime, MinimumSleepTime, PQ!Sleepers, Sleepers, PQ!Range, Range, PQ!Min, Min
  <1>8. /\ PQ!Done(q) = Done(q) /\ PQ!Panic(q) = Panic(q) /\ PQ!Deadlock(q) = Deadlock(q)
    BY <1>3, <1>6, Zenon DEF PQ!Done, Done, PQ!Panic, Panic, PQ!Deadlock, Deadlock, PQ!Plain, Plain
  <1>9. PQ!Sleep(q) = Sleep(q)
    BY <1>1, <1>6, <1>7, PQBecome, Zenon DEF PQ!Sleep, Sleep
  <1>10. PQ!NobodyToRun(q) = NobodyToRun(q)
    BY <1>8, <1>9, Zenon DEF PQ!NobodyToRun, NobodyToRun
  <1> QED
    BY <1>4, <1>5, <1>10

LEMMA PQQueues ==
    ASSUME NEW q
    PROVE  /\ PQ!Awake = Awake /\ PQ!Asked = Asked /\ PQ!CheckIfReschedule = CheckIfReschedule
           /\ PQ!Lefts = Lefts
           /\ PQ!FrontRuns(q) = FrontRuns(q) /\ PQ!CanStart(q) = CanStart(q) /\ PQ!Preempted(q) = Preempted(q)
  <1>1. PQ!Queues = Queues
    BY Zenon DEF PQ!Queues, Queues
  <1>2. PQ!Awake = Awake
    BY <1>1, PQActualiseTimings, Zenon DEF PQ!Awake, Awake
  <1>3. PQ!Asked = Asked /\ PQ!CheckIfReschedule = CheckIfReschedule /\ PQ!Lefts = Lefts
    BY Zenon DEF PQ!Asked, Asked, PQ!CheckIfReschedule, CheckIfReschedule, PQ!Lefts, Lefts
  <1>4. PQ!FrontRuns(q) = FrontRuns(q) /\ PQ!CanStart(q) = CanStart(q) /\ PQ!Preempted(q) = Preempted(q)
    BY Zenon DEF PQ!FrontRuns, FrontRuns, PQ!CanStart, CanStart, PQ!Preempted, Preempted,
        PQ!FirstProcessExists, FirstProcessExists, PQ!Everyone, Everyone, PQ!Range, Range
  <1> QED
    BY <1>2, <1>3, <1>4

LEMMA CFSCardinality == ASSUME NEW I PROVE CFS!Cardinality(I) = Cardinality(I)
  BY DEF CFS!Cardinality, Cardinality

LEMMA CFSOnly == ASSUME NEW s, NEW I PROVE CFS!Only(s, I) = Only(s, I)
  <1>1. CFS!Only(s, I) = [k \in 1 .. CFS!Cardinality(I) |-> s[CHOOSE i \in I : CFS!Cardinality({j \in I : j < i}) = k - 1]]
    BY Zenon DEF CFS!Only
  <1>2. \A k : (CHOOSE i \in I : CFS!Cardinality({j \in I : j < i}) = k - 1)
             = (CHOOSE i \in I : Cardinality({j \in I : j < i}) = k - 1)
    BY CFSCardinality
  <1>3. CFS!Only(s, I) = [k \in 1 .. Cardinality(I) |-> s[CHOOSE i \in I : Cardinality({j \in I : j < i}) = k - 1]]
    BY <1>1, <1>2, CFSCardinality
  <1> QED
    BY <1>3 DEF Only

LEMMA CFSActualiseTimings == ASSUME NEW q, NEW t PROVE CFS!ActualiseTimings(q, t) = ActualiseTimings(q, t)
  <1>1. \A p : CFS!Rested(p, t) = Rested(p, t) /\ CFS!Older(p, t) = Older(p, t) /\ CFS!IsReady(p) = IsReady(p)
    BY DEF CFS!Rested, Rested, CFS!Older, Older, CFS!IsReady, IsReady
  <1>2. \A s : CFS!Aged(s, t) = Aged(s, t)
    BY <1>1 DEF CFS!Aged, Aged
  <1>3. CFS!ActualiseTimings(q, t) =
            LET rested == [i \in DOMAIN q.waiting |-> Rested(Older(q.waiting[i], t), t)]
                awake == {i \in DOMAIN rested : IsReady(rested[i])}
            IN  [ready |-> Aged(q.ready, t) \o Only(rested, awake),
                 waiting |-> Only(rested, DOMAIN rested \ awake)]
    BY <1>1, <1>2, CFSOnly DEF CFS!ActualiseTimings
  <1> QED
    BY <1>3 DEF ActualiseTimings

LEMMA CFSUpdateWaiting == ASSUME NEW q, NEW signal PROVE CFS!UpdateWaiting(q, signal) = UpdateWaiting(q, signal)
  <1>1. \A p : CFS!Roused(p) = Roused(p)
    BY DEF CFS!Roused, Roused
  <1>2. CFS!UpdateWaiting(q, signal) =
            LET hears == {i \in DOMAIN q.waiting : q.waiting[i].event = signal}
                woken == Only(q.waiting, hears)
            IN  [ready |-> q.ready \o [i \in DOMAIN woken |-> Roused(woken[i])],
                 waiting |-> Only(q.waiting, DOMAIN q.waiting \ hears)]
    BY <1>1, CFSOnly DEF CFS!UpdateWaiting
  <1> QED
    BY <1>2 DEF UpdateWaiting

LEMMA CFSBecome == ASSUME NEW q, NEW now PROVE CFS!Become(q, now) = Become(q, now)
  BY Zenon DEF CFS!Become, Become, CFS!IsReady, IsReady, CFS!Pids, Pids, CFS!Range, Range

LEMMA CFSStops == ASSUME NEW q, NEW t, NEW left PROVE CFS!Stops(q, t, left) = Stops(q, t, left)
  BY CFSBecome, Zenon DEF CFS!Stops, Stops, CFS!Calls, Calls, CFS!Plain, Plain

LEMMA CFSBy ==
    ASSUME NEW p, NEW left, NEW x
    PROVE  /\ CFS!BootBy(x) = BootBy(x)
           /\ CFS!ForkBy(p, left, x) = ForkBy(p, left, x)
           /\ CFS!SleepBy(p, left, x) = SleepBy(p, left, x)
           /\ CFS!SignalBy(p, left, x) = SignalBy(p, left, x)
           /\ CFS!WaitBy(p, left, x) = WaitBy(p, left, x)
           /\ CFS!ExitBy(left) = ExitBy(left)
           /\ CFS!ExpireBy(p) = ExpireBy(p)
  <1>1. CFS!Used(left) = Used(left) /\ CFS!Others = Others /\ CFS!Queues = Queues /\ CFS!Running = Running
    BY Zenon DEF CFS!Used, Used, CFS!Others, Others, CFS!Queues, Queues, CFS!Running, Running
  <1>2. CFS!BootBy(x) = BootBy(x)
    BY <1>1, CFSBecome, Zenon DEF CFS!BootBy, BootBy, CFS!Plain, Plain
  <1>3. CFS!ForkBy(p, left, x) = ForkBy(p, left, x)
    BY <1>1, CFSStops, CFSActualiseTimings, Zenon DEF CFS!ForkBy, ForkBy
  <1>4. CFS!SleepBy(p, left, x) = SleepBy(p, left, x)
    BY <1>1, CFSStops, CFSActualiseTimings, Zenon DEF CFS!SleepBy, SleepBy
  <1>5. CFS!SignalBy(p, left, x) = SignalBy(p, left, x)
    BY <1>1, CFSStops, CFSActualiseTimings, CFSUpdateWaiting, Zenon DEF CFS!SignalBy, SignalBy
  <1>6. CFS!WaitBy(p, left, x) = WaitBy(p, left, x)
    BY <1>1, CFSStops, CFSActualiseTimings, Zenon DEF CFS!WaitBy, WaitBy
  <1>7. CFS!ExitBy(left) = ExitBy(left)
    BY <1>1, CFSStops, CFSActualiseTimings, Zenon DEF CFS!ExitBy, ExitBy
  <1>8. CFS!ExpireBy(p) = ExpireBy(p)
    BY <1>1, CFSStops, CFSActualiseTimings, Zenon DEF CFS!ExpireBy, ExpireBy
  <1> QED
    BY <1>2, <1>3, <1>4, <1>5, <1>6, <1>7, <1>8

LEMMA CFSDecide ==
    ASSUME NEW q, NEW left
    PROVE  /\ CFS!KeepRunning(q, left) = KeepRunning(q, left)
           /\ CFS!RunFirst(q, left) = RunFirst(q, left)
           /\ CFS!NobodyToRun(q) = NobodyToRun(q)
  <1>1. CFS!Slept = Slept /\ \A d : CFS!Unwrapped(d) = Unwrapped(d)
    BY Zenon DEF CFS!Slept, Slept, CFS!Unwrapped, Unwrapped, CFS!Plain, Plain
  <1>2. \A l, d : CFS!Decide(q, l, d) = Decide(q, l, d)
    BY <1>1, CFSBecome, Zenon DEF CFS!Decide, Decide
  <1>3. \A r, l, d : CFS!Decide(r, l, d) = Decide(r, l, d)
    BY <1>1, CFSBecome, Zenon DEF CFS!Decide, Decide
  <1>4. \A r, l : CFS!KeepRunning(r, l) = KeepRunning(r, l)
    BY <1>1, <1>3, Zenon DEF CFS!KeepRunning, KeepRunning
  <1>5. CFS!RunFirst(q, left) = RunFirst(q, left)
    BY <1>4, Zenon DEF CFS!RunFirst, RunFirst
  <1>6. /\ CFS!Everyone(q) = Everyone(q) /\ CFS!FrontRuns(q) = FrontRuns(q)
        /\ CFS!FirstProcessExists(q) = FirstProcessExists(q) /\ CFS!AllAwaitSignal(q) = AllAwaitSignal(q)
    BY Zenon DEF CFS!Everyone, Everyone, CFS!FrontRuns, FrontRuns, CFS!FirstProcessExists, FirstProcessExists,
        CFS!AllAwaitSignal, AllAwaitSignal, CFS!Sleepers, Sleepers, CFS!Range, Range
  <1>7. CFS!MinimumSleepTime(q) = MinimumSleepTime(q)
    BY Zenon DEF CFS!MinimumSleepTime, MinimumSleepTime, CFS!Sleepers, Sleepers, CFS!Range, Range, CFS!Min, Min
  <1>8. /\ CFS!Done(q) = Done(q) /\ CFS!Panic(q) = Panic(q) /\ CFS!Deadlock(q) = Deadlock(q)
    BY <1>3, <1>6, Zenon DEF CFS!Done, Done, CFS!Panic, Panic, CFS!Deadlock, Deadlock, CFS!Plain, Plain
  <1>9. CFS!Sleep(q) = Sleep(q)
    BY <1>1, <1>6, <1>7, CFSBecome, Zenon DEF CFS!Sleep, Sleep
  <1>10. CFS!NobodyToRun(q) = NobodyToRun(q)
    BY <1>8, <1>9, Zenon DEF CFS!NobodyToRun, NobodyToRun
  <1> QED
    BY <1>4, <1>5, <1>10

LEMMA CFSQueues ==
    ASSUME NEW q
    PROVE  /\ CFS!Awake = Awake /\ CFS!Asked = Asked /\ CFS!CheckIfReschedule = CheckIfReschedule
           /\ CFS!Lefts = Lefts
           /\ CFS!FrontRuns(q) = FrontRuns(q) /\ CFS!CanStart(q) = CanStart(q) /\ CFS!Preempted(q) = Preempted(q)
  <1>1. CFS!Queues = Queues
    BY Zenon DEF CFS!Queues, Queues
  <1>2. CFS!Awake = Awake
    BY <1>1, CFSActualiseTimings, Zenon DEF CFS!Awake, Awake
  <1>3. CFS!Asked = Asked /\ CFS!CheckIfReschedule = CheckIfReschedule /\ CFS!Lefts = Lefts
    BY Zenon DEF CFS!Asked, Asked, CFS!CheckIfReschedule, CheckIfReschedule, CFS!Lefts, Lefts
  <1>4. CFS!FrontRuns(q) = FrontRuns(q) /\ CFS!CanStart(q) = CanStart(q) /\ CFS!Preempted(q) = Preempted(q)
    BY Zenon DEF CFS!FrontRuns, FrontRuns, CFS!CanStart, CanStart, CFS!Preempted, Preempted,
        CFS!FirstProcessExists, FirstProcessExists, CFS!Everyone, Everyone, CFS!Range, Range
  <1> QED
    BY <1>2, <1>3, <1>4

-----------------------------------------------------------------------------
(* A step of round robin is such a step *)

LEMMA RRStep == ASSUME Inv, InTurn, RR!Next PROVE AnyStep
  <1>1. CASE RR!Boot
    <2>1. BootBy(NewPcb(1, 0))
      BY <1>1, RRBy DEF RR!Boot, RR!NewPcb, NewPcb
    <2> QED
      BY <2>1, FirstInfantIs DEF AnyStep
  <1> DEFINE p(left) == Charged(left)
  <1>2. \A left : RR!Charged(left) = p(left)
    BY DEF RR!Charged, Charged, RR!Running, Running, RR!Used, Used
  <1>3. \A left \in Lefts : Calls => Billed(p(left), left) /\ Pays(p(left), left)
    BY ChargedIs, NoOrder
  <1> HIDE DEF p
  <1>4. ASSUME NEW left \in Lefts, NEW priority \in {0}, RR!Fork(left, priority) PROVE AnyStep
    <2> DEFINE c == NewPcb(next_pid, priority)
    <2>1. ForkBy(p(left), left, c)
      BY <1>2, <1>4, RRBy DEF RR!Fork, RR!NewPcb, NewPcb
    <2>2. Infant(c)
      BY InfantIs
    <2> HIDE DEF c
    <2> QED
      BY <1>3, <2>1, <2>2, CallIs DEF AnyStep
  <1>5. ASSUME NEW left \in Lefts, NEW time \in SleepTimes, RR!SleepFor(left, time) PROVE AnyStep
    <2>1. SleepBy(p(left), left, time)
      BY <1>2, <1>5, RRBy DEF RR!SleepFor
    <2> QED
      BY <1>3, <2>1, CallIs DEF AnyStep
  <1>6. ASSUME NEW left \in Lefts, NEW signal \in Events, RR!Signal(left, signal) \/ RR!Wait(left, signal) PROVE AnyStep
    <2>1. SignalBy(p(left), left, signal) \/ WaitBy(p(left), left, signal)
      BY <1>2, <1>6, RRBy DEF RR!Signal, RR!Wait
    <2> QED
      BY <1>3, <2>1, CallIs DEF AnyStep
  <1>7. ASSUME NEW left \in Lefts, RR!Exit(left) PROVE AnyStep
    <2>1. ExitBy(left)
      BY <1>7, RRBy DEF RR!Exit
    <2> QED
      BY <2>1 DEF AnyStep, Called
  <1>8. CASE RR!Expired
    <2>1. ExpireBy(Spent)
      BY <1>8, RRBy DEF RR!Expired, RR!Spent, Spent, RR!Running, Running
    <2>2. Expiry(Spent)
      BY <2>1, SpentIs, StopsOnCall
    <2> QED
      BY <2>1, <2>2 DEF AnyStep
  <1>9. CASE RR!NextDecision
    <2>0. Asked
      BY <1>9, RRQueues DEF RR!NextDecision
    <2> DEFINE q == Awake
               r == Preempted(q)
    <2>1. CASE RR!NobodyToRun(q)
      BY <2>0, <2>1, RRDecide DEF AnyStep, Chose
    <2>2. CASE RR!Reschedule(q)
      <3>1. FrontRuns(q) /\ CheckIfReschedule /\ KeepRunning(q, remaining)
        BY <2>2, RRQueues, RRDecide DEF RR!Reschedule
      <3> QED
        BY <2>0, <3>1, RestOfSlice, RescheduleIs DEF AnyStep
    <2>3. CASE RR!Preempt(q)
      <3>1. FrontRuns(q) /\ RunFirst(r, MaxSlice)
        BY <2>3, RRQueues, RRDecide DEF RR!Preempt
      <3>2. Lines(r, r, MaxSlice)
        BY <3>1, AwakeStill, Unmoved, WholeSlice, NoOrder DEF Lines
      <3> QED
        BY <2>0, <3>1, <3>2, PreemptIs DEF AnyStep
    <2>4. CASE RR!Start(q)
      <3>1. CanStart(q) /\ RunFirst(q, MaxSlice)
        BY <2>4, RRQueues, RRDecide DEF RR!Start
      <3>2. Lines(q, q, MaxSlice)
        BY <3>1, AwakeStill, Unmoved, WholeSlice, NoOrder DEF Lines
      <3> QED
        BY <2>0, <3>1, <3>2, StartIs DEF AnyStep
    <2> QED
      BY <1>9, <2>1, <2>2, <2>3, <2>4, RRQueues DEF RR!NextDecision
  <1>10. RR!Lefts = Lefts
    BY RRQueues
  <1> QED
    BY <1>1, <1>4, <1>5, <1>6, <1>7, <1>8, <1>9, <1>10 DEF RR!Next

-----------------------------------------------------------------------------
(* A step of the priority queue is such a step *)

LEMMA PQInOrder == ASSUME NEW s, NEW B PROVE PQ!InOrder(s, B) = InOrder(s, B)
  <1> DEFINE f(k) == CHOOSE i \in DOMAIN s : Cardinality(B[i]) + 1 = k
             g(k) == CHOOSE i \in DOMAIN s : PQ!Cardinality(B[i]) + 1 = k
  <1>1. PQ!InOrder(s, B) = [k \in DOMAIN s |-> s[g(k)]] /\ InOrder(s, B) = [k \in DOMAIN s |-> s[f(k)]]
    BY Zenon DEF PQ!InOrder, InOrder
  <1>2. \A k : g(k) = f(k)
    BY PQCardinality
  <1> HIDE DEF f, g
  <1> QED
    BY <1>1, <1>2

LEMMA PQSorted ==
    ASSUME NEW q, Still(q), q.ready # <<>>, ByPriority
    PROVE  Rearranged(PQ!Sorted(q), q) /\ \A left : Leads(PQ!Sorted(q), left)
  <1> DEFINE s == q.ready
             B == [i \in DOMAIN s |-> {j \in DOMAIN s : PQ!Higher(s[j], s[i]) \/ (j < i /\ ~PQ!Higher(s[i], s[j]))}]
  <1>1. DOMAIN s = 1 .. Len(s) /\ List(s)
    BY LenProperties DEF Still, Sound, List
  <1>2. B = PriorityOrder(s)
    BY <1>1, Zenon DEF PriorityOrder, PQ!Higher
  <1>3. PQ!Sorted(q) = [q EXCEPT !.ready = PQ!InOrder(@, B)]
    BY Zenon DEF PQ!Sorted
  <1> HIDE DEF B
  <1>4. PQ!Sorted(q) = [q EXCEPT !.ready = InOrder(@, B)]
    BY <1>3, PQInOrder, Zenon
  <1>5. IsBefore(1 .. Len(s), B)
    BY <1>1, <1>2, PriorityOrderIs
  <1> DEFINE r == PQ!Sorted(q)
  <1>6. r.ready = InOrder(s, B)
    BY <1>4, ReadySet DEF Still
  <1> HIDE DEF r
  <1>7. PICK i \in 1 .. Len(s) :
            /\ B[i] = {} /\ r.ready[1] = s[i]
            /\ \A k \in 1 .. Len(r.ready) : \E j \in 1 .. Len(s) : r.ready[k] = s[j]
    <2> HIDE DEF s
    <2>1. FirstIsFirst(r.ready, s, B)
      BY <1>1, <1>5, <1>6, SortFirst DEF s
    <2> QED
      BY <2>1 DEF FirstIsFirst
  <1>8. \A j \in 1 .. Len(s) : s[j].priority <= s[i].priority
    <2>1. \A j \in 1 .. Len(s) : ~(s[j].priority > s[i].priority)
      BY <1>2, <1>7 DEF PriorityOrder
    <2>2. \A j \in 1 .. Len(s) : s[j].priority \in Int
      BY <1>1, ListFacts DEF Pcbs
    <2> QED
      BY <2>1, <2>2
  <1>9. \A k \in 2 .. Len(r.ready) : r.ready[k].priority <= r.ready[1].priority
    BY <1>7, <1>8
  <1>10. ~ByUse
    BY Zenon DEF ByPriority, ByUse
  <1>11. \A left : Leads(r, left)
    BY <1>9, <1>10 DEF Leads, Content
  <1> QED
    BY <1>4, <1>5, <1>11, SortIs DEF r

-----------------------------------------------------------------------------
LEMMA IncPriorityIs ==
    ASSUME NEW p, NEW left, Billed(p, left) PROVE Billed(PQ!IncPriority(p), left)
  <1> DEFINE r == PQ!IncPriority(p)
  <1>0. p \in Pcbs
    BY DEF Billed
  <1>1. /\ r \in Pcbs /\ r.pid = p.pid /\ r.total = p.total /\ r.sleep = p.sleep /\ r.event = p.event
        /\ r.state = p.state /\ r.execute = p.execute /\ r.syscall = p.syscall
    BY <1>0 DEF Pcbs, PQ!IncPriority
  <1> HIDE DEF r
  <1> QED
    BY <1>1 DEF Billed, Cost, r

\* A process that gains priority makes nobody less content.
LEMMA IncPriorityPays ==
    ASSUME Inv, Calls, ByPriority, NEW left \in Lefts PROVE Pays(PQ!IncPriority(Charged(left)), left)
  <1> DEFINE a == Charged(left)
             p == PQ!IncPriority(a)
  <1>1. a \in Pcbs /\ a.priority = Running.priority /\ Running.priority \in Int
    BY ChargedLooks
  <1> HIDE DEF a
  <1>2. p.priority >= a.priority /\ p.priority \in Int
    <2>1. CASE a.actual_priority > a.priority
      <3> DEFINE n == a.priority + 1
      <3>1. n \in Int /\ n >= a.priority
        BY <1>1
      <3>2. p = [a EXCEPT !.priority = n]
        BY <2>1, Zenon DEF PQ!IncPriority
      <3> HIDE DEF n, p
      <3>3. p.priority = n
        BY <1>1, <3>2 DEF Pcbs
      <3> QED
        BY <3>1, <3>3
    <2>2. CASE ~(a.actual_priority > a.priority)
      <3>1. p = a
        BY <2>2, Zenon DEF PQ!IncPriority
      <3> HIDE DEF p
      <3> QED
        BY <1>1, <3>1
    <2> QED
      BY <2>1, <2>2
  <1> HIDE DEF p
  <1>3. \A x \in Pcbs : x.priority <= Running.priority => x.priority <= p.priority
    BY <1>1, <1>2 DEF Pcbs
  <1>4. ~ByUse
    BY Zenon DEF ByPriority, ByUse
  <1>5. Pays(p, left)
    BY <1>3, <1>4 DEF Pays, Content
  <1> QED
    BY <1>5 DEF p, a

LEMMA DecPriorityIs == ASSUME NEW p, Expiry(p) PROVE Expiry(PQ!DecPriority(p))
  <1> DEFINE r == PQ!DecPriority(p)
  <1>0. p \in Pcbs
    BY DEF Expiry
  <1>1. CASE p.priority = 0
    BY <1>1 DEF PQ!DecPriority
  <1>2. CASE p.priority # 0
    <2> DEFINE n == IF p.priority = -128 THEN 127 ELSE p.priority - 1
    <2>1. n \in Int
      BY <1>0 DEF Pcbs
    <2>2. r = [p EXCEPT !.priority = n]
      BY <1>2, Zenon DEF PQ!DecPriority
    <2> HIDE DEF n, r
    <2>3. /\ r \in Pcbs /\ r.pid = p.pid /\ r.total = p.total /\ r.sleep = p.sleep /\ r.event = p.event
          /\ r.state = p.state /\ r.execute = p.execute /\ r.syscall = p.syscall
      BY <1>0, <2>1, <2>2 DEF Pcbs
    <2> QED
      BY <2>3 DEF Expiry, Cost, r
  <1> QED
    BY <1>1, <1>2

LEMMA PQStep == ASSUME Inv, ByPriority, PQ!Next PROVE AnyStep
  <1>0. ~InTurn
    BY Zenon DEF InTurn, ByPriority
  <1>1. CASE PQ!Boot
    <2>1. BootBy(NewPcb(1, 0))
      BY <1>1, PQBy DEF PQ!Boot, PQ!NewPcb, NewPcb
    <2> QED
      BY <2>1, FirstInfantIs DEF AnyStep
  <1> DEFINE p(left) == PQ!IncPriority(Charged(left))
  <1>2. \A left : PQ!IncPriority(PQ!Charged(left)) = p(left)
    <2>1. \A left : PQ!Charged(left) = Charged(left)
      BY DEF PQ!Charged, Charged, PQ!Running, Running, PQ!Used, Used
    <2> QED
      BY <2>1
  <1>3. \A left \in Lefts : Calls => Billed(p(left), left) /\ Pays(p(left), left)
    BY ChargedIs, IncPriorityIs, IncPriorityPays
  <1> HIDE DEF p
  <1>4. ASSUME NEW left \in Lefts, NEW priority \in Priorities, PQ!Fork(left, priority) PROVE AnyStep
    <2> DEFINE c == NewPcb(next_pid, priority)
    <2>1. ForkBy(p(left), left, c)
      BY <1>2, <1>4, PQBy DEF PQ!Fork, PQ!NewPcb, NewPcb
    <2>2. Infant(c)
      BY InfantIs, QueuesAssumption
    <2> HIDE DEF c
    <2> QED
      BY <1>3, <2>1, <2>2, CallIs DEF AnyStep
  <1>5. ASSUME NEW left \in Lefts, NEW time \in SleepTimes, PQ!SleepFor(left, time) PROVE AnyStep
    <2>1. SleepBy(p(left), left, time)
      BY <1>2, <1>5, PQBy DEF PQ!SleepFor
    <2> QED
      BY <1>3, <2>1, CallIs DEF AnyStep
  <1>6. ASSUME NEW left \in Lefts, NEW signal \in Events, PQ!Signal(left, signal) \/ PQ!Wait(left, signal) PROVE AnyStep
    <2>1. SignalBy(p(left), left, signal) \/ WaitBy(p(left), left, signal)
      BY <1>2, <1>6, PQBy DEF PQ!Signal, PQ!Wait
    <2> QED
      BY <1>3, <2>1, CallIs DEF AnyStep
  <1>7. ASSUME NEW left \in Lefts, PQ!Exit(left) PROVE AnyStep
    <2>1. ExitBy(left)
      BY <1>7, PQBy DEF PQ!Exit
    <2> QED
      BY <2>1 DEF AnyStep, Called
  <1>8. CASE PQ!Expired
    <2> DEFINE e == PQ!DecPriority(Spent)
    <2>1. ExpireBy(e)
      BY <1>8, PQBy DEF PQ!Expired, PQ!Spent, Spent, PQ!Running, Running
    <2>2. Expiry(e)
      BY <2>1, SpentIs, StopsOnCall, DecPriorityIs
    <2> HIDE DEF e
    <2> QED
      BY <2>1, <2>2 DEF AnyStep
  <1>9. CASE PQ!NextDecision
    <2>0. Asked
      BY <1>9, PQQueues DEF PQ!NextDecision
    <2> DEFINE q == Awake
               r == PQ!Sorted(Preempted(q))
               s == PQ!Sorted(q)
    <2>1. CASE PQ!NobodyToRun(q)
      BY <2>0, <2>1, PQDecide DEF AnyStep, Chose
    <2>2. CASE PQ!Reschedule(q)
      <3>1. FrontRuns(q) /\ CheckIfReschedule /\ KeepRunning(q, remaining)
        BY <2>2, PQQueues, PQDecide DEF PQ!Reschedule
      <3> QED
        BY <2>0, <3>1, RestOfSlice, RescheduleIs DEF AnyStep
    <2>3. CASE PQ!Preempt(q)
      <3>1. FrontRuns(q) /\ RunFirst(r, MaxSlice)
        BY <2>3, PQQueues, PQDecide DEF PQ!Preempt
      <3>2. Lines(r, Preempted(q), MaxSlice)
        BY <1>0, <3>1, AwakeStill, PQSorted, WholeSlice DEF Lines
      <3> HIDE DEF r
      <3> QED
        BY <2>0, <3>1, <3>2, PreemptIs DEF AnyStep
    <2>4. CASE PQ!Start(q)
      <3>1. CanStart(q) /\ RunFirst(s, MaxSlice)
        BY <2>4, PQQueues, PQDecide DEF PQ!Start
      <3>2. Lines(s, q, MaxSlice)
        BY <1>0, <3>1, AwakeStill, PQSorted, WholeSlice DEF Lines
      <3> HIDE DEF s
      <3> QED
        BY <2>0, <3>1, <3>2, StartIs DEF AnyStep
    <2> QED
      BY <1>9, <2>1, <2>2, <2>3, <2>4, PQQueues DEF PQ!NextDecision
  <1>10. PQ!Lefts = Lefts
    BY PQQueues
  <1> QED
    BY <1>1, <1>4, <1>5, <1>6, <1>7, <1>8, <1>9, <1>10 DEF PQ!Next

-----------------------------------------------------------------------------
(* A step of CFS is such a step *)

LEMMA CFSMin == ASSUME NEW S PROVE CFS!Min(S) = Min(S)
  BY Zenon DEF CFS!Min, Min

LEMMA CFSInOrder == ASSUME NEW s, NEW B PROVE CFS!InOrder(s, B) = InOrder(s, B)
  <1> DEFINE f(k) == CHOOSE i \in DOMAIN s : Cardinality(B[i]) + 1 = k
             g(k) == CHOOSE i \in DOMAIN s : CFS!Cardinality(B[i]) + 1 = k
  <1>1. CFS!InOrder(s, B) = [k \in DOMAIN s |-> s[g(k)]] /\ InOrder(s, B) = [k \in DOMAIN s |-> s[f(k)]]
    BY Zenon DEF CFS!InOrder, InOrder
  <1>2. \A k : g(k) = f(k)
    BY CFSCardinality
  <1> HIDE DEF f, g
  <1> QED
    BY <1>1, <1>2

LEMMA CFSSorted ==
    ASSUME NEW q, Still(q), q.ready # <<>>, ByUse
    PROVE  Rearranged(CFS!Sorted(q), q) /\ \A left \in 0 .. MaxSlice : Leads(CFS!Sorted(q), left)
  <1> DEFINE s == q.ready
             B == [i \in DOMAIN s |-> {j \in DOMAIN s : CFS!UsedLess(s[j], s[i])}]
  <1>1. DOMAIN s = 1 .. Len(s) /\ List(s)
    BY LenProperties DEF Still, Sound, List
  <1>2. B = UsageOrder(s)
    BY <1>1, Zenon DEF UsageOrder, CFS!UsedLess
  <1>3. CFS!Sorted(q) = [q EXCEPT !.ready = CFS!InOrder(@, B)]
    BY Zenon DEF CFS!Sorted
  <1> HIDE DEF B
  <1>4. CFS!Sorted(q) = [q EXCEPT !.ready = InOrder(@, B)]
    BY <1>3, CFSInOrder, Zenon
  <1>5. IsBefore(1 .. Len(s), B)
    BY <1>1, <1>2, UsageOrderIs
  <1> DEFINE r == CFS!Sorted(q)
  <1>6. r.ready = InOrder(s, B)
    BY <1>4, ReadySet DEF Still
  <1> HIDE DEF r
  <1>7. PICK i \in 1 .. Len(s) :
            /\ B[i] = {} /\ r.ready[1] = s[i]
            /\ \A k \in 1 .. Len(r.ready) : \E j \in 1 .. Len(s) : r.ready[k] = s[j]
    <2> HIDE DEF s
    <2>1. FirstIsFirst(r.ready, s, B)
      BY <1>1, <1>5, <1>6, SortFirst DEF s
    <2> QED
      BY <2>1 DEF FirstIsFirst
  <1>8. \A j \in 1 .. Len(s) : s[i].extra \in Nat /\ s[j].extra \in Nat /\ s[i].extra <= s[j].extra
    <2>1. \A j \in 1 .. Len(s) : ~(s[j].extra < s[i].extra)
      BY <1>2, <1>7 DEF UsageOrder
    <2>2. \A j \in 1 .. Len(s) : s[j].extra \in Nat
      BY <1>1, ListFacts DEF Pcbs
    <2> QED
      BY <2>1, <2>2
  <1>9. \A k \in 2 .. Len(r.ready) :
            /\ r.ready[1].extra \in Nat /\ r.ready[k].extra \in Nat
            /\ r.ready[1].extra <= r.ready[k].extra
    BY <1>7, <1>8
  <1>10. ~ByPriority
    BY Zenon DEF ByPriority, ByUse
  <1>11. \A left \in 0 .. MaxSlice : Leads(r, left)
    <2>1. MaxSlice \in Nat
      BY QueuesAssumption
    <2> QED
      BY <1>9, <1>10, <2>1 DEF Leads, Content
  <1> QED
    BY <1>4, <1>5, <1>11, SortIs DEF r

LEMMA ShareIs == ASSUME Inv, Awake.ready # <<>> PROVE IsSlice(CFS!Share(Awake))
  <1> DEFINE n == Len(Awake.ready)
             d == MaxSlice \div n
  <1>1. n \in 1 .. MaxPid /\ MaxPid \in Nat /\ MaxSlice \in Nat
    BY AtMostMaxPid, QueuesAssumption
  <1> HIDE DEF n
  <1>2. d \in 0 .. MaxSlice /\ (n <= MaxSlice => d >= 1)
    BY <1>1, Divides
  <1>3. CFS!Share(Awake) = d
    BY DEF CFS!Share, CFS!CpuTime, n
  <1> HIDE DEF d
  <1>4. IsSlice(d)
    BY <1>1, <1>2 DEF IsSlice, Roomy
  <1> QED
    BY <1>3, <1>4

LEMMA ShrunkIs ==
    ASSUME Inv, ByUse, CheckIfReschedule, Awake.ready # <<>> PROVE Continues(CFS!Shrunk(Awake))
  <1> DEFINE d == CFS!Share(Awake)
             c == CFS!Shrunk(Awake)
  <1>0. MaxSlice \in Nat \ {0} /\ remaining \in 0 .. MaxSlice /\ (Usual => remaining >= 1)
    BY QueuesAssumption DEF Inv, CountersOK, CheckIfReschedule, Usual
  <1>1. IsSlice(d) /\ IsSlice(remaining)
    BY ShareIs, RestOfSlice
  <1>2. CASE d = 0
    <2>1. c = 1
      BY <1>2 DEF CFS!Shrunk
    <2> QED
      BY <1>0, <2>1 DEF IsSlice, Continues
  <1>3. CASE d # 0
    <2>1. c = CFS!Min({d, remaining})
      BY <1>3 DEF CFS!Shrunk
    <2> HIDE DEF c, d
    <2>2. {d, remaining} \in SUBSET Nat
      BY <1>0, <1>1 DEF IsSlice
    <2>3. Min({d, remaining}) \in {d, remaining} /\ Min({d, remaining}) <= remaining
      BY <2>2, LeastOfNumbers
    <2>4. c = Min({d, remaining})
      BY <2>1, CFSMin
    <2> DEFINE m == Min({d, remaining})
    <2>5. (m = d \/ m = remaining) /\ m <= remaining
      BY <2>3
    <2> HIDE DEF m
    <2>6. IsSlice(m) /\ m <= remaining
      BY <1>1, <2>5
    <2>7. Continues(c)
      BY <2>4, <2>6 DEF Continues, m
    <2> QED
      BY <2>7 DEF c
  <1> QED
    BY <1>2, <1>3

LEMMA LeastIs ==
    ASSUME Inv, Calls, NEW p \in Pcbs
    PROVE  CFS!MinimumVruntime({p} \cup Range(Everyone(Others))) \in Nat
  <1> DEFINE S == {p} \cup Range(Everyone(Others))
             N == {VruntimeCap} \cup {x.extra : x \in S}
  <1>1. S \in SUBSET Pcbs
    BY RunningIs, SoundFolk DEF Still
  <1> HIDE DEF S
  <1>2. N \in SUBSET Nat /\ N # {}
    BY <1>1, CfsAssumption DEF Pcbs
  <1>3. CFS!MinimumVruntime(S) = CFS!Min(N)
    BY Zenon DEF CFS!MinimumVruntime
  <1> HIDE DEF N
  <1>4. CFS!MinimumVruntime(S) \in Nat
    BY <1>2, <1>3, CFSMin, LeastOfNumbers
  <1> QED
    BY <1>4 DEF S

LEMMA CFSStep == ASSUME Inv, ByUse, CFS!Next PROVE AnyStep
  <1>11. ~InTurn
    BY Zenon DEF InTurn, ByUse
  <1>0. \A left : CFS!Charged(left) = Charged(left)
    BY DEF CFS!Charged, Charged, CFS!Running, Running, CFS!Used, Used
  <1>1. CASE CFS!Boot
    <2>1. BootBy(NewPcb(1, 0))
      BY <1>1, CFSBy DEF CFS!Boot, CFS!NewPcb, NewPcb
    <2> QED
      BY <2>1, FirstInfantIs DEF AnyStep
  <1> DEFINE p(left) == CFS!ChargedCpu(left)
  <1>2. \A left : p(left) = [Charged(left) EXCEPT !.extra = @ + Used(left)]
    BY <1>0, Zenon DEF CFS!ChargedCpu, CFS!Used, Used
  <1> HIDE DEF p
  <1>3. \A left \in Lefts : Calls => p(left) \in Pcbs /\ Billed(p(left), left) /\ Pays(p(left), left)
    <2> SUFFICES ASSUME NEW left \in Lefts, Calls
                 PROVE  p(left) \in Pcbs /\ Billed(p(left), left) /\ Pays(p(left), left)
      OBVIOUS
    <2>1. Billed(Charged(left), left) /\ Used(left) \in Nat
      BY ChargedIs, UsedIs
    <2>2. Charged(left) \in Pcbs
      BY <2>1 DEF Billed
    <2> QED
      BY <1>2, <2>1, <2>2, MoreUsed, MoreUsedPays
  <1>4. ASSUME NEW left \in Lefts, NEW priority \in {0}, CFS!Fork(left, priority) PROVE AnyStep
    <2> DEFINE least == CFS!MinimumVruntime({p(left)} \cup Range(Everyone(Others)))
               c == [NewPcb(next_pid, 0) EXCEPT !.extra = least]
    <2>1. CFS!Range(CFS!Everyone(CFS!Others)) = Range(Everyone(Others))
      BY Zenon DEF CFS!Range, Range, CFS!Everyone, Everyone, CFS!Others, Others, CFS!Queues, Queues
    <2>2. CFS!NewPcb(next_pid, priority) = NewPcb(next_pid, 0) /\ CFS!ChargedCpu(left) = p(left)
      BY <1>4 DEF CFS!NewPcb, NewPcb, p
    <2>3. CFS!ForkBy(p(left), left, c)
      BY <1>4, <2>1, <2>2, Zenon DEF CFS!Fork
    <2> HIDE DEF c, least
    <2>4. ForkBy(p(left), left, c)
      BY <2>3, CFSBy
    <2>5. Infant(c)
      <3>1. Calls
        BY <2>4, StopsOnCall
      <3>2. least \in Nat
        BY <1>3, <3>1, LeastIs DEF least
      <3> QED
        BY <3>2, ChildIs DEF c
    <2> QED
      BY <1>3, <2>4, <2>5, CallIs DEF AnyStep
  <1>5. ASSUME NEW left \in Lefts, NEW time \in SleepTimes, CFS!SleepFor(left, time) PROVE AnyStep
    <2>1. SleepBy(p(left), left, time)
      BY <1>5, CFSBy DEF CFS!SleepFor, p
    <2> QED
      BY <1>3, <2>1, CallIs DEF AnyStep
  <1>6. ASSUME NEW left \in Lefts, NEW signal \in Events, CFS!Signal(left, signal) \/ CFS!Wait(left, signal) PROVE AnyStep
    <2>1. SignalBy(p(left), left, signal) \/ WaitBy(p(left), left, signal)
      BY <1>6, CFSBy DEF CFS!Signal, CFS!Wait, p
    <2> QED
      BY <1>3, <2>1, CallIs DEF AnyStep
  <1>7. ASSUME NEW left \in Lefts, CFS!Exit(left) PROVE AnyStep
    <2>1. ExitBy(left)
      BY <1>7, CFSBy DEF CFS!Exit
    <2> QED
      BY <2>1 DEF AnyStep, Called
  <1>8. CASE CFS!Expired
    <2> DEFINE e == [Spent EXCEPT !.extra = @ + remaining]
    <2>0. CFS!Spent = Spent
      BY Zenon DEF CFS!Spent, Spent, CFS!Running, Running
    <2>1. ExpireBy(e)
      BY <1>8, <2>0, CFSBy DEF CFS!Expired
    <2>2. Expiry(Spent) /\ Spent \in Pcbs /\ remaining \in Nat
      <3>1. Calls
        BY <2>1, StopsOnCall
      <3>2. Expiry(Spent)
        BY <3>1, SpentIs
      <3> QED
        BY <3>2 DEF Expiry, Inv, CountersOK
    <2>3. Expiry(e)
      BY <2>2, MoreUsed
    <2> HIDE DEF e
    <2> QED
      BY <2>1, <2>3 DEF AnyStep
  <1>9. CASE CFS!NextDecision
    <2>0. Asked
      BY <1>9, CFSQueues DEF CFS!NextDecision
    <2> DEFINE q == Awake
               r == CFS!Sorted(Preempted(q))
               s == CFS!Sorted(q)
               d == CFS!Share(q)
               c == CFS!Shrunk(q)
    <2>1. CASE CFS!NobodyToRun(q)
      BY <2>0, <2>1, CFSDecide DEF AnyStep, Chose
    <2>2. CASE CFS!Reschedule(q)
      <3>1. FrontRuns(q) /\ CheckIfReschedule /\ KeepRunning(q, c)
        BY <2>2, CFSQueues, CFSDecide DEF CFS!Reschedule
      <3>2. Continues(c)
        BY <3>1, ShrunkIs DEF FrontRuns
      <3> HIDE DEF c
      <3> QED
        BY <2>0, <3>1, <3>2, RescheduleIs DEF AnyStep
    <2>3. CASE CFS!Preempt(q)
      <3>1. FrontRuns(q) /\ RunFirst(r, d)
        BY <2>3, CFSQueues, CFSDecide DEF CFS!Preempt
      <3>2. Rearranged(r, Preempted(q)) /\ \A left \in 0 .. MaxSlice : Leads(r, left)
        BY <3>1, AwakeStill, CFSSorted
      <3>3. IsSlice(d)
        BY <3>1, ShareIs DEF FrontRuns
      <3> HIDE DEF r, d
      <3>4. Lines(r, Preempted(q), d)
        BY <1>11, <3>2, <3>3 DEF Lines, IsSlice
      <3> QED
        BY <2>0, <3>1, <3>4, PreemptIs DEF AnyStep
    <2>4. CASE CFS!Start(q)
      <3>1. CanStart(q) /\ RunFirst(s, d)
        BY <2>4, CFSQueues, CFSDecide DEF CFS!Start
      <3>2. Rearranged(s, q) /\ \A left \in 0 .. MaxSlice : Leads(s, left)
        BY <3>1, AwakeStill, CFSSorted
      <3>3. IsSlice(d)
        BY <3>1, ShareIs DEF CanStart
      <3> HIDE DEF s, d
      <3>4. Lines(s, q, d)
        BY <1>11, <3>2, <3>3 DEF Lines, IsSlice
      <3> QED
        BY <2>0, <3>1, <3>4, StartIs DEF AnyStep
    <2> QED
      BY <1>9, <2>1, <2>2, <2>3, <2>4, CFSQueues DEF CFS!NextDecision
  <1>10. CFS!Lefts = Lefts
    BY CFSQueues
  <1> QED
    BY <1>1, <1>4, <1>5, <1>6, <1>7, <1>8, <1>9, <1>10 DEF CFS!Next

-----------------------------------------------------------------------------
(* The theorems *)

LEMMA StepIsAny == ASSUME Inv, Step PROVE AnyStep
  <1>1. \/ InTurn /\ RR!Next
        \/ ByPriority /\ PQ!Next
        \/ ByUse /\ CFS!Next
    BY Zenon DEF Step, InTurn, ByPriority, ByUse
  <1> QED
    BY <1>1, RRStep, PQStep, CFSStep

LEMMA InvHolds == Spec => []Inv
  <1>1. Chosen => Inv
    BY InitInv DEF Chosen
  <1>2. Inv /\ [Step]_<<vars, policy>> => Inv'
    BY StepIsAny, StepKeepsInv, StutterKeepsInv
  <1> QED
    BY <1>1, <1>2, PTL DEF Spec

\* Whatever the policy, the number of processes, the slices and the sleeps: every
\* unit of time was slept by the processor or spent by one process, and the total
\* of a process is its age (round_robin.rs:24-46, 94-175).
THEOREM TimesAlwaysAddUp == Spec => []TimesAddUp
  BY InvHolds, InvAddsUp, PTL

\* Whatever the policy, the number of processes and the slice: the scheduler keeps
\* the promises of scheduler.rs.  The events are events, no sleep is of 0 (its
\* sleeper would never wake, round_robin.rs:33), every process gets a share of the
\* time and no slice goes on with nothing left (next() would panic,
\* round_robin.rs:178, cfs.rs:203).
THEOREM PromisesAreKept == ASSUME Proper, Roomy PROVE Spec => KeepsPromises
  <1>1. Chosen => Turn /\ Abstract!SchedInit
    BY InitIsSeen DEF Chosen
  <1>2. Inv /\ Turn /\ [Step]_<<vars, policy>> => SeenStep /\ Turn'
    BY StepIsAny, StepIsSeen, StutterIsSeen
  <1>3. SeenStep => [Abstract!SchedNext]_Abstract!schedVars
    BY DEF SeenStep, Abstract!schedVars, SeenNow, Verdict
  <1> QED
    BY <1>1, <1>2, <1>3, InvHolds, PTL DEF Spec, KeepsPromises, Abstract!SchedSpec

LEMMA PatienceHolds == Spec => [](Inv /\ Patience)
  <1>1. Chosen => Inv /\ Patience
    BY InitInv, InitPatience DEF Chosen
  <1>2. Inv /\ Patience /\ [Step]_<<vars, policy>> => (Inv /\ Patience)'
    <2> SUFFICES ASSUME Inv, Patience, [Step]_<<vars, policy>> PROVE (Inv /\ Patience)'
      OBVIOUS
    <2>1. CASE Step
      <3>1. policy' = policy
        BY <2>1, Zenon DEF Step
      <3> QED
        BY <2>1, <3>1, StepIsAny, StepPatience
    <2>2. CASE UNCHANGED <<vars, policy>>
      BY <2>2, StutterKeepsInv, StutterPatience
    <2> QED
      BY <2>1, <2>2
  <1> QED
    BY <1>1, <1>2, PTL DEF Spec

-----------------------------------------------------------------------------
(* What it means for each policy *)

\* Round robin, for any number of processes and any slice: whoever is ready waits
\* no longer than a slice for each process that was before it when it became so
\* (round_robin.rs:180-194: the preempted process goes to the back of the queue).
THEOREM EveryTurnComes == Spec => []BoundedWait
  <1>1. Inv /\ Patience => BoundedWait
    <2> SUFFICES ASSUME Inv, Patience PROVE BoundedWait
      OBVIOUS
    <2>1. ASSUME InTurn, NEW p \in Range(ready), IsReady(p)
          PROVE  clock - entered[p.pid].at <= entered[p.pid].ahead * MaxSlice
      <3>1. p \in Who(ready)
        BY StandingIs, WhoIsRange DEF List
      <3>2. PICK k \in 1 .. Len(ready) : p = ready[k]
        BY <3>1 DEF Who
      <3> QED
        BY <2>1, <3>2, TurnsCome
    <2> QED
      BY <2>1, Zenon DEF BoundedWait, InTurn, RR!BoundedWait, RR!IsReady, IsReady, RR!Range, Range
  <1> QED
    BY <1>1, PatienceHolds, PTL

\* Priorities, for any priorities and slice: a process keeps one of higher priority
\* waiting only if that one became ready in the slice that runs
\* (priority_queue_round_robin.rs:165-182: sorted before each start, and a process
\* that stops early gains priority).
THEOREM HigherPrioritySoonRuns == Spec => []HigherPriorityWaitsLittle
  <1>1. Inv /\ Patience => HigherPriorityWaitsLittle
    <2> SUFFICES ASSUME Inv, Patience PROVE HigherPriorityWaitsLittle
      OBVIOUS
    <2>1. ByPriority => Usual
      BY Zenon DEF ByPriority, Usual, ByUse
    <2>2. ASSUME ByPriority, decision.kind = "Run", NEW p \in Range(Tail(ready)), p.priority > Head(ready).priority
          PROVE  clock - entered[p.pid].at < MaxSlice
      <3>1. p.priority \in Int /\ Running.priority \in Int /\ Running = Head(ready)
        BY <2>1, <2>2, OthersBear DEF Pcbs, Running
      <3>2. ~(p.priority <= Running.priority)
        BY <2>2, <3>1
      <3> QED
        BY <2>1, <2>2, <3>2, OthersBear DEF Content
    <2> QED
      BY <2>2, Zenon DEF HigherPriorityWaitsLittle, ByPriority, PQ!HigherPriorityWaitsLittle, PQ!InversionIsShort,
                         PQ!Higher, PQ!Running, Running, PQ!Range, Range
  <1> QED
    BY <1>1, PatienceHolds, PTL

\* CFS, for any cpu_time: a process that used the processor a whole cpu_time more
\* than a ready one runs on only in the slice in which that one became ready
\* (cfs.rs:199-220).  No slice goes on with nothing left of it.
THEOREM LeastUsedSoonRuns == ASSUME MinRemaining >= 1 PROVE Spec => []LeastUsedWaitsLittle
  <1>1. Inv /\ Patience => LeastUsedWaitsLittle
    <2> SUFFICES ASSUME Inv, Patience PROVE LeastUsedWaitsLittle
      OBVIOUS
    <2>1. Usual
      BY DEF Usual
    <2>2. ASSUME ByUse, decision.kind = "Run", NEW p \in Range(Tail(ready)), Head(ready).extra >= p.extra + MaxSlice
          PROVE  clock - entered[p.pid].at < MaxSlice
      <3>1. /\ p.extra \in Nat /\ Running.extra \in Nat /\ Running = Head(ready)
            /\ remaining \in Nat /\ remaining >= 1 /\ MaxSlice \in Nat
        BY <2>1, <2>2, OthersBear DEF Pcbs, Running
      <3>2. ~(Running.extra + remaining <= p.extra + MaxSlice)
        BY <2>2, <3>1
      <3> QED
        BY <2>1, <2>2, <3>2, OthersBear DEF Content
    <2> QED
      BY <2>2, Zenon DEF LeastUsedWaitsLittle, ByUse, CFS!LeastUsedWaitsLittle, CFS!InversionIsShort,
                         CFS!CpuTime, CFS!Running, Running, CFS!Range, Range
  <1> QED
    BY <1>1, PatienceHolds, PTL

=============================================================================
