------------------------ MODULE OtherPrograms_proofs -------------------------
(***************************************************************************)
(* Theorems about four programs that have nothing to do with each other.   *)
(*                                                                         *)
(* The Processor of the process scheduler, for every set of processes,     *)
(* every longest timeslice and every scheduler that keeps the promises of  *)
(* Scheduling: while the processor runs, one process at most is out of     *)
(* suspend().                                                              *)
(*                                                                         *)
(* The REST client: its token and its cookie always belong together, and a *)
(* command looks at a whole answer unless the connection broke.            *)
(*                                                                         *)
(* The tape of SDA-magic-tape, of any length and after any commands: its   *)
(* list stays doubly linked, also when an allocation fails, and while none *)
(* does it shows what a tape of positions shows.                           *)
(*                                                                         *)
(* Kahn's algorithm, for every finite graph: an edge never leads back in   *)
(* the order, and no node that is free of predecessors is forgotten.  The  *)
(* counter of a node is what makes this true: it is the number of edges    *)
(* from nodes that are not in the order yet.                               *)
(***************************************************************************)
EXTENDS Processor, RestClient, MCMagicStrip, FiniteSetTheorems, SequenceTheorems, WellFoundedInduction, TLAPS

States == {"Unborn", "Ready", "Running", "Asleep", "Waiting", "Gone"}
Processes == [Pids -> [is : States, until : Int, event : Events \cup {NoEvent}]]

SimulatedInv ==
    /\ proc \in Processes
    /\ clock \in Int

ThreadsInv ==
    /\ at \in [Threads -> {"unborn", "calls", "decides", "spawns", "suspends", "waits",
                           "user", "joins", "ended", "panicked"}]
    /\ reason \in [Threads -> Reasons \cup {Expired, NoReason}]
    /\ \A t \in Threads : at[t] = "calls" => reason[t] # NoReason
    /\ child \in [Threads -> Pids \cup {0}]

\* Thread 0 boots the scheduler before there is any other, and never takes part
\* in the turns.
MainInv ==
    /\ at[Main] \in {"calls", "decides", "spawns", "joins", "ended", "panicked"}
    /\ at[Main] \in {"calls", "decides"} => reason[Main] = Syscall("Fork")
    /\ at[Main] = "calls" => current_process = 0 /\ \A p \in Pids : at[p] = "unborn"

\* A thread that has forked knows the pid of its child until it spawns it, and
\* nobody else does.
ChildInv ==
    \A t \in Threads :
        /\ child[t] # 0 <=> at[t] = "spawns" \/ (at[t] = "decides" /\ reason[t].kind = "Fork")
        /\ child[t] # 0 => at[child[t]] = "unborn" /\ proc[child[t]].is \notin {"Unborn", "Gone"}
        /\ \A s \in Threads : child[s] = child[t] /\ child[t] # 0 => s = t

\* The processes that the scheduler has created have a thread or are about to,
\* and those that have exited have ended.
BirthInv ==
    \A p \in Pids :
        /\ proc[p].is = "Unborn" => at[p] = "unborn"
        /\ at[p] = "unborn" /\ proc[p].is # "Unborn" => \E t \in Threads : child[t] = p
        /\ proc[p].is = "Gone" =>
               at[p] = "ended" \/ (at[p] = "decides" /\ reason[p].kind = "Exit")

\* Nobody has the turn while one thread decides.
DecideInv ==
    \A t \in Threads : at[t] = "decides" =>
        /\ current_process = 0
        /\ \A s \in Threads : at[s] = "decides" => s = t

\* The scheduler and the processor agree on whose turn it is, and on what is left
\* of it once the system call or the expiry under way is counted.
Left(t) == proc[t].until - clock
TurnInv ==
    /\ current_process \in Pids \cup {0}
    /\ \A t \in Pids : current_process = t =>
           /\ proc[t].is = "Running"
           /\ at[t] # "calls" => remaining \in 1 .. MaxSlice /\ remaining <= Left(t)
    /\ \A t \in Pids : at[t] \in {"user", "calls"} => current_process = t
    /\ \A t \in Pids : at[t] = "calls" /\ reason[t] # Expired => remaining \in 0 .. Left(t) - 1

TInv == SimulatedInv /\ ThreadsInv /\ MainInv /\ ChildInv /\ BirthInv

\* Once the scheduler has given up, all the threads run, and no turn is left.
IInv == TInv /\ (running => DecideInv /\ TurnInv)

-----------------------------------------------------------------------------

\* fetch_sub does not wrap around within a slice.
LEMMA LessIsPredecessor ==
    ASSUME NEW n \in 1 .. MaxSlice
    PROVE  Less(n) = n - 1
<1>1. n - 1 \in 0 .. Word - 1 /\ Word \in Nat \ {0}
    BY ProcessorAssumption, SMT
<1>2. QED
    BY <1>1, SMT DEF Less

\* Thread 0 is nobody's process.
LEMMA MainIsNoPid == Main \notin Pids /\ Main \in Threads /\ Pids \subseteq Threads
    BY ProcessorAssumption DEF Main, Threads

\* Waking processes leaves processes.
LEMMA WokenIsTyped ==
    ASSUME NEW f \in Processes, NEW now
    PROVE  Woken(f, now) \in Processes
    BY DEF Woken, Processes, State, States

\* A process in a state without time or event is a process.
LEMMA StateIsTyped ==
    ASSUME NEW s \in States
    PROVE  State(s) \in [is : States, until : Int, event : Events \cup {NoEvent}]
    BY DEF State

\* Being ready is a state of its own.
LEMMA ReadyIs == State("Ready").is = "Ready"
    BY DEF State

\* The processes of B are born, those of G have exited, and no others.
Fates(B, G) ==
    \A p \in Pids :
        /\ proc'[p].is = "Unborn" <=> proc[p].is = "Unborn" /\ p \notin B
        /\ proc'[p].is = "Gone" <=> proc[p].is = "Gone" \/ p \in G

\* Booting the scheduler creates process 1.
LEMMA BootEffect ==
    ASSUME SimulatedInv, Boot
    PROVE  /\ SimulatedInv'
           /\ Created \in Pids /\ proc[Created].is = "Unborn"
           /\ Fates({Created}, {})
<1>1. proc' \in Processes
    BY ProcessorAssumption DEF Boot, SimulatedInv, State, States, Processes
<1>2. /\ \A p \in Pids : proc[p].is = "Unborn"
      /\ \A p \in Pids : proc'[p] = IF p = 1 THEN State("Ready") ELSE proc[p]
    BY ProcessorAssumption DEF Boot, SimulatedInv, In, Processes
<1>3. Created = 1
    BY <1>2, ProcessorAssumption DEF Created, State
<1>4. Fates({Created}, {})
    BY <1>2, <1>3 DEF Fates, State
<1>5. QED
    BY <1>1, <1>2, <1>3, <1>4, ProcessorAssumption DEF Boot, SimulatedInv

\* Of the processes f that a stop leaves, those that wake are neither born nor
\* gone.
LEMMA StopsEffect ==
    ASSUME SimulatedInv, NEW t \in Pids, NEW now, NEW f \in Processes, Stops(t, now, f),
           NEW B, NEW G,
           \A p \in Pids : /\ f[p].is = "Unborn" <=> proc[p].is = "Unborn" /\ p \notin B
                           /\ f[p].is = "Gone" <=> proc[p].is = "Gone" \/ p \in G
    PROVE  SimulatedInv' /\ Fates(B, G)
<1>1. now \in Int
    BY DEF Stops, SimulatedInv, Processes
<1>2. SimulatedInv'
    BY <1>1, WokenIsTyped DEF Stops, SimulatedInv
<1>3. \A p \in Pids : proc'[p] = f[p] \/ (f[p].is = "Asleep" /\ proc'[p] = State("Ready"))
    BY DEF Stops, Woken
<1>4. Fates(B, G)
    BY <1>3 DEF Fates, State
<1>5. QED
    BY <1>2, <1>4

\* Whatever its reason, the thread that stops is that of the running process; a
\* fork creates one process, and an exit is that of this process.
StopPromise(t) ==
    /\ SimulatedInv'
    /\ reason[t].kind = "Fork" => Created \in Pids /\ proc[Created].is = "Unborn"
    /\ Fates(IF reason[t].kind = "Fork" THEN {Created} ELSE {},
             IF reason[t].kind = "Exit" THEN {t} ELSE {})

\* Each reason to stop keeps the promise above.
LEMMA StopEffect ==
    ASSUME SimulatedInv, NEW t \in Pids, t # Main,
           reason[t] \in Reasons \cup {Expired}, StopFor(t)
    PROVE  proc[t].is = "Running" /\ StopPromise(t)
<1> DEFINE r == reason[t]
           now == Now(t)
<1>1. proc \in Processes
    BY DEF SimulatedInv
<1>2. CASE r.kind = "Fork"
    <2>1. Fork(t, now)
        BY <1>2 DEF StopFor
    <2>2. PICK c \in In("Unborn") :
              Stops(t, now, [proc EXCEPT ![t] = State("Ready"), ![c] = State("Ready")])
        BY <2>1 DEF Fork
    <2> DEFINE f == [proc EXCEPT ![t] = State("Ready"), ![c] = State("Ready")]
    <2>3. f \in Processes
        BY <1>1, StateIsTyped DEF In, Processes, States
    <2>4. c \in Pids /\ proc[c].is = "Unborn" /\ proc[t].is = "Running"
        BY <2>2 DEF In, Stops
    <2>5. \A p \in Pids : f[p] = IF p = t \/ p = c THEN State("Ready") ELSE proc[p]
        BY <1>1, <2>4 DEF Processes
    <2>6. \A p \in Pids : /\ f[p].is = "Unborn" <=> proc[p].is = "Unborn" /\ p \notin {c}
                          /\ f[p].is = "Gone" <=> proc[p].is = "Gone" \/ p \in {}
        <3> HIDE DEF f
        <3> QED
            BY <2>4, <2>5, ReadyIs
    <2>7. SimulatedInv' /\ Fates({c}, {})
        BY <2>2, <2>3, <2>6, StopsEffect
    <2>8. Created = c
        BY <2>4, <2>7 DEF Created, Fates
    <2>9. QED
        BY <1>2, <2>4, <2>7, <2>8 DEF StopPromise
<1>3. CASE r.kind = "Exit"
    <2> DEFINE f == [proc EXCEPT ![t] = State("Gone")]
    <2>1. Stops(t, now, f)
        BY <1>3 DEF StopFor, Exit
    <2>2. f \in Processes
        BY <1>1, StateIsTyped DEF Processes, States
    <2>3. proc[t].is = "Running"
        BY <2>1 DEF Stops
    <2>4. \A p \in Pids : /\ f[p].is = "Unborn" <=> proc[p].is = "Unborn" /\ p \notin {}
                          /\ f[p].is = "Gone" <=> proc[p].is = "Gone" \/ p \in {t}
        BY <1>1, <2>3 DEF State, Processes
    <2>5. SimulatedInv' /\ Fates({}, {t})
        BY <2>1, <2>2, <2>4, StopsEffect
    <2>6. QED
        BY <1>3, <2>3, <2>5 DEF StopPromise
<1>4. ASSUME r.kind \notin {"Fork", "Exit"},
             NEW n, NEW f \in Processes, Stops(t, n, f),
             \A p \in Pids : f[p] = proc[p] \/ (/\ proc[p].is \in {"Running", "Waiting"}
                                              /\ f[p].is \notin {"Unborn", "Gone"})
      PROVE  proc[t].is = "Running" /\ StopPromise(t)
    <2>1. \A p \in Pids : /\ f[p].is = "Unborn" <=> proc[p].is = "Unborn" /\ p \notin {}
                          /\ f[p].is = "Gone" <=> proc[p].is = "Gone" \/ p \in {}
        BY <1>4
    <2>2. SimulatedInv' /\ Fates({}, {})
        BY <1>4, <2>1, StopsEffect
    <2>3. QED
        BY <1>4, <2>2 DEF Stops, StopPromise
<1>5. CASE r.kind = "Sleep"
    <2> DEFINE f == [proc EXCEPT ![t] = SleepsUntil(now + r.arg)]
    <2>1. r.arg \in Int
        BY <1>5, ProcessorAssumption DEF Reasons, Syscall, Expired
    <2>2. Stops(t, now, f)
        BY <1>5 DEF StopFor, Sleep
    <2>3. now \in Int /\ proc[t].is = "Running"
        BY <2>2, <1>1 DEF Stops, SimulatedInv, Processes
    <2>4. f \in Processes
        BY <1>1, <2>1, <2>3 DEF Processes, States, SleepsUntil, State
    <2>5. \A p \in Pids : f[p] = IF p = t THEN SleepsUntil(now + r.arg) ELSE proc[p]
        BY <1>1 DEF Processes
    <2>6. \A p \in Pids : f[p] = proc[p] \/ (/\ proc[p].is \in {"Running", "Waiting"}
                                            /\ f[p].is \notin {"Unborn", "Gone"})
        <3> HIDE DEF f
        <3> QED
            BY <2>3, <2>5 DEF SleepsUntil, State
    <2>7. QED
        BY <1>4, <1>5, <2>2, <2>4, <2>6
<1>6. CASE r.kind = "Wait"
    <2> DEFINE f == [proc EXCEPT ![t] = WaitsFor(r.arg)]
    <2>1. r.arg \in Events
        BY <1>6 DEF Reasons, Syscall, Expired
    <2>2. Stops(t, now, f) /\ proc[t].is = "Running"
        BY <1>6 DEF StopFor, Wait, Stops
    <2>3. f \in Processes
        BY <1>1, <2>1 DEF Processes, States, WaitsFor, State
    <2>4. \A p \in Pids : f[p] = IF p = t THEN WaitsFor(r.arg) ELSE proc[p]
        BY <1>1 DEF Processes
    <2>5. \A p \in Pids : f[p] = proc[p] \/ (/\ proc[p].is \in {"Running", "Waiting"}
                                            /\ f[p].is \notin {"Unborn", "Gone"})
        <3> HIDE DEF f
        <3> QED
            BY <2>2, <2>4 DEF WaitsFor, State
    <2>6. QED
        BY <1>4, <1>6, <2>2, <2>3, <2>5
<1>7. CASE r.kind = "Signal"
    <2> DEFINE f == [q \in Pids |-> IF q = t \/ proc[q] = WaitsFor(r.arg) THEN State("Ready")
                                    ELSE proc[q]]
    <2>1. Stops(t, now, f) /\ proc[t].is = "Running"
        BY <1>7 DEF StopFor, Signal, Stops
    <2>2. f \in Processes
        BY <1>1, StateIsTyped DEF Processes, States
    <2>3. \A p \in Pids : f[p] = proc[p] \/ (/\ proc[p].is \in {"Running", "Waiting"}
                                            /\ f[p].is \notin {"Unborn", "Gone"})
        BY <2>1 DEF WaitsFor, State
    <2>4. QED
        BY <1>4, <1>7, <2>1, <2>2, <2>3
<1>8. CASE r.kind = "Expired"
    <2> DEFINE f == [proc EXCEPT ![t] = State("Ready")]
    <2>1. Stops(t, proc[t].until, f) /\ proc[t].is = "Running"
        BY <1>8 DEF StopFor, Expire, Stops
    <2>2. f \in Processes
        BY <1>1, StateIsTyped DEF Processes, States
    <2>3. \A p \in Pids : f[p] = IF p = t THEN State("Ready") ELSE proc[p]
        BY <1>1 DEF Processes
    <2>4. \A p \in Pids : f[p] = proc[p] \/ (/\ proc[p].is \in {"Running", "Waiting"}
                                            /\ f[p].is \notin {"Unborn", "Gone"})
        <3> HIDE DEF f
        <3> QED
            BY <2>1, <2>3, ReadyIs
    <2>5. QED
        BY <1>4, <1>8, <2>1, <2>2, <2>4
<1>9. QED
    BY <1>2, <1>3, <1>5, <1>6, <1>7, <1>8 DEF Reasons, Expired, Syscall

\* Whom the scheduler dispatches runs, for a whole slice from now on.
LEMMA DispatchEffect ==
    ASSUME SimulatedInv, NEW p \in Pids, NEW slice \in 1 .. MaxSlice,
           NEW now \in {clock} \cup {proc[q].until : q \in In("Asleep")},
           Dispatch(p, now, slice)
    PROVE  /\ SimulatedInv' /\ Fates({}, {})
           /\ proc'[p].is = "Running" /\ proc'[p].until - clock' = slice
<1>1. now \in Int /\ proc \in Processes /\ slice \in Int
    BY ProcessorAssumption DEF SimulatedInv, Processes, In
<1>2. Woken(proc, now) \in Processes
    BY <1>1, WokenIsTyped
<1>3. RunsUntil(now + slice) \in [is : States, until : Int, event : Events \cup {NoEvent}]
    BY <1>1 DEF RunsUntil, State, States
<1>4. proc' = [Woken(proc, now) EXCEPT ![p] = RunsUntil(now + slice)] /\ clock' = now
    BY DEF Dispatch
<1>5. proc' \in Processes
    BY <1>2, <1>3, <1>4 DEF Processes
<1>6. \A q \in Pids : proc'[q] = IF q = p THEN RunsUntil(now + slice) ELSE Woken(proc, now)[q]
    BY <1>2, <1>4 DEF Processes
<1>7. Woken(proc, now)[p].is = "Ready"
    BY DEF Dispatch
<1>8. Fates({}, {})
    BY <1>6, <1>7 DEF Fates, Woken, RunsUntil, State
<1>9. QED
    BY <1>1, <1>4, <1>5, <1>6, <1>8 DEF SimulatedInv, RunsUntil, State

-----------------------------------------------------------------------------
(* Whether the processor runs or not, processes and threads fit together. *)

\* At first nobody is born, and thread 0 is about to boot the scheduler.
LEMMA InitTyped == Init => TInv
<1> SUFFICES ASSUME Init PROVE TInv
    OBVIOUS
<1>1. SimulatedInv
    BY DEF Init, SchedInit, SimulatedInv, Processes, State, States
<1>2. ThreadsInv
    BY MainIsNoPid DEF Init, ThreadsInv, Reasons, NoReason, Syscall
<1>3. MainInv
    BY MainIsNoPid DEF Init, MainInv
<1>4. \A t \in Threads : child[t] = 0 /\ at[t] \in {"calls", "unborn"}
    BY DEF Init
<1>5. ChildInv
    BY <1>4 DEF ChildInv
<1>6. BirthInv
    BY MainIsNoPid DEF Init, SchedInit, State, BirthInv
<1>7. QED
    BY <1>1, <1>2, <1>3, <1>5, <1>6 DEF TInv

\* A thread that is out of the scheduler goes on, and the processes stay what
\* they are.
Runs(t, places) ==
    /\ at[t] \in {"user", "suspends", "waits"}
    /\ \E place \in places : at' = [at EXCEPT ![t] = place]
    /\ UNCHANGED <<simulated, current_process, child>>

\* Such a thread disturbs neither the threads about to spawn nor the births.
LEMMA RunsTyped ==
    ASSUME TInv, NEW t \in Threads,
           Runs(t, {"user", "calls", "waits", "ended", "panicked"}),
           \/ reason' = reason /\ at'[t] # "calls"
           \/ \E r \in Reasons \cup {Expired} : r # NoReason /\ reason' = [reason EXCEPT ![t] = r]
    PROVE  TInv'
<1>1. t \in Pids /\ t # Main
    BY DEF Runs, TInv, MainInv, Threads
<1>2. PICK place \in {"user", "calls", "waits", "ended", "panicked"} :
          at' = [at EXCEPT ![t] = place]
    BY DEF Runs
<1>3. \A s \in Threads : at'[s] = IF s = t THEN place ELSE at[s]
    BY <1>2 DEF TInv, ThreadsInv
<1>4. \A s \in Threads : s # t => reason'[s] = reason[s]
    BY DEF TInv, ThreadsInv
<1>5. SimulatedInv'
    BY DEF Runs, TInv, SimulatedInv, simulated
<1>6. ThreadsInv'
    BY <1>2, <1>3 DEF Runs, TInv, ThreadsInv
<1>7. MainInv'
    BY <1>1, <1>3, <1>4, MainIsNoPid DEF Runs, TInv, MainInv
<1>8. ChildInv'
    BY <1>3, <1>4, MainIsNoPid DEF Runs, TInv, ThreadsInv, ChildInv, simulated
<1>9. BirthInv'
    BY <1>1, <1>3, <1>4, MainIsNoPid DEF Runs, TInv, BirthInv, simulated
<1>10. QED
    BY <1>5, <1>6, <1>7, <1>8, <1>9 DEF TInv

\* stop() creates the child that the thread will spawn, or ends the process.
LEMMA CallStopTyped ==
    ASSUME TInv, NEW t \in Threads, CallStop(t)
    PROVE  TInv'
<1>1. /\ at[t] = "calls" /\ reason' = reason /\ current_process' = 0
      /\ reason[t] \in Reasons \cup {Expired}
      /\ at' = [at EXCEPT ![t] = "decides"]
      /\ child' = [child EXCEPT ![t] = IF reason[t].kind = "Fork" THEN Created ELSE 0]
    BY DEF CallStop, TInv, ThreadsInv
<1>2. StopPromise(t) /\ (t \in Pids => proc[t].is = "Running")
    <2>1. CASE t = Main
        <3>1. reason[t].kind = "Fork"
            BY <1>1, <2>1 DEF TInv, MainInv, Syscall
        <3>2. Boot
            BY <2>1 DEF CallStop, StopFor
        <3>3. QED
            BY <2>1, <3>1, <3>2, BootEffect, MainIsNoPid DEF StopPromise, TInv
    <2>2. CASE t # Main
        BY <1>1, <2>2, StopEffect DEF CallStop, TInv, Threads
    <2>3. QED
        BY <2>1, <2>2
<1>3. \A s \in Threads :
          /\ at'[s] = IF s = t THEN "decides" ELSE at[s]
          /\ child'[s] = IF s # t THEN child[s] ELSE IF reason[t].kind = "Fork" THEN Created ELSE 0
    BY <1>1 DEF TInv, ThreadsInv
<1>4. /\ reason[t].kind = "Fork" => Created \in Pids /\ Created # 0 /\ proc[Created].is = "Unborn"
      /\ \A p \in Pids :
             /\ proc'[p].is = "Unborn" <=>
                    proc[p].is = "Unborn" /\ ~(reason[t].kind = "Fork" /\ p = Created)
             /\ proc'[p].is = "Gone" <=> proc[p].is = "Gone" \/ (reason[t].kind = "Exit" /\ p = t)
    BY <1>2, MainIsNoPid DEF StopPromise, Fates, Main
<1>5. SimulatedInv'
    BY <1>2 DEF StopPromise
<1>6. ThreadsInv'
    BY <1>1, <1>3, <1>4 DEF TInv, ThreadsInv
<1>7. MainInv'
    BY <1>1, <1>3, MainIsNoPid DEF TInv, MainInv
<1>8. child[t] = 0
    BY <1>1 DEF TInv, ChildInv
<1>9. reason[t].kind = "Fork" => Created # t /\ at[Created] = "unborn"
    BY <1>1, <1>4, MainIsNoPid DEF TInv, BirthInv
<1>10. ChildInv'
    <2> SUFFICES ASSUME NEW s \in Threads
                 PROVE  /\ child'[s] # 0 <=>
                               \/ at'[s] = "spawns"
                               \/ at'[s] = "decides" /\ reason'[s].kind = "Fork"
                        /\ child'[s] # 0 => /\ at'[child'[s]] = "unborn"
                                            /\ proc'[child'[s]].is \notin {"Unborn", "Gone"}
                        /\ \A u \in Threads : child'[u] = child'[s] /\ child'[s] # 0 => u = s
        BY DEF ChildInv
    <2>1. \A u \in Threads : child[u] # 0 =>
              /\ child[u] \in Pids /\ child[u] # t
              /\ reason[t].kind = "Fork" => child[u] # Created
              /\ at[child[u]] = "unborn" /\ proc[child[u]].is \notin {"Unborn", "Gone"}
        <3> SUFFICES ASSUME NEW u \in Threads, child[u] # 0
                     PROVE  /\ child[u] \in Pids /\ child[u] # t
                            /\ reason[t].kind = "Fork" => child[u] # Created
                            /\ at[child[u]] = "unborn"
                            /\ proc[child[u]].is \notin {"Unborn", "Gone"}
            OBVIOUS
        <3>1. child[u] \in Pids
            BY DEF TInv, ThreadsInv
        <3>2. at[child[u]] = "unborn" /\ proc[child[u]].is \notin {"Unborn", "Gone"}
            BY DEF TInv, ChildInv
        <3>3. child[u] # t
            BY <1>1, <3>2
        <3>4. reason[t].kind = "Fork" => child[u] # Created
            BY <1>4, <3>2
        <3>5. QED
            BY <3>1, <3>2, <3>3, <3>4
    <2>2. CASE s = t
        BY <1>1, <1>3, <1>4, <1>9, <2>1, <2>2, MainIsNoPid
    <2>3. CASE s # t
        BY <1>1, <1>3, <1>4, <2>1, <2>3, MainIsNoPid DEF TInv, ChildInv
    <2>4. QED
        BY <2>2, <2>3
<1>11. BirthInv'
    <2> SUFFICES ASSUME NEW p \in Pids
                 PROVE  /\ proc'[p].is = "Unborn" => at'[p] = "unborn"
                        /\ at'[p] = "unborn" /\ proc'[p].is # "Unborn" =>
                               \E u \in Threads : child'[u] = p
                        /\ proc'[p].is = "Gone" =>
                               at'[p] = "ended" \/ (at'[p] = "decides" /\ reason'[p].kind = "Exit")
        BY DEF BirthInv
    <2>1. proc'[p].is = "Unborn" => at'[p] = "unborn"
        BY <1>2, <1>3, <1>4, MainIsNoPid DEF TInv, BirthInv
    <2>2. at'[p] = "unborn" /\ proc'[p].is # "Unborn" => \E u \in Threads : child'[u] = p
        <3> SUFFICES ASSUME at'[p] = "unborn", proc'[p].is # "Unborn"
                     PROVE  \E u \in Threads : child'[u] = p
            OBVIOUS
        <3>1. p # t /\ at[p] = "unborn"
            BY <1>3, MainIsNoPid
        <3>2. CASE proc[p].is = "Unborn"
            BY <1>3, <1>4, <3>2
        <3>3. CASE proc[p].is # "Unborn"
            <4>1. PICK u \in Threads : child[u] = p
                BY <3>1, <3>3 DEF TInv, BirthInv
            <4>2. u # t
                BY <1>8, <4>1, MainIsNoPid DEF Main
            <4>3. QED
                BY <1>3, <4>1, <4>2
        <3>4. QED
            BY <3>2, <3>3
    <2>3. proc'[p].is = "Gone" =>
              at'[p] = "ended" \/ (at'[p] = "decides" /\ reason'[p].kind = "Exit")
        BY <1>1, <1>3, <1>4, MainIsNoPid DEF TInv, BirthInv
    <2>4. QED
        BY <2>1, <2>2, <2>3
<1>12. QED
    BY <1>5, <1>6, <1>7, <1>10, <1>11 DEF TInv

\* The thread that has decided leaves the scheduler for what its call was about.
LEMMA LeaveTyped ==
    ASSUME TInv, NEW t \in Threads, at[t] = "decides", LeaveAndNotifyAll(t),
           SimulatedInv', Fates({}, {}), UNCHANGED child
    PROVE  TInv' /\ at'[Main] # "calls"
<1> DEFINE r == reason[t]
<1>1. /\ r.kind = "Fork" => After(t) = "spawns"
      /\ r.kind = "Exit" => After(t) = "ended"
      /\ r.kind \notin {"Fork", "Exit"} => After(t) = "suspends"
    BY DEF After
<1>2. /\ \A s \in Threads :
             at'[s] = IF s = t THEN After(t) ELSE IF at[s] = "waits" THEN "suspends" ELSE at[s]
      /\ at' \in [Threads -> {"unborn", "calls", "decides", "spawns", "suspends", "waits",
                              "user", "joins", "ended", "panicked"}]
    BY <1>1 DEF LeaveAndNotifyAll, TInv, ThreadsInv
<1>3. \A s \in Threads : s # t => reason'[s] = reason[s]
    BY DEF LeaveAndNotifyAll, TInv, ThreadsInv
<1>4. ThreadsInv'
    <2>1. \A s \in Threads : at'[s] = "calls" => s # t /\ at[s] = "calls"
        BY <1>1, <1>2
    <2>2. \A s \in Threads : at'[s] = "calls" => reason'[s] # NoReason
        BY <1>3, <2>1 DEF TInv, ThreadsInv
    <2>3. reason' \in [Threads -> Reasons \cup {Expired, NoReason}]
        BY DEF LeaveAndNotifyAll, TInv, ThreadsInv
    <2>4. QED
        BY <1>2, <2>2, <2>3 DEF TInv, ThreadsInv
<1>5. MainInv' /\ at'[Main] # "calls"
    <2>1. CASE t = Main
        BY <1>1, <1>2, <2>1, MainIsNoPid DEF TInv, MainInv, Syscall
    <2>2. CASE t # Main
        <3>1. at[Main] # "calls"
            BY <2>2 DEF TInv, MainInv, Threads
        <3>2. at'[Main] = at[Main]
            BY <1>2, <2>2, MainIsNoPid DEF TInv, MainInv
        <3>3. reason'[Main] = reason[Main]
            BY <1>3, <2>2, MainIsNoPid
        <3>4. QED
            BY <3>1, <3>2, <3>3 DEF TInv, MainInv
    <2>3. QED
        BY <2>1, <2>2
<1>6. \A p \in Pids : /\ proc'[p].is = "Unborn" <=> proc[p].is = "Unborn"
                      /\ proc'[p].is = "Gone" <=> proc[p].is = "Gone"
    BY DEF Fates
<1>7. \A s \in Threads : at'[s] = "unborn" <=> at[s] = "unborn"
    BY <1>1, <1>2
<1>8. ChildInv'
    <2> SUFFICES ASSUME NEW s \in Threads
                 PROVE  /\ child[s] # 0 <=>
                               \/ at'[s] = "spawns"
                               \/ at'[s] = "decides" /\ reason'[s].kind = "Fork"
                        /\ child[s] # 0 => /\ at'[child[s]] = "unborn"
                                           /\ proc'[child[s]].is \notin {"Unborn", "Gone"}
                        /\ \A u \in Threads : child[u] = child[s] /\ child[s] # 0 => u = s
        BY DEF ChildInv
    <2>1. child[s] # 0 => /\ at'[child[s]] = "unborn"
                         /\ proc'[child[s]].is \notin {"Unborn", "Gone"}
        BY <1>6, <1>7, MainIsNoPid DEF TInv, ThreadsInv, ChildInv
    <2>2. \A u \in Threads : child[u] = child[s] /\ child[s] # 0 => u = s
        BY DEF TInv, ChildInv
    <2>3. CASE s = t
        BY <1>1, <1>2, <2>1, <2>2, <2>3 DEF TInv, ChildInv
    <2>4. CASE s # t
        BY <1>2, <1>3, <2>1, <2>2, <2>4 DEF TInv, ChildInv
    <2>5. QED
        BY <2>3, <2>4
<1>9. BirthInv'
    <2> SUFFICES ASSUME NEW p \in Pids
                 PROVE  /\ proc'[p].is = "Unborn" => at'[p] = "unborn"
                        /\ at'[p] = "unborn" /\ proc'[p].is # "Unborn" =>
                               \E u \in Threads : child[u] = p
                        /\ proc'[p].is = "Gone" =>
                               at'[p] = "ended" \/ (at'[p] = "decides" /\ reason'[p].kind = "Exit")
        BY DEF BirthInv
    <2>1. /\ proc'[p].is = "Unborn" => at'[p] = "unborn"
          /\ at'[p] = "unborn" /\ proc'[p].is # "Unborn" => \E u \in Threads : child[u] = p
        BY <1>6, <1>7, MainIsNoPid DEF TInv, BirthInv
    <2>2. CASE p = t
        BY <1>1, <1>2, <1>6, <2>1, <2>2, MainIsNoPid DEF TInv, BirthInv
    <2>3. CASE p # t
        BY <1>2, <1>3, <1>6, <2>1, <2>3, MainIsNoPid DEF TInv, BirthInv
    <2>4. QED
        BY <2>2, <2>3
<1>10. QED
    BY <1>4, <1>5, <1>8, <1>9 DEF TInv

\* Processes that stay the same are neither born nor gone.
LEMMA NothingChanges == SimulatedInv /\ UNCHANGED proc => Fates({}, {})
    BY DEF Fates

\* Time passes, or the processor stops, and nothing else changes.
LEMMA OnlyTimePasses ==
    ASSUME TInv, UNCHANGED <<proc, current_process, at, reason, child>>, clock' \in Int
    PROVE  TInv'
<1>1. SimulatedInv' /\ ThreadsInv' /\ MainInv'
    BY DEF TInv, SimulatedInv, ThreadsInv, MainInv
<1>2. ChildInv' /\ BirthInv'
    BY DEF TInv, ChildInv, BirthInv
<1>3. QED
    BY <1>1, <1>2 DEF TInv

\* What a thread that spawns its child does to the threads.
Spawned(t) ==
    /\ at[t] = "spawns" /\ child[t] \in Pids /\ child[t] # t
    /\ at[child[t]] = "unborn" /\ proc[child[t]].is \notin {"Unborn", "Gone"}
    /\ \A s \in Threads :
           /\ at'[s] = IF s = t THEN IF t = Main THEN "joins" ELSE "suspends"
                       ELSE IF s = child[t] THEN "suspends" ELSE at[s]
           /\ child'[s] = IF s = t THEN 0 ELSE child[s]
           /\ s # t => child[s] # child[t]

\* What Spawn does to each thread.
LEMMA SpawnEffect ==
    ASSUME TInv, NEW t \in Threads, Spawn(t)
    PROVE  Spawned(t)
<1>1. at[t] = "spawns" /\ child[t] # 0
    BY DEF Spawn, TInv, ChildInv
<1>2. child[t] \in Pids /\ \A s \in Threads : s # t => child[s] # child[t]
    BY <1>1 DEF TInv, ThreadsInv, ChildInv
<1>3. at[child[t]] = "unborn" /\ proc[child[t]].is \notin {"Unborn", "Gone"}
    BY <1>1 DEF TInv, ChildInv
<1>4. \A s \in Threads :
          /\ at'[s] = IF s = t THEN IF t = Main THEN "joins" ELSE "suspends"
                      ELSE IF s = child[t] THEN "suspends" ELSE at[s]
          /\ child'[s] = IF s = t THEN 0 ELSE child[s]
    BY <1>2, MainIsNoPid DEF Spawn, TInv, ThreadsInv
<1>5. QED
    BY <1>1, <1>2, <1>3, <1>4 DEF Spawned

\* Spawning turns the debt of the parent into a thread of the child.
LEMMA SpawnTyped ==
    ASSUME TInv, NEW t \in Threads, Spawn(t)
    PROVE  TInv'
<1>1. Spawned(t) /\ UNCHANGED <<proc, clock, current_process, reason>>
    BY SpawnEffect DEF Spawn, simulated
<1>2. SimulatedInv'
    BY <1>1 DEF TInv, SimulatedInv
<1>3. ThreadsInv'
    <2>1. at' \in [Threads -> {"unborn", "calls", "decides", "spawns", "suspends", "waits",
                               "user", "joins", "ended", "panicked"}]
        BY DEF Spawn, TInv, ThreadsInv
    <2>2. child' \in [Threads -> Pids \cup {0}]
        BY DEF Spawn, TInv, ThreadsInv
    <2>3. \A s \in Threads : at'[s] = "calls" => reason'[s] # NoReason
        BY <1>1 DEF Spawned, TInv, ThreadsInv
    <2>4. QED
        BY <1>1, <2>1, <2>2, <2>3 DEF TInv, ThreadsInv
<1>4. MainInv'
    BY <1>1, MainIsNoPid DEF Spawned, Threads, TInv, MainInv
<1>5. ChildInv'
    BY <1>1, MainIsNoPid DEF Spawned, TInv, ChildInv, ThreadsInv
<1>6. BirthInv'
    BY <1>1, MainIsNoPid DEF Spawned, TInv, BirthInv
<1>7. QED
    BY <1>2, <1>3, <1>4, <1>5, <1>6 DEF TInv

\* Joining changes thread 0 alone.
LEMMA JoinTyped ==
    ASSUME TInv, Join
    PROVE  TInv'
<1>1. /\ at[Main] = "joins" /\ at' = [at EXCEPT ![Main] = at[1]] /\ 1 \in Pids
      /\ at[1] \in {"ended", "panicked"}
      /\ UNCHANGED <<proc, clock, current_process, reason, child>>
    BY ProcessorAssumption DEF Join, simulated
<1>2. \A s \in Threads : at'[s] = IF s = Main THEN at[1] ELSE at[s]
    BY <1>1 DEF TInv, ThreadsInv
<1>3. SimulatedInv'
    BY <1>1 DEF TInv, SimulatedInv
<1>4. ThreadsInv'
    BY <1>1, <1>2, MainIsNoPid DEF TInv, ThreadsInv
<1>5. MainInv'
    BY <1>1, <1>2, MainIsNoPid DEF MainInv
<1>6. ChildInv'
    BY <1>1, <1>2, MainIsNoPid DEF TInv, ChildInv, ThreadsInv
<1>7. BirthInv'
    BY <1>1, <1>2, MainIsNoPid DEF TInv, BirthInv
<1>8. QED
    BY <1>3, <1>4, <1>5, <1>6, <1>7 DEF TInv

\* Every step of every thread keeps processes and threads together.
LEMMA StepTyped ==
    ASSUME TInv, NEW t \in Threads, Step(t)
    PROVE  TInv'
<1>1. CASE Exec(t)
    <2>1. Runs(t, {"user", "calls"})
        <3>1. at = [at EXCEPT ![t] = "user"]
            BY <1>1 DEF Exec, TInv, ThreadsInv
        <3>2. QED
            BY <1>1, <3>1 DEF Exec, Runs
    <2>2. \/ reason' = reason /\ at' = at
          \/ Expired # NoReason /\ reason' = [reason EXCEPT ![t] = Expired]
        BY <1>1 DEF Exec, Expired, NoReason, Syscall
    <2>3. at[t] = "user"
        BY <1>1 DEF Exec
    <2>4. QED
        BY <2>1, <2>2, <2>3, RunsTyped DEF Runs
<1>2. ASSUME NEW r \in Reasons, Ask(t, r)
      PROVE  TInv'
    <2>1. Runs(t, {"calls"})
        BY <1>2 DEF Ask, Enter, Runs
    <2>2. r # NoReason /\ reason' = [reason EXCEPT ![t] = r]
        BY <1>2 DEF Ask, Enter, Reasons, NoReason, Syscall
    <2>3. QED
        BY <2>1, <2>2, RunsTyped DEF Runs
<1>3. ASSUME NEW r \in Reasons, AskNobody(t, r)
      PROVE  TInv'
    <2>1. Runs(t, {"ended", "panicked"}) /\ reason' = reason
        BY <1>3 DEF AskNobody, Runs
    <2>2. at'[t] # "calls"
        BY <2>1 DEF Runs, TInv, ThreadsInv
    <2>3. QED
        BY <2>1, <2>2, RunsTyped DEF Runs
<1>4. CASE CallStop(t)
    BY <1>4, CallStopTyped
<1>5. CASE CallNextRun(t)
    <2>1. SimulatedInv' /\ Fates({}, {})
        BY <1>5, DispatchEffect DEF CallNextRun, TInv
    <2>2. QED
        BY <1>5, <2>1, LeaveTyped DEF CallNextRun
<1>6. CASE CallNextSleep(t)
    <2>1. clock' \in Int /\ UNCHANGED <<proc, current_process, at, reason, child>>
        BY <1>6 DEF CallNextSleep, Doze
    <2>2. QED
        BY <2>1, OnlyTimePasses
<1>7. CASE CallNextGivesUp(t)
    <2>1. UNCHANGED <<proc, clock>>
        BY <1>7 DEF CallNextGivesUp, GiveUp
    <2>2. SimulatedInv' /\ Fates({}, {})
        BY <2>1, NothingChanges DEF TInv, SimulatedInv
    <2>3. QED
        BY <1>7, <2>2, LeaveTyped DEF CallNextGivesUp
<1>8. CASE Spawn(t)
    BY <1>8, SpawnTyped
<1>9. CASE Suspend(t)
    <2>1. Runs(t, {"waits", "user"}) /\ reason' = reason
        BY <1>9 DEF Suspend, Runs
    <2>2. at'[t] # "calls"
        BY <2>1 DEF Runs, TInv, ThreadsInv
    <2>3. QED
        BY <2>1, <2>2, RunsTyped DEF Runs
<1>10. QED
    BY <1>1, <1>2, <1>3, <1>4, <1>5, <1>6, <1>7, <1>8, <1>9 DEF Step

-----------------------------------------------------------------------------
(* While the processor runs, one thread has the turn. *)

\* At first nobody decides and nobody has the turn.
LEMMA InitTurn == Init => DecideInv /\ TurnInv
    BY MainIsNoPid DEF Init, DecideInv, TurnInv, Main

\* The thread that executes has the turn, with some of it left.
LEMMA UserHasTurn ==
    ASSUME TInv, TurnInv, NEW t \in Threads, at[t] = "user"
    PROVE  /\ t \in Pids /\ t # Main
           /\ current_process = t
           /\ remaining \in 1 .. MaxSlice /\ remaining <= Left(t) /\ Less(remaining) = remaining - 1
           /\ Left(t) \in Int
<1>1. t \in Pids /\ t # Main
    BY DEF TInv, MainInv, Threads
<1>2. current_process = t /\ remaining \in 1 .. MaxSlice /\ remaining <= Left(t)
    BY <1>1 DEF TurnInv
<1>3. Left(t) \in Int
    BY <1>1 DEF TInv, SimulatedInv, Processes, Left
<1>4. QED
    BY <1>1, <1>2, <1>3, LessIsPredecessor

\* Executing uses a unit of the slice, or ends it.
LEMMA ExecTurn ==
    ASSUME TInv, DecideInv, TurnInv, NEW t \in Threads, Exec(t)
    PROVE  DecideInv' /\ TurnInv'
<1>1. /\ t \in Pids /\ current_process = t /\ at[t] = "user"
      /\ remaining \in 1 .. MaxSlice /\ remaining <= Left(t) /\ Less(remaining) = remaining - 1
      /\ Left(t) \in Int
    BY UserHasTurn DEF Exec
<1>2. /\ UNCHANGED <<proc, clock, current_process>>
      /\ \/ remaining' = remaining - 1 /\ remaining - 1 # 0 /\ UNCHANGED <<at, reason>>
         \/ at' = [at EXCEPT ![t] = "calls"] /\ reason' = [reason EXCEPT ![t] = Expired]
    BY <1>1 DEF Exec, simulated
<1>3. DecideInv'
    BY <1>1, <1>2 DEF DecideInv, TInv, ThreadsInv
<1>4. CASE remaining' = remaining - 1 /\ remaining - 1 # 0 /\ UNCHANGED <<at, reason>>
    <2>1. remaining' \in 1 .. MaxSlice /\ remaining' <= Left(t)
        BY <1>1, <1>4, ProcessorAssumption
    <2>2. QED
        BY <1>1, <1>2, <1>3, <1>4, <2>1 DEF TurnInv, Left
<1>5. CASE at' = [at EXCEPT ![t] = "calls"] /\ reason' = [reason EXCEPT ![t] = Expired]
    <2>1. \A s \in Threads : at'[s] = (IF s = t THEN "calls" ELSE at[s])
        BY <1>5 DEF TInv, ThreadsInv
    <2>2. reason'[t] = Expired
        BY <1>5 DEF TInv, ThreadsInv
    <2>3. QED
        BY <1>1, <1>2, <1>3, <2>1, <2>2, MainIsNoPid DEF TurnInv
<1>6. QED
    BY <1>2, <1>4, <1>5

\* A system call uses a unit of the slice too: the rest is what stop() is told.
LEMMA AskTurn ==
    ASSUME TInv, DecideInv, TurnInv, NEW t \in Threads, NEW r \in Reasons, Ask(t, r)
    PROVE  DecideInv' /\ TurnInv'
<1>1. /\ t \in Pids /\ current_process = t /\ at[t] = "user"
      /\ remaining \in 1 .. MaxSlice /\ remaining <= Left(t) /\ Less(remaining) = remaining - 1
      /\ Left(t) \in Int
    BY UserHasTurn DEF Ask
<1>2. /\ UNCHANGED <<proc, clock, current_process>>
      /\ remaining' = remaining - 1
      /\ at' = [at EXCEPT ![t] = "calls"]
    BY <1>1 DEF Ask, Enter, simulated
<1>3. \A s \in Threads : at'[s] = (IF s = t THEN "calls" ELSE at[s])
    BY <1>2 DEF TInv, ThreadsInv
<1>4. DecideInv'
    BY <1>1, <1>2, <1>3 DEF DecideInv
<1>5. remaining' \in 0 .. Left(t) - 1 /\ Left(t)' = Left(t)
    BY <1>1, <1>2, ProcessorAssumption DEF Left
<1>6. TurnInv'
    BY <1>1, <1>2, <1>3, <1>5, MainIsNoPid DEF TurnInv
<1>7. QED
    BY <1>4, <1>6

\* Whoever stops had the turn: nobody has it now.
LEMMA CallStopTurn ==
    ASSUME TInv, DecideInv, TurnInv, NEW t \in Threads, CallStop(t)
    PROVE  DecideInv' /\ TurnInv'
<1>1. /\ at[t] = "calls" /\ \A s \in Threads : at[s] # "decides"
      /\ at' = [at EXCEPT ![t] = "decides"] /\ current_process' = 0
    BY DEF CallStop, Deciders
<1>2. \A s \in Threads : at'[s] = (IF s = t THEN "decides" ELSE at[s])
    BY <1>1 DEF TInv, ThreadsInv
<1>3. DecideInv'
    BY <1>1, <1>2 DEF DecideInv
<1>4. \A s \in Pids : at'[s] \notin {"user", "calls"}
    <2> SUFFICES ASSUME NEW s \in Pids, at'[s] \in {"user", "calls"}
                 PROVE  FALSE
        OBVIOUS
    <2>1. s # t /\ at[s] \in {"user", "calls"}
        BY <1>2, MainIsNoPid
    <2>2. current_process = s
        BY <2>1 DEF TurnInv
    <2>3. CASE t = Main
        BY <1>1, <2>1, <2>3 DEF TInv, MainInv
    <2>4. CASE t \in Pids
        BY <1>1, <2>1, <2>2, <2>4 DEF TurnInv
    <2>5. QED
        BY <2>3, <2>4 DEF Threads
<1>5. TurnInv'
    BY <1>1, <1>4, MainIsNoPid DEF TurnInv, Main
<1>6. QED
    BY <1>3, <1>5

\* While a thread decides nobody is out of suspend(): whoever is chosen comes
\* out alone, with the whole slice.
LEMMA CallNextRunTurn ==
    ASSUME TInv, DecideInv, TurnInv, NEW t \in Threads, CallNextRun(t)
    PROVE  DecideInv' /\ TurnInv'
<1>1. PICK p \in Pids, slice \in 1 .. MaxSlice :
          /\ \E now \in {clock} \cup {proc[q].until : q \in In("Asleep")} :
                 Dispatch(p, now, slice)
          /\ current_process' = p
          /\ remaining' = slice
    BY DEF CallNextRun
<1>2. proc'[p].is = "Running" /\ Left(p)' = slice
    BY <1>1, DispatchEffect DEF TInv, Left
<1>3. /\ at[t] = "decides"
      /\ at' = [s \in Threads |->
                   IF s = t THEN After(t) ELSE IF at[s] = "waits" THEN "suspends" ELSE at[s]]
      /\ After(t) \in {"spawns", "ended", "suspends"}
    BY DEF CallNextRun, LeaveAndNotifyAll, After
<1>4. \A s \in Threads : at'[s] # "decides"
    BY <1>3 DEF DecideInv
<1>5. current_process = 0
    BY <1>3 DEF DecideInv
<1>6. \A s \in Pids : at'[s] \notin {"user", "calls"}
    BY <1>3, <1>5, MainIsNoPid DEF TurnInv, Main
<1>7. DecideInv'
    BY <1>4 DEF DecideInv
<1>8. slice \in Int
    BY ProcessorAssumption
<1>9. TurnInv'
    BY <1>1, <1>2, <1>6, <1>8 DEF TurnInv
<1>10. QED
    BY <1>7, <1>9

\* Nobody has the turn while the processor sleeps.
LEMMA CallNextSleepTurn ==
    ASSUME TInv, DecideInv, TurnInv, NEW t \in Threads, CallNextSleep(t)
    PROVE  DecideInv' /\ TurnInv'
<1>1. at[t] = "decides" /\ UNCHANGED <<current_process, remaining, at, reason>>
    BY DEF CallNextSleep
<1>2. current_process = 0
    BY <1>1 DEF DecideInv
<1>3. \A s \in Pids : at[s] \notin {"user", "calls"}
    BY <1>2, MainIsNoPid DEF TurnInv, Main
<1>4. QED
    BY <1>1, <1>2, <1>3, MainIsNoPid DEF DecideInv, TurnInv, Main

\* A thread that spawns is in suspend() afterwards, as the child is.
LEMMA SpawnTurn ==
    ASSUME TInv, DecideInv, TurnInv, NEW t \in Threads, Spawn(t)
    PROVE  DecideInv' /\ TurnInv'
<1>1. Spawned(t) /\ UNCHANGED <<proc, clock, current_process, remaining, reason>>
    BY SpawnEffect DEF Spawn, simulated
<1>2. DecideInv'
    BY <1>1 DEF Spawned, DecideInv
<1>3. \A s \in Pids : /\ at'[s] \in {"user", "calls"} => at'[s] = at[s]
                      /\ at'[s] # "calls" => at[s] # "calls"
    BY <1>1, MainIsNoPid DEF Spawned
<1>4. TurnInv'
    BY <1>1, <1>3 DEF TurnInv, Left
<1>5. QED
    BY <1>2, <1>4

\* Only the thread that was chosen comes out of suspend().
LEMMA SuspendTurn ==
    ASSUME TInv, DecideInv, TurnInv, running, NEW t \in Threads, Suspend(t)
    PROVE  DecideInv' /\ TurnInv'
<1>1. /\ at[t] = "suspends"
      /\ at' = [at EXCEPT ![t] = IF current_process # t THEN "waits" ELSE "user"]
      /\ UNCHANGED <<proc, clock, current_process, remaining, reason>>
    BY DEF Suspend, simulated
<1>2. \A s \in Threads :
          at'[s] = IF s # t THEN at[s] ELSE IF current_process # t THEN "waits" ELSE "user"
    BY <1>1 DEF TInv, ThreadsInv
<1>3. DecideInv'
    BY <1>1, <1>2 DEF DecideInv
<1>4. TurnInv'
    BY <1>1, <1>2, MainIsNoPid DEF TurnInv, Left
<1>5. QED
    BY <1>3, <1>4

\* Thread 0 takes no turns.
LEMMA JoinTurn ==
    ASSUME TInv, DecideInv, TurnInv, Join
    PROVE  DecideInv' /\ TurnInv'
<1>1. /\ at' = [at EXCEPT ![Main] = at[1]] /\ at[1] \in {"ended", "panicked"}
      /\ UNCHANGED <<proc, clock, current_process, remaining, reason>>
    BY DEF Join, simulated
<1>2. \A s \in Threads : at'[s] = IF s = Main THEN at[1] ELSE at[s]
    BY <1>1 DEF TInv, ThreadsInv
<1>3. DecideInv'
    BY <1>1, <1>2 DEF DecideInv
<1>4. TurnInv'
    BY <1>1, <1>2, MainIsNoPid DEF TurnInv, Left
<1>5. QED
    BY <1>3, <1>4

-----------------------------------------------------------------------------

\* The invariant is inductive.
THEOREM Inductive == Spec => []IInv
<1>1. Init => IInv
    BY InitTyped, InitTurn DEF IInv
<1>2. IInv /\ [Next]_vars => IInv'
    <2> SUFFICES ASSUME IInv, [Next]_vars
                 PROVE  IInv'
        OBVIOUS
    <2>1. TInv'
        <3>1. CASE Join
            BY <3>1, JoinTyped DEF IInv
        <3>2. CASE \E t \in Threads : Step(t)
            BY <3>2, StepTyped DEF IInv
        <3>3. CASE UNCHANGED vars
            BY <3>3, OnlyTimePasses DEF vars, simulated, IInv, TInv, SimulatedInv
        <3>4. QED
            BY <3>1, <3>2, <3>3 DEF Next
    <2>2. ASSUME running'
          PROVE  DecideInv' /\ TurnInv'
        <3>1. TInv
            BY DEF IInv
        <3>2. ASSUME running
              PROVE  DecideInv' /\ TurnInv'
            <4>1. DecideInv /\ TurnInv
                BY <3>2 DEF IInv
            <4>2. CASE Join
                BY <3>1, <4>1, <4>2, JoinTurn
            <4>3. ASSUME NEW t \in Threads, Step(t)
                  PROVE  DecideInv' /\ TurnInv'
                <5>1. CASE Exec(t)
                    BY <3>1, <4>1, <5>1, ExecTurn
                <5>2. ASSUME NEW r \in Reasons, Ask(t, r) \/ AskNobody(t, r)
                      PROVE  DecideInv' /\ TurnInv'
                    BY <3>1, <3>2, <4>1, <5>2, AskTurn DEF AskNobody
                <5>3. CASE CallStop(t)
                    BY <3>1, <4>1, <5>3, CallStopTurn
                <5>4. CASE CallNextRun(t)
                    BY <3>1, <4>1, <5>4, CallNextRunTurn
                <5>5. CASE CallNextSleep(t)
                    BY <3>1, <4>1, <5>5, CallNextSleepTurn
                <5>6. CASE CallNextGivesUp(t)
                    BY <2>2, <5>6 DEF CallNextGivesUp
                <5>7. CASE Spawn(t)
                    BY <3>1, <4>1, <5>7, SpawnTurn
                <5>8. CASE Suspend(t)
                    BY <3>1, <3>2, <4>1, <5>8, SuspendTurn
                <5>9. QED
                    BY <4>3, <5>1, <5>2, <5>3, <5>4, <5>5, <5>6, <5>7, <5>8 DEF Step
            <4>4. CASE UNCHANGED vars
                BY <4>1, <4>4 DEF vars, simulated, DecideInv, TurnInv, Left
            <4>5. QED
                BY <4>2, <4>3, <4>4 DEF Next
        <3>3. CASE ~running
            <4>1. running' = running
                <5>1. CASE Join
                    BY <5>1 DEF Join
                <5>2. ASSUME NEW t \in Threads, Step(t)
                      PROVE  running' = running
                    BY <2>2, <3>3, <5>2
                    DEF Step, Exec, Ask, AskNobody, CallStop, CallNextRun, CallNextSleep,
                        CallNextGivesUp, Spawn, Suspend
                <5>3. CASE UNCHANGED vars
                    BY <5>3 DEF vars
                <5>4. QED
                    BY <5>1, <5>2, <5>3 DEF Next
            <4>2. QED
                BY <2>2, <3>3, <4>1
        <3>4. QED
            BY <3>2, <3>3
    <2>3. QED
        BY <2>1, <2>2 DEF IInv
<1>3. QED
    BY <1>1, <1>2, PTL DEF Spec

\* RunsAlone: while the processor runs, a process that is out of suspend() is the
\* one that was chosen last, nobody decides meanwhile, and the processor counts
\* its slice as the scheduler does (lib.rs:208-270, 298-307).
THEOREM OneRunsAtATime == Spec => []RunsAlone
<1>1. IInv => RunsAlone
    <2> SUFFICES ASSUME IInv, running, NEW t \in Pids, at[t] \in {"user", "calls"}
                 PROVE  /\ current_process = t
                        /\ Deciders = {}
                        /\ proc[t].is = "Running"
                        /\ at[t] = "user" => Now(t) \in clock .. proc[t].until - 1
                        /\ at[t] = "calls" /\ reason[t] # Expired =>
                               Now(t) \in clock + 1 .. proc[t].until
        BY DEF RunsAlone
    <2>1. DecideInv /\ TurnInv /\ SimulatedInv
        BY DEF IInv, TInv
    <2>2. current_process = t /\ proc[t].is = "Running"
        BY <2>1 DEF TurnInv
    <2>3. Deciders = {}
        BY <2>1, <2>2, MainIsNoPid DEF DecideInv, Deciders, Main
    <2>4. proc[t].until \in Int /\ clock \in Int
        BY <2>1 DEF SimulatedInv, Processes
    <2>5. ASSUME at[t] = "user"
          PROVE  Now(t) \in clock .. proc[t].until - 1
        <3>1. remaining \in 1 .. MaxSlice /\ remaining <= Left(t)
            BY <2>1, <2>2, <2>5 DEF TurnInv
        <3>2. QED
            BY <2>4, <3>1, ProcessorAssumption DEF Left, Now
    <2>6. ASSUME at[t] = "calls", reason[t] # Expired
          PROVE  Now(t) \in clock + 1 .. proc[t].until
        <3>1. remaining \in 0 .. Left(t) - 1
            BY <2>1, <2>6 DEF TurnInv
        <3>2. QED
            BY <2>4, <3>1 DEF Left, Now
    <2>7. QED
        BY <2>2, <2>3, <2>5, <2>6
<1>2. QED
    BY <1>1, Inductive, PTL

\* ThreadPerProcess: a process that is alive has its thread, or exactly one thread
\* about to spawn it; one that is not alive has neither, once its last call is
\* over (lib.rs:320-345, 377-381).
THEOREM OneThreadEach == Spec => []ThreadPerProcess
<1>1. IInv => ThreadPerProcess
    <2> DEFINE spawners(p) == {t \in Threads : child[t] = p}
    <2> SUFFICES ASSUME IInv, NEW p \in Pids
                 PROVE  /\ p \in Live => (at[p] = "unborn") = (\E t \in Threads : spawners(p) = {t})
                        /\ p \notin Live => /\ spawners(p) = {}
                                            /\ at[p] \in {"unborn", "decides", "ended"}
        BY DEF ThreadPerProcess
    <2>1. ChildInv /\ BirthInv /\ p # 0
        BY MainIsNoPid DEF IInv, TInv, Main
    <2>2. p \in Live <=> proc[p].is \notin {"Unborn", "Gone"}
        BY DEF Live, In
    <2>3. ASSUME p \in Live, at[p] = "unborn"
          PROVE  \E t \in Threads : spawners(p) = {t}
        <3>1. PICK t \in Threads : child[t] = p
            BY <2>1, <2>2, <2>3 DEF BirthInv
        <3>2. \A s \in Threads : child[s] = p => s = t
            BY <2>1, <3>1 DEF ChildInv
        <3>3. QED
            BY <3>1, <3>2
    <2>4. ASSUME NEW t \in Threads, child[t] = p
          PROVE  at[p] = "unborn" /\ p \in Live
        BY <2>1, <2>2, <2>4 DEF ChildInv
    <2>5. p \notin Live => at[p] \in {"unborn", "decides", "ended"}
        BY <2>1, <2>2 DEF BirthInv
    <2>6. (\E t \in Threads : spawners(p) = {t}) => at[p] = "unborn"
        BY <2>4
    <2>7. QED
        BY <2>3, <2>4, <2>5, <2>6
<1>2. QED
    BY <1>1, Inductive, PTL

-----------------------------------------------------------------------------
(* The REST client *)

\* Nothing on its way is of another session: only enter_library asks for a
\* token, with the cookie held, and login runs only while none is.
OnTheWay ==
    /\ request.path = "ENTER_LIBRARY" => request.cookie = cookies /\ command = "enter_library"
    /\ response.token # None => response.token = cookies
    /\ command \in CommandNames \ {"enter_library"} => response.token = None
    /\ command = "login" => cookies = None

RestInv == TokenOfThisSession /\ OnTheWay

LEMMA InitTogether == ClientInit => RestInv
BY DEF ClientInit, RestInv, TokenOfThisSession, OnTheWay, NoRequest, NoAnswer, None, CommandNames

\* Sending a request keeps them together.
LEMMA SendTogether ==
    ASSUME RestInv, NEW name, NEW message, send_server_request(name, message),
           message.path = "ENTER_LIBRARY" => message.cookie = cookies /\ name = "enter_library",
           name = "login" => cookies = None
    PROVE  RestInv'
BY DEF RestInv, TokenOfThisSession, OnTheWay, send_server_request, NoAnswer, None

LEMMA CommandsTogether == ASSUME RestInv, Commands PROVE RestInv'
<1>1. ASSUME NEW name \in {"register", "login"}, NEW path \in {"REGISTER", "LOGIN"},
             OnlyLoggedOut(name, path)
      PROVE  RestInv'
  <2>1. CASE cookies # None
    BY <1>1, <2>1 DEF OnlyLoggedOut, RestInv, TokenOfThisSession, OnTheWay
  <2>2. CASE cookies = None
    <3>1. compute_post_request(path).path # "ENTER_LIBRARY"
      BY <1>1 DEF compute_post_request, compute_get_request
    <3> QED
      BY <1>1, <2>2, <3>1, SendTogether DEF OnlyLoggedOut
  <2> QED
    BY <2>1, <2>2
<1>2. CASE register_req \/ login_req
  BY <1>1, <1>2 DEF register_req, login_req
<1>3. CASE enter_library_req
  BY <1>3, SendTogether DEF enter_library_req, compute_get_request
<1>4. CASE get_books_req \/ get_book_req \/ logout_req
  BY <1>4, SendTogether DEF get_books_req, get_book_req, logout_req, compute_get_request
<1>5. CASE add_book_req
  <2>1. compute_post_request("BOOKS").path # "ENTER_LIBRARY"
    BY DEF compute_post_request, compute_get_request
  <2> QED
    BY <1>5, <2>1, SendTogether DEF add_book_req
<1>6. CASE delete_book_req
  <2>1. compute_delete_request("BOOK").path # "ENTER_LIBRARY"
    BY DEF compute_delete_request, compute_get_request
  <2> QED
    BY <1>6, <2>1, SendTogether DEF delete_book_req
<1>7. CASE exit_command
  BY <1>7 DEF exit_command, RestInv, TokenOfThisSession, OnTheWay, CommandNames
<1> QED
  BY <1>2, <1>3, <1>4, <1>5, <1>6, <1>7 DEF Commands

\* The server hands out a token for the cookie it was shown.
LEMMA ServerTogether == ASSUME RestInv, Server PROVE RestInv'
<1>1. CASE ServerAccepts
  <2>1. /\ response'.token = IF request.path = "ENTER_LIBRARY" THEN request.cookie ELSE None
        /\ request' = NoRequest /\ UNCHANGED client
    BY <1>1 DEF ServerAccepts, Answer
  <2> QED
    BY <2>1 DEF RestInv, TokenOfThisSession, OnTheWay, client, NoRequest, None, CommandNames
<1>2. CASE ServerRefuses
  <2>1. response'.token = None /\ request' = NoRequest /\ UNCHANGED client
    BY <1>2 DEF ServerRefuses, Answer
  <2> QED
    BY <2>1 DEF RestInv, TokenOfThisSession, OnTheWay, client, NoRequest
<1> QED
  BY <1>1, <1>2 DEF Server

LEMMA ReportTogether == ASSUME RestInv, Report PROVE RestInv'
<1>1. /\ UNCHANGED <<request, response>> /\ request = NoRequest
      /\ command' \in {"idle", "aborted"}
  BY DEF Report, Waiting, ReportPlain, ReportLogin, ReportObject, ReportLogout,
         TellError, Tell, Abort
<1>2. \/ cookies' = cookies /\ token' = token
      \/ command = "login" /\ token' = token
      \/ command = "enter_library" /\ cookies' = cookies /\ token' = response.token
      \/ command = "logout" /\ cookies' = None /\ token' = None
  BY DEF Report, ReportPlain, ReportLogin, ReportObject, ReportLogout, HoldOn
<1> QED
  BY <1>1, <1>2 DEF RestInv, TokenOfThisSession, OnTheWay, NoRequest, CommandNames, None

\* Whatever the server answers, however the connections break and the sessions
\* expire, and for any number of sessions: a token the client holds is of the
\* session whose cookie it holds.
THEOREM TokenStaysWithCookie == ClientSpec => []TokenOfThisSession
<1>1. RestInv /\ [ClientNext]_clientVars => RestInv'
  <2> SUFFICES ASSUME RestInv, [ClientNext]_clientVars PROVE RestInv'
    OBVIOUS
  <2>1. CASE UNCHANGED <<cookies, token, command, request, response>>
    BY <2>1 DEF RestInv, TokenOfThisSession, OnTheWay
  <2>2. CASE SessionExpires \/ ReadPiece \/ ReadEnd \/ UNCHANGED clientVars
    BY <2>1, <2>2 DEF SessionExpires, ReadPiece, ReadEnd, clientVars, client
  <2> QED
    BY <2>2, CommandsTogether, ServerTogether, ReportTogether DEF ClientNext
<1>2. RestInv => TokenOfThisSession
  BY DEF RestInv
<1> QED
  BY <1>1, <1>2, InitTogether, PTL DEF ClientSpec

-----------------------------------------------------------------------------
\* While an answer is read: no more than has arrived, up to a length that is that
\* of the answer or, once the connection has ended, what was read.
Reading ==
    /\ response.size \in Nat /\ response.arrives \in 0..HeaderSize + response.size
    /\ request # NoRequest => got = 0 /\ total = Unknown
    /\ Waiting => got \in 0..response.arrives
    /\ \/ total \in {Unknown, HeaderSize + response.size}
       \/ total = got /\ got = response.arrives /\ (Cut \/ ~response.declared)

LEMMA ReadingSend ==
    ASSUME NEW name, NEW message, send_server_request(name, message), message.method # "none"
    PROVE  Reading'
<1>1. /\ response' = NoAnswer /\ got' = 0 /\ total' = Unknown /\ request' # NoRequest
  BY DEF send_server_request, buffer_init, NoRequest
<1> QED
  BY <1>1 DEF Reading, NoAnswer, HeaderSize, Waiting

LEMMA ReadingCommands == ASSUME Reading, Commands PROVE Reading'
<1> USE DEF compute_post_request, compute_delete_request, compute_get_request
<1>1. ASSUME NEW name, NEW path, OnlyLoggedOut(name, path) PROVE Reading'
  <2>1. CASE cookies # None
    BY <1>1, <2>1 DEF OnlyLoggedOut, Reading, Waiting, Cut
  <2>2. CASE cookies = None
    BY <1>1, <2>2, ReadingSend DEF OnlyLoggedOut
  <2> QED
    BY <2>1, <2>2
<1>2. CASE register_req \/ login_req
  BY <1>1, <1>2 DEF register_req, login_req
<1>3. CASE enter_library_req \/ get_books_req \/ get_book_req \/ logout_req
  BY <1>3, ReadingSend DEF enter_library_req, get_books_req, get_book_req, logout_req
<1>4. CASE add_book_req
  BY <1>4, ReadingSend DEF add_book_req
<1>5. CASE delete_book_req
  BY <1>5, ReadingSend DEF delete_book_req
<1>6. CASE exit_command
  BY <1>6 DEF exit_command, Reading, Waiting, Cut, CommandNames
<1> QED
  BY <1>2, <1>3, <1>4, <1>5, <1>6 DEF Commands

LEMMA ReadingServer == ASSUME Reading, Server PROVE Reading'
<1>1. ASSUME NEW body, NEW ok, NEW cookie, NEW its_token, Answer(body, ok, cookie, its_token)
      PROVE  response'.size \in Nat /\ response'.arrives \in 0..HeaderSize + response'.size
  <2>1. PICK size \in IF body = "none" THEN {0} ELSE 1..MaxBody, declared \in BOOLEAN :
            \E arrives \in 0..(HeaderSize + size) :
              response' = [body |-> body, size |-> size, cookie |-> cookie, token |-> its_token,
                           ok |-> ok, declared |-> declared, arrives |-> arrives]
    BY <1>1 DEF Answer
  <2>2. size \in Nat
    OBVIOUS
  <2> QED
    BY <2>1, <2>2
<1>2. /\ response'.size \in Nat /\ response'.arrives \in 0..HeaderSize + response'.size
      /\ request # NoRequest /\ UNCHANGED <<got, total>> /\ request' = NoRequest
  BY <1>1 DEF Server, ServerAccepts, ServerRefuses
<1> QED
  BY <1>2 DEF Reading, Unknown

LEMMA ReadingPiece == ASSUME Reading, ReadPiece \/ ReadEnd PROVE Reading'
<1>1. CASE ReadPiece
  BY <1>1 DEF ReadPiece, Reading, Waiting, TotalRead, Unknown, HeaderSize, client
<1>2. CASE ReadEnd
  BY <1>2 DEF ReadEnd, Reading, Waiting, Cut, client
<1> QED
  BY <1>1, <1>2

\* However the answers of any length are cut into pieces and wherever a connection
\* breaks: a command looks at an answer when all of it has been read, or when the
\* connection broke before it had all arrived (helpers.cpp:66-118).
THEOREM CommandsSeeWholeAnswers == ClientSpec => []AnswerReadWhole
<1>1. ClientInit => Reading
  BY DEF ClientInit, Reading, NoAnswer, HeaderSize, Waiting, CommandNames, Unknown
<1>2. Reading /\ [ClientNext]_clientVars => Reading'
  <2> SUFFICES ASSUME Reading, [ClientNext]_clientVars PROVE Reading'
    OBVIOUS
  <2>1. CASE UNCHANGED <<command, request, response, got, total>>
    BY <2>1 DEF Reading, Waiting, Cut
  <2>2. CASE SessionExpires \/ UNCHANGED clientVars
    BY <2>1, <2>2 DEF SessionExpires, clientVars, client
  <2>3. CASE Report
    <3>1. UNCHANGED <<request, response, got, total>> /\ Waiting
      BY <2>3 DEF Report
    <3> QED
      BY <3>1 DEF Reading, Waiting, Cut
  <2> QED
    BY <2>2, <2>3, ReadingCommands, ReadingServer, ReadingPiece DEF ClientNext
<1>3. Reading => AnswerReadWhole
  BY DEF Reading, AnswerReadWhole, Waiting, Enough, Cut, Whole, HeaderSize, Unknown
<1> QED
  BY <1>1, <1>2, <1>3, PTL DEF ClientSpec

-----------------------------------------------------------------------------
(* The tape *)

\* What a step of the program needs to know of the state it starts in.
StripInv == StripTypeOK /\ WellLinked

\* What a command makes of the list: a list again, at least as long.
ListKept ==
    /\ nodes' \in nodes..MaxNodes /\ last' \in 1..nodes' /\ actual' \in 1..nodes'
    /\ next' \in [Nodes -> Nodes \cup {Null}] /\ prev' \in [Nodes -> Nodes \cup {Null}]
    /\ character' \in [Nodes -> Arguments \cup {"#", "empty"}]
    /\ WellLinked'

\* Putting a node between two neighbours of the list leaves a list: the four
\* pointers of insertLeft, insertRight and addNodeRear.
LEMMA LinkedKeepsList ==
    ASSUME StripInv, NEW c \in Arguments \cup {"#"}, NEW left \in 0..nodes,
           NEW right \in TapeNode \cup {Null},
           next[left] = right, Linked(c, left, right),
           actual' = newNode, last' = IF left = last THEN newNode ELSE last
    PROVE  ListKept
<1> USE MaxNodesAssumption DEF Nodes, Null, Sentinel, TapeNode
<1>1. /\ nodes \in 1..MaxNodes /\ nodes < MaxNodes /\ last \in 1..nodes
      /\ next \in [Nodes -> Nodes \cup {Null}] /\ prev \in [Nodes -> Nodes \cup {Null}]
      /\ character \in [Nodes -> Arguments \cup {"#", "empty"}]
  BY DEF StripInv, StripTypeOK, Linked, Room
<1>2. /\ nodes' = nodes + 1
      /\ next' = [next EXCEPT ![left] = nodes + 1, ![nodes + 1] = right]
      /\ prev' = [n \in Nodes |-> IF n = nodes + 1 THEN left
                                 ELSE IF n = right THEN nodes + 1 ELSE prev[n]]
      /\ character' = [character EXCEPT ![nodes + 1] = c]
      /\ actual' = nodes + 1
  BY DEF Linked, newNode
<1>3. /\ next[last] = Null /\ prev[0] = Null
      /\ \A n \in 0..nodes : n # last => next[n] \in 1..nodes /\ prev[next[n]] = n
      /\ \A n \in 1..nodes : prev[n] \in 0..nodes /\ next[prev[n]] = n
  BY DEF StripInv, WellLinked
<1>4. /\ nodes' \in 1..MaxNodes /\ last' \in 1..nodes' /\ actual' \in 1..nodes'
      /\ next' \in [Nodes -> Nodes \cup {Null}]
      /\ character' \in [Nodes -> Arguments \cup {"#", "empty"}]
  BY <1>1, <1>2 DEF newNode
<1>5. prev' \in [Nodes -> Nodes \cup {Null}]
  BY <1>1, <1>2
<1>6. right = Null <=> left = last
  BY <1>1, <1>3
<1>7. next'[last'] = Null /\ prev'[0] = Null
  BY <1>1, <1>2, <1>3, <1>6 DEF newNode
<1>8. ASSUME NEW n \in 0..nodes', n # last'
      PROVE  next'[n] \in 1..nodes' /\ prev'[next'[n]] = n
  <2>1. CASE n = left
    BY <1>1, <1>2, <2>1
  <2>2. CASE n = nodes + 1
    BY <1>1, <1>2, <1>6, <1>8, <2>2 DEF newNode
  <2>3. CASE n # left /\ n # nodes + 1
    <3>1. n \in 0..nodes /\ n # last
      BY <1>1, <1>2, <1>8, <2>3 DEF newNode
    <3>2. next[n] \in 1..nodes /\ prev[next[n]] = n /\ next[n] # right
      BY <1>1, <1>3, <1>6, <2>3, <3>1
    <3> QED
      BY <1>1, <1>2, <2>3, <3>1, <3>2
  <2> QED
    BY <2>1, <2>2, <2>3
<1>9. ASSUME NEW n \in 1..nodes'
      PROVE  prev'[n] \in 0..nodes' /\ next'[prev'[n]] = n
  <2>1. CASE n = nodes + 1
    BY <1>1, <1>2, <2>1
  <2>2. CASE n = right
    BY <1>1, <1>2, <2>2
  <2>3. CASE n # right /\ n # nodes + 1
    <3>1. n \in 1..nodes /\ prev[n] \in 0..nodes /\ next[prev[n]] = n /\ prev[n] # left
      BY <1>1, <1>2, <1>3, <2>3
    <3> QED
      BY <1>1, <1>2, <2>3, <3>1
  <2> QED
    BY <2>1, <2>2, <2>3
<1>10. WellLinked'
  BY <1>7, <1>8, <1>9 DEF WellLinked
<1>11. nodes' \in nodes..MaxNodes
  BY <1>1, <1>2
<1> QED
  BY <1>4, <1>5, <1>10, <1>11 DEF ListKept

\* A position remembered on a shorter tape is one of a longer tape.
LEMMA HistoryGrows ==
    ASSUME NEW m \in Nat, NEW n \in Nat, m <= n, NEW s \in Seq(1..m)
    PROVE  s \in Seq(1..n)
<1>1. s \in [1..Len(s) -> 1..n] /\ Len(s) \in Nat
  OBVIOUS
<1> QED
  BY <1>1

\* What the commands leave as it is: the stacks, the queue and the fault flag.
Kept == /\ UNDO' \in Seq(1..nodes) /\ REDO' \in Seq(1..nodes)
        /\ opQueue' \in Seq(QueueCommands) /\ fault' \in BOOLEAN

LEMMA KeptEnough == ASSUME StripInv, Kept, ListKept PROVE StripInv'
<1> USE MaxNodesAssumption
<1>1. nodes \in Nat /\ nodes' \in Nat /\ nodes <= nodes' /\ nodes' \in 1..MaxNodes
  BY DEF StripInv, StripTypeOK, ListKept
<1>2. UNDO' \in Seq(1..nodes') /\ REDO' \in Seq(1..nodes')
  BY <1>1, HistoryGrows DEF Kept
<1> QED
  BY <1>1, <1>2 DEF StripInv, StripTypeOK, Kept, ListKept, TapeNode

LEMMA MoveOnList ==
    ASSUME StripInv, actual' \in TapeNode, UNCHANGED <<nodes, next, prev, character, last>>
    PROVE  ListKept
BY MaxNodesAssumption DEF StripInv, StripTypeOK, ListKept, WellLinked, TapeNode

LEMMA StripKept == ASSUME StripInv, UNCHANGED strip PROVE ListKept
BY MoveOnList DEF StripInv, StripTypeOK, strip

LEMMA RearKeepsList ==
    ASSUME StripInv, NEW c \in Arguments \cup {"#"}, NEW made \in BOOLEAN, addNodeRear(c, made)
    PROVE  ListKept
<1> USE MaxNodesAssumption
<1>1. CASE made
  <2>1. /\ last \in 0..nodes /\ Null \in TapeNode \cup {Null} /\ next[last] = Null
        /\ Linked(c, last, Null) /\ actual' = newNode /\ last' = newNode
    BY <1>1 DEF addNodeRear, StripInv, StripTypeOK, WellLinked, TapeNode
  <2> QED
    BY <2>1, LinkedKeepsList
<1>2. CASE ~made
  BY <1>2, MoveOnList DEF addNodeRear, StripInv, StripTypeOK
<1> QED
  BY <1>1, <1>2

LEMMA MoveLeftKeepsList == ASSUME StripInv, moveLeft PROVE ListKept
<1>1. actual' \in TapeNode
  BY MaxNodesAssumption DEF moveLeft, StripInv, StripTypeOK, WellLinked, TapeNode, Sentinel
<1> QED
  BY <1>1, MoveOnList DEF moveLeft

LEMMA MoveRightKeepsList ==
    ASSUME StripInv, NEW made \in BOOLEAN, moveRight(made)
    PROVE  ListKept
<1>1. CASE actual = last
  BY <1>1, RearKeepsList DEF moveRight
<1>2. CASE actual # last
  <2>1. actual' \in TapeNode
    BY <1>2, MaxNodesAssumption DEF moveRight, StripInv, StripTypeOK, WellLinked, TapeNode
  <2> QED
    BY <1>2, <2>1, MoveOnList DEF moveRight
<1> QED
  BY <1>1, <1>2

LEMMA SearchesKeepList ==
    ASSUME StripInv, NEW c \in Arguments, NEW made \in BOOLEAN,
           moveLeftChar(c) \/ moveRightChar(c, made)
    PROVE  ListKept
<1>1. CASE moveLeftChar(c)
  <2>1. actual' \in TapeNode
    BY <1>1 DEF moveLeftChar, Found, StopAtFirst, StripInv, StripTypeOK
  <2> QED
    BY <1>1, <2>1, MoveOnList DEF moveLeftChar
<1>2. CASE moveRightChar(c, made)
  <2>1. CASE addNodeRear("#", made)
    BY <2>1, RearKeepsList
  <2>2. CASE /\ StopAtFirst(Rightward[actual], Found(Rightward[actual], c))
             /\ UNCHANGED <<nodes, next, prev, character, last>>
    BY <2>2, MoveOnList DEF Found, StopAtFirst
  <2> QED
    BY <1>2, <2>1, <2>2 DEF moveRightChar
<1> QED
  BY <1>1, <1>2

LEMMA WriteKeepsList == ASSUME StripInv, NEW c \in Arguments, write(c) PROVE ListKept
BY MaxNodesAssumption DEF write, StripInv, StripTypeOK, WellLinked, ListKept, TapeNode, Nodes

LEMMA InsertsKeepList ==
    ASSUME StripInv, NEW c \in Arguments, NEW made \in BOOLEAN,
           insertLeft(c, made) \/ insertRight(c, made)
    PROVE  ListKept
<1> USE MaxNodesAssumption
<1>1. CASE UNCHANGED strip
  BY <1>1, StripKept
<1>2. CASE Linked(c, prev[actual], actual) /\ actual' = newNode /\ last' = last
           /\ prev[actual] # Sentinel
  <2>1. /\ prev[actual] \in 0..nodes /\ actual \in TapeNode /\ next[prev[actual]] = actual
        /\ next[last] = Null /\ actual # Null
    BY DEF StripInv, StripTypeOK, WellLinked, TapeNode, Null
  <2>2. prev[actual] # last
    BY <2>1
  <2> QED
    BY <1>2, <2>1, <2>2, LinkedKeepsList
<1>3. CASE Linked(c, actual, next[actual]) /\ actual' = newNode /\ last' = last
           /\ actual # last
  <2>1. actual \in 0..nodes /\ next[actual] \in TapeNode \cup {Null}
    BY <1>3 DEF StripInv, StripTypeOK, WellLinked, TapeNode
  <2> QED
    BY <1>3, <2>1, LinkedKeepsList
<1>4. CASE addNodeRear(c, TRUE)
  BY <1>4, RearKeepsList
<1>5. CASE write(c)
  BY <1>5, WriteKeepsList
<1> QED
  BY <1>1, <1>2, <1>3, <1>4, <1>5 DEF insertLeft, insertRight

LEMMA InitList == StripInit => StripInv
<1> SUFFICES ASSUME StripInit PROVE StripInv
  OBVIOUS
<1> USE MaxNodesAssumption DEF TapeNode, Nodes, Null, Sentinel
<1>1. nodes \in 1..MaxNodes /\ last \in TapeNode /\ actual \in TapeNode
  BY DEF StripInit
<1>2. /\ next \in [Nodes -> Nodes \cup {Null}] /\ prev \in [Nodes -> Nodes \cup {Null}]
      /\ character \in [Nodes -> Arguments \cup {"#", "empty"}]
  BY DEF StripInit
<1>3. UNDO \in Seq(TapeNode) /\ REDO \in Seq(TapeNode) /\ opQueue \in Seq(QueueCommands)
  BY DEF StripInit
<1>4. WellLinked
  BY DEF StripInit, WellLinked
<1> QED
  BY <1>1, <1>2, <1>3, <1>4 DEF StripInit, StripInv, StripTypeOK

\* What EXECUTE takes from the queue: the command named, with an argument where
\* the command has one, and a queue of commands that is left.
LEMMA Dequeued ==
    ASSUME StripInv, NEW op, dequeue(op)
    PROVE  /\ opQueue' \in Seq(QueueCommands)
           /\ op \notin {"MOVE_LEFT", "MOVE_RIGHT"} => Head(opQueue).arg \in Arguments
<1>1. opQueue' \in Seq(QueueCommands) /\ Head(opQueue) \in QueueCommands /\ Head(opQueue).op = op
  BY DEF StripInv, StripTypeOK, dequeue
<1> QED
  BY <1>1 DEF QueueCommands

LEMMA Pushed ==
    ASSUME StripInv, NEW stack \in Seq(TapeNode), NEW made \in BOOLEAN
    PROVE  push(stack, actual, made) \in Seq(1..nodes)
<1>1. CASE made
  <2>1. <<actual>> \in Seq(TapeNode) /\ <<actual>> \o stack \in Seq(TapeNode)
    BY DEF StripInv, StripTypeOK
  <2> QED
    BY <1>1, <2>1 DEF push, TapeNode
<1>2. CASE ~made
  BY <1>2 DEF push, TapeNode
<1> QED
  BY <1>1, <1>2

LEMMA NextKeepsIInv == ASSUME StripInv, [StripNext]_stripVars PROVE StripInv'
<1> USE DEF Malloc
<1>0. /\ UNDO \in Seq(TapeNode) /\ REDO \in Seq(TapeNode) /\ opQueue \in Seq(QueueCommands)
      /\ fault \in BOOLEAN /\ actual \in TapeNode
  BY DEF StripInv, StripTypeOK
<1>1. CASE ExecuteMoveLeft
  <2>1. PICK made \in BOOLEAN :
          LET pushed == push(UNDO, actual, made)
          IN  /\ moveLeft
              /\ fault' = (pushed = <<>>)
              /\ UNDO' = IF pushed # <<>> /\ Head(pushed) = actual' THEN Tail(pushed) ELSE pushed
    BY <1>1 DEF ExecuteMoveLeft
  <2>2. push(UNDO, actual, made) \in Seq(1..nodes)
    BY <1>0, Pushed
  <2>3. UNDO' \in Seq(1..nodes) /\ fault' \in BOOLEAN
    <3> DEFINE pushed == push(UNDO, actual, made)
    <3>1. pushed # <<>> => Tail(pushed) \in Seq(1..nodes)
      BY <2>2
    <3>2. UNDO' = IF pushed # <<>> /\ Head(pushed) = actual' THEN Tail(pushed) ELSE pushed
      BY <2>1
    <3>3. fault' = (pushed = <<>>)
      BY <2>1
    <3> HIDE DEF pushed
    <3>4. fault' \in BOOLEAN
      BY <3>3
    <3> QED
      BY <2>2, <3>1, <3>2, <3>4 DEF pushed
  <2>4. Kept
    BY <1>0, <1>1, <2>3, Dequeued DEF ExecuteMoveLeft, Kept, TapeNode
  <2> QED
    BY <2>1, <2>4, MoveLeftKeepsList, KeptEnough
<1>2. CASE ExecuteMoveRight
  <2>1. PICK pushed, made \in BOOLEAN : UNDO' = push(UNDO, actual, pushed) /\ moveRight(made)
    BY <1>2 DEF ExecuteMoveRight
  <2>2. Kept
    BY <1>0, <1>2, <2>1, Pushed, Dequeued DEF ExecuteMoveRight, Kept, TapeNode
  <2> QED
    BY <2>1, <2>2, MoveRightKeepsList, KeptEnough
<1>3. CASE ExecuteEdit
  <2>1. UNCHANGED <<UNDO, REDO, fault>>
    BY <1>3 DEF ExecuteEdit
  <2> DEFINE c == Head(opQueue).arg
  <2>2. PICK made \in BOOLEAN :
          \/ dequeue("WRITE") /\ write(c)
          \/ dequeue("MOVE_LEFT_CHAR") /\ moveLeftChar(c)
          \/ dequeue("MOVE_RIGHT_CHAR") /\ moveRightChar(c, made)
          \/ dequeue("INSERT_LEFT") /\ insertLeft(c, made)
          \/ dequeue("INSERT_RIGHT") /\ insertRight(c, made)
    BY <1>3 DEF ExecuteEdit
  <2>3. c \in Arguments /\ opQueue' \in Seq(QueueCommands)
    BY <2>2, Dequeued
  <2>4. Kept
    BY <1>0, <2>1, <2>3 DEF Kept, TapeNode
  <2> HIDE DEF c
  <2>5. ListKept
    BY <2>2, <2>3, WriteKeepsList, SearchesKeepList, InsertsKeepList
  <2> QED
    BY <2>4, <2>5, KeptEnough
<1>4. CASE Undo
  <2>1. PICK made \in BOOLEAN : REDO' = push(REDO, actual, made)
    BY <1>4 DEF Undo
  <2>2. actual' \in TapeNode /\ UNDO' \in Seq(TapeNode) /\ UNCHANGED <<nodes, next, prev, character, last>>
    BY <1>0, <1>4 DEF Undo
  <2>3. Kept
    BY <1>0, <1>4, <2>1, <2>2, Pushed DEF Undo, Kept, TapeNode
  <2> QED
    BY <2>2, <2>3, MoveOnList, KeptEnough
<1>5. CASE Redo
  <2>1. PICK made \in BOOLEAN : UNDO' = push(UNDO, actual, made)
    BY <1>5 DEF Redo
  <2>2. actual' \in TapeNode /\ REDO' \in Seq(TapeNode) /\ UNCHANGED <<nodes, next, prev, character, last>>
    BY <1>0, <1>5 DEF Redo
  <2>3. Kept
    BY <1>0, <1>5, <2>1, <2>2, Pushed DEF Redo, Kept, TapeNode
  <2> QED
    BY <2>2, <2>3, MoveOnList, KeptEnough
<1>6. CASE UNCHANGED <<strip, UNDO, REDO, fault>> /\ opQueue' \in Seq(QueueCommands)
  <2>1. Kept
    BY <1>0, <1>6 DEF Kept, TapeNode
  <2> QED
    BY <1>6, <2>1, StripKept, KeptEnough
<1>7. CASE showCurrent \/ show \/ UNCHANGED stripVars
  BY <1>0, <1>6, <1>7 DEF showCurrent, show, stripVars, strip
<1>8. ASSUME NEW cmd \in QueueCommands, enqueue(cmd) PROVE StripInv'
  <2>1. opQueue' \in Seq(QueueCommands)
    BY <1>0, <1>8 DEF enqueue
  <2> QED
    BY <1>6, <1>8, <2>1 DEF enqueue
<1> QED
  BY <1>1, <1>2, <1>3, <1>4, <1>5, <1>7, <1>8 DEF StripNext

\* For every number of cells, of remembered positions and of waiting commands,
\* and whichever allocations fail, the tape stays a list linked in both
\* directions with the finger and every remembered position on it.
THEOREM StripStaysLinked == StripSpec => [](StripTypeOK /\ WellLinked)
<1>1. StripInv /\ [StripNext]_stripVars => StripInv'
  BY NextKeepsIInv
<1>2. StripInv => StripTypeOK /\ WellLinked
  BY DEF StripInv
<1> QED
  BY <1>1, <1>2, InitList, PTL DEF StripSpec

-----------------------------------------------------------------------------
(* The tape of positions *)

\* A set of numbers that reaches as far as a step from each of them does reaches N.
LEMMA UpTo ==
    ASSUME NEW N \in Nat, NEW I \in SUBSET Nat, 0 \in I, \A n \in I : n < N => n + 1 \in I
    PROVE  0..N \subseteq I
<1> DEFINE J == (0..N) \ I
           Below == {p \in Nat \X Nat : p[1] < p[2]}
<1>1. IsWellFoundedOn(Below, Nat)
  <2>1. IsWellFoundedOn(OpToRel(<, Nat), Nat)
    BY NatLessThanWellFounded
  <2>2. OpToRel(<, Nat) = Below
    BY DEF OpToRel
  <2> QED
    BY <2>1, <2>2
<1>2. SUFFICES ASSUME J # {} PROVE FALSE
  OBVIOUS
<1>3. PICK m \in J : \A n \in J : <<n, m>> \notin Below
  <2>1. J \in SUBSET Nat
    OBVIOUS
  <2> HIDE DEF J, Below
  <2> QED
    BY <1>1, <1>2, <2>1, WFMin
<1>4. m \in Nat /\ m <= N /\ m \notin I /\ m # 0
  OBVIOUS
<1>5. m - 1 \in Nat /\ m - 1 < N /\ m - 1 < m
  BY <1>4
<1>6. m - 1 \notin J
  BY <1>3, <1>4, <1>5
<1>7. m - 1 \in I
  BY <1>5, <1>6
<1> QED
  BY <1>4, <1>5, <1>7

\* An element in front of a sequence.
LEMMA InFront ==
    ASSUME NEW S, NEW x \in S, NEW m \in Nat, NEW f \in [1..m -> S]
    PROVE  <<x>> \o f = [k \in 1..m + 1 |-> IF k = 1 THEN x ELSE f[k - 1]]
<1> DEFINE g == [k \in 1..m + 1 |-> IF k = 1 THEN x ELSE f[k - 1]]
           h == <<x>> \o f
<1>1. f \in Seq(S) /\ Len(f) = m /\ <<x>> \in Seq(S) /\ Len(<<x>>) = 1
  OBVIOUS
<1>2. h \in Seq(S) /\ Len(h) = m + 1
  BY <1>1
<1>3. g \in Seq(S) /\ Len(g) = m + 1
  OBVIOUS
<1>4. ASSUME NEW k \in 1..m + 1 PROVE h[k] = g[k]
  BY <1>1
<1> HIDE DEF g, h
<1>5. h = g
  BY <1>2, <1>3, <1>4
<1> QED
  BY <1>5 DEF g, h

\* The list from the sentinel to last: w is the node at each place, p its inverse.
IsWalk(w, p) ==
    /\ w = [i \in 1..nodes |-> w[i]]
    /\ \A i \in 1..nodes : w[i] \in Nat /\ 1 <= w[i] /\ w[i] <= nodes
    /\ \A n \in 1..nodes : p[n] \in Nat /\ 1 <= p[n] /\ p[n] <= nodes
    /\ \A i, n \in 1..nodes : w[i] = n <=> p[n] = i
    /\ next[Sentinel] = w[1] /\ prev[w[1]] = Sentinel
    /\ \A i, j \in 1..nodes : j = i + 1 => next[w[i]] = w[j] /\ prev[w[j]] = w[i]
    /\ w[nodes] = last
    /\ \A n \in Nodes : n > nodes => next[n] = Null /\ prev[n] = Null

\* What a search from place i meets on its way.
RightOf(w, i, N) == [k \in 1..N - i + 1 |-> w[i + k - 1]]
LeftOf(w, i) == [k \in 1..i + 1 |-> IF k = i + 1 THEN Sentinel ELSE w[i + 1 - k]]

LEMMA RightOfStep ==
    ASSUME NEW N \in Nat, NEW w \in [1..N -> Nodes], NEW i \in 1..N - 1
    PROVE  RightOf(w, i, N) = <<w[i]>> \o RightOf(w, i + 1, N)
<1> DEFINE f == RightOf(w, i + 1, N)
           m == N - i
<1>1. m \in Nat /\ f \in [1..m -> Nodes] /\ w[i] \in Nodes
  BY DEF RightOf
<1>2. <<w[i]>> \o f = [k \in 1..m + 1 |-> IF k = 1 THEN w[i] ELSE f[k - 1]]
  <2> HIDE DEF f, m
  <2> QED
    BY <1>1, InFront
<1>3. \A k \in 1..m + 1 : (IF k = 1 THEN w[i] ELSE f[k - 1]) = w[i + k - 1]
  BY DEF RightOf
<1> QED
  BY <1>2, <1>3 DEF RightOf

LEMMA LeftOfStep ==
    ASSUME NEW N \in Nat, NEW w \in [1..N -> Nodes], NEW i \in 0..N - 1
    PROVE  LeftOf(w, i + 1) = <<w[i + 1]>> \o LeftOf(w, i)
<1> DEFINE f == LeftOf(w, i)
           m == i + 1
<1>1. m \in Nat /\ f \in [1..m -> Nodes] /\ w[i + 1] \in Nodes
  BY MaxNodesAssumption DEF LeftOf, Nodes, Sentinel
<1>2. <<w[i + 1]>> \o f = [k \in 1..m + 1 |-> IF k = 1 THEN w[i + 1] ELSE f[k - 1]]
  <2> HIDE DEF f, m
  <2> QED
    BY <1>1, InFront
<1>3. \A k \in 1..m + 1 :
        (IF k = 1 THEN w[i + 1] ELSE f[k - 1]) = IF k = i + 2 THEN Sentinel ELSE w[i + 2 - k]
  BY DEF LeftOf
<1> QED
  BY <1>2, <1>3 DEF LeftOf

\* What a walk is, as numbers and pointers.
Known(w, p) ==
    /\ nodes \in 1..MaxNodes /\ MaxNodes \in Nat /\ nodes \in Nat \ {0}
    /\ Nodes = 0..MaxNodes /\ Null = -1 /\ Sentinel = 0
    /\ \A n \in 1..nodes : n \in Nodes /\ n # Null /\ n # Sentinel
    /\ \A i \in 1..nodes : w[i] \in Nat /\ 1 <= w[i] /\ w[i] <= nodes
    /\ \A n \in 1..nodes : p[n] \in Nat /\ 1 <= p[n] /\ p[n] <= nodes
    /\ \A i, n \in 1..nodes : w[i] = n <=> p[n] = i
    /\ next[Sentinel] = w[1] /\ prev[w[1]] = Sentinel
    /\ \A i, j \in 1..nodes : j = i + 1 => next[w[i]] = w[j] /\ prev[w[j]] = w[i]
    /\ w[nodes] = last /\ last \in 1..nodes /\ actual \in 1..nodes
    /\ next[last] = Null /\ prev[Sentinel] = Null
    /\ \A n \in Nodes : n > nodes => next[n] = Null /\ prev[n] = Null

LEMMA WalkFacts == ASSUME StripInv, NEW w, NEW p, IsWalk(w, p) PROVE Known(w, p)
<1>1. /\ nodes \in 1..MaxNodes /\ MaxNodes \in Nat /\ nodes \in Nat \ {0}
      /\ last \in 1..nodes /\ actual \in 1..nodes
      /\ next[last] = Null /\ prev[Sentinel] = Null
  BY MaxNodesAssumption DEF StripInv, StripTypeOK, WellLinked, TapeNode
<1>2. Nodes = 0..MaxNodes /\ Null = -1 /\ Sentinel = 0
  BY DEF Nodes, Null, Sentinel
<1>3. \A n \in 1..nodes : n \in Nodes /\ n # Null /\ n # Sentinel
  BY <1>1, <1>2
<1> QED
  BY <1>1, <1>2, <1>3 DEF IsWalk, Known

LEMMA WalkIsFunction == ASSUME StripInv, NEW w, NEW p, IsWalk(w, p) PROVE w \in [1..nodes -> Nodes]
<1>1. \A i \in 1..nodes : w[i] \in Nodes
  <2>1. Known(w, p)
    BY WalkFacts
  <2> QED
    BY <2>1 DEF Known
<1>2. w = [i \in 1..nodes |-> w[i]]
  BY DEF IsWalk
<1> QED
  BY <1>1, <1>2

\* A search to the right follows the list to its end.
LEMMA RightwardIs ==
    ASSUME StripInv, NEW w, NEW p, IsWalk(w, p)
    PROVE  \A i \in 1..nodes : Rightward[w[i]] = RightOf(w, i, nodes)
<1>a. Known(w, p)
  BY WalkFacts
<1>b. w \in [1..nodes -> Nodes] /\ nodes \in Nat \ {0}
  BY <1>a, WalkIsFunction DEF Known
<1> DEFINE Follows(f) ==
               f = [n \in Nodes |-> IF next[n] = Null THEN <<n>> ELSE <<n>> \o f[next[n]]]
           g == [n \in Nodes |->
                   IF n = Sentinel THEN <<n>> \o RightOf(w, 1, nodes)
                   ELSE IF n <= nodes THEN RightOf(w, p[n], nodes) ELSE <<n>>]
<1>1. RightOf(w, nodes, nodes) = <<w[nodes]>>
  <2>1. nodes \in Nat /\ nodes - nodes + 1 = 1 /\ \A k \in 1..1 : nodes + k - 1 = nodes
    BY <1>a DEF Known
  <2> QED
    BY <2>1 DEF RightOf
<1>2. ASSUME NEW n \in Nodes
      PROVE  g[n] = IF next[n] = Null THEN <<n>> ELSE <<n>> \o g[next[n]]
  <2>1. CASE n = Sentinel
    <3>1. next[n] = w[1] /\ w[1] \in 1..nodes /\ p[w[1]] = 1 /\ w[1] # Null /\ w[1] \in Nodes
      BY <2>1, <1>a DEF Known
    <3>2. g[w[1]] = RightOf(w, 1, nodes)
      BY <3>1, <1>a DEF Known
    <3> QED
      BY <2>1, <3>1, <3>2
  <2>2. CASE n \in 1..nodes /\ p[n] # nodes
    <3>1. PICK i \in 1..nodes - 1, j \in 1..nodes : i = p[n] /\ j = i + 1
      <4>1. p[n] \in 1..nodes - 1 /\ p[n] + 1 \in 1..nodes
        BY <2>2, <1>a DEF Known
      <4> QED
        BY <4>1
    <3>2. i \in 1..nodes /\ w[i] = n
      BY <2>2, <3>1, <1>a DEF Known
    <3>3. next[n] = w[j]
      <4>1. \A k, m \in 1..nodes : m = k + 1 => next[w[k]] = w[m]
        BY <1>a DEF Known
      <4> QED
        BY <3>1, <3>2, <4>1
    <3>4. w[j] \in 1..nodes /\ w[j] # Null /\ w[j] # Sentinel
      BY <1>a DEF Known
    <3>5. p[w[j]] = j
      BY <3>4, <1>a DEF Known
    <3>6. g[w[j]] = RightOf(w, j, nodes) /\ g[n] = RightOf(w, i, nodes)
      <4>1. \A m \in 1..nodes : m \in Nodes /\ m # Sentinel /\ m <= nodes
        BY <1>a DEF Known
      <4>2. \A m \in 1..nodes : g[m] = RightOf(w, p[m], nodes)
        BY <4>1
      <4> HIDE DEF g
      <4> QED
        BY <2>2, <3>1, <3>4, <3>5, <4>2
    <3>7. RightOf(w, i, nodes) = <<n>> \o RightOf(w, j, nodes)
      BY <1>b, <3>1, <3>2, RightOfStep
    <3> HIDE DEF g
    <3> QED
      BY <3>3, <3>4, <3>6, <3>7
  <2>3. CASE n \in 1..nodes /\ p[n] = nodes
    <3>1. w[nodes] = n /\ next[n] = Null
      BY <2>3, <1>a DEF Known
    <3>2. g[n] = RightOf(w, nodes, nodes)
      BY <2>3, <1>a DEF Known
    <3> HIDE DEF g
    <3> QED
      BY <1>1, <3>1, <3>2
  <2>4. CASE n > nodes
    <3>1. next[n] = Null /\ n # Sentinel /\ ~(n <= nodes)
      BY <2>4, <1>a DEF Nodes, Sentinel, Known
    <3> QED
      BY <3>1
  <2>5. n = Sentinel \/ n \in 1..nodes \/ n > nodes
    BY <1>a DEF Nodes, Sentinel, Known
  <2> QED
    BY <2>1, <2>2, <2>3, <2>4, <2>5
<1>3. Follows(g)
  <2> DEFINE Body(f) == [n \in Nodes |-> IF next[n] = Null THEN <<n>> ELSE <<n>> \o f[next[n]]]
  <2>1. \A n \in Nodes : g[n] = Body(g)[n]
    BY <1>2
  <2>2. DOMAIN g = Nodes /\ DOMAIN Body(g) = Nodes /\ g = [n \in Nodes |-> g[n]]
        /\ Body(g) = [n \in Nodes |-> Body(g)[n]]
    OBVIOUS
  <2> HIDE DEF g, Body
  <2>3. g = Body(g)
    BY <2>1, <2>2
  <2> QED
    BY <2>3 DEF Body
<1>4. Follows(Rightward)
  <2>1. \E f : Follows(f)
    BY <1>3
  <2>2. Rightward = CHOOSE f : Follows(f)
    BY DEF Rightward
  <2> QED
    BY <2>1, <2>2
<1> HIDE DEF g
<1>5. /\ \A n \in Nodes : next[n] = Null => Rightward[n] = <<n>>
      /\ \A n, m \in Nodes : next[n] = m => Rightward[n] = <<n>> \o Rightward[m]
  <2>1. ASSUME NEW n \in Nodes
        PROVE  Rightward[n] = IF next[n] = Null THEN <<n>> ELSE <<n>> \o Rightward[next[n]]
    BY <1>4
  <2>2. \A m \in Nodes : m # Null
    BY DEF Nodes, Null
  <2> QED
    BY <2>1, <2>2
<1> DEFINE I == {d \in Nat : d < nodes => Rightward[w[nodes - d]] = RightOf(w, nodes - d, nodes)}
<1>6. 0 \in I
  <2>1. Rightward[w[nodes]] = <<w[nodes]>>
    BY <1>5, <1>a DEF Known
  <2>2. nodes - 0 = nodes
    BY <1>a DEF Known
  <2> QED
    BY <1>1, <2>1, <2>2
<1>7. ASSUME NEW d \in I, d < nodes PROVE d + 1 \in I
  <2>1. SUFFICES ASSUME d + 1 < nodes
                 PROVE  Rightward[w[nodes - (d + 1)]] = RightOf(w, nodes - (d + 1), nodes)
    OBVIOUS
  <2>2. PICK i \in 1..nodes - 1 : i = nodes - (d + 1) /\ i + 1 = nodes - d
    BY <2>1, <1>a DEF Known
  <2>3. next[w[i]] = w[i + 1] /\ w[i] \in Nodes /\ w[i + 1] \in Nodes
    BY <2>2, <1>a DEF Known
  <2>4. Rightward[w[i]] = <<w[i]>> \o Rightward[w[i + 1]]
    BY <1>5, <2>3
  <2>5. Rightward[w[i + 1]] = RightOf(w, i + 1, nodes)
    BY <1>7, <2>2
  <2>6. RightOf(w, i, nodes) = <<w[i]>> \o RightOf(w, i + 1, nodes)
    BY <1>b, RightOfStep
  <2> QED
    BY <2>2, <2>4, <2>5, <2>6
<1>8. 0..nodes \subseteq I
  <2>1. nodes \in Nat /\ I \in SUBSET Nat
    BY <1>a DEF Known
  <2> HIDE DEF I
  <2> QED
    BY <1>6, <1>7, <2>1, UpTo
<1>9. ASSUME NEW i \in 1..nodes PROVE Rightward[w[i]] = RightOf(w, i, nodes)
  <2>1. PICK d \in 0..nodes : d < nodes /\ i = nodes - d
    <3>1. nodes - i \in 0..nodes /\ nodes - i < nodes /\ i = nodes - (nodes - i)
      BY <1>a DEF Known
    <3> QED
      BY <3>1
  <2>2. d \in I
    BY <1>8
  <2> QED
    BY <2>1, <2>2
<1> QED
  BY <1>9

\* A search to the left follows it back, and meets the sentinel last.
LEMMA LeftwardIs ==
    ASSUME StripInv, NEW w, NEW p, IsWalk(w, p)
    PROVE  \A i \in 1..nodes : Leftward[w[i]] = LeftOf(w, i)
<1>a. Known(w, p)
  BY WalkFacts
<1>b. w \in [1..nodes -> Nodes] /\ nodes \in Nat \ {0}
  BY <1>a, WalkIsFunction DEF Known
<1> DEFINE Follows(f) ==
               f = [n \in Nodes |-> IF prev[n] = Null THEN <<n>> ELSE <<n>> \o f[prev[n]]]
           g == [n \in Nodes |->
                   IF n = Sentinel THEN <<n>>
                   ELSE IF n <= nodes THEN LeftOf(w, p[n]) ELSE <<n>>]
<1>1. LeftOf(w, 0) = <<Sentinel>>
  <2>1. LeftOf(w, 0) = [k \in 1..1 |-> IF k = 1 THEN Sentinel ELSE w[1 - k]]
    BY DEF LeftOf
  <2> QED
    BY <2>1
<1>2. ASSUME NEW n \in Nodes
      PROVE  g[n] = IF prev[n] = Null THEN <<n>> ELSE <<n>> \o g[prev[n]]
  <2>1. CASE n = Sentinel
    BY <2>1, <1>a DEF Known
  <2>2. CASE n \in 1..nodes /\ p[n] # 1
    <3>1. PICK i \in 1..nodes - 1, j \in 1..nodes : j = p[n] /\ j = i + 1
      <4>1. p[n] \in 1..nodes /\ nodes \in Nat
        BY <2>2, <1>a DEF Known
      <4>2. p[n] - 1 \in 1..nodes - 1 /\ (p[n] - 1) + 1 = p[n]
        BY <2>2, <4>1
      <4> QED
        BY <4>1, <4>2
    <3>2. w[j] = n /\ i \in 1..nodes
      <4>1. \A m, x \in 1..nodes : w[m] = x <=> p[x] = m
        BY <1>a DEF Known
      <4>2. n \in 1..nodes /\ j \in 1..nodes /\ p[n] = j
        BY <2>2, <3>1
      <4>3. w[j] = n
        BY <4>1, <4>2
      <4> QED
        BY <1>b, <3>1, <4>3
    <3>3. prev[n] = w[i]
      <4>1. \A k, m \in 1..nodes : m = k + 1 => prev[w[m]] = w[k]
        BY <1>a DEF Known
      <4> QED
        BY <3>1, <3>2, <4>1
    <3>4. w[i] \in 1..nodes /\ w[i] # Null /\ w[i] # Sentinel
      BY <3>2, <1>a DEF Known
    <3>5. p[w[i]] = i
      BY <3>2, <3>4, <1>a DEF Known
    <3>6. g[w[i]] = LeftOf(w, i) /\ g[n] = LeftOf(w, j)
      <4>1. \A m \in 1..nodes : m \in Nodes /\ m # Sentinel /\ m <= nodes
        BY <1>a DEF Known
      <4>2. \A m \in 1..nodes : g[m] = LeftOf(w, p[m])
        BY <4>1
      <4> HIDE DEF g
      <4> QED
        BY <2>2, <3>1, <3>4, <3>5, <4>2
    <3>7. LeftOf(w, i + 1) = <<w[i + 1]>> \o LeftOf(w, i)
      BY <1>b, <3>1, LeftOfStep
    <3> HIDE DEF g
    <3> QED
      BY <3>1, <3>2, <3>3, <3>4, <3>6, <3>7
  <2>3. CASE n \in 1..nodes /\ p[n] = 1
    <3>1. w[1] = n /\ prev[n] = Sentinel /\ Sentinel # Null
      BY <2>3, <1>a DEF Sentinel, Null, Known
    <3>2. g[n] = LeftOf(w, 1) /\ g[Sentinel] = <<Sentinel>>
      BY <2>3, <1>a DEF Known
    <3>3. LeftOf(w, 0 + 1) = <<w[0 + 1]>> \o LeftOf(w, 0) /\ 0 + 1 = 1
      <4>1. 0 \in 0..nodes - 1
        BY <1>b
      <4> QED
        BY <1>b, <4>1, LeftOfStep
    <3> HIDE DEF g
    <3> QED
      BY <1>1, <3>1, <3>2, <3>3
  <2>4. CASE n > nodes
    <3>1. prev[n] = Null /\ n # Sentinel /\ ~(n <= nodes)
      BY <2>4, <1>a DEF Nodes, Sentinel, Known
    <3> QED
      BY <3>1
  <2>5. n = Sentinel \/ n \in 1..nodes \/ n > nodes
    BY <1>a DEF Nodes, Sentinel, Known
  <2> QED
    BY <2>1, <2>2, <2>3, <2>4, <2>5
<1>3. Follows(g)
  <2> DEFINE Body(f) == [n \in Nodes |-> IF prev[n] = Null THEN <<n>> ELSE <<n>> \o f[prev[n]]]
  <2>1. \A n \in Nodes : g[n] = Body(g)[n]
    BY <1>2
  <2>2. DOMAIN g = Nodes /\ DOMAIN Body(g) = Nodes /\ g = [n \in Nodes |-> g[n]]
        /\ Body(g) = [n \in Nodes |-> Body(g)[n]]
    OBVIOUS
  <2> HIDE DEF g, Body
  <2>3. g = Body(g)
    BY <2>1, <2>2
  <2> QED
    BY <2>3 DEF Body
<1>4. Follows(Leftward)
  <2>1. \E f : Follows(f)
    BY <1>3
  <2>2. Leftward = CHOOSE f : Follows(f)
    BY DEF Leftward
  <2> QED
    BY <2>1, <2>2
<1> HIDE DEF g
<1>5. /\ \A n \in Nodes : prev[n] = Null => Leftward[n] = <<n>>
      /\ \A n, m \in Nodes : prev[n] = m => Leftward[n] = <<n>> \o Leftward[m]
  <2>1. ASSUME NEW n \in Nodes
        PROVE  Leftward[n] = IF prev[n] = Null THEN <<n>> ELSE <<n>> \o Leftward[prev[n]]
    BY <1>4
  <2>2. \A m \in Nodes : m # Null
    BY DEF Nodes, Null
  <2> QED
    BY <2>1, <2>2
<1> DEFINE I == {d \in Nat : d \in 1..nodes => Leftward[w[d]] = LeftOf(w, d)}
<1>6. 0 \in I
  OBVIOUS
<1>7. ASSUME NEW d \in I, d < nodes PROVE d + 1 \in I
  <2>0. d \in 0..nodes - 1
    BY <1>7, <1>a DEF Known
  <2>1. LeftOf(w, d + 1) = <<w[d + 1]>> \o LeftOf(w, d)
    BY <2>0, <1>b, LeftOfStep
  <2>2. w[d + 1] \in Nodes
    BY <2>0, <1>a DEF Known
  <2>3. CASE d = 0
    <3>1. prev[w[1]] = Sentinel /\ Sentinel \in Nodes /\ Leftward[Sentinel] = <<Sentinel>>
      <4>1. prev[w[1]] = Sentinel /\ prev[Sentinel] = Null
        BY <1>a DEF Known
      <4>2. Sentinel \in Nodes
        <5>1. MaxNodes \in Nat /\ Nodes = 0..MaxNodes /\ Sentinel = 0
          BY <1>a DEF Known
        <5> QED
          BY <5>1
      <4> QED
        BY <1>5, <4>1, <4>2
    <3>2. d + 1 = 1 /\ w[1] \in Nodes
      BY <2>2, <2>3
    <3>3. Leftward[w[1]] = <<w[1]>> \o <<Sentinel>>
      <4>1. Leftward[w[1]] = <<w[1]>> \o Leftward[Sentinel]
        BY <1>5, <3>1, <3>2
      <4> QED
        BY <3>1, <4>1
    <3> QED
      BY <1>1, <2>1, <2>3, <3>2, <3>3
  <2>4. CASE d # 0
    <3>1. d \in 1..nodes /\ prev[w[d + 1]] = w[d] /\ w[d] \in Nodes
      BY <2>0, <2>4, <1>a DEF Known
    <3>2. Leftward[w[d + 1]] = <<w[d + 1]>> \o Leftward[w[d]] /\ Leftward[w[d]] = LeftOf(w, d)
      BY <1>5, <1>7, <2>2, <3>1
    <3>3. Leftward[w[d + 1]] = LeftOf(w, d + 1)
      BY <2>1, <3>2
    <3> QED
      BY <3>3
  <2> QED
    BY <2>3, <2>4
<1>8. 0..nodes \subseteq I
  <2>1. nodes \in Nat /\ I \in SUBSET Nat
    BY <1>a DEF Known
  <2> HIDE DEF I
  <2> QED
    BY <1>6, <1>7, <2>1, UpTo
<1> QED
  BY <1>8, <1>a DEF Known

\* The places of the nodes of a stack.
At(p, s) == [i \in 1..Len(s) |-> p[s[i]]]

\* What the list shows: the tape of positions.
Reads(w, p) ==
    /\ Cells = [i \in 1..nodes |-> character[w[i]]]
    /\ Finger = p[actual]
    /\ UndoPlaces = At(p, UNDO)
    /\ RedoPlaces = At(p, REDO)

LEMMA Items == ASSUME NEW S, NEW s \in Seq(S) PROVE DOMAIN s = 1..Len(s) /\ \A i \in 1..Len(s) : s[i] \in S
OBVIOUS

LEMMA WalkReads == ASSUME StripInv, NEW w, NEW p, IsWalk(w, p) PROVE Reads(w, p)
<1>a. Known(w, p)
  BY WalkFacts
<1>1. Walk = w
  <2>1. Rightward[w[1]] = RightOf(w, 1, nodes)
    BY RightwardIs, <1>a DEF Known
  <2>2. Walk = RightOf(w, 1, nodes)
    BY <2>1 DEF Walk, IsWalk
  <2>3. RightOf(w, 1, nodes) = [k \in 1..nodes |-> w[k]]
    <3>1. nodes - 1 + 1 = nodes /\ \A k \in 1..nodes : 1 + k - 1 = k
      BY <1>a DEF Known
    <3> QED
      BY <3>1 DEF RightOf
  <2>4. w = [k \in 1..nodes |-> w[k]]
    BY DEF IsWalk
  <2> QED
    BY <2>2, <2>3, <2>4
<1>2. DOMAIN Walk = 1..nodes
  BY <1>1 DEF IsWalk
<1>3. ASSUME NEW n \in 1..nodes PROVE Place(n) = p[n]
  <2>1. p[n] \in DOMAIN Walk /\ Walk[p[n]] = n
    BY <1>1, <1>2 DEF IsWalk
  <2>2. \A i \in DOMAIN Walk : Walk[i] = n => i = p[n]
    BY <1>1, <1>2 DEF IsWalk
  <2> QED
    BY <2>1, <2>2 DEF Place
<1>4. Cells = [i \in 1..nodes |-> character[w[i]]]
  BY <1>1, <1>2 DEF Cells
<1>5. actual \in 1..nodes /\ UNDO \in Seq(1..nodes) /\ REDO \in Seq(1..nodes)
  BY DEF StripInv, StripTypeOK, TapeNode
<1>6. /\ DOMAIN UNDO = 1..Len(UNDO) /\ \A i \in 1..Len(UNDO) : UNDO[i] \in 1..nodes
      /\ DOMAIN REDO = 1..Len(REDO) /\ \A i \in 1..Len(REDO) : REDO[i] \in 1..nodes
  BY <1>5, Items
<1> QED
  BY <1>3, <1>4, <1>5, <1>6 DEF Reads, At, Finger, UndoPlaces, RedoPlaces, Places

\* The same of the state that a step leads to.
EveryWalkReads == \A w, p : IsWalk(w, p) => Reads(w, p)

LEMMA WalksRead == StripInv => EveryWalkReads
BY WalkReads DEF EveryWalkReads

LEMMA WalkReadsNext == ASSUME StripInv', NEW w, NEW p, IsWalk(w, p)' PROVE Reads(w, p)'
<1>1. (StripInv => EveryWalkReads)'
  BY WalksRead, PTL
<1> QED
  BY <1>1 DEF EveryWalkReads

\* A cell put at place at of a sequence of N.
Inserted(s, N, pos, c) ==
    [i \in 1..N + 1 |-> IF i < pos THEN s[i] ELSE IF i = pos THEN c ELSE s[i - 1]]

LEMMA InsertedIs ==
    ASSUME NEW S, NEW N \in Nat, NEW s \in [1..N -> S], NEW c \in S, NEW pos \in 1..N + 1
    PROVE  Promise!InsertAt(s, pos, c) = Inserted(s, N, pos, c)
<1> DEFINE a == SubSeq(s, 1, pos - 1)
           b == SubSeq(s, pos, Len(s))
           h == a \o <<c>> \o b
           g == Inserted(s, N, pos, c)
<1>1. s \in Seq(S) /\ Len(s) = N
  OBVIOUS
<1>2. /\ a \in Seq(S) /\ Len(a) = pos - 1 /\ \A i \in 1..pos - 1 : a[i] = s[i]
      /\ b \in Seq(S) /\ Len(b) = N + 1 - pos /\ \A i \in 1..N + 1 - pos : b[i] = s[pos + i - 1]
  BY <1>1
<1>3. <<c>> \in Seq(S) /\ Len(<<c>>) = 1 /\ <<c>>[1] = c
  OBVIOUS
<1> HIDE DEF a, b
<1> DEFINE ac == a \o <<c>>
<1>a. /\ ac \in Seq(S) /\ Len(ac) = pos
      /\ \A i \in 1..pos - 1 : ac[i] = s[i]
      /\ ac[pos] = c
  <2>1. ac \in Seq(S) /\ Len(ac) = pos
    BY <1>2, <1>3
  <2>2. \A i \in 1..pos - 1 : ac[i] = a[i]
    BY <1>2, <1>3
  <2>3. ac[pos] = <<c>>[1]
    BY <1>2, <1>3
  <2> HIDE DEF ac
  <2> QED
    BY <1>2, <1>3, <2>1, <2>2, <2>3
<1> HIDE DEF ac
<1>b. /\ ac \o b \in Seq(S) /\ Len(ac \o b) = N + 1
      /\ \A i \in 1..pos : (ac \o b)[i] = ac[i]
      /\ \A i \in pos + 1..N + 1 : (ac \o b)[i] = b[i - pos]
  BY <1>2, <1>a
<1>4. h = ac \o b
  BY DEF ac
<1>5. g \in Seq(S) /\ Len(g) = N + 1
  BY DEF Inserted
<1>6. ASSUME NEW i \in 1..N + 1 PROVE h[i] = g[i]
  <2> DEFINE t == ac \o b
  <2> HIDE DEF h, t
  <2>0. h = t
    BY <1>4 DEF t
  <2>1. CASE i < pos
    <3>1. i \in 1..pos /\ i \in 1..pos - 1
      BY <2>1
    <3>2. t[i] = s[i]
      BY <1>a, <1>b, <3>1 DEF t
    <3> QED
      BY <2>0, <2>1, <3>2 DEF Inserted
  <2>2. CASE i = pos
    <3>1. pos \in 1..pos
      OBVIOUS
    <3>2. t[pos] = c
      BY <1>a, <1>b, <3>1 DEF t
    <3> QED
      BY <2>0, <2>2, <3>2 DEF Inserted
  <2>3. CASE i > pos
    <3>1. i \in pos + 1..N + 1 /\ i - pos \in 1..N + 1 - pos /\ pos + (i - pos) - 1 = i - 1
      BY <2>3
    <3>2. t[i] = b[i - pos] /\ b[i - pos] = s[i - 1]
      BY <1>2, <1>b, <3>1 DEF t
    <3> QED
      BY <2>0, <2>3, <3>2 DEF Inserted
  <2> QED
    BY <2>1, <2>2, <2>3
<1>7. h = g
  <2>1. h \in Seq(S) /\ Len(h) = N + 1 /\ N + 1 \in Nat
    <3> HIDE DEF h
    <3> QED
      BY <1>b, <1>4
  <2> HIDE DEF h, g
  <2> QED
    BY <1>5, <1>6, <2>1, SeqEqual
<1> QED
  BY <1>7 DEF a, b, Promise!InsertAt

LEMMA AppendedIs ==
    ASSUME NEW S, NEW N \in Nat, NEW s \in [1..N -> S], NEW c \in S
    PROVE  Append(s, c) = Inserted(s, N, N + 1, c)
<1> DEFINE h == Append(s, c)
           g == Inserted(s, N, N + 1, c)
<1>1. s \in Seq(S) /\ Len(s) = N
  OBVIOUS
<1>2. h \in Seq(S) /\ Len(h) = N + 1 /\ \A i \in 1..N + 1 : h[i] = IF i <= N THEN s[i] ELSE c
  BY <1>1
<1>3. g \in Seq(S) /\ Len(g) = N + 1 /\ \A i \in 1..N + 1 : g[i] = IF i <= N THEN s[i] ELSE c
  BY DEF Inserted
<1> HIDE DEF h, g
<1>4. h = g
  BY <1>2, <1>3
<1> QED
  BY <1>4 DEF h, g

\* A list that keeps its pointers keeps its walk.
LEMMA SameWalk ==
    ASSUME NEW w, NEW p, IsWalk(w, p), UNCHANGED <<nodes, next, prev, last>>
    PROVE  IsWalk(w, p)'
BY DEF IsWalk

\* A node put to the right of left comes next to it on the walk.
Longer(w, p, v, q, pos, c) ==
    /\ IsWalk(v, q)'
    /\ \A n \in 1..nodes : q[n] = p[n] + (IF p[n] >= pos THEN 1 ELSE 0)
    /\ q[newNode] = pos
    /\ [i \in 1..nodes' |-> character'[v[i]]]
         = Inserted([i \in 1..nodes |-> character[w[i]]], nodes, pos, c)

Lengthens(w, p, left, c) == \E v, q : Longer(w, p, v, q, p[left] + 1, c)

LEMMA LongerWalk ==
    ASSUME StripInv, StripInv', NEW w, NEW p, IsWalk(w, p), NEW c, NEW left \in 1..nodes,
           Linked(c, left, next[left]), last' = IF left = last THEN newNode ELSE last
    PROVE  Lengthens(w, p, left, c)
<1> DEFINE pos == p[left] + 1
           N == nodes
           v == [i \in 1..N + 1 |-> IF i < pos THEN w[i] ELSE IF i = pos THEN N + 1 ELSE w[i - 1]]
           q == [n \in 1..N + 1 |-> IF n = N + 1 THEN pos ELSE IF p[n] < pos THEN p[n] ELSE p[n] + 1]
<1>1. /\ N \in 1..MaxNodes /\ N < MaxNodes /\ MaxNodes \in Nat
      /\ next \in [Nodes -> Nodes \cup {Null}] /\ character \in [Nodes -> Arguments \cup {"#", "empty"}]
      /\ last \in 1..N /\ next[last] = Null /\ left \in 1..N
  BY MaxNodesAssumption DEF StripInv, StripTypeOK, WellLinked, Linked, Room, TapeNode
<1>2. /\ nodes' = N + 1 /\ newNode = N + 1
      /\ next' = [next EXCEPT ![left] = N + 1, ![N + 1] = next[left]]
      /\ prev' = [n \in Nodes |-> IF n = N + 1 THEN left
                                 ELSE IF n = next[left] THEN N + 1 ELSE prev[n]]
      /\ character' = [character EXCEPT ![N + 1] = c]
      /\ last' = IF left = last THEN N + 1 ELSE last
  BY DEF Linked, newNode
<1>3. /\ \A i \in 1..N : w[i] \in Nat /\ 1 <= w[i] /\ w[i] <= N
      /\ \A n \in 1..N : p[n] \in Nat /\ 1 <= p[n] /\ p[n] <= N
      /\ \A i, n \in 1..N : w[i] = n <=> p[n] = i
      /\ next[0] = w[1] /\ prev[w[1]] = 0
      /\ \A i, j \in 1..N : j = i + 1 => next[w[i]] = w[j] /\ prev[w[j]] = w[i]
      /\ w[N] = last
      /\ \A n \in Nodes : n > N => next[n] = Null /\ prev[n] = Null
  BY DEF IsWalk, Sentinel
<1>4. pos \in 2..N + 1 /\ w[pos - 1] = left
  BY <1>1, <1>3
<1>5. /\ 0..MaxNodes = Nodes /\ Null = -1
      /\ \A n \in 0..N + 1 : n \in Nodes
  BY <1>1 DEF Nodes, Null
<1> HIDE DEF pos, N
<1>6. /\ \A i \in 1..N + 1 : v[i] \in Nat /\ 1 <= v[i] /\ v[i] <= N + 1
      /\ \A n \in 1..N + 1 : q[n] \in Nat /\ 1 <= q[n] /\ q[n] <= N + 1
  <2>1. ASSUME NEW i \in 1..N + 1 PROVE v[i] \in Nat /\ 1 <= v[i] /\ v[i] <= N + 1
    BY <1>1, <1>3, <1>4
  <2>2. ASSUME NEW n \in 1..N + 1 PROVE q[n] \in Nat /\ 1 <= q[n] /\ q[n] <= N + 1
    BY <1>1, <1>3, <1>4
  <2> QED
    BY <2>1, <2>2
<1>7. ASSUME NEW i \in 1..N + 1, NEW n \in 1..N + 1 PROVE v[i] = n <=> q[n] = i
  <2>1. CASE n = N + 1
    <3>1. q[n] = pos
      BY <1>1, <2>1
    <3>2. i < pos => v[i] = w[i] /\ i \in 1..N
      BY <1>1, <1>4
    <3>3. i > pos => v[i] = w[i - 1] /\ i - 1 \in 1..N
      BY <1>1, <1>4
    <3>4. i # pos => v[i] # n
      BY <1>1, <1>3, <1>4, <2>1, <3>2, <3>3
    <3> QED
      BY <1>1, <1>4, <2>1, <3>1, <3>4
  <2>2. CASE n # N + 1 /\ i < pos
    <3>1. v[i] = w[i] /\ i \in 1..N /\ n \in 1..N
      BY <1>1, <1>4, <2>2
    <3>2. q[n] = IF p[n] < pos THEN p[n] ELSE p[n] + 1
      BY <2>2
    <3> HIDE DEF v, q
    <3>3. v[i] = n <=> p[n] = i
      BY <1>3, <3>1
    <3>4. p[n] \in Nat
      BY <1>3, <3>1
    <3> QED
      BY <1>1, <1>4, <2>2, <3>2, <3>3, <3>4
  <2>3. CASE n # N + 1 /\ i = pos
    <3>1. v[i] = N + 1 /\ n \in 1..N
      BY <1>1, <2>3
    <3>2. q[n] = (IF p[n] < pos THEN p[n] ELSE p[n] + 1) /\ p[n] \in Nat
      BY <1>3, <2>3, <3>1
    <3> HIDE DEF v, q
    <3> QED
      BY <1>1, <1>4, <2>3, <3>1, <3>2
  <2>4. CASE n # N + 1 /\ i > pos
    <3>1. PICK k \in 1..N : k = i - 1 /\ v[i] = w[k]
      <4>1. i - 1 \in 1..N /\ v[i] = w[i - 1]
        BY <1>1, <1>4, <2>4
      <4> QED
        BY <4>1
    <3>2. q[n] = (IF p[n] < pos THEN p[n] ELSE p[n] + 1) /\ n \in 1..N
      BY <1>1, <2>4
    <3> HIDE DEF v, q
    <3>3. (v[i] = n <=> p[n] = k) /\ p[n] \in Nat
      BY <1>3, <3>1, <3>2
    <3> QED
      BY <1>1, <1>4, <2>4, <3>1, <3>2, <3>3
  <2> QED
    BY <1>1, <1>4, <2>1, <2>2, <2>3, <2>4
<1>8. v = [i \in 1..N + 1 |-> v[i]]
  OBVIOUS
<1>9. next[left] = IF pos <= N THEN w[pos] ELSE Null
  <2>1. CASE pos <= N
    BY <1>1, <1>3, <1>4, <2>1
  <2>2. CASE pos = N + 1
    BY <1>1, <1>3, <1>4, <2>2
  <2> QED
    BY <1>1, <1>4, <2>1, <2>2
<1>10. next'[0] = v[1] /\ prev'[v[1]] = 0
  <2>1. v[1] = w[1] /\ w[1] \in 1..N
    BY <1>1, <1>3, <1>4
  <2>2. next'[0] = next[0]
    BY <1>1, <1>2, <1>5
  <2>3. w[1] # next[left]
    <3>1. CASE pos <= N
      <4>1. w[pos] # w[1]
        BY <1>1, <1>3, <1>4, <3>1
      <4> QED
        BY <1>9, <3>1, <4>1
    <3>2. CASE ~(pos <= N)
      BY <1>5, <1>9, <2>1, <3>2
    <3> QED
      BY <3>1, <3>2
  <2>4. prev'[w[1]] = prev[w[1]]
    BY <1>1, <1>2, <1>5, <2>1, <2>3
  <2> QED
    BY <1>3, <2>1, <2>2, <2>4
<1>b. /\ next'[left] = N + 1 /\ prev'[N + 1] = left /\ next'[N + 1] = next[left]
      /\ \A n \in 1..N : n # left => next'[n] = next[n]
      /\ \A n \in 1..N : n # next[left] => prev'[n] = prev[n]
      /\ \A n \in 1..N : n = next[left] => prev'[n] = N + 1
  <2>1. N + 1 \in Nodes /\ left \in Nodes /\ left # N + 1 /\ \A n \in 1..N : n \in Nodes /\ n # N + 1
    BY <1>1, <1>5
  <2> QED
    BY <1>1, <1>2, <2>1
<1>11. ASSUME NEW i \in 1..N PROVE next'[v[i]] = v[i + 1] /\ prev'[v[i + 1]] = v[i]
  <2>1. CASE i + 1 < pos
    <3>1. v[i] = w[i] /\ v[i + 1] = w[i + 1] /\ i \in 1..N - 1 /\ w[i] \in 1..N /\ w[i + 1] \in 1..N
      BY <1>1, <1>3, <1>4, <2>1
    <3>2. w[i] # left
      BY <1>1, <1>3, <1>4, <2>1
    <3>3. w[i + 1] # next[left]
      <4>1. CASE pos <= N
        <5>1. w[pos] # w[i + 1]
          BY <1>1, <1>3, <1>4, <2>1, <4>1
        <5> QED
          BY <1>9, <4>1, <5>1
      <4>2. CASE ~(pos <= N)
        BY <1>5, <1>9, <3>1, <4>2
      <4> QED
        BY <4>1, <4>2
    <3> HIDE DEF v
    <3>4. next[w[i]] = w[i + 1] /\ prev[w[i + 1]] = w[i]
      BY <1>1, <1>3, <3>1
    <3> QED
      BY <1>b, <3>1, <3>2, <3>3, <3>4
  <2>2. CASE i + 1 = pos
    <3>1. v[i] = left /\ v[i + 1] = N + 1
      BY <1>1, <1>3, <1>4, <2>2
    <3> HIDE DEF v
    <3> QED
      BY <1>b, <3>1
  <2>3. CASE i = pos
    <3>1. v[i] = N + 1 /\ v[i + 1] = w[i] /\ w[i] = next[left] /\ w[i] \in 1..N
      BY <1>1, <1>3, <1>4, <1>9, <2>3
    <3> HIDE DEF v
    <3> QED
      BY <1>b, <3>1
  <2>4. CASE i > pos
    <3>1. PICK k \in 1..N - 1 : k = i - 1 /\ k + 1 = i
      BY <1>1, <1>4, <2>4
    <3>2. v[i] = w[k] /\ v[i + 1] = w[k + 1] /\ w[k] \in 1..N /\ w[k + 1] \in 1..N
      BY <1>1, <1>3, <1>4, <2>4, <3>1
    <3>3. w[k] # left /\ pos <= N
      BY <1>1, <1>3, <1>4, <2>4, <3>1
    <3>4. w[k + 1] # w[pos]
      BY <1>1, <1>3, <1>4, <2>4, <3>1
    <3>5. w[k + 1] # next[left]
      BY <1>9, <3>3, <3>4
    <3> HIDE DEF v
    <3>6. next[w[k]] = w[k + 1] /\ prev[w[k + 1]] = w[k]
      BY <1>1, <1>3, <3>1, <3>2
    <3> QED
      BY <1>b, <3>2, <3>3, <3>5, <3>6
  <2> QED
    BY <1>1, <1>4, <2>1, <2>2, <2>3, <2>4
<1>12. v[N + 1] = last'
  <2>1. CASE pos = N + 1
    <3>1. left = last
      BY <1>3, <1>4, <2>1, <1>1
    <3>2. v[N + 1] = N + 1
      BY <1>1, <2>1
    <3> HIDE DEF v
    <3> QED
      BY <1>2, <3>1, <3>2
  <2>2. CASE pos # N + 1
    <3>1. v[N + 1] = w[N]
      BY <1>1, <1>4, <2>2
    <3>2. left # last
      <4>1. N \in 1..N /\ pos - 1 \in 1..N /\ pos - 1 # N /\ w[N] = last /\ last \in 1..N
        BY <1>1, <1>3, <1>4, <2>2
      <4> QED
        BY <1>3, <1>4, <4>1
    <3> HIDE DEF v
    <3> QED
      BY <1>2, <1>3, <3>1, <3>2
  <2> QED
    BY <2>1, <2>2
<1>13. ASSUME NEW n \in Nodes, n > N + 1 PROVE next'[n] = Null /\ prev'[n] = Null
  <2>0. n \in Nat /\ N \in Nat /\ n > N /\ n # N + 1 /\ n # left /\ n # Null
    BY <1>1, <1>5, <1>13
  <2>1. n > N /\ n # N + 1 /\ n # left /\ n # next[left]
    <3>1. CASE pos <= N
      <4>1. next[left] = w[pos] /\ pos \in 1..N
        BY <1>1, <1>4, <1>9, <3>1
      <4>2. w[pos] \in Nat /\ w[pos] <= N
        BY <1>3, <4>1
      <4> QED
        BY <2>0, <4>1, <4>2
    <3>2. CASE ~(pos <= N)
      BY <1>9, <2>0, <3>2
    <3> QED
      BY <3>1, <3>2
  <2>2. next[n] = Null /\ prev[n] = Null
    BY <1>3, <2>1
  <2>3. next'[n] = next[n] /\ prev'[n] = prev[n]
    BY <1>1, <1>2, <2>1
  <2> QED
    BY <2>2, <2>3
<1>c. PICK V, Q : V = v /\ Q = q
  OBVIOUS
<1>14. IsWalk(V, Q)'
  <2> HIDE DEF v, q
  <2>0. \A i, j \in 1..N + 1 : j = i + 1 => next'[v[i]] = v[j] /\ prev'[v[j]] = v[i]
    <3>1. \A i, j \in 1..N + 1 : j = i + 1 => i \in 1..N
      BY <1>1
    <3> QED
      BY <1>11, <3>1
  <2>1. nodes' = N + 1
    BY <1>1, <1>2
  <2>2. /\ V = [i \in 1..N + 1 |-> V[i]]
        /\ \A i \in 1..N + 1 : V[i] \in Nat /\ 1 <= V[i] /\ V[i] <= N + 1
        /\ \A n \in 1..N + 1 : Q[n] \in Nat /\ 1 <= Q[n] /\ Q[n] <= N + 1
        /\ \A i, n \in 1..N + 1 : V[i] = n <=> Q[n] = i
    BY <1>c, <1>6, <1>7, <1>8
  <2>3. /\ next'[Sentinel] = V[1] /\ prev'[V[1]] = Sentinel
        /\ \A i, j \in 1..N + 1 : j = i + 1 => next'[V[i]] = V[j] /\ prev'[V[j]] = V[i]
        /\ V[N + 1] = last'
    BY <1>c, <1>10, <1>12, <2>0 DEF Sentinel
  <2> HIDE DEF IsWalk
  <2>4. \A n \in Nodes : n > N + 1 => next'[n] = Null /\ prev'[n] = Null
    BY <1>13
  <2> QED
    BY <2>1, <2>2, <2>3, <2>4 DEF IsWalk
<1>15. \A n \in 1..N : q[n] = p[n] + (IF p[n] >= pos THEN 1 ELSE 0)
  BY <1>1, <1>3, <1>4
<1>16. q[N + 1] = pos
  BY <1>1
<1>17. [i \in 1..nodes' |-> character'[v[i]]]
          = Inserted([i \in 1..N |-> character[w[i]]], N, pos, c)
  <2> DEFINE cells == [i \in 1..N |-> character[w[i]]]
  <2>1. ASSUME NEW i \in 1..N + 1
        PROVE  character'[v[i]] = IF i < pos THEN cells[i] ELSE IF i = pos THEN c ELSE cells[i - 1]
    <3>1. CASE i < pos
      <4>1. v[i] = w[i] /\ w[i] \in 1..N /\ cells[i] = character[w[i]]
        BY <1>1, <1>3, <1>4, <3>1
      <4> QED
        BY <1>1, <1>2, <3>1, <4>1
    <3>2. CASE i = pos
      <4>1. v[i] = N + 1 /\ N + 1 \in Nodes
        BY <1>1, <1>5, <3>2
      <4> QED
        BY <1>1, <1>2, <1>4, <3>2, <4>1
    <3>3. CASE i > pos
      <4>1. v[i] = w[i - 1] /\ w[i - 1] \in 1..N /\ cells[i - 1] = character[w[i - 1]]
        BY <1>1, <1>3, <1>4, <3>3
      <4> QED
        BY <1>1, <1>2, <1>4, <3>3, <4>1
    <3> QED
      BY <1>1, <1>4, <3>1, <3>2, <3>3
  <2> HIDE DEF v, cells
  <2>2. [i \in 1..N + 1 |-> character'[v[i]]] = Inserted(cells, N, pos, c)
    BY <2>1 DEF Inserted
  <2> QED
    BY <1>2, <2>2 DEF cells
<1> HIDE DEF v, q
<1>18. Longer(w, p, V, Q, p[left] + 1, c)
  BY <1>c, <1>2, <1>14, <1>15, <1>16, <1>17 DEF pos, N, Longer
<1> QED
  BY <1>18 DEF Lengthens

-----------------------------------------------------------------------------
(* The commands *)

LEMMA AtPush ==
    ASSUME NEW N \in Nat, NEW p, \A n \in 1..N : p[n] \in Nat,
           NEW s \in Seq(1..N), NEW n \in 1..N
    PROVE  At(p, <<n>> \o s) = <<p[n]>> \o At(p, s)
<1> DEFINE t == <<n>> \o s
           h == <<p[n]>> \o At(p, s)
           g == At(p, t)
<1>1. t \in Seq(1..N) /\ Len(t) = Len(s) + 1 /\ Len(s) \in Nat /\ t[1] = n
      /\ \A i \in 1..Len(s) : t[i + 1] = s[i] /\ s[i] \in 1..N
  OBVIOUS
<1>2. At(p, s) \in Seq(Nat) /\ Len(At(p, s)) = Len(s) /\ \A i \in 1..Len(s) : At(p, s)[i] = p[s[i]]
  BY <1>1 DEF At
<1>3. <<p[n]>> \in Seq(Nat) /\ Len(<<p[n]>>) = 1
  OBVIOUS
<1> HIDE DEF t
<1>4. h \in Seq(Nat) /\ Len(h) = Len(s) + 1 /\ h[1] = p[n] /\ \A i \in 1..Len(s) : h[i + 1] = p[s[i]]
  BY <1>1, <1>2, <1>3
<1>5. g \in Seq(Nat) /\ Len(g) = Len(s) + 1 /\ \A i \in 1..Len(s) + 1 : g[i] = p[t[i]]
  BY <1>1 DEF At
<1>6. ASSUME NEW i \in 1..Len(s) + 1 PROVE h[i] = g[i]
  <2>1. CASE i = 1
    BY <1>1, <1>4, <1>5, <2>1
  <2>2. CASE i # 1
    <3>1. PICK k \in 1..Len(s) : i = k + 1
      <4>1. i - 1 \in 1..Len(s) /\ i = (i - 1) + 1
        BY <1>1, <2>2
      <4> QED
        BY <4>1
    <3> HIDE DEF h, g
    <3>2. k + 1 \in 1..Len(s) + 1 /\ g[k + 1] = p[t[k + 1]]
      BY <1>1, <1>5, <3>1
    <3> QED
      BY <1>1, <1>4, <3>1, <3>2
  <2> QED
    BY <2>1, <2>2
<1>7. h = g
  <2> HIDE DEF h, g
  <2> QED
    BY <1>1, <1>4, <1>5, <1>6
<1> QED
  BY <1>7 DEF t

LEMMA AtPop ==
    ASSUME NEW N \in Nat, NEW p, \A n \in 1..N : p[n] \in Nat, NEW s \in Seq(1..N), s # <<>>
    PROVE  At(p, s) # <<>> /\ Head(At(p, s)) = p[Head(s)] /\ Tail(At(p, s)) = At(p, Tail(s))
<1> DEFINE a == At(p, s)
           h == Tail(a)
           g == At(p, Tail(s))
<1>1. Len(s) \in Nat \ {0} /\ Tail(s) \in Seq(1..N) /\ Len(Tail(s)) = Len(s) - 1
      /\ \A i \in 1..Len(s) - 1 : Tail(s)[i] = s[i + 1]
  OBVIOUS
<1>2. a \in Seq(Nat) /\ Len(a) = Len(s) /\ \A i \in 1..Len(s) : a[i] = p[s[i]]
  BY <1>1 DEF At
<1>3. a # <<>> /\ Head(a) = p[Head(s)]
  <2> HIDE DEF a
  <2> QED
    BY <1>1, <1>2
<1>4. h \in Seq(Nat) /\ Len(h) = Len(s) - 1 /\ \A i \in 1..Len(s) - 1 : h[i] = p[s[i + 1]]
  <2> HIDE DEF a
  <2> QED
    BY <1>1, <1>2, <1>3
<1>5. g \in Seq(Nat) /\ Len(g) = Len(s) - 1 /\ \A i \in 1..Len(s) - 1 : g[i] = p[s[i + 1]]
  BY <1>1 DEF At
<1>6. h = g
  <2> HIDE DEF h, g
  <2>1. \A i \in 1..Len(h) : h[i] = g[i]
    BY <1>4, <1>5
  <2> QED
    BY <1>4, <1>5, <2>1, SeqEqual
<1> QED
  BY <1>3, <1>6

\* Positions after a cell is put at at.
Shifted(s, pos) == [i \in DOMAIN s |-> s[i] + (IF s[i] >= pos THEN 1 ELSE 0)]

\* The tape of positions, as a tape.
Shown(w, p) ==
    /\ Cells \in [1..nodes -> Arguments \cup {"#", "empty"}] /\ Len(Cells) = nodes
    /\ nodes \in Nat \ {0} 
    /\ \A i \in 1..nodes : w[i] \in Nat /\ 1 <= w[i] /\ w[i] <= nodes
    /\ \A n \in 1..nodes : p[n] \in Nat /\ 1 <= p[n] /\ p[n] <= nodes
    /\ \A i \in 1..nodes : Cells[i] = character[w[i]]
    /\ actual \in 1..nodes /\ Finger = p[actual] /\ Finger \in 1..nodes /\ w[Finger] = actual
    /\ UndoPlaces = At(p, UNDO) /\ RedoPlaces = At(p, REDO)
    /\ UNDO \in Seq(1..nodes) /\ REDO \in Seq(1..nodes)

LEMMA TapeFacts == ASSUME StripInv, NEW w, NEW p, IsWalk(w, p) PROVE Shown(w, p)
<1>a. Known(w, p)
  BY WalkFacts
<1>1. Reads(w, p)
  BY WalkReads
<1>2. nodes \in 1..MaxNodes /\ \A n \in 1..nodes : n \in Nodes
  BY <1>a DEF Known
<1>3. character \in [Nodes -> Arguments \cup {"#", "empty"}] /\ actual \in 1..nodes
      /\ UNDO \in Seq(1..nodes) /\ REDO \in Seq(1..nodes)
  BY DEF StripInv, StripTypeOK, TapeNode
<1>4. Cells = [i \in 1..nodes |-> character[w[i]]]
  BY <1>1 DEF Reads
<1>5. \A i \in 1..nodes : character[w[i]] \in Arguments \cup {"#", "empty"}
  BY <1>2, <1>3 DEF IsWalk
<1>6. Cells \in [1..nodes -> Arguments \cup {"#", "empty"}]
  BY <1>4, <1>5
<1>7. nodes \in Nat \ {0}
  BY <1>2, MaxNodesAssumption
<1>8. Len(Cells) = nodes
  BY <1>6, <1>7
<1> QED
  BY <1>1, <1>3, <1>4, <1>6, <1>7, <1>8 DEF Reads, IsWalk, Shown

\* What is next to the finger, and what the stacks become when it is pushed.
AtFinger(w, p) ==
    /\ nodes \in Nat \ {0} /\ actual \in 1..nodes /\ Finger \in 1..nodes
    /\ w[Finger] = actual /\ p[actual] = Finger
    /\ \A n \in 1..nodes : p[n] \in Nat /\ p[n] <= nodes
    /\ \A i \in 1..nodes : /\ w[i] \in 1..nodes /\ w[i] # Sentinel /\ p[w[i]] = i
                         /\ character[w[i]] = Cells[i]
    /\ Finger = 1 => prev[actual] = Sentinel
    /\ \A i \in 1..nodes : i + 1 = Finger => prev[actual] = w[i] /\ next[w[i]] = actual
    /\ \A i \in 1..nodes : i = Finger + 1 => next[actual] = w[i]
    /\ Finger = nodes <=> actual = last
    /\ UNDO \in Seq(1..nodes) /\ REDO \in Seq(1..nodes)
    /\ UndoPlaces = At(p, UNDO) /\ RedoPlaces = At(p, REDO)
    /\ At(p, <<actual>> \o UNDO) = <<Finger>> \o UndoPlaces
    /\ At(p, <<actual>> \o REDO) = <<Finger>> \o RedoPlaces

LEMMA FingerFacts == ASSUME StripInv, NEW w, NEW p, IsWalk(w, p) PROVE AtFinger(w, p)
<1>a. Known(w, p)
  BY WalkFacts
<1>b. Shown(w, p)
  BY TapeFacts
<1>1. /\ nodes \in Nat \ {0} /\ actual \in 1..nodes /\ Finger \in 1..nodes
      /\ w[Finger] = actual /\ p[actual] = Finger
      /\ \A n \in 1..nodes : p[n] \in Nat /\ p[n] <= nodes
      /\ UNDO \in Seq(1..nodes) /\ REDO \in Seq(1..nodes)
      /\ UndoPlaces = At(p, UNDO) /\ RedoPlaces = At(p, REDO)
  BY <1>b DEF Shown
<1>2. ASSUME NEW i \in 1..nodes
      PROVE  w[i] \in 1..nodes /\ w[i] # Sentinel /\ p[w[i]] = i /\ character[w[i]] = Cells[i]
  <2>1. w[i] \in 1..nodes
    BY <1>a DEF Known
  <2>2. w[i] # Sentinel /\ p[w[i]] = i
    BY <2>1, <1>a DEF Known
  <2> QED
    BY <2>1, <2>2, <1>b DEF Shown
<1>3. Finger = 1 => prev[actual] = Sentinel
  BY <1>1, <1>a DEF Known
<1>c. \A i, j \in 1..nodes : j = i + 1 => next[w[i]] = w[j] /\ prev[w[j]] = w[i]
  BY <1>a DEF Known
<1>4. ASSUME NEW i \in 1..nodes, i + 1 = Finger PROVE prev[actual] = w[i] /\ next[w[i]] = actual
  BY <1>1, <1>4, <1>c
<1>5. ASSUME NEW i \in 1..nodes, i = Finger + 1 PROVE next[actual] = w[i]
  BY <1>1, <1>5, <1>c
<1>6. Finger = nodes <=> actual = last
  <2>1. p[last] = nodes /\ w[nodes] = last
    BY <1>1, <1>a DEF Known
  <2> QED
    BY <1>1, <2>1
<1>7. \A n \in 1..nodes : p[n] \in Nat
  BY <1>1
<1>8. At(p, <<actual>> \o UNDO) = <<p[actual]>> \o At(p, UNDO)
  BY <1>1, <1>7, AtPush
<1>9. At(p, <<actual>> \o REDO) = <<p[actual]>> \o At(p, REDO)
  BY <1>1, <1>7, AtPush
<1> QED
  BY <1>1, <1>2, <1>3, <1>4, <1>5, <1>6, <1>8, <1>9 DEF AtFinger

\* A step that leaves the pointers of the list leaves the walk.
LEMMA StillWalk ==
    ASSUME StripInv, StripInv', NEW w, NEW p, IsWalk(w, p), UNCHANGED <<nodes, next, prev, last>>
    PROVE  /\ IsWalk(w, p)'
           /\ Cells' = [i \in 1..nodes |-> character'[w[i]]]
           /\ character' = character => Cells' = Cells
           /\ actual' \in 1..nodes /\ Finger' = p[actual']
           /\ UndoPlaces' = At(p, UNDO') /\ RedoPlaces' = At(p, REDO')
           /\ UNDO' = UNDO => UndoPlaces' = UndoPlaces
           /\ REDO' = REDO => RedoPlaces' = RedoPlaces
<1>1. IsWalk(w, p)'
  BY SameWalk
<1>2. Reads(w, p)' /\ Reads(w, p)
  BY <1>1, WalkReadsNext, WalkReads
<1>3. actual' \in 1..nodes
  BY DEF StripInv, StripTypeOK, TapeNode
<1> QED
  BY <1>1, <1>2, <1>3 DEF Reads

\* A step that puts a node on the list puts a cell on the tape.
LEMMA LongerTape ==
    ASSUME StripInv, StripInv', NEW w, NEW p, IsWalk(w, p), NEW c \in Arguments \cup {"#"},
           NEW left \in 1..nodes, Linked(c, left, next[left]), actual' = newNode,
           last' = IF left = last THEN newNode ELSE last
    PROVE  \E v, q :
             /\ IsWalk(v, q)'
             /\ Cells' = Inserted(Cells, nodes, p[left] + 1, c)
             /\ Finger' = p[left] + 1
             /\ UndoPlaces' = At(q, UNDO') /\ RedoPlaces' = At(q, REDO')
             /\ \A n \in 1..nodes + 1 : q[n] \in Nat
             /\ \A n \in 1..nodes : q[n] = p[n] + (IF p[n] >= p[left] + 1 THEN 1 ELSE 0)
<1>0. PICK v, q : Longer(w, p, v, q, p[left] + 1, c)
  BY LongerWalk DEF Lengthens
<1>1. /\ IsWalk(v, q)'
      /\ \A n \in 1..nodes : q[n] = p[n] + (IF p[n] >= p[left] + 1 THEN 1 ELSE 0)
      /\ q[newNode] = p[left] + 1
      /\ [i \in 1..nodes' |-> character'[v[i]]]
           = Inserted([i \in 1..nodes |-> character[w[i]]], nodes, p[left] + 1, c)
  BY <1>0 DEF Longer
<1>2. Reads(v, q)' /\ Reads(w, p)
  BY <1>1, WalkReadsNext, WalkReads
<1>3. nodes' = nodes + 1
  BY DEF Linked, newNode
<1>4. \A n \in 1..nodes + 1 : q[n] \in Nat
  BY <1>1, <1>3 DEF IsWalk
<1>5. Cells' = Inserted(Cells, nodes, p[left] + 1, c)
  BY <1>1, <1>2 DEF Reads
<1> QED
  BY <1>1, <1>2, <1>4, <1>5 DEF Reads

\* Remembered places shift with the cells to the right of the new one.
LEMMA PlacesShift ==
    ASSUME NEW N \in Nat, NEW p, NEW q, NEW pos \in 1..N + 1, NEW s \in Seq(1..N),
           \A n \in 1..N : p[n] \in Nat /\ p[n] <= N,
           \A n \in 1..N : q[n] = p[n] + (IF p[n] >= pos THEN 1 ELSE 0)
    PROVE  /\ At(q, s) = Shifted(At(p, s), pos)
           /\ pos = N + 1 => At(q, s) = At(p, s)
<1>1. Len(s) \in Nat /\ \A i \in 1..Len(s) : s[i] \in 1..N
  OBVIOUS
<1>2. DOMAIN At(p, s) = 1..Len(s) /\ \A i \in 1..Len(s) : At(p, s)[i] = p[s[i]]
  BY DEF At
<1>3. \A i \in 1..Len(s) : q[s[i]] = p[s[i]] + (IF p[s[i]] >= pos THEN 1 ELSE 0)
  BY <1>1
<1>4. At(q, s) = Shifted(At(p, s), pos)
  BY <1>2, <1>3 DEF At, Shifted
<1>5. pos = N + 1 => \A i \in 1..Len(s) : q[s[i]] = p[s[i]]
  BY <1>1, <1>3
<1>6. pos = N + 1 => At(q, s) = At(p, s)
  BY <1>5 DEF At
<1> QED
  BY <1>4, <1>6

\* A list that stands for a tape.
Walks == \E w, p : IsWalk(w, p)

\* With memory, a command does not fail half-way.
Made == MallocFails = FALSE

LEMMA MoveLeftIsLeft ==
    ASSUME Made, StripInv, StripInv', NEW w, NEW p, IsWalk(w, p), ExecuteMoveLeft
    PROVE  Walks' /\ Promise!Left
<1>a. Known(w, p)
  BY WalkFacts
<1>b. Shown(w, p)
  BY TapeFacts
<1>1. /\ moveLeft
      /\ UNDO' = IF <<actual>> \o UNDO # <<>> /\ Head(<<actual>> \o UNDO) = actual'
                 THEN Tail(<<actual>> \o UNDO) ELSE <<actual>> \o UNDO
      /\ printed' = Nothing /\ REDO' = REDO
  BY DEF ExecuteMoveLeft, Malloc, Made, push
<1>2. UNCHANGED <<nodes, next, prev, last, character>>
  BY <1>1 DEF moveLeft
<1>3. /\ actual' = IF prev[actual] = Sentinel THEN actual ELSE prev[actual]
  BY <1>1 DEF moveLeft
<1>4. UNDO \in Seq(1..nodes) /\ actual \in 1..nodes /\ actual' \in 1..nodes
  BY <1>2, <1>b, StillWalk DEF Shown
<1>5. <<actual>> \o UNDO # <<>> /\ Head(<<actual>> \o UNDO) = actual /\ Tail(<<actual>> \o UNDO) = UNDO
  BY <1>4
<1>6. UNDO' = IF actual = actual' THEN UNDO ELSE <<actual>> \o UNDO
  BY <1>1, <1>5
<1>7. IsWalk(w, p)' /\ Cells' = Cells /\ RedoPlaces' = RedoPlaces /\ Finger' = p[actual']
      /\ UndoPlaces' = At(p, UNDO')
  BY <1>1, <1>2, StillWalk
<1>8. CASE Finger = 1
  <2>1. prev[actual] = Sentinel
    BY <1>8, <1>b, <1>a DEF Shown, Known
  <2>2. actual' = actual /\ UNDO' = UNDO
    BY <1>3, <1>6, <2>1
  <2>3. Finger' = Finger /\ UndoPlaces' = UndoPlaces
    BY <1>7, <2>2, <1>b DEF Shown
  <2> QED
    BY <1>1, <1>7, <1>8, <2>3 DEF Walks, Promise!Left, Nothing, Promise!Nothing
<1>9. CASE Finger # 1
  <2>1. PICK i \in 1..nodes - 1 : i = Finger - 1 /\ i + 1 = Finger
    <3>1. Finger - 1 \in 1..nodes - 1 /\ (Finger - 1) + 1 = Finger
      BY <1>9, <1>b DEF Shown
    <3> QED
      BY <3>1
  <2>2. /\ prev[actual] = w[i] /\ w[i] \in 1..nodes /\ p[w[i]] = i /\ w[i] # Sentinel
        /\ p[actual] = Finger
    <3>1. i \in 1..nodes
      BY <2>1, <1>b DEF Shown
    <3> QED
      BY <2>1, <3>1, FingerFacts DEF AtFinger
  <2>3. actual' = w[i] /\ actual # w[i]
    BY <1>3, <2>1, <2>2
  <2>4. UNDO' = <<actual>> \o UNDO
    BY <1>6, <2>3
  <2>5. Finger' = Finger - 1
    BY <1>7, <2>1, <2>2, <2>3
  <2>6. UndoPlaces' = <<Finger>> \o UndoPlaces
    BY <1>7, <2>4, FingerFacts DEF AtFinger
  <2> QED
    BY <1>1, <1>7, <1>9, <2>5, <2>6 DEF Walks, Promise!Left, Nothing, Promise!Nothing
<1> QED
  BY <1>8, <1>9

\* A cell at the end of the tape, under the finger.
LEMMA RearIsAppended ==
    ASSUME StripInv, StripInv', NEW w, NEW p, IsWalk(w, p), NEW c \in Arguments \cup {"#"},
           addNodeRear(c, TRUE)
    PROVE  /\ Walks'
           /\ Cells' = Append(Cells, c) /\ Finger' = nodes + 1
           /\ UNDO' = UNDO => UndoPlaces' = UndoPlaces
           /\ UNDO' = <<actual>> \o UNDO => UndoPlaces' = <<Finger>> \o UndoPlaces
           /\ REDO' = REDO => RedoPlaces' = RedoPlaces
<1>a. Known(w, p)
  BY WalkFacts
<1>b. Shown(w, p)
  BY TapeFacts
<1>1. last \in 1..nodes /\ next[last] = Null /\ p[last] = nodes /\ nodes \in Nat \ {0}
  BY <1>a, <1>b DEF Known, Shown
<1>2. Linked(c, last, next[last]) /\ last' = newNode /\ actual' = newNode
  BY <1>1 DEF addNodeRear
<1>3. PICK v, q :
        /\ IsWalk(v, q)'
        /\ Cells' = Inserted(Cells, nodes, nodes + 1, c)
        /\ Finger' = nodes + 1
        /\ UndoPlaces' = At(q, UNDO') /\ RedoPlaces' = At(q, REDO')
        /\ \A n \in 1..nodes + 1 : q[n] \in Nat
        /\ \A n \in 1..nodes : q[n] = p[n] + (IF p[n] >= nodes + 1 THEN 1 ELSE 0)
  BY <1>1, <1>2, LongerTape
<1>4. Cells' = Append(Cells, c)
  <2> DEFINE S == Arguments \cup {"#", "empty"}
  <2>1. c \in S /\ Cells \in [1..nodes -> S]
    BY <1>b DEF Shown
  <2> HIDE DEF S
  <2>2. Append(Cells, c) = Inserted(Cells, nodes, nodes + 1, c)
    <3>1. PICK N, s : N = nodes /\ s = Cells /\ N \in Nat /\ s \in [1..N -> S]
      BY <1>1, <2>1
    <3>2. Append(s, c) = Inserted(s, N, N + 1, c)
      BY <2>1, <3>1, AppendedIs
    <3> QED
      BY <3>1, <3>2
  <2> QED
    BY <1>3, <2>2
<1>5. \A s \in Seq(1..nodes) : At(q, s) = At(p, s)
  <2>1. ASSUME NEW s \in Seq(1..nodes) PROVE At(q, s) = At(p, s)
    <3>1. \A n \in 1..nodes : q[n] = p[n]
      <4>1. ASSUME NEW n \in 1..nodes PROVE q[n] = p[n]
        <5>1. p[n] \in Nat /\ p[n] <= nodes
          BY <1>b DEF Shown
        <5> QED
          BY <1>1, <1>3, <5>1
      <4> QED
        BY <4>1
    <3>2. \A i \in 1..Len(s) : s[i] \in 1..nodes
      BY Items
    <3> QED
      BY <3>1, <3>2 DEF At
  <2> QED
    BY <2>1
<1>6. UNDO \in Seq(1..nodes) /\ REDO \in Seq(1..nodes) /\ actual \in 1..nodes
      /\ <<actual>> \o UNDO \in Seq(1..nodes)
      /\ UndoPlaces = At(p, UNDO) /\ RedoPlaces = At(p, REDO) /\ Finger = p[actual]
  <2>1. UNDO \in Seq(1..nodes) /\ actual \in 1..nodes
    BY <1>b DEF Shown
  <2>2. <<actual>> \o UNDO \in Seq(1..nodes)
    BY <2>1
  <2> QED
    BY <2>2, <1>b DEF Shown
<1>7. At(p, <<actual>> \o UNDO) = <<Finger>> \o UndoPlaces
  BY FingerFacts DEF AtFinger
<1> QED
  BY <1>3, <1>4, <1>5, <1>6, <1>7 DEF Walks

LEMMA MoveRightIsRight ==
    ASSUME Made, StripInv, StripInv', NEW w, NEW p, IsWalk(w, p), ExecuteMoveRight
    PROVE  Walks' /\ Promise!Right
<1>a. Known(w, p)
  BY WalkFacts
<1>b. Shown(w, p)
  BY TapeFacts
<1>1. /\ UNDO' = <<actual>> \o UNDO /\ moveRight(TRUE)
      /\ printed' = Nothing /\ REDO' = REDO
  BY DEF ExecuteMoveRight, Malloc, Made, push
<1>2. CASE actual = last
  <2>1. Finger = nodes
    BY <1>2, <1>b, <1>a DEF Known, Shown
  <2>2. addNodeRear("#", TRUE)
    BY <1>1, <1>2 DEF moveRight
  <2>3. /\ Walks'
        /\ Cells' = Append(Cells, "#") /\ Finger' = nodes + 1
        /\ UndoPlaces' = <<Finger>> \o UndoPlaces
        /\ RedoPlaces' = RedoPlaces
    BY <1>1, <2>2, RearIsAppended
  <2> QED
    BY <1>1, <2>1, <2>3, <1>b DEF Promise!Right, Nothing, Promise!Nothing, Shown
<1>3. CASE actual # last
  <2>1. actual' = next[actual] /\ UNCHANGED <<nodes, next, prev, last, character>>
    BY <1>1, <1>3 DEF moveRight
  <2>2. Finger \in 1..nodes - 1 /\ Finger + 1 \in 1..nodes
    BY <1>3, FingerFacts DEF AtFinger
  <2>3. next[actual] = w[Finger + 1] /\ p[w[Finger + 1]] = Finger + 1
    BY <2>2, FingerFacts DEF AtFinger
  <2>4. IsWalk(w, p)' /\ Cells' = Cells /\ RedoPlaces' = RedoPlaces /\ Finger' = p[actual']
        /\ UndoPlaces' = At(p, UNDO')
    BY <1>1, <2>1, StillWalk
  <2>5. UndoPlaces' = <<Finger>> \o UndoPlaces
    BY <1>1, <2>4, FingerFacts DEF AtFinger
  <2>6. Finger # Len(Cells) /\ Finger' = Finger + 1
    BY <2>1, <2>2, <2>3, <2>4, <1>b DEF Shown
  <2> QED
    BY <1>1, <2>4, <2>5, <2>6 DEF Walks, Promise!Right, Nothing, Promise!Nothing
<1> QED
  BY <1>2, <1>3

LEMMA WriteIsWrite ==
    ASSUME StripInv, StripInv', NEW w, NEW p, IsWalk(w, p), NEW c \in Arguments, write(c),
           UNCHANGED <<UNDO, REDO>>, printed' = Nothing
    PROVE  Walks' /\ Promise!Write(c)
<1>a. Known(w, p)
  BY WalkFacts
<1>b. Shown(w, p)
  BY TapeFacts
<1>1. UNCHANGED <<nodes, next, prev, last, actual>> /\ character' = [character EXCEPT ![actual] = c]
  BY DEF write
<1>2. /\ IsWalk(w, p)' /\ Cells' = [i \in 1..nodes |-> character'[w[i]]]
      /\ Finger' = p[actual'] /\ UndoPlaces' = UndoPlaces /\ RedoPlaces' = RedoPlaces
  BY <1>1, StillWalk
<1>3. Finger' = Finger
  BY <1>1, <1>2, <1>b DEF Shown
<1>4. ASSUME NEW i \in 1..nodes
      PROVE  character'[w[i]] = IF i = Finger THEN c ELSE Cells[i]
  <2>1. w[i] \in Nodes /\ w[i] \in 1..nodes /\ p[w[i]] = i
    BY <1>a DEF Known
  <2>2. w[i] = actual <=> i = Finger
    BY <2>1, <1>b DEF Shown
  <2>3. character \in [Nodes -> Arguments \cup {"#", "empty"}]
    BY DEF StripInv, StripTypeOK
  <2> QED
    BY <1>1, <2>1, <2>2, <2>3, <1>b DEF Shown
<1>5. Cells' = [Cells EXCEPT ![Finger] = c]
  BY <1>2, <1>4, <1>b DEF Shown
<1> QED
  BY <1>2, <1>3, <1>5 DEF Walks, Promise!Write, Nothing, Promise!Nothing

\* What a search to the left finds are the cells that hold c, counted from the finger.
LEMMA LeftCharIsLeftChar ==
    ASSUME StripInv, StripInv', NEW w, NEW p, IsWalk(w, p), NEW c \in Arguments, moveLeftChar(c),
           UNCHANGED <<UNDO, REDO>>
    PROVE  Walks' /\ Promise!LeftChar(c)
<1>a. Known(w, p)
  BY WalkFacts
<1>b. Shown(w, p)
  BY TapeFacts
<1> DEFINE path == Leftward[actual]
           found == Found(path, c)
           T == {i \in 1..Finger : Cells[i] = c}
<1>1. UNCHANGED <<nodes, next, prev, last, character>>
  BY DEF moveLeftChar
<1>2. /\ IsWalk(w, p)' /\ Cells' = Cells /\ Finger' = p[actual']
      /\ UndoPlaces' = UndoPlaces /\ RedoPlaces' = RedoPlaces
  BY <1>1, StillWalk
<1>3. Finger \in 1..nodes /\ w[Finger] = actual /\ Finger = p[actual] /\ nodes \in Nat
  BY <1>b DEF Shown
<1>4. path = LeftOf(w, Finger)
  BY <1>3, LeftwardIs
<1>5. /\ DOMAIN path = 1..Finger + 1
      /\ path[Finger + 1] = Sentinel
      /\ \A k \in 1..Finger : path[k] = w[Finger + 1 - k]
  <2>1. Finger + 1 \in 1..Finger + 1 /\ \A k \in 1..Finger : k \in 1..Finger + 1 /\ k # Finger + 1
    BY <1>3
  <2> HIDE DEF path
  <2> QED
    BY <1>4, <2>1 DEF LeftOf
<1>6. ASSUME NEW k PROVE k \in found <=> k \in 1..Finger /\ Finger + 1 - k \in T
  <2> HIDE DEF path
  <2>1. CASE k \in 1..Finger
    <3>1. Finger + 1 - k \in 1..Finger /\ Finger + 1 - k \in 1..nodes
      BY <1>3, <2>1
    <3>2. path[k] \in TapeNode /\ character[path[k]] = Cells[Finger + 1 - k]
      <4>1. path[k] = w[Finger + 1 - k]
        BY <1>5, <2>1
      <4> QED
        BY <3>1, <4>1, FingerFacts DEF AtFinger, TapeNode
    <3>3. k \in DOMAIN path
      BY <1>3, <1>5, <2>1
    <3> QED
      BY <2>1, <3>1, <3>2, <3>3 DEF Found
  <2>2. CASE k \notin 1..Finger
    <3>1. k \in DOMAIN path => path[k] = Sentinel
      BY <1>3, <1>5, <2>2
    <3>2. Sentinel \notin TapeNode
      BY <1>3 DEF TapeNode, Sentinel
    <3> QED
      BY <2>2, <3>1, <3>2 DEF Found
  <2> QED
    BY <2>1, <2>2
<1>7. IF found = {}
      THEN actual' = actual /\ printed' = ErrorLine
      ELSE StopAtFirst(path, found) /\ printed' = Nothing
  BY DEF moveLeftChar
<1> HIDE DEF found
<1>8. CASE found = {}
  <2>1. T = {}
    <3>1. SUFFICES ASSUME NEW j \in T PROVE FALSE
      OBVIOUS
    <3>2. Finger + 1 - j \in 1..Finger /\ Finger + 1 - (Finger + 1 - j) = j
      BY <1>3
    <3>3. Finger + 1 - j \in found
      BY <1>6, <3>2
    <3> QED
      BY <1>8, <3>3
  <2>2. Finger' = Finger
    BY <1>2, <1>3, <1>7, <1>8
  <2> QED
    BY <1>2, <1>7, <1>8, <2>1, <2>2 DEF Walks, Promise!LeftChar, ErrorLine, Promise!ErrorLine
<1>9. CASE found # {}
  <2>1. PICK k \in found : (\A j \in found : k <= j) /\ actual' = path[k]
    BY <1>7, <1>9 DEF StopAtFirst
  <2>2. k \in 1..Finger /\ Finger + 1 - k \in T
    BY <1>6, <2>1
  <2> HIDE DEF T
  <2>3. actual' = w[Finger + 1 - k] /\ Finger + 1 - k \in 1..nodes
    BY <1>3, <1>5, <2>1, <2>2
  <2>4. Finger' = Finger + 1 - k
    BY <1>2, <2>3, FingerFacts DEF AtFinger
  <2>5. \A j \in T : Finger + 1 - k >= j
    <3>1. ASSUME NEW j \in T PROVE Finger + 1 - k >= j
      <4>1. j \in 1..Finger /\ Finger + 1 - j \in 1..Finger /\ Finger + 1 - (Finger + 1 - j) = j
        BY <1>3 DEF T
      <4>2. Finger + 1 - j \in found
        BY <1>6, <4>1
      <4>3. k <= Finger + 1 - j
        BY <2>1, <4>2
      <4> QED
        BY <1>3, <2>2, <4>1, <4>3
    <3> QED
      BY <3>1
  <2>6. \A j \in T : j \in Nat
    BY <1>3 DEF T
  <2>7. Promise!Max(T) = Finger + 1 - k
    BY <2>2, <2>5, <2>6 DEF Promise!Max
  <2>8. T # {}
    BY <2>2
  <2> QED
    BY <1>2, <1>7, <1>9, <2>4, <2>7, <2>8 DEF Walks, Promise!LeftChar, T, Nothing, Promise!Nothing
<1> QED
  BY <1>8, <1>9

LEMMA RightCharIsRightChar ==
    ASSUME StripInv, StripInv', NEW w, NEW p, IsWalk(w, p), NEW c \in Arguments, moveRightChar(c, TRUE),
           UNCHANGED <<UNDO, REDO>>, printed' = Nothing
    PROVE  Walks' /\ Promise!RightChar(c)
<1>a. Known(w, p)
  BY WalkFacts
<1>b. Shown(w, p)
  BY TapeFacts
<1> DEFINE path == Rightward[actual]
           found == Found(path, c)
           T == {i \in Finger..Len(Cells) : Cells[i] = c}
<1>1. Finger \in 1..nodes /\ w[Finger] = actual /\ Finger = p[actual] /\ nodes \in Nat
      /\ Len(Cells) = nodes
  BY <1>b DEF Shown
<1>2. path = RightOf(w, Finger, nodes)
  BY <1>1, RightwardIs
<1>3. /\ DOMAIN path = 1..nodes - Finger + 1
      /\ \A k \in 1..nodes - Finger + 1 : path[k] = w[Finger + k - 1]
  <2> HIDE DEF path
  <2> QED
    BY <1>2 DEF RightOf
<1>4. ASSUME NEW k
      PROVE  k \in found <=> k \in 1..nodes - Finger + 1 /\ Finger + k - 1 \in T
  <2> HIDE DEF path
  <2>1. CASE k \in 1..nodes - Finger + 1
    <3>1. Finger + k - 1 \in Finger..Len(Cells) /\ Finger + k - 1 \in 1..nodes
      BY <1>1, <2>1
    <3>2. path[k] \in TapeNode /\ character[path[k]] = Cells[Finger + k - 1]
      <4>1. path[k] = w[Finger + k - 1]
        BY <1>3, <2>1
      <4> QED
        BY <3>1, <4>1, FingerFacts DEF AtFinger, TapeNode
    <3> QED
      BY <1>3, <2>1, <3>1, <3>2 DEF Found
  <2>2. CASE k \notin 1..nodes - Finger + 1
    BY <1>3, <2>2 DEF Found
  <2> QED
    BY <2>1, <2>2
<1>5. IF found = {}
      THEN addNodeRear("#", TRUE)
      ELSE StopAtFirst(path, found) /\ UNCHANGED <<nodes, next, prev, character, last>>
  BY DEF moveRightChar
<1> HIDE DEF found
<1>6. CASE found = {}
  <2>1. T = {}
    <3>1. SUFFICES ASSUME NEW j \in T PROVE FALSE
      OBVIOUS
    <3>2. j - Finger + 1 \in 1..nodes - Finger + 1 /\ Finger + (j - Finger + 1) - 1 = j
      BY <1>1
    <3>3. j - Finger + 1 \in found
      BY <1>4, <3>2
    <3> QED
      BY <1>6, <3>3
  <2>2. /\ Walks'
        /\ Cells' = Append(Cells, "#") /\ Finger' = nodes + 1
        /\ UndoPlaces' = UndoPlaces /\ RedoPlaces' = RedoPlaces
    BY <1>5, <1>6, RearIsAppended
  <2> QED
    BY <1>1, <2>1, <2>2 DEF Promise!RightChar, Nothing, Promise!Nothing
<1>7. CASE found # {}
  <2>0. StopAtFirst(path, found) /\ UNCHANGED <<nodes, next, prev, character, last>>
    BY <1>5, <1>7
  <2>1. PICK k \in found : (\A j \in found : k <= j) /\ actual' = path[k]
    BY <2>0 DEF StopAtFirst
  <2>2. k \in 1..nodes - Finger + 1 /\ Finger + k - 1 \in T
    BY <1>4, <2>1
  <2>3. /\ IsWalk(w, p)' /\ Cells' = Cells /\ Finger' = p[actual']
        /\ UndoPlaces' = UndoPlaces /\ RedoPlaces' = RedoPlaces
    BY <2>0, StillWalk
  <2> HIDE DEF T
  <2>4. actual' = w[Finger + k - 1] /\ Finger + k - 1 \in 1..nodes
    BY <1>1, <1>3, <2>1, <2>2
  <2>5. Finger' = Finger + k - 1
    BY <2>3, <2>4, FingerFacts DEF AtFinger
  <2>6. \A j \in T : Finger + k - 1 <= j
    <3>1. ASSUME NEW j \in T PROVE Finger + k - 1 <= j
      <4>1. j \in Finger..nodes /\ j - Finger + 1 \in 1..nodes - Finger + 1
            /\ Finger + (j - Finger + 1) - 1 = j
        BY <1>1 DEF T
      <4>2. j - Finger + 1 \in found
        BY <1>4, <4>1
      <4>3. k <= j - Finger + 1
        BY <2>1, <4>2
      <4> QED
        BY <1>1, <2>2, <4>1, <4>3
    <3> QED
      BY <3>1
  <2>7. \A j \in T : j \in Nat
    BY <1>1 DEF T
  <2>8. Promise!Min(T) = Finger + k - 1
    BY <2>2, <2>6, <2>7 DEF Promise!Min
  <2>9. T # {}
    BY <2>2
  <2> QED
    BY <2>3, <2>5, <2>8, <2>9 DEF Walks, Promise!RightChar, T, Nothing, Promise!Nothing
<1> QED
  BY <1>6, <1>7

\* A cell to the right of left's, under the finger.
LEMMA LinkedIsInserted ==
    ASSUME StripInv, StripInv', NEW w, NEW p, IsWalk(w, p), NEW c \in Arguments,
           NEW left \in 1..nodes, Linked(c, left, next[left]), actual' = newNode,
           last' = IF left = last THEN newNode ELSE last,
           UNCHANGED <<UNDO, REDO>>, printed' = Nothing
    PROVE  Walks' /\ Promise!InsertCell(c, p[left] + 1)
<1>b. Shown(w, p)
  BY TapeFacts
<1> DEFINE pos == p[left] + 1
<1>1. PICK v, q :
        /\ IsWalk(v, q)'
        /\ Cells' = Inserted(Cells, nodes, pos, c)
        /\ Finger' = pos
        /\ UndoPlaces' = At(q, UNDO') /\ RedoPlaces' = At(q, REDO')
        /\ \A n \in 1..nodes + 1 : q[n] \in Nat
        /\ \A n \in 1..nodes : q[n] = p[n] + (IF p[n] >= pos THEN 1 ELSE 0)
  BY LongerTape
<1>2. nodes \in Nat /\ pos \in 1..nodes + 1 /\ (\A n \in 1..nodes : p[n] \in Nat /\ p[n] <= nodes)
  BY <1>b DEF Shown
<1> HIDE DEF pos
<1>3. Cells' = Promise!InsertAt(Cells, pos, c)
  <2> DEFINE S == Arguments \cup {"#", "empty"}
  <2>1. c \in S /\ Cells \in [1..nodes -> S]
    BY <1>b DEF Shown
  <2> HIDE DEF S
  <2> QED
    BY <1>1, <1>2, <2>1, InsertedIs
<1>4. \A s \in Seq(1..nodes) : At(q, s) = Shifted(At(p, s), pos)
  BY <1>1, <1>2, PlacesShift
<1>5. UndoPlaces' = Shifted(UndoPlaces, pos) /\ RedoPlaces' = Shifted(RedoPlaces, pos)
  BY <1>1, <1>4, <1>b DEF Shown
<1>6. Promise!InsertCell(c, pos)
  BY <1>1, <1>3, <1>5 DEF Promise!InsertCell, Shifted, Nothing, Promise!Nothing
<1> QED
  BY <1>1, <1>6 DEF Walks, pos

LEMMA InsertLeftIsInsertLeft ==
    ASSUME StripInv, StripInv', NEW w, NEW p, IsWalk(w, p), NEW c \in Arguments, insertLeft(c, TRUE),
           UNCHANGED <<UNDO, REDO>>
    PROVE  Walks' /\ Promise!InsertLeft(c)
<1>a. Known(w, p)
  BY WalkFacts
<1>b. Shown(w, p)
  BY TapeFacts
<1>1. CASE Finger = 1
  <2>1. prev[actual] = Sentinel
    BY <1>1, <1>b, <1>a DEF Shown, Known
  <2>2. printed' = ErrorLine /\ UNCHANGED strip
    BY <2>1 DEF insertLeft
  <2>3. UNCHANGED <<nodes, next, prev, last, character, actual>>
    BY <2>2 DEF strip
  <2>4. /\ IsWalk(w, p)' /\ Cells' = Cells /\ Finger' = p[actual']
        /\ UndoPlaces' = UndoPlaces /\ RedoPlaces' = RedoPlaces
    BY <2>3, StillWalk
  <2>5. Finger' = Finger
    BY <2>3, <2>4, <1>b DEF Shown
  <2> QED
    BY <1>1, <2>2, <2>4, <2>5 DEF Walks, Promise!InsertLeft, ErrorLine, Promise!ErrorLine
<1>2. CASE Finger # 1
  <2>1. PICK i \in 1..nodes - 1 : i = Finger - 1 /\ i + 1 = Finger
    <3>1. Finger - 1 \in 1..nodes - 1 /\ (Finger - 1) + 1 = Finger
      BY <1>2, <1>b DEF Shown
    <3> QED
      BY <3>1
  <2>2. prev[actual] = w[i] /\ w[i] \in 1..nodes /\ p[w[i]] + 1 = Finger /\ next[w[i]] = actual
        /\ w[i] # last /\ w[i] # Sentinel
    <3>1. i \in 1..nodes /\ i # nodes
      BY <2>1, <1>b DEF Shown
    <3>2. p[last] = nodes
      BY <1>b, <1>a DEF Known, Shown
    <3> QED
      BY <2>1, <3>1, <3>2, FingerFacts DEF AtFinger
  <2>3. Linked(c, w[i], next[w[i]]) /\ actual' = newNode /\ last' = last /\ printed' = Nothing
    BY <2>2 DEF insertLeft
  <2>4. Walks' /\ Promise!InsertCell(c, p[w[i]] + 1)
    BY <2>2, <2>3, LinkedIsInserted
  <2> QED
    BY <1>2, <2>2, <2>4 DEF Promise!InsertLeft
<1> QED
  BY <1>1, <1>2

LEMMA InsertRightIsInsertRight ==
    ASSUME StripInv, StripInv', NEW w, NEW p, IsWalk(w, p), NEW c \in Arguments, insertRight(c, TRUE),
           UNCHANGED <<UNDO, REDO>>, printed' = Nothing
    PROVE  Walks' /\ Promise!InsertRight(c)
<1>a. Known(w, p)
  BY WalkFacts
<1>b. Shown(w, p)
  BY TapeFacts
<1>1. actual \in 1..nodes /\ p[actual] = Finger
  BY <1>b DEF Shown
<1>2. Linked(c, actual, next[actual]) /\ actual' = newNode
      /\ last' = IF actual = last THEN newNode ELSE last
  <2>1. CASE actual = last
    BY <2>1, <1>a DEF insertRight, addNodeRear, Known
  <2>2. CASE actual # last
    BY <2>2 DEF insertRight
  <2> QED
    BY <2>1, <2>2
<1>3. Walks' /\ Promise!InsertCell(c, p[actual] + 1)
  BY <1>1, <1>2, LinkedIsInserted
<1> QED
  BY <1>1, <1>3 DEF Promise!InsertRight

\* EXECUTE carries out the oldest command.
LEMMA ExecuteIsExecute ==
    ASSUME Made, StripInv, StripInv', NEW w, NEW p, IsWalk(w, p),
           ExecuteMoveLeft \/ ExecuteMoveRight \/ ExecuteEdit
    PROVE  Walks' /\ Promise!Execute
<1> DEFINE cmd == Head(opQueue)
           c == cmd.arg
<1>1. CASE ExecuteMoveLeft
  <2>1. opQueue # <<>> /\ cmd.op = "MOVE_LEFT" /\ opQueue' = Tail(opQueue)
    BY <1>1 DEF ExecuteMoveLeft, dequeue
  <2>2. Walks' /\ Promise!Left
    BY <1>1, MoveLeftIsLeft
  <2> HIDE DEF cmd
  <2>3. Promise!Perform(cmd)
    BY <2>1, <2>2 DEF Promise!Perform
  <2> QED
    BY <2>1, <2>2, <2>3 DEF Promise!Execute, cmd
<1>2. CASE ExecuteMoveRight
  <2>1. opQueue # <<>> /\ cmd.op = "MOVE_RIGHT" /\ opQueue' = Tail(opQueue)
    BY <1>2 DEF ExecuteMoveRight, dequeue
  <2>2. Walks' /\ Promise!Right
    BY <1>2, MoveRightIsRight
  <2> HIDE DEF cmd
  <2>3. Promise!Perform(cmd)
    BY <2>1, <2>2 DEF Promise!Perform
  <2> QED
    BY <2>1, <2>2, <2>3 DEF Promise!Execute, cmd
<1>3. CASE ExecuteEdit
  <2>1. UNCHANGED <<UNDO, REDO>>
    BY <1>3 DEF ExecuteEdit
  <2>2. \/ dequeue("WRITE") /\ write(c) /\ printed' = Nothing
        \/ dequeue("MOVE_LEFT_CHAR") /\ moveLeftChar(c)
        \/ dequeue("MOVE_RIGHT_CHAR") /\ moveRightChar(c, TRUE) /\ printed' = Nothing
        \/ dequeue("INSERT_LEFT") /\ insertLeft(c, TRUE)
        \/ dequeue("INSERT_RIGHT") /\ insertRight(c, TRUE) /\ printed' = Nothing
    BY <1>3 DEF ExecuteEdit, Malloc, Made
  <2>3. c \in Arguments
    <3>1. ASSUME NEW op, dequeue(op), op \notin {"MOVE_LEFT", "MOVE_RIGHT"} PROVE c \in Arguments
      BY <3>1, Dequeued
    <3> HIDE DEF c
    <3> QED
      BY <2>2, <3>1
  <2>4. ASSUME NEW op, dequeue(op)
        PROVE  opQueue # <<>> /\ cmd.op = op /\ opQueue' = Tail(opQueue)
    BY <2>4 DEF dequeue
  <2>5. opQueue # <<>> /\ opQueue' = Tail(opQueue)
    BY <2>2, <2>4
  <2> SUFFICES Walks' /\ Promise!Perform(cmd)
    BY <2>5 DEF Promise!Execute
  <2> HIDE DEF cmd
  <2>6. CASE dequeue("WRITE") /\ write(c) /\ printed' = Nothing
    <3>1. cmd.op = "WRITE"
      BY <2>4, <2>6
    <3>2. Walks' /\ Promise!Write(c)
      BY <2>1, <2>3, <2>6, WriteIsWrite
    <3> QED
      BY <3>1, <3>2 DEF Promise!Perform
  <2>7. CASE dequeue("MOVE_LEFT_CHAR") /\ moveLeftChar(c)
    <3>1. cmd.op = "MOVE_LEFT_CHAR"
      BY <2>4, <2>7
    <3>2. Walks' /\ Promise!LeftChar(c)
      BY <2>1, <2>3, <2>7, LeftCharIsLeftChar
    <3> QED
      BY <3>1, <3>2 DEF Promise!Perform
  <2>8. CASE dequeue("MOVE_RIGHT_CHAR") /\ moveRightChar(c, TRUE) /\ printed' = Nothing
    <3>1. cmd.op = "MOVE_RIGHT_CHAR"
      BY <2>4, <2>8
    <3>2. Walks' /\ Promise!RightChar(c)
      BY <2>1, <2>3, <2>8, RightCharIsRightChar
    <3> QED
      BY <3>1, <3>2 DEF Promise!Perform
  <2>9. CASE dequeue("INSERT_LEFT") /\ insertLeft(c, TRUE)
    <3>1. cmd.op = "INSERT_LEFT"
      BY <2>4, <2>9
    <3>2. Walks' /\ Promise!InsertLeft(c)
      BY <2>1, <2>3, <2>9, InsertLeftIsInsertLeft
    <3> QED
      BY <3>1, <3>2 DEF Promise!Perform
  <2>10. CASE dequeue("INSERT_RIGHT") /\ insertRight(c, TRUE) /\ printed' = Nothing
    <3>1. cmd.op = "INSERT_RIGHT"
      BY <2>4, <2>10
    <3>2. Walks' /\ Promise!InsertRight(c)
      BY <2>1, <2>3, <2>10, InsertRightIsInsertRight
    <3> QED
      BY <3>1, <3>2 DEF Promise!Perform
  <2> QED
    BY <2>2, <2>6, <2>7, <2>8, <2>9, <2>10
<1> QED
  BY <1>1, <1>2, <1>3

\* The commands that leave the list as it is.
LEMMA OthersAreOthers ==
    ASSUME Made, StripInv, StripInv', NEW w, NEW p, IsWalk(w, p),
           UNCHANGED <<nodes, next, prev, last, character>>
    PROVE  /\ Walks'
           /\ Undo => Promise!Undo
           /\ Redo => Promise!Redo
           /\ showCurrent \/ show => Promise!Show
           /\ \A cmd \in QueueCommands : enqueue(cmd) => Promise!Wait(cmd)
           /\ UNCHANGED stripVars => UNCHANGED Promise!tapeVars
<1>b. Shown(w, p)
  BY TapeFacts
<1>1. /\ IsWalk(w, p)' /\ Cells' = Cells /\ Finger' = p[actual']
      /\ UndoPlaces' = At(p, UNDO') /\ RedoPlaces' = At(p, REDO')
      /\ UNDO' = UNDO => UndoPlaces' = UndoPlaces
      /\ REDO' = REDO => RedoPlaces' = RedoPlaces
  BY StillWalk
<1>2. nodes \in Nat /\ (\A n \in 1..nodes : p[n] \in Nat /\ p[n] <= nodes) /\ UNDO \in Seq(1..nodes) /\ REDO \in Seq(1..nodes)
      /\ actual \in 1..nodes /\ Finger = p[actual]
      /\ UndoPlaces = At(p, UNDO) /\ RedoPlaces = At(p, REDO)
  BY <1>b DEF Shown
<1>3. actual' = actual => Finger' = Finger
  BY <1>1, <1>2
<1>4. ASSUME Undo PROVE Promise!Undo
  <2>1. /\ UNDO # <<>> /\ actual' = Head(UNDO) /\ UNDO' = Tail(UNDO)
        /\ REDO' = <<actual>> \o REDO /\ printed' = Nothing /\ opQueue' = opQueue
    BY <1>4 DEF Undo, Malloc, Made, push
  <2>2. UndoPlaces # <<>> /\ Finger' = Head(UndoPlaces) /\ UndoPlaces' = Tail(UndoPlaces)
    BY <1>1, <1>2, <2>1, AtPop
  <2>3. RedoPlaces' = <<Finger>> \o RedoPlaces
    BY <1>1, <1>2, <2>1, AtPush
  <2> QED
    BY <1>1, <2>1, <2>2, <2>3 DEF Promise!Undo, Nothing, Promise!Nothing
<1>5. ASSUME Redo PROVE Promise!Redo
  <2>1. /\ REDO # <<>> /\ actual' = Head(REDO) /\ REDO' = Tail(REDO)
        /\ UNDO' = <<actual>> \o UNDO /\ printed' = Nothing /\ opQueue' = opQueue
    BY <1>5 DEF Redo, Malloc, Made, push
  <2>2. RedoPlaces # <<>> /\ Finger' = Head(RedoPlaces) /\ RedoPlaces' = Tail(RedoPlaces)
    BY <1>1, <1>2, <2>1, AtPop
  <2>3. UndoPlaces' = <<Finger>> \o UndoPlaces
    BY <1>1, <1>2, <2>1, AtPush
  <2> QED
    BY <1>1, <2>1, <2>2, <2>3 DEF Promise!Redo, Nothing, Promise!Nothing
<1>6. ASSUME showCurrent \/ show PROVE Promise!Show
  <2>1. actual' = actual /\ UNDO' = UNDO /\ REDO' = REDO /\ opQueue' = opQueue
    BY <1>6 DEF showCurrent, show, strip
  <2>2. character[actual] = Cells[Finger]
    BY <1>b DEF Shown
  <2>3. showCurrent => printed' = [text |-> <<Cells[Finger]>>, finger |-> 0]
    BY <2>2 DEF showCurrent
  <2>4. show => printed' = [text |-> Cells, finger |-> Finger]
    BY DEF show, Cells, Finger
  <2> QED
    BY <1>1, <1>3, <1>6, <2>1, <2>3, <2>4 DEF Promise!Show
<1>7. ASSUME NEW cmd \in QueueCommands, enqueue(cmd) PROVE Promise!Wait(cmd)
  <2>1. /\ actual' = actual /\ UNDO' = UNDO /\ REDO' = REDO /\ printed' = Nothing
        /\ opQueue' = Append(opQueue, cmd)
    BY <1>7 DEF enqueue, strip, Malloc, Made
  <2> QED
    BY <1>1, <1>3, <2>1 DEF Promise!Wait, Nothing, Promise!Nothing
<1>8. ASSUME UNCHANGED stripVars PROVE UNCHANGED Promise!tapeVars
  <2>1. actual' = actual /\ UNDO' = UNDO /\ REDO' = REDO /\ opQueue' = opQueue /\ printed' = printed
    BY <1>8 DEF stripVars
  <2> QED
    BY <1>1, <1>3, <2>1 DEF Promise!tapeVars
<1>9. Walks'
  BY <1>1 DEF Walks
<1> QED
  BY <1>4, <1>5, <1>6, <1>7, <1>8, <1>9

LEMMA NextIsTapeNext ==
    ASSUME Made, StripInv, StripInv', Walks, [StripNext]_stripVars
    PROVE  Walks' /\ [Promise!TapeNext]_Promise!tapeVars
<1>1. PICK w, p : IsWalk(w, p)
  BY DEF Walks
<1>2. CASE ExecuteMoveLeft \/ ExecuteMoveRight \/ ExecuteEdit
  BY <1>1, <1>2, ExecuteIsExecute DEF Promise!TapeNext
<1>3. CASE Undo \/ Redo \/ showCurrent \/ show \/ UNCHANGED stripVars
  <2>1. UNCHANGED <<nodes, next, prev, last, character>>
    BY <1>3 DEF Undo, Redo, showCurrent, show, stripVars, strip
  <2>2. Walks' /\ (Promise!Undo \/ Promise!Redo \/ Promise!Show \/ UNCHANGED Promise!tapeVars)
    BY <1>1, <1>3, <2>1, OthersAreOthers
  <2> QED
    BY <2>2 DEF Promise!TapeNext
<1>4. ASSUME NEW cmd \in QueueCommands, enqueue(cmd)
      PROVE  Walks' /\ [Promise!TapeNext]_Promise!tapeVars
  <2>1. UNCHANGED <<nodes, next, prev, last, character>>
    BY <1>4 DEF enqueue, strip
  <2>2. Walks' /\ Promise!Wait(cmd)
    BY <1>1, <1>4, <2>1, OthersAreOthers
  <2>3. cmd \in Promise!TapeCommands
    BY DEF QueueCommands, Promise!TapeCommands
  <2> QED
    BY <2>2, <2>3 DEF Promise!TapeNext
<1> QED
  BY <1>2, <1>3, <1>4 DEF StripNext

LEMMA InitIsTapeInit == ASSUME StripInit PROVE Walks /\ Promise!TapeInit
<1> DEFINE w == [i \in 1..1 |-> 1]
<1>1. nodes = 1 /\ last = 1 /\ actual = 1 /\ UNDO = <<>> /\ REDO = <<>> /\ opQueue = <<>>
      /\ printed = Nothing
  BY DEF StripInit
<1>2. /\ next = [n \in Nodes |-> IF n = Sentinel THEN 1 ELSE Null]
      /\ prev = [n \in Nodes |-> IF n = 1 THEN Sentinel ELSE Null]
      /\ character = [n \in Nodes |-> IF n = 1 THEN "#" ELSE "empty"]
      /\ 1 \in Nodes /\ 0 \in Nodes
  BY MaxNodesAssumption DEF StripInit, Nodes
<1>3. IsWalk(w, w)
  BY <1>1, <1>2 DEF IsWalk, Sentinel, Nodes
<1>4. Cells = [i \in 1..1 |-> character[w[i]]] /\ Finger = w[actual]
      /\ UndoPlaces = At(w, UNDO) /\ RedoPlaces = At(w, REDO)
  <2> HIDE DEF w
  <2> QED
    BY <1>1, <1>3, InitList, WalkReads DEF Reads
<1>5. character[1] = "#"
  BY <1>2
<1>6. Cells = <<"#">>
  BY <1>4, <1>5
<1>7. Finger = 1
  BY <1>1, <1>4
<1>8. UndoPlaces = <<>> /\ RedoPlaces = <<>>
  BY <1>1, <1>4 DEF At
<1> QED
  BY <1>1, <1>3, <1>6, <1>7, <1>8 DEF Walks, Promise!TapeInit, Nothing, Promise!Nothing

\* Each command does to the list what it promises of the tape - moves, searches,
\* writes, insertions, UNDO and REDO with their remembered positions, and output
\* (main.c, functions.c) - for any number of cells and commands, while malloc gives
\* memory; a failing one loses a position or writes over a cell.
THEOREM StripIsATape == ASSUME MallocFails = FALSE PROVE StripSpec => ImplementsTape
<1>1. Made
  BY DEF Made
<1>2. StripInit => StripInv /\ Walks /\ Promise!TapeInit
  BY InitList, InitIsTapeInit
<1>3. StripInv /\ Walks /\ [StripNext]_stripVars => StripInv' /\ Walks' /\ [Promise!TapeNext]_Promise!tapeVars
  BY <1>1, NextKeepsIInv, NextIsTapeNext
<1> QED
  BY <1>2, <1>3, PTL DEF StripSpec, ImplementsTape, Promise!TapeSpec

-----------------------------------------------------------------------------
(* Kahn's algorithm *)

CONSTANTS Node, Final, Programs, Graphs, MOD

VARIABLES program, input, edges, in_degree, q, order, costs, i, phase

Kahn == INSTANCE TopologicalOrder

\* The instance counts as this module does.
LEMMA SameCount == ASSUME NEW S PROVE Kahn!Cardinality(S) = Cardinality(S)
BY DEF Kahn!Cardinality, Cardinality

\* The types of what Kahn's algorithm works on.
KahnTypeOK ==
    /\ phase \in {"read", "order", "costs", "done"}
    /\ in_degree \in [Node -> Nat]
    /\ q \in Seq(Node) /\ order \in Seq(Node)

\* The predecessors of y that are not in the order yet.
Awaited(y) == Kahn!Into(y) \ Kahn!Listed(order)

CountersExact == phase # "read" => \A y \in Node : in_degree[y] = Cardinality(Awaited(y))

QueueReady ==
    /\ \A y \in Kahn!Listed(q) : Awaited(y) = {}
    /\ \A j, k \in DOMAIN q : j # k => q[j] # q[k]
    /\ Kahn!Listed(q) \cap Kahn!Listed(order) = {}

OrderClosed ==
    /\ \A k \in DOMAIN order : \A x \in Kahn!Into(order[k]) : \E j \in 1..k - 1 : order[j] = x
    /\ \A j, k \in DOMAIN order : j # k => order[j] # order[k]

NobodyForgotten ==
    phase # "read" =>
        \A y \in Node : Kahn!Into(y) \subseteq Kahn!Listed(order) => y \in Kahn!Listed(order) \cup Kahn!Listed(q)

NotStarted == phase = "read" => edges = {} /\ q = <<>> /\ order = <<>>

KahnInv ==
    /\ KahnTypeOK /\ NotStarted /\ CountersExact
    /\ QueueReady /\ OrderClosed /\ NobodyForgotten

-----------------------------------------------------------------------------
\* The nodes waited for are finitely many, so that they can be counted.
LEMMA AwaitedFinite ==
    ASSUME IsFiniteSet(Node), NEW y PROVE IsFiniteSet(Kahn!Into(y)) /\ IsFiniteSet(Awaited(y))
<1>1. Kahn!Into(y) \in SUBSET Node /\ Awaited(y) \in SUBSET Node
  BY DEF Kahn!Into, Awaited
<1> QED
  BY <1>1, FS_Subset

\* What is listed by a list, and by one that is a node longer.
LEMMA ListedAppend ==
    ASSUME NEW s \in Seq(Node), NEW x \in Node
    PROVE  /\ Kahn!Listed(Append(s, x)) = Kahn!Listed(s) \cup {x}
           /\ Append(s, x) \in Seq(Node) /\ Len(Append(s, x)) = Len(s) + 1
           /\ \A k \in 1..Len(s) : Append(s, x)[k] = s[k]
           /\ Append(s, x)[Len(s) + 1] = x
<1>1. /\ Append(s, x) \in Seq(Node) /\ Len(Append(s, x)) = Len(s) + 1
      /\ \A k \in 1..Len(s) : Append(s, x)[k] = s[k]
      /\ Append(s, x)[Len(s) + 1] = x
  OBVIOUS
<1>2. DOMAIN Append(s, x) = 1..Len(s) + 1 /\ DOMAIN s = 1..Len(s) /\ Len(s) \in Nat
  BY <1>1
<1>3. Kahn!Listed(Append(s, x)) \subseteq Kahn!Listed(s) \cup {x}
  BY <1>1, <1>2 DEF Kahn!Listed
<1>4. Kahn!Listed(s) \cup {x} \subseteq Kahn!Listed(Append(s, x))
  BY <1>1, <1>2 DEF Kahn!Listed
<1> QED
  BY <1>1, <1>3, <1>4

\* What a listing of a set of nodes lists, and that it does so once.
LEMMA ListingLists ==
    ASSUME IsFiniteSet(Node), NEW S \in SUBSET Node, NEW s \in Kahn!Listings(S)
    PROVE  /\ s \in Seq(Node) /\ Kahn!Listed(s) = S
           /\ \A j, k \in DOMAIN s : j # k => s[j] # s[k]
<1>1. Cardinality(S) \in Nat
  BY FS_Subset, FS_CardinalityType
<1>2. /\ s \in [1..Cardinality(S) -> S]
      /\ \A j, k \in DOMAIN s : j # k => s[j] # s[k]
      /\ \A x \in S : \E j \in DOMAIN s : s[j] = x
  BY SameCount DEF Kahn!Listings
<1> QED
  BY <1>1, <1>2 DEF Kahn!Listed

\* The head of a queue without repetitions, the rest of it, and a list of other
\* nodes behind the rest.
LEMMA ListedPush ==
    ASSUME NEW s \in Seq(Node), s # <<>>, NEW pushed \in Seq(Node),
           \A j, k \in DOMAIN s : j # k => s[j] # s[k],
           \A j, k \in DOMAIN pushed : j # k => pushed[j] # pushed[k],
           Kahn!Listed(pushed) \cap Kahn!Listed(s) = {}
    PROVE  /\ Head(s) \in Node /\ Head(s) \in Kahn!Listed(s)
           /\ Tail(s) \o pushed \in Seq(Node)
           /\ Kahn!Listed(Tail(s) \o pushed) = (Kahn!Listed(s) \ {Head(s)}) \cup Kahn!Listed(pushed)
           /\ \A j, k \in DOMAIN (Tail(s) \o pushed) :
                j # k => (Tail(s) \o pushed)[j] # (Tail(s) \o pushed)[k]
<1> DEFINE c == Len(pushed)
           t == Tail(s) \o pushed
           n == Len(s) - 1
<1>1. c \in Nat /\ DOMAIN pushed = 1..c
  OBVIOUS
<1>2. /\ n \in Nat /\ Len(s) = n + 1 /\ DOMAIN s = 1..n + 1
      /\ Tail(s) \in Seq(Node) /\ Len(Tail(s)) = n
      /\ \A k \in 1..n : Tail(s)[k] = s[k + 1]
      /\ Head(s) = s[1] /\ Head(s) \in Node
  OBVIOUS
<1>3. /\ t \in Seq(Node) /\ DOMAIN t = 1..n + c
      /\ \A k \in 1..n : t[k] = s[k + 1]
      /\ \A k \in 1..c : t[n + k] = pushed[k]
  BY <1>1, <1>2
<1> HIDE DEF c, n, t
<1>4. /\ Kahn!Listed(s) = {s[k] : k \in 1..n + 1}
      /\ Kahn!Listed(pushed) = {pushed[k] : k \in 1..c}
      /\ Kahn!Listed(t) = {t[k] : k \in 1..n + c}
  BY <1>1, <1>2, <1>3 DEF Kahn!Listed
<1>5. Head(s) \in Kahn!Listed(s)
  BY <1>2, <1>4
<1>6. ASSUME NEW k \in 1..n
      PROVE  k + 1 \in DOMAIN s /\ t[k] = s[k + 1] /\ t[k] \in Kahn!Listed(s) \ {Head(s)}
  <2>1. k + 1 \in DOMAIN s /\ 1 \in DOMAIN s /\ k + 1 # 1
    BY <1>2
  <2>2. s[k + 1] # s[1]
    BY <2>1
  <2>3. t[k] = s[k + 1]
    BY <1>3
  <2> QED
    BY <2>1, <2>2, <2>3, <1>2 DEF Kahn!Listed
<1>7. ASSUME NEW k \in n + 1..n + c
      PROVE  k - n \in DOMAIN pushed /\ t[k] = pushed[k - n] /\ t[k] \in Kahn!Listed(pushed)
  <2>1. k - n \in 1..c /\ n + (k - n) = k
    BY <1>1, <1>2
  <2> QED
    BY <2>1, <1>3, <1>4, <1>1
<1>8. \A k \in DOMAIN t : k \in 1..n \/ k \in n + 1..n + c
  BY <1>1, <1>2, <1>3
<1>9. Kahn!Listed(t) = (Kahn!Listed(s) \ {Head(s)}) \cup Kahn!Listed(pushed)
  <2>1. \A x \in Kahn!Listed(t) : x \in (Kahn!Listed(s) \ {Head(s)}) \cup Kahn!Listed(pushed)
    BY <1>6, <1>7, <1>8 DEF Kahn!Listed
  <2>2. ASSUME NEW x \in Kahn!Listed(s), x # Head(s) PROVE x \in Kahn!Listed(t)
    <3>1. PICK k \in 1..n + 1 : s[k] = x
      BY <1>4
    <3>2. k # 1 /\ k - 1 \in 1..n /\ (k - 1) + 1 = k
      BY <3>1, <2>2, <1>2
    <3>3. t[k - 1] = x /\ k - 1 \in 1..n + c
      BY <3>1, <3>2, <1>3, <1>1, <1>2
    <3> QED
      BY <3>3, <1>4
  <2>3. ASSUME NEW x \in Kahn!Listed(pushed) PROVE x \in Kahn!Listed(t)
    <3>1. PICK k \in 1..c : pushed[k] = x
      BY <1>4
    <3>2. t[n + k] = x /\ n + k \in 1..n + c
      BY <3>1, <1>3, <1>1, <1>2
    <3> QED
      BY <3>2, <1>4
  <2> QED
    BY <2>1, <2>2, <2>3
<1>10. ASSUME NEW j \in DOMAIN t, NEW k \in DOMAIN t, j # k PROVE t[j] # t[k]
  <2>1. CASE j \in 1..n /\ k \in 1..n
    <3>1. j + 1 # k + 1
      BY <2>1, <1>10, <1>2
    <3> QED
      BY <3>1, <2>1, <1>6
  <2>2. CASE j \in n + 1..n + c /\ k \in n + 1..n + c
    <3>1. j - n # k - n
      BY <2>2, <1>10, <1>2, <1>1
    <3> QED
      BY <3>1, <2>2, <1>7
  <2>3. CASE j \in 1..n /\ k \in n + 1..n + c
    BY <2>3, <1>6, <1>7
  <2>4. CASE k \in 1..n /\ j \in n + 1..n + c
    BY <2>4, <1>6, <1>7
  <2> QED
    BY <2>1, <2>2, <2>3, <2>4, <1>8
<1> QED
  BY <1>2, <1>3, <1>5, <1>9, <1>10 DEF t

-----------------------------------------------------------------------------
LEMMA InitInv == Kahn!Init => KahnInv
<1> SUFFICES ASSUME Kahn!Init PROVE KahnInv
  OBVIOUS
<1>1. Kahn!Listed(<<>>) = {}
  BY DEF Kahn!Listed
<1> QED
  BY <1>1 DEF Kahn!Init, KahnInv, KahnTypeOK, NotStarted, CountersExact, QueueReady,
              OrderClosed, NobodyForgotten

\* The nodes that the first loop pushes are those without predecessors.
LEMMA ReadInputInv == ASSUME IsFiniteSet(Node), KahnInv, Kahn!ReadInput PROVE KahnInv'
<1> DEFINE S == {n \in Node : in_degree'[n] = 0}
<1>1. /\ phase = "read" /\ phase' = "order" /\ in_degree' = Kahn!InDegrees(edges')
      /\ q' \in Kahn!Listings(S) /\ order' = order
  BY DEF Kahn!ReadInput
<1>2. order = <<>> /\ Kahn!Listed(order') = {}
  BY <1>1 DEF KahnInv, NotStarted, Kahn!Listed
<1>3. ASSUME NEW y \in Node
      PROVE  /\ Kahn!Into(y)' = Awaited(y)' /\ in_degree'[y] = Cardinality(Awaited(y)')
             /\ in_degree'[y] \in Nat /\ (y \in S <=> Awaited(y)' = {})
  <2>1. Awaited(y)' = {x \in Node : <<x, y>> \in edges'} /\ Kahn!Into(y)' = Awaited(y)'
    BY <1>2 DEF Awaited, Kahn!Into
  <2>2. IsFiniteSet(Awaited(y)')
    BY <2>1, FS_Subset
  <2>3. Cardinality(Awaited(y)') \in Nat /\ (Cardinality(Awaited(y)') = 0 <=> Awaited(y)' = {})
    BY <2>2, FS_CardinalityType, FS_EmptySet
  <2>4. in_degree'[y] = Cardinality(Awaited(y)')
    BY <1>1, <2>1, SameCount DEF Kahn!InDegrees
  <2> QED
    BY <2>1, <2>3, <2>4
<1>4. /\ q' \in Seq(Node) /\ Kahn!Listed(q') = S
      /\ \A j, k \in DOMAIN q' : j # k => q'[j] # q'[k]
  BY <1>1, ListingLists
<1>5. KahnTypeOK'
  <2>1. in_degree' \in [Node -> Nat]
    BY <1>1, <1>3 DEF Kahn!InDegrees
  <2> QED
    BY <2>1, <1>1, <1>2, <1>4 DEF KahnTypeOK
<1>6. CountersExact' /\ NotStarted'
  BY <1>1, <1>3 DEF CountersExact, NotStarted
<1>7. QueueReady'
  BY <1>2, <1>3, <1>4 DEF QueueReady
<1>8. OrderClosed'
  BY <1>1, <1>2 DEF OrderClosed
<1>9. NobodyForgotten'
  BY <1>2, <1>3, <1>4 DEF NobodyForgotten
<1> QED
  BY <1>5, <1>6, <1>7, <1>8, <1>9 DEF KahnInv

\* Taking a node lowers the counter of exactly those that wait for it, and pushes
\* those that wait for nobody else.
LEMMA TakeNodeInv == ASSUME IsFiniteSet(Node), KahnInv, Kahn!TakeNode PROVE KahnInv'
<1> DEFINE node == Head(q)
           zero == {y \in Kahn!OutOf(node) : in_degree[y] = 1}
<1>1. /\ phase = "order" /\ phase' = "order" /\ q # <<>> /\ edges' = edges
      /\ order' = Append(order, node)
      /\ in_degree' = [y \in Node |-> IF y \in Kahn!OutOf(node) THEN in_degree[y] - 1 ELSE in_degree[y]]
  BY DEF Kahn!TakeNode
<1>2. PICK pushed \in Kahn!Listings(zero) : q' = Tail(q) \o pushed
  BY DEF Kahn!TakeNode
<1>3. q \in Seq(Node) /\ order \in Seq(Node) /\ in_degree \in [Node -> Nat]
  BY DEF KahnInv, KahnTypeOK
<1>4. node \in Node /\ node \in Kahn!Listed(q)
  BY <1>1, <1>3 DEF Kahn!Listed
<1>5. node \notin Kahn!Listed(order) /\ Awaited(node) = {}
  BY <1>4 DEF KahnInv, QueueReady
<1>6. /\ Kahn!Listed(order') = Kahn!Listed(order) \cup {node} /\ order' \in Seq(Node)
      /\ Len(order') = Len(order) + 1 /\ order'[Len(order) + 1] = node
      /\ \A k \in 1..Len(order) : order'[k] = order[k]
  BY <1>1, <1>3, <1>4, ListedAppend
<1> HIDE DEF node
<1>7. ASSUME NEW y
      PROVE  /\ Kahn!Into(y)' = Kahn!Into(y) /\ Awaited(y)' = Awaited(y) \ {node}
             /\ y \in Node => (y \in Kahn!OutOf(node) <=> node \in Awaited(y))
  <2>1. Kahn!Into(y)' = Kahn!Into(y)
    BY <1>1 DEF Kahn!Into
  <2>2. Awaited(y)' = Awaited(y) \ {node}
    BY <2>1, <1>6 DEF Awaited
  <2>3. y \in Node => (y \in Kahn!OutOf(node) <=> node \in Kahn!Into(y))
    BY <1>4 DEF Kahn!Into, Kahn!OutOf
  <2> QED
    BY <2>1, <2>2, <2>3, <1>5 DEF Awaited
<1>8. ASSUME NEW y \in Node
      PROVE  /\ in_degree'[y] = Cardinality(Awaited(y)') /\ in_degree'[y] \in Nat
             /\ y \in zero <=> Awaited(y) = {node}
  <2>1. IsFiniteSet(Awaited(y)) /\ in_degree[y] = Cardinality(Awaited(y)) /\ in_degree[y] \in Nat
    BY <1>1, <1>3, AwaitedFinite DEF KahnInv, CountersExact
  <2>2. CASE node \notin Awaited(y)
    BY <2>1, <2>2, <1>1, <1>7
  <2>3. CASE node \in Awaited(y)
    <3>1. /\ Cardinality(Awaited(y) \ {node}) = Cardinality(Awaited(y)) - 1
          /\ IsFiniteSet(Awaited(y) \ {node})
      BY <2>1, <2>3, FS_RemoveElement
    <3>2. /\ Cardinality(Awaited(y) \ {node}) \in Nat
          /\ Cardinality(Awaited(y) \ {node}) = 0 <=> Awaited(y) \ {node} = {}
      BY <3>1, FS_CardinalityType, FS_EmptySet
    <3>3. y \in Kahn!OutOf(node) /\ in_degree'[y] = in_degree[y] - 1
      BY <2>3, <1>1, <1>7
    <3>4. Awaited(y) \ {node} = {} <=> Awaited(y) = {node}
      BY <2>3
    <3>5. in_degree[y] = 1 <=> Cardinality(Awaited(y) \ {node}) = 0
      BY <2>1, <3>1, <3>2
    <3> QED
      BY <2>1, <3>1, <3>2, <3>3, <3>4, <3>5, <1>7
  <2> QED
    BY <2>2, <2>3
<1>9. zero \in SUBSET Node
  BY DEF Kahn!OutOf
<1>10. ASSUME NEW y \in Kahn!Listed(order) PROVE Awaited(y) = {}
  <2>1. PICK k \in DOMAIN order : order[k] = y
    BY DEF Kahn!Listed
  <2>2. \A x \in Kahn!Into(y) : \E j \in 1..k - 1 : order[j] = x
    BY <2>1 DEF KahnInv, OrderClosed
  <2>3. 1..k - 1 \subseteq DOMAIN order
    BY <1>3
  <2> QED
    BY <2>2, <2>3 DEF Awaited, Kahn!Listed
<1>11. zero \cap Kahn!Listed(q) = {} /\ zero \cap Kahn!Listed(order') = {}
  <2>1. \A y \in Kahn!Listed(q) : Awaited(y) = {}
    BY DEF KahnInv, QueueReady
  <2>2. \A y \in zero : Awaited(y) # {}
    BY <1>8, <1>9
  <2> QED
    BY <2>1, <2>2, <1>4, <1>6, <1>10
<1> HIDE DEF zero
<1>12. /\ pushed \in Seq(Node) /\ Kahn!Listed(pushed) = zero
       /\ \A j, k \in DOMAIN pushed : j # k => pushed[j] # pushed[k]
  BY <1>2, <1>9, ListingLists
<1>13. /\ q' \in Seq(Node) /\ Kahn!Listed(q') = (Kahn!Listed(q) \ {node}) \cup zero
       /\ \A j, k \in DOMAIN q' : j # k => q'[j] # q'[k]
  <2>1. \A j, k \in DOMAIN q : j # k => q[j] # q[k]
    BY DEF KahnInv, QueueReady
  <2>2. Kahn!Listed(pushed) \cap Kahn!Listed(q) = {}
    BY <1>11, <1>12
  <2>3. /\ Tail(q) \o pushed \in Seq(Node)
        /\ Kahn!Listed(Tail(q) \o pushed) = (Kahn!Listed(q) \ {Head(q)}) \cup Kahn!Listed(pushed)
        /\ \A j, k \in DOMAIN (Tail(q) \o pushed) :
             j # k => (Tail(q) \o pushed)[j] # (Tail(q) \o pushed)[k]
    BY <2>1, <2>2, <1>1, <1>3, <1>12, ListedPush
  <2> QED
    BY <2>3, <1>2, <1>12 DEF node
<1>14. KahnTypeOK'
  <2>1. in_degree' \in [Node -> Nat]
    BY <1>1, <1>8
  <2> QED
    BY <2>1, <1>1, <1>6, <1>13 DEF KahnTypeOK
<1>15. CountersExact' /\ NotStarted'
  BY <1>1, <1>8 DEF CountersExact, NotStarted
<1>16. QueueReady'
  <2>1. ASSUME NEW y \in Kahn!Listed(q') PROVE Awaited(y)' = {}
    <3>1. CASE y \in zero
      BY <3>1, <1>7, <1>8, <1>9
    <3>2. CASE y \in Kahn!Listed(q)
      BY <3>2, <1>7 DEF KahnInv, QueueReady
    <3> QED
      BY <3>1, <3>2, <1>13
  <2>2. Kahn!Listed(q') \cap Kahn!Listed(order') = {}
    BY <1>6, <1>11, <1>13 DEF KahnInv, QueueReady
  <2> QED
    BY <2>1, <2>2, <1>13 DEF QueueReady
<1>17. OrderClosed'
  <2>1. /\ Len(order) \in Nat /\ DOMAIN order = 1..Len(order)
        /\ DOMAIN order' = 1..Len(order) + 1
    BY <1>3, <1>6
  <2>2. ASSUME NEW k \in DOMAIN order', NEW x \in Kahn!Into(order[k])'
        PROVE  \E j \in 1..k - 1 : order'[j] = x
    <3>1. CASE k \in DOMAIN order
      <4>1. x \in Kahn!Into(order[k])
        BY <2>1, <2>2, <3>1, <1>1, <1>6 DEF Kahn!Into
      <4>2. PICK j \in 1..k - 1 : order[j] = x
        BY <3>1, <4>1 DEF KahnInv, OrderClosed
      <4> QED
        BY <3>1, <4>2, <2>1, <1>6
    <3>2. CASE k = Len(order) + 1
      <4>1. x \in Kahn!Into(node)
        BY <2>2, <3>2, <1>1, <1>6 DEF Kahn!Into
      <4>2. x \in Kahn!Listed(order)
        BY <4>1, <1>5 DEF Awaited
      <4>3. PICK j \in 1..Len(order) : order[j] = x
        BY <4>2, <2>1 DEF Kahn!Listed
      <4> QED
        BY <3>2, <4>3, <2>1, <1>6
    <3> QED
      BY <3>1, <3>2, <2>1
  <2>3. ASSUME NEW j \in DOMAIN order', NEW k \in DOMAIN order', j # k
        PROVE  order'[j] # order'[k]
    <3>1. \A i1 \in DOMAIN order : order[i1] # node
      BY <1>5 DEF Kahn!Listed
    <3>2. CASE j \in DOMAIN order /\ k \in DOMAIN order
      <4>1. order[j] # order[k]
        BY <3>2, <2>3 DEF KahnInv, OrderClosed
      <4> QED
        BY <4>1, <3>2, <2>1, <1>6
    <3>3. CASE j \in DOMAIN order /\ k = Len(order) + 1
      BY <3>1, <3>3, <2>1, <1>6
    <3>4. CASE k \in DOMAIN order /\ j = Len(order) + 1
      BY <3>1, <3>4, <2>1, <1>6
    <3> QED
      BY <3>2, <3>3, <3>4, <2>1, <2>3
  <2> QED
    BY <2>2, <2>3 DEF OrderClosed
<1>18. NobodyForgotten'
  <2> SUFFICES ASSUME NEW y \in Node, Kahn!Into(y)' \subseteq Kahn!Listed(order')
               PROVE  y \in Kahn!Listed(order') \cup Kahn!Listed(q')
    BY DEF NobodyForgotten
  <2>1. CASE Kahn!Into(y) \subseteq Kahn!Listed(order)
    <3>1. y \in Kahn!Listed(order) \cup Kahn!Listed(q)
      BY <2>1, <1>1 DEF KahnInv, NobodyForgotten
    <3> QED
      BY <3>1, <1>6, <1>13
  <2>2. CASE ~(Kahn!Into(y) \subseteq Kahn!Listed(order))
    <3>1. Awaited(y) = {node}
      BY <2>2, <1>6, <1>7 DEF Awaited
    <3> QED
      BY <3>1, <1>8, <1>13
  <2> QED
    BY <2>1, <2>2
<1> QED
  BY <1>14, <1>15, <1>16, <1>17, <1>18 DEF KahnInv

\* The recurrence leaves the order alone.
LEMMA CostsInv == ASSUME KahnInv, Kahn!StartCosts \/ Kahn!CostStep \/ Kahn!Finish \/ UNCHANGED Kahn!vars PROVE KahnInv'
<1>1. /\ UNCHANGED <<edges, in_degree, q, order>>
      /\ \/ phase' = phase
         \/ phase # "read" /\ phase' \in {"order", "costs", "done"}
  BY DEF Kahn!StartCosts, Kahn!CostStep, Kahn!Finish, Kahn!vars
<1>2. \A y : Awaited(y)' = Awaited(y) /\ Kahn!Into(y)' = Kahn!Into(y)
  BY <1>1 DEF Awaited, Kahn!Into
<1>3. KahnTypeOK' /\ NotStarted'
  BY <1>1 DEF KahnInv, KahnTypeOK, NotStarted
<1>4. CountersExact' /\ NobodyForgotten'
  BY <1>1, <1>2 DEF KahnInv, CountersExact, NobodyForgotten
<1>5. QueueReady' /\ OrderClosed'
  BY <1>1, <1>2 DEF KahnInv, QueueReady, OrderClosed
<1> QED
  BY <1>3, <1>4, <1>5 DEF KahnInv

\* For every finite graph, with cycles or without, and whatever order nodes enter
\* the queue in: no edge leads back in the order, no node is in it twice, and a
\* node whose predecessors have all been taken has been taken or is queued
\* (numarare.cpp:39-62, trenuri.cpp:52-75).
THEOREM KahnOrders == ASSUME IsFiniteSet(Node) PROVE Kahn!Spec => []Kahn!OrderIsTopological
<1>1. KahnInv /\ [Kahn!Next]_Kahn!vars => KahnInv'
  BY ReadInputInv, TakeNodeInv, CostsInv DEF Kahn!Next
<1>2. KahnInv => Kahn!OrderIsTopological
  <2> SUFFICES ASSUME KahnInv PROVE Kahn!OrderIsTopological
    OBVIOUS
  <2>1. ASSUME NEW j \in DOMAIN order, NEW k \in DOMAIN order, <<order[j], order[k]>> \in edges
        PROVE  j < k
    <3>1. order \in Seq(Node) /\ order[j] \in Node /\ DOMAIN order = 1..Len(order) /\ Len(order) \in Nat
      BY DEF KahnInv, KahnTypeOK
    <3>2. order[j] \in Kahn!Into(order[k])
      BY <2>1, <3>1 DEF Kahn!Into
    <3>3. PICK i1 \in 1..k - 1 : order[i1] = order[j]
      BY <3>2 DEF KahnInv, OrderClosed
    <3>4. i1 = j
      BY <3>1, <3>3 DEF KahnInv, OrderClosed
    <3> QED
      BY <3>1, <3>3, <3>4
  <2> QED
    BY <2>1 DEF KahnInv, OrderClosed, NobodyForgotten, Kahn!OrderIsTopological
<1> QED
  BY <1>1, <1>2, InitInv, PTL DEF Kahn!Spec
=============================================================================
