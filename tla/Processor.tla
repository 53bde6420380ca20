----------------------------- MODULE Processor ------------------------------
(***************************************************************************)
(* The Processor of PCLP4-process-scheduler (processor/src/lib.rs): every  *)
(* simulated process is a thread, and the threads take turns.  A thread    *)
(* that has used its timeslice, or makes a system call, calls stop() and   *)
(* next() of the scheduler, announces in current_process whom the          *)
(* scheduler chose, and suspends itself on a condition variable until it   *)
(* is chosen again.  When the scheduler gives up, the processor stops      *)
(* running: all the threads go on, at once, without it.                    *)
(*                                                                         *)
(* The scheduler is any one that keeps the promises of Scheduling; the     *)
(* thread that calls Processor::run is number 0.  No action splits where a *)
(* thread holds a mutex that the others need to see the difference.        *)
(***************************************************************************)
EXTENDS Integers

CONSTANTS
    Pids, Durations, Events, NoEvent, MaxSlice,     \* those of Scheduling
    Budget,     \* bound: from this time on, the processes only exit
    Word        \* the number of values of a usize

ASSUME ProcessorAssumption ==
    /\ 1 \in Pids /\ Pids \subseteq Nat \ {0}
    /\ Durations \subseteq Nat
    /\ MaxSlice \in Nat \ {0}
    /\ Word \in Nat /\ Word > MaxSlice

VARIABLES
    proc, clock, verdict,       \* the scheduler
    running, current_process,   \* current_process = 0: None
    remaining,
    at,         \* where each thread is
    reason,     \* the stop reason that a thread has for the scheduler
    child       \* the pid that a thread got from Fork, until it spawns the child

INSTANCE Scheduling

simulated == <<proc, clock, verdict>>
vars == <<simulated, running, current_process, remaining, at, reason, child>>

Main == 0
Threads == {Main} \cup Pids
Syscall(kind) == [kind |-> kind, arg |-> 0]
Reasons ==
    {Syscall("Fork"), Syscall("Exit")}
        \cup {[kind |-> "Sleep", arg |-> d] : d \in Durations}
        \cup {[kind |-> k, arg |-> e] : k \in {"Wait", "Signal"}, e \in Events}
Expired == Syscall("Expired")
NoReason == Syscall("None")

\* fetch_sub(1) wraps around.
Less(n) == (n - 1) % Word

Init ==
    /\ SchedInit
    /\ running = TRUE /\ current_process = 0
    /\ remaining = 1
    /\ at = [t \in Threads |-> IF t = Main THEN "calls" ELSE "unborn"]
    /\ reason = [t \in Threads |-> IF t = Main THEN Syscall("Fork") ELSE NoReason]
    /\ child = [t \in Threads |-> 0]

-----------------------------------------------------------------------------
(* The code of a process: it executes and makes system calls, and exits in *)
(* the end.                                                                *)

\* is_running() and fetch_sub of scheduler(), for reason r.
Enter(t, r) ==
    /\ running
    /\ remaining' = Less(remaining)
    /\ at' = [at EXCEPT ![t] = "calls"]
    /\ reason' = [reason EXCEPT ![t] = r]

\* When the last unit of the slice is used, exec() calls the scheduler.
Exec(t) ==
    /\ at[t] = "user"
    /\ running /\ clock < Budget
    /\ IF Less(remaining) # 0
       THEN remaining' = Less(remaining) /\ UNCHANGED <<at, reason>>
       ELSE /\ remaining' = Less(0)
            /\ at' = [at EXCEPT ![t] = "calls"]
            /\ reason' = [reason EXCEPT ![t] = Expired]
    /\ UNCHANGED <<simulated, running, current_process, child>>

Ask(t, r) ==
    /\ at[t] = "user"
    /\ r.kind = "Exit" \/ clock < Budget
    /\ r.kind = "Fork" => In("Unborn") # {}
    /\ Enter(t, r)
    /\ UNCHANGED <<simulated, running, current_process, child>>

\* Without a scheduler, fork() panics, exit() ends the thread, and the other
\* calls do nothing.
AskNobody(t, r) ==
    /\ at[t] = "user"
    /\ ~running
    /\ r.kind \in {"Exit", "Fork"}
    /\ at' = [at EXCEPT ![t] = IF r.kind = "Exit" THEN "ended" ELSE "panicked"]
    /\ UNCHANGED <<simulated, running, current_process, remaining, reason, child>>

-----------------------------------------------------------------------------
(* scheduler(), by the thread that holds its mutex.                        *)

Deciders == {t \in Threads : at[t] = "decides"}

\* The time at which a thread stops, with what remains of its slice.
Now(t) == proc[t].until - remaining

StopFor(t) ==
    LET r == reason[t]
    IN  IF t = Main THEN Boot
        ELSE \/ r.kind = "Fork" /\ Fork(t, Now(t))
             \/ r.kind = "Sleep" /\ Sleep(t, Now(t), r.arg)
             \/ r.kind = "Wait" /\ Wait(t, Now(t), r.arg)
             \/ r.kind = "Signal" /\ Signal(t, Now(t), r.arg)
             \/ r.kind = "Exit" /\ Exit(t, Now(t))
             \/ r.kind = "Expired" /\ Expire(t)

\* The result of a Fork is the pid of the new process.
Created == CHOOSE p \in Pids : proc[p].is = "Unborn" /\ proc'[p].is # "Unborn"

CallStop(t) ==
    /\ at[t] = "calls"
    /\ Deciders = {}
    /\ StopFor(t)
    /\ current_process' = 0
    /\ at' = [at EXCEPT ![t] = "decides"]
    /\ child' = [child EXCEPT ![t] = IF reason[t].kind = "Fork" THEN Created ELSE 0]
    /\ UNCHANGED <<running, remaining, reason>>

\* A bug: a process that forks does not spawn the child's thread.
After_NoThread(t) ==
    CASE reason[t].kind = "Fork" /\ t = Main -> "spawns"
      [] reason[t].kind = "Exit" -> "ended"
      [] OTHER -> "suspends"

\* Where a thread goes on with what stop() returned.
After(t) ==
    CASE reason[t].kind = "Fork" -> "spawns"
      [] reason[t].kind = "Exit" -> "ended"
      [] OTHER -> "suspends"

\* A bug: one thread is notified, whichever it is.
LeaveAndNotifyOne(t) ==
    /\ LET woken == CHOOSE s \in Threads : at[s] = "waits" \/ \A r \in Threads : at[r] # "waits"
       IN  at' = [s \in Threads |->
                     IF s = t THEN After(t)
                     ELSE IF at[s] = "waits" /\ s = woken THEN "suspends" ELSE at[s]]
    /\ reason' = [reason EXCEPT ![t] = NoReason]
\* Thread t has left the loop, and all the waiting threads are notified.
LeaveAndNotifyAll(t) ==
    /\ at' = [s \in Threads |->
                 IF s = t THEN After(t) ELSE IF at[s] = "waits" THEN "suspends" ELSE at[s]]
    /\ reason' = [reason EXCEPT ![t] = NoReason]

CallNextRun(t) ==
    /\ at[t] = "decides"
    /\ \E p \in Pids, slice \in 1 .. MaxSlice :
           /\ \E now \in {clock} \cup {proc[q].until : q \in In("Asleep")} : Dispatch(p, now, slice)
           /\ current_process' = p
           /\ remaining' = slice
    /\ LeaveAndNotifyAll(t)
    /\ UNCHANGED <<running, child>>

CallNextSleep(t) ==
    /\ at[t] = "decides"
    /\ \E q \in In("Asleep") : \E now \in clock .. proc[q].until : Doze(now)
    /\ UNCHANGED <<running, current_process, remaining, at, reason, child>>

\* Deadlock, Panic, Done: stop().
CallNextGivesUp(t) ==
    /\ at[t] = "decides"
    /\ Deciding
    /\ \E v \in {"Deadlock", "Panic", "Done"} : GiveUp(v)
    /\ running' = FALSE
    /\ LeaveAndNotifyAll(t)
    /\ UNCHANGED <<current_process, remaining, child>>

-----------------------------------------------------------------------------

\* A bug: the process goes on once it has spawned the child.
Spawn_GoesOn(t) ==
    /\ at[t] = "spawns"
    /\ at' = [at EXCEPT ![child[t]] = "suspends", ![t] = IF t = Main THEN "joins" ELSE "user"]
    /\ child' = [child EXCEPT ![t] = 0]
    /\ UNCHANGED <<simulated, running, current_process, remaining, reason>>

\* The thread of a new process starts by suspending itself.  Thread 0 waits for
\* that of process 1.
Spawn(t) ==
    /\ at[t] = "spawns"
    /\ at' = [at EXCEPT ![child[t]] = "suspends", ![t] = IF t = Main THEN "joins" ELSE "suspends"]
    /\ child' = [child EXCEPT ![t] = 0]
    /\ UNCHANGED <<simulated, running, current_process, remaining, reason>>

\* suspend(): a thread checks whether it may go on while it has the mutex of
\* current_process, which wait() gives back.
Suspend(t) ==
    /\ at[t] = "suspends"
    /\ Deciders = {}
    /\ at' = [at EXCEPT ![t] = IF running /\ current_process # t THEN "waits" ELSE "user"]
    /\ UNCHANGED <<simulated, running, current_process, remaining, reason, child>>

\* join().unwrap() panics with the thread it joins.
Join ==
    /\ at[Main] = "joins"
    /\ at[1] \in {"ended", "panicked"}
    /\ at' = [at EXCEPT ![Main] = at[1]]
    /\ UNCHANGED <<simulated, running, current_process, remaining, reason, child>>

Step(t) ==
    \/ Exec(t)
    \/ \E r \in Reasons : Ask(t, r) \/ AskNobody(t, r)
    \/ CallStop(t)
    \/ CallNextRun(t) \/ CallNextSleep(t) \/ CallNextGivesUp(t)
    \/ Spawn(t)
    \/ Suspend(t)

Next == Join \/ \E t \in Threads : Step(t)

Spec == Init /\ [][Next]_vars

\* The operating system runs every thread that can run.
FairSpec == Spec /\ WF_vars(Join) /\ \A t \in Threads : WF_vars(Step(t))

-----------------------------------------------------------------------------

\* While the processor runs, one process at most is out of suspend(), as if
\* there were one processor: the one that was chosen last, which the scheduler
\* believes to be running; and what it has left of its slice is what the
\* processor counts (lib.rs:208-270, 298-307).
RunsAlone ==
    running => \A t \in Pids : at[t] \in {"user", "calls"} =>
        /\ current_process = t
        /\ Deciders = {}
        /\ proc[t].is = "Running"
        /\ at[t] = "user" => Now(t) \in clock .. proc[t].until - 1
        /\ at[t] = "calls" /\ reason[t] # Expired => Now(t) \in clock + 1 .. proc[t].until

\* Every process that the scheduler knows has one thread, or a thread about to
\* spawn it; a thread that has not ended is that of a process that has not
\* exited (lib.rs:320-345, 377-381).
ThreadPerProcess ==
    LET spawners(p) == {t \in Threads : child[t] = p}
    IN  \A p \in Pids :
            /\ p \in Live => (at[p] = "unborn") = (\E t \in Threads : spawners(p) = {t})
            /\ p \notin Live => spawners(p) = {} /\ at[p] \in {"unborn", "decides", "ended"}

\* Processor::run returns or panics, and in the end no thread is left waiting
\* for its turn (lib.rs:281-284: stop() releases them all).
EveryThreadEnds ==
    <>[](\A t \in Threads : at[t] \in {"ended", "panicked"} \/ (t \in Pids /\ at[t] = "unborn"))
=============================================================================
