----------------------------- MODULE ThreadPool -----------------------------
(***************************************************************************)
(* The task pool of SO-parallel-graph (os_threadpool.c): a FIFO of tasks,  *)
(* the mutex queue_lock, the condition variable queue_not_empty, and the   *)
(* loop every worker thread runs.  What a task does belongs to the client: *)
(* a worker that has taken a task is at "visit", and the client's actions  *)
(* bring it back to "loop".                                                *)
(*                                                                         *)
(* pc[w] says where worker w is:                                           *)
(*   "loop"     before the unlocked test of status in thread_loop_function *)
(*   "enter"    at the pthread_mutex_lock of dequeue_task                  *)
(*   "toWait"   holds queue_lock, found the queue empty, will wait         *)
(*   "waiting"  in pthread_cond_wait, not signalled                        *)
(*   "woken"    in pthread_cond_wait, signalled, wants queue_lock back     *)
(*   "take"     holds queue_lock, found the queue not empty                *)
(*   "exited"   returned from the thread function                          *)
(* Any other value is a position inside the task's own code.               *)
(***************************************************************************)
EXTENDS Integers, Sequences, FiniteSets

CONSTANTS
    Workers,    \* the threads create_threadpool starts
    Main,       \* the thread that owns the pool and joins the workers
    Tasks       \* what a task is told apart by: its argument

ASSUME PoolAssumption ==
    /\ IsFiniteSet(Workers)
    /\ Workers # {}
    /\ Main \notin Workers

VARIABLES
    status,         \* os_threadpool_t.status
    idle_threads,   \* os_threadpool_t.idle_threads
    queue,          \* the list at os_threadpool_t.head, oldest task first
    pc,             \* where each thread is
    arg             \* the argument of the task a thread is running

poolVars == <<status, idle_threads, queue, pc, arg>>

Threads == Workers \cup {Main}
Status == {"NOT_STARTED", "STARTED", "FINISHED"}

\* Only a worker inside dequeue_task keeps queue_lock from one step to the next.
QueueLockFree == \A w \in Workers : pc[w] \notin {"toWait", "take"}

Waiting == {w \in Workers : pc[w] = "waiting"}

\* The workers idle_threads is meant to count: between lines 88 and 96.
Idling == {w \in Workers : pc[w] \in {"toWait", "waiting", "woken", "take"}}

-----------------------------------------------------------------------------
(* The condition variable: who a signal and a broadcast wake. *)

Signalled(at) ==
    IF Waiting = {} THEN {at}
                    ELSE {[at EXCEPT ![w] = "woken"] : w \in Waiting}

Broadcasted(at) ==
    [th \in Threads |-> IF th \in Waiting THEN "woken" ELSE at[th]]

-----------------------------------------------------------------------------
(* enqueue_task, called by thread th, which goes on at `after`. *)

EnqueueTask(th, t, after) ==
    /\ QueueLockFree
    /\ status' = IF status = "NOT_STARTED" THEN "STARTED" ELSE status
    /\ pc' \in Signalled([pc EXCEPT ![th] = after])
    /\ queue' = Append(queue, t)
    /\ UNCHANGED idle_threads

-----------------------------------------------------------------------------
(* thread_loop_function reads status without the lock. *)

CheckStatus(w) ==
    /\ pc[w] = "loop"
    /\ pc' = [pc EXCEPT ![w] = IF status = "FINISHED" THEN "exited" ELSE "enter"]
    /\ UNCHANGED <<status, idle_threads, queue, arg>>

(* dequeue_task, up to the wait or to the removal of a task. *)

\* (Mutants) The test of line 81 without the queue; one idle worker too few.
LastActive_IgnoresQueue ==
    idle_threads = Cardinality(Workers) - 1 /\ status = "STARTED"
LastActive_OffByOne ==
    idle_threads >= Cardinality(Workers) - 2 /\ status = "STARTED" /\ queue = <<>>

LastActive ==
    /\ idle_threads = Cardinality(Workers) - 1
    /\ status = "STARTED"
    /\ queue = <<>>

\* (Mutant) The end is announced to one waiter only.
FinishWork_SignalsOne(w) ==
    /\ pc[w] = "enter"
    /\ QueueLockFree
    /\ LastActive
    /\ status' = "FINISHED"
    /\ pc' \in Signalled([pc EXCEPT ![w] = "exited"])
    /\ UNCHANGED <<idle_threads, queue, arg>>

FinishWork(w) ==
    /\ pc[w] = "enter"
    /\ QueueLockFree
    /\ LastActive
    /\ status' = "FINISHED"
    /\ pc' = Broadcasted([pc EXCEPT ![w] = "exited"])
    /\ UNCHANGED <<idle_threads, queue, arg>>

EnterDequeue(w) ==
    /\ pc[w] = "enter"
    /\ QueueLockFree
    /\ ~LastActive
    /\ idle_threads' = idle_threads + 1
    /\ pc' = [pc EXCEPT ![w] = IF queue = <<>> THEN "toWait" ELSE "take"]
    /\ UNCHANGED <<status, queue, arg>>

\* pthread_cond_wait gives the lock up and starts waiting in one step.
Wait(w) ==
    /\ pc[w] = "toWait"
    /\ pc' = [pc EXCEPT ![w] = "waiting"]
    /\ UNCHANGED <<status, idle_threads, queue, arg>>

\* POSIX lets pthread_cond_wait return without a signal.
SpuriousWakeup(w) ==
    /\ pc[w] = "waiting"
    /\ pc' = [pc EXCEPT ![w] = "woken"]
    /\ UNCHANGED <<status, idle_threads, queue, arg>>

\* Lines 91-94: the return does not undo idle_threads++.
WakeFinished(w) ==
    /\ pc[w] = "woken"
    /\ QueueLockFree
    /\ status = "FINISHED"
    /\ pc' = [pc EXCEPT ![w] = "exited"]
    /\ UNCHANGED <<status, idle_threads, queue, arg>>

WakeRetest(w) ==
    /\ pc[w] = "woken"
    /\ QueueLockFree
    /\ status # "FINISHED"
    /\ pc' = [pc EXCEPT ![w] = IF queue = <<>> THEN "toWait" ELSE "take"]
    /\ UNCHANGED <<status, idle_threads, queue, arg>>

(* The end of dequeue_task: lines 96-110. *)

TakeTask(w) ==
    /\ pc[w] = "take"
    /\ idle_threads' = idle_threads - 1
    /\ IF status = "FINISHED"
       THEN /\ pc' = [pc EXCEPT ![w] = "exited"]
            /\ UNCHANGED <<queue, arg>>
       ELSE /\ pc' = [pc EXCEPT ![w] = "visit"]
            /\ arg' = [arg EXCEPT ![w] = Head(queue)]
            /\ queue' = Tail(queue)
    /\ UNCHANGED status

\* What a worker does on its own between two tasks.
WorkerStep(w) ==
    \/ CheckStatus(w)
    \/ FinishWork(w)
    \/ EnterDequeue(w)
    \/ Wait(w)
    \/ WakeFinished(w)
    \/ WakeRetest(w)
    \/ TakeTask(w)

-----------------------------------------------------------------------------
(* The owner's side: wait_for_completion and destroy_threadpool. *)

JoinWorkers(after) ==
    /\ \A w \in Workers : pc[w] = "exited"
    /\ pc' = [pc EXCEPT ![Main] = after]
    /\ UNCHANGED <<status, idle_threads, queue, arg>>

\* Whatever is still queued is freed without being run.
DestroyThreadpool(after) ==
    /\ queue' = <<>>
    /\ pc' = [pc EXCEPT ![Main] = after]
    /\ UNCHANGED <<status, idle_threads, arg>>
=============================================================================
