--------------------------- MODULE ParallelGraph ----------------------------
(***************************************************************************)
(* SO-parallel-graph (parallel.c): the sum of the values of the nodes that *)
(* can be reached from node 0, by main and the workers of a ThreadPool.    *)
(* A task's argument is the index of the node to process.                  *)
(*                                                                         *)
(* Inside process_node, pc[th] is                                          *)
(*   "visit"      before the critical section under sum_lock               *)
(*   "declare"    at the unlocked tp->status = FINISHED                    *)
(*   "broadcast"  at the unlocked pthread_cond_broadcast                   *)
(*   "scan"       at the head of the loop over the neighbours              *)
(*   "enqueue"    the neighbour is marked, its task not queued yet         *)
(* and main goes on to "join", "destroy" and "done".                       *)
(***************************************************************************)
EXTENDS ThreadPool

CONSTANTS
    Root,       \* node 0
    Graphs      \* the graphs the input file may hold

Node == Tasks

ASSUME GraphAssumption ==
    /\ Root \in Node
    /\ Graphs \subseteq [info : [Node -> Int], neighbours : [Node -> Seq(Node)]]

VARIABLES
    graph,      \* graph->nodes: the values and the adjacency lists
    visited,    \* graph->visited
    sum,        \* the static sum
    cursor      \* the i of each thread's loop over neighbours, from 1

vars == <<poolVars, graph, visited, sum, cursor>>

Degree(n) == Len(graph.neighbours[n])
Target(th) == graph.neighbours[arg[th]][cursor[th]]

Init ==
    /\ status = "NOT_STARTED"
    /\ idle_threads = 0
    /\ queue = <<>>
    /\ pc = [th \in Threads |-> IF th = Main THEN "visit" ELSE "loop"]
    /\ arg = [th \in Threads |-> Root]
    /\ graph \in Graphs
    /\ visited = [n \in Node |-> "NOT_VISITED"]
    /\ sum = 0
    /\ cursor = [th \in Threads |-> 1]

-----------------------------------------------------------------------------
(* process_node *)

Visit(th) ==
    /\ pc[th] = "visit"
    /\ sum' = sum + graph.info[arg[th]]
    /\ visited' = [visited EXCEPT ![arg[th]] = "DONE"]
    /\ cursor' = [cursor EXCEPT ![th] = 1]
    /\ pc' = [pc EXCEPT ![th] = IF arg[th] = Root /\ Degree(Root) = 0
                                THEN "declare" ELSE "scan"]
    /\ UNCHANGED <<status, idle_threads, queue, arg, graph>>

\* An isolated root: FINISHED is written and announced without queue_lock.
DeclareFinished(th) ==
    /\ pc[th] = "declare"
    /\ status' = "FINISHED"
    /\ pc' = [pc EXCEPT ![th] = "broadcast"]
    /\ UNCHANGED <<idle_threads, queue, arg, graph, visited, sum, cursor>>

BroadcastFinished(th) ==
    /\ pc[th] = "broadcast"
    /\ pc' = Broadcasted([pc EXCEPT ![th] = "scan"])
    /\ UNCHANGED <<status, idle_threads, queue, arg, graph, visited, sum, cursor>>

\* (Mutant) The test lets a node through that is marked and not yet DONE.
MarkNeighbour_NotDone(th) ==
    /\ pc[th] = "scan"
    /\ cursor[th] <= Degree(arg[th])
    /\ visited[Target(th)] # "DONE"
    /\ visited' = [visited EXCEPT ![Target(th)] = "PROCESSING"]
    /\ pc' = [pc EXCEPT ![th] = "enqueue"]
    /\ UNCHANGED <<status, idle_threads, queue, arg, graph, sum, cursor>>

MarkNeighbour(th) ==
    /\ pc[th] = "scan"
    /\ cursor[th] <= Degree(arg[th])
    /\ visited[Target(th)] = "NOT_VISITED"
    /\ visited' = [visited EXCEPT ![Target(th)] = "PROCESSING"]
    /\ pc' = [pc EXCEPT ![th] = "enqueue"]
    /\ UNCHANGED <<status, idle_threads, queue, arg, graph, sum, cursor>>

SkipNeighbour(th) ==
    /\ pc[th] = "scan"
    /\ cursor[th] <= Degree(arg[th])
    /\ visited[Target(th)] # "NOT_VISITED"
    /\ cursor' = [cursor EXCEPT ![th] = @ + 1]
    /\ UNCHANGED <<poolVars, graph, visited, sum>>

EnqueueNeighbour(th) ==
    /\ pc[th] = "enqueue"
    /\ EnqueueTask(th, Target(th), "scan")
    /\ cursor' = [cursor EXCEPT ![th] = @ + 1]
    /\ UNCHANGED <<arg, graph, visited, sum>>

\* Back to thread_loop_function, or to wait_for_completion in main.
Return(th) ==
    /\ pc[th] = "scan"
    /\ cursor[th] > Degree(arg[th])
    /\ pc' = [pc EXCEPT ![th] = IF th = Main THEN "join" ELSE "loop"]
    /\ UNCHANGED <<status, idle_threads, queue, arg, graph, visited, sum, cursor>>

ProcessNode(th) ==
    \/ Visit(th)
    \/ DeclareFinished(th)
    \/ BroadcastFinished(th)
    \/ MarkNeighbour(th)
    \/ SkipNeighbour(th)
    \/ EnqueueNeighbour(th)
    \/ Return(th)

-----------------------------------------------------------------------------
(* The workers between two tasks, and the end of main. *)

Worker(w) == WorkerStep(w) /\ UNCHANGED <<graph, visited, sum, cursor>>

Spurious(w) == SpuriousWakeup(w) /\ UNCHANGED <<graph, visited, sum, cursor>>

WaitForCompletion ==
    /\ pc[Main] = "join"
    /\ JoinWorkers("destroy")
    /\ UNCHANGED <<graph, visited, sum, cursor>>

Destroy ==
    /\ pc[Main] = "destroy"
    /\ DestroyThreadpool("done")
    /\ UNCHANGED <<graph, visited, sum, cursor>>

\* main has printed the sum and returned: nothing happens any more.
Terminated == pc[Main] = "done" /\ UNCHANGED vars

Next ==
    \/ \E th \in Threads : ProcessNode(th)
    \/ \E w \in Workers : Worker(w) \/ Spurious(w)
    \/ WaitForCompletion
    \/ Destroy
    \/ Terminated

Spec == Init /\ [][Next]_vars

\* Every thread that can run does; a thread that contends for queue_lock gets
\* it in the end.  Nothing is assumed of spurious wakeups.
Fairness ==
    /\ \A th \in Threads : SF_vars(ProcessNode(th))
    /\ \A w \in Workers : SF_vars(Worker(w))
    /\ WF_vars(WaitForCompletion)
    /\ WF_vars(Destroy)

FairSpec == Spec /\ Fairness

-----------------------------------------------------------------------------
(* Properties *)

Processing == {"visit", "declare", "broadcast", "scan", "enqueue"}
InPool == {"loop", "enter", "toWait", "waiting", "woken", "take", "exited"}
MainOnly == {"join", "destroy", "done"}

\* The type of every variable, and which positions main and a worker can be at.
TypeOK ==
    /\ status \in Status
    /\ idle_threads \in Int
    /\ queue \in Seq(Node)
    /\ pc \in [Threads -> Processing \cup InPool \cup MainOnly]
    /\ pc[Main] \in Processing \cup MainOnly
    /\ \A w \in Workers : pc[w] \in {"visit", "scan", "enqueue"} \cup InPool
    /\ arg \in [Threads -> Node]
    /\ graph \in Graphs
    /\ visited \in [Node -> {"NOT_VISITED", "PROCESSING", "DONE"}]
    /\ sum \in Int
    /\ cursor \in [Threads -> Nat \ {0}]

\* A thread that has been given node n to process, or has marked n and not
\* yet queued it, carries n.
Carries(th, n) ==
    \/ pc[th] = "visit" /\ th \in Workers /\ arg[th] = n
    \/ pc[th] = "enqueue" /\ Target(th) = n

Queued(k, n) == k \in DOMAIN queue /\ queue[k] = n

\* Until main frees the pool, a node is marked PROCESSING exactly when it is in
\* one place: at one position of the queue or carried by one thread.  The
\* test-and-set under graph_mutex and the hand-over through the queue neither
\* lose a node nor double it.
MarkedNodeIsInOnePlace ==
    pc[Main] # "done" =>
        \A n \in Node :
            /\ visited[n] = "PROCESSING" <=>
                   \/ \E th \in Threads : Carries(th, n)
                   \/ \E k \in DOMAIN queue : Queued(k, n)
            /\ \A t1, t2 \in Threads : Carries(t1, n) /\ Carries(t2, n) => t1 = t2
            /\ \A k1, k2 \in DOMAIN queue : Queued(k1, n) /\ Queued(k2, n) => k1 = k2
            /\ \A th \in Threads, k \in DOMAIN queue : ~(Carries(th, n) /\ Queued(k, n))

\* idle_threads counts the workers between lines 88 and 96 until the pool is
\* FINISHED, and stays within 0 .. num_threads afterwards although the early
\* return of lines 91-94 does not undo the increment.
IdleThreadsCounted ==
    /\ status # "FINISHED" => idle_threads = Cardinality(Idling)
    /\ idle_threads \in Cardinality(Idling) .. Cardinality(Workers)

\* When a worker has declared the pool FINISHED, every worker is on its way
\* out: none has a task in hand, and none will take another one.
FinishedMeansQuiescent ==
    status = "FINISHED" /\ Degree(Root) > 0 =>
        \A w \in Workers : pc[w] \in {"woken", "exited"}

Marked(n) == visited[n] # "NOT_VISITED"

\* What the workers have begun is complete when the pool is FINISHED: the only
\* nodes that can miss from the sum are those main itself has still to hand
\* over, and what can be reached only through them.
OnlyMainsTasksAreLost ==
    status = "FINISHED" =>
        /\ \A n \in Node : visited[n] = "PROCESSING" =>
               \E k \in DOMAIN graph.neighbours[Root] : graph.neighbours[Root][k] = n
        /\ \A m \in Node \ {Root} : visited[m] = "DONE" =>
               \A k \in DOMAIN graph.neighbours[m] : Marked(graph.neighbours[m][k])

\* The nodes a traversal from Root has to visit.
Closed(S) ==
    \A m \in S : \A k \in DOMAIN graph.neighbours[m] : graph.neighbours[m][k] \in S
Reachable == {n \in Node : \A S \in SUBSET Node : Root \in S /\ Closed(S) => n \in S}

\* main has one task to hand over, or the same one several times.
SingleStart(g) ==
    \E s \in Node : \A k \in DOMAIN g.neighbours[Root] : g.neighbours[Root][k] \in {Root, s}

\* When main has at most one task to hand over, the sum it prints is taken over
\* everything that can be reached from node 0: once a worker runs, main has
\* nothing to add, so FINISHED comes when all is done.
PrintedSumIsComplete ==
    pc[Main] = "done" /\ SingleStart(graph) =>
        {n \in Node : visited[n] = "DONE"} = Reachable

\* os_threadpool.c:64-69 on dequeue_task: "Return NULL if work is complete,
\* i.e. no task will become available".
NullOnlyWhenComplete ==
    (\E w \in Workers : pc[w] = "exited") =>
        queue = <<>> /\ \A th \in Threads : pc[th] # "enqueue"

\* The sum, the set of DONE nodes and main's end implement the traversal: no
\* node is added twice, none is visited that cannot be reached.
Traverse == INSTANCE Traversal WITH
    seen <- {n \in Node : visited[n] = "DONE"},
    total <- sum,
    reported <- pc[Main] = "done"

TraversalSpec == Traverse!TravSpec

\* wait_for_completion returns and main ends, but for one case: node 0
\* is isolated and a worker has gone to wait past the broadcast that main sends
\* without the lock.
Termination ==
    \/ <>(pc[Main] = "done")
    \/ <>[](Degree(Root) = 0 /\ \E w \in Workers : pc[w] = "waiting")
=============================================================================
