-------------------------- MODULE ParallelGraphInv --------------------------
(***************************************************************************)
(* The inductive invariant of ParallelGraph: the safety properties of that *)
(* module, and what they rest on.                                          *)
(***************************************************************************)
EXTENDS ParallelGraph

\* The positions from which a worker has not run a task yet.
BeforeFirstTask == {"loop", "enter", "toWait", "waiting", "woken"}

\* Threads in the loop over the neighbours of m.
ScansNode(th, m) == pc[th] \in {"scan", "enqueue"} /\ arg[th] = m

\* main processes node 0 and nothing else; until it has, nothing happens.
MainInv ==
    /\ arg[Main] = Root
    /\ pc[Main] = "visit" =>
           /\ status = "NOT_STARTED"
           /\ queue = <<>>
           /\ \A n \in Node : visited[n] = "NOT_VISITED"
    /\ pc[Main] # "visit" => visited[Root] = "DONE"
    /\ pc[Main] \in {"declare", "broadcast"} => Degree(Root) = 0
    /\ pc[Main] \in {"destroy", "done"} => \A w \in Workers : pc[w] = "exited"

\* queue_lock has one holder, and a worker that is about to remove a task
\* finds one.
LockInv ==
    /\ \A w1, w2 \in Workers :
           pc[w1] \in {"toWait", "take"} /\ pc[w2] \in {"toWait", "take"} => w1 = w2
    /\ \A w \in Workers : pc[w] = "take" => queue # <<>>

\* A thread in the loop is at a neighbour of a DONE node, and has marked the
\* neighbours before it.
ScanOK(th) ==
    /\ visited[arg[th]] = "DONE"
    /\ \A k \in DOMAIN graph.neighbours[arg[th]] :
           k < cursor[th] => Marked(graph.neighbours[arg[th]][k])
    /\ pc[th] = "enqueue" => cursor[th] \in DOMAIN graph.neighbours[arg[th]]

ScanInv == \A th \in Threads : pc[th] \in {"scan", "enqueue"} => ScanOK(th)

\* The neighbours of a DONE node are marked, or somebody is at it.
DoneInv ==
    \A m \in Node : visited[m] = "DONE" =>
        \/ \A k \in DOMAIN graph.neighbours[m] : Marked(graph.neighbours[m][k])
        \/ \E th \in Threads : ScansNode(th, m)
        \/ m = Root /\ pc[Main] \in {"declare", "broadcast"}

\* A marked node is Root or a neighbour of a DONE node.
FrontierInv ==
    \A n \in Node : Marked(n) =>
        n = Root \/ \E m \in Node : visited[m] = "DONE" /\ Traverse!IsNeighbour(graph, m, n)

\* Every set that is closed under neighbours and holds Root holds what is marked.
ReachableInv ==
    \A S \in SUBSET Node : Root \in S /\ Closed(S) => \A n \in Node : Marked(n) => n \in S

\* The upper bound counts the workers that left without the decrement.
IdleOrGone == Idling \cup {w \in Workers : pc[w] = "exited"}

IdleInv ==
    /\ status # "FINISHED" => idle_threads = Cardinality(Idling)
    /\ idle_threads \in Cardinality(Idling) .. Cardinality(IdleOrGone)

\* Workers that leave, leave because the pool is FINISHED; a pool that has not
\* STARTED has never had a task.
StatusInv ==
    /\ (\E w \in Workers : pc[w] = "exited") => status = "FINISHED"
    /\ status = "NOT_STARTED" => \A w \in Workers : pc[w] \in BeforeFirstTask
    /\ status = "NOT_STARTED" => queue = <<>>
    /\ Degree(Root) = 0 => pc[Main] # "enqueue" /\ status # "STARTED"
    /\ Degree(Root) = 0 => \A n \in Node \ {Root} : visited[n] = "NOT_VISITED"
    /\ Degree(Root) = 0 => queue = <<>> /\ \A w \in Workers : pc[w] \in InPool \ {"take"}

\* With at most one task for main to hand over, main is idle once a worker runs.
SingleStartInv ==
    SingleStart(graph) /\ status # "NOT_STARTED" =>
        /\ pc[Main] # "enqueue"
        /\ \A k \in DOMAIN graph.neighbours[Root] : Marked(graph.neighbours[Root][k])
        /\ status = "FINISHED" => \A n \in Node : visited[n] # "PROCESSING"

IInv ==
    /\ TypeOK
    /\ MainInv
    /\ LockInv
    /\ ScanInv
    /\ DoneInv
    /\ FrontierInv
    /\ ReachableInv
    /\ MarkedNodeIsInOnePlace
    /\ IdleInv
    /\ StatusInv
    /\ FinishedMeansQuiescent
    /\ OnlyMainsTasksAreLost
    /\ SingleStartInv
=============================================================================
