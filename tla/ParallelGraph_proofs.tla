------------------------ MODULE ParallelGraph_proofs ------------------------
(* Proofs about ParallelGraph, for every thread pool and every graph. *)
EXTENDS ParallelGraphInv, FiniteSetTheorems, SequenceTheorems, TLAPS

USE PoolAssumption, GraphAssumption DEF Threads, Node, Status, Processing, InPool, MainOnly

LEMMA GraphType ==
    ASSUME TypeOK
    PROVE  /\ graph.info \in [Node -> Int]
           /\ graph.neighbours \in [Node -> Seq(Node)]
           /\ \A n \in Node : Degree(n) \in Nat
                           /\ DOMAIN graph.neighbours[n] = 1 .. Degree(n)
BY DEF TypeOK, Degree

\* What a thread is about to visit, to hand over, or to take.
LEMMA CarriedNodes ==
    ASSUME IInv
    PROVE  /\ \A w \in Workers : pc[w] = "visit" => /\ visited[arg[w]] = "PROCESSING"
                                                  /\ arg[w] # Root
           /\ \A th \in Threads : pc[th] = "enqueue" =>
                  /\ Target(th) \in Node
                  /\ visited[Target(th)] = "PROCESSING"
           /\ \A k \in DOMAIN queue : pc[Main] # "done" => visited[queue[k]] = "PROCESSING"
<1> USE DEF IInv, TypeOK
<1>1. ASSUME NEW w \in Workers, pc[w] = "visit"
      PROVE  visited[arg[w]] = "PROCESSING" /\ arg[w] # Root
    <2>1. pc[Main] # "done" /\ arg[w] \in Node /\ Carries(w, arg[w])
        BY <1>1 DEF MainInv, Carries
    <2> QED
        BY <2>1 DEF MarkedNodeIsInOnePlace, MainInv
<1>2. ASSUME NEW th \in Threads, pc[th] = "enqueue"
      PROVE  Target(th) \in Node /\ visited[Target(th)] = "PROCESSING"
    <2>1. Target(th) \in Node
        BY <1>2, GraphType, SMTT(60) DEF ScanInv, ScanOK, Target
    <2>2. pc[Main] # "done" /\ Carries(th, Target(th))
        BY <1>2 DEF MainInv, Carries
    <2> QED
        BY <2>1, <2>2 DEF MarkedNodeIsInOnePlace
<1>3. ASSUME NEW k \in DOMAIN queue, pc[Main] # "done"
      PROVE  visited[queue[k]] = "PROCESSING"
    <2>1. queue[k] \in Node /\ Queued(k, queue[k])
        BY DEF Queued
    <2> QED
        BY <1>3, <2>1 DEF MarkedNodeIsInOnePlace
<1> QED
    BY <1>1, <1>2, <1>3

\* Nothing has happened while main is at its first step, and nothing will
\* happen to the pool once main destroys it.
LEMMA MainAlone ==
    ASSUME IInv
    PROVE  /\ pc[Main] = "visit" => \A w \in Workers : pc[w] \in BeforeFirstTask
           /\ pc[Main] \in {"destroy", "done"} => \A w \in Workers : pc[w] = "exited"
           /\ \A th \in Threads : pc[th] \in {"scan", "enqueue"} => pc[Main] # "visit"
BY DEF IInv, TypeOK, MainInv, StatusInv, BeforeFirstTask

\* The neighbour a thread in the loop looks at is a node.
LEMMA TargetIsNode ==
    ASSUME TypeOK, NEW th \in Threads, cursor[th] <= Degree(arg[th])
    PROVE  /\ cursor[th] \in DOMAIN graph.neighbours[arg[th]]
           /\ Target(th) \in Node
<1>1. arg[th] \in Node /\ cursor[th] \in Nat \ {0}
    BY DEF TypeOK
<1>2. cursor[th] \in DOMAIN graph.neighbours[arg[th]]
    BY <1>1, GraphType
<1>3. graph.neighbours[arg[th]] \in Seq(Node)
    BY <1>1, GraphType
<1> QED
    BY <1>2, <1>3 DEF Target

\* Where the threads are after a task is queued, at most one waiter woken.
LEMMA EnqueuedPositions ==
    ASSUME TypeOK, NEW th \in Threads, EnqueueNeighbour(th)
    PROVE  /\ pc' \in [Threads -> Processing \cup InPool \cup MainOnly]
           /\ pc'[th] = "scan"
           /\ \A t \in Threads \ {th} :
                  pc'[t] = pc[t] \/ (t \in Workers /\ pc[t] = "waiting" /\ pc'[t] = "woken")
<1> DEFINE at == [pc EXCEPT ![th] = "scan"]
<1>1. at \in [Threads -> Processing \cup InPool \cup MainOnly]
    BY DEF TypeOK
<1>2. pc' \in Signalled(at) /\ pc[th] = "enqueue"
    BY DEF EnqueueNeighbour, EnqueueTask
<1>3. pc' = at \/ \E w \in Waiting : pc' = [at EXCEPT ![w] = "woken"]
    BY <1>2 DEF Signalled
<1>4. CASE pc' = at
    BY <1>1, <1>4 DEF TypeOK
<1>5. ASSUME NEW w \in Waiting, pc' = [at EXCEPT ![w] = "woken"]
      PROVE  /\ pc' \in [Threads -> Processing \cup InPool \cup MainOnly]
             /\ pc'[th] = "scan"
             /\ \A t \in Threads \ {th} :
                  pc'[t] = pc[t] \/ (t \in Workers /\ pc[t] = "waiting" /\ pc'[t] = "woken")
    BY <1>1, <1>2, <1>5 DEF TypeOK, Waiting
<1> QED
    BY <1>3, <1>4, <1>5

\* The queue after a task is added at its end, and after the first is removed.
LEMMA EnqueuedQueue ==
    ASSUME IInv, NEW th \in Threads, EnqueueNeighbour(th)
    PROVE  /\ queue' # <<>>
           /\ DOMAIN queue = 1 .. Len(queue) /\ DOMAIN queue' = 1 .. Len(queue) + 1
           /\ \A k \in DOMAIN queue : queue'[k] = queue[k]
           /\ queue'[Len(queue) + 1] = Target(th)
           /\ Len(queue) \in Nat
<1>1. queue \in Seq(Node)
    BY DEF IInv, TypeOK
<1>2. Target(th) \in Node /\ queue' = Append(queue, Target(th))
    BY CarriedNodes DEF EnqueueNeighbour, EnqueueTask
<1> HIDE DEF Node
<1>3. Append(queue, Target(th)) \in Seq(Node)
    BY <1>1, <1>2, AppendProperties
<1> QED
    BY <1>1, <1>2, <1>3, AppendProperties

LEMMA DequeuedQueue ==
    ASSUME IInv, NEW w \in Workers, TakeTask(w), status # "FINISHED"
    PROVE  /\ DOMAIN queue = 1 .. Len(queue) /\ DOMAIN queue' = 1 .. Len(queue) - 1
           /\ \A k \in DOMAIN queue' : queue'[k] = queue[k + 1]
           /\ arg' = [arg EXCEPT ![w] = queue[1]]
           /\ pc' = [pc EXCEPT ![w] = "visit"]
           /\ 1 \in DOMAIN queue
           /\ Len(queue) \in Nat
<1>1. queue \in Seq(Node) /\ queue # <<>>
    BY DEF IInv, TypeOK, LockInv, TakeTask
<1>2. /\ queue' = Tail(queue)
      /\ arg' = [arg EXCEPT ![w] = Head(queue)]
      /\ pc' = [pc EXCEPT ![w] = "visit"]
    BY DEF TakeTask
<1> HIDE DEF Node
<1>3. Len(queue) \in Nat \ {0}
    BY <1>1, EmptySeq
<1>4. /\ Tail(queue) \in Seq(Node)
      /\ Len(Tail(queue)) = Len(queue) - 1
      /\ \A k \in 1 .. Len(Tail(queue)) : Tail(queue)[k] = queue[k + 1]
    BY <1>1, HeadTailProperties
<1>5. Head(queue) = queue[1]
    BY <1>1
<1> QED
    BY <1>1, <1>2, <1>3, <1>4, <1>5, LenProperties

LEMMA TypeStep ==
    ASSUME IInv, [Next]_vars
    PROVE  TypeOK'
<1> USE DEF IInv, TypeOK
<1>0. CASE UNCHANGED vars
    BY <1>0 DEF vars, poolVars
<1>1. ASSUME NEW th \in Threads, Visit(th) PROVE TypeOK'
    <2>1. graph.info[arg[th]] \in Int
        BY GraphType
    <2>2. th \in Workers => ~(arg[th] = Root /\ Degree(Root) = 0)
        BY <1>1, CarriedNodes DEF Visit
    <2>3. pc' \in [Threads -> Processing \cup InPool \cup MainOnly]
        BY <1>1 DEF Visit
    <2>4. pc'[Main] \in Processing \cup MainOnly
        BY <1>1 DEF Visit
    <2>5. \A w \in Workers : pc'[w] \in {"visit", "scan", "enqueue"} \cup InPool
        BY <1>1, <2>2 DEF Visit
    <2>6. sum' \in Int /\ visited' \in [Node -> {"NOT_VISITED", "PROCESSING", "DONE"}]
        BY <1>1, <2>1, SMTT(60) DEF Visit
    <2>7. cursor' \in [Threads -> Nat \ {0}] /\ UNCHANGED <<status, idle_threads, queue, arg, graph>>
        BY <1>1, SMTT(60) DEF Visit
    <2> QED
        BY <2>3, <2>4, <2>5, <2>6, <2>7
<1>2. ASSUME NEW th \in Threads, DeclareFinished(th) PROVE TypeOK'
    BY <1>2 DEF DeclareFinished
<1>3. ASSUME NEW th \in Threads, BroadcastFinished(th) PROVE TypeOK'
    BY <1>3 DEF BroadcastFinished, Broadcasted, Waiting
<1>4. ASSUME NEW th \in Threads, MarkNeighbour(th) PROVE TypeOK'
    BY <1>4, GraphType DEF MarkNeighbour, Target
<1>5. ASSUME NEW th \in Threads, SkipNeighbour(th) PROVE TypeOK'
    BY <1>5, SMTT(60) DEF SkipNeighbour, poolVars
<1>6. ASSUME NEW th \in Threads, EnqueueNeighbour(th) PROVE TypeOK'
    <2>1. Target(th) \in Node /\ queue' \in Seq(Node)
        BY <1>6, CarriedNodes, AppendProperties DEF EnqueueNeighbour, EnqueueTask
    <2>2. /\ pc' \in [Threads -> Processing \cup InPool \cup MainOnly]
          /\ pc'[Main] \in Processing \cup MainOnly
          /\ \A w \in Workers : pc'[w] \in {"visit", "scan", "enqueue"} \cup InPool
        BY <1>6, EnqueuedPositions
    <2> QED
        BY <1>6, <2>1, <2>2, SMTT(60) DEF EnqueueNeighbour, EnqueueTask
<1>7. ASSUME NEW th \in Threads, Return(th) PROVE TypeOK'
    BY <1>7 DEF Return
<1>8. ASSUME NEW w \in Workers, CheckStatus(w), UNCHANGED <<graph, visited, sum, cursor>> PROVE TypeOK'
    BY <1>8 DEF CheckStatus
<1>9. ASSUME NEW w \in Workers, FinishWork(w), UNCHANGED <<graph, visited, sum, cursor>> PROVE TypeOK'
    BY <1>9 DEF FinishWork, Broadcasted, Waiting
<1>10. ASSUME NEW w \in Workers, EnterDequeue(w), UNCHANGED <<graph, visited, sum, cursor>> PROVE TypeOK'
    BY <1>10 DEF EnterDequeue
<1>11. ASSUME NEW w \in Workers, Wait(w), UNCHANGED <<graph, visited, sum, cursor>> PROVE TypeOK'
    BY <1>11 DEF Wait
<1>12. ASSUME NEW w \in Workers, SpuriousWakeup(w), UNCHANGED <<graph, visited, sum, cursor>> PROVE TypeOK'
    BY <1>12 DEF SpuriousWakeup
<1>13. ASSUME NEW w \in Workers, WakeFinished(w), UNCHANGED <<graph, visited, sum, cursor>> PROVE TypeOK'
    BY <1>13 DEF WakeFinished
<1>14. ASSUME NEW w \in Workers, WakeRetest(w), UNCHANGED <<graph, visited, sum, cursor>> PROVE TypeOK'
    BY <1>14 DEF WakeRetest
<1>15. ASSUME NEW w \in Workers, TakeTask(w), UNCHANGED <<graph, visited, sum, cursor>> PROVE TypeOK'
    <2>1. queue # <<>> /\ Head(queue) \in Node /\ Tail(queue) \in Seq(Node)
        BY <1>15, HeadTailProperties DEF TakeTask, LockInv
    <2>2. arg' \in [Threads -> Node] /\ queue' \in Seq(Node)
        BY <1>15, <2>1, ZenonT(60) DEF TakeTask
    <2>3. pc' = [pc EXCEPT ![w] = "exited"] \/ pc' = [pc EXCEPT ![w] = "visit"]
        BY <1>15 DEF TakeTask
    <2>4. /\ pc' \in [Threads -> Processing \cup InPool \cup MainOnly]
          /\ pc'[Main] \in Processing \cup MainOnly
          /\ \A u \in Workers : pc'[u] \in {"visit", "scan", "enqueue"} \cup InPool
        BY <2>3, ZenonT(60)
    <2>5. idle_threads' \in Int /\ status' \in Status
        BY <1>15 DEF TakeTask
    <2> QED
        BY <1>15, <2>2, <2>4, <2>5
<1>16. CASE WaitForCompletion
    BY <1>16 DEF WaitForCompletion, JoinWorkers
<1>17. CASE Destroy
    BY <1>17 DEF Destroy, DestroyThreadpool
<1> QED
    BY <1>0, <1>1, <1>2, <1>3, <1>4, <1>5, <1>6, <1>7, <1>8, <1>9, <1>10, <1>11, <1>12,
       <1>13, <1>14, <1>15, <1>16, <1>17
    DEF Next, ProcessNode, Worker, Spurious, WorkerStep, Terminated
\* No step makes main process anything but node 0.
LEMMA MainInvStep ==
    ASSUME IInv, [Next]_vars
    PROVE  MainInv'
<1> USE DEF IInv, TypeOK, MainInv, Degree
<1>0. CASE UNCHANGED vars
    BY <1>0 DEF vars, poolVars
<1>1. ASSUME NEW th \in Threads, Visit(th) PROVE MainInv'
    <2>1. Degree(Root)' = Degree(Root)
        BY <1>1 DEF Visit, Degree
    <2> QED
        BY <1>1, <2>1, CarriedNodes, MainAlone DEF Visit, BeforeFirstTask
<1>2. ASSUME NEW th \in Threads, DeclareFinished(th) PROVE MainInv'
    BY <1>2 DEF DeclareFinished
<1>3. ASSUME NEW th \in Threads, BroadcastFinished(th) PROVE MainInv'
    BY <1>3 DEF BroadcastFinished, Broadcasted, Waiting
<1>4. ASSUME NEW th \in Threads, MarkNeighbour(th) PROVE MainInv'
    <2>1. Target(th) \in Node /\ Target(th) # Root /\ pc[Main] # "visit"
        BY <1>4, MainAlone, TargetIsNode DEF MarkNeighbour
    <2>2. pc'[Main] \notin {"visit", "declare", "broadcast", "destroy", "done"} \/ pc'[Main] = pc[Main]
        BY <1>4 DEF MarkNeighbour
    <2>3. pc'[Main] \in {"destroy", "done"} => FALSE
        BY <1>4, MainAlone, <2>2 DEF MarkNeighbour
    <2> QED
        BY <1>4, <2>1, <2>2, <2>3 DEF MarkNeighbour, Degree
<1>5. ASSUME NEW th \in Threads, SkipNeighbour(th) PROVE MainInv'
    BY <1>5 DEF SkipNeighbour, poolVars
<1>6. ASSUME NEW th \in Threads, EnqueueNeighbour(th) PROVE MainInv'
    <2>1. pc[Main] # "visit" /\ pc[Main] \notin {"destroy", "done"}
        BY <1>6, MainAlone DEF EnqueueNeighbour
    <2>2. pc'[Main] = "scan" \/ pc'[Main] = pc[Main]
        BY EnqueuedPositions, <1>6
    <2> QED
        BY <1>6, <2>1, <2>2 DEF EnqueueNeighbour, Degree
<1>7. ASSUME NEW th \in Threads, Return(th) PROVE MainInv'
    BY <1>7 DEF Return
<1>8. ASSUME NEW w \in Workers, CheckStatus(w), UNCHANGED <<graph, visited, sum, cursor>> PROVE MainInv'
    BY <1>8 DEF CheckStatus
<1>9. ASSUME NEW w \in Workers, FinishWork(w), UNCHANGED <<graph, visited, sum, cursor>> PROVE MainInv'
    <2>1. pc[Main] # "visit" /\ pc[Main] \notin {"destroy", "done"}
        BY <1>9, MainAlone DEF FinishWork, LastActive
    <2>2. pc'[Main] = pc[Main]
        BY <1>9 DEF FinishWork, Broadcasted, Waiting
    <2> QED
        BY <1>9, <2>1, <2>2 DEF FinishWork, Degree
<1>10. ASSUME NEW w \in Workers, EnterDequeue(w), UNCHANGED <<graph, visited, sum, cursor>> PROVE MainInv'
    BY <1>10 DEF EnterDequeue
<1>11. ASSUME NEW w \in Workers, Wait(w), UNCHANGED <<graph, visited, sum, cursor>> PROVE MainInv'
    BY <1>11 DEF Wait
<1>12. ASSUME NEW w \in Workers, SpuriousWakeup(w), UNCHANGED <<graph, visited, sum, cursor>> PROVE MainInv'
    BY <1>12 DEF SpuriousWakeup
<1>13. ASSUME NEW w \in Workers, WakeFinished(w), UNCHANGED <<graph, visited, sum, cursor>> PROVE MainInv'
    BY <1>13 DEF WakeFinished
<1>14. ASSUME NEW w \in Workers, WakeRetest(w), UNCHANGED <<graph, visited, sum, cursor>> PROVE MainInv'
    BY <1>14 DEF WakeRetest
<1>15. ASSUME NEW w \in Workers, TakeTask(w), UNCHANGED <<graph, visited, sum, cursor>> PROVE MainInv'
    <2>1. pc[Main] # "visit" /\ pc[Main] \notin {"destroy", "done"}
        BY <1>15, MainAlone DEF TakeTask, BeforeFirstTask
    <2>2. pc'[Main] = pc[Main] /\ arg'[Main] = arg[Main]
        BY <1>15 DEF TakeTask
    <2> QED
        BY <1>15, <2>1, <2>2 DEF TakeTask, Degree
<1>16. CASE WaitForCompletion
    BY <1>16 DEF WaitForCompletion, JoinWorkers
<1>17. CASE Destroy
    BY <1>17 DEF Destroy, DestroyThreadpool
<1> QED
    BY <1>0, <1>1, <1>2, <1>3, <1>4, <1>5, <1>6, <1>7, <1>8,
       <1>9, <1>10, <1>11, <1>12, <1>13, <1>14, <1>15, <1>16, <1>17
    DEF Next, ProcessNode, Worker, Spurious, WorkerStep, Terminated

\* No step gives queue_lock a second holder, or a worker an empty queue to take from.
LEMMA LockInvStep ==
    ASSUME IInv, [Next]_vars
    PROVE  LockInv'
<1> USE DEF IInv, TypeOK, LockInv, QueueLockFree
<1>0. CASE UNCHANGED vars
    BY <1>0 DEF vars, poolVars
<1>1. ASSUME NEW th \in Threads, Visit(th) PROVE LockInv'
    BY <1>1 DEF Visit
<1>2. ASSUME NEW th \in Threads, DeclareFinished(th) PROVE LockInv'
    BY <1>2 DEF DeclareFinished
<1>3. ASSUME NEW th \in Threads, BroadcastFinished(th) PROVE LockInv'
    BY <1>3 DEF BroadcastFinished, Broadcasted, Waiting
<1>4. ASSUME NEW th \in Threads, MarkNeighbour(th) PROVE LockInv'
    BY <1>4 DEF MarkNeighbour
<1>5. ASSUME NEW th \in Threads, SkipNeighbour(th) PROVE LockInv'
    BY <1>5 DEF SkipNeighbour, poolVars
<1>6. ASSUME NEW th \in Threads, EnqueueNeighbour(th) PROVE LockInv'
    <2>1. queue' # <<>>
        BY <1>6, EnqueuedQueue
    <2>2. \A w \in Workers : pc'[w] \notin {"toWait", "take"}
        BY <1>6, EnqueuedPositions DEF EnqueueNeighbour, EnqueueTask
    <2> QED
        BY <2>1, <2>2
<1>7. ASSUME NEW th \in Threads, Return(th) PROVE LockInv'
    BY <1>7 DEF Return
<1>8. ASSUME NEW w \in Workers, CheckStatus(w), UNCHANGED <<graph, visited, sum, cursor>> PROVE LockInv'
    BY <1>8 DEF CheckStatus
<1>9. ASSUME NEW w \in Workers, FinishWork(w), UNCHANGED <<graph, visited, sum, cursor>> PROVE LockInv'
    BY <1>9 DEF FinishWork, Broadcasted, Waiting, LastActive
<1>10. ASSUME NEW w \in Workers, EnterDequeue(w), UNCHANGED <<graph, visited, sum, cursor>> PROVE LockInv'
    BY <1>10 DEF EnterDequeue
<1>11. ASSUME NEW w \in Workers, Wait(w), UNCHANGED <<graph, visited, sum, cursor>> PROVE LockInv'
    BY <1>11 DEF Wait
<1>12. ASSUME NEW w \in Workers, SpuriousWakeup(w), UNCHANGED <<graph, visited, sum, cursor>> PROVE LockInv'
    BY <1>12 DEF SpuriousWakeup
<1>13. ASSUME NEW w \in Workers, WakeFinished(w), UNCHANGED <<graph, visited, sum, cursor>> PROVE LockInv'
    BY <1>13 DEF WakeFinished
<1>14. ASSUME NEW w \in Workers, WakeRetest(w), UNCHANGED <<graph, visited, sum, cursor>> PROVE LockInv'
    BY <1>14 DEF WakeRetest
<1>15. ASSUME NEW w \in Workers, TakeTask(w), UNCHANGED <<graph, visited, sum, cursor>> PROVE LockInv'
    <2>1. \A u \in Workers : pc'[u] \notin {"toWait", "take"}
        <3>1. \A u \in Workers \ {w} : pc'[u] = pc[u] /\ pc[u] \notin {"toWait", "take"}
            BY <1>15 DEF TakeTask
        <3>2. pc'[w] \in {"exited", "visit"}
            BY <1>15 DEF TakeTask
        <3> QED
            BY <3>1, <3>2
    <2> QED
        BY <2>1
<1>16. CASE WaitForCompletion
    BY <1>16 DEF WaitForCompletion, JoinWorkers
<1>17. CASE Destroy
    <2>1. \A w \in Workers : pc[w] = "exited" /\ pc'[w] = "exited"
        BY <1>17, MainAlone DEF Destroy, DestroyThreadpool
    <2> QED
        BY <2>1
<1> QED
    BY <1>0, <1>1, <1>2, <1>3, <1>4, <1>5, <1>6, <1>7, <1>8,
       <1>9, <1>10, <1>11, <1>12, <1>13, <1>14, <1>15, <1>16, <1>17
    DEF Next, ProcessNode, Worker, Spurious, WorkerStep, Terminated

\* visited only goes forward, and the graph stays as it was read.
LEMMA VisitedGrows ==
    ASSUME IInv, [Next]_vars
    PROVE  /\ graph' = graph
           /\ \A n \in Node : visited[n] = "DONE" => visited'[n] = "DONE"
           /\ \A n \in Node : Marked(n) => Marked(n)'
<1> USE DEF IInv, TypeOK, Marked
<1>1. ASSUME NEW th \in Threads, Visit(th)
      PROVE  /\ graph' = graph
             /\ \A n \in Node : visited[n] = "DONE" => visited'[n] = "DONE"
             /\ \A n \in Node : Marked(n) => Marked(n)'
    BY <1>1 DEF Visit
<1>2. ASSUME NEW th \in Threads, MarkNeighbour(th)
      PROVE  /\ graph' = graph
             /\ \A n \in Node : visited[n] = "DONE" => visited'[n] = "DONE"
             /\ \A n \in Node : Marked(n) => Marked(n)'
    BY <1>2, TargetIsNode DEF MarkNeighbour
<1>3. CASE UNCHANGED <<graph, visited>>
    BY <1>3
<1>4. \/ \E th \in Threads : Visit(th) \/ MarkNeighbour(th)
      \/ UNCHANGED <<graph, visited>>
    BY DEF Next, ProcessNode, Worker, Spurious, Terminated, vars, poolVars, WaitForCompletion, Destroy,
           DeclareFinished, BroadcastFinished, SkipNeighbour, EnqueueNeighbour, Return
<1> QED
    BY <1>1, <1>2, <1>3, <1>4

\* A neighbour that is marked stays marked.
LEMMA NeighbourStaysMarked ==
    ASSUME IInv, [Next]_vars, NEW m \in Node, NEW k \in DOMAIN graph.neighbours[m]
    PROVE  Marked(graph.neighbours[m][k]) => visited'[graph.neighbours[m][k]] # "NOT_VISITED"
<1>1. graph.neighbours[m][k] \in Node
    BY GraphType DEF IInv, TypeOK
<1> QED
    BY <1>1, VisitedGrows DEF Marked

\* What holds of a thread in the loop keeps holding while others move.
LEMMA ScanFrame ==
    ASSUME IInv, [Next]_vars, NEW t \in Threads, pc[t] \in {"scan", "enqueue"},
           pc'[t] = "enqueue" => pc[t] = "enqueue",
           arg'[t] = arg[t], cursor'[t] = cursor[t]
    PROVE  ScanOK(t)'
<1>1. ScanOK(t) /\ arg[t] \in Node
    BY DEF IInv, TypeOK, ScanInv
<1>2. graph' = graph /\ visited'[arg[t]] = "DONE"
    BY <1>1, VisitedGrows DEF ScanOK
<1>3. \A k \in DOMAIN graph.neighbours[arg[t]] :
          k < cursor[t] => visited'[graph.neighbours[arg[t]][k]] # "NOT_VISITED"
    BY <1>1, <1>2, NeighbourStaysMarked DEF ScanOK
<1> QED
    BY <1>1, <1>2, <1>3 DEF ScanOK, Marked

\* The loop over the neighbours keeps its invariant.
LEMMA ScanInvStep ==
    ASSUME IInv, [Next]_vars
    PROVE  ScanInv'
<1>18. ASSUME NEW m \in Node, NEW k \in DOMAIN graph.neighbours[m], Marked(graph.neighbours[m][k])
       PROVE  visited'[graph.neighbours[m][k]] # "NOT_VISITED"
    BY <1>18, NeighbourStaysMarked
<1> USE DEF IInv, TypeOK, ScanInv
<1>0. CASE UNCHANGED vars
    BY <1>0, ScanFrame DEF vars, poolVars
<1>1. ASSUME NEW th \in Threads, Visit(th) PROVE ScanInv'
    <2>1. \A t \in Threads \ {th} : pc'[t] = pc[t] /\ arg'[t] = arg[t] /\ cursor'[t] = cursor[t]
        BY <1>1 DEF Visit
    <2>2. visited'[arg'[th]] = "DONE" /\ cursor'[th] = 1 /\ pc'[th] # "enqueue"
        BY <1>1 DEF Visit
    <2>3. arg'[th] \in Node /\ \A k \in DOMAIN graph.neighbours[arg'[th]] : ~(k < 1)
        BY <1>1, GraphType DEF Visit
    <2> QED
        BY <2>1, <2>2, <2>3, ScanFrame, VisitedGrows, ZenonT(60) DEF ScanOK
<1>2. ASSUME NEW th \in Threads, DeclareFinished(th) PROVE ScanInv'
    <2>1. ASSUME NEW t \in Threads, pc'[t] \in {"scan", "enqueue"}
          PROVE  pc[t] = pc'[t] /\ arg'[t] = arg[t] /\ cursor'[t] = cursor[t]
        BY <1>2, <2>1 DEF DeclareFinished
    <2> QED
        BY <2>1, ScanFrame
<1>3. ASSUME NEW th \in Threads, BroadcastFinished(th) PROVE ScanInv'
    <2>1. arg[th] = Root /\ visited[Root] = "DONE" /\ Degree(Root) = 0
        BY <1>3 DEF BroadcastFinished, MainInv
    <2>2. \A t \in Threads \ {th} : pc'[t] \in {"scan", "enqueue"} => pc'[t] = pc[t]
        BY <1>3 DEF BroadcastFinished, Broadcasted, Waiting
    <2>3. pc'[th] = "scan" /\ arg' = arg /\ cursor' = cursor
        BY <1>3 DEF BroadcastFinished, Broadcasted, Waiting
    <2>4. DOMAIN graph.neighbours[Root] = {}
        <3>1. Root \in Node
            BY <2>1
        <3>2. DOMAIN graph.neighbours[Root] = 1 .. Degree(Root)
            BY <3>1, GraphType DEF IInv
        <3> QED
            BY <2>1, <3>2
    <2>5. graph' = graph /\ visited'[Root] = "DONE"
        BY <2>1, VisitedGrows
    <2>6. ScanOK(th)'
        BY <2>1, <2>3, <2>4, <2>5 DEF ScanOK
    <2> QED
        BY <2>2, <2>3, <2>6, ScanFrame
<1>4. ASSUME NEW th \in Threads, MarkNeighbour(th) PROVE ScanInv'
    <2>1. \A t \in Threads \ {th} : pc'[t] = pc[t]
        BY <1>4 DEF MarkNeighbour
    <2>2. pc[th] = "scan" /\ arg' = arg /\ cursor' = cursor
        BY <1>4 DEF MarkNeighbour
    <2>3. cursor[th] \in DOMAIN graph.neighbours[arg[th]]
        BY <1>4, TargetIsNode DEF MarkNeighbour
    <2>4. ScanOK(th)'
        <3>1. /\ ScanOK(th) /\ arg[th] \in Node
              /\ \A k \in DOMAIN graph.neighbours[arg[th]] :
                     k < cursor[th] => Marked(graph.neighbours[arg[th]][k])
            BY <2>2 DEF ScanOK
        <3>2. \A k \in DOMAIN graph.neighbours[arg[th]] :
                  k < cursor[th] => visited'[graph.neighbours[arg[th]][k]] # "NOT_VISITED"
            BY <1>18, <3>1
        <3> QED
            BY <2>2, <2>3, <3>1, <3>2, VisitedGrows, ZenonT(60) DEF ScanOK, Marked
    <2> QED
        BY <2>1, <2>2, <2>3, <2>4, ScanFrame
<1>5. ASSUME NEW th \in Threads, SkipNeighbour(th) PROVE ScanInv'
    <2>1. \A t \in Threads \ {th} : pc'[t] \in {"scan", "enqueue"} =>
              pc'[t] = pc[t] /\ arg'[t] = arg[t] /\ cursor'[t] = cursor[t]
        BY <1>5 DEF SkipNeighbour, poolVars
    <2>2. pc[th] \in {"scan", "enqueue"} /\ pc'[th] = "scan" /\ arg' = arg /\ cursor'[th] = cursor[th] + 1
        BY <1>5 DEF SkipNeighbour, poolVars
    <2>3. Marked(Target(th))
        BY <1>5 DEF SkipNeighbour, Marked
    <2>4. \A k \in DOMAIN graph.neighbours[arg[th]] : k < cursor[th] + 1 => Marked(graph.neighbours[arg[th]][k])
        <3> SUFFICES ASSUME NEW k \in DOMAIN graph.neighbours[arg[th]], k < cursor[th] + 1
                     PROVE  Marked(graph.neighbours[arg[th]][k])
            OBVIOUS
        <3>1. k \in Nat /\ cursor[th] \in Nat
            <4>1. arg[th] \in Node /\ cursor[th] \in Nat
                OBVIOUS
            <4>2. DOMAIN graph.neighbours[arg[th]] = 1 .. Degree(arg[th]) /\ Degree(arg[th]) \in Nat
                BY <4>1, GraphType
            <4> QED
                BY <4>1, <4>2
        <3>2. CASE k = cursor[th]
            BY <2>3, <3>2 DEF Target
        <3>3. CASE k < cursor[th]
            BY <2>2, <3>3 DEF ScanOK
        <3> QED
            BY <3>1, <3>2, <3>3
    <2>5. ScanOK(th)'
        <3>1. visited[arg[th]] = "DONE" /\ arg[th] \in Node
            BY <2>2 DEF ScanOK
        <3>2. \A k \in DOMAIN graph.neighbours[arg[th]] :
                  k < cursor[th] + 1 => visited'[graph.neighbours[arg[th]][k]] # "NOT_VISITED"
            BY <1>18, <2>4, <3>1
        <3>3. graph' = graph /\ visited'[arg[th]] = "DONE"
            BY <3>1, VisitedGrows
        <3> QED
            BY <2>2, <3>2, <3>3 DEF ScanOK, Marked
    <2> QED
        BY <2>1, <2>2, <2>5, ScanFrame
<1>6. ASSUME NEW th \in Threads, EnqueueNeighbour(th) PROVE ScanInv'
    <2>1. \A t \in Threads \ {th} : pc'[t] \in {"scan", "enqueue"} =>
              pc'[t] = pc[t] /\ arg'[t] = arg[t] /\ cursor'[t] = cursor[t]
        BY <1>6, EnqueuedPositions DEF EnqueueNeighbour
    <2>2. pc[th] \in {"scan", "enqueue"} /\ pc'[th] = "scan" /\ arg' = arg /\ cursor'[th] = cursor[th] + 1
        BY <1>6, EnqueuedPositions DEF EnqueueNeighbour
    <2>3. Marked(Target(th))
        BY <1>6, CarriedNodes DEF EnqueueNeighbour, Marked
    <2>4. \A k \in DOMAIN graph.neighbours[arg[th]] : k < cursor[th] + 1 => Marked(graph.neighbours[arg[th]][k])
        <3> SUFFICES ASSUME NEW k \in DOMAIN graph.neighbours[arg[th]], k < cursor[th] + 1
                     PROVE  Marked(graph.neighbours[arg[th]][k])
            OBVIOUS
        <3>1. k \in Nat /\ cursor[th] \in Nat
            <4>1. arg[th] \in Node /\ cursor[th] \in Nat
                OBVIOUS
            <4>2. DOMAIN graph.neighbours[arg[th]] = 1 .. Degree(arg[th]) /\ Degree(arg[th]) \in Nat
                BY <4>1, GraphType
            <4> QED
                BY <4>1, <4>2
        <3>2. CASE k = cursor[th]
            BY <2>3, <3>2 DEF Target
        <3>3. CASE k < cursor[th]
            BY <2>2, <3>3 DEF ScanOK
        <3> QED
            BY <3>1, <3>2, <3>3
    <2>5. ScanOK(th)'
        <3>1. visited[arg[th]] = "DONE" /\ arg[th] \in Node
            BY <2>2 DEF ScanOK
        <3>2. \A k \in DOMAIN graph.neighbours[arg[th]] :
                  k < cursor[th] + 1 => visited'[graph.neighbours[arg[th]][k]] # "NOT_VISITED"
            BY <1>18, <2>4, <3>1
        <3>3. graph' = graph /\ visited'[arg[th]] = "DONE"
            BY <3>1, VisitedGrows
        <3> QED
            BY <2>2, <3>2, <3>3 DEF ScanOK, Marked
    <2> QED
        BY <2>1, <2>2, <2>5, ScanFrame
<1>7. ASSUME NEW th \in Threads, Return(th) PROVE ScanInv'
    <2>1. ASSUME NEW t \in Threads, pc'[t] \in {"scan", "enqueue"}
          PROVE  pc[t] = pc'[t] /\ arg'[t] = arg[t] /\ cursor'[t] = cursor[t]
        BY <1>7, <2>1 DEF Return
    <2> QED
        BY <2>1, ScanFrame
<1>8. ASSUME NEW w \in Workers, CheckStatus(w), UNCHANGED <<graph, visited, sum, cursor>> PROVE ScanInv'
    <2>1. ASSUME NEW t \in Threads, pc'[t] \in {"scan", "enqueue"}
          PROVE  pc[t] = pc'[t] /\ arg'[t] = arg[t] /\ cursor'[t] = cursor[t]
        BY <1>8, <2>1 DEF CheckStatus
    <2> QED
        BY <2>1, ScanFrame
<1>9. ASSUME NEW w \in Workers, FinishWork(w), UNCHANGED <<graph, visited, sum, cursor>> PROVE ScanInv'
    <2>1. ASSUME NEW t \in Threads, pc'[t] \in {"scan", "enqueue"}
          PROVE  pc[t] = pc'[t] /\ arg'[t] = arg[t] /\ cursor'[t] = cursor[t]
        BY <1>9, <2>1 DEF FinishWork, Broadcasted, Waiting
    <2> QED
        BY <2>1, ScanFrame
<1>10. ASSUME NEW w \in Workers, EnterDequeue(w), UNCHANGED <<graph, visited, sum, cursor>> PROVE ScanInv'
    <2>1. ASSUME NEW t \in Threads, pc'[t] \in {"scan", "enqueue"}
          PROVE  pc[t] = pc'[t] /\ arg'[t] = arg[t] /\ cursor'[t] = cursor[t]
        BY <1>10, <2>1 DEF EnterDequeue
    <2> QED
        BY <2>1, ScanFrame
<1>11. ASSUME NEW w \in Workers, Wait(w), UNCHANGED <<graph, visited, sum, cursor>> PROVE ScanInv'
    <2>1. ASSUME NEW t \in Threads, pc'[t] \in {"scan", "enqueue"}
          PROVE  pc[t] = pc'[t] /\ arg'[t] = arg[t] /\ cursor'[t] = cursor[t]
        BY <1>11, <2>1 DEF Wait
    <2> QED
        BY <2>1, ScanFrame
<1>12. ASSUME NEW w \in Workers, SpuriousWakeup(w), UNCHANGED <<graph, visited, sum, cursor>> PROVE ScanInv'
    <2>1. ASSUME NEW t \in Threads, pc'[t] \in {"scan", "enqueue"}
          PROVE  pc[t] = pc'[t] /\ arg'[t] = arg[t] /\ cursor'[t] = cursor[t]
        BY <1>12, <2>1 DEF SpuriousWakeup
    <2> QED
        BY <2>1, ScanFrame
<1>13. ASSUME NEW w \in Workers, WakeFinished(w), UNCHANGED <<graph, visited, sum, cursor>> PROVE ScanInv'
    <2>1. ASSUME NEW t \in Threads, pc'[t] \in {"scan", "enqueue"}
          PROVE  pc[t] = pc'[t] /\ arg'[t] = arg[t] /\ cursor'[t] = cursor[t]
        BY <1>13, <2>1 DEF WakeFinished
    <2> QED
        BY <2>1, ScanFrame
<1>14. ASSUME NEW w \in Workers, WakeRetest(w), UNCHANGED <<graph, visited, sum, cursor>> PROVE ScanInv'
    <2>1. ASSUME NEW t \in Threads, pc'[t] \in {"scan", "enqueue"}
          PROVE  pc[t] = pc'[t] /\ arg'[t] = arg[t] /\ cursor'[t] = cursor[t]
        BY <1>14, <2>1 DEF WakeRetest
    <2> QED
        BY <2>1, ScanFrame
<1>15. ASSUME NEW w \in Workers, TakeTask(w), UNCHANGED <<graph, visited, sum, cursor>> PROVE ScanInv'
    <2>1. ASSUME NEW t \in Threads, pc'[t] \in {"scan", "enqueue"}
          PROVE  pc[t] = pc'[t] /\ arg'[t] = arg[t] /\ cursor'[t] = cursor[t]
        BY <1>15, <2>1 DEF TakeTask
    <2> QED
        BY <2>1, ScanFrame
<1>16. CASE WaitForCompletion
    <2>1. ASSUME NEW t \in Threads, pc'[t] \in {"scan", "enqueue"}
          PROVE  pc[t] = pc'[t] /\ arg'[t] = arg[t] /\ cursor'[t] = cursor[t]
        BY <1>16, <2>1 DEF WaitForCompletion, JoinWorkers
    <2> QED
        BY <2>1, ScanFrame
<1>17. CASE Destroy
    <2>1. ASSUME NEW t \in Threads, pc'[t] \in {"scan", "enqueue"}
          PROVE  pc[t] = pc'[t] /\ arg'[t] = arg[t] /\ cursor'[t] = cursor[t]
        BY <1>17, <2>1 DEF Destroy, DestroyThreadpool
    <2> QED
        BY <2>1, ScanFrame
<1> QED
    BY <1>0, <1>1, <1>2, <1>3, <1>4, <1>5, <1>6, <1>7, <1>8,
       <1>9, <1>10, <1>11, <1>12, <1>13, <1>14, <1>15, <1>16, <1>17
    DEF Next, ProcessNode, Worker, Spurious, WorkerStep, Terminated

\* DONE nodes are taken care of as long as the threads at them stay.
LEMMA DoneFrame ==
    ASSUME IInv, [Next]_vars,
           \A t \in Threads : pc[t] \in {"scan", "enqueue"} =>
               pc'[t] \in {"scan", "enqueue"} /\ arg'[t] = arg[t],
           \A m \in Node : visited'[m] = "DONE" => visited[m] = "DONE",
           pc[Main] \in {"declare", "broadcast"} => pc'[Main] \in {"declare", "broadcast"}
    PROVE  DoneInv'
<1>1. SUFFICES ASSUME NEW m \in Node, visited'[m] = "DONE"
               PROVE  \/ \A k \in DOMAIN graph.neighbours[m] :
                             visited'[graph.neighbours[m][k]] # "NOT_VISITED"
                      \/ \E t \in Threads : ScansNode(t, m)'
                      \/ m = Root /\ pc'[Main] \in {"declare", "broadcast"}
    <2>1. graph' = graph
        BY VisitedGrows
    <2> QED
        BY <2>1 DEF DoneInv, Marked
<1>2. visited[m] = "DONE"
    BY <1>1
<1>3. CASE \A k \in DOMAIN graph.neighbours[m] : Marked(graph.neighbours[m][k])
    BY <1>3, NeighbourStaysMarked
<1>4. CASE \E t \in Threads : ScansNode(t, m)
    BY <1>4 DEF ScansNode
<1>5. CASE m = Root /\ pc[Main] \in {"declare", "broadcast"}
    BY <1>5
<1> QED
    BY <1>2, <1>3, <1>4, <1>5 DEF IInv, DoneInv

\* A node becomes DONE only in the hands of a thread that is at its neighbours.
LEMMA DoneInvStep ==
    ASSUME IInv, [Next]_vars
    PROVE  DoneInv'
<1> USE DEF IInv, TypeOK
<1>0. CASE UNCHANGED vars
    BY <1>0, DoneFrame DEF vars, poolVars
<1>1. ASSUME NEW th \in Threads, Visit(th) PROVE DoneInv'
    <2>0. graph' = graph
        BY VisitedGrows
    <2> SUFFICES ASSUME NEW m \in Node, visited'[m] = "DONE"
                 PROVE  \/ \A k \in DOMAIN graph.neighbours[m] :
                               visited'[graph.neighbours[m][k]] # "NOT_VISITED"
                        \/ \E t \in Threads : ScansNode(t, m)'
                        \/ m = Root /\ pc'[Main] \in {"declare", "broadcast"}
        BY <2>0 DEF DoneInv, Marked
    <2>1. CASE m = arg[th] /\ pc'[th] = "scan"
        BY <1>1, <2>1 DEF Visit, ScansNode
    <2>2. CASE m = arg[th] /\ pc'[th] = "declare"
        <3>1. m = Root
            BY <1>1, <2>2 DEF Visit
        <3>2. th = Main
            BY <1>1, <3>1, <2>2, CarriedNodes DEF Visit
        <3> QED
            BY <2>2, <3>1, <3>2
    <2>3. CASE m # arg[th]
        <3>1. visited[m] = "DONE"
            BY <1>1, <2>3 DEF Visit
        <3>2. ASSUME NEW t \in Threads, ScansNode(t, m) PROVE ScansNode(t, m)'
            BY <1>1, <3>2 DEF Visit, ScansNode
        <3>3. pc[Main] \in {"declare", "broadcast"} => pc'[Main] = pc[Main]
            BY <1>1 DEF Visit
        <3> QED
            BY <3>1, <3>2, <3>3, NeighbourStaysMarked, ZenonT(60) DEF DoneInv
    <2>4. pc'[th] \in {"scan", "declare"}
        BY <1>1 DEF Visit
    <2> QED
        BY <2>1, <2>2, <2>3, <2>4
<1>2. ASSUME NEW th \in Threads, DeclareFinished(th) PROVE DoneInv'
    <2>1. \A t \in Threads : pc[t] \in {"scan", "enqueue"} =>
              pc'[t] \in {"scan", "enqueue"} /\ arg'[t] = arg[t]
        BY <1>2 DEF DeclareFinished
    <2>2. \A m \in Node : visited'[m] = "DONE" => visited[m] = "DONE"
        BY <1>2 DEF DeclareFinished
    <2>3. pc[Main] \in {"declare", "broadcast"} => pc'[Main] \in {"declare", "broadcast"}
        BY <1>2 DEF DeclareFinished
    <2> QED
        BY <2>1, <2>2, <2>3, DoneFrame
<1>3. ASSUME NEW th \in Threads, BroadcastFinished(th) PROVE DoneInv'
    <2>0. graph' = graph
        BY VisitedGrows
    <2> SUFFICES ASSUME NEW m \in Node, visited'[m] = "DONE"
                 PROVE  \/ \A k \in DOMAIN graph.neighbours[m] :
                               visited'[graph.neighbours[m][k]] # "NOT_VISITED"
                        \/ \E t \in Threads : ScansNode(t, m)'
                        \/ m = Root /\ pc'[Main] \in {"declare", "broadcast"}
        BY <2>0 DEF DoneInv, Marked
    <2>1. th = Main /\ arg[Main] = Root /\ pc'[Main] = "scan" /\ arg' = arg /\ visited' = visited
        BY <1>3 DEF BroadcastFinished, Broadcasted, Waiting, MainInv
    <2>2. CASE m = Root
        BY <2>1, <2>2 DEF ScansNode
    <2>3. CASE m # Root
        <3>1. ASSUME NEW t \in Threads, ScansNode(t, m) PROVE ScansNode(t, m)'
            BY <1>3, <3>1 DEF BroadcastFinished, Broadcasted, Waiting, ScansNode
        <3> QED
            BY <2>1, <2>3, <3>1, NeighbourStaysMarked, ZenonT(60) DEF DoneInv
    <2> QED
        BY <2>2, <2>3
<1>4. ASSUME NEW th \in Threads, MarkNeighbour(th) PROVE DoneInv'
    <2>1. \A t \in Threads : pc[t] \in {"scan", "enqueue"} =>
              pc'[t] \in {"scan", "enqueue"} /\ arg'[t] = arg[t]
        BY <1>4 DEF MarkNeighbour
    <2>2. \A m \in Node : visited'[m] = "DONE" => visited[m] = "DONE"
        BY <1>4, TargetIsNode DEF MarkNeighbour
    <2>3. pc[Main] \in {"declare", "broadcast"} => pc'[Main] \in {"declare", "broadcast"}
        BY <1>4 DEF MarkNeighbour
    <2> QED
        BY <2>1, <2>2, <2>3, DoneFrame
<1>5. ASSUME NEW th \in Threads, SkipNeighbour(th) PROVE DoneInv'
    <2>1. \A t \in Threads : pc[t] \in {"scan", "enqueue"} =>
              pc'[t] \in {"scan", "enqueue"} /\ arg'[t] = arg[t]
        BY <1>5 DEF SkipNeighbour, poolVars
    <2>2. \A m \in Node : visited'[m] = "DONE" => visited[m] = "DONE"
        BY <1>5 DEF SkipNeighbour
    <2>3. pc[Main] \in {"declare", "broadcast"} => pc'[Main] \in {"declare", "broadcast"}
        BY <1>5 DEF SkipNeighbour, poolVars
    <2> QED
        BY <2>1, <2>2, <2>3, DoneFrame
<1>6. ASSUME NEW th \in Threads, EnqueueNeighbour(th) PROVE DoneInv'
    <2>1. \A t \in Threads : pc[t] \in {"scan", "enqueue"} =>
              pc'[t] \in {"scan", "enqueue"} /\ arg'[t] = arg[t]
        BY <1>6, EnqueuedPositions DEF EnqueueNeighbour, EnqueueTask
    <2>2. \A m \in Node : visited'[m] = "DONE" => visited[m] = "DONE"
        BY <1>6 DEF EnqueueNeighbour
    <2>3. pc[Main] \in {"declare", "broadcast"} => pc'[Main] \in {"declare", "broadcast"}
        BY <1>6, EnqueuedPositions DEF EnqueueNeighbour, EnqueueTask
    <2> QED
        BY <2>1, <2>2, <2>3, DoneFrame
<1>7. ASSUME NEW th \in Threads, Return(th) PROVE DoneInv'
    <2>0. graph' = graph
        BY VisitedGrows
    <2> SUFFICES ASSUME NEW m \in Node, visited'[m] = "DONE"
                 PROVE  \/ \A k \in DOMAIN graph.neighbours[m] :
                               visited'[graph.neighbours[m][k]] # "NOT_VISITED"
                        \/ \E t \in Threads : ScansNode(t, m)'
                        \/ m = Root /\ pc'[Main] \in {"declare", "broadcast"}
        BY <2>0 DEF DoneInv, Marked
    <2>1. visited' = visited /\ arg' = arg
        BY <1>7 DEF Return
    <2>2. CASE ScansNode(th, m)
        <3>1. /\ \A k \in DOMAIN graph.neighbours[m] :
                     k < cursor[th] => Marked(graph.neighbours[m][k])
              /\ cursor[th] > Degree(m)
            BY <1>7, <2>2 DEF Return, ScansNode, ScanInv, ScanOK
        <3>2. DOMAIN graph.neighbours[m] = 1 .. Degree(m) /\ Degree(m) \in Nat /\ cursor[th] \in Nat
            BY GraphType
        <3>3. \A k \in DOMAIN graph.neighbours[m] : Marked(graph.neighbours[m][k])
            BY <3>1, <3>2
        <3> QED
            BY <3>3, NeighbourStaysMarked, ZenonT(60)
    <2>3. CASE ~ScansNode(th, m)
        <3>1. ASSUME NEW t \in Threads, ScansNode(t, m) PROVE ScansNode(t, m)'
            BY <1>7, <3>1, <2>3 DEF Return, ScansNode
        <3>2. pc[Main] \in {"declare", "broadcast"} => pc'[Main] = pc[Main]
            BY <1>7 DEF Return
        <3> QED
            BY <2>1, <3>1, <3>2, NeighbourStaysMarked, ZenonT(60) DEF DoneInv
    <2> QED
        BY <2>2, <2>3
<1>8. ASSUME NEW w \in Workers, CheckStatus(w), UNCHANGED <<graph, visited, sum, cursor>> PROVE DoneInv'
    <2>1. \A t \in Threads : pc[t] \in {"scan", "enqueue"} =>
              pc'[t] \in {"scan", "enqueue"} /\ arg'[t] = arg[t]
        BY <1>8 DEF CheckStatus
    <2>2. \A m \in Node : visited'[m] = "DONE" => visited[m] = "DONE"
        BY <1>8 DEF CheckStatus
    <2>3. pc[Main] \in {"declare", "broadcast"} => pc'[Main] \in {"declare", "broadcast"}
        BY <1>8 DEF CheckStatus
    <2> QED
        BY <2>1, <2>2, <2>3, DoneFrame
<1>9. ASSUME NEW w \in Workers, FinishWork(w), UNCHANGED <<graph, visited, sum, cursor>> PROVE DoneInv'
    <2>1. \A t \in Threads : pc[t] \in {"scan", "enqueue"} =>
              pc'[t] \in {"scan", "enqueue"} /\ arg'[t] = arg[t]
        BY <1>9 DEF FinishWork, Broadcasted, Waiting, LastActive
    <2>2. \A m \in Node : visited'[m] = "DONE" => visited[m] = "DONE"
        BY <1>9 DEF FinishWork
    <2>3. pc[Main] \in {"declare", "broadcast"} => pc'[Main] \in {"declare", "broadcast"}
        BY <1>9 DEF FinishWork, Broadcasted, Waiting, LastActive
    <2> QED
        BY <2>1, <2>2, <2>3, DoneFrame
<1>10. ASSUME NEW w \in Workers, EnterDequeue(w), UNCHANGED <<graph, visited, sum, cursor>> PROVE DoneInv'
    <2>1. \A t \in Threads : pc[t] \in {"scan", "enqueue"} =>
              pc'[t] \in {"scan", "enqueue"} /\ arg'[t] = arg[t]
        BY <1>10 DEF EnterDequeue
    <2>2. \A m \in Node : visited'[m] = "DONE" => visited[m] = "DONE"
        BY <1>10 DEF EnterDequeue
    <2>3. pc[Main] \in {"declare", "broadcast"} => pc'[Main] \in {"declare", "broadcast"}
        BY <1>10 DEF EnterDequeue
    <2> QED
        BY <2>1, <2>2, <2>3, DoneFrame
<1>11. ASSUME NEW w \in Workers, Wait(w), UNCHANGED <<graph, visited, sum, cursor>> PROVE DoneInv'
    <2>1. \A t \in Threads : pc[t] \in {"scan", "enqueue"} =>
              pc'[t] \in {"scan", "enqueue"} /\ arg'[t] = arg[t]
        BY <1>11 DEF Wait
    <2>2. \A m \in Node : visited'[m] = "DONE" => visited[m] = "DONE"
        BY <1>11 DEF Wait
    <2>3. pc[Main] \in {"declare", "broadcast"} => pc'[Main] \in {"declare", "broadcast"}
        BY <1>11 DEF Wait
    <2> QED
        BY <2>1, <2>2, <2>3, DoneFrame
<1>12. ASSUME NEW w \in Workers, SpuriousWakeup(w), UNCHANGED <<graph, visited, sum, cursor>> PROVE DoneInv'
    <2>1. \A t \in Threads : pc[t] \in {"scan", "enqueue"} =>
              pc'[t] \in {"scan", "enqueue"} /\ arg'[t] = arg[t]
        BY <1>12 DEF SpuriousWakeup
    <2>2. \A m \in Node : visited'[m] = "DONE" => visited[m] = "DONE"
        BY <1>12 DEF SpuriousWakeup
    <2>3. pc[Main] \in {"declare", "broadcast"} => pc'[Main] \in {"declare", "broadcast"}
        BY <1>12 DEF SpuriousWakeup
    <2> QED
        BY <2>1, <2>2, <2>3, DoneFrame
<1>13. ASSUME NEW w \in Workers, WakeFinished(w), UNCHANGED <<graph, visited, sum, cursor>> PROVE DoneInv'
    <2>1. \A t \in Threads : pc[t] \in {"scan", "enqueue"} =>
              pc'[t] \in {"scan", "enqueue"} /\ arg'[t] = arg[t]
        BY <1>13 DEF WakeFinished
    <2>2. \A m \in Node : visited'[m] = "DONE" => visited[m] = "DONE"
        BY <1>13 DEF WakeFinished
    <2>3. pc[Main] \in {"declare", "broadcast"} => pc'[Main] \in {"declare", "broadcast"}
        BY <1>13 DEF WakeFinished
    <2> QED
        BY <2>1, <2>2, <2>3, DoneFrame
<1>14. ASSUME NEW w \in Workers, WakeRetest(w), UNCHANGED <<graph, visited, sum, cursor>> PROVE DoneInv'
    <2>1. \A t \in Threads : pc[t] \in {"scan", "enqueue"} =>
              pc'[t] \in {"scan", "enqueue"} /\ arg'[t] = arg[t]
        BY <1>14 DEF WakeRetest
    <2>2. \A m \in Node : visited'[m] = "DONE" => visited[m] = "DONE"
        BY <1>14 DEF WakeRetest
    <2>3. pc[Main] \in {"declare", "broadcast"} => pc'[Main] \in {"declare", "broadcast"}
        BY <1>14 DEF WakeRetest
    <2> QED
        BY <2>1, <2>2, <2>3, DoneFrame
<1>15. ASSUME NEW w \in Workers, TakeTask(w), UNCHANGED <<graph, visited, sum, cursor>> PROVE DoneInv'
    <2>1. \A t \in Threads : pc[t] \in {"scan", "enqueue"} =>
              pc'[t] \in {"scan", "enqueue"} /\ arg'[t] = arg[t]
        BY <1>15 DEF TakeTask
    <2>2. \A m \in Node : visited'[m] = "DONE" => visited[m] = "DONE"
        BY <1>15 DEF TakeTask
    <2>3. pc[Main] \in {"declare", "broadcast"} => pc'[Main] \in {"declare", "broadcast"}
        BY <1>15 DEF TakeTask
    <2> QED
        BY <2>1, <2>2, <2>3, DoneFrame
<1>16. CASE WaitForCompletion
    <2>1. \A t \in Threads : pc[t] \in {"scan", "enqueue"} =>
              pc'[t] \in {"scan", "enqueue"} /\ arg'[t] = arg[t]
        BY <1>16 DEF WaitForCompletion, JoinWorkers
    <2>2. \A m \in Node : visited'[m] = "DONE" => visited[m] = "DONE"
        BY <1>16 DEF WaitForCompletion
    <2>3. pc[Main] \in {"declare", "broadcast"} => pc'[Main] \in {"declare", "broadcast"}
        BY <1>16 DEF WaitForCompletion, JoinWorkers
    <2> QED
        BY <2>1, <2>2, <2>3, DoneFrame
<1>17. CASE Destroy
    <2>1. \A t \in Threads : pc[t] \in {"scan", "enqueue"} =>
              pc'[t] \in {"scan", "enqueue"} /\ arg'[t] = arg[t]
        BY <1>17 DEF Destroy, DestroyThreadpool
    <2>2. \A m \in Node : visited'[m] = "DONE" => visited[m] = "DONE"
        BY <1>17 DEF Destroy
    <2>3. pc[Main] \in {"declare", "broadcast"} => pc'[Main] \in {"declare", "broadcast"}
        BY <1>17 DEF Destroy, DestroyThreadpool
    <2> QED
        BY <2>1, <2>2, <2>3, DoneFrame
<1> QED
    BY <1>0, <1>1, <1>2, <1>3, <1>4, <1>5, <1>6, <1>7, <1>8,
       <1>9, <1>10, <1>11, <1>12, <1>13, <1>14, <1>15, <1>16, <1>17
    DEF Next, ProcessNode, Worker, Spurious, WorkerStep, Terminated

\* Only two actions write visited.
LEMMA VisitedChanges ==
    ASSUME [Next]_vars
    PROVE  \/ \E th \in Threads : Visit(th) \/ MarkNeighbour(th)
           \/ UNCHANGED <<graph, visited>>
BY DEF Next, ProcessNode, Worker, Spurious, Terminated, vars, poolVars, WaitForCompletion, Destroy,
       DeclareFinished, BroadcastFinished, SkipNeighbour, EnqueueNeighbour, Return

LEMMA FrontierInvStep ==
    ASSUME IInv, [Next]_vars
    PROVE  FrontierInv'
<1> USE DEF IInv, TypeOK
<1>0. graph' = graph
    BY VisitedGrows
<1>1. SUFFICES ASSUME NEW n \in Node, visited'[n] # "NOT_VISITED", n # Root
               PROVE  \E m \in Node : visited'[m] = "DONE" /\ Traverse!IsNeighbour(graph, m, n)
    BY <1>0 DEF FrontierInv, Marked
<1>2. CASE Marked(n)
    <2>1. PICK m \in Node : visited[m] = "DONE" /\ Traverse!IsNeighbour(graph, m, n)
        BY <1>1, <1>2 DEF FrontierInv
    <2> QED
        BY <2>1, VisitedGrows
<1>3. CASE ~Marked(n)
    <2>1. ASSUME NEW th \in Threads, Visit(th) PROVE FALSE
        <3>1. arg[th] = n
            BY <1>1, <1>3, <2>1 DEF Visit, Marked
        <3> QED
            BY <1>1, <1>3, <2>1, <3>1, CarriedNodes DEF Visit, Marked, MainInv
    <2>2. ASSUME NEW th \in Threads, MarkNeighbour(th)
          PROVE  \E m \in Node : visited'[m] = "DONE" /\ Traverse!IsNeighbour(graph, m, n)
        <3>1. Target(th) = n /\ pc[th] = "scan"
            BY <1>1, <1>3, <2>2 DEF MarkNeighbour, Marked
        <3>2. visited[arg[th]] = "DONE" /\ arg[th] \in Node
            BY <3>1 DEF ScanInv, ScanOK
        <3>3. Traverse!IsNeighbour(graph, arg[th], n)
            BY <2>2, <3>1, TargetIsNode DEF MarkNeighbour, Traverse!IsNeighbour, Target
        <3> QED
            BY <3>2, <3>3, VisitedGrows
    <2>3. CASE UNCHANGED <<graph, visited>>
        BY <1>1, <1>3, <2>3 DEF Marked
    <2> QED
        BY <2>1, <2>2, <2>3, VisitedChanges
<1> QED
    BY <1>2, <1>3

\* No worker leaves before the pool is FINISHED.
LEMMA StatusInvStep ==
    ASSUME IInv, [Next]_vars
    PROVE  StatusInv'
<1> USE DEF IInv, TypeOK, StatusInv, Degree, BeforeFirstTask
<1>0. CASE UNCHANGED vars
    BY <1>0 DEF vars, poolVars
<1>1. ASSUME NEW th \in Threads, Visit(th) PROVE StatusInv'
    BY <1>1, CarriedNodes, ZenonT(60) DEF Visit, MainInv
<1>2. ASSUME NEW th \in Threads, DeclareFinished(th) PROVE StatusInv'
    BY <1>2 DEF DeclareFinished
<1>3. ASSUME NEW th \in Threads, BroadcastFinished(th) PROVE StatusInv'
    BY <1>3 DEF BroadcastFinished, Broadcasted, Waiting
<1>4. ASSUME NEW th \in Threads, MarkNeighbour(th) PROVE StatusInv'
    <2>1. Degree(Root) # 0
        <3>1. CASE th = Main
            BY <1>4, <3>1, GraphType DEF MarkNeighbour, MainInv
        <3>2. CASE th \in Workers
            BY <1>4, <3>2 DEF MarkNeighbour
        <3> QED
            BY <3>1, <3>2
    <2>2. th \in Workers => status # "NOT_STARTED"
        BY <1>4 DEF MarkNeighbour
    <2>3. status' = status /\ queue' = queue /\ graph' = graph
        BY <1>4 DEF MarkNeighbour
    <2>4. \A w \in Workers : pc'[w] = pc[w] \/ (w = th /\ pc'[w] = "enqueue")
        BY <1>4 DEF MarkNeighbour
    <2>5. Degree(Root)' = Degree(Root)
        BY <2>3 DEF Degree
    <2> QED
        BY <2>1, <2>2, <2>3, <2>4, <2>5
<1>5. ASSUME NEW th \in Threads, SkipNeighbour(th) PROVE StatusInv'
    BY <1>5 DEF SkipNeighbour, poolVars
<1>6. ASSUME NEW th \in Threads, EnqueueNeighbour(th) PROVE StatusInv'
    <2>1. Degree(Root) # 0 /\ status' # "NOT_STARTED"
        <3>1. ~(Degree(Root) = 0)
            BY <1>6 DEF EnqueueNeighbour
        <3> QED
            BY <1>6, <3>1 DEF EnqueueNeighbour, EnqueueTask
    <2>2. \A w \in Workers : pc'[w] = "exited" => pc[w] = "exited"
        BY <1>6, EnqueuedPositions
    <2>3. status = "FINISHED" => status' = "FINISHED"
        BY <1>6 DEF EnqueueNeighbour, EnqueueTask
    <2>4. Degree(Root)' = Degree(Root)
        BY <1>6 DEF EnqueueNeighbour, Degree
    <2> QED
        BY <2>1, <2>2, <2>3, <2>4, VisitedGrows
<1>7. ASSUME NEW th \in Threads, Return(th) PROVE StatusInv'
    BY <1>7 DEF Return
<1>8. ASSUME NEW w \in Workers, CheckStatus(w), UNCHANGED <<graph, visited, sum, cursor>> PROVE StatusInv'
    BY <1>8 DEF CheckStatus
<1>9. ASSUME NEW w \in Workers, FinishWork(w), UNCHANGED <<graph, visited, sum, cursor>> PROVE StatusInv'
    BY <1>9 DEF FinishWork, Broadcasted, Waiting, LastActive
<1>10. ASSUME NEW w \in Workers, EnterDequeue(w), UNCHANGED <<graph, visited, sum, cursor>> PROVE StatusInv'
    BY <1>10 DEF EnterDequeue
<1>11. ASSUME NEW w \in Workers, Wait(w), UNCHANGED <<graph, visited, sum, cursor>> PROVE StatusInv'
    BY <1>11 DEF Wait
<1>12. ASSUME NEW w \in Workers, SpuriousWakeup(w), UNCHANGED <<graph, visited, sum, cursor>> PROVE StatusInv'
    BY <1>12 DEF SpuriousWakeup
<1>13. ASSUME NEW w \in Workers, WakeFinished(w), UNCHANGED <<graph, visited, sum, cursor>> PROVE StatusInv'
    BY <1>13 DEF WakeFinished
<1>14. ASSUME NEW w \in Workers, WakeRetest(w), UNCHANGED <<graph, visited, sum, cursor>> PROVE StatusInv'
    BY <1>14 DEF WakeRetest
<1>15. ASSUME NEW w \in Workers, TakeTask(w), UNCHANGED <<graph, visited, sum, cursor>> PROVE StatusInv'
    <2>1. status # "NOT_STARTED" /\ Degree(Root) # 0
        BY <1>15 DEF TakeTask, BeforeFirstTask
    <2> QED
        BY <1>15, <2>1 DEF TakeTask
<1>16. CASE WaitForCompletion
    BY <1>16 DEF WaitForCompletion, JoinWorkers
<1>17. CASE Destroy
    BY <1>17 DEF Destroy, DestroyThreadpool
<1> QED
    BY <1>0, <1>1, <1>2, <1>3, <1>4, <1>5, <1>6, <1>7, <1>8,
       <1>9, <1>10, <1>11, <1>12, <1>13, <1>14, <1>15, <1>16, <1>17
    DEF Next, ProcessNode, Worker, Spurious, WorkerStep, Terminated

LEMMA IdleSets ==
    /\ Idling \subseteq IdleOrGone /\ IdleOrGone \subseteq Workers
    /\ IsFiniteSet(Idling) /\ IsFiniteSet(IdleOrGone)
    /\ Cardinality(Idling) \in Nat /\ Cardinality(IdleOrGone) \in Nat
    /\ Cardinality(Idling) <= Cardinality(IdleOrGone)
<1>1. Idling \subseteq IdleOrGone /\ IdleOrGone \subseteq Workers
    BY DEF Idling, IdleOrGone
<1>2. IsFiniteSet(IdleOrGone)
    BY <1>1, FS_Subset
<1> QED
    BY <1>1, <1>2, FS_Subset, FS_CardinalityType

\* The count stays right when nobody enters or leaves the part it counts.
LEMMA IdleFrame ==
    ASSUME IInv, Idling' = Idling, IdleOrGone \subseteq IdleOrGone',
           idle_threads' = idle_threads, status = "FINISHED" => status' = "FINISHED"
    PROVE  IdleInv'
<1>1. Cardinality(IdleOrGone) <= Cardinality(IdleOrGone')
    <2>1. IsFiniteSet(IdleOrGone')
        BY FS_Subset DEF IdleOrGone, Idling
    <2> QED
        BY <2>1, FS_Subset
<1>2. Cardinality(IdleOrGone') \in Nat
    BY FS_Subset, FS_CardinalityType DEF IdleOrGone, Idling
<1> QED
    BY <1>1, <1>2, IdleSets DEF IInv, IdleInv, TypeOK

\* The counter follows the workers that wait, up to those that leave without the decrement.
LEMMA IdleInvStep ==
    ASSUME IInv, [Next]_vars
    PROVE  IdleInv'
<1> USE DEF IInv, TypeOK
<1>0. CASE UNCHANGED vars
    BY <1>0 DEF vars, poolVars, IdleInv, Idling, IdleOrGone
<1>1. ASSUME NEW th \in Threads, Visit(th) PROVE IdleInv'
    <2>1. Idling' = Idling
        BY <1>1 DEF Visit, Idling
    <2>2. IdleOrGone \subseteq IdleOrGone'
        BY <1>1, <2>1 DEF Visit, IdleOrGone
    <2>3. idle_threads' = idle_threads /\ (status = "FINISHED" => status' = "FINISHED")
        BY <1>1 DEF Visit
    <2> QED
        BY <2>1, <2>2, <2>3, IdleFrame
<1>2. ASSUME NEW th \in Threads, DeclareFinished(th) PROVE IdleInv'
    <2>1. Idling' = Idling
        BY <1>2 DEF DeclareFinished, Idling
    <2>2. IdleOrGone \subseteq IdleOrGone'
        BY <1>2, <2>1 DEF DeclareFinished, IdleOrGone
    <2>3. idle_threads' = idle_threads /\ (status = "FINISHED" => status' = "FINISHED")
        BY <1>2 DEF DeclareFinished
    <2> QED
        BY <2>1, <2>2, <2>3, IdleFrame
<1>3. ASSUME NEW th \in Threads, BroadcastFinished(th) PROVE IdleInv'
    <2>1. Idling' = Idling
        BY <1>3 DEF BroadcastFinished, Broadcasted, Waiting, Idling
    <2>2. IdleOrGone \subseteq IdleOrGone'
        BY <1>3, <2>1 DEF BroadcastFinished, Broadcasted, Waiting, IdleOrGone
    <2>3. idle_threads' = idle_threads /\ (status = "FINISHED" => status' = "FINISHED")
        BY <1>3 DEF BroadcastFinished, Broadcasted, Waiting
    <2> QED
        BY <2>1, <2>2, <2>3, IdleFrame
<1>4. ASSUME NEW th \in Threads, MarkNeighbour(th) PROVE IdleInv'
    <2>1. Idling' = Idling
        BY <1>4 DEF MarkNeighbour, Idling
    <2>2. IdleOrGone \subseteq IdleOrGone'
        BY <1>4, <2>1 DEF MarkNeighbour, IdleOrGone
    <2>3. idle_threads' = idle_threads /\ (status = "FINISHED" => status' = "FINISHED")
        BY <1>4 DEF MarkNeighbour
    <2> QED
        BY <2>1, <2>2, <2>3, IdleFrame
<1>5. ASSUME NEW th \in Threads, SkipNeighbour(th) PROVE IdleInv'
    <2>1. Idling' = Idling
        BY <1>5 DEF SkipNeighbour, poolVars, Idling
    <2>2. IdleOrGone \subseteq IdleOrGone'
        BY <1>5, <2>1 DEF SkipNeighbour, poolVars, IdleOrGone
    <2>3. idle_threads' = idle_threads /\ (status = "FINISHED" => status' = "FINISHED")
        BY <1>5 DEF SkipNeighbour, poolVars
    <2> QED
        BY <2>1, <2>2, <2>3, IdleFrame
<1>6. ASSUME NEW th \in Threads, EnqueueNeighbour(th) PROVE IdleInv'
    <2>1. Idling' = Idling
        BY <1>6, EnqueuedPositions DEF EnqueueNeighbour, EnqueueTask, Idling
    <2>2. IdleOrGone \subseteq IdleOrGone'
        BY <1>6, <2>1, EnqueuedPositions DEF EnqueueNeighbour, EnqueueTask, IdleOrGone
    <2>3. idle_threads' = idle_threads /\ (status = "FINISHED" => status' = "FINISHED")
        BY <1>6 DEF EnqueueNeighbour, EnqueueTask
    <2> QED
        BY <2>1, <2>2, <2>3, IdleFrame
<1>7. ASSUME NEW th \in Threads, Return(th) PROVE IdleInv'
    <2>1. Idling' = Idling
        BY <1>7 DEF Return, Idling
    <2>2. IdleOrGone \subseteq IdleOrGone'
        BY <1>7, <2>1 DEF Return, IdleOrGone
    <2>3. idle_threads' = idle_threads /\ (status = "FINISHED" => status' = "FINISHED")
        BY <1>7 DEF Return
    <2> QED
        BY <2>1, <2>2, <2>3, IdleFrame
<1>8. ASSUME NEW w \in Workers, CheckStatus(w), UNCHANGED <<graph, visited, sum, cursor>> PROVE IdleInv'
    <2>1. Idling' = Idling
        BY <1>8 DEF CheckStatus, Idling
    <2>2. IdleOrGone \subseteq IdleOrGone'
        BY <1>8, <2>1 DEF CheckStatus, IdleOrGone
    <2>3. idle_threads' = idle_threads /\ (status = "FINISHED" => status' = "FINISHED")
        BY <1>8 DEF CheckStatus
    <2> QED
        BY <2>1, <2>2, <2>3, IdleFrame
<1>9. ASSUME NEW w \in Workers, FinishWork(w), UNCHANGED <<graph, visited, sum, cursor>> PROVE IdleInv'
    <2>1. Idling' = Idling
        BY <1>9 DEF FinishWork, Broadcasted, Waiting, LastActive, Idling
    <2>2. IdleOrGone \subseteq IdleOrGone'
        BY <1>9, <2>1 DEF FinishWork, Broadcasted, Waiting, LastActive, IdleOrGone
    <2>3. idle_threads' = idle_threads /\ (status = "FINISHED" => status' = "FINISHED")
        BY <1>9 DEF FinishWork, Broadcasted, Waiting, LastActive
    <2> QED
        BY <2>1, <2>2, <2>3, IdleFrame
<1>10. ASSUME NEW w \in Workers, EnterDequeue(w), UNCHANGED <<graph, visited, sum, cursor>> PROVE IdleInv'
    <2>1. w \notin IdleOrGone /\ w \notin Idling
        BY <1>10 DEF EnterDequeue, Idling, IdleOrGone
    <2>2. Idling' = Idling \cup {w}
        BY <1>10 DEF EnterDequeue, Idling
    <2>3. IdleOrGone' = IdleOrGone \cup {w}
        BY <1>10, <2>2 DEF EnterDequeue, IdleOrGone
    <2>4. /\ Cardinality(Idling') = Cardinality(Idling) + 1
          /\ Cardinality(IdleOrGone') = Cardinality(IdleOrGone) + 1
        BY <2>1, <2>2, <2>3, IdleSets, FS_AddElement
    <2>5. status' = status /\ idle_threads' = idle_threads + 1
        BY <1>10 DEF EnterDequeue
    <2>6. status # "FINISHED" => idle_threads = Cardinality(Idling)
        BY DEF IdleInv
    <2>7. idle_threads \in Cardinality(Idling) .. Cardinality(IdleOrGone)
        BY DEF IdleInv
    <2>8. Cardinality(Idling) \in Nat /\ Cardinality(IdleOrGone) \in Nat
        BY IdleSets
    <2>9. idle_threads' \in Cardinality(Idling') .. Cardinality(IdleOrGone')
        BY <2>4, <2>5, <2>7, <2>8, SMTT(60)
    <2>10. status' # "FINISHED" => idle_threads' = Cardinality(Idling')
        BY <2>4, <2>5, <2>6
    <2> QED
        BY <2>9, <2>10 DEF IdleInv
<1>11. ASSUME NEW w \in Workers, Wait(w), UNCHANGED <<graph, visited, sum, cursor>> PROVE IdleInv'
    <2>1. Idling' = Idling
        BY <1>11 DEF Wait, Idling
    <2>2. IdleOrGone \subseteq IdleOrGone'
        BY <1>11, <2>1 DEF Wait, IdleOrGone
    <2>3. idle_threads' = idle_threads /\ (status = "FINISHED" => status' = "FINISHED")
        BY <1>11 DEF Wait
    <2> QED
        BY <2>1, <2>2, <2>3, IdleFrame
<1>12. ASSUME NEW w \in Workers, SpuriousWakeup(w), UNCHANGED <<graph, visited, sum, cursor>> PROVE IdleInv'
    <2>1. Idling' = Idling
        BY <1>12 DEF SpuriousWakeup, Idling
    <2>2. IdleOrGone \subseteq IdleOrGone'
        BY <1>12, <2>1 DEF SpuriousWakeup, IdleOrGone
    <2>3. idle_threads' = idle_threads /\ (status = "FINISHED" => status' = "FINISHED")
        BY <1>12 DEF SpuriousWakeup
    <2> QED
        BY <2>1, <2>2, <2>3, IdleFrame
<1>13. ASSUME NEW w \in Workers, WakeFinished(w), UNCHANGED <<graph, visited, sum, cursor>> PROVE IdleInv'
    <2>1. w \in Idling /\ Idling' = Idling \ {w}
        BY <1>13 DEF WakeFinished, Idling
    <2>2. IdleOrGone' = IdleOrGone
        BY <1>13, <2>1 DEF WakeFinished, IdleOrGone
    <2>3. Cardinality(Idling') = Cardinality(Idling) - 1
        BY <2>1, IdleSets, FS_RemoveElement
    <2> QED
        BY <1>13, <2>2, <2>3, IdleSets DEF WakeFinished, IdleInv
<1>14. ASSUME NEW w \in Workers, WakeRetest(w), UNCHANGED <<graph, visited, sum, cursor>> PROVE IdleInv'
    <2>1. Idling' = Idling
        BY <1>14 DEF WakeRetest, Idling
    <2>2. IdleOrGone \subseteq IdleOrGone'
        BY <1>14, <2>1 DEF WakeRetest, IdleOrGone
    <2>3. idle_threads' = idle_threads /\ (status = "FINISHED" => status' = "FINISHED")
        BY <1>14 DEF WakeRetest
    <2> QED
        BY <2>1, <2>2, <2>3, IdleFrame
<1>15. ASSUME NEW w \in Workers, TakeTask(w), UNCHANGED <<graph, visited, sum, cursor>> PROVE IdleInv'
    <2>1. w \in Idling /\ w \in IdleOrGone
        BY <1>15 DEF TakeTask, Idling, IdleOrGone
    <2>2. Idling' = Idling \ {w}
        BY <1>15 DEF TakeTask, Idling
    <2>3. Cardinality(Idling') = Cardinality(Idling) - 1
        BY <2>1, <2>2, IdleSets, FS_RemoveElement
    <2>4. CASE status = "FINISHED"
        <3>1. IdleOrGone' = IdleOrGone
            BY <1>15, <2>1, <2>2, <2>4 DEF TakeTask, IdleOrGone
        <3> QED
            BY <1>15, <2>3, <2>4, <3>1, IdleSets, SMTT(60) DEF TakeTask, IdleInv
    <2>5. CASE status # "FINISHED"
        <3>1. IdleOrGone' = IdleOrGone \ {w}
            BY <1>15, <2>1, <2>2, <2>5 DEF TakeTask, IdleOrGone
        <3>2. Cardinality(IdleOrGone') = Cardinality(IdleOrGone) - 1
            BY <2>1, <3>1, IdleSets, FS_RemoveElement
        <3> QED
            BY <1>15, <2>3, <2>5, <3>2, IdleSets, SMTT(60) DEF TakeTask, IdleInv
    <2> QED
        BY <2>4, <2>5
<1>16. CASE WaitForCompletion
    <2>1. Idling' = Idling
        BY <1>16 DEF WaitForCompletion, JoinWorkers, Idling
    <2>2. IdleOrGone \subseteq IdleOrGone'
        BY <1>16, <2>1 DEF WaitForCompletion, JoinWorkers, IdleOrGone
    <2>3. idle_threads' = idle_threads /\ (status = "FINISHED" => status' = "FINISHED")
        BY <1>16 DEF WaitForCompletion, JoinWorkers
    <2> QED
        BY <2>1, <2>2, <2>3, IdleFrame
<1>17. CASE Destroy
    <2>1. Idling' = Idling
        BY <1>17 DEF Destroy, DestroyThreadpool, Idling
    <2>2. IdleOrGone \subseteq IdleOrGone'
        BY <1>17, <2>1 DEF Destroy, DestroyThreadpool, IdleOrGone
    <2>3. idle_threads' = idle_threads /\ (status = "FINISHED" => status' = "FINISHED")
        BY <1>17 DEF Destroy, DestroyThreadpool
    <2> QED
        BY <2>1, <2>2, <2>3, IdleFrame
<1> QED
    BY <1>0, <1>1, <1>2, <1>3, <1>4, <1>5, <1>6, <1>7, <1>8,
       <1>9, <1>10, <1>11, <1>12, <1>13, <1>14, <1>15, <1>16, <1>17
    DEF Next, ProcessNode, Worker, Spurious, WorkerStep, Terminated

\* Who writes status.
LEMMA StatusChanges ==
    ASSUME [Next]_vars
    PROVE  \/ status' = status
           \/ \E w \in Workers : FinishWork(w) /\ UNCHANGED <<graph, visited, sum, cursor>>
           \/ \E th \in Threads : DeclareFinished(th)
           \/ \E th \in Threads : EnqueueNeighbour(th)
BY DEF Next, ProcessNode, Worker, WorkerStep, Spurious, Terminated, vars, poolVars, WaitForCompletion,
       JoinWorkers, Destroy, DestroyThreadpool, Visit, BroadcastFinished, MarkNeighbour, SkipNeighbour,
       Return, CheckStatus, EnterDequeue, Wait, SpuriousWakeup, WakeFinished, WakeRetest, TakeTask

\* The worker that finishes the pool is the only one outside pthread_cond_wait,
\* so what is marked and not done is in main's hands.
LEMMA FinisherIsAlone ==
    ASSUME IInv, NEW w \in Workers, FinishWork(w)
    PROVE  /\ \A u \in Workers \ {w} : pc[u] \in {"waiting", "woken"}
           /\ \A n \in Node : visited[n] = "PROCESSING" => pc[Main] = "enqueue" /\ Target(Main) = n
<1> USE DEF IInv, TypeOK
<1>1. /\ idle_threads = Cardinality(Workers) - 1 /\ status = "STARTED" /\ queue = <<>>
      /\ pc[w] = "enter" /\ QueueLockFree
    BY DEF FinishWork, LastActive
<1>2. Cardinality(Idling) = Cardinality(Workers) - 1
    BY <1>1 DEF IdleInv
<1>3. Idling \subseteq Workers \ {w}
    BY <1>1 DEF Idling
<1>4. IsFiniteSet(Workers \ {w}) /\ Cardinality(Workers \ {w}) = Cardinality(Workers) - 1
    BY FS_RemoveElement
<1>5. Idling = Workers \ {w}
    BY <1>2, <1>3, <1>4, FS_Subset
<1>6. \A u \in Workers \ {w} : pc[u] \in {"waiting", "woken"}
    BY <1>1, <1>5 DEF Idling, QueueLockFree
<1>7. ASSUME NEW n \in Node, visited[n] = "PROCESSING"
      PROVE  pc[Main] = "enqueue" /\ Target(Main) = n
    <2>1. pc[Main] # "done"
        BY <1>1 DEF MainInv
    <2>2. PICK th \in Threads : Carries(th, n)
        BY <1>1, <1>7, <2>1 DEF MarkedNodeIsInOnePlace, Queued
    <2>3. th = Main
        BY <1>1, <1>6, <2>2 DEF Carries
    <2> QED
        BY <2>2, <2>3 DEF Carries
<1> QED
    BY <1>6, <1>7

\* After FINISHED nobody takes another task.
LEMMA FinishedMeansQuiescentStep ==
    ASSUME IInv, [Next]_vars
    PROVE  FinishedMeansQuiescent'
<1> USE DEF IInv, TypeOK, FinishedMeansQuiescent
<1>0. CASE UNCHANGED vars
    BY <1>0 DEF vars, poolVars, Degree
<1>1. ASSUME NEW th \in Threads, Visit(th) PROVE FinishedMeansQuiescent'
    <2>1. status' = status /\ Degree(Root)' = Degree(Root)
        BY <1>1 DEF Visit, Degree
    <2>2. status = "FINISHED" /\ Degree(Root) > 0 =>
              \A u \in Workers : pc'[u] \in {"woken", "exited"}
        BY <1>1 DEF Visit
    <2> QED
        BY <2>1, <2>2
<1>2. ASSUME NEW th \in Threads, DeclareFinished(th) PROVE FinishedMeansQuiescent'
    <2>1. Degree(Root)' = 0
        BY <1>2 DEF DeclareFinished, MainInv, Degree
    <2> QED
        BY <2>1
<1>3. ASSUME NEW th \in Threads, BroadcastFinished(th) PROVE FinishedMeansQuiescent'
    <2>1. status' = status /\ Degree(Root)' = Degree(Root)
        BY <1>3 DEF BroadcastFinished, Broadcasted, Waiting, Degree
    <2>2. status = "FINISHED" /\ Degree(Root) > 0 =>
              \A u \in Workers : pc'[u] \in {"woken", "exited"}
        BY <1>3 DEF BroadcastFinished, Broadcasted, Waiting
    <2> QED
        BY <2>1, <2>2
<1>4. ASSUME NEW th \in Threads, MarkNeighbour(th) PROVE FinishedMeansQuiescent'
    <2>1. status' = status /\ Degree(Root)' = Degree(Root)
        BY <1>4 DEF MarkNeighbour, Degree
    <2>2. status = "FINISHED" /\ Degree(Root) > 0 =>
              \A u \in Workers : pc'[u] \in {"woken", "exited"}
        BY <1>4 DEF MarkNeighbour
    <2> QED
        BY <2>1, <2>2
<1>5. ASSUME NEW th \in Threads, SkipNeighbour(th) PROVE FinishedMeansQuiescent'
    <2>1. status' = status /\ Degree(Root)' = Degree(Root)
        BY <1>5 DEF SkipNeighbour, poolVars, Degree
    <2>2. status = "FINISHED" /\ Degree(Root) > 0 =>
              \A u \in Workers : pc'[u] \in {"woken", "exited"}
        BY <1>5 DEF SkipNeighbour, poolVars
    <2> QED
        BY <2>1, <2>2
<1>6. ASSUME NEW th \in Threads, EnqueueNeighbour(th) PROVE FinishedMeansQuiescent'
    <2>1. status' = "FINISHED" => status = "FINISHED"
        BY <1>6 DEF EnqueueNeighbour, EnqueueTask
    <2>2. Degree(Root)' = Degree(Root)
        BY <1>6 DEF EnqueueNeighbour, Degree
    <2>3. status = "FINISHED" /\ Degree(Root) > 0 =>
              \A u \in Workers : pc'[u] \in {"woken", "exited"}
        BY <1>6, EnqueuedPositions DEF EnqueueNeighbour
    <2> QED
        BY <2>1, <2>2, <2>3
<1>7. ASSUME NEW th \in Threads, Return(th) PROVE FinishedMeansQuiescent'
    <2>1. status' = status /\ Degree(Root)' = Degree(Root)
        BY <1>7 DEF Return, Degree
    <2>2. status = "FINISHED" /\ Degree(Root) > 0 =>
              \A u \in Workers : pc'[u] \in {"woken", "exited"}
        BY <1>7 DEF Return
    <2> QED
        BY <2>1, <2>2
<1>8. ASSUME NEW w \in Workers, CheckStatus(w), UNCHANGED <<graph, visited, sum, cursor>> PROVE FinishedMeansQuiescent'
    <2>1. status' = status /\ Degree(Root)' = Degree(Root)
        BY <1>8 DEF CheckStatus, Degree
    <2>2. status = "FINISHED" /\ Degree(Root) > 0 =>
              \A u \in Workers : pc'[u] \in {"woken", "exited"}
        BY <1>8 DEF CheckStatus
    <2> QED
        BY <2>1, <2>2
<1>9. ASSUME NEW w \in Workers, FinishWork(w), UNCHANGED <<graph, visited, sum, cursor>> PROVE FinishedMeansQuiescent'
    <2>1. \A u \in Workers : pc'[u] \in {"woken", "exited"}
        BY <1>9, FinisherIsAlone DEF FinishWork, Broadcasted, Waiting
    <2> QED
        BY <2>1
<1>10. ASSUME NEW w \in Workers, EnterDequeue(w), UNCHANGED <<graph, visited, sum, cursor>> PROVE FinishedMeansQuiescent'
    <2>1. status' = status /\ Degree(Root)' = Degree(Root)
        BY <1>10 DEF EnterDequeue, Degree
    <2>2. status = "FINISHED" /\ Degree(Root) > 0 =>
              \A u \in Workers : pc'[u] \in {"woken", "exited"}
        BY <1>10 DEF EnterDequeue
    <2> QED
        BY <2>1, <2>2
<1>11. ASSUME NEW w \in Workers, Wait(w), UNCHANGED <<graph, visited, sum, cursor>> PROVE FinishedMeansQuiescent'
    <2>1. status' = status /\ Degree(Root)' = Degree(Root)
        BY <1>11 DEF Wait, Degree
    <2>2. status = "FINISHED" /\ Degree(Root) > 0 =>
              \A u \in Workers : pc'[u] \in {"woken", "exited"}
        BY <1>11 DEF Wait
    <2> QED
        BY <2>1, <2>2
<1>12. ASSUME NEW w \in Workers, SpuriousWakeup(w), UNCHANGED <<graph, visited, sum, cursor>> PROVE FinishedMeansQuiescent'
    <2>1. status' = status /\ Degree(Root)' = Degree(Root)
        BY <1>12 DEF SpuriousWakeup, Degree
    <2>2. status = "FINISHED" /\ Degree(Root) > 0 =>
              \A u \in Workers : pc'[u] \in {"woken", "exited"}
        BY <1>12 DEF SpuriousWakeup
    <2> QED
        BY <2>1, <2>2
<1>13. ASSUME NEW w \in Workers, WakeFinished(w), UNCHANGED <<graph, visited, sum, cursor>> PROVE FinishedMeansQuiescent'
    <2>1. status' = status /\ Degree(Root)' = Degree(Root)
        BY <1>13 DEF WakeFinished, Degree
    <2>2. status = "FINISHED" /\ Degree(Root) > 0 =>
              \A u \in Workers : pc'[u] \in {"woken", "exited"}
        BY <1>13 DEF WakeFinished
    <2> QED
        BY <2>1, <2>2
<1>14. ASSUME NEW w \in Workers, WakeRetest(w), UNCHANGED <<graph, visited, sum, cursor>> PROVE FinishedMeansQuiescent'
    <2>1. status' = status /\ Degree(Root)' = Degree(Root)
        BY <1>14 DEF WakeRetest, Degree
    <2>2. status = "FINISHED" /\ Degree(Root) > 0 =>
              \A u \in Workers : pc'[u] \in {"woken", "exited"}
        BY <1>14 DEF WakeRetest
    <2> QED
        BY <2>1, <2>2
<1>15. ASSUME NEW w \in Workers, TakeTask(w), UNCHANGED <<graph, visited, sum, cursor>> PROVE FinishedMeansQuiescent'
    <2>1. status' = status /\ Degree(Root)' = Degree(Root)
        BY <1>15 DEF TakeTask, Degree
    <2>2. status = "FINISHED" /\ Degree(Root) > 0 =>
              \A u \in Workers : pc'[u] \in {"woken", "exited"}
        BY <1>15 DEF TakeTask
    <2> QED
        BY <2>1, <2>2
<1>16. CASE WaitForCompletion
    <2>1. status' = status /\ Degree(Root)' = Degree(Root)
        BY <1>16 DEF WaitForCompletion, JoinWorkers, Degree
    <2>2. status = "FINISHED" /\ Degree(Root) > 0 =>
              \A u \in Workers : pc'[u] \in {"woken", "exited"}
        BY <1>16 DEF WaitForCompletion, JoinWorkers
    <2> QED
        BY <2>1, <2>2
<1>17. CASE Destroy
    <2>1. status' = status /\ Degree(Root)' = Degree(Root)
        BY <1>17 DEF Destroy, DestroyThreadpool, Degree
    <2>2. status = "FINISHED" /\ Degree(Root) > 0 =>
              \A u \in Workers : pc'[u] \in {"woken", "exited"}
        BY <1>17 DEF Destroy, DestroyThreadpool
    <2> QED
        BY <2>1, <2>2
<1> QED
    BY <1>0, <1>1, <1>2, <1>3, <1>4, <1>5, <1>6, <1>7, <1>8,
       <1>9, <1>10, <1>11, <1>12, <1>13, <1>14, <1>15, <1>16, <1>17
    DEF Next, ProcessNode, Worker, Spurious, WorkerStep, Terminated

\* An isolated node 0 is the only node of its traversal.
LEMMA IsolatedRoot ==
    ASSUME IInv, Degree(Root) = 0
    PROVE  \A n \in Node : visited[n] # "PROCESSING" /\ (Marked(n) => n = Root)
BY DEF IInv, TypeOK, StatusInv, MainInv, Marked

\* Once the pool of another graph is FINISHED, main marks what is left and
\* nothing is visited.
LEMMA AfterFinished ==
    ASSUME IInv, [Next]_vars, status = "FINISHED", Degree(Root) > 0
    PROVE  /\ status' = "FINISHED"
           /\ MarkNeighbour(Main) \/ UNCHANGED <<graph, visited>>
<1> USE DEF IInv, TypeOK
<1>1. status' = "FINISHED"
    BY StatusChanges DEF FinishWork, LastActive, DeclareFinished, EnqueueNeighbour, EnqueueTask
<1>2. ASSUME NEW th \in Threads, Visit(th) PROVE FALSE
    BY <1>2 DEF Visit, MainInv, FinishedMeansQuiescent
<1>3. ASSUME NEW th \in Threads, MarkNeighbour(th) PROVE th = Main
    BY <1>3 DEF MarkNeighbour, FinishedMeansQuiescent
<1> QED
    BY <1>1, <1>2, <1>3, VisitedChanges

LEMMA OnlyMainsTasksAreLostStep ==
    ASSUME IInv, [Next]_vars, (StatusInv /\ MainInv /\ TypeOK)'
    PROVE  OnlyMainsTasksAreLost'
<1>6. ASSUME NEW m \in Node, NEW k \in DOMAIN graph.neighbours[m], Marked(graph.neighbours[m][k])
      PROVE  visited'[graph.neighbours[m][k]] # "NOT_VISITED"
    BY <1>6, NeighbourStaysMarked
<1> USE DEF IInv, TypeOK
<1>0. graph' = graph
    BY VisitedGrows
<1>1. SUFFICES ASSUME status' = "FINISHED"
               PROVE  /\ \A n \in Node : visited'[n] = "PROCESSING" =>
                             Traverse!IsNeighbour(graph, Root, n)
                      /\ \A m \in Node \ {Root} : visited'[m] = "DONE" =>
                             \A k \in DOMAIN graph.neighbours[m] :
                                 visited'[graph.neighbours[m][k]] # "NOT_VISITED"
    BY <1>0 DEF OnlyMainsTasksAreLost, Marked, Traverse!IsNeighbour
<1>2. CASE Degree(Root) = 0
    <2>1. Degree(Root)' = 0
        BY <1>0, <1>2 DEF Degree
    <2> QED
        BY <2>1 DEF StatusInv, MainInv
<1>3. CASE Degree(Root) > 0 /\ status = "FINISHED"
    <2>1. ASSUME NEW n \in Node, visited'[n] = "PROCESSING"
          PROVE  Traverse!IsNeighbour(graph, Root, n)
        <3>1. CASE visited[n] = "PROCESSING"
            BY <1>3, <3>1 DEF OnlyMainsTasksAreLost, Traverse!IsNeighbour
        <3>2. CASE visited[n] # "PROCESSING"
            <4>1. MarkNeighbour(Main) /\ n = Target(Main) /\ arg[Main] = Root
                BY <1>3, <2>1, <3>2, AfterFinished DEF MarkNeighbour, MainInv
            <4> QED
                BY <4>1, TargetIsNode DEF MarkNeighbour, Target, Traverse!IsNeighbour
        <3> QED
            BY <3>1, <3>2
    <2>2. ASSUME NEW m \in Node \ {Root}, visited'[m] = "DONE",
                 NEW k \in DOMAIN graph.neighbours[m]
          PROVE  visited'[graph.neighbours[m][k]] # "NOT_VISITED"
        <3>1. visited[m] = "DONE"
            BY <1>3, <2>2, AfterFinished DEF MarkNeighbour
        <3>2. Marked(graph.neighbours[m][k])
            BY <1>3, <3>1 DEF OnlyMainsTasksAreLost
        <3> QED
            BY <1>6, <3>2
    <2> QED
        BY <2>1, <2>2
<1>4. CASE Degree(Root) > 0 /\ status # "FINISHED"
    <2>1. PICK w \in Workers : FinishWork(w) /\ UNCHANGED <<graph, visited, sum, cursor>>
        <3>1. ASSUME NEW th \in Threads, DeclareFinished(th) PROVE FALSE
            BY <1>4, <3>1 DEF DeclareFinished, MainInv
        <3>2. ASSUME NEW th \in Threads, EnqueueNeighbour(th) PROVE FALSE
            BY <1>1, <1>4, <3>2 DEF EnqueueNeighbour, EnqueueTask
        <3> QED
            BY <1>1, <1>4, <3>1, <3>2, StatusChanges
    <2>2. ASSUME NEW n \in Node, visited'[n] = "PROCESSING"
          PROVE  Traverse!IsNeighbour(graph, Root, n)
        <3>1. pc[Main] = "enqueue" /\ Target(Main) = n /\ arg[Main] = Root
            BY <2>1, <2>2, FinisherIsAlone DEF MainInv
        <3>2. cursor[Main] \in DOMAIN graph.neighbours[Root]
            BY <3>1 DEF ScanInv, ScanOK
        <3> QED
            BY <3>1, <3>2 DEF Target, Traverse!IsNeighbour
    <2>3. ASSUME NEW m \in Node \ {Root}, visited'[m] = "DONE",
                 NEW k \in DOMAIN graph.neighbours[m]
          PROVE  visited'[graph.neighbours[m][k]] # "NOT_VISITED"
        <3>1. \A th \in Threads : ~ScansNode(th, m)
            BY <2>1, FinisherIsAlone, ZenonT(60) DEF ScansNode, FinishWork, MainInv
        <3> QED
            BY <2>1, <2>3, <3>1 DEF DoneInv, Marked
    <2> QED
        BY <2>2, <2>3
<1>5. Degree(Root) = 0 \/ Degree(Root) > 0
    <2>1. Degree(Root) \in Nat
        BY GraphType
    <2> QED
        BY <2>1
<1> QED
    BY <1>2, <1>3, <1>4, <1>5

LEMMA SingleStartInvStep ==
    ASSUME IInv, [Next]_vars, (StatusInv /\ MainInv /\ TypeOK)'
    PROVE  SingleStartInv'
<1> DEFINE Marks(k) == visited'[graph.neighbours[Root][k]] # "NOT_VISITED"
<1>6. ASSUME NEW k \in DOMAIN graph.neighbours[Root], Marked(graph.neighbours[Root][k])
      PROVE  Marks(k)
    BY <1>6, NeighbourStaysMarked
<1> USE DEF IInv, TypeOK
<1>0. graph' = graph
    BY VisitedGrows
<1>1. SUFFICES ASSUME SingleStart(graph), status' # "NOT_STARTED"
               PROVE  /\ pc'[Main] # "enqueue"
                      /\ \A k \in DOMAIN graph.neighbours[Root] : Marks(k)
                      /\ status' = "FINISHED" => \A n \in Node : visited'[n] # "PROCESSING"
    BY <1>0 DEF SingleStartInv, Marked, SingleStart
<1>2. CASE Degree(Root) = 0
    <2>1. Degree(Root)' = 0
        BY <1>0, <1>2 DEF Degree
    <2>2. DOMAIN graph.neighbours[Root] = {}
        <3>1. DOMAIN graph.neighbours[Root] = 1 .. Degree(Root)
            BY GraphType
        <3> QED
            BY <1>2, <3>1
    <2> QED
        BY <2>1, <2>2 DEF StatusInv, MainInv
<1>3. CASE Degree(Root) > 0 /\ status = "NOT_STARTED"
    <2>1. PICK th \in Threads : EnqueueNeighbour(th)
        <3>1. ASSUME NEW w \in Workers, FinishWork(w) PROVE FALSE
            BY <1>3, <3>1 DEF FinishWork, LastActive
        <3>2. ASSUME NEW th \in Threads, DeclareFinished(th) PROVE FALSE
            BY <1>3, <3>2 DEF DeclareFinished, MainInv
        <3> QED
            BY <1>1, <1>3, <3>1, <3>2, StatusChanges
    <2>2. th = Main /\ arg[Main] = Root /\ status' = "STARTED"
        BY <1>3, <2>1 DEF EnqueueNeighbour, EnqueueTask, StatusInv, BeforeFirstTask, MainInv
    <2>3. pc'[Main] = "scan"
        BY <2>1, <2>2, EnqueuedPositions
    <2>4. /\ Target(Main) # Root /\ Marked(Target(Main)) /\ Marked(Root)
          /\ cursor[Main] \in DOMAIN graph.neighbours[Root]
        BY <2>1, <2>2, CarriedNodes DEF EnqueueNeighbour, MainInv, Marked, ScanInv, ScanOK
    <2>5. \A k \in DOMAIN graph.neighbours[Root] : graph.neighbours[Root][k] \in {Root, Target(Main)}
        BY <1>1, <2>2, <2>4 DEF SingleStart, Target
    <2>6. ASSUME NEW k \in DOMAIN graph.neighbours[Root] PROVE Marks(k)
        <3>1. Marked(graph.neighbours[Root][k])
            BY <2>4, <2>5
        <3> QED
            BY <1>6, <3>1
    <2> QED
        BY <2>2, <2>3, <2>6
<1>4. CASE Degree(Root) > 0 /\ status # "NOT_STARTED"
    <2>1. /\ pc[Main] # "enqueue"
          /\ \A k \in DOMAIN graph.neighbours[Root] : Marked(graph.neighbours[Root][k])
          /\ status = "FINISHED" => \A n \in Node : visited[n] # "PROCESSING"
        BY <1>1, <1>4 DEF SingleStartInv
    <2>2. ASSUME NEW k \in DOMAIN graph.neighbours[Root] PROVE Marks(k)
        <3>1. Marked(graph.neighbours[Root][k])
            BY <2>1
        <3> QED
            BY <1>6, <3>1
    <2>3. ~MarkNeighbour(Main)
        BY <2>1, TargetIsNode DEF MarkNeighbour, MainInv, Target, Marked
    <2>4. pc'[Main] # "enqueue"
        <3>1. ASSUME NEW th \in Threads, ProcessNode(th) PROVE pc'[Main] # "enqueue"
            <4>1. CASE EnqueueNeighbour(th)
                BY <2>1, <4>1, EnqueuedPositions
            <4>2. CASE MarkNeighbour(th)
                BY <2>1, <2>3, <4>2 DEF MarkNeighbour
            <4> QED
                BY <2>1, <3>1, <4>1, <4>2
                DEF ProcessNode, Visit, DeclareFinished, BroadcastFinished, Broadcasted, Waiting,
                    SkipNeighbour, poolVars, Return
        <3>2. ASSUME NEW w \in Workers, Worker(w) \/ Spurious(w) PROVE pc'[Main] # "enqueue"
            BY <2>1, <3>2, ZenonT(60)
            DEF Worker, WorkerStep, Spurious, CheckStatus, FinishWork, Broadcasted, Waiting,
                EnterDequeue, Wait, SpuriousWakeup, WakeFinished, WakeRetest, TakeTask
        <3>3. CASE WaitForCompletion \/ Destroy \/ Terminated \/ UNCHANGED vars
            BY <2>1, <3>3
            DEF WaitForCompletion, JoinWorkers, Destroy, DestroyThreadpool, Terminated, vars, poolVars
        <3> QED
            BY <3>1, <3>2, <3>3 DEF Next
    <2>5. ASSUME status' = "FINISHED" PROVE \A n \in Node : visited'[n] # "PROCESSING"
        <3>1. CASE status = "FINISHED"
            BY <1>4, <2>1, <2>3, <3>1, AfterFinished
        <3>2. CASE status # "FINISHED"
            <4>1. PICK w \in Workers : FinishWork(w) /\ UNCHANGED <<graph, visited, sum, cursor>>
                <5>1. ASSUME NEW th \in Threads, DeclareFinished(th) PROVE FALSE
                    BY <1>4, <5>1 DEF DeclareFinished, MainInv
                <5>2. ASSUME NEW th \in Threads, EnqueueNeighbour(th) PROVE FALSE
                    BY <2>5, <3>2, <5>2 DEF EnqueueNeighbour, EnqueueTask
                <5> QED
                    BY <2>5, <3>2, <5>1, <5>2, StatusChanges
            <4> QED
                BY <2>1, <4>1, FinisherIsAlone
        <3> QED
            BY <3>1, <3>2
    <2> QED
        BY <2>2, <2>4, <2>5
<1>5. Degree(Root) = 0 \/ Degree(Root) > 0
    <2>1. Degree(Root) \in Nat
        BY GraphType
    <2> QED
        BY <2>1
<1> QED
    BY <1>2, <1>3, <1>4, <1>5

\* Nothing moves: neither what the threads carry, nor the queue, nor a mark.
LEMMA PlacesFrame ==
    ASSUME IInv, pc'[Main] # "done" => pc[Main] # "done",
           \A t \in Threads : /\ pc'[t] = "visit" <=> pc[t] = "visit"
                              /\ pc'[t] = "enqueue" <=> pc[t] = "enqueue"
                              /\ arg'[t] = arg[t]
                              /\ pc[t] = "enqueue" => cursor'[t] = cursor[t],
           UNCHANGED <<queue, visited, graph>>
    PROVE  MarkedNodeIsInOnePlace'
<1>1. ASSUME NEW t \in Threads, NEW n \in Node PROVE Carries(t, n)' <=> Carries(t, n)
    BY DEF Carries, Target
<1>2. ASSUME NEW n \in Node, NEW k \in DOMAIN queue PROVE Queued(k, n)' <=> Queued(k, n)
    BY DEF Queued
<1>3. DOMAIN queue' = DOMAIN queue
    OBVIOUS
<1>4. CASE pc[Main] = "done"
    BY <1>4 DEF MarkedNodeIsInOnePlace
<1>5. CASE pc[Main] # "done"
    <2>1. MarkedNodeIsInOnePlace
        BY DEF IInv
    <2> SUFFICES ASSUME NEW n \in Node
                 PROVE  /\ visited'[n] = "PROCESSING" <=>
                               \/ \E th \in Threads : Carries(th, n)'
                               \/ \E k \in DOMAIN queue' : Queued(k, n)'
                        /\ \A t1, t2 \in Threads : Carries(t1, n)' /\ Carries(t2, n)' => t1 = t2
                        /\ \A k1, k2 \in DOMAIN queue' : Queued(k1, n)' /\ Queued(k2, n)' => k1 = k2
                        /\ \A th \in Threads, k \in DOMAIN queue' : ~(Carries(th, n)' /\ Queued(k, n)')
        BY DEF MarkedNodeIsInOnePlace
    <2> QED
        BY <1>1, <1>2, <1>3, <1>5, <2>1 DEF MarkedNodeIsInOnePlace
<1> QED
    BY <1>4, <1>5

\* A node that is handed over stays in one place.
LEMMA MarkedNodeIsInOnePlaceStep ==
    ASSUME IInv, [Next]_vars
    PROVE  MarkedNodeIsInOnePlace'
<1>0. CASE UNCHANGED vars
    BY <1>0, PlacesFrame DEF vars, poolVars
<1>1. ASSUME NEW th \in Threads, Visit(th) PROVE MarkedNodeIsInOnePlace'
    <2> SUFFICES ASSUME NEW n \in Node
                 PROVE  /\ visited'[n] = "PROCESSING" <=>
                               \/ \E t \in Threads : Carries(t, n)'
                               \/ \E k \in DOMAIN queue' : Queued(k, n)'
                        /\ \A t1, t2 \in Threads : Carries(t1, n)' /\ Carries(t2, n)' => t1 = t2
                        /\ \A k1, k2 \in DOMAIN queue' : Queued(k1, n)' /\ Queued(k2, n)' => k1 = k2
                        /\ \A t \in Threads, k \in DOMAIN queue' : ~(Carries(t, n)' /\ Queued(k, n)')
        BY DEF MarkedNodeIsInOnePlace
    <2>1. /\ visited[n] = "PROCESSING" <=>
                 \/ \E t \in Threads : Carries(t, n)
                 \/ \E k \in DOMAIN queue : Queued(k, n)
          /\ \A t1, t2 \in Threads : Carries(t1, n) /\ Carries(t2, n) => t1 = t2
          /\ \A k1, k2 \in DOMAIN queue : Queued(k1, n) /\ Queued(k2, n) => k1 = k2
          /\ \A t \in Threads, k \in DOMAIN queue : ~(Carries(t, n) /\ Queued(k, n))
        BY <1>1 DEF IInv, TypeOK, MarkedNodeIsInOnePlace, MainInv, Visit
    <2>2. \A k : Queued(k, n)' <=> Queued(k, n)
        BY <1>1 DEF IInv, TypeOK, Visit, Queued
    <2>3. \A t \in Threads \ {th} : Carries(t, n)' <=> Carries(t, n)
        BY <1>1 DEF IInv, TypeOK, Visit, Carries, Target
    <2>4. ~Carries(th, n)'
        BY <1>1 DEF IInv, TypeOK, Visit, Carries
    <2>5. queue' = queue /\ (n # arg[th] => visited'[n] = visited[n])
        BY <1>1 DEF IInv, TypeOK, Visit
    <2>6. CASE n = arg[th] /\ th \in Workers
        <3>1. Carries(th, n) /\ visited'[n] = "DONE"
            BY <1>1, <2>6 DEF IInv, TypeOK, Visit, Carries
        <3> QED
            BY <2>1, <2>2, <2>3, <2>4, <2>5, <3>1
    <2>7. CASE n # arg[th] \/ th = Main
        <3>1. ~Carries(th, n)
            BY <1>1, <2>7 DEF IInv, TypeOK, Visit, Carries
        <3>2. visited'[n] = "PROCESSING" <=> visited[n] = "PROCESSING"
            BY <1>1, <2>5, <2>7 DEF IInv, TypeOK, Visit, MainInv
        <3> QED
            BY <2>1, <2>2, <2>3, <2>4, <2>5, <3>1, <3>2
    <2> QED
        BY <2>6, <2>7
<1>2. ASSUME NEW th \in Threads, DeclareFinished(th) PROVE MarkedNodeIsInOnePlace'
    <2>1. \A t \in Threads : /\ pc'[t] = "visit" <=> pc[t] = "visit"
                             /\ pc'[t] = "enqueue" <=> pc[t] = "enqueue"
                             /\ arg'[t] = arg[t]
                             /\ pc[t] = "enqueue" => cursor'[t] = cursor[t]
        BY <1>2 DEF IInv, TypeOK, DeclareFinished
    <2>2. /\ UNCHANGED <<queue, visited, graph>>
          /\ pc'[Main] # "done" => pc[Main] # "done"
        BY <1>2 DEF IInv, TypeOK, DeclareFinished
    <2> QED
        BY <2>1, <2>2, PlacesFrame
<1>3. ASSUME NEW th \in Threads, BroadcastFinished(th) PROVE MarkedNodeIsInOnePlace'
    <2>1. \A t \in Threads : /\ pc'[t] = "visit" <=> pc[t] = "visit"
                             /\ pc'[t] = "enqueue" <=> pc[t] = "enqueue"
                             /\ arg'[t] = arg[t]
                             /\ pc[t] = "enqueue" => cursor'[t] = cursor[t]
        BY <1>3 DEF IInv, TypeOK, BroadcastFinished, Broadcasted, Waiting
    <2>2. /\ UNCHANGED <<queue, visited, graph>>
          /\ pc'[Main] # "done" => pc[Main] # "done"
        BY <1>3 DEF IInv, TypeOK, BroadcastFinished, Broadcasted, Waiting
    <2> QED
        BY <2>1, <2>2, PlacesFrame
<1>4. ASSUME NEW th \in Threads, MarkNeighbour(th) PROVE MarkedNodeIsInOnePlace'
    <2> SUFFICES ASSUME NEW n \in Node
                 PROVE  /\ visited'[n] = "PROCESSING" <=>
                               \/ \E t \in Threads : Carries(t, n)'
                               \/ \E k \in DOMAIN queue' : Queued(k, n)'
                        /\ \A t1, t2 \in Threads : Carries(t1, n)' /\ Carries(t2, n)' => t1 = t2
                        /\ \A k1, k2 \in DOMAIN queue' : Queued(k1, n)' /\ Queued(k2, n)' => k1 = k2
                        /\ \A t \in Threads, k \in DOMAIN queue' : ~(Carries(t, n)' /\ Queued(k, n)')
        BY DEF MarkedNodeIsInOnePlace
    <2>1. /\ visited[n] = "PROCESSING" <=>
                 \/ \E t \in Threads : Carries(t, n)
                 \/ \E k \in DOMAIN queue : Queued(k, n)
          /\ \A t1, t2 \in Threads : Carries(t1, n) /\ Carries(t2, n) => t1 = t2
          /\ \A k1, k2 \in DOMAIN queue : Queued(k1, n) /\ Queued(k2, n) => k1 = k2
          /\ \A t \in Threads, k \in DOMAIN queue : ~(Carries(t, n) /\ Queued(k, n))
        BY <1>4 DEF IInv, TypeOK, MarkedNodeIsInOnePlace, MainInv, MarkNeighbour
    <2>2. \A k : Queued(k, n)' <=> Queued(k, n)
        BY <1>4 DEF IInv, TypeOK, MarkNeighbour, Queued
    <2>3. \A t \in Threads \ {th} : Carries(t, n)' <=> Carries(t, n)
        BY <1>4 DEF IInv, TypeOK, MarkNeighbour, Carries, Target
    <2>4. ~Carries(th, n) /\ (Carries(th, n)' <=> n = Target(th))
        BY <1>4 DEF IInv, TypeOK, MarkNeighbour, Carries, Target
    <2>5. /\ queue' = queue /\ Target(th) \in Node
          /\ n # Target(th) => visited'[n] = visited[n]
          /\ n = Target(th) => visited'[n] = "PROCESSING" /\ visited[n] # "PROCESSING"
        BY <1>4, TargetIsNode DEF IInv, TypeOK, MarkNeighbour
    <2>6. CASE n = Target(th)
        BY <2>1, <2>2, <2>3, <2>4, <2>5, <2>6
    <2>7. CASE n # Target(th)
        BY <2>1, <2>2, <2>3, <2>4, <2>5, <2>7
    <2> QED
        BY <2>6, <2>7
<1>5. ASSUME NEW th \in Threads, SkipNeighbour(th) PROVE MarkedNodeIsInOnePlace'
    <2>1. \A t \in Threads : /\ pc'[t] = "visit" <=> pc[t] = "visit"
                             /\ pc'[t] = "enqueue" <=> pc[t] = "enqueue"
                             /\ arg'[t] = arg[t]
                             /\ pc[t] = "enqueue" => cursor'[t] = cursor[t]
        BY <1>5 DEF IInv, TypeOK, SkipNeighbour, poolVars
    <2>2. /\ UNCHANGED <<queue, visited, graph>>
          /\ pc'[Main] # "done" => pc[Main] # "done"
        BY <1>5 DEF IInv, TypeOK, SkipNeighbour, poolVars
    <2> QED
        BY <2>1, <2>2, PlacesFrame
<1>6. ASSUME NEW th \in Threads, EnqueueNeighbour(th) PROVE MarkedNodeIsInOnePlace'
    <2> SUFFICES ASSUME NEW n \in Node
                 PROVE  /\ visited'[n] = "PROCESSING" <=>
                               \/ \E t \in Threads : Carries(t, n)'
                               \/ \E k \in DOMAIN queue' : Queued(k, n)'
                        /\ \A t1, t2 \in Threads : Carries(t1, n)' /\ Carries(t2, n)' => t1 = t2
                        /\ \A k1, k2 \in DOMAIN queue' : Queued(k1, n)' /\ Queued(k2, n)' => k1 = k2
                        /\ \A t \in Threads, k \in DOMAIN queue' : ~(Carries(t, n)' /\ Queued(k, n)')
        BY DEF MarkedNodeIsInOnePlace
    <2>1. /\ visited[n] = "PROCESSING" <=>
                 \/ \E t \in Threads : Carries(t, n)
                 \/ \E k \in DOMAIN queue : Queued(k, n)
          /\ \A t1, t2 \in Threads : Carries(t1, n) /\ Carries(t2, n) => t1 = t2
          /\ \A k1, k2 \in DOMAIN queue : Queued(k1, n) /\ Queued(k2, n) => k1 = k2
          /\ \A t \in Threads, k \in DOMAIN queue : ~(Carries(t, n) /\ Queued(k, n))
        BY <1>6 DEF IInv, TypeOK, MarkedNodeIsInOnePlace, MainInv, EnqueueNeighbour
    <2>2. /\ DOMAIN queue = 1 .. Len(queue) /\ DOMAIN queue' = 1 .. Len(queue) + 1
          /\ Len(queue) \in Nat
        BY <1>6, EnqueuedQueue
    <2>3. /\ \A k \in DOMAIN queue : Queued(k, n)' <=> Queued(k, n)
          /\ \A k : k = Len(queue) + 1 => (Queued(k, n)' <=> n = Target(th))
        <3>1. /\ \A k \in DOMAIN queue : queue'[k] = queue[k]
              /\ queue'[Len(queue) + 1] = Target(th)
            BY <1>6, EnqueuedQueue
        <3>2. DOMAIN queue \subseteq DOMAIN queue' /\ Len(queue) + 1 \in DOMAIN queue'
            BY <2>2
        <3> QED
            <4>1. \A k \in DOMAIN queue : Queued(k, n)' <=> Queued(k, n)
                BY <3>1, <3>2 DEF Queued
            <4>2. \A k : k = Len(queue) + 1 => (Queued(k, n)' <=> n = Target(th))
                BY <3>1, <3>2 DEF Queued
            <4> QED
                BY <4>1, <4>2
    <2>4. \A t \in Threads \ {th} : Carries(t, n)' <=> Carries(t, n)
        BY <1>6, EnqueuedPositions DEF IInv, TypeOK, EnqueueNeighbour, Carries, Target
    <2>5. ~Carries(th, n)' /\ (Carries(th, n) <=> n = Target(th))
        BY <1>6, EnqueuedPositions DEF IInv, TypeOK, EnqueueNeighbour, Carries
    <2>6. visited' = visited /\ \A k \in DOMAIN queue' : k \in DOMAIN queue \/ k = Len(queue) + 1
        <3>1. visited' = visited
            BY <1>6 DEF EnqueueNeighbour
        <3> QED
            BY <2>2, <3>1
    <2>7. DOMAIN queue \subseteq DOMAIN queue' /\ Len(queue) + 1 \in DOMAIN queue'
        BY <2>2
    <2>8. CASE n = Target(th)
        BY <2>1, <2>3, <2>4, <2>5, <2>6, <2>7, <2>8
    <2>9. CASE n # Target(th)
        BY <2>1, <2>3, <2>4, <2>5, <2>6, <2>7, <2>9
    <2> QED
        BY <2>8, <2>9
<1>7. ASSUME NEW th \in Threads, Return(th) PROVE MarkedNodeIsInOnePlace'
    <2>1. \A t \in Threads : /\ pc'[t] = "visit" <=> pc[t] = "visit"
                             /\ pc'[t] = "enqueue" <=> pc[t] = "enqueue"
                             /\ arg'[t] = arg[t]
                             /\ pc[t] = "enqueue" => cursor'[t] = cursor[t]
        BY <1>7 DEF IInv, TypeOK, Return
    <2>2. /\ UNCHANGED <<queue, visited, graph>>
          /\ pc'[Main] # "done" => pc[Main] # "done"
        BY <1>7 DEF IInv, TypeOK, Return
    <2> QED
        BY <2>1, <2>2, PlacesFrame
<1>8. ASSUME NEW w \in Workers, CheckStatus(w), UNCHANGED <<graph, visited, sum, cursor>> PROVE MarkedNodeIsInOnePlace'
    <2>1. \A t \in Threads : /\ pc'[t] = "visit" <=> pc[t] = "visit"
                             /\ pc'[t] = "enqueue" <=> pc[t] = "enqueue"
                             /\ arg'[t] = arg[t]
                             /\ pc[t] = "enqueue" => cursor'[t] = cursor[t]
        BY <1>8 DEF IInv, TypeOK, CheckStatus
    <2>2. /\ UNCHANGED <<queue, visited, graph>>
          /\ pc'[Main] # "done" => pc[Main] # "done"
        BY <1>8 DEF IInv, TypeOK, CheckStatus
    <2> QED
        BY <2>1, <2>2, PlacesFrame
<1>9. ASSUME NEW w \in Workers, FinishWork(w), UNCHANGED <<graph, visited, sum, cursor>> PROVE MarkedNodeIsInOnePlace'
    <2>1. \A t \in Threads : /\ pc'[t] = "visit" <=> pc[t] = "visit"
                             /\ pc'[t] = "enqueue" <=> pc[t] = "enqueue"
                             /\ arg'[t] = arg[t]
                             /\ pc[t] = "enqueue" => cursor'[t] = cursor[t]
        BY <1>9 DEF IInv, TypeOK, FinishWork, Broadcasted, Waiting, LastActive
    <2>2. /\ UNCHANGED <<queue, visited, graph>>
          /\ pc'[Main] # "done" => pc[Main] # "done"
        BY <1>9 DEF IInv, TypeOK, FinishWork, Broadcasted, Waiting, LastActive
    <2> QED
        BY <2>1, <2>2, PlacesFrame
<1>10. ASSUME NEW w \in Workers, EnterDequeue(w), UNCHANGED <<graph, visited, sum, cursor>> PROVE MarkedNodeIsInOnePlace'
    <2>1. \A t \in Threads : /\ pc'[t] = "visit" <=> pc[t] = "visit"
                             /\ pc'[t] = "enqueue" <=> pc[t] = "enqueue"
                             /\ arg'[t] = arg[t]
                             /\ pc[t] = "enqueue" => cursor'[t] = cursor[t]
        BY <1>10 DEF IInv, TypeOK, EnterDequeue
    <2>2. /\ UNCHANGED <<queue, visited, graph>>
          /\ pc'[Main] # "done" => pc[Main] # "done"
        BY <1>10 DEF IInv, TypeOK, EnterDequeue
    <2> QED
        BY <2>1, <2>2, PlacesFrame
<1>11. ASSUME NEW w \in Workers, Wait(w), UNCHANGED <<graph, visited, sum, cursor>> PROVE MarkedNodeIsInOnePlace'
    <2>1. \A t \in Threads : /\ pc'[t] = "visit" <=> pc[t] = "visit"
                             /\ pc'[t] = "enqueue" <=> pc[t] = "enqueue"
                             /\ arg'[t] = arg[t]
                             /\ pc[t] = "enqueue" => cursor'[t] = cursor[t]
        BY <1>11 DEF IInv, TypeOK, Wait
    <2>2. /\ UNCHANGED <<queue, visited, graph>>
          /\ pc'[Main] # "done" => pc[Main] # "done"
        BY <1>11 DEF IInv, TypeOK, Wait
    <2> QED
        BY <2>1, <2>2, PlacesFrame
<1>12. ASSUME NEW w \in Workers, SpuriousWakeup(w), UNCHANGED <<graph, visited, sum, cursor>> PROVE MarkedNodeIsInOnePlace'
    <2>1. \A t \in Threads : /\ pc'[t] = "visit" <=> pc[t] = "visit"
                             /\ pc'[t] = "enqueue" <=> pc[t] = "enqueue"
                             /\ arg'[t] = arg[t]
                             /\ pc[t] = "enqueue" => cursor'[t] = cursor[t]
        BY <1>12 DEF IInv, TypeOK, SpuriousWakeup
    <2>2. /\ UNCHANGED <<queue, visited, graph>>
          /\ pc'[Main] # "done" => pc[Main] # "done"
        BY <1>12 DEF IInv, TypeOK, SpuriousWakeup
    <2> QED
        BY <2>1, <2>2, PlacesFrame
<1>13. ASSUME NEW w \in Workers, WakeFinished(w), UNCHANGED <<graph, visited, sum, cursor>> PROVE MarkedNodeIsInOnePlace'
    <2>1. \A t \in Threads : /\ pc'[t] = "visit" <=> pc[t] = "visit"
                             /\ pc'[t] = "enqueue" <=> pc[t] = "enqueue"
                             /\ arg'[t] = arg[t]
                             /\ pc[t] = "enqueue" => cursor'[t] = cursor[t]
        BY <1>13 DEF IInv, TypeOK, WakeFinished
    <2>2. /\ UNCHANGED <<queue, visited, graph>>
          /\ pc'[Main] # "done" => pc[Main] # "done"
        BY <1>13 DEF IInv, TypeOK, WakeFinished
    <2> QED
        BY <2>1, <2>2, PlacesFrame
<1>14. ASSUME NEW w \in Workers, WakeRetest(w), UNCHANGED <<graph, visited, sum, cursor>> PROVE MarkedNodeIsInOnePlace'
    <2>1. \A t \in Threads : /\ pc'[t] = "visit" <=> pc[t] = "visit"
                             /\ pc'[t] = "enqueue" <=> pc[t] = "enqueue"
                             /\ arg'[t] = arg[t]
                             /\ pc[t] = "enqueue" => cursor'[t] = cursor[t]
        BY <1>14 DEF IInv, TypeOK, WakeRetest
    <2>2. /\ UNCHANGED <<queue, visited, graph>>
          /\ pc'[Main] # "done" => pc[Main] # "done"
        BY <1>14 DEF IInv, TypeOK, WakeRetest
    <2> QED
        BY <2>1, <2>2, PlacesFrame
<1>15. ASSUME NEW w \in Workers, TakeTask(w), UNCHANGED <<graph, visited, sum, cursor>> PROVE MarkedNodeIsInOnePlace'
    <2>0. CASE status = "FINISHED"
        <3>1. \A t \in Threads : /\ pc'[t] = "visit" <=> pc[t] = "visit"
                                 /\ pc'[t] = "enqueue" <=> pc[t] = "enqueue"
            BY <1>15, <2>0 DEF IInv, TypeOK, TakeTask
        <3>2. /\ UNCHANGED <<queue, visited, graph, arg, cursor>>
              /\ pc'[Main] # "done" => pc[Main] # "done"
            BY <1>15, <2>0 DEF IInv, TypeOK, TakeTask
        <3> QED
            BY <3>1, <3>2, PlacesFrame
    <2>a. CASE status # "FINISHED"
        <3> SUFFICES ASSUME NEW n \in Node
                     PROVE  /\ visited'[n] = "PROCESSING" <=>
                                   \/ \E t \in Threads : Carries(t, n)'
                                   \/ \E k \in DOMAIN queue' : Queued(k, n)'
                            /\ \A t1, t2 \in Threads : Carries(t1, n)' /\ Carries(t2, n)' => t1 = t2
                            /\ \A k1, k2 \in DOMAIN queue' : Queued(k1, n)' /\ Queued(k2, n)' => k1 = k2
                            /\ \A t \in Threads, k \in DOMAIN queue' : ~(Carries(t, n)' /\ Queued(k, n)')
            BY DEF MarkedNodeIsInOnePlace
        <3>1. /\ visited[n] = "PROCESSING" <=>
                     \/ \E t \in Threads : Carries(t, n)
                     \/ \E k \in DOMAIN queue : Queued(k, n)
              /\ \A t1, t2 \in Threads : Carries(t1, n) /\ Carries(t2, n) => t1 = t2
              /\ \A k1, k2 \in DOMAIN queue : Queued(k1, n) /\ Queued(k2, n) => k1 = k2
              /\ \A t \in Threads, k \in DOMAIN queue : ~(Carries(t, n) /\ Queued(k, n))
            BY <1>15 DEF IInv, TypeOK, MarkedNodeIsInOnePlace, MainInv, TakeTask
        <3>2. /\ DOMAIN queue = 1 .. Len(queue) /\ DOMAIN queue' = 1 .. Len(queue) - 1
              /\ Len(queue) \in Nat /\ 1 \in DOMAIN queue
            BY <1>15, <2>a, DequeuedQueue
        <3>b. \A k \in DOMAIN queue' : queue'[k] = queue[k + 1]
            BY <1>15, <2>a, DequeuedQueue
        <3>c. \A k \in DOMAIN queue' : k + 1 \in DOMAIN queue
            BY <3>2
        <3>3. /\ \A k \in DOMAIN queue' : Queued(k, n)' <=> Queued(k + 1, n)
              /\ Queued(1, n) <=> n = queue[1]
            BY <3>2, <3>b, <3>c DEF Queued
        <3>4. \A t \in Threads \ {w} : Carries(t, n)' <=> Carries(t, n)
            BY <1>15, <2>a, DequeuedQueue, ZenonT(60) DEF IInv, TypeOK, TakeTask, Carries, Target
        <3>5. ~Carries(w, n) /\ (Carries(w, n)' <=> n = queue[1])
            BY <1>15, <2>a, DequeuedQueue DEF IInv, TypeOK, TakeTask, Carries
        <3>6. /\ \A k \in DOMAIN queue' : k + 1 \in DOMAIN queue /\ k + 1 # 1
              /\ \A k \in DOMAIN queue : k = 1 \/ \E j \in DOMAIN queue' : j + 1 = k
              /\ \A k1, k2 \in DOMAIN queue' : k1 + 1 = k2 + 1 => k1 = k2
            <4>1. \A k \in DOMAIN queue' : k + 1 \in DOMAIN queue /\ k + 1 # 1
                BY <3>2
            <4>2. ASSUME NEW k \in DOMAIN queue, k # 1 PROVE \E j \in DOMAIN queue' : j + 1 = k
                <5>1. k - 1 \in DOMAIN queue' /\ (k - 1) + 1 = k
                    BY <3>2, <4>2
                <5> QED
                    BY <5>1
            <4>3. \A k1, k2 \in DOMAIN queue' : k1 + 1 = k2 + 1 => k1 = k2
                BY <3>2
            <4> QED
                BY <4>1, <4>2, <4>3
        <3>7. (\E k \in DOMAIN queue : Queued(k, n)) <=>
                  (n = queue[1] \/ \E k \in DOMAIN queue' : Queued(k, n)')
            BY <3>2, <3>3, <3>6
        <3>8. CASE n = queue[1]
            BY <1>15, <3>1, <3>2, <3>3, <3>4, <3>5, <3>6, <3>7, <3>8
        <3>9. CASE n # queue[1]
            BY <1>15, <3>1, <3>3, <3>4, <3>5, <3>6, <3>7, <3>9
        <3> QED
            BY <3>8, <3>9
    <2> QED
        BY <2>0, <2>a
<1>16. CASE WaitForCompletion
    <2>1. \A t \in Threads : /\ pc'[t] = "visit" <=> pc[t] = "visit"
                             /\ pc'[t] = "enqueue" <=> pc[t] = "enqueue"
                             /\ arg'[t] = arg[t]
                             /\ pc[t] = "enqueue" => cursor'[t] = cursor[t]
        BY <1>16 DEF IInv, TypeOK, WaitForCompletion, JoinWorkers
    <2>2. /\ UNCHANGED <<queue, visited, graph>>
          /\ pc'[Main] # "done" => pc[Main] # "done"
        BY <1>16 DEF IInv, TypeOK, WaitForCompletion, JoinWorkers
    <2> QED
        BY <2>1, <2>2, PlacesFrame
<1>17. CASE Destroy
    <2>1. pc'[Main] = "done"
        BY <1>17 DEF IInv, TypeOK, Destroy, DestroyThreadpool
    <2> QED
        BY <2>1 DEF MarkedNodeIsInOnePlace
<1> QED
    BY <1>0, <1>1, <1>2, <1>3, <1>4, <1>5, <1>6, <1>7, <1>8,
       <1>9, <1>10, <1>11, <1>12, <1>13, <1>14, <1>15, <1>16, <1>17
    DEF Next, ProcessNode, Worker, Spurious, WorkerStep, Terminated

LEMMA ReachableInvStep ==
    ASSUME IInv, [Next]_vars
    PROVE  ReachableInv'
<1> USE DEF IInv, TypeOK
<1>0. graph' = graph
    BY VisitedGrows
<1>1. SUFFICES ASSUME NEW S \in SUBSET Node, Root \in S, Closed(S),
                      NEW n \in Node, visited'[n] # "NOT_VISITED"
               PROVE  n \in S
    BY <1>0 DEF ReachableInv, Closed, Marked
<1>2. \A m \in Node : Marked(m) => m \in S
    BY <1>1 DEF ReachableInv
<1>3. ASSUME NEW th \in Threads, Visit(th) PROVE n \in S
    <2>1. CASE n = arg[th] /\ th = Main
        BY <1>1, <2>1 DEF MainInv
    <2>2. CASE n = arg[th] /\ th \in Workers
        BY <1>2, <1>3, <2>2, CarriedNodes DEF Visit, Marked
    <2>3. CASE n # arg[th]
        BY <1>1, <1>2, <1>3, <2>3 DEF Visit, Marked
    <2> QED
        BY <2>1, <2>2, <2>3
<1>4. ASSUME NEW th \in Threads, MarkNeighbour(th) PROVE n \in S
    <2>1. arg[th] \in S
        BY <1>2, <1>4 DEF MarkNeighbour, ScanInv, ScanOK, Marked
    <2>2. Target(th) \in S
        BY <1>1, <1>4, <2>1, TargetIsNode DEF Closed, Target, MarkNeighbour
    <2> QED
        BY <1>1, <1>2, <1>4, <2>2 DEF MarkNeighbour, Marked
<1>5. CASE UNCHANGED <<graph, visited>>
    BY <1>1, <1>2, <1>5 DEF Marked
<1> QED
    BY <1>3, <1>4, <1>5, VisitedChanges

-----------------------------------------------------------------------------
(* The theorems *)

LEMMA InitInv == Init => IInv
<1> SUFFICES ASSUME Init PROVE IInv
    OBVIOUS
<1> USE DEF Init
<1>1. TypeOK
    BY DEF TypeOK
<1>2. Idling = {} /\ IdleOrGone = {}
    BY DEF Idling, IdleOrGone
<1>3. IdleInv
    BY <1>2, FS_EmptySet DEF IdleInv
<1>4. MainInv /\ LockInv /\ ScanInv /\ DoneInv /\ FrontierInv /\ ReachableInv
    BY DEF MainInv, LockInv, ScanInv, DoneInv, FrontierInv, ReachableInv, Marked
<1>5. MarkedNodeIsInOnePlace
    <2>1. \A th \in Threads, n \in Node : ~Carries(th, n)
        BY DEF Carries
    <2>2. DOMAIN queue = {}
        OBVIOUS
    <2> QED
        BY <2>1, <2>2 DEF MarkedNodeIsInOnePlace
<1>6. StatusInv
    BY DEF StatusInv, BeforeFirstTask
<1>7. FinishedMeansQuiescent /\ OnlyMainsTasksAreLost /\ SingleStartInv
    BY DEF FinishedMeansQuiescent, OnlyMainsTasksAreLost, SingleStartInv
<1> QED
    BY <1>1, <1>3, <1>4, <1>5, <1>6, <1>7 DEF IInv

\* Everything below rests on this: IInv holds in every reachable state.
THEOREM Inductive == Spec => []IInv
<1>1. IInv /\ [Next]_vars => IInv'
    <2> SUFFICES ASSUME IInv, [Next]_vars PROVE IInv'
        OBVIOUS
    <2>1. TypeOK' /\ MainInv' /\ StatusInv'
        BY TypeStep, MainInvStep, StatusInvStep
    <2>2. LockInv' /\ ScanInv' /\ DoneInv' /\ FrontierInv' /\ ReachableInv'
        BY LockInvStep, ScanInvStep, DoneInvStep, FrontierInvStep, ReachableInvStep
    <2>3. MarkedNodeIsInOnePlace' /\ IdleInv' /\ FinishedMeansQuiescent'
        BY MarkedNodeIsInOnePlaceStep, IdleInvStep, FinishedMeansQuiescentStep
    <2>4. OnlyMainsTasksAreLost' /\ SingleStartInv'
        BY <2>1, OnlyMainsTasksAreLostStep, SingleStartInvStep
    <2> QED
        BY <2>1, <2>2, <2>3, <2>4 DEF IInv
<1> QED
    BY <1>1, InitInv, PTL DEF Spec

\* Types, and which thread can be where: process_node is the only code main and
\* the workers share.
THEOREM TypeCorrect == Spec => []TypeOK
<1>1. IInv => TypeOK
    BY DEF IInv
<1> QED
    BY <1>1, Inductive, PTL

\* No interleaving of main and the workers loses a marked node or queues it
\* twice: lines 51-63 of parallel.c and the queue of os_threadpool.c.
THEOREM OnePlace == Spec => []MarkedNodeIsInOnePlace
<1>1. IInv => MarkedNodeIsInOnePlace
    BY DEF IInv
<1> QED
    BY <1>1, Inductive, PTL

\* idle_threads is the number of workers inside dequeue_task, for any number of
\* workers, so the test of line 81 means what it says.
THEOREM IdleCount == Spec => []IdleThreadsCounted
<1>1. IInv => IdleThreadsCounted
    <2>1. Cardinality(IdleOrGone) <= Cardinality(Workers) /\ Cardinality(Workers) \in Nat
        BY IdleSets, FS_Subset, FS_CardinalityType
    <2> QED
        BY <2>1, IdleSets DEF IInv, IdleInv, IdleThreadsCounted, TypeOK
<1> QED
    BY <1>1, Inductive, PTL

\* A worker that sets FINISHED at line 82 is the last one with anything to do.
THEOREM Quiescence == Spec => []FinishedMeansQuiescent
<1>1. IInv => FinishedMeansQuiescent
    BY DEF IInv
<1> QED
    BY <1>1, Inductive, PTL

\* A premature FINISHED costs main's own tasks, never those of a worker.
THEOREM LossIsMains == Spec => []OnlyMainsTasksAreLost
<1>1. IInv => OnlyMainsTasksAreLost
    BY DEF IInv
<1> QED
    BY <1>1, Inductive, PTL

\* With one task for main to hand over, the printed sum is complete.
THEOREM CompleteSum == Spec => []PrintedSumIsComplete
<1>1. IInv => PrintedSumIsComplete
    <2> USE DEF IInv, TypeOK
    <2> DEFINE Done == {n \in Node : visited[n] = "DONE"}
    <2> SUFFICES ASSUME IInv, pc[Main] = "done", SingleStart(graph)
                 PROVE  Done = Reachable
        BY DEF PrintedSumIsComplete
    <2>1. status = "FINISHED" /\ Root \in Done /\ \A w \in Workers : pc[w] = "exited"
        BY DEF StatusInv, MainInv
    <2>2. \A n \in Node : visited[n] # "PROCESSING"
        BY <2>1 DEF SingleStartInv
    <2>3. ASSUME NEW m \in Done, NEW k \in DOMAIN graph.neighbours[m]
          PROVE  graph.neighbours[m][k] \in Done
        <3>1. \A th \in Threads : ~ScansNode(th, m)
            BY <2>1 DEF ScansNode
        <3>2. Marked(graph.neighbours[m][k])
            BY <3>1 DEF DoneInv
        <3>3. graph.neighbours[m][k] \in Node
            BY GraphType
        <3> QED
            BY <2>2, <3>2, <3>3 DEF Marked
    <2>4. Closed(Done)
        BY <2>3 DEF Closed
    <2>5. ASSUME NEW n \in Done PROVE n \in Reachable
        BY DEF Reachable, ReachableInv, Marked
    <2>6. ASSUME NEW n \in Reachable PROVE n \in Done
        <3>1. Done \in SUBSET Node
            OBVIOUS
        <3> QED
            BY <2>1, <2>4, <3>1 DEF Reachable
    <2> QED
        BY <2>5, <2>6
<1> QED
    BY <1>1, Inductive, PTL

\* The threads and the queue implement the traversal of Traversal: each node
\* is added once, and only nodes with a DONE neighbour follow Root.
THEOREM Refinement == Spec => TraversalSpec
<1> DEFINE Seen == {n \in Node : visited[n] = "DONE"}
<1>1. Init => Traverse!TravInit
    BY DEF Init, Traverse!TravInit
<1>2. IInv /\ IInv' /\ [Next]_vars => [Traverse!TravNext]_(Traverse!travVars)
    <2> SUFFICES ASSUME IInv, [Next]_vars
                 PROVE  Traverse!TravNext \/ UNCHANGED Traverse!travVars
        OBVIOUS
    <2>1. ASSUME NEW th \in Threads, Visit(th) PROVE Traverse!TravNext
        <3>1. arg[th] \in Node /\ pc[Main] # "done" /\ pc'[Main] # "done"
            BY <2>1, MainAlone DEF Visit, IInv, TypeOK
        <3>2. visited[arg[th]] # "DONE"
            BY <2>1, CarriedNodes DEF Visit, IInv, TypeOK, MainInv
        <3>3. arg[th] = Root \/ \E m \in Seen : Traverse!IsNeighbour(graph, m, arg[th])
            <4>1. CASE th = Main
                BY <4>1 DEF IInv, MainInv
            <4>2. CASE th \in Workers
                BY <2>1, <3>1, <4>2, CarriedNodes DEF Visit, IInv, FrontierInv, Marked
            <4> QED
                BY <4>1, <4>2
        <3>4. {n \in Node : visited'[n] = "DONE"} = Seen \cup {arg[th]}
            BY <2>1, <3>1, SMTT(60) DEF Visit, IInv, TypeOK
        <3>5. sum' = sum + graph.info[arg[th]] /\ graph' = graph
            BY <2>1 DEF Visit
        <3>0. PICK n \in Node : n = arg[th]
            BY <3>1
        <3>6. Traverse!Visit(n)
            BY <3>0, <3>1, <3>2, <3>3, <3>4, <3>5 DEF Traverse!Visit
        <3> QED
            BY <3>6 DEF Traverse!TravNext
    <2>2. ASSUME NEW th \in Threads, MarkNeighbour(th) PROVE UNCHANGED Traverse!travVars
        <3>1. {n \in Node : visited'[n] = "DONE"} = Seen
            BY <2>2, TargetIsNode DEF MarkNeighbour, IInv, TypeOK
        <3>2. (pc'[Main] = "done") = (pc[Main] = "done")
            BY <2>2 DEF MarkNeighbour, IInv, TypeOK
        <3>3. sum' = sum /\ graph' = graph
            BY <2>2 DEF MarkNeighbour
        <3> QED
            BY <3>1, <3>2, <3>3 DEF Traverse!travVars
    <2>3. CASE Destroy
        <3>1. pc[Main] # "done" /\ pc'[Main] = "done" /\ Root \in Seen
            BY <2>3 DEF Destroy, DestroyThreadpool, IInv, TypeOK, MainInv
        <3>2. UNCHANGED <<graph, visited, sum>>
            BY <2>3 DEF Destroy
        <3> QED
            BY <3>1, <3>2 DEF Traverse!TravNext, Traverse!Report
    <2>4. ASSUME NEW th \in Threads,
                 \/ DeclareFinished(th) \/ BroadcastFinished(th) \/ SkipNeighbour(th)
                 \/ EnqueueNeighbour(th) \/ Return(th)
          PROVE  UNCHANGED Traverse!travVars
        <3>1. UNCHANGED <<graph, visited, sum>>
            BY <2>4 DEF DeclareFinished, BroadcastFinished, SkipNeighbour, EnqueueNeighbour, Return
        <3>2. CASE EnqueueNeighbour(th)
            <4>1. (pc'[Main] = "done") = (pc[Main] = "done")
                BY <3>2, EnqueuedPositions DEF EnqueueNeighbour, IInv
            <4> QED
                BY <3>1, <4>1 DEF Traverse!travVars
        <3>3. CASE ~EnqueueNeighbour(th)
            <4>1. (pc'[Main] = "done") = (pc[Main] = "done")
                BY <2>4, <3>3
                DEF DeclareFinished, BroadcastFinished, Broadcasted, Waiting, SkipNeighbour,
                    poolVars, Return, IInv, TypeOK
            <4> QED
                BY <3>1, <4>1 DEF Traverse!travVars
        <3> QED
            BY <3>2, <3>3
    <2>5. ASSUME NEW w \in Workers, Worker(w) \/ Spurious(w) PROVE UNCHANGED Traverse!travVars
        <3>1. UNCHANGED <<graph, visited, sum>>
            BY <2>5 DEF Worker, Spurious
        <3>2. (pc'[Main] = "done") = (pc[Main] = "done")
            BY <2>5
            DEF Worker, Spurious, WorkerStep, CheckStatus, FinishWork, Broadcasted, Waiting, EnterDequeue,
                Wait, SpuriousWakeup, WakeFinished, WakeRetest, TakeTask, IInv, TypeOK
        <3> QED
            BY <3>1, <3>2 DEF Traverse!travVars
    <2>6. CASE WaitForCompletion \/ Terminated \/ UNCHANGED vars
        BY <2>6 DEF WaitForCompletion, JoinWorkers, Terminated, vars, poolVars, Traverse!travVars, IInv, TypeOK
    <2> QED
        BY <2>1, <2>2, <2>3, <2>4, <2>5, <2>6 DEF Next, ProcessNode
<1> QED
    BY <1>1, <1>2, Inductive, PTL DEF Spec, TraversalSpec, Traverse!TravSpec

=============================================================================
