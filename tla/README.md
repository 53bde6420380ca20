# Verification of university-assignments

The repository holds twenty-odd course projects that share no code. This
directory models in TLA+ those whose behaviour is hard to test - threads,
schedulers, processes, protocols, allocators, pointer structures - checks the
models with TLC and proves theorems about them with TLAPS.

To run a check: `tlc -config <cfg> <module>` with the pairs that PROJECT.json
lists under "runs"; `tlapm <module>` for the eight modules `*_proofs`.

## Inventory

| component | state it keeps | operations | what is hard | modelled by |
|---|---|---|---|---|
| SO-parallel-graph | task list, `idle_threads`, `status`, `visited`, `sum`, a mutex per purpose, a condition variable | `enqueue_task`, `dequeue_task`, `process_node`, `wait_for_completion`, `destroy_threadpool` | workers and main interleave at every lock; the end is inferred from a count; `status` is read and written without the lock | ThreadPool, ParallelGraph, OsGraph, SerialGraph, Traversal |
| PCLP4-process-scheduler: schedulers | ready and waiting queues of PCBs, remaining slice, pending sleep | `next`, `stop` with six reasons | long sequences of calls; sleeps and signals in the middle of slices; the same code three times, with differences | ProcessQueues, RoundRobin, PriorityQueue, Cfs, Policy, Schedulers, Scheduling |
| PCLP4-process-scheduler: Processor | the process that runs, `remaining`, `running`, a mutex and a condition variable | `run`, `exec`, `scheduler`, `suspend`, `fork`, `exit` | a thread per process, one of them at a time; threads are spawned while others decide; everyone is released at the end | Processor |
| PCom-client-server-app | clients and their topics, online sockets, polled descriptors | one turn of the poll loop: a connection, a datagram, a request, a disconnection | descriptors are reused and erased while iterating; blocking reads; clients that leave unseen | PubSub, Broker, Topics |
| PCom-dataplane-router | ARP table, queue of packets, routing trie | forward, ARP request and reply, ICMP | replies are lost, come late or in another order than the packets wait | Router, RouteTrie, Checksum |
| SO-memory-allocator | one list of the blocks of the heap and of the mappings | `os_malloc`, `os_calloc`, `os_realloc`, `os_free` | splitting, joining and growing in any order; calls that fail in the middle | OsMem |
| SO-mini-shell | children, pipes, standard input and output | `parse_command` on trees of `;` `&` `\|` `&&` `\|\|` | two children, two ends of a pipe, who closes which, nested | MiniShell |
| SDA-magic-tape | doubly linked tape, finger, command queue, UNDO and REDO | moves, searches, insertions, undo and redo | pointers remembered while cells are inserted | MagicStrip, Tape |
| PCom-Web-Client-REST-API | cookie, library token, connection, the answer read so far | the ten commands | answers in pieces, sessions that end, errors without a body | RestClient |
| SDA-quadtree-image-compression | the tree, the queue that writes and reads it | compress, write, read, paint | a level order with holes; colours swapped twice | Quadtree |
| PCLP2-sensor-management-unit | vector of sensors and the blocks they own | read, analyze, clear, exit | removal while walking; slots copied over each other | Sensors |
| SO-mini-libc: malloc | circular list of mappings | `malloc`, `realloc`, `free`, cleanup | `mmap` fails; the list is unmapped while it is walked | MemList |
| PA-project-2 | queue and order of Kahn's algorithm, a recurrence | numarare, trenuri | the order depends on the lists; cycles and dead ends | TopologicalOrder |
| PP-lamba-interpreter | a term | substitution, normal-order steps | capture of variables | Lambda, Simplify |
| the rest | | | | see Not modelled |

No component talks to another. Inside a component: workers and main of
SO-parallel-graph share the pool and the arrays; the Processor calls a scheduler
under a mutex on behalf of the process that runs; the server, the router and the
REST client meet peers over a network; the shell and its children meet in pipes.

The last five of the table run alone, from an input to an output. `Programs`
puts them in one specification, in which one program is chosen and takes all the
steps, so that one run checks them all.

## Runs at a glance

| run | what it asks | result |
|---|---|---|
| traversal | does the pool lose, repeat or forget a node, does it end, is the sum right | holds, with the exception named below |
| lost | is `dequeue_task` NULL only when the work is complete (os_threadpool.c:67) | no |
| Schedulers | do the three schedulers keep the promises of a scheduler, and each its own | holds |
| Processor | does one process at a time run, has each its thread, does every thread end | holds |
| OsMem | is the heap always partitioned, does nothing leak, are contents kept | holds |
| PubSub | do tables and descriptors agree, is the server a broker, is everyone served | holds, with the exceptions named below |
| Router | does a packet leave by the best route to its own next hop, does the queue drain | holds; the latter two of replies in order |
| Router_reply | does a reply ever bring the router down (README.md:24) | yes |
| MiniShell | is every child awaited, is the result determined, does a line end | holds |
| MagicStrip | is the list linked both ways, does it show what a plain tape shows | holds |
| RestClient | is the token of the session held, is an answer read whole | holds |
| Programs | are the answers of the sequential programs right | holds |

Deadlock checking is off where the program may stop: at a verdict of the
scheduler, at exit, when the server goes down, or at a bound.

## SO-parallel-graph

| module | what it models |
|---|---|
| ThreadPool | os_threadpool.c: the queue, `queue_lock`, `queue_not_empty`, the loop of a worker. One action per critical section, or per access outside one |
| ParallelGraph | parallel.c: `process_node` run by main (node 0) and by the workers, and the end of main. EXTENDS ThreadPool |
| OsGraph | os_graph.c: how the input becomes adjacency lists, as operators |
| SerialGraph | serial.c: the recursive traversal, as an operator; only TLC uses it |
| Traversal | the abstract specification: each visit adds the value of a new node, next to a visited one |
| ParallelGraphInv, ParallelGraph_proofs | the inductive invariant and the theorems |
| MCParallelGraph | small graphs; `PrintedSumIsSerialSum` ties parallel.c to serial.c |

`pc[th]` is the position of a thread, `arg[th]` the node of the task it runs,
`cursor[th]` the `i` of its loop. A critical section that takes a lock and gives
it back within one function is one step; the two places where a thread keeps
`queue_lock` over several steps (`toWait`, `take`) are positions of their own.
The lists of tasks, mallocs and frees are abstracted to a sequence of node
indices. `pthread_cond_wait` may return without a signal (`SpuriousWakeup`).
`create_threadpool` is in the initial state: all workers are at the head of
their loop, which they reach without touching shared state.

**Fairness.** `FairSpec` assumes strong fairness of each thread's code: every
thread that can run does, and one that contends for `queue_lock` gets it in the
end. Weak fairness would let a thread lose the mutex to others for ever, which
no pthread implementation the project targets does. Nothing is assumed of
spurious wakeups. Only `Termination` needs fairness.

**Run traversal.** Three workers and main on nine graphs of four nodes: four
where main hands over several tasks (with duplicate edges, cycles and
unreachable nodes), four where it hands over one, and one whose node 0 is
isolated. A node that is marked is in exactly one place (`MarkedNodeIsInOnePlace`);
FINISHED means that no worker has a task in hand (`FinishedMeansQuiescent`); what
an early FINISHED can lose is only what main had still to enqueue
(`OnlyMainsTasksAreLost`); with one task of main's the program prints what
serial.c prints; it implements `Traversal`; and it ends. Four nodes and three
workers are enough for every order of the hand-over, the last-active test and
the wait of two different workers; the theorems cover the rest.

**What the code does not do.** Run `lost`: line 81 of os_threadpool.c counts only
workers among the active threads, so a worker that has drained the queue
declares the end while main still enqueues, and those tasks are freed unrun.
`Termination` excepts one case, which is real: parallel.c:47-49 sets FINISHED and
broadcasts without `queue_lock`, and with an isolated node 0 a worker between its
test and its wait misses both and waits for ever. A graph whose node 0 has only
itself as a neighbour never ends either (nothing is enqueued, the pool stays
NOT_STARTED) and is not among the graphs of the run. os_graph.c:53 gives each
list room for `num_nodes` entries, which duplicate edges may exceed; the graphs
of the run stay within it.

**Proofs.** For every finite set of workers, every set of nodes and every graph
over it: type correctness, the four safety properties above but for the
comparison with serial.c, `IdleThreadsCounted` (the exact meaning of
`idle_threads`), `PrintedSumIsComplete` (with one task of main's the sum covers
exactly the reachable nodes) and the refinement `TraversalSpec`. They rest on
`PoolAssumption` (finitely many workers, at least one, main is none) and
`GraphAssumption`, and on one inductive invariant `IInv`. No property above is
inductive alone. That a node is in one place needs to know that only its finder
enqueues it (`LockInv`, `ScanInv`); that nothing but main's tasks is lost needs
that a DONE node has marked neighbours or a thread in its loop (`DoneInv`); that
FINISHED means quiescence needs the meaning of `idle_threads` (`IdleInv`), where
cardinalities of finite sets come in; completeness needs that marked nodes are
reachable (`ReachableInv`: they are in every closed set that holds node 0, which
avoids induction over paths) and that with one start node main has nothing left
to do once a worker runs (`SingleStartInv`). That a step preserves `IInv` is one
lemma per conjunct with one step per action. Liveness and the equality with
serial.c, whose operator is recursive, are model-checked only.

## PCLP4-process-scheduler

| module | what it models |
|---|---|
| Scheduling | the abstract specification, whatever the policy: a process is unborn, ready, running until a time, asleep until a time, waiting for an event, or gone |
| ProcessQueues | what round_robin.rs, priority_queue_round_robin.rs and cfs.rs have in common (each repeats it): PCBs, the two queues, `actualise_timings`, signals, the branches of `next` with nobody to run. Operators such as `ForkBy` take the PCB of the running process as the policy has charged it. Its lines are those of round_robin.rs |
| RoundRobin, PriorityQueue, Cfs | one action for each reason of `stop`, and `NextDecision` for `next`; what the policy charges, how it sorts, how long the slice is |
| Policy, Schedulers | one of the three, chosen at the start |
| ProcessQueues_proofs, Schedulers_proofs | the proofs: what every policy has, and that each of the three is such a one |
| Processor, OtherPrograms_proofs | the threads of processor/src/lib.rs, above any scheduler that keeps the promises of Scheduling |

**Schedulers.** `decision` is what `next` returned last ("Stopped" between a
`stop` and the `next` after it; "Crashed" when an `unwrap` on a zero
`NonZeroUsize` panics). The caller is what `Processor::scheduler` is: `stop`
comes only while a process runs, with a `remaining` below the slice; `next` is
called until it says Run or gives up. `list` only reads. `clock`, `idle`, `gone`,
`born` and `entered` are history variables: the time elapsed, the part of it the
processor slept, the time used by processes that exited, the birth of each, and
when and behind how many others it last became ready. `vruntime`, the string, is
its number; `i8` priorities wrap.

`TimesAddUp`: each unit of time is charged to one process or to idleness, and
`total` is the age of the process. `KeepsPromises` is the refinement: slices are
respected, sleepers wake at the first stop or idle moment after their time,
signals wake all waiters, Done, Panic and Deadlock are given only when justified,
nobody is lost or duplicated between the queues. `SleepEnds`: the loop over
`next` reaches another decision than Sleep. `BoundedWait` (round robin),
`HigherPriorityWaitsLittle` (priority queue) and `LeastUsedWaitsLittle` (CFS) bound
how long a policy keeps waiting whom it should prefer. Weak fairness of
`NextDecision` only: `Processor::scheduler` calls `next` in a loop.

Theorem `TimesAlwaysAddUp` (Schedulers_proofs) states `TimesAddUp` for every number
of processes, slice, set of sleeps and events, and each policy. Its invariant `Inv`
adds to the types a `Tally` - the processes of the two queues have distinct pids,
below the next one to be given, and the total of each is its age - and that while a process runs it is the first of the ready queue, the only place where a stop
charges time.
The proof is done once, for `AnyStep` (ProcessQueues_proofs): any way to charge the running
process within its time, any way to reorder the queue and any slice; each policy is
then shown to take such steps. The sum of the times used is a fold over the set of
processes, which is unfolded by one process at a time from an existence proof.

Theorem `PromisesAreKept` states the refinement itself, `Spec => KeepsPromises`, for
each policy, on the same `AnyStep`. `Look` is how a PCB is seen by the others, and
`Shows` says that a function from pids to what is seen agrees with a set of PCBs:
each helper of the code (waking by `actualise_timings`, a signal, preemption, the
move from one queue to the other) is proved once to do to `Shows` what the abstract
operation does. The refinement needs one more invariant, `Turn`: what the last
decision says of the queues. While a process runs, the decision names it and its
slice, and process 1 is in the queues; after Sleep nobody is ready, some process
sleeps, and the processor sleeps no longer than the first of them (`SleepCap` may cut
it shorter), so that the `next` that follows never skips over a sleeper: it wakes
the first, or it is a `Doze` of Scheduling. `CallIsSeen` and
`ChoiceIsSeen` then show that `stop` is one step of Scheduling, and that `next` is
one, or is not seen (Sleep). Two hypotheses stand in the theorem. `Proper`: events
are events, and no sleep is of 0, whose sleeper would never wake
(round_robin.rs:33). `Roomy`: there is a unit of cpu_time for each process and the
minimum remaining slice is not 0; otherwise a slice of 0 is computed and `next`
panics (round_robin.rs:178, cfs.rs:203). The run satisfies both. `TimesAlwaysAddUp`
needs neither.

Theorems `EveryTurnComes`, `HigherPrioritySoonRuns` and `LeastUsedSoonRuns` state the
three bounds on waiting, again from `AnyStep`. They relate `entered`, which says when
a process became ready and behind how many, to the queue of now; no bound is inductive
by itself, since it says nothing of how far the line has moved. The invariant is
`Inv /\ Patience`. For round robin, `InLine`: a ready process at place k has waited at
most a slice for each place it has moved up since it became ready, plus what the
process that runs has used of its slice (`Held`). For the two others, `AllBear`: while
a process runs, each one behind it either became ready in the slice that goes on
(`Recent`), or is `Content` - its priority is not higher; its vruntime, plus a
cpu_time, is not less than what the vruntime of the running process will be when its
slice is used up. Sorting makes all content at the start of a slice, an early stop
keeps them so (the process gains priority; what its slice loses its vruntime gains),
and the end of a slice ends the claim. `LeastUsedSoonRuns` supposes a minimum remaining
slice of at least 1: with 0, a process with nothing left of its slice would go on for
one unit more once the shares have shrunk to 0 (cfs.rs:190-192). The lemmas on `AnyStep`, which depend on no
policy, are in ProcessQueues_proofs; Schedulers_proofs shows each policy to be such a
one, and states the theorems.

Bounds: 3 processes (queues of length three tell rotation, sorting and stability
apart); no `stop` begins after time 6, which leaves two full slices of up to 3
with up to seven calls; sleeps of 1 and 3, shorter and longer than the 2 to which
`SleepCap` (10000 in the code) is lowered, so that the processor also sleeps twice
for one sleeper; `VruntimeCap` (100000) is lowered to 5 and reached; two
priorities, which the policy raises and lowers; one event, since processes that a
signal does not concern are there as sleepers.

The run has a minimum remaining slice of 1, positive sleeps, priorities that are
not negative and at least as many units of cpu_time as processes, and each of
these is needed: with a minimum of 0 a system call in the last unit of a slice
makes `next` panic (round_robin.rs:178); `sleep(0)` is never woken (line 33); a
priority of -128 whose slice expires wraps to 127, or panics in a debug build
(process_control_block.rs:62, where README.md:53 promises saturation); a share of
0 makes `next` panic in two of the three branches of CFS that compute one
(cfs.rs:203, 219).

**Processor.** A thread is at a position of lib.rs: "unborn"; "user", in the
program of its process; "calls", about to take the mutex for a system call;
"decides", in the loop over `next`; "spawns", after the decision that followed
its fork; "suspends" and "waits", before and in the wait of `suspend`; "joins"
(main, in `run`); "ended" or "panicked". A system call holds the mutex from line
208 to `notify_all` and is a step per call of the scheduler. A fork spawns the
thread of the child after the decision, as the code does, so the scheduler may
already have chosen the child, which has no thread yet, or somebody else. The
scheduler that is called is Scheduling itself, so that what holds here holds for
each of the three. Run Processor: up to three processes, slices of 2, durations
of 1 and 3, a budget of 5 units of time and a word of 4 for `remaining`, which
wraps. `RunsAlone`: one process is out of `suspend`, it is the one that the
scheduler runs, and the processor's count of its slice is the scheduler's.
`ThreadPerProcess`: every process has its thread, or exactly one that is about
to spawn it. `EveryThreadEnds`, with weak fairness of each thread (an operating
system that runs all threads): `run` returns or panics, and nobody is left in
`suspend`.

Theorems `OneRunsAtATime` and `OneThreadEach` (OtherPrograms_proofs) state the two
safety properties for every set of processes, slice and word. Their
invariant is `TInv /\ (running => DecideInv /\ TurnInv)`: what fits between
processes and threads at all times; and while the processor runs, either one
thread decides, or one has the turn and nobody decides.

Left out: a scheduler that panics with the mutexes held poisons them. And after
Deadlock, Panic or Done all threads are released and run on without the
scheduler: their `wait` returns as if they had been signalled, and a `fork`
panics at lib.rs:325. The model has these steps; the properties promise only
that they end.

## SO-memory-allocator

OsMem models osmem.c. A memory is a record (heap_start, break, block_meta by
address, bytes by address); a function of the library is an operator from memory
to memory, and an action is one call by a program which then fills the bytes it
gained. `os_free` and `os_realloc` include every split and every coalescing pass
the code makes; `sbrk` and `mmap` fail beyond `HeapLimits` and once the addresses
of `MapAddresses` are used. A null or bad pointer that the code follows sets
`faulted`, and nothing runs after it. The product nmemb * size is taken not to
overflow.

Run OsMem: the constants are scaled so that their order is kept and the address
space stays small: ALIGNMENT 2, METADATA_SIZE 2, MMAP_THRESHOLD 12, PAGE_SIZE 6
(the threshold of calloc), a heap of 6 or of 26 bytes, two mappings. Sizes 1, 5
and 11 fall on both sides of the calloc threshold and fit in, or do not fit in,
what a split leaves; three blocks give a free block between two in use, which all
cases of coalescing need. `BlocksPartitionHeap`: the list is the heap, both ways,
with no two free neighbours. `BlocksInUseAreHeld`: nothing leaks and every block
has the room asked for, also when a call fails in the middle. `ContentsKept`: no
byte of a held block changes, a realloc takes the contents along, calloc is zero.

Theorems `HeapStaysPartitioned`, `InUseIsHeld` and `ContentsAreKept` (OsMem_proofs)
are these three properties for any constants that satisfy `OsMemAssumption`: any
alignment and thresholds that are multiples of it, any heap, sizes, mappings that
do not overlap and number of blocks; the third with `MovesStale = FALSE`. The
invariant does not walk the list. `After` and `Before` say of each block which of
the heap's blocks its `next` and `prev` are, by address; with `Placed` (blocks lie
apart, aligned, between base and break), `Sized`, `Started` and `Mapped` they make
`Good`, which is the partition. A list operation is a splice - the blocks between
two addresses go, or one comes - and `SpliceIsGood` is the one proof that a splice
keeps `Good`; `SkipFree` and `BackOverFree` unfold the two merging loops, which in
a good heap run at most once each way. On top of that every function of osmem.c
gets a contract: `Frees`, `Reuses`, `Gains`, `Moves` or `Stays` says which blocks
are in use after it, that the others are the same and that no byte of theirs has
changed (`DataKept`). `MallocAllocates`, `CallocAllocates`, `FreeIs` and `ReallocIs`
are those contracts, and `Held` and `Contents` relate them to what the program
holds. `ReallocIs` also tells how many bytes a move has copied; `ReallocKeeps` is
where a stale recorded size would be fatal, and the only place.

**What the code does not do.** `os_realloc` takes over the next block and returns
(osmem.c:385-393) without recording the new size; a later move to a mapping
copies that recorded size (line 341) and loses the rest. The run keeps the program from that
sequence (`MovesStale = FALSE`); with TRUE `ContentsKept` is violated. When the
first `sbrk` fails, heap_start stays set (lines 25-28) and later calls take what
is there for a block; when the `mmap` of a moving realloc fails, its result is
used all the same (340-346). Both end in `faulted`, or in a call that returns
NULL, and are part of the run.

## PCom-client-server-app

| module | what it models |
|---|---|
| PubSub | server.cpp, handler by handler, with the subscribers (subscriber.cpp) and the kernel's side of each connection |
| Broker | the promise: sessions, subscriptions that outlive them, requests in order, delivery at once, to those concerned, once |
| Topics | `check_topics` as a function, and what the wildcards mean |
| MCPubSub | a topic of two levels and a pattern of both wildcards |

An action is a turn of the loop over `fds` for one descriptor that `poll`
reported, so the environment moves between any two of them: clients leave while
others are served, and the vector is erased while it is walked. `sock` is the
kernel's table of descriptors, whose lowest free number is given again;
`newcomer` is the descriptor in whose `recv_all` the server blocks for the id.

Run PubSub: two ids, two connections, at most two requests and one unread message on
each, so that a second connection with the same id, a returning client, and a
message to a client about to leave all occur. `OnlineIsPolled` ties `online`,
`clients`, `fds` and the descriptors together after any order of events;
`ImplementsBroker` is the refinement of Broker; `TopicsMatch` compares
`check_topics` with the meaning of the wildcards on all topics and patterns of up
to three levels; `RequestsAreServed` is the liveness. Fairness (WF): the server
goes on when it can, a client that has connected sends its id, and a client
reads what it is sent. All three are needed, the second because the server does
block on it (line 288). `server` may become "down": on `exit`, or when it writes
to a connection that was reset (SIGPIPE is not handled).

`PubSub_proofs` proves the three safety properties for any number of clients and
connections. `TablesAgree` (`OnlineIsPolled`) is inductive once three things are
added: a connection waits in the backlog once only, the three standing
descriptors are never removed from the vector, and a connection that poll has
reported is still there when its turn comes. That a new descriptor is not in use
rests on the lowest free number of a finite set existing. `ServerIsABroker`
(`ImplementsBroker`) needs more of the connections, the invariant `Dealings`: a
client says who it is first and only once; what lies in a connection is what the
server has not yet read or given up; and what poll reported stays true until the
turn of that descriptor, although the environment moves in between. Each action
is then one lemma: it preserves `Dealings` and is a step of Broker, or a stutter.
The theorem supposes at least one topic and patterns whose `*` comes last, for
which `ChecksRightly` shows that `check_topics`, at any length, matches what the
wildcards mean; without that supposition it matches nothing wrong, and the
server may keep back messages that Broker would deliver. `TopicsAgree` is
`TopicsMatch`, of which it is the general form.

**What the code does not do.** `get_client_id` does not advance its iterator
(server.cpp:181, where line 177 says that it looks for the client with that
socket): with the sought client second in the map the server loops for ever;
`RequestsAreServed` excepts this state. A client that has left before it sent its
id leaves the id buffer uninitialised, and the model takes any id. A client that
comes back before the EOF of its old connection has been handled is refused.
`*` before another level takes the first match only, so `TopicsMatch` claims for
such patterns that they match nothing wrong, and nothing more. The payload types
are formatting, and only an unknown type is told apart.

## PCom-dataplane-router

Router models router.c: an action is one frame handled by `main` - a packet, an
ARP request, a reply that was asked for or not - and the loss of a reply. RouteTrie
is lib/trie.c with the search of lib/helper.c and the definition of the longest
prefix match; Checksum is the 16-bit one's-complement sum and the incremental
update. `orderly` is chosen at the start: TRUE when each request is answered
once and in order.

Run Router: three destinations over a table of three entries with two next hops
(a default route, a longer prefix below it, and one of its own), addresses of
two bits, TTLs on both sides of expiry, up to three waiting packets, an ARP
table of six entries in place of 100 (include/helper.h:12): the two next hops
with three packets each are as many as an orderly run can need, and unasked
replies fill it. `ForwardedToBestHop` (always): what leaves goes by the longest
prefix to that route's next hop, also after a wait.
`RequestsMatchQueue` and `QueueDrains` (orderly only): requests and queue
correspond, nothing crashes, no packet waits for ever - under weak fairness of
the answers, which is an assumption on the neighbours and not on the router.
`TrieFindsLongestPrefix` covers every table of up to three entries and every
address of two bits; `ChecksumVerifies` every 16-bit sum of the rest of a header.

Router_proofs proves them, but for the liveness. `BestHop` is `ForwardedToBestHop`
for every table and any replies: the invariant says that each packet in the queue
carries the best route of its own destination, so that a wrong reply may release
a packet, but never under another packet's route. It uses `TrieIsRight`: for every
table, every length of address and every address, the search of the trie that
main builds is the longest prefix match (`TrieSearches` is the property of the
run). The trie after any number of entries has a closed form - at each prefix the
last entry with that prefix - and the walk is right from the leaf upwards.
`UpdateVerifies` is the arithmetic behind `HeadersVerify` (`ChecksumVerifies`):
the sum modulo 65535, with the two bytes of a word swapped, for every sum of ten words.
`RepliesInOrder` says that the requests under way are, in order, the next hops of
the packets that wait, and that only a full ARP table brings the router down;
`RequestsMatch` (`RequestsMatchQueue`) adds that a table with MaxQueue entries per next
hop is never full, because a hop is asked for only while it has no entry, hence
at most once for each packet of one queue.

**What the code does not do.** Run `Router_reply`: `parse_arp_reply` releases the
head of the queue whatever the reply is about, and copies the address it does not
find through NULL (router.c:248). A lost reply leaves its packet queued for ever;
the ARP table never replaces an entry, and one more than ARP_TABLE_SIZE - the seventh in the run, the 101st in the code - is
written past its end (`crashed`, like NULL); an echo is answered
before the checksum is tested; and the incremental update may give 0xFFFF for 0,
which both verify. Frames that are too short, of another type or for someone else
change nothing and are not modelled.

## SO-mini-shell

MiniShell models `parse_command` of cmd.c and the loop of main.c. A process is a
record: a stack of what it has still to do (`frames`), its descriptors, the
result so far and, for a child, its exit status; a fork copies it, as fork does. A
command is an operator between two commands, a builtin (its result) or a program
(does it read to the end, how many chunks it writes, how it ends). A pipe is the
number of chunks in it; it ends for its reader when no process holds the end to
write, and blocks the writer when full.

Run MiniShell: nine lines (MCMiniShell) that nest every operator in every other
at least once, with children that fail, are killed, leave, or write more than a
pipe of two chunks holds; six processes are enough for all of them.
`EveryChildIsAwaited`: no zombie, no wait for nobody, each child by one waiter.
`TerminalRestored`: standard input is the terminal again. `ResultIsDetermined`:
the result is `Value` of the line in every schedule. `LinesEnd`: with weak fairness
of each process (the kernel), every line ends. `Commands` and `Depth` are the set
of the parts of all lines and how deep each is nested, so that `Value` is a
recursive function that the prover can unfold; `MaxPid` is room for the processes of a line.

MiniShell_proofs proves the three safety properties for any lines, nested to any
depth, any room in the pipes and any schedule. What a process has still to do is
a stack; the proofs count its frames from the bottom, since a step replaces the
top and leaves the depth of the others. `ChildrenAreAwaited` and
`TerminalComesBack`: a process is there exactly when one frame of one stack waits
for it, and the shell has saved as many standard inputs as it has frames that
restore one, the terminal below all others. `ResultsAreDetermined`: for each process there
is a sequence of expectations, one per depth - what the result will be when the
stack is down to that depth. They agree between a parent's frame and the child it
waits for, and the bottom one of the shell is `Value` of the line; every step
keeps that, forks by giving the child the expectation of its command. How a
program ends, killed or not, is part of its command.

**What the code does not do.** In `run_on_pipe` the parent keeps the end to read
open until it has waited for the writer (cmd.c:349-356): `yes | true`, a writer
of more than a pipe holds in front of a program that does not read, never ends.
With such a line `LinesEnd` is violated; the lines of the run read what is
written, or write no more than fits. Names, variables and files are abstracted to
results and programs.

## SDA-magic-tape

MagicStrip is the doubly linked tape with its sentinel and the UNDO and REDO
stacks of pointers, one action per command of the input file; Tape is what it
should look like: a sequence of characters in which remembered positions are
numbers that shift when a cell is inserted to their left. `WellLinked`: `next` and
`prev` agree at every node, and `last` is the end.
`ImplementsTape`: each step of the list is the step of the tape, with the same
output. Run MagicStrip: three cells (an insertion in the middle, with a remembered
cell on either side), two remembered positions, two commands waiting, one
character besides "#" and the two that the commands write.

Theorem `StripStaysLinked` proves `WellLinked` for any number of cells, commands
and arguments, and also with a `malloc` that fails (`MallocFails`), in which case
the run's refinement does not hold: MOVE_RIGHT pushes the place it comes from before it knows that
there is a cell (main.c:29, where README.md:90 tells otherwise), and an
insertion at the end overwrites the last cell. After a push that failed on an
empty stack main.c:26 follows UNDO's NULL head: `fault`.

Theorem `StripIsATape` proves the refinement while `malloc` gives memory
(`MallocFails = FALSE`). The refinement mapping takes a pointer to the place of its
node on the walk from the sentinel, so the invariant beside `StripInv` is that there
is such a walk: `w`, the node at each place, with the inverse `p` (`IsWalk`).
`WellLinked` alone does not give it, since a ring apart from the list is linked as well.
`RightwardIs` and `LeftwardIs` show that a search follows the walk to its end,
`LongerWalk` that an insertion puts one place into it and shifts those behind, so
that the remembered pointers become the shifted positions of Tape (`PlacesShift`).
From there each command is one lemma. Both theorems are in OtherPrograms_proofs.

## PCom-Web-Client-REST-API

RestClient is the client - `cookies`, `token`, the ten commands, the loop of
helpers.cpp that reads an answer - and the server, which is external: it opens and
expires sessions, accepts or refuses, and delivers an answer in pieces of any
length, with or without a declared length, or ends early. `TokenOfThisSession`:
the token held is that of the session whose cookie is held, or of none.
`AnswerReadWhole`: an answer that arrived whole was read whole, header cut
anywhere. Run RestClient: two sessions (a token of an old one can be told from a
new one), bodies of at most two units. No fairness, since nothing is claimed to
happen. Theorem `TokenStaysWithCookie` is `TokenOfThisSession` for any number of
sessions and any length: its invariant adds what requests and answers under way
carry. Theorem `CommandsSeeWholeAnswers` is `AnswerReadWhole` for any length of
answers and any way to cut them: its invariant relates what was read, what is
still to come, and the length that the header, once read, declares. Both are in
OtherPrograms_proofs.

The model has, and no property denies: a logout sent to the login path
(commands.cpp:248, commands.hpp:42), success reported for any answer without a
JSON object (line 71, Readme.md:22), `json::parse` of NULL (line 110), and an
expired session that the client still believes in (line 55).

## Programs

Five programs that run from an input to an output share one specification,
`Programs`, which chooses one; its modules are instantiated as `Tree`, `Vector`,
`Graph`, `Terms` and `Pages`.

| module | program | inputs of the run | property |
|---|---|---|---|
| Quadtree | SDA-quadtree-image-compression: compress, write, read back, paint | 81 images of 4 x 4 made of three kinds of quadrant, factors 0, 1, 900: leaves at every level | `PictureOfMeans`: a cell has the mean colour of the largest square around it that is close to one colour |
| Sensors | PCLP2-sensor-management-unit | up to four sensors with values on both sides of every bound of `clear` and of the operations | `VectorKeepsPromises`: the vector holds the sensors whose blocks are allocated, in order; a clear removes the erroneous ones, several in a row included, and no other; exit frees all |
| TopologicalOrder | numarare and trenuri of PA-project-2 | all acyclic graphs on four nodes, with a second graph that is equal or partly reversed; MOD 3 | `AnswersAreRight`: the order is topological, the paths are counted |
| Simplify, Lambda | normal-order evaluation of PP-lamba-interpreter | small abstractions over two names applied to small terms, until a term exceeds 20 variables and binders | `StepsAreNormalOrder`: a step is the leftmost step of the term without names, so nothing is captured |
| MemList | malloc, realloc, free and the cleanup of SO-mini-libc | seven pages, blocks of one or two, `mmap` failing at any call | `NoPageLost`: each mapped page belongs to one block held or one item of the list, and the cleanup reads no page it has unmapped |

Theorem `KahnOrders`: for every finite graph, cyclic ones included, and whatever
order the queue takes, no edge leads back in `topological_order`, no node is in
it twice, and none that has become free is forgotten. The invariant behind it is
that `in_degree` of a node is the number of its predecessors not yet in the
order, and that the queue holds exactly nodes for which that is zero. It is proved in
OtherPrograms_proofs, which holds the theorems of four of the smaller programs.

**What these programs do not do.** Sensors: after a clear that leaves nothing,
`realloc(sensors, 0)` frees the vector and returns NULL, so main keeps the old
pointer, and the next clear or exit frees it again (main.c:241-245; `fault`, which
no property denies); Quadtree is right for
sides that are powers of two only, and trusts the file; trenuri prints the number of
cities on the longest path that leaves the start, wherever it ends (trenuri.cpp:89), while
PA-project-2/README.md:17 and trenuri.cpp:77-78 promise the longest that ends at the
stop: with an edge from the start to the stop and one that leads on from there, 3 and
not 2. So no property states what trenuri prints, only that the order it goes back
along is right.
Lambda: `normalStep` stays on the left of an application of an application
even when only its argument can be reduced (Lambda.hs:74), and never gets to that: the property
lets such a step change nothing. The comparison of terms equates all free variables, and
applicativeStep lacks cases; both are left out.
MemList: an `mmap` that fails returns MAP_FAILED, which mem_list.c:31 takes for
memory; a shrinking `realloc` copies the old length (malloc.c:54).
Both set `fault`; the property then claims nothing more.

## What is proved

| theorem | of | for every |
|---|---|---|
| `TypeCorrect`, `OnePlace`, `IdleCount`, `Quiescence`, `LossIsMains`, `CompleteSum`, `Refinement` | ParallelGraph | finite set of workers, set of nodes, graph |
| `OneRunsAtATime`, `OneThreadEach` | Processor | set of pids, durations, slice, word |
| `StripStaysLinked` | MagicStrip | number of cells and commands, malloc failing or not |
| `StripIsATape` | MagicStrip, Tape | number of cells and commands, while malloc gives memory |
| `TimesAlwaysAddUp` | Schedulers, ProcessQueues and each policy | number of processes, slice, priorities, sleeps, events |
| `PromisesAreKept` | Schedulers, Scheduling and each policy | the same, when no sleep is of 0, each process has a unit of cpu_time and the minimum remaining slice is not 0 |
| `EveryTurnComes`, `HigherPrioritySoonRuns` | Schedulers, RoundRobin, PriorityQueue | number of processes, slice, priorities, sleeps, events |
| `LeastUsedSoonRuns` | Schedulers, Cfs | the same, when the minimum remaining slice is not 0 |
| `TokenStaysWithCookie`, `CommandsSeeWholeAnswers` | RestClient | number of sessions, length and pieces of answers |
| `KahnOrders` | TopologicalOrder | finite graph |
| `TablesAgree` | PubSub | set of ids, connections, topics and patterns, unread messages |
| `ChecksRightly`, `TopicsAgree` | Topics | topic and pattern, of any length |
| `ServerIsABroker` | PubSub | the same, when a `*` comes last in its pattern and there is a topic |
| `BestHop`, `RepliesInOrder` | Router | routing table, packets, length of the queue, size of the ARP table |
| `RequestsMatch` | Router | the same, when the ARP table has MaxQueue entries per next hop |
| `TrieSearches`, `HeadersVerify` | RouteTrie, Checksum | table and address; sum, TTL and protocol of a header |
| `ChildrenAreAwaited`, `TerminalComesBack`, `ResultsAreDetermined` | MiniShell | set of command lines, room for processes and in pipes |
| `HeapStaysPartitioned`, `InUseIsHeld` | OsMem | alignment, thresholds, heap, mappings, sizes, number of blocks |
| `ContentsAreKept` | OsMem | the same, while no block with a stale size is moved to a mapping |

Each follows one pattern: an inductive invariant (`IInv`, `StripInv` or `Inv`, with
`Turn`, `Patience`, `Dealings`, `FewAsked`, `ResultsInv` or `Walks` where more is needed), a lemma that Init
establishes it, a lemma (or one per conjunct) that each action preserves it, and
a temporal step. The assumptions are the named ASSUMEs of the modules, which
TLC evaluates in the runs; what is supposed beyond them stands in the statement
of the theorem. A NULL that is no entry of a table is such an assumption
(`TableAssumption`, and the hypothesis of `TrieSearches`).

The induction theorems of the library take a predicate as a parameter, which the
provers cannot instantiate. Where an induction is needed - over the entries of a
table, the levels of a topic, the depth of a command - it is done by hand, on the
set of the numbers for which a statement fails: `LeastNumber` gives a least one,
`AllNumbers` (`UpTo` on the tape) concludes that there is none. Recursive functions
are unfolded from an existence proof of the same kind.

Model-checked only:

- all liveness, which needs ENABLED and fairness;
- the comparison with serial.c, and lambda terms, whose definitions are RECURSIVE
  operators, and the images, sensors and pages of Programs.

## Bounds and abstractions common to all

Every bound is a constant with the name `Max...`, `...Limit(s)`, `...Cap` or
`Budget`, or a set of inputs, and is commented where it is declared. Names,
payloads, output and logging are abstracted away unless a property is about
them. Errors that end a program at once (DIE, a failing pthread_create) are left
out. A C program whose behaviour is undefined sets a `fault` and stops.

## Not modelled

| part | why |
|---|---|
| the rest of SO-mini-libc | wrappers of one system call, and string functions on one buffer: no state of their own. Read along the way: `memcpy` is a `strncpy` (string.c:169-173), `memmove` has a buffer of 1024 bytes, `strncmp` reads past the terminator, `free(NULL)` follows a NULL item (malloc.c:42-43) |
| PCLP4-rustybox | each command is a sequence of file-system calls with nothing kept between them |
| nlohmann/json.hpp | third-party code, 24766 of the repository's 33445 lines of implementation |
| seven programs of PA-project-1 and PA-project-2 | loops from an input to a number, with no order that could differ. Read along the way: criptat's greedy choice is not always the best, oferta with n = 1 writes past its table |
| PP-query-language | pure functions from tables to tables, mostly one call of the Scala library each |
| PP-linear-regression, the MN projects | floating-point numerics, which TLC cannot compute |
| the parser, macros and applicative order of PP-lamba-interpreter | text and a second strategy; the substitution they share is modelled |
| statistics and PPM header of the quadtree, `print` of the sensors, formatting of the server | output only |

A share of 30% of the lines of the repository is therefore out of reach: three
quarters of them are the vendored library.

## What comes next

In this order: `PrintedSumIsSerialSum`, with serial.c as a function, and a run of
MiniShell with redirections that fail.
