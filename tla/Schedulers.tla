----------------------------- MODULE Schedulers -----------------------------
(***************************************************************************)
(* The three schedulers of PCLP4-process-scheduler, one of which is chosen *)
(* at the start and then used throughout (scheduler/src/lib.rs), so that   *)
(* what they have in common is stated and checked once.                    *)
(***************************************************************************)
EXTENDS Policy

CONSTANT VruntimeCap    \* that of Cfs

ASSUME CfsAssumption == VruntimeCap \in Nat

RR == INSTANCE RoundRobin WITH Priorities <- {0}
PQ == INSTANCE PriorityQueue
CFS == INSTANCE Cfs WITH Priorities <- {0}

NextDecision ==
    \/ InTurn /\ RR!NextDecision
    \/ ByPriority /\ PQ!NextDecision
    \/ ByUse /\ CFS!NextDecision

Step ==
    /\ \/ InTurn /\ RR!Next
       \/ ByPriority /\ PQ!Next
       \/ ByUse /\ CFS!Next
    /\ UNCHANGED policy

\* The processor calls next() until it gets a process to run.
Spec ==
    /\ Chosen
    /\ [][Step]_<<vars, policy>>
    /\ WF_vars(NextDecision /\ UNCHANGED policy)

-----------------------------------------------------------------------------
\* Round robin: a ready process runs after those that were ready before it, each
\* of which holds the processor for at most one slice: nobody starves
\* (round_robin.rs:180-194).
BoundedWait == InTurn => RR!BoundedWait

\* Priorities: a process keeps a ready one of higher priority waiting for less
\* than a slice, however both their priorities moved since they were last sorted
\* (priority_queue_round_robin.rs:165-182).
HigherPriorityWaitsLittle == ByPriority => PQ!HigherPriorityWaitsLittle

\* CFS: a process that used the processor a whole cpu_time more than a ready one
\* keeps it waiting for less than that: it was running when the other woke
\* (cfs.rs:199-220).
LeastUsedWaitsLittle == ByUse => CFS!LeastUsedWaitsLittle
=============================================================================
