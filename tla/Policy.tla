------------------------------- MODULE Policy -------------------------------
(***************************************************************************)
(* Which of the three schedulers of PCLP4-process-scheduler was chosen: a  *)
(* function of scheduler/src/lib.rs makes one, which is never exchanged.   *)
(***************************************************************************)
EXTENDS ProcessQueues

VARIABLE policy     \* the scheduler that was chosen

Policies == {"round robin", "priority queue", "cfs"}

InTurn == policy = "round robin"
ByPriority == policy = "priority queue"
ByUse == policy = "cfs"

Chosen == policy \in Policies /\ Init
=============================================================================
