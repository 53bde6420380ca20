----------------------------- MODULE Scheduling -----------------------------
(***************************************************************************)
(* What PCLP4-process-scheduler promises of any Scheduler (scheduler.rs),  *)
(* whatever its policy: which process may run, for how long, when a        *)
(* process that sleeps or waits becomes ready again, and when the          *)
(* scheduler may give up.  Time passes only while a process runs, or while *)
(* the processor sleeps because nobody is ready.                           *)
(***************************************************************************)
EXTENDS Integers

CONSTANTS
    Pids,       \* 1 .. the last pid
    Durations,  \* the times a process can ask to sleep
    Events,     \* the events a process can wait for and signal
    NoEvent,    \* the event of a process that waits for none
    MaxSlice    \* the longest timeslice

VARIABLES
    proc,       \* for each pid: its state, until when, and for which event
    clock,      \* the time units elapsed
    verdict     \* "none" until the scheduler gives up

schedVars == <<proc, clock, verdict>>

State(s) == [is |-> s, until |-> 0, event |-> NoEvent]
RunsUntil(t) == [State("Running") EXCEPT !.until = t]
SleepsUntil(t) == [State("Asleep") EXCEPT !.until = t]
WaitsFor(e) == [State("Waiting") EXCEPT !.event = e]

In(s) == {p \in Pids : proc[p].is = s}
Live == Pids \ (In("Unborn") \cup In("Gone"))

\* The processes f, in which every sleeper whose time has come is ready.
Woken(f, now) ==
    [p \in Pids |-> IF f[p].is = "Asleep" /\ f[p].until <= now THEN State("Ready") ELSE f[p]]

SchedInit ==
    /\ proc = [p \in Pids |-> State("Unborn")]
    /\ clock = 0
    /\ verdict = "none"

\* The processor creates process 1.
Boot ==
    /\ In("Unborn") = Pids
    /\ proc' = [proc EXCEPT ![1] = State("Ready")]
    /\ UNCHANGED <<clock, verdict>>

-----------------------------------------------------------------------------
(* The running process p stops at a time now within its slice, and the     *)
(* processes become those of f, except for the sleepers that wake meanwhile. *)

Stops(p, now, f) ==
    /\ clock' = now
    /\ proc[p].is = "Running"
    /\ now \in clock + 1 .. proc[p].until
    /\ proc' = Woken(f, now)
    /\ UNCHANGED verdict

\* The child has the first pid that was never used.
Fork(p, now) ==
    \E c \in In("Unborn") :
        /\ \A q \in In("Unborn") : c <= q
        /\ Stops(p, now, [proc EXCEPT ![p] = State("Ready"), ![c] = State("Ready")])

Sleep(p, now, d) == Stops(p, now, [proc EXCEPT ![p] = SleepsUntil(now + d)])

Wait(p, now, e) == Stops(p, now, [proc EXCEPT ![p] = WaitsFor(e)])

Signal(p, now, e) ==
    Stops(p, now, [q \in Pids |-> IF q = p \/ proc[q] = WaitsFor(e) THEN State("Ready") ELSE proc[q]])

Exit(p, now) == Stops(p, now, [proc EXCEPT ![p] = State("Gone")])

Expire(p) == Stops(p, proc[p].until, [proc EXCEPT ![p] = State("Ready")])

-----------------------------------------------------------------------------
(* Nobody runs: the scheduler decides. *)

Deciding == verdict = "none" /\ In("Running") = {} /\ In("Unborn") # Pids

\* A sleeper whose time comes first, when nobody can run before it.
WakesNext(s) ==
    /\ In("Ready") = {}
    /\ s \in In("Asleep")
    /\ \A q \in In("Asleep") : proc[s].until <= proc[q].until

\* Process p runs from now on for at most t.  Process 1 must be alive.
Dispatch(p, now, t) ==
    /\ clock' = now
    /\ 1 \in Live
    /\ \/ In("Ready") # {} /\ now = clock
       \/ \E s \in Pids : WakesNext(s) /\ now = proc[s].until
    /\ Woken(proc, now)[p].is = "Ready"
    /\ proc' = [Woken(proc, now) EXCEPT ![p] = RunsUntil(now + t)]
    /\ UNCHANGED verdict

\* The processor sleeps for less than the shortest sleep.
Doze(now) ==
    /\ clock' = now
    /\ now > clock
    /\ \E s \in Pids : WakesNext(s) /\ now < proc[s].until
    /\ UNCHANGED <<proc, verdict>>

Justified(v) ==
    \/ v = "Done" /\ Live = {}
    \/ v = "Panic" /\ Live # {} /\ 1 \notin Live
    \/ v = "Deadlock" /\ 1 \in Live /\ Live \subseteq In("Waiting")

GiveUp(v) ==
    /\ verdict' = v
    /\ Justified(v)
    /\ UNCHANGED <<proc, clock>>

SchedNext ==
    \/ Boot
    \/ \E p \in In("Running") :
        \/ Expire(p)
        \/ \E now \in clock + 1 .. proc[p].until :
            \/ Fork(p, now)
            \/ Exit(p, now)
            \/ \E d \in Durations : Sleep(p, now, d)
            \/ \E e \in Events : Wait(p, now, e) \/ Signal(p, now, e)
    \/ /\ Deciding
       /\ \/ \E now \in {clock} \cup UNION {clock .. proc[p].until : p \in Pids} :
                Doze(now) \/ \E p \in Pids, t \in 1 .. MaxSlice : Dispatch(p, now, t)
          \/ \E v \in {"Done", "Panic", "Deadlock"} : GiveUp(v)

SchedSpec == SchedInit /\ [][SchedNext]_schedVars
=============================================================================
