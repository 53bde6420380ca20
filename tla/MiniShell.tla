----------------------------- MODULE MiniShell ------------------------------
(***************************************************************************)
(* SO-mini-shell (cmd.c, main.c): the shell and the processes it forks,    *)
(* each of them a stack of what parse_command has still to do, with the    *)
(* pipes between them and the programs that read and write these.          *)
(*                                                                         *)
(* A command is a simple one or an operator between two commands.  A       *)
(* builtin (true, false, exit, cd, an assignment) is its result; a program *)
(* is what it does to its descriptors: it reads its standard input to the  *)
(* end, or not at all, writes a number of chunks, and exits.  A fork and   *)
(* the close and dup2 calls that follow it are one step: none of them      *)
(* blocks.                                                                 *)
(***************************************************************************)
EXTENDS Integers, Sequences, FiniteSetsExt, SequencesExt

CONSTANTS
    Commands,       \* commands and all their parts
    Depth,          \* how deep the operators of a command are nested
    Lines,          \* the command lines, parsed
    MaxPid,         \* room for the processes of any line
    PipeCapacity    \* chunks that fit in a pipe

ASSUME MiniShellAssumption == MaxPid \in Nat \ {0} /\ PipeCapacity \in Nat \ {0}

SHELL_EXIT == -100
KILLED == 256       \* the status of a child that a signal has ended

\* A program exits with a status below KILLED or is killed; no builtin returns KILLED.
ASSUME CommandsAssumption ==
    /\ Lines \subseteq Commands /\ Depth \in [Commands -> Nat]
    /\ \A c \in Commands :
        \/ c.op = "builtin" /\ c.result \in Int \ {KILLED}
        \/ /\ c.op = "program" /\ {c.reads, c.in, c.out} \subseteq BOOLEAN
           /\ c.writes \in Nat /\ c.status \in 0 .. KILLED
        \/ /\ c.op \in {"&", "|", ";", "&&", "||"} /\ {c.cmd1, c.cmd2} \subseteq Commands
           /\ Depth[c.cmd1] < Depth[c] /\ Depth[c.cmd2] < Depth[c]

Builtin(result) == [op |-> "builtin", result |-> result]
\* Redirected, a program leaves the descriptors it inherits alone.
Program(reads, writes, status) ==
    [op |-> "program", reads |-> reads, writes |-> writes, status |-> status,
     in |-> FALSE, out |-> FALSE]
Command(cmd1, op, cmd2) == [op |-> op, cmd1 |-> cmd1, cmd2 |-> cmd2]

Prompt == [op |-> "prompt"]
Ended == [op |-> "ended"]

Shell == 1
Pids == 1 .. MaxPid

\* Descriptors: the terminal, a file, or the end of a pipe, which goes by the pid
\* of the child that run_on_pipe forks to write to it.
Terminal == 0
File == -1

VARIABLES
    proc,   \* the processes
    pipe,   \* the chunks in each pipe
    line    \* what the shell executes, Prompt between two lines, Ended after exit

vars == <<proc, pipe, line>>

Nobody == [state |-> "none", frames |-> <<>>, result |-> 0, stdin |-> Terminal,
           saved |-> <<>>, stdout |-> Terminal, reads |-> FALSE, writes |-> 0]

Init ==
    /\ proc = [p \in Pids |-> [Nobody EXCEPT !.state = IF p = Shell THEN "runs" ELSE "none"]]
    /\ pipe = [p \in Pids |-> 0]
    /\ line = Prompt

-----------------------------------------------------------------------------
Runs(p) == proc[p].state = "runs"

\* A saved standard input stays open, also in the children forked meanwhile.
Reader(end) == \E p \in Pids : Runs(p) /\ (proc[p].stdin = end \/ end \in ToSet(proc[p].saved))
\* A bug: who reads from a pipe has not closed the end to write to.
Writer_ReadersToo(end) == Reader(end) \/ \E p \in Pids : Runs(p) /\ proc[p].stdout = end
Writer(end) == \E p \in Pids : Runs(p) /\ proc[p].stdout = end

Room == \E p \in Pids : proc[p].state = "none"
NewPid == CHOOSE p \in Pids : proc[p].state = "none"

Top(p) == Head(proc[p].frames)
Rest(p) == Tail(proc[p].frames)

\* p is about to do something of this kind.
At(p, kind) == Runs(p) /\ proc[p].frames # <<>> /\ Top(p)[1] = kind
Parses(p, op) == At(p, "parse") /\ Top(p)[2].op = op

Parse(c) == <<"parse", c>>

\* p goes on with some frames before the rest, and with a result.
Continue(p, frames, result) == [proc[p] EXCEPT !.frames = frames \o Rest(p), !.result = result]

\* What the fork that makes a child of p gives it: a copy of p's descriptors.
Child(p, frames) == [proc[p] EXCEPT !.frames = frames, !.result = 0]

-----------------------------------------------------------------------------
(* parse_simple *)

ParseBuiltin(p) ==
    /\ Parses(p, "builtin")
    /\ proc' = [proc EXCEPT ![p] = Continue(p, <<>>, Top(p)[2].result)]
    /\ UNCHANGED <<pipe, line>>

Redirected(child, c) ==
    [child EXCEPT !.stdin = IF c.in THEN File ELSE @, !.stdout = IF c.out THEN File ELSE @,
                  !.reads = c.reads, !.writes = c.writes, !.result = c.status]

ParseProgram(p) ==
    LET c == Top(p)[2]
    IN  /\ Parses(p, "program") /\ Room
        /\ proc' = [proc EXCEPT ![NewPid] = Redirected(Child(p, <<>>), c),
                                ![p] = Continue(p, << <<"wait", NewPid>> >>, 0)]
        /\ UNCHANGED <<pipe, line>>

Exited(child) == proc[child].state = "zombie"

\* The parent of a child that has ended takes its status and goes on.
Reap(p, child, result) ==
    /\ Exited(child)
    /\ proc' = [proc EXCEPT ![child] = Nobody, ![p] = Continue(p, <<>>, result)]
    /\ UNCHANGED <<pipe, line>>

Returned(status) == IF status = KILLED THEN -1 ELSE status

WaitForProgram(p) ==
    /\ At(p, "wait")
    /\ Reap(p, Top(p)[2], Returned(proc[Top(p)[2]].result))

-----------------------------------------------------------------------------
(* run_in_parallel, run_on_pipe and parse_command *)

\* A bug: the child is not waited for.
RunInParallel_NoWait(p) ==
    LET c == Top(p)[2]
    IN  /\ Parses(p, "&") /\ Room
        /\ proc' = [proc EXCEPT ![NewPid] = Child(p, <<Parse(c.cmd1)>>),
                                ![p] = Continue(p, <<Parse(c.cmd2)>>, 0)]
        /\ UNCHANGED <<pipe, line>>
RunInParallel(p) ==
    LET c == Top(p)[2]
    IN  /\ Parses(p, "&") /\ Room
        /\ proc' = [proc EXCEPT
               ![NewPid] = Child(p, <<Parse(c.cmd1)>>),
               ![p] = Continue(p, <<Parse(c.cmd2), <<"join", NewPid>> >>, 0)]
        /\ UNCHANGED <<pipe, line>>

Both_Either(result, status) ==
    IF status = KILLED \/ result # 0 \/ status # 0 THEN 1 ELSE 0
Both(result, status) ==
    IF status = KILLED \/ (result # 0 /\ status # 0) THEN 1 ELSE 0

Join(p) ==
    /\ At(p, "join")
    /\ Reap(p, Top(p)[2], Both(proc[p].result, proc[Top(p)[2]].result))

RunOnPipe(p) ==
    LET c == Top(p)[2]
        child == [Child(p, <<Parse(c.cmd1)>>) EXCEPT !.stdout = NewPid]
        parent == Continue(p, <<Parse(c.cmd2), <<"restore", NewPid>> >>, 0)
    IN  /\ Parses(p, "|") /\ Room
        /\ proc' = [proc EXCEPT
               ![NewPid] = child,
               ![p] = [parent EXCEPT !.saved = Append(@, parent.stdin), !.stdin = NewPid]]
        /\ pipe' = [pipe EXCEPT ![NewPid] = 0]
        /\ UNCHANGED line

\* A bug: the standard input is not restored.
Restore_KeepsPipe(p) ==
    /\ At(p, "restore")
    /\ Exited(Top(p)[2])
    /\ proc' = [proc EXCEPT ![Top(p)[2]] = Nobody,
                            ![p] = [Continue(p, <<>>, @.result) EXCEPT !.saved = Front(@)]]
    /\ UNCHANGED <<pipe, line>>

\* run_on_pipe returns a bool.
Restore(p) ==
    LET child == Top(p)[2]
        result == IF proc[p].result # 0 THEN 1 ELSE 0
    IN  /\ At(p, "restore")
        /\ Exited(child)
        /\ proc' = [proc EXCEPT
               ![child] = Nobody,
               ![p] = [Continue(p, <<>>, result) EXCEPT !.stdin = Last(proc[p].saved),
                                                        !.saved = Front(@)]]
        /\ UNCHANGED <<pipe, line>>

RunInSequence(p) ==
    LET c == Top(p)[2]
    IN  /\ Parses(p, ";")
        /\ proc' = [proc EXCEPT
               ![p] = Continue(p, <<Parse(c.cmd1), Parse(c.cmd2), <<"zero">> >>, 0)]
        /\ UNCHANGED <<pipe, line>>

Zero(p) ==
    /\ At(p, "zero")
    /\ proc' = [proc EXCEPT ![p] = Continue(p, <<>>, 0)]
    /\ UNCHANGED <<pipe, line>>

RunFirst(p, op) ==
    LET c == Top(p)[2]
    IN  /\ Parses(p, op)
        /\ proc' = [proc EXCEPT ![p] = Continue(p, <<Parse(c.cmd1), <<op, c.cmd2>> >>, 0)]
        /\ UNCHANGED <<pipe, line>>

GoesOn(op, result) == IF op = "&&" THEN result = 0 ELSE result # 0

RunSecond(p, op) ==
    /\ At(p, op)
    /\ proc' = [proc EXCEPT
           ![p] = IF GoesOn(op, @.result)
                  THEN Continue(p, <<Parse(Top(p)[2])>>, 0) ELSE Continue(p, <<>>, @.result)]
    /\ UNCHANGED <<pipe, line>>

-----------------------------------------------------------------------------
(* Programs, and the end of a process *)
Works(p) == Runs(p) /\ p # Shell /\ proc[p].frames = <<>>

IsPipe(end) == end \in Pids

Read(p) ==
    LET end == proc[p].stdin
    IN  /\ Works(p) /\ proc[p].reads
        /\ \/ /\ IsPipe(end) /\ pipe[end] > 0
              /\ pipe' = [pipe EXCEPT ![end] = @ - 1] /\ UNCHANGED proc
           \/ /\ IsPipe(end) => pipe[end] = 0 /\ ~Writer(end)
              /\ proc' = [proc EXCEPT ![p].reads = FALSE] /\ UNCHANGED pipe
        /\ UNCHANGED line

\* Without a reader the writer would be killed; but run_on_pipe keeps the end to
\* read from open until it has waited for the writer.
Write(p) ==
    LET end == proc[p].stdout
    IN  /\ Works(p) /\ proc[p].writes > 0
        /\ proc' = [proc EXCEPT ![p].writes = @ - 1]
        /\ IF IsPipe(end)
           THEN /\ Reader(end) /\ pipe[end] < PipeCapacity
                /\ pipe' = [pipe EXCEPT ![end] = @ + 1]
           ELSE UNCHANGED pipe
        /\ UNCHANGED line

ExitCode(result) == IF result = KILLED THEN KILLED ELSE result % 256

\* exit(result), of a program or of a child of the shell.
Exit(p) ==
    /\ Works(p) /\ ~proc[p].reads /\ proc[p].writes = 0
    /\ proc' = [proc EXCEPT ![p] = [Nobody EXCEPT !.state = "zombie",
                                                 !.result = ExitCode(proc[p].result)]]
    /\ UNCHANGED <<pipe, line>>

\* start_shell
ReadLine(l) ==
    /\ line = Prompt
    /\ line' = l
    /\ proc' = [proc EXCEPT ![Shell].frames = <<Parse(l)>>, ![Shell].result = 0]
    /\ UNCHANGED pipe

EndOfLine ==
    /\ line \notin {Prompt, Ended} /\ proc[Shell].frames = <<>>
    /\ line' = IF proc[Shell].result = SHELL_EXIT THEN Ended ELSE Prompt
    /\ UNCHANGED <<proc, pipe>>

Step(p) ==
    \/ ParseBuiltin(p) \/ ParseProgram(p) \/ WaitForProgram(p)
    \/ RunInParallel(p) \/ Join(p)
    \/ RunOnPipe(p) \/ Restore(p)
    \/ RunInSequence(p) \/ Zero(p)
    \/ \E op \in {"&&", "||"} : RunFirst(p, op) \/ RunSecond(p, op)
    \/ Read(p) \/ Write(p) \/ Exit(p)

Next ==
    \/ \E p \in Pids : Step(p)
    \/ \E l \in Lines : ReadLine(l)
    \/ EndOfLine

\* The kernel runs every process that can go on; nobody need type a line.
Spec == Init /\ [][Next]_vars /\ (\A p \in Pids : WF_vars(Step(p))) /\ WF_vars(EndOfLine)

-----------------------------------------------------------------------------
(* Properties *)

WaitsFor(p) == {f \in ToSet(proc[p].frames) : f[1] \in {"wait", "join", "restore"}}

\* However the children of parallel and piped commands are scheduled, killed and
\* nested, each child of a process is waited for exactly once: no zombie is left
\* behind, nobody waits for a child that is not there, and nothing of a line is
\* still running when the next is read.
EveryChildIsAwaited ==
    /\ \A q \in Pids \ {Shell} :
           proc[q].state # "none" <=> \E p \in Pids : \E f \in WaitsFor(p) : f[2] = q
    /\ \A p, q \in Pids : \A f \in WaitsFor(p), g \in WaitsFor(q) :
           f[2] = g[2] => p = q /\ f = g

\* Between two lines the shell reads from the terminal again and holds no pipe.
TerminalRestored ==
    line \in {Prompt, Ended} =>
        proc[Shell].stdin = Terminal /\ proc[Shell].saved = <<>>

\* What a command returns by its operators alone, given what its parts return.
ValueBy(value, c) ==
    CASE c.op = "builtin" -> c.result
      [] c.op = "program" -> Returned(c.status)
      [] c.op = ";" -> 0
      [] c.op = "&" -> IF ExitCode(value[c.cmd1]) # 0 /\ value[c.cmd2] # 0 THEN 1 ELSE 0
      [] c.op = "|" -> IF value[c.cmd2] # 0 THEN 1 ELSE 0
      [] c.op \in {"&&", "||"} ->
             IF GoesOn(c.op, value[c.cmd1]) THEN value[c.cmd2] ELSE value[c.cmd1]
Value[c \in Commands] == ValueBy(Value, c)

\* The result of a line, exit included, is the same in every schedule.
ResultIsDetermined ==
    line \in Lines /\ proc[Shell].frames = <<>> => proc[Shell].result = Value[line]

\* A line ends: no process waits for a child that waits, through a pipe, for it.
LinesEnd == line \in Lines ~> line \notin Lines
=============================================================================
