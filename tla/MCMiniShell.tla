---------------------------- MODULE MCMiniShell -----------------------------
(***************************************************************************)
(* Command lines for MiniShell.                                            *)
(***************************************************************************)
EXTENDS MiniShell

True == Builtin(0)
False == Builtin(1)
ExitShell == Builtin(SHELL_EXIT)
Cat == Program(TRUE, 0, 0)              \* reads all, writes nothing
Copy == Program(TRUE, 1, 0)             \* reads all and writes
Yes == Program(FALSE, 3, 0)             \* writes more than a pipe holds
Echo == Program(FALSE, 1, 0)            \* writes a little, reads nothing
Fails == Program(FALSE, 0, 2)
Crashes == Program(FALSE, 0, KILLED)
ToFile == [Yes EXCEPT !.out = TRUE]

\* Lines whose pipes are read to the end, or hold what is written to them.
MCLines ==
    {Command(Command(Yes, "|", Copy), "|", Cat),
     Command(Yes, "|", Command(Copy, "|", Cat)),
     Command(Echo, "|", True),
     Command(Command(Yes, "&", Echo), "|", Cat),
     Command(Command(ToFile, ";", Fails), "|", Cat),
     Command(Command(Command(Echo, "|", False), "&", ExitShell), "|", Cat),
     Command(Command(Fails, "&", Crashes), "||", ExitShell),
     Command(Command(Crashes, "&&", Echo), "||", Command(Echo, "&", False)),
     Command(Command(ExitShell, ";", True), "&&", Command(False, "||", Fails))}

RECURSIVE Parts(_)
Parts(c) == {c} \cup IF c.op \in {"builtin", "program"} THEN {} ELSE Parts(c.cmd1) \cup Parts(c.cmd2)

MCCommands == UNION {Parts(l) : l \in MCLines}

RECURSIVE Nested(_)
Nested(c) ==
    IF c.op \in {"builtin", "program"} THEN 0 ELSE 1 + Max({Nested(c.cmd1), Nested(c.cmd2)})

MCDepth == [c \in MCCommands |-> Nested(c)]
=============================================================================
