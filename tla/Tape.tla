-------------------------------- MODULE Tape --------------------------------
(***************************************************************************)
(* What SDA-magic-tape promises: a tape of characters, "#" where nothing   *)
(* was written, with a finger on one of its cells, a queue of commands     *)
(* that wait for EXECUTE, and the positions that UNDO and REDO return to.  *)
(* A position is a number here, so an insertion has to shift every         *)
(* remembered position to its right.                                       *)
(***************************************************************************)
EXTENDS Integers, Sequences, SequencesExt

CONSTANT Arguments           \* the characters that the input gives to commands

VARIABLES cells, finger, undo, redo, pending,
          printed              \* what the last command wrote

tapeVars == <<cells, finger, undo, redo, pending, printed>>

Nothing == [text |-> <<>>, finger |-> 0]
ErrorLine == [text |-> <<"ERROR">>, finger |-> 0]

TapeInit ==
    /\ cells = <<"#">> /\ finger = 1
    /\ undo = <<>> /\ redo = <<>> /\ pending = <<>> /\ printed = Nothing

\* What a command of the queue does, by the name it has in the input file.
Left ==
    /\ IF finger = 1
       THEN UNCHANGED <<finger, undo>>
       ELSE finger' = finger - 1 /\ undo' = <<finger>> \o undo
    /\ printed' = Nothing /\ UNCHANGED <<cells, redo>>

Right ==
    /\ cells' = IF finger = Len(cells) THEN Append(cells, "#") ELSE cells
    /\ finger' = finger + 1 /\ undo' = <<finger>> \o undo
    /\ printed' = Nothing /\ redo' = redo

Write(c) ==
    /\ cells' = [cells EXCEPT ![finger] = c]
    /\ printed' = Nothing /\ UNCHANGED <<finger, undo, redo>>

LeftChar(c) ==
    LET found == {i \in 1..finger : cells[i] = c}
    IN  /\ IF found = {}
           THEN finger' = finger /\ printed' = ErrorLine
           ELSE finger' = Max(found) /\ printed' = Nothing
        /\ UNCHANGED <<cells, undo, redo>>

RightChar(c) ==
    LET found == {i \in finger..Len(cells) : cells[i] = c}
    IN  /\ IF found = {}
           THEN cells' = Append(cells, "#") /\ finger' = Len(cells) + 1
           ELSE cells' = cells /\ finger' = Min(found)
        /\ printed' = Nothing /\ UNCHANGED <<undo, redo>>

\* A new cell at position at, under the finger; what was there moves right.
InsertCell(c, at) ==
    LET Shifted(history) ==
            [i \in DOMAIN history |-> history[i] + (IF history[i] >= at THEN 1 ELSE 0)]
    IN  /\ cells' = InsertAt(cells, at, c) /\ finger' = at
        /\ undo' = Shifted(undo) /\ redo' = Shifted(redo) /\ printed' = Nothing

InsertLeft(c) ==
    IF finger = 1
    THEN printed' = ErrorLine /\ UNCHANGED <<cells, finger, undo, redo>>
    ELSE InsertCell(c, finger)

InsertRight(c) == InsertCell(c, finger + 1)

Perform(command) ==
    CASE command.op = "MOVE_LEFT" -> Left
      [] command.op = "MOVE_RIGHT" -> Right
      [] command.op = "WRITE" -> Write(command.arg)
      [] command.op = "MOVE_LEFT_CHAR" -> LeftChar(command.arg)
      [] command.op = "MOVE_RIGHT_CHAR" -> RightChar(command.arg)
      [] command.op = "INSERT_LEFT" -> InsertLeft(command.arg)
      [] command.op = "INSERT_RIGHT" -> InsertRight(command.arg)

Execute ==
    /\ pending # <<>>
    /\ Perform(Head(pending)) /\ pending' = Tail(pending)

Wait(command) ==
    /\ pending' = Append(pending, command)
    /\ printed' = Nothing /\ UNCHANGED <<cells, finger, undo, redo>>

Undo ==
    /\ undo # <<>>
    /\ finger' = Head(undo) /\ undo' = Tail(undo) /\ redo' = <<finger>> \o redo
    /\ printed' = Nothing /\ UNCHANGED <<cells, pending>>

Redo ==
    /\ redo # <<>>
    /\ finger' = Head(redo) /\ redo' = Tail(redo) /\ undo' = <<finger>> \o undo
    /\ printed' = Nothing /\ UNCHANGED <<cells, pending>>

Show ==
    /\ printed' \in {[text |-> <<cells[finger]>>, finger |-> 0],
                     [text |-> cells, finger |-> finger]}
    /\ UNCHANGED <<cells, finger, undo, redo, pending>>

TapeCommands ==
    [op : {"MOVE_LEFT", "MOVE_RIGHT"}, arg : {" "}]
        \cup [op : {"WRITE", "MOVE_LEFT_CHAR", "MOVE_RIGHT_CHAR", "INSERT_LEFT", "INSERT_RIGHT"},
              arg : Arguments]

TapeNext ==
    \/ Execute \/ Undo \/ Redo \/ Show
    \/ \E command \in TapeCommands : Wait(command)

TapeSpec == TapeInit /\ [][TapeNext]_tapeVars
=============================================================================
