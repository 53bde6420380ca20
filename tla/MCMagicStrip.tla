---------------------------- MODULE MCMagicStrip ----------------------------
(***************************************************************************)
(* The linked tape checked against the tape of positions: a pointer stands *)
(* for the place of its node on the walk from the sentinel to the end.     *)
(***************************************************************************)
EXTENDS MagicStrip

\* The tape of positions that the list stands for.
Places(stack) == [i \in DOMAIN stack |-> Place(stack[i])]
Cells == [i \in DOMAIN Walk |-> character[Walk[i]]]
Finger == Place(actual)
UndoPlaces == Places(UNDO)
RedoPlaces == Places(REDO)

Promise == INSTANCE Tape WITH
    cells <- Cells, finger <- Finger, undo <- UndoPlaces, redo <- RedoPlaces, pending <- opQueue

\* Whatever the commands, the linked tape shows what the tape of positions shows:
\* in particular the pointers that UNDO and REDO keep go on denoting the same
\* cell when later insertions move it, and commands are carried out in the order
\* they were read.
ImplementsTape == Promise!TapeSpec
=============================================================================
