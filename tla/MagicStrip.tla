----------------------------- MODULE MagicStrip -----------------------------
(***************************************************************************)
(* SDA-magic-tape as it is built: the tape is a doubly linked list with a  *)
(* sentinel, UNDO and REDO are stacks of pointers to its nodes, and the    *)
(* commands that change it wait in a queue until EXECUTE takes the oldest. *)
(* A node is the number of the call of create_node that made it; the       *)
(* sentinel is 0 and Null is what no node is.                              *)
(***************************************************************************)
EXTENDS Integers, Sequences, FiniteSets

CONSTANTS
    Arguments,       \* the characters that the input file gives to commands
    MaxNodes,        \* bound: nodes of the tape
    MaxHistory,      \* bound: entries of the two stacks together
    MaxQueue,        \* bound: commands that wait
    MallocFails      \* TRUE: malloc may return NULL

ASSUME MaxNodesAssumption == MaxNodes \in Nat \ {0}

VARIABLES
    nodes,           \* nodes made so far: 1..nodes, and the sentinel 0
    next, prev, character,
    last, actual,    \* the tape's last node, and the node under the finger
    UNDO, REDO,      \* stacks of nodes, the top first
    opQueue,
    printed,         \* what the last command wrote to the output file
    fault            \* a null pointer has been followed

strip == <<nodes, next, prev, character, last, actual>>
stripVars == <<nodes, next, prev, character, last, actual, UNDO, REDO, opQueue, printed, fault>>

Null == -1
Sentinel == 0
Nodes == 0..MaxNodes

\* What malloc returns: memory, or NULL where it may fail.
Malloc == IF MallocFails THEN BOOLEAN ELSE {TRUE}

Nothing == [text |-> <<>>, finger |-> 0]
ErrorLine == [text |-> <<"ERROR">>, finger |-> 0]

StripInit ==
    /\ nodes = 1 /\ last = 1 /\ actual = 1
    /\ next = [n \in Nodes |-> IF n = Sentinel THEN 1 ELSE Null]
    /\ prev = [n \in Nodes |-> IF n = 1 THEN Sentinel ELSE Null]
    /\ character = [n \in Nodes |-> IF n = 1 THEN "#" ELSE "empty"]
    /\ UNDO = <<>> /\ REDO = <<>> /\ opQueue = <<>>
    /\ printed = Nothing /\ fault = FALSE

push(stack, node, made) == IF made THEN <<node>> \o stack ELSE stack

-----------------------------------------------------------------------------
\* The tape.  A new node is the one after those made so far.
newNode == nodes + 1
Room == nodes < MaxNodes

Linked_OneWay(c, left, right) ==
    /\ Room
    /\ nodes' = newNode
    /\ next' = [next EXCEPT ![left] = newNode, ![newNode] = right]
    /\ prev' = [prev EXCEPT ![newNode] = left]
    /\ character' = [character EXCEPT ![newNode] = c]
\* A node that holds c between left and right (right may be Null: the end).
Linked(c, left, right) ==
    /\ Room
    /\ nodes' = newNode
    /\ next' = [next EXCEPT ![left] = newNode, ![newNode] = right]
    /\ prev' = [n \in Nodes |-> IF n = newNode THEN left
                               ELSE IF n = right THEN newNode ELSE prev[n]]
    /\ character' = [character EXCEPT ![newNode] = c]

\* addNodeRear, and then the finger on the last node: the one that was there
\* before when there is no memory.
addNodeRear(c, made) ==
    IF made
    THEN Linked(c, last, Null) /\ last' = newNode /\ actual' = newNode
    ELSE actual' = last /\ UNCHANGED <<nodes, next, prev, character, last>>

moveLeft ==
    /\ actual' = IF prev[actual] = Sentinel THEN actual ELSE prev[actual]
    /\ UNCHANGED <<nodes, next, prev, character, last>>

moveRight(made) ==
    IF actual = last
    THEN addNodeRear("#", made)
    ELSE actual' = next[actual] /\ UNCHANGED <<nodes, next, prev, character, last>>

TapeNode == 1..nodes

\* The nodes a search meets, the one under the finger first, and those among
\* them that hold c (never the sentinel: its character, 0, is no argument).
Leftward[n \in Nodes] == IF prev[n] = Null THEN <<n>> ELSE <<n>> \o Leftward[prev[n]]
Rightward[n \in Nodes] == IF next[n] = Null THEN <<n>> ELSE <<n>> \o Rightward[next[n]]
Found(path, c) == {i \in DOMAIN path : path[i] \in TapeNode /\ character[path[i]] = c}
StopAtFirst(path, found) == \E i \in found : (\A j \in found : i <= j) /\ actual' = path[i]

moveLeftChar(c) ==
    LET path == Leftward[actual]
        found == Found(path, c)
    IN  /\ IF found = {}
           THEN actual' = actual /\ printed' = ErrorLine
           ELSE StopAtFirst(path, found) /\ printed' = Nothing
        /\ UNCHANGED <<nodes, next, prev, character, last>>

moveRightChar(c, made) ==
    LET path == Rightward[actual]
        found == Found(path, c)
    IN  IF found = {}
        THEN addNodeRear("#", made)
        ELSE /\ StopAtFirst(path, found)
             /\ UNCHANGED <<nodes, next, prev, character, last>>

write(c) ==
    /\ character' = [character EXCEPT ![actual] = c]
    /\ UNCHANGED <<nodes, next, prev, last, actual>>

insertLeft(c, made) ==
    IF prev[actual] = Sentinel
    THEN printed' = ErrorLine /\ UNCHANGED strip
    ELSE /\ IF made
            THEN Linked(c, prev[actual], actual) /\ actual' = newNode /\ last' = last
            ELSE UNCHANGED strip
         /\ printed' = Nothing

insertRight(c, made) ==
    IF actual = last
    THEN IF made THEN addNodeRear(c, TRUE) ELSE write(c)
    ELSE IF made
    THEN Linked(c, actual, next[actual]) /\ actual' = newNode /\ last' = last
    ELSE UNCHANGED strip

-----------------------------------------------------------------------------
\* EXECUTE: the oldest command leaves the queue and is carried out.
QueueCommands ==
    [op : {"MOVE_LEFT", "MOVE_RIGHT"}, arg : {" "}]
        \cup [op : {"WRITE", "MOVE_LEFT_CHAR", "MOVE_RIGHT_CHAR", "INSERT_LEFT", "INSERT_RIGHT"},
              arg : Arguments]

dequeue(op) ==
    /\ opQueue # <<>> /\ Head(opQueue).op = op
    /\ opQueue' = Tail(opQueue)

HistoryFits == Len(UNDO) + Len(REDO) < MaxHistory

ExecuteMoveLeft_KeepsEntry ==
    /\ dequeue("MOVE_LEFT") /\ HistoryFits
    /\ moveLeft /\ UNDO' = push(UNDO, actual, TRUE)
    /\ printed' = Nothing /\ UNCHANGED <<REDO, fault>>
\* The position is pushed before the move and taken back when the finger stands
\* where the top of UNDO says; with nothing pushed that top may be missing.
ExecuteMoveLeft ==
    /\ dequeue("MOVE_LEFT") /\ HistoryFits
    /\ \E made \in Malloc :
         LET pushed == push(UNDO, actual, made)
         IN  /\ moveLeft
             /\ fault' = (pushed = <<>>)
             /\ UNDO' = IF pushed # <<>> /\ Head(pushed) = actual' THEN Tail(pushed) ELSE pushed
    /\ printed' = Nothing /\ REDO' = REDO

ExecuteMoveRight ==
    /\ dequeue("MOVE_RIGHT") /\ HistoryFits
    /\ \E pushed, made \in Malloc :
         UNDO' = push(UNDO, actual, pushed) /\ moveRight(made)
    /\ printed' = Nothing /\ UNCHANGED <<REDO, fault>>

ExecuteEdit ==
    /\ \E made \in Malloc :
        \/ dequeue("WRITE") /\ write(Head(opQueue).arg) /\ printed' = Nothing
        \/ dequeue("MOVE_LEFT_CHAR") /\ moveLeftChar(Head(opQueue).arg)
        \/ dequeue("MOVE_RIGHT_CHAR") /\ moveRightChar(Head(opQueue).arg, made) /\ printed' = Nothing
        \/ dequeue("INSERT_LEFT") /\ insertLeft(Head(opQueue).arg, made)
        \/ dequeue("INSERT_RIGHT") /\ insertRight(Head(opQueue).arg, made) /\ printed' = Nothing
    /\ UNCHANGED <<UNDO, REDO, fault>>

-----------------------------------------------------------------------------
\* The other commands of the input file, carried out as they are read.
enqueue(command) ==
    /\ Len(opQueue) < MaxQueue
    /\ \E made \in Malloc : opQueue' = IF made THEN Append(opQueue, command) ELSE opQueue
    /\ printed' = Nothing /\ UNCHANGED <<strip, UNDO, REDO, fault>>

Undo ==
    /\ UNDO # <<>>
    /\ actual' = Head(UNDO) /\ UNDO' = Tail(UNDO)
    /\ \E made \in Malloc : REDO' = push(REDO, actual, made)
    /\ printed' = Nothing
    /\ UNCHANGED <<nodes, next, prev, character, last, opQueue, fault>>

Redo ==
    /\ REDO # <<>>
    /\ actual' = Head(REDO) /\ REDO' = Tail(REDO)
    /\ \E made \in Malloc : UNDO' = push(UNDO, actual, made)
    /\ printed' = Nothing
    /\ UNCHANGED <<nodes, next, prev, character, last, opQueue, fault>>

showCurrent ==
    /\ printed' = [text |-> <<character[actual]>>, finger |-> 0]
    /\ UNCHANGED <<strip, UNDO, REDO, opQueue, fault>>

\* The tape from left to right, and which of its cells stands between bars.
Walk == Rightward[next[Sentinel]]
Place(n) == CHOOSE i \in DOMAIN Walk : Walk[i] = n
show ==
    /\ printed' = [text |-> [i \in DOMAIN Walk |-> character[Walk[i]]], finger |-> Place(actual)]
    /\ UNCHANGED <<strip, UNDO, REDO, opQueue, fault>>

StripNext ==
    /\ ~fault
    /\ \/ ExecuteMoveLeft \/ ExecuteMoveRight \/ ExecuteEdit
       \/ Undo \/ Redo \/ showCurrent \/ show
       \/ \E command \in QueueCommands : enqueue(command)

StripSpec == StripInit /\ [][StripNext]_stripVars

-----------------------------------------------------------------------------
StripTypeOK ==
    /\ nodes \in 1..MaxNodes /\ last \in TapeNode /\ actual \in TapeNode
    /\ next \in [Nodes -> Nodes \cup {Null}] /\ prev \in [Nodes -> Nodes \cup {Null}]
    /\ character \in [Nodes -> Arguments \cup {"#", "empty"}]
    /\ UNDO \in Seq(TapeNode) /\ REDO \in Seq(TapeNode) /\ opQueue \in Seq(QueueCommands)
    /\ fault \in BOOLEAN

\* The pointers of the list agree in both directions: every node but last has a
\* successor that points back to it, every node but the sentinel a predecessor
\* that points on to it, and last has no successor.  An insertion that redirects
\* its four pointers in the wrong order, or misses one, breaks this.
WellLinked ==
    /\ next[last] = Null /\ prev[Sentinel] = Null
    /\ \A n \in 0..nodes : n # last => next[n] \in TapeNode /\ prev[next[n]] = n
    /\ \A n \in TapeNode : prev[n] \in 0..nodes /\ next[prev[n]] = n
=============================================================================
