------------------------------ MODULE Programs ------------------------------
(***************************************************************************)
(* The sequential programs of the repository that talk to nobody else, on  *)
(* small inputs: one of them is chosen and then runs alone, while the      *)
(* variables of the others hold none.                                      *)
(***************************************************************************)
EXTENDS Integers, Sequences

VARIABLES
    program,                                                        \* the one chosen
    img, factor, stage, queue, file, nodes, picture,                \* Quadtree
    numberOfSensors, sensors, data, blocks, vector, mode, misuse,   \* Sensors
    which, input, edges, in_degree, q, order, costs, i, progress,   \* TopologicalOrder
    term,                                                           \* Simplify
    mapped, next, prev, start, len, live, phase, iter, tmp, fault   \* MemList

treeVars == <<img, factor, stage, queue, file, nodes, picture>>
vectorVars == <<numberOfSensors, sensors, data, blocks, vector, mode, misuse>>
graphVars == <<which, input, edges, in_degree, q, order, costs, i, progress>>
pageVars == <<mapped, next, prev, start, len, live, phase, iter, tmp, fault>>
vars == <<program, treeVars, vectorVars, graphVars, term, pageVars>>

none == "none"

-----------------------------------------------------------------------------
\* Images of four by four cells: every quadrant is of one colour, of two colours
\* that are close, or of two that are far apart.
Colour(red, green, blue) == [r |-> red, g |-> green, b |-> blue]
Dark == Colour(0, 3, 8)
Close == Colour(2, 3, 6)
Light == Colour(60, 90, 20)
Block(a, b) == [cell \in (0..1) \X (0..1) |-> IF cell = <<0, 1>> THEN b ELSE a]
SmallImages ==
    {[cell \in (0..3) \X (0..3) |->
        quadrants[cell[1] \div 2, cell[2] \div 2][cell[1] % 2, cell[2] % 2]] :
        quadrants \in [(0..1) \X (0..1) -> {Block(Dark, Close), Block(Light, Light), Block(Light, Dark)}]}

Tree == INSTANCE Quadtree WITH
    Size <- 4, Images <- SmallImages, Factors <- {0, 1, 900}, phase <- stage
IdleTree ==
    /\ img = none /\ factor = none /\ stage = none
    /\ queue = none /\ file = none /\ nodes = none /\ picture = none

\* Sensors on both sides of every bound that clear and the operations have.
Unit(voltage, regen, storage) ==
    [sensor_type |-> 1, voltage |-> voltage, energy_regen |-> regen, energy_storage |-> storage,
     operations |-> <<"pmu_regenerate_energy", "pmu_is_battery_healthy">>]
Tire(pressure, temperature, wear) ==
    [sensor_type |-> 0, pressure |-> pressure, temperature |-> temperature,
     wear_level |-> wear, performance_score |-> 0, operations |-> <<"tire_performance_score">>]

Vector == INSTANCE Sensors WITH
    Units <- {Unit(10, 60, 50), Unit(20, 0, 101), Unit(15, 100, -1), Unit(21, 101, 0)},
    Tires <- {Tire(19, 120, 40), Tire(28, 60, 100), Tire(29, 90, 10)},
    MaxSensors <- 4, live <- blocks, phase <- mode, fault <- misuse
IdleVector ==
    /\ numberOfSensors = none /\ sensors = none /\ data = none /\ blocks = none
    /\ vector = none /\ mode = none /\ misuse = none

\* Every graph on four nodes whose edges follow one of the 24 orders of the nodes,
\* as the first graph; the second is the same, or reverses the edges it lacks.
Node == 1..4
Orders == {f \in [Node -> Node] : \A a, b \in Node : a # b => f[a] # f[b]}
Forward(f) == {e \in Node \X Node : f[e[1]] < f[e[2]]}
Lacking(all, chosen) == chosen \cup {<<e[2], e[1]>> : e \in all \ chosen}
SmallGraphs ==
    UNION {LET all == Forward(f)
           IN  {<<all, Lacking(all, chosen)>> : chosen \in SUBSET all}
                   \cup {<<chosen, chosen>> : chosen \in SUBSET all} : f \in Orders}

Graph == INSTANCE TopologicalOrder WITH
    Final <- 4, Programs <- {"numarare", "trenuri"}, Graphs <- SmallGraphs, MOD <- 3,
    program <- which, phase <- progress
IdleGraph ==
    /\ which = none /\ input = none /\ edges = none /\ in_degree = none /\ q = none
    /\ order = none /\ costs = none /\ i = none /\ progress = none

Terms == INSTANCE Simplify WITH Names <- {1, 2}, MaxSize <- 20
IdleTerms == term = none

Pages == INSTANCE MemList WITH MaxPages <- 7, MaxLen <- 2
IdlePages ==
    /\ mapped = none /\ next = none /\ prev = none /\ start = none /\ len = none
    /\ live = none /\ phase = none /\ iter = none /\ tmp = none /\ fault = none

-----------------------------------------------------------------------------
Init ==
    \/ program = "quadtree" /\ Tree!Init /\ IdleVector /\ IdleGraph /\ IdleTerms /\ IdlePages
    \/ program = "sensors" /\ Vector!Init /\ IdleTree /\ IdleGraph /\ IdleTerms /\ IdlePages
    \/ program = "graphs" /\ Graph!Init /\ IdleTree /\ IdleVector /\ IdleTerms /\ IdlePages
    \/ program = "lambda" /\ Terms!Init /\ IdleTree /\ IdleVector /\ IdleGraph /\ IdlePages
    \/ program = "libc" /\ Pages!Init /\ IdleTree /\ IdleVector /\ IdleGraph /\ IdleTerms

Next ==
    \/ /\ program = "quadtree" /\ Tree!Next
       /\ UNCHANGED <<program, vectorVars, graphVars, term, pageVars>>
    \/ /\ program = "sensors" /\ Vector!Next
       /\ UNCHANGED <<program, treeVars, graphVars, term, pageVars>>
    \/ /\ program = "graphs" /\ Graph!Next
       /\ UNCHANGED <<program, treeVars, vectorVars, term, pageVars>>
    \/ /\ program = "lambda" /\ Terms!Next
       /\ UNCHANGED <<program, treeVars, vectorVars, graphVars, pageVars>>
    \/ /\ program = "libc" /\ Pages!Next
       /\ UNCHANGED <<program, treeVars, vectorVars, graphVars, term>>

Spec == Init /\ [][Next]_vars

-----------------------------------------------------------------------------
\* SDA-quadtree-image-compression: a picture that was compressed, written, read
\* back and painted has in every cell the mean colour of the largest square around
\* it that is close enough to one colour (qtree.c:195-301).
PictureOfMeans == program = "quadtree" => Tree!PictureOfMeans

\* PCLP2-sensor-management-unit: the vector holds exactly the sensors whose blocks
\* are allocated, power units first and in the order of the file, and a clear
\* removes exactly the erroneous ones (main.c:71-86, 137-197).
VectorKeepsPromises ==
    /\ [](program = "sensors" => Vector!VectorHoldsSensors)
    /\ [][program = "sensors" => Vector!ClearIsComplete]_vars

\* PA-project-2: whichever way the queue was filled, the order is topological and
\* complete, and numarare prints the number of common paths (numarare.cpp:49-77,
\* trenuri.cpp:52-75).
AnswersAreRight == program = "graphs" => Graph!OrderIsTopological /\ Graph!PathsAreCounted

\* PP-lamba-interpreter: a step of the interpreter is the normal-order step of the
\* term without names: no substitution captures a variable (Lambda.hs:60-76).
StepsAreNormalOrder == [][program = "lambda" => Terms!NormalOrderStep]_vars

\* SO-mini-libc: the mappings are the blocks the program holds and the items of
\* the list, each page once, and the cleanup reads no item it has unmapped
\* (malloc.c, mem_list.c).
NoPageLost == program = "libc" => Pages!NoPageLost
=============================================================================
