-------------------------- MODULE MCParallelGraph ---------------------------
(* Small graphs and thread pools on which ParallelGraph is checked, and what *)
(* ties parallel.c to serial.c.                                             *)
EXTENDS ParallelGraphInv, OsGraph, SerialGraph

MCNodes == 0 .. 3

\* Distinct powers of two: the sum tells which nodes it is made of.
MCValues == [n \in MCNodes |-> 2 ^ n]

Edge(m, n) == [src |-> m, dst |-> n]

\* Graphs where main hands over several tasks, one of them with duplicate
\* edges and one with a cycle.
MCBranchingGraphs ==
    {CreateGraph(MCValues, es) : es \in {
        <<Edge(0, 1), Edge(0, 2)>>,
        <<Edge(1, 0), Edge(2, 0), Edge(1, 2), Edge(2, 3)>>,
        <<Edge(0, 1), Edge(0, 1), Edge(0, 2), Edge(3, 3)>>,
        <<Edge(0, 0), Edge(0, 3), Edge(3, 1), Edge(3, 2)>>}}

\* Graphs where main has exactly one task to hand over.
MCSingleStartGraphs ==
    {CreateGraph(MCValues, es) : es \in {
        <<Edge(0, 1)>>,
        <<Edge(0, 1), Edge(1, 2), Edge(2, 3)>>,
        <<Edge(0, 0), Edge(0, 1), Edge(1, 2), Edge(1, 3)>>,
        <<Edge(1, 0), Edge(0, 1), Edge(1, 2), Edge(1, 3), Edge(2, 3)>>}}

\* An isolated node 0, which main handles by itself.
MCIsolatedRoot == {CreateGraph(MCValues, <<Edge(1, 2)>>)}

MCGraphs == MCBranchingGraphs \cup MCSingleStartGraphs \cup MCIsolatedRoot

\* When main has one task to hand over, parallel.c prints what serial.c prints,
\* in whichever order the workers have visited the nodes.
PrintedSumIsSerialSum ==
    pc[Main] = "done" /\ SingleStart(graph) => sum = SerialSum(graph, Root)
=============================================================================
