------------------------------ MODULE OsGraph -------------------------------
(***************************************************************************)
(* create_graph_from_data (os_graph.c): adjacency lists from an edge list. *)
(***************************************************************************)
EXTENDS Integers, Sequences, SequencesExt

\* Both ends of an edge get the other one appended, so an edge from a node to
\* itself puts the node twice into its own list.
AddEdge(neighbours, edge) ==
    LET once == [neighbours EXCEPT ![edge.src] = Append(@, edge.dst)]
    IN  [once EXCEPT ![edge.dst] = Append(@, edge.src)]

\* values: the value of each node; edges: a sequence of [src, dst].
CreateGraph(values, edges) ==
    [info |-> values,
     neighbours |-> FoldLeft(AddEdge, [n \in DOMAIN values |-> <<>>], edges)]
=============================================================================
