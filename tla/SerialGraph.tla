---------------------------- MODULE SerialGraph -----------------------------
(***************************************************************************)
(* serial.c: the same sum by one thread that recurses into every neighbour *)
(* it finds NOT_VISITED.                                                   *)
(***************************************************************************)
EXTENDS Integers, Sequences

RECURSIVE ProcessFrom(_, _, _, _)

\* The loop of process_node over the neighbours of n from the i-th on; state is
\* what the globals hold: the sum and the set of DONE nodes.
ProcessFrom(graph, n, i, state) ==
    IF i > Len(graph.neighbours[n])
    THEN state
    ELSE LET m == graph.neighbours[n][i]
             enter == [sum |-> state.sum + graph.info[m], done |-> state.done \cup {m}]
         IN  ProcessFrom(graph, n, i + 1,
                 IF m \in state.done THEN state ELSE ProcessFrom(graph, m, 1, enter))

\* What serial.c prints.
SerialSum(graph, root) ==
    ProcessFrom(graph, root, 1, [sum |-> graph.info[root], done |-> {root}]).sum
=============================================================================
