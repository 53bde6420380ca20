-------------------------- MODULE TopologicalOrder --------------------------
(***************************************************************************)
(* numarare.cpp and trenuri.cpp of PA-project-2.  Both read a directed     *)
(* graph, order its nodes by Kahn's algorithm, and go back along the order *)
(* with a recurrence over the edges: numarare counts the paths from node 1 *)
(* to node n in the edges that two graphs have in common, trenuri the      *)
(* nodes on the longest path that leaves node 1, the city start.           *)
(***************************************************************************)
EXTENDS Integers, Sequences, FiniteSets, FiniteSetsExt

CONSTANTS
    Node,            \* the nodes, 1..n
    Final,           \* the node n
    Programs,        \* which of "numarare" and "trenuri" are run
    Graphs,          \* the pairs of edge sets that their input may hold
    MOD              \* results are counted modulo this (a large prime in the code)

VARIABLES
    program, input,  \* the program, and the edges of its input
    edges,           \* the graph built from them
    in_degree,
    q,               \* the queue of nodes that no edge leads to any more
    order,           \* topological_order
    costs, i,        \* the recurrence: costs of nodes, and how far back it has come
    phase            \* "read", "order", "costs", "done"

vars == <<program, input, edges, in_degree, q, order, costs, i, phase>>

Init ==
    /\ program \in Programs /\ input \in Graphs
    /\ edges = {} /\ in_degree = [n \in Node |-> 0]
    /\ q = <<>> /\ order = <<>>
    /\ costs = [n \in Node |-> 0] /\ i = 0 /\ phase = "read"

Into(y) == {x \in Node : <<x, y>> \in edges}
OutOf(x) == {y \in Node : <<x, y>> \in edges}

\* Any order in which the loop over nodes, or over the list of neighbours of a
\* node, may push the nodes of a set.
Listings(S) ==
    {s \in [1..Cardinality(S) -> S] :
        /\ \A j, k \in DOMAIN s : j # k => s[j] # s[k]
        /\ \A x \in S : \E j \in DOMAIN s : s[j] = x}

\* numarare keeps an edge of the second graph that the first one has too.
Common == {e \in input[2] : e \in input[1]}

InDegrees(E) == [n \in Node |-> Cardinality({x \in Node : <<x, n>> \in E})]

ReadInput ==
    /\ phase = "read" /\ phase' = "order"
    /\ edges' = IF program = "numarare" THEN Common ELSE input[1]
    /\ in_degree' = InDegrees(edges')
    /\ q' \in Listings({n \in Node : in_degree'[n] = 0})
    /\ UNCHANGED <<program, input, order, costs, i>>

\* The node at the head leaves the queue, and so do its edges.
TakeNode ==
    /\ phase = "order" /\ q # <<>>
    /\ LET node == Head(q)
           zero == {y \in OutOf(node) : in_degree[y] = 1}
       IN  /\ order' = Append(order, node)
           /\ in_degree' = [y \in Node |-> IF y \in OutOf(node) THEN in_degree[y] - 1 ELSE in_degree[y]]
           /\ \E pushed \in Listings(zero) : q' = Tail(q) \o pushed
    /\ UNCHANGED <<program, input, edges, costs, i, phase>>

StartCosts ==
    /\ phase = "order" /\ q = <<>> /\ phase' = "costs"
    /\ i' = Len(order)
    /\ costs' = [n \in Node |-> IF program = "numarare" /\ n = Final THEN 1 ELSE 0]
    /\ UNCHANGED <<program, input, edges, in_degree, q, order>>

-----------------------------------------------------------------------------
\* Back along the order: a node's cost from those of its neighbours.
CountPaths_FirstOnly(node) == IF OutOf(node) = {} THEN costs[node] ELSE costs[Max(OutOf(node))]
CountPaths(node) == (costs[node] + MapThenSumSet(LAMBDA y : costs[y], OutOf(node))) % MOD

LongestFrom(node) == 1 + Max({0} \cup {costs[y] : y \in OutOf(node)})

CostStep ==
    /\ phase = "costs" /\ i > 0 /\ i' = i - 1
    /\ LET node == order[i]
       IN  costs' = [costs EXCEPT ![node] = IF program = "numarare" THEN CountPaths(node)
                                            ELSE LongestFrom(node)]
    /\ UNCHANGED <<program, input, edges, in_degree, q, order, phase>>

Finish ==
    /\ phase = "costs" /\ i = 0 /\ phase' = "done"
    /\ UNCHANGED <<program, input, edges, in_degree, q, order, costs, i>>

Next == ReadInput \/ TakeNode \/ StartCosts \/ CostStep \/ Finish

Spec == Init /\ [][Next]_vars

-----------------------------------------------------------------------------
Listed(list) == {list[k] : k \in DOMAIN list}

\* Every edge leads from a node of the order to a later one; no node is in the
\* order twice, and one whose predecessors have all been taken is never forgotten.
OrderIsTopological ==
    /\ \A j, k \in DOMAIN order : <<order[j], order[k]>> \in edges => j < k
    /\ \A k \in DOMAIN order : \A x \in Into(order[k]) : \E j \in 1..k - 1 : order[j] = x
    /\ \A j, k \in DOMAIN order : j # k => order[j] # order[k]
    /\ phase # "read" =>
         \A y \in Node : Into(y) \subseteq Listed(order) => y \in Listed(order) \cup Listed(q)

\* The paths of the graph that start at node 1, by their lists of nodes.
Paths ==
    LET Extended(paths) == {Append(p, y) : p \in paths, y \in Node}
        longer[n \in 1..Cardinality(Node)] ==
            IF n = 1 THEN {<<1>>}
            ELSE {p \in Extended(longer[n - 1]) : <<p[n - 1], p[n]>> \in edges}
    IN  UNION {longer[n] : n \in DOMAIN longer}
Last(p) == p[Len(p)]

\* numarare prints the number of paths from node 1 to node n in the edges that
\* both graphs have, modulo MOD.
PathsAreCounted ==
    phase = "done" /\ program = "numarare" =>
        /\ edges = input[1] \cap input[2]
        /\ costs[1] = Cardinality({p \in Paths : Last(p) = Final}) % MOD
=============================================================================
