----------------------------- MODULE Traversal ------------------------------
(***************************************************************************)
(* What a parallel traversal promises, whatever threads and queues it is   *)
(* built from: it adds the value of each node it visits exactly once, it   *)
(* only visits nodes it can get to from Root, and it reports the sum when  *)
(* it stops visiting.                                                      *)
(***************************************************************************)
EXTENDS Integers, Sequences

CONSTANTS
    Node,       \* indices of the nodes
    Root        \* where the traversal starts

VARIABLES
    graph,      \* [info : [Node -> Int], neighbours : [Node -> Seq(Node)]]
    seen,       \* the nodes visited so far
    total,      \* the sum so far
    reported    \* TRUE once the sum is reported

travVars == <<graph, seen, total, reported>>

IsNeighbour(g, m, n) ==
    \E k \in DOMAIN g.neighbours[m] : g.neighbours[m][k] = n

TravInit ==
    /\ seen = {}
    /\ total = 0
    /\ reported = FALSE

Visit(n) ==
    /\ ~reported
    /\ n \notin seen
    /\ n = Root \/ \E m \in seen : IsNeighbour(graph, m, n)
    /\ seen' = seen \cup {n}
    /\ total' = total + graph.info[n]
    /\ UNCHANGED <<graph, reported>>

Report ==
    /\ ~reported
    /\ Root \in seen
    /\ reported' = TRUE
    /\ UNCHANGED <<graph, seen, total>>

TravNext == Report \/ \E n \in Node : Visit(n)

TravSpec == TravInit /\ [][TravNext]_travVars
=============================================================================
