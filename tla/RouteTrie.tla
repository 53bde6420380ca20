----------------------------- MODULE RouteTrie ------------------------------
(***************************************************************************)
(* The routing table of PCom-dataplane-router: entries in the order of the *)
(* file, kept in a binary trie (lib/trie.c) whose nodes are the sequences  *)
(* of bits that lead to them, and searched for the longest prefix          *)
(* (lib/helper.c).  An entry has a prefix of Bits bits, the length of its  *)
(* mask, a next hop and an interface.                                      *)
(***************************************************************************)
EXTENDS Integers, Sequences

CONSTANTS
    Bits,   \* the width of an address
    NULL

Address == [1 .. Bits -> 0 .. 1]

Entry(prefix, len, next_hop, interface) ==
    [prefix |-> prefix, len |-> len, next_hop |-> next_hop, interface |-> interface]

create_tree == [node \in {<<>>} |-> NULL]

\* The part of an address that a mask of length n keeps.
Masked(ip, n) == SubSeq(ip, 1, n)

\* The nodes on the way to the entry's prefix are made where they are missing.
add_trie_node(tree, entry) ==
    [node \in DOMAIN tree \cup {Masked(entry.prefix, n) : n \in 0 .. entry.len} |->
        IF node = Masked(entry.prefix, entry.len) THEN entry
        ELSE IF node \in DOMAIN tree THEN tree[node]
        ELSE NULL]

TrieTree(rtable) ==
    LET tree[n \in 0 .. Len(rtable)] ==
            IF n = 0 THEN create_tree ELSE add_trie_node(tree[n - 1], rtable[n])
    IN  tree[Len(rtable)]

\* A bug: the first prefix on the way is kept, not the last.
Better_First(deeper, here) == IF here # NULL THEN here ELSE deeper

\* Of the entries at a node and below, the walk keeps the one it meets last.
Better(deeper, here) == IF deeper # NULL THEN deeper ELSE here

get_best_route(tree, ip) ==
    LET walk[n \in 0 .. Bits + 1] ==
            IF n > Bits \/ Masked(ip, n) \notin DOMAIN tree THEN NULL
            ELSE Better(walk[n + 1], tree[Masked(ip, n)])
    IN  walk[0]

\* The longest prefix match, and the last of the entries with that prefix.
LongestPrefix(rtable, ip) ==
    LET matching == {i \in DOMAIN rtable :
                        Masked(rtable[i].prefix, rtable[i].len) = Masked(ip, rtable[i].len)}
        best == {i \in matching : \A j \in matching :
                    \/ rtable[j].len < rtable[i].len
                    \/ rtable[j].len = rtable[i].len /\ j <= i}
    IN  IF matching = {} THEN NULL ELSE rtable[CHOOSE i \in best : TRUE]
=============================================================================
