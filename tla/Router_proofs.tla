--------------------------- MODULE Router_proofs ---------------------------
(***************************************************************************)
(* The trie finds the longest prefix of any address in any table, and the  *)
(* checksum that is updated is that of the header that is sent.  Whatever  *)
(* the replies do - out of order, unasked, repeated or lost - a packet     *)
(* that leaves the router leaves along the best route, to its next hop;    *)
(* and while they come in order, requests and queue correspond, and an ARP *)
(* table with room for a queue of requests for each next hop keeps the     *)
(* router up.                                                              *)
(***************************************************************************)
EXTENDS Router, FiniteSetTheorems, SequenceTheorems, WellFoundedInduction, TLAPS

\* A set of numbers has a least one: Below is well-founded.
LEMMA LeastNumber == ASSUME NEW I \in SUBSET Nat, I # {} PROVE \E x \in I : \A y \in I : x <= y
<1>1. IsWellFoundedOn(OpToRel(<, Nat), Nat)
  BY NatLessThanWellFounded
<1> DEFINE Below == {p \in Nat \X Nat : p[1] < p[2]}
<1>2. OpToRel(<, Nat) = Below
  BY DEF OpToRel
<1>3. IsWellFoundedOn(Below, Nat)
  BY <1>1, <1>2
<1>4. \E x \in I : \A y \in I : <<y, x>> \notin Below
  <2> HIDE DEF Below
  <2> QED BY <1>3, WFMin
<1>5. \A x, y \in I : <<y, x>> \notin Below => x <= y
  OBVIOUS
<1> HIDE DEF Below
<1> QED
  BY <1>4, <1>5

\* Induction, over a set of numbers.
LEMMA AllNumbers == ASSUME NEW I \in SUBSET Nat, 0 \in I, \A n \in I : n + 1 \in I PROVE I = Nat
<1> DEFINE J == Nat \ I
<1>1. SUFFICES ASSUME J # {} PROVE FALSE
  OBVIOUS
<1>2. J \in SUBSET Nat
  OBVIOUS
<1>3. PICK m \in J : \A n \in J : m <= n
  <2> HIDE DEF J
  <2> QED BY <1>1, <1>2, LeastNumber
<1> QED
  BY <1>3

-----------------------------------------------------------------------------
(* The trie *)

\* A routing table as read_rtable makes it.
IsTable(table) ==
    /\ table \in Seq(ToSet(table))
    /\ \A i \in 1 .. Len(table) :
        table[i].prefix \in Address /\ table[i].len \in 0 .. Bits /\ table[i] # NULL

\* The entry that wins among those of the indices I.
Best(table, I) ==
    {i \in I : \A j \in I : \/ table[j].len < table[i].len
                            \/ table[j].len = table[i].len /\ j <= i}
Winner(table, I) == IF I = {} THEN NULL ELSE table[CHOOSE i \in Best(table, I) : TRUE]

Node(table, i) == Masked(table[i].prefix, table[i].len)

LEMMA MaskedEqual ==
    ASSUME Bits \in Nat, NEW a \in Address, NEW b \in Address, NEW m \in 0 .. Bits, NEW n \in 0 .. Bits
    PROVE  Masked(a, m) = Masked(b, n) <=> m = n /\ \A k \in 1 .. m : a[k] = b[k]
<1>1. a \in Seq(0 .. 1) /\ b \in Seq(0 .. 1) /\ Len(a) = Bits /\ Len(b) = Bits
  BY DEF Address
<1>2. Masked(a, m) = [k \in 1 .. m |-> a[k]] /\ Masked(b, n) = [k \in 1 .. n |-> b[k]]
  BY <1>1, SubSeqProperties DEF Masked
<1>3. Masked(a, m) = Masked(b, n) => m = n
  <2>1. Len(Masked(a, m)) = m /\ Len(Masked(b, n)) = n
    BY <1>1, SubSeqProperties DEF Masked
  <2> QED BY <2>1
<1> QED
  BY <1>2, <1>3

LEMMA WinnerIs ==
    ASSUME NEW table, IsTable(table), NEW I \in SUBSET (1 .. Len(table)), NEW i \in Best(table, I)
    PROVE  Winner(table, I) = table[i]
<1>1. \A j \in Best(table, I) : j = i
  BY DEF Best, IsTable
<1>2. I # {}
  BY DEF Best
<1> QED
  BY <1>1, <1>2 DEF Winner

LEMMA BestIsThere ==
    ASSUME NEW table, IsTable(table), Bits \in Nat, NEW I \in SUBSET (1 .. Len(table)), I # {}
    PROVE  \E i \in I : i \in Best(table, I)
<1>1. Len(table) \in Nat /\ \A i \in I : table[i].len \in Nat /\ table[i].len <= Bits
  BY DEF IsTable
<1> DEFINE Short == {Bits - table[i].len : i \in I}
<1>2. Short \in SUBSET Nat /\ Short # {}
  <2>1. \A i \in I : Bits - table[i].len \in Nat
    BY <1>1
  <2> QED
    BY <2>1
<1> HIDE DEF Short
<1>3. PICK s \in Short : \A x \in Short : s <= x
  BY <1>2, LeastNumber
<1> DEFINE Longest == {i \in I : table[i].len = Bits - s}
           Late == {Len(table) - i : i \in Longest}
<1>4. Late \in SUBSET Nat /\ Late # {}
  BY <1>1, <1>3 DEF Short
<1> HIDE DEF Late
<1>5. PICK t \in Late : \A x \in Late : t <= x
  BY <1>4, LeastNumber
<1>6. PICK i \in Longest : t = Len(table) - i
  BY <1>5 DEF Late
<1>7. ASSUME NEW j \in I
      PROVE  table[j].len < table[i].len \/ (table[j].len = table[i].len /\ j <= i)
  <2>1. s <= Bits - table[j].len /\ s \in Nat
    BY <1>2, <1>3 DEF Short
  <2>2. j \in Longest => t <= Len(table) - j
    BY <1>5 DEF Late
  <2> QED
    BY <2>1, <2>2, <1>1, <1>6
<1> QED
  BY <1>6, <1>7 DEF Best

\* The indices up to n of the entries at a node, and the nodes that they make.
Here(table, n, node) == {i \in 1 .. n : Node(table, i) = node}
Way(entry) == {Masked(entry.prefix, k) : k \in 0 .. entry.len}
Made(table, n) == {<<>>} \cup UNION {Way(table[i]) : i \in 1 .. n}
TreeOf(table, n) == [node \in Made(table, n) |-> Winner(table, Here(table, n, node))]

LEMMA TreeAfter ==
    ASSUME NEW table, IsTable(table), Bits \in Nat, NEW n \in 1 .. Len(table)
    PROVE  TreeOf(table, n) = add_trie_node(TreeOf(table, n - 1), table[n])
<1> DEFINE new == Way(table[n])
           last == Node(table, n)
<1>1. Len(table) \in Nat /\ table[n].len \in 0 .. Bits /\ table[n].prefix \in Address /\ table[n] # NULL
  BY DEF IsTable
<1>2. Made(table, n) = Made(table, n - 1) \cup new
  <2>1. \A i \in 1 .. n : i \in 1 .. n - 1 \/ i = n
    BY <1>1
  <2>2. 1 .. n - 1 \subseteq 1 .. n /\ n \in 1 .. n
    BY <1>1
  <2> HIDE DEF new
  <2> QED
    BY <2>1, <2>2 DEF Made, new
<1>3. ASSUME NEW i \in 1 .. n - 1
      PROVE  Node(table, i) \in Made(table, n - 1)
  <2>1. i \in 1 .. Len(table) /\ table[i].len \in 0 .. table[i].len
    BY <1>1 DEF IsTable
  <2> QED
    BY <2>1 DEF Made, Way, Node
<1>4. ASSUME NEW node
      PROVE  Winner(table, Here(table, n, node)) =
                 IF node = last THEN table[n]
                 ELSE IF node \in Made(table, n - 1) THEN Winner(table, Here(table, n - 1, node))
                 ELSE NULL
  <2> DEFINE I == Here(table, n, node)
  <2>1. CASE node = last
    <3>1. n \in I /\ I \in SUBSET (1 .. Len(table)) /\ \A j \in I : j <= n
      BY <1>1, <2>1 DEF Here
    <3>2. ASSUME NEW j \in I PROVE table[j].len = table[n].len
      <4>1. table[j].len \in 0 .. Bits /\ table[j].prefix \in Address
        BY <3>1 DEF IsTable
      <4>2. Masked(table[j].prefix, table[j].len) = Masked(table[n].prefix, table[n].len)
        BY <2>1 DEF Here, Node
      <4> QED
        BY <4>1, <4>2, <1>1, MaskedEqual
    <3> HIDE DEF I
    <3>3. n \in Best(table, I)
      BY <3>1, <3>2 DEF Best
    <3> QED
      BY <2>1, <3>1, <3>3, WinnerIs DEF I
  <2>2. CASE node # last
    <3>1. I = Here(table, n - 1, node)
      BY <1>1, <2>2 DEF Here
    <3>2. CASE node \notin Made(table, n - 1)
      <4>1. I = {}
        BY <1>3, <3>1, <3>2 DEF Here
      <4> QED
        BY <2>2, <3>2, <4>1 DEF Winner
    <3> QED
      BY <2>2, <3>1, <3>2
  <2> QED
    BY <2>1, <2>2
<1>5. DOMAIN TreeOf(table, n - 1) = Made(table, n - 1)
  BY DEF TreeOf
<1>6. ASSUME NEW node \in Made(table, n - 1)
      PROVE  TreeOf(table, n - 1)[node] = Winner(table, Here(table, n - 1, node))
  BY DEF TreeOf
<1> HIDE DEF last
<1>7. add_trie_node(TreeOf(table, n - 1), table[n]) =
          [node \in Made(table, n) |->
              IF node = last THEN table[n]
              ELSE IF node \in Made(table, n - 1) THEN TreeOf(table, n - 1)[node]
              ELSE NULL]
  BY <1>2, <1>5 DEF add_trie_node, last, Node, Way
<1>8. ASSUME NEW node \in Made(table, n)
      PROVE  Winner(table, Here(table, n, node)) =
                 IF node = last THEN table[n]
                 ELSE IF node \in Made(table, n - 1) THEN TreeOf(table, n - 1)[node]
                 ELSE NULL
  BY <1>4, <1>6
<1> QED
  BY <1>7, <1>8 DEF TreeOf

\* The tree after all the entries.
LEMMA TreeIs ==
    ASSUME NEW table, IsTable(table), Bits \in Nat
    PROVE  TrieTree(table) = TreeOf(table, Len(table))
<1> DEFINE L == Len(table)
           By(f) == [n \in 0 .. L |-> IF n = 0 THEN create_tree ELSE add_trie_node(f[n - 1], table[n])]
           tree == CHOOSE f : f = By(f)
           right == [n \in 0 .. L |-> TreeOf(table, n)]
<1>1. TrieTree(table) = tree[L]
  BY DEF TrieTree
<1>2. L \in Nat
  BY DEF IsTable
<1> HIDE DEF L
<1>3. TreeOf(table, 0) = create_tree
  <2>1. Made(table, 0) = {<<>>}
    BY DEF Made
  <2>2. Here(table, 0, <<>>) = {}
    BY DEF Here
  <2> QED
    BY <2>1, <2>2 DEF TreeOf, create_tree, Winner
<1>4. right = By(right)
  <2>1. ASSUME NEW n \in 1 .. L
        PROVE  right[n] = add_trie_node(right[n - 1], table[n])
    <3>1. n - 1 \in 0 .. L /\ n \in 0 .. L
      BY <1>2
    <3>2. TreeOf(table, n) = add_trie_node(TreeOf(table, n - 1), table[n])
      BY TreeAfter DEF L
    <3> QED
      BY <3>1, <3>2
  <2>2. \A n \in 0 .. L : n = 0 \/ n \in 1 .. L
    BY <1>2
  <2>3. \A n \in 0 .. L : right[n] = IF n = 0 THEN create_tree ELSE add_trie_node(right[n - 1], table[n])
    BY <1>2, <1>3, <2>1, <2>2
  <2>4. right = [n \in 0 .. L |-> right[n]]
    OBVIOUS
  <2> HIDE DEF right
  <2> QED
    BY <2>3, <2>4
<1> HIDE DEF right
<1>5. tree = By(tree)
  BY <1>4
<1> HIDE DEF tree
<1> DEFINE I == {n \in Nat : n <= L => tree[n] = TreeOf(table, n)}
<1>6. 0 \in I
  BY <1>2, <1>3, <1>5
<1>7. ASSUME NEW n \in I PROVE n + 1 \in I
  <2>1. SUFFICES ASSUME n + 1 <= L PROVE tree[n + 1] = TreeOf(table, n + 1)
    OBVIOUS
  <2>2. n + 1 \in 1 .. L /\ n \in Nat /\ (n + 1) - 1 = n /\ n <= L
    BY <1>2, <2>1
  <2>3. tree[n] = TreeOf(table, n)
    BY <2>2
  <2> DEFINE m == n + 1
  <2>4. m \in 1 .. L /\ m \in 0 .. L /\ m # 0 /\ m - 1 = n
    BY <2>2, <1>2
  <2> HIDE DEF I, m
  <2>5. tree[m] = add_trie_node(tree[n], table[m])
    BY <2>4, <1>5
  <2>6. TreeOf(table, m) = add_trie_node(TreeOf(table, n), table[m])
    BY <2>4, TreeAfter DEF L
  <2> QED
    BY <2>3, <2>5, <2>6 DEF m
<1>8. I = Nat
  <2>1. I \in SUBSET Nat
    OBVIOUS
  <2> HIDE DEF I
  <2> QED BY <1>6, <1>7, <2>1, AllNumbers
<1>9. L \in I
  BY <1>2, <1>8
<1> QED
  BY <1>1, <1>9 DEF L

\* The entries that match an address with at least n bits.
Matching(table, ip, n) ==
    {i \in 1 .. Len(table) : table[i].len >= n /\ Node(table, i) = Masked(ip, table[i].len)}

\* A step of the walk: the entries at the node are those that match with n bits.
LEMMA WalkAfter ==
    ASSUME NEW table, IsTable(table), Bits \in Nat, NEW ip \in Address, NEW n \in 0 .. Bits
    PROVE  LET node == Masked(ip, n)
           IN  Winner(table, Matching(table, ip, n)) =
                   IF node \notin Made(table, Len(table)) THEN NULL
                   ELSE Better(Winner(table, Matching(table, ip, n + 1)),
                               Winner(table, Here(table, Len(table), node)))
<1> DEFINE node == Masked(ip, n)
           L == Len(table)
           M == Matching(table, ip, n)
           deeper == Matching(table, ip, n + 1)
           here == Here(table, L, node)
<1>1. /\ L \in Nat
      /\ \A i \in 1 .. L : table[i].len \in 0 .. Bits /\ table[i].prefix \in Address /\ table[i] # NULL
  BY DEF IsTable
<1>2. ASSUME NEW i \in 1 .. L PROVE i \in here <=> i \in M /\ table[i].len = n
  <2>1. Node(table, i) = node => table[i].len = n
    BY <1>1, MaskedEqual DEF Node
  <2> QED
    BY <2>1, <1>1 DEF Here, Matching
<1>3. M = deeper \cup here /\ \A i \in deeper : table[i].len > n
  <2>1. \A i \in 1 .. L : i \in M <=> i \in deeper \/ i \in here
    BY <1>1, <1>2 DEF Matching
  <2>2. M \subseteq 1 .. L /\ deeper \subseteq 1 .. L /\ here \subseteq 1 .. L
    BY DEF Matching, Here
  <2>3. \A i \in deeper : table[i].len > n
    BY <1>1 DEF Matching
  <2> HIDE DEF M, deeper, here
  <2> QED
    BY <2>1, <2>2, <2>3
<1>4. \A i \in here : table[i].len = n
  BY <1>2 DEF Here
<1>5. M \in SUBSET (1 .. L) /\ deeper \in SUBSET (1 .. L) /\ here \in SUBSET (1 .. L)
  BY DEF Matching, Here
<1>6. node \notin Made(table, L) => M = {}
  <2>1. SUFFICES ASSUME NEW i \in M PROVE node \in Made(table, L)
    OBVIOUS
  <2>2. i \in 1 .. L /\ table[i].len >= n /\ Node(table, i) = Masked(ip, table[i].len)
    BY DEF Matching
  <2>3. \A k \in 1 .. table[i].len : table[i].prefix[k] = ip[k]
    BY <1>1, <2>2, MaskedEqual DEF Node
  <2>4. Masked(table[i].prefix, n) = node
    <3>1. \A k \in 1 .. n : table[i].prefix[k] = ip[k]
      BY <1>1, <2>2, <2>3
    <3> QED
      BY <3>1, <1>1, <2>2, MaskedEqual
  <2>5. n \in 0 .. table[i].len
    BY <1>1, <2>2
  <2>6. node \in Way(table[i])
    BY <2>4, <2>5 DEF Way
  <2> QED
    BY <2>2, <2>6 DEF Made
<1> HIDE DEF M, deeper, here, L, node
<1>7. CASE deeper # {}
  <2>1. PICK i \in deeper : i \in Best(table, deeper)
    BY <1>5, <1>7, BestIsThere DEF L
  <2>2. i \in Best(table, M)
    BY <2>1, <1>1, <1>3, <1>4, <1>5 DEF Best
  <2>3. Winner(table, M) = table[i] /\ Winner(table, deeper) = table[i]
    BY <2>1, <2>2, <1>5, WinnerIs DEF L
  <2>4. table[i] # NULL
    BY <2>1, <1>1, <1>5
  <2>5. node \in Made(table, L)
    BY <1>3, <1>6, <1>7
  <2> QED
    BY <2>3, <2>4, <2>5 DEF Better, M, deeper, node, L
<1>8. CASE deeper = {}
  <2>1. M = here /\ Winner(table, deeper) = NULL
    BY <1>3, <1>8 DEF Winner
  <2>2. node \notin Made(table, L) => Winner(table, M) = NULL
    BY <1>6 DEF Winner
  <2> QED
    BY <2>1, <2>2 DEF Better, M, deeper, here, node, L
<1> QED
  BY <1>7, <1>8

LEMMA WinnerOfAll ==
    ASSUME NEW table, IsTable(table), NEW ip
    PROVE  LongestPrefix(table, ip) = Winner(table, Matching(table, ip, 0))
<1> DEFINE matching == {i \in DOMAIN table :
                           Masked(table[i].prefix, table[i].len) = Masked(ip, table[i].len)}
<1>1. matching = Matching(table, ip, 0)
  BY DEF Matching, Node, IsTable
<1>2. LongestPrefix(table, ip) = Winner(table, matching)
  BY DEF LongestPrefix, Winner, Best
<1> QED
  BY <1>1, <1>2

\* The search of the trie finds the longest prefix, for every table and every address
\* (add_trie_node, trie.c:16-40; get_best_route, helper.c:4-25).
THEOREM TrieIsRight ==
    ASSUME NEW table, IsTable(table), Bits \in Nat, NEW ip \in Address
    PROVE  get_best_route(TrieTree(table), ip) = LongestPrefix(table, ip)
<1> DEFINE L == Len(table)
           tree == TreeOf(table, L)
           W(n) == Winner(table, Matching(table, ip, n))
           By(f) == [n \in 0 .. Bits + 1 |->
                        IF n > Bits \/ Masked(ip, n) \notin DOMAIN tree THEN NULL
                        ELSE Better(f[n + 1], tree[Masked(ip, n)])]
           walk == CHOOSE f : f = By(f)
           right == [n \in 0 .. Bits + 1 |-> W(n)]
<1>1. get_best_route(TrieTree(table), ip) = walk[0]
  <2>1. TrieTree(table) = tree
    BY TreeIs
  <2> HIDE DEF tree
  <2>2. get_best_route(tree, ip) = walk[0]
    BY DEF get_best_route
  <2> QED
    BY <2>1, <2>2
<1>2. DOMAIN tree = Made(table, L)
  BY DEF TreeOf
<1>3. ASSUME NEW n \in 0 .. Bits
      PROVE  W(n) = IF Masked(ip, n) \notin DOMAIN tree THEN NULL
                    ELSE Better(W(n + 1), tree[Masked(ip, n)])
  <2>1. Masked(ip, n) \in DOMAIN tree =>
            tree[Masked(ip, n)] = Winner(table, Here(table, L, Masked(ip, n)))
    BY DEF TreeOf
  <2> QED
    BY <1>2, <2>1, WalkAfter
<1>4. W(Bits + 1) = NULL
  <2>1. Matching(table, ip, Bits + 1) = {}
    BY DEF Matching, IsTable
  <2> QED
    BY <2>1 DEF Winner
<1> HIDE DEF W, tree, L
<1>5. right = By(right)
  <2>1. ASSUME NEW n \in 0 .. Bits + 1
        PROVE  right[n] = IF n > Bits \/ Masked(ip, n) \notin DOMAIN tree THEN NULL
                          ELSE Better(right[n + 1], tree[Masked(ip, n)])
    <3>1. CASE n = Bits + 1
      BY <3>1, <1>4
    <3>2. CASE n \in 0 .. Bits
      <4>1. n + 1 \in 0 .. Bits + 1 /\ ~(n > Bits)
        BY <3>2
      <4> QED
        BY <3>2, <4>1, <1>3
    <3> QED
      BY <3>1, <3>2
  <2>2. right = [n \in 0 .. Bits + 1 |-> right[n]]
    OBVIOUS
  <2> HIDE DEF right
  <2> QED
    BY <2>1, <2>2
<1> HIDE DEF right
<1>6. walk = By(walk)
  BY <1>5
<1> HIDE DEF walk
\* From the last bit to the first.
<1> DEFINE I == {k \in Nat : k <= Bits + 1 => walk[Bits + 1 - k] = W(Bits + 1 - k)}
<1>7. 0 \in I
  <2>1. Bits + 1 - 0 = Bits + 1 /\ Bits + 1 \in 0 .. Bits + 1 /\ Bits + 1 > Bits
    OBVIOUS
  <2>2. walk[Bits + 1] = NULL
    BY <2>1, <1>6
  <2> QED
    BY <2>1, <2>2, <1>4
<1>8. ASSUME NEW k \in I PROVE k + 1 \in I
  <2>1. SUFFICES ASSUME k + 1 <= Bits + 1 PROVE walk[Bits + 1 - (k + 1)] = W(Bits + 1 - (k + 1))
    OBVIOUS
  <2> DEFINE n == Bits + 1 - (k + 1)
  <2>2. n \in 0 .. Bits /\ n \in 0 .. Bits + 1 /\ n + 1 = Bits + 1 - k /\ k <= Bits + 1 /\ ~(n > Bits)
    BY <2>1
  <2>3. walk[n + 1] = W(n + 1)
    BY <2>2
  <2> HIDE DEF n, I
  <2>4. walk[n] = IF Masked(ip, n) \notin DOMAIN tree THEN NULL
                  ELSE Better(walk[n + 1], tree[Masked(ip, n)])
    BY <2>2, <1>6
  <2>5. walk[n] = W(n)
    BY <2>2, <2>3, <2>4, <1>3
  <2> QED
    BY <2>5 DEF n
<1>9. I = Nat
  <2>1. I \in SUBSET Nat
    OBVIOUS
  <2> HIDE DEF I
  <2> QED BY <1>7, <1>8, <2>1, AllNumbers
<1>10. walk[0] = W(0)
  <2>1. Bits + 1 \in Nat /\ Bits + 1 <= Bits + 1 /\ Bits + 1 - (Bits + 1) = 0
    OBVIOUS
  <2>2. Bits + 1 \in I
    <3> HIDE DEF I
    <3> QED BY <1>9, <2>1
  <2>3. walk[Bits + 1 - (Bits + 1)] = W(Bits + 1 - (Bits + 1))
    BY <2>1, <2>2
  <2> QED
    BY <2>1, <2>3
<1>11. W(0) = LongestPrefix(table, ip)
  BY WinnerOfAll DEF W
<1> QED
  BY <1>1, <1>10, <1>11

\* So it is right for the small tables too that the runs enumerate (get_best_route,
\* helper.c:4-25), if NULL is no entry of theirs.
THEOREM TrieSearches ==
    ASSUME \A prefix \in Address, len \in 0 .. Bits, i \in Nat : Entry(prefix, len, i, i) # NULL
    PROVE  Spec => []TrieFindsLongestPrefix
<1>1. ASSUME NEW n \in 0 .. 3, NEW table \in [1 .. n -> Address \X (0 .. Bits)], NEW ip \in Address
      PROVE  LET entries == [i \in DOMAIN table |-> Entry(table[i][1], table[i][2], i, i)]
             IN  get_best_route(TrieTree(entries), ip) = LongestPrefix(entries, ip)
  <2> DEFINE entries == [i \in DOMAIN table |-> Entry(table[i][1], table[i][2], i, i)]
  <2>1. DOMAIN table = 1 .. n /\ n \in Nat /\ Bits \in Nat
    BY TableAssumption
  <2>2. ASSUME NEW i \in 1 .. n
        PROVE  /\ entries[i].prefix \in Address /\ entries[i].len \in 0 .. Bits /\ entries[i] # NULL
               /\ entries[i] \in ToSet(entries)
    BY <2>1 DEF Entry, ToSet
  <2>3. entries \in [1 .. n -> ToSet(entries)]
    BY <2>1, <2>2
  <2> HIDE DEF entries
  <2>4. entries \in Seq(ToSet(entries)) /\ Len(entries) = n
    BY <2>1, <2>3
  <2>5. IsTable(entries)
    BY <2>2, <2>4 DEF IsTable
  <2>6. get_best_route(TrieTree(entries), ip) = LongestPrefix(entries, ip)
    BY <2>1, <2>5, TrieIsRight
  <2> QED
    BY <2>6 DEF entries
<1>2. TrieFindsLongestPrefix
  BY <1>1 DEF TrieFindsLongestPrefix
<1> QED
  BY <1>2, PTL

-----------------------------------------------------------------------------
(* The checksum *)

\* What the sum of the words becomes: the carries are added twice.
Folded(total) ==
    LET folded == (total \div Word) + (total % Word)
    IN  (folded + (folded \div Word)) % Word

LEMMA WordIs == Word = 65536 /\ Word \in Nat
BY DEF Word

IsSum(x) == x \in Nat /\ x >= 1 /\ x <= 65535

LEMMA Halves ==
    ASSUME NEW w \in Nat
    PROVE  /\ w \div Word \in Nat /\ w % Word \in Nat /\ w % Word < Word /\ w = Word * (w \div Word) + (w % Word)
           /\ w \div 256 \in Nat /\ w % 256 \in 0 .. 255 /\ w = 256 * (w \div 256) + (w % 256)
BY WordIs

\* It is the sum but for some multiple of 65535, and it is not zero.
LEMMA FoldedIs ==
    ASSUME NEW total \in Nat, total > 0, total <= 20 * Word
    PROVE  IsSum(Folded(total)) /\ \E k \in Nat : total = Folded(total) + 65535 * k
<1> DEFINE d == total \div Word
           r == total % Word
           folded == d + r
<1>1. d \in Nat /\ r \in Nat /\ r < Word /\ total = Word * d + r /\ d <= 20
  BY Halves, WordIs
<1> HIDE DEF d, r
<1>2. folded \in Nat /\ folded <= 65555 /\ total = 65535 * d + folded /\ folded >= 1
  BY <1>1, WordIs
<1>3. Folded(total) = (folded + (folded \div Word)) % Word
  BY DEF Folded, d, r
<1> HIDE DEF folded
<1>4. CASE folded < Word
  <2>1. folded \div Word = 0 /\ folded % Word = folded
    BY <1>2, <1>4, WordIs
  <2>2. Folded(total) = folded
    BY <1>2, <1>3, <2>1
  <2> QED
    BY <1>1, <1>2, <1>4, <2>2, WordIs DEF IsSum
<1>5. CASE folded >= Word
  <2>1. folded \div Word = 1 /\ (folded + 1) % Word = folded + 1 - Word
    BY <1>2, <1>5, WordIs
  <2>2. Folded(total) = folded - 65535
    BY <1>2, <1>3, <2>1, WordIs
  <2>3. d + 1 \in Nat /\ total = Folded(total) + 65535 * (d + 1)
    BY <1>1, <1>2, <2>2
  <2> QED
    BY <1>2, <1>5, <2>2, <2>3, WordIs DEF IsSum
<1> QED
  BY <1>2, <1>4, <1>5, WordIs

LEMMA ChecksumOfThree ==
    ASSUME NEW a \in Nat, NEW b \in Nat, NEW c \in Nat, a + b + c > 0, a + b + c <= 20 * Word
    PROVE  checksum(<<a, b, c>>) = 65535 - Folded(a + b + c)
<1> DEFINE words == <<a, b, c>>
           By(f) == [n \in 0 .. Len(words) |-> IF n = 0 THEN 0 ELSE f[n - 1] + words[n]]
           sum == CHOOSE f : f = By(f)
           right == [n \in 0 .. 3 |-> IF n = 0 THEN 0 ELSE IF n = 1 THEN a ELSE IF n = 2 THEN a + b ELSE a + b + c]
           folded == (sum[Len(words)] \div Word) + (sum[Len(words)] % Word)
           again == folded + (folded \div Word)
<1>1. checksum(words) = Complement(again) % Word
  BY DEF checksum
<1>2. Len(words) = 3 /\ words[1] = a /\ words[2] = b /\ words[3] = c
  OBVIOUS
<1> HIDE DEF words
<1>3. right = By(right)
  <2>1. \A n \in 0 .. 3 : n = 0 \/ n = 1 \/ n = 2 \/ n = 3
    OBVIOUS
  <2>2. right[0] = 0 /\ right[1] = a /\ right[2] = a + b /\ right[3] = a + b + c
    OBVIOUS
  <2>3. right = [n \in 0 .. 3 |-> right[n]]
    OBVIOUS
  <2> HIDE DEF right
  <2>4. ASSUME NEW n \in 0 .. 3 PROVE right[n] = IF n = 0 THEN 0 ELSE right[n - 1] + words[n]
    BY <1>2, <2>1, <2>2
  <2> QED
    BY <1>2, <2>3, <2>4
<1> HIDE DEF right
<1>4. sum = By(sum)
  BY <1>3
<1> HIDE DEF sum
<1>5. sum[3] = a + b + c
  <2>1. sum[0] = 0
    BY <1>2, <1>4
  <2>2. sum[1] = a
    BY <1>2, <1>4, <2>1
  <2>3. sum[2] = a + b
    BY <1>2, <1>4, <2>2
  <2> QED
    BY <1>2, <1>4, <2>3
<1> DEFINE t == a + b + c
<1>6. Folded(t) = again % Word
  BY <1>2, <1>5 DEF Folded
<1>7. again \in Nat
  <2>1. t \in Nat
    OBVIOUS
  <2>2. folded \in Nat
    <3> HIDE DEF t
    <3> QED
      BY <1>2, <1>5, <2>1, Halves, WordIs DEF t
  <2> HIDE DEF folded
  <2> QED
    BY <2>2, Halves
<1> HIDE DEF again, t
<1>8. Complement(again) % Word = 65535 - (again % Word)
  BY <1>7, WordIs DEF Complement
<1> QED
  BY <1>1, <1>6, <1>8 DEF words, t

Carried(new, old) ==
    new \in Nat /\ new <= 65535 /\ (new = old + 256 \/ new = old + 256 - 65535)

\* Adding 1 to the swapped word adds 256 to the word, and the carry at the low end.
LEMMA UpdatedIs ==
    ASSUME NEW old \in Nat, old < 65535, NEW ttl \in 1 .. 254
    PROVE  Carried(UpdatedCheck(old, ttl), old)
<1> DEFINE hi == old \div 256
           lo == old % 256
           h == htons(old)
<1>1. hi \in 0 .. 255 /\ lo \in 0 .. 255 /\ old = 256 * hi + lo /\ h = 256 * lo + hi
  <2>1. hi \in Nat /\ lo \in 0 .. 255 /\ old = 256 * hi + lo
    BY Halves
  <2> HIDE DEF hi, lo
  <2> QED
    BY <2>1 DEF htons, hi, lo
<1> HIDE DEF hi, lo, h
<1>2. h \in Nat /\ h < 65535
  BY <1>1
<1>3. UpdatedCheck(old, ttl) = htons(h + 1)
  <2>1. Complement(Complement(h) + Complement(ttl + 1) + ttl) - 1 = h + 1
    BY <1>2 DEF Complement
  <2>2. (h + 1) % Word = h + 1
    BY <1>2, WordIs
  <2> QED
    BY <2>1, <2>2 DEF UpdatedCheck, h
<1>4. CASE hi < 255
  <2>1. h + 1 = 256 * lo + (hi + 1) /\ hi + 1 \in 0 .. 255 /\ lo \in Nat
    BY <1>1, <1>4
  <2>2. (h + 1) \div 256 = lo /\ (h + 1) % 256 = hi + 1
    <3> DEFINE r == hi + 1
    <3>1. h + 1 = 256 * lo + r /\ r \in 0 .. 255
      BY <2>1
    <3> HIDE DEF r
    <3>2. (256 * lo + r) \div 256 = lo /\ (256 * lo + r) % 256 = r
      BY <3>1, <2>1
    <3> QED
      BY <3>1, <3>2 DEF r
  <2>3. UpdatedCheck(old, ttl) = (hi + 1) * 256 + lo
    BY <1>3, <2>2 DEF htons
  <2> QED
    BY <1>1, <1>4, <2>3 DEF Carried
<1>5. CASE hi = 255
  <2>1. h + 1 = 256 * (lo + 1) + 0 /\ lo < 255 /\ lo + 1 \in Nat
    BY <1>1, <1>5
  <2>2. (h + 1) \div 256 = lo + 1 /\ (h + 1) % 256 = 0
    BY <2>1
  <2>3. UpdatedCheck(old, ttl) = lo + 1
    BY <1>1, <1>3, <2>2 DEF htons
  <2> QED
    BY <1>1, <1>5, <2>1, <2>3 DEF Carried
<1> QED
  BY <1>1, <1>4, <1>5 DEF Carried

\* A header adds up after its ttl has been decremented and its checksum updated
\* (router.c:195-197), whatever its other eight words and its protocol add up to.
THEOREM UpdateVerifies ==
    ASSUME NEW rest \in Nat, rest <= 8 * (Word - 1) + 255, NEW ttl \in 2 .. 255
    PROVE  LET old == checksum(<<rest, ttl * 256, 0>>)
           IN  checksum(<<rest, (ttl - 1) * 256, UpdatedCheck(old, ttl - 1)>>) = 0
<1> DEFINE old == checksum(<<rest, ttl * 256, 0>>)
           s == rest + ttl * 256 + 0
           new == UpdatedCheck(old, ttl - 1)
           t == rest + (ttl - 1) * 256 + new
<1>1. s \in Nat /\ s > 0 /\ s <= 20 * Word /\ rest \in Nat /\ ttl * 256 \in Nat /\ (ttl - 1) * 256 \in Nat
  BY WordIs
<1>2. old = 65535 - Folded(s)
  BY <1>1, ChecksumOfThree
<1>3. PICK k \in Nat : s = Folded(s) + 65535 * k
  BY <1>1, FoldedIs
<1>4. Folded(s) \in Nat /\ old \in Nat /\ old < 65535
  <2>1. IsSum(Folded(s))
    BY <1>1, FoldedIs
  <2> HIDE DEF s, old
  <2> QED
    BY <1>2, <2>1 DEF IsSum
<1>5. /\ new \in Nat /\ new <= 65535
      /\ new = old + 256 \/ new = old + 256 - 65535
  <2> DEFINE aged == ttl - 1
  <2>1. aged \in 1 .. 254
    OBVIOUS
  <2> HIDE DEF old, aged
  <2>2. Carried(UpdatedCheck(old, aged), old)
    BY <1>4, <2>1, UpdatedIs
  <2> QED
    BY <2>2 DEF Carried, aged
<1> HIDE DEF old, new
<1> DEFINE m == IF t = 65535 * k + 65535 THEN k + 1 ELSE k
<1>6. m \in Nat /\ t = 65535 * m
  <2>1. t = 65535 * k + 65535 \/ t = 65535 * k
    BY <1>2, <1>3, <1>4, <1>5
  <2> HIDE DEF t
  <2> QED
    BY <2>1
<1> HIDE DEF m
<1>7. t \in Nat /\ t > 0 /\ t <= 20 * Word /\ new \in Nat
  BY <1>1, <1>5, WordIs
<1>8. Folded(t) = 65535
  <2>1. IsSum(Folded(t))
    BY <1>7, FoldedIs
  <2>2. PICK j \in Nat : t = Folded(t) + 65535 * j
    BY <1>7, FoldedIs
  <2>3. m \in Nat /\ t = 65535 * m
    BY <1>6
  <2> DEFINE x == Folded(t)
  <2> HIDE DEF t, x
  <2>4. x = 65535 * (m - j) /\ x >= 1 /\ x <= 65535
    BY <2>1, <2>2, <2>3 DEF x, IsSum
  <2>5. m - j = 1
    <3>1. m - j \in Int /\ m - j > 0 /\ m - j < 2
      BY <2>2, <2>3, <2>4
    <3> QED
      BY <3>1
  <2> QED
    BY <2>4, <2>5 DEF x
<1>9. checksum(<<rest, (ttl - 1) * 256, new>>) = 65535 - Folded(t)
  BY <1>1, <1>7, ChecksumOfThree
<1> QED
  BY <1>8, <1>9 DEF old, new

\* A header that the router has aged verifies, in every state: it is the code's arithmetic
\* on a little-endian machine that shows it (checksum in lib.c:182-198, router.c:195-197).
THEOREM HeadersVerify == Spec => []ChecksumVerifies
<1> DEFINE Verifies(rest, ttl) ==
               LET old == checksum(<<rest, ttl * 256, 0>>)
               IN  checksum(<<rest, (ttl - 1) * 256, UpdatedCheck(old, ttl - 1)>>) = 0
<1>1. ASSUME NEW rest \in Nat, rest <= 8 * (Word - 1) + 255, NEW ttl \in 2 .. 255
      PROVE  Verifies(rest, ttl)
  BY <1>1, UpdateVerifies, ZenonT(60)
<1>2. \A rest \in 0 .. Word - 1 : rest \in Nat /\ rest <= 8 * (Word - 1) + 255
  <2> DEFINE top == Word - 1
             most == 8 * (Word - 1) + 255
  <2>1. top \in Nat /\ most \in Nat /\ top <= most
    BY WordIs
  <2> HIDE DEF top, most
  <2>2. \A rest \in 0 .. top : rest \in Nat /\ rest <= most
    BY <2>1
  <2> QED
    BY <2>2 DEF top, most
<1> HIDE DEF Verifies
<1>3. \A rest \in 0 .. Word - 1, ttl \in {2, 255} : Verifies(rest, ttl)
  <2>1. ASSUME NEW rest \in 0 .. Word - 1, NEW ttl \in {2, 255} PROVE Verifies(rest, ttl)
    <3>1. rest \in Nat /\ rest <= 8 * (Word - 1) + 255
      BY <1>2
    <3>2. ttl \in 2 .. 255
      OBVIOUS
    <3> QED
      BY <1>1, <3>1, <3>2
  <2> QED
    BY <2>1
<1>4. ChecksumVerifies
  BY <1>3 DEF ChecksumVerifies, Verifies
<1> QED
  BY <1>4, PTL

-----------------------------------------------------------------------------
(* The frames *)

RouteOf(packet) == get_best_route(trie_tree, packet.dst)

Routes == ToSet(rtable)
Aged == [dst : Destinations \cup {Own}, ttl : Nat, echo : BOOLEAN, intact : BOOLEAN]

\* Entries of the ARP table and of the queue, as the code makes them.
Entries == {e \in [ip : Hops, mac : Hops] : e.mac = e.ip}
Waiting == {w \in [packet : Aged, best_route : Routes] : w.best_route = RouteOf(w.packet)}

RouterTypeOK ==
    /\ q \in Seq(Waiting) /\ arp_table \in Seq(Entries) /\ requests \in Seq(Hops)
    /\ orderly \in BOOLEAN

\* What has left the router left along its own route.
LeavesByItsRoute ==
    out # NULL /\ out.kind = "ip" =>
        /\ out.what \in Aged
        /\ out.to = [mac |-> RouteOf(out.what).next_hop, interface |-> RouteOf(out.what).interface]

\* What the requests under way are for, while replies come in order.
NextHops == [i \in DOMAIN q |-> q[i].best_route.next_hop]

RepliesFindTheirPacket ==
    orderly => IF crashed THEN Len(arp_table) = ARP_TABLE_SIZE ELSE requests = NextHops

IInv == RouterTypeOK /\ LeavesByItsRoute /\ RepliesFindTheirPacket

\* The first of some indices.
LEMMA LeastIsThere == ASSUME NEW I \in SUBSET Nat, I # {} PROVE Min(I) \in I
BY LeastNumber DEF Min

LEMMA RouterTable == IsTable(rtable) /\ Bits \in Nat /\ NULL \notin Entries
<1>1. IsTable(rtable) /\ Bits \in Nat
  BY TableAssumption DEF IsTable, ToSet
<1>2. ASSUME NULL \in Entries PROVE FALSE
  <2>1. PICK i \in DOMAIN rtable : NULL.ip = rtable[i].next_hop
    BY <1>2 DEF Entries, Hops
  <2>2. NULL = [ip |-> rtable[i].next_hop, mac |-> rtable[i].next_hop]
    BY <1>2, <2>1 DEF Entries
  <2>3. rtable[i] \in ToSet(rtable)
    BY DEF ToSet
  <2> QED
    BY <2>2, <2>3, TableAssumption
<1> QED
  BY <1>1, <1>2

\* The route of a packet, if it has one, is an entry of the routing table.
LEMMA RouteIsThere ==
    ASSUME NEW ip \in Address
    PROVE  LET route == get_best_route(trie_tree, ip)
           IN  /\ route = LongestPrefix(rtable, ip)
               /\ route # NULL => route \in Routes /\ route.next_hop \in Hops
<1> DEFINE I == Matching(rtable, ip, 0)
           route == get_best_route(trie_tree, ip)
<1>1. route = LongestPrefix(rtable, ip)
  BY RouterTable, TrieIsRight DEF trie_tree
<1>2. route = Winner(rtable, I)
  BY <1>1, RouterTable, WinnerOfAll
<1>3. I \in SUBSET (1 .. Len(rtable))
  BY DEF Matching
<1> HIDE DEF I, route
<1>4. ASSUME route # NULL PROVE \E i \in 1 .. Len(rtable) : route = rtable[i]
  <2>1. I # {}
    BY <1>2, <1>4 DEF Winner
  <2>2. PICK i \in I : i \in Best(rtable, I)
    BY <1>3, <2>1, RouterTable, BestIsThere
  <2> QED
    BY <1>2, <1>3, <2>2, RouterTable, WinnerIs
<1>5. DOMAIN rtable = 1 .. Len(rtable)
  BY RouterTable DEF IsTable
<1> QED
  BY <1>1, <1>4, <1>5 DEF Routes, Hops, ToSet, route

\* An entry that is found is one for the address asked for; one that is in the
\* table is found.
LEMMA ArpEntry ==
    ASSUME NEW table \in Seq(Entries), NEW ip
    PROVE  /\ get_arp_entry(table, ip) # NULL =>
                  get_arp_entry(table, ip) \in Entries /\ get_arp_entry(table, ip).mac = ip
           /\ (\E i \in 1..Len(table) : table[i].ip = ip) => get_arp_entry(table, ip) \in Entries
<1> DEFINE I == {i \in 1..Len(table) : table[i].ip = ip}
           found == SelectInSeq(table, LAMBDA e : e.ip = ip)
<1>1. found = IF I # {} THEN Min(I) ELSE 0
  BY DEF SelectInSeq
<1>2. I # {} => Min(I) \in I
  <2>1. I \subseteq Nat
    OBVIOUS
  <2> HIDE DEF I
  <2> QED BY <2>1, LeastIsThere
<1>3. get_arp_entry(table, ip) = IF found = 0 THEN NULL ELSE table[found]
  BY DEF get_arp_entry
<1>4. \A i \in I : i # 0 /\ table[i] \in Entries /\ table[i].ip = ip
  OBVIOUS
<1>5. (\E i \in 1..Len(table) : table[i].ip = ip) <=> I # {}
  OBVIOUS
<1> HIDE DEF I, found
<1>6. CASE I # {}
  <2>1. found \in I /\ found # 0
    BY <1>1, <1>2, <1>4, <1>6
  <2> QED
    BY <1>3, <1>4, <2>1 DEF Entries
<1>7. CASE I = {}
  BY <1>1, <1>3, <1>5, <1>7
<1> QED
  BY <1>6, <1>7

\* The next hops of a queue that gains a packet at its end, or loses its first.
LEMMA HopsAppend ==
    ASSUME q \in Seq(Waiting), NEW w \in Waiting, q' = Append(q, w)
    PROVE  NextHops' = Append(NextHops, w.best_route.next_hop)
<1>1. /\ NextHops' = [i \in 1..Len(q) + 1 |-> q'[i].best_route.next_hop]
      /\ NextHops = [i \in 1..Len(q) |-> q[i].best_route.next_hop]
  BY DEF NextHops
<1>2. \A i \in 1..Len(q) : q'[i] = q[i]
  OBVIOUS
<1>3. q'[Len(q) + 1] = w /\ Len(q) \in Nat
  OBVIOUS
<1> QED
  BY <1>1, <1>2, <1>3

LEMMA HopsTail ==
    ASSUME q \in Seq(Waiting), q # <<>>, q' = Tail(q) PROVE NextHops' = Tail(NextHops)
<1>1. /\ NextHops' = [i \in 1..Len(q) - 1 |-> q'[i].best_route.next_hop]
      /\ NextHops = [i \in 1..Len(q) |-> q[i].best_route.next_hop]
  BY DEF NextHops
<1>2. \A i \in 1..Len(q) - 1 : q'[i] = q[i + 1]
  OBVIOUS
<1>3. Len(q) \in Nat \ {0}
  OBVIOUS
<1> QED
  BY <1>1, <1>2, <1>3

-----------------------------------------------------------------------------
LEMMA InitInv == Init => IInv
<1> SUFFICES ASSUME Init PROVE IInv
  OBVIOUS
<1>1. requests = NextHops
  BY DEF Init, NextHops
<1> QED
  BY <1>1 DEF Init, IInv, RouterTypeOK, LeavesByItsRoute, RepliesFindTheirPacket

\* A packet that arrives.
LEMMA ReceiveInv == ASSUME IInv, NEW p \in Packets, ReceivePacket(p) PROVE IInv'
<1>1. CASE out' = NULL /\ UNCHANGED <<requests, arp_table, q>>
  BY <1>1 DEF ReceivePacket, IInv, RouterTypeOK, LeavesByItsRoute, RepliesFindTheirPacket, NextHops
<1>2. ASSUME NEW kind \in {"echo reply", "time exceeded", "unreachable"}, NEW what, Answers(kind, what)
      PROVE  IInv'
  BY <1>2 DEF ReceivePacket, Answers, Frame, IInv, RouterTypeOK, LeavesByItsRoute, RepliesFindTheirPacket, NextHops
<1> DEFINE aged == [p EXCEPT !.ttl = @ - 1]
           route == get_best_route(trie_tree, p.dst)
<1>3. CASE p.ttl \notin {0, 1} /\ route # NULL /\ Forward(aged, route)
  <2>1. /\ aged \in Aged /\ aged.dst = p.dst /\ route = RouteOf(aged)
        /\ route \in Routes /\ route.next_hop \in Hops
    <3>1. aged \in Aged /\ aged.dst = p.dst /\ p.dst \in Address
      BY <1>3, RouterAssumption DEF Aged, Packets
    <3> QED
      BY <1>3, <3>1, RouteIsThere DEF RouteOf
  <2> DEFINE destination == get_arp_entry(arp_table, route.next_hop)
             waiting == [packet |-> aged, best_route |-> route]
  <2> HIDE DEF aged, route
  <2>2. CASE destination = NULL
    <3>1. /\ requests' = Append(requests, route.next_hop)
          /\ q' = Append(q, waiting) /\ out' = NULL /\ UNCHANGED <<arp_table, orderly, crashed>>
      BY <1>3, <2>2 DEF Forward, Enqueue, send_arp_request, queue_enq, ReceivePacket
    <3>2. waiting \in Waiting /\ route.next_hop \in Hops
      BY <2>1 DEF Waiting
    <3>3. RouterTypeOK'
      BY <3>1, <3>2 DEF IInv, RouterTypeOK
    <3>4. ASSUME orderly, ~crashed PROVE requests' = NextHops'
      <4>1. NextHops' = Append(NextHops, route.next_hop)
        BY <3>1, <3>2, HopsAppend DEF IInv, RouterTypeOK
      <4> QED
        BY <3>1, <3>4, <4>1 DEF IInv, RepliesFindTheirPacket
    <3> QED
      BY <3>1, <3>3, <3>4 DEF IInv, LeavesByItsRoute, RepliesFindTheirPacket
  <2>3. CASE destination # NULL
    <3>1. out' = Sent(aged, route, destination) /\ UNCHANGED <<requests, arp_table, q, orderly, crashed>>
      BY <1>3, <2>3 DEF Forward, ReceivePacket
    <3>2. destination.mac = route.next_hop
      BY <2>3, ArpEntry DEF IInv, RouterTypeOK
    <3>3. LeavesByItsRoute'
      BY <2>1, <3>1, <3>2 DEF LeavesByItsRoute, Sent, Frame, RouteOf
    <3> QED
      BY <3>1, <3>3 DEF IInv, RouterTypeOK, RepliesFindTheirPacket, NextHops
  <2> QED
    BY <2>2, <2>3
<1> QED
  BY <1>1, <1>2, <1>3 DEF ReceivePacket, ipv4_protocol, Drops

\* A reply for ip, whoever asked for it.
LEMMA ReplyInv ==
    ASSUME IInv, ~crashed, NEW ip \in Hops, parse_arp_reply(ip), UNCHANGED orderly,
           requests' \in Seq(Hops),
           orderly => requests # <<>> /\ ip = requests[1] /\ requests' = Tail(requests)
    PROVE  IInv' /\ (orderly /\ Len(arp_table) # ARP_TABLE_SIZE => ~crashed')
<1> DEFINE table == Append(arp_table, [ip |-> ip, mac |-> ip])
           data == Head(q)
           destination == get_arp_entry(table, data.best_route.next_hop)
<1>1. CASE Len(arp_table) = ARP_TABLE_SIZE
  <2>1. crashed' = TRUE /\ UNCHANGED <<arp_table, q, out>>
    BY <1>1 DEF parse_arp_reply
  <2> QED
    BY <1>1, <2>1 DEF IInv, RouterTypeOK, LeavesByItsRoute, RepliesFindTheirPacket
<1>2. table \in Seq(Entries) /\ Len(table) = Len(arp_table) + 1 /\ table[Len(table)].ip = ip
  BY DEF IInv, RouterTypeOK, Entries
<1>3. CASE Len(arp_table) # ARP_TABLE_SIZE /\ q = <<>>
  <2>1. arp_table' = table /\ out' = NULL /\ UNCHANGED <<q, crashed>>
    BY <1>3 DEF parse_arp_reply
  <2>2. ~orderly
    BY <1>3 DEF IInv, RepliesFindTheirPacket, NextHops
  <2> HIDE DEF table
  <2> QED
    BY <1>2, <2>1, <2>2 DEF IInv, RouterTypeOK, LeavesByItsRoute, RepliesFindTheirPacket
<1>4. CASE Len(arp_table) # ARP_TABLE_SIZE /\ q # <<>>
  <2>1. /\ arp_table' = table /\ q' = Tail(q) /\ crashed' = (destination = NULL)
        /\ out' = IF destination = NULL THEN NULL
                  ELSE Sent(data.packet, data.best_route, destination)
    BY <1>4 DEF parse_arp_reply, Released
  <2>2. data \in Waiting /\ q' \in Seq(Waiting)
    BY <1>4, <2>1 DEF IInv, RouterTypeOK
  <2> HIDE DEF table, data
  <2>3. RouterTypeOK'
    BY <1>2, <2>1, <2>2 DEF IInv, RouterTypeOK
  <2>4. LeavesByItsRoute'
    <3>1. SUFFICES ASSUME destination # NULL PROVE LeavesByItsRoute'
      BY <2>1 DEF LeavesByItsRoute
    <3>2. destination.mac = data.best_route.next_hop
      BY <1>2, <3>1, ArpEntry
    <3>3. data.best_route = RouteOf(data.packet)
      BY <2>2 DEF Waiting
    <3>4. data.packet \in Aged
      BY <2>2 DEF Waiting
    <3> QED
      BY <3>4, <2>1, <3>1, <3>2, <3>3 DEF LeavesByItsRoute, Sent, Frame, RouteOf
  <2>5. ASSUME orderly PROVE ~crashed' /\ requests' = NextHops'
    <3>1. requests = NextHops /\ ip = data.best_route.next_hop
      BY <1>4, <2>5 DEF IInv, RouterTypeOK, RepliesFindTheirPacket, NextHops, data
    <3>2. \E i \in 1..Len(table) : table[i].ip = ip
      BY <1>2
    <3>3. destination \in Entries
      BY <1>2, <3>1, <3>2, ArpEntry
    <3>4. requests' = NextHops'
      BY <1>4, <2>1, <2>5, <3>1, HopsTail DEF IInv, RouterTypeOK
    <3> QED
      BY <2>1, <3>3, <3>4, RouterTable
  <2> QED
    BY <2>3, <2>4, <2>5 DEF IInv, RepliesFindTheirPacket
<1> QED
  BY <1>1, <1>3, <1>4

\* A request whose reply arrives, or is lost, leaves the list of requests.
LEMMA RequestGone ==
    ASSUME requests \in Seq(Hops), NEW i \in DOMAIN requests
    PROVE  RemoveAt(requests, i) \in Seq(Hops) /\ (i = 1 => RemoveAt(requests, i) = Tail(requests))
BY DEF RemoveAt

LEMMA NextInv == ASSUME IInv, [Next]_vars PROVE IInv'
<1>1. ASSUME ~crashed, NEW i \in DOMAIN requests, ArpReply(i) PROVE IInv'
  <2>1. requests' \in Seq(Hops) /\ (i = 1 => requests' = Tail(requests)) /\ requests[i] \in Hops
    BY <1>1, RequestGone DEF ArpReply, IInv, RouterTypeOK
  <2>2. orderly => requests # <<>> /\ requests[i] = requests[1] /\ requests' = Tail(requests)
    BY <1>1, <2>1 DEF ArpReply
  <2> QED
    BY <1>1, <2>1, <2>2, ReplyInv DEF ArpReply
<1>2. ASSUME ~crashed, NEW ip \in Hops, UnaskedReply(ip) PROVE IInv'
  BY <1>2, ReplyInv DEF UnaskedReply, IInv, RouterTypeOK, Hops
<1>3. ASSUME NEW i \in DOMAIN requests, LostReply(i) PROVE IInv'
  BY <1>3, RequestGone
     DEF LostReply, IInv, RouterTypeOK, LeavesByItsRoute, RepliesFindTheirPacket
<1>4. CASE ParseArpRequest
  BY <1>4 DEF ParseArpRequest, Answers, Frame, IInv, RouterTypeOK, LeavesByItsRoute,
              RepliesFindTheirPacket, NextHops
<1>5. CASE UNCHANGED vars
  BY <1>5 DEF vars, IInv, RouterTypeOK, LeavesByItsRoute, RepliesFindTheirPacket, NextHops
<1> QED
  BY <1>1, <1>2, <1>3, <1>4, <1>5, ReceiveInv DEF Next

-----------------------------------------------------------------------------
\* The packets of a router and its ARP table are what the code makes of them, what
\* leaves leaves by its own route, and replies in order find their packets.
THEOREM Inductive == Spec => []IInv
<1>1. Init => IInv
  BY InitInv
<1>2. IInv /\ [Next]_vars => IInv'
  BY NextInv
<1> QED
  BY <1>1, <1>2, PTL DEF Spec

\* Forwarded packets leave by the longest prefix and to its next hop (router.c:
\* 170-260), for any routing table, any number of packets, and replies that are
\* lost, repeated, unasked or out of order.
THEOREM BestHop == Spec => []ForwardedToBestHop
<1>1. ASSUME NEW packet \in Aged PROVE RouteOf(packet) = LongestPrefix(rtable, packet.dst)
  <2>1. packet.dst \in Address
    BY RouterAssumption DEF Aged
  <2> QED
    BY <2>1, RouteIsThere DEF RouteOf
<1>2. IInv => ForwardedToBestHop
  BY <1>1 DEF IInv, LeavesByItsRoute, ForwardedToBestHop
<1> QED
  BY <1>2, Inductive, PTL

\* While replies come in order, the requests under way are those of the packets
\* that wait, and only the ARP table's bound can bring the router down (router.c:
\* 236-260).
THEOREM RepliesInOrder == Spec => []RepliesFindTheirPacket
<1>1. IInv => RepliesFindTheirPacket
  BY DEF IInv
<1> QED
  BY <1>1, Inductive, PTL

-----------------------------------------------------------------------------
(* Room in the ARP table *)

\* Where no value is taken more than m times, there are m arguments for each value.
LEMMA FewForEach ==
    ASSUME NEW n \in Nat, NEW H, IsFiniteSet(H), NEW f \in [1 .. n -> H], NEW m \in Nat,
           \A h \in H : Cardinality({i \in 1 .. n : f[i] = h}) <= m
    PROVE  n <= m * Cardinality(H)
<1> DEFINE upto(i) == {j \in 1 .. i : f[j] = f[i]}
           g == [i \in 1 .. n |-> <<Cardinality(upto(i)), f[i]>>]
<1>1. ASSUME NEW i \in 1 .. n
      PROVE  IsFiniteSet(upto(i)) /\ Cardinality(upto(i)) \in 1 .. m
  <2> DEFINE all == {j \in 1 .. n : f[j] = f[i]}
  <2>1. IsFiniteSet(all) /\ Cardinality(all) <= m
    <3>1. IsFiniteSet(1 .. n) /\ all \in SUBSET (1 .. n)
      BY FS_Interval
    <3>2. IsFiniteSet(all)
      BY <3>1, FS_Subset
    <3> QED
      BY <3>2
  <2>2. upto(i) \in SUBSET all /\ i \in upto(i)
    OBVIOUS
  <2> HIDE DEF all, upto
  <2>3. IsFiniteSet(upto(i)) /\ Cardinality(upto(i)) <= Cardinality(all)
    BY <2>1, <2>2, FS_Subset
  <2>4. Cardinality(upto(i)) \in Nat /\ Cardinality(all) \in Nat
    BY <2>1, <2>3, FS_CardinalityType
  <2>5. Cardinality(upto(i)) # 0
    BY <2>2, <2>3, FS_EmptySet
  <2> QED
    BY <2>1, <2>3, <2>4, <2>5
<1>2. ASSUME NEW i \in 1 .. n, NEW k \in 1 .. n, i < k, f[i] = f[k]
      PROVE  Cardinality(upto(i)) # Cardinality(upto(k))
  <2>1. upto(i) \in SUBSET upto(k) /\ k \in upto(k) /\ k \notin upto(i)
    BY <1>2
  <2>2. IsFiniteSet(upto(k))
    BY <1>1
  <2> HIDE DEF upto
  <2> QED
    BY <2>1, <2>2, FS_Subset
<1> HIDE DEF upto
<1>3. g \in [1 .. n -> (1 .. m) \X H]
  BY <1>1
<1>4. ASSUME NEW i \in 1 .. n, NEW k \in 1 .. n, g[i] = g[k] PROVE i = k
  <2>1. f[i] = f[k] /\ Cardinality(upto(i)) = Cardinality(upto(k))
    BY <1>4
  <2>2. ~(i < k) /\ ~(k < i)
    BY <2>1, <1>2
  <2> QED
    BY <2>2
<1> HIDE DEF g
<1>5. g \in Injection(1 .. n, (1 .. m) \X H)
  BY <1>3, <1>4 DEF Injection, IsInjective
<1>6. /\ IsFiniteSet((1 .. m) \X H)
      /\ Cardinality((1 .. m) \X H) = m * Cardinality(H)
  <2>1. IsFiniteSet(1 .. m) /\ Cardinality(1 .. m) = m
    BY FS_Interval
  <2>2. /\ IsFiniteSet((1 .. m) \X H)
        /\ Cardinality((1 .. m) \X H) = Cardinality(1 .. m) * Cardinality(H)
    BY <2>1, FS_Product
  <2> QED
    BY <2>1, <2>2
<1>7. Cardinality(1 .. n) <= Cardinality((1 .. m) \X H) /\ Cardinality(1 .. n) = n
  BY <1>5, <1>6, FS_Injection, FS_Interval
<1> QED
  BY <1>6, <1>7

\* The next hops that were asked for, first those that have answered.
Asked ==
    [i \in 1 .. Len(arp_table) + Len(requests) |->
        IF i <= Len(arp_table) THEN arp_table[i].ip ELSE requests[i - Len(arp_table)]]
AskedFor(h) == {i \in 1 .. Len(arp_table) + Len(requests) : Asked[i] = h}

\* A next hop is asked for until it answers, for as many packets as there is room for.
FewAsked ==
    /\ Len(q) <= MaxQueue
    /\ orderly /\ ~crashed => \A h \in Hops : Cardinality(AskedFor(h)) <= MaxQueue

\* A request more, for a next hop that has not answered.
LEMMA OneMoreAsked ==
    ASSUME IInv, orderly, ~crashed, FewAsked, Len(q) < MaxQueue, NEW hop \in Hops,
           get_arp_entry(arp_table, hop) = NULL, requests' = Append(requests, hop),
           arp_table' = arp_table
    PROVE  \A h \in Hops : Cardinality(AskedFor(h)') <= MaxQueue
<1> DEFINE a == Len(arp_table)
           n == Len(requests)
<1>1. a \in Nat /\ n \in Nat /\ n < MaxQueue /\ Len(requests') = n + 1 /\ MaxQueue \in Nat
  BY RouterAssumption DEF IInv, RouterTypeOK, RepliesFindTheirPacket, NextHops
<1>2. \A i \in 1 .. a : Asked[i] # hop
  BY ArpEntry, RouterTable DEF IInv, RouterTypeOK, Asked
<1>3. \A i \in 1 .. a + n : Asked'[i] = Asked[i]
  BY <1>1 DEF IInv, RouterTypeOK, Asked
<1>4. Asked'[a + n + 1] = hop
  BY <1>1 DEF IInv, RouterTypeOK, Asked
<1>5. \A h : /\ AskedFor(h) = {i \in 1 .. a + n : Asked[i] = h}
             /\ AskedFor(h)' = {i \in 1 .. a + n + 1 : Asked'[i] = h}
  BY <1>1 DEF AskedFor
<1>6. ASSUME NEW h \in Hops, h # hop PROVE Cardinality(AskedFor(h)') <= MaxQueue
  <2>1. AskedFor(h)' = AskedFor(h)
    <3>1. /\ AskedFor(h) = {i \in 1 .. a + n : Asked[i] = h}
          /\ AskedFor(h)' = {i \in 1 .. a + n + 1 : Asked'[i] = h}
      BY <1>5
    <3>2. \A i \in 1 .. a + n + 1 : i \in 1 .. a + n \/ i = a + n + 1
      BY <1>1
    <3>3. \A i \in 1 .. a + n : i \in 1 .. a + n + 1
      BY <1>1
    <3> HIDE DEF a, n
    <3> QED
      BY <3>1, <3>2, <3>3, <1>3, <1>4, <1>6
  <2> QED
    BY <2>1 DEF FewAsked
<1>7. Cardinality(AskedFor(hop)') <= MaxQueue
  <2>1. AskedFor(hop)' \in SUBSET (a + 1 .. a + n + 1)
    <3>1. AskedFor(hop)' = {i \in 1 .. a + n + 1 : Asked'[i] = hop}
      BY <1>5
    <3>2. \A i \in 1 .. a : i \in 1 .. a + n /\ Asked'[i] # hop
      BY <1>1, <1>2, <1>3
    <3>3. \A i \in 1 .. a + n + 1 : i \in 1 .. a \/ i \in a + 1 .. a + n + 1
      BY <1>1
    <3> HIDE DEF a, n
    <3> QED
      BY <3>1, <3>2, <3>3
  <2>2. /\ IsFiniteSet(a + 1 .. a + n + 1) /\ Cardinality(a + 1 .. a + n + 1) = n + 1
    <3> DEFINE b == a + 1
               c == a + n + 1
    <3>1. b \in Int /\ c \in Int /\ c - b + 1 = n + 1 /\ ~(b > c)
      BY <1>1
    <3> HIDE DEF b, c
    <3>2. IsFiniteSet(b .. c) /\ Cardinality(b .. c) = n + 1
      BY <3>1, FS_Interval
    <3> QED
      BY <3>2 DEF b, c
  <2> DEFINE new == AskedFor(hop)'
  <2> HIDE DEF new
  <2>3. IsFiniteSet(new) /\ Cardinality(new) <= n + 1
    BY <2>1, <2>2, FS_Subset DEF new
  <2>4. Cardinality(new) \in Nat
    BY <2>3, FS_CardinalityType
  <2> QED
    BY <2>3, <2>4, <1>1 DEF new
<1> QED
  BY <1>6, <1>7

\* A reply in its order moves a next hop from the requests to the table.
LEMMA AskedStays ==
    ASSUME RouterTypeOK, requests # <<>>, requests' = Tail(requests),
           arp_table' = Append(arp_table, [ip |-> requests[1], mac |-> requests[1]])
    PROVE  Asked' = Asked /\ \A h : AskedFor(h)' = AskedFor(h)
<1>1. /\ Len(arp_table') = Len(arp_table) + 1 /\ Len(requests') = Len(requests) - 1
      /\ Len(arp_table) \in Nat /\ Len(requests) \in Nat \ {0}
  BY DEF RouterTypeOK
<1>2. ASSUME NEW i \in 1 .. Len(arp_table) + Len(requests)
      PROVE  Asked'[i] = Asked[i]
  <2>1. CASE i <= Len(arp_table)
    BY <2>1, <1>1 DEF RouterTypeOK, Asked
  <2>2. CASE i = Len(arp_table) + 1
    BY <2>2, <1>1 DEF RouterTypeOK, Asked
  <2>3. CASE i > Len(arp_table) + 1
    <3>1. requests'[i - Len(arp_table')] = requests[i - Len(arp_table)]
      BY <2>3, <1>1 DEF RouterTypeOK
    <3> QED
      BY <2>3, <3>1, <1>1 DEF Asked
  <2> QED
    BY <2>1, <2>2, <2>3, <1>1
<1>3. Asked' = Asked
  <2>1. Len(arp_table') + Len(requests') = Len(arp_table) + Len(requests)
    BY <1>1
  <2>2. /\ Asked = [i \in 1 .. Len(arp_table) + Len(requests) |-> Asked[i]]
        /\ Asked' = [i \in 1 .. Len(arp_table) + Len(requests) |-> Asked'[i]]
    BY <2>1 DEF Asked
  <2> QED
    BY <1>2, <2>2
<1> QED
  BY <1>1, <1>3 DEF AskedFor

LEMMA FewAskedStep == ASSUME IInv, IInv', FewAsked, [Next]_vars PROVE FewAsked'
<1>0. q \in Seq(Waiting) /\ Len(q) \in Nat /\ MaxQueue \in Nat
  BY RouterAssumption DEF IInv, RouterTypeOK
<1>1. CASE UNCHANGED <<orderly, requests, arp_table, q, crashed>>
  BY <1>1 DEF FewAsked, AskedFor, Asked
<1>2. ASSUME NEW p \in Packets, ReceivePacket(p) PROVE FewAsked'
  <2> DEFINE route == get_best_route(trie_tree, p.dst)
             aged == [p EXCEPT !.ttl = @ - 1]
  <2>1. CASE route # NULL /\ Forward(aged, route)
    <3> DEFINE destination == get_arp_entry(arp_table, route.next_hop)
    <3>1. route.next_hop \in Hops
      <4>1. p.dst \in Address
        BY RouterAssumption DEF Packets
      <4> QED
        BY <2>1, <4>1, RouteIsThere
    <3> HIDE DEF route, aged
    <3>2. CASE destination = NULL
      <4>1. /\ requests' = Append(requests, route.next_hop)
            /\ q' = Append(q, [packet |-> aged, best_route |-> route])
            /\ arp_table' = arp_table /\ orderly' = orderly /\ crashed' = crashed
            /\ Len(q) < MaxQueue
        BY <1>2, <2>1, <3>2 DEF Forward, Enqueue, send_arp_request, queue_enq, ReceivePacket
      <4>2. Len(q') <= MaxQueue
        BY <4>1, <1>0
      <4>3. orderly' /\ ~crashed' => \A h \in Hops : Cardinality(AskedFor(h)') <= MaxQueue
        BY <3>1, <3>2, <4>1, OneMoreAsked
      <4> QED
        BY <4>2, <4>3 DEF FewAsked
    <3>3. CASE destination # NULL
      BY <1>1, <1>2, <2>1, <3>3 DEF Forward, ReceivePacket
    <3> QED
      BY <3>2, <3>3
  <2>2. CASE UNCHANGED <<requests, arp_table, q>>
    BY <1>1, <1>2, <2>2 DEF ReceivePacket
  <2> HIDE DEF route, aged
  <2> QED
    BY <1>2, <2>1, <2>2 DEF ReceivePacket, ipv4_protocol, Answers, Drops, route, aged
<1>3. ASSUME ~crashed, NEW i \in DOMAIN requests, ArpReply(i) PROVE FewAsked'
  <2>1. CASE ~orderly \/ crashed'
    <3>1. Len(q') <= MaxQueue
      BY <1>0, <1>3 DEF ArpReply, parse_arp_reply, FewAsked
    <3> QED
      BY <1>3, <2>1, <3>1 DEF ArpReply, FewAsked
  <2>2. CASE orderly /\ ~crashed'
    <3>1. i = 1 /\ requests' = Tail(requests) /\ requests # <<>> /\ orderly' = orderly
      <4>1. i = 1 /\ requests' = RemoveAt(requests, i) /\ orderly' = orderly
        BY <1>3, <2>2 DEF ArpReply
      <4>2. requests \in Seq(Hops)
        BY DEF IInv, RouterTypeOK
      <4> QED
        BY <4>1, <4>2, RequestGone
    <3>2. /\ arp_table' = Append(arp_table, [ip |-> requests[1], mac |-> requests[1]])
          /\ q' = q \/ (q # <<>> /\ q' = Tail(q))
      BY <1>3, <2>2, <3>1 DEF ArpReply, parse_arp_reply
    <3>3. \A h : AskedFor(h)' = AskedFor(h)
      BY <3>1, <3>2, AskedStays DEF IInv
    <3>4. Len(q') <= MaxQueue
      BY <1>0, <3>2 DEF FewAsked
    <3> QED
      BY <1>3, <2>2, <3>3, <3>4 DEF FewAsked
  <2> QED
    BY <2>1, <2>2
<1>4. ASSUME NEW ip \in Hops, UnaskedReply(ip) PROVE FewAsked'
  <2>1. Len(q') <= MaxQueue
    BY <1>0, <1>4 DEF UnaskedReply, parse_arp_reply, FewAsked
  <2> QED
    BY <1>4, <2>1 DEF UnaskedReply, FewAsked
<1>5. ASSUME NEW i \in DOMAIN requests, LostReply(i) PROVE FewAsked'
  BY <1>5 DEF LostReply, FewAsked
<1>6. CASE ParseArpRequest
  BY <1>1, <1>6 DEF ParseArpRequest, Answers
<1> QED
  BY <1>1, <1>2, <1>3, <1>4, <1>5, <1>6 DEF Next, vars

\* There is room for the answer to a request that is under way.
LEMMA RoomForReply ==
    ASSUME ARP_TABLE_SIZE >= MaxQueue * Cardinality(Hops), IInv, FewAsked,
           orderly, ~crashed, requests # <<>>
    PROVE  Len(arp_table) < ARP_TABLE_SIZE
<1> DEFINE n == Len(arp_table) + Len(requests)
<1>1. Len(arp_table) \in Nat /\ Len(requests) \in Nat \ {0} /\ MaxQueue \in Nat
  BY RouterAssumption DEF IInv, RouterTypeOK
<1>2. IsFiniteSet(Hops) /\ Cardinality(Hops) \in Nat
  <2>1. IsFiniteSet(DOMAIN rtable)
    BY RouterTable, FS_Interval DEF IsTable
  <2>2. IsFiniteSet(Hops)
    <3> DEFINE f == [i \in DOMAIN rtable |-> rtable[i].next_hop]
    <3>1. f \in Surjection(DOMAIN rtable, Hops)
      BY DEF Surjection, Hops
    <3> QED
      BY <2>1, <3>1, FS_Surjection
  <2> QED
    BY <2>2, FS_CardinalityType
<1>3. Asked \in [1 .. n -> Hops]
  BY <1>1 DEF Asked, IInv, RouterTypeOK, Entries
<1>4. \A h \in Hops : Cardinality({i \in 1 .. n : Asked[i] = h}) <= MaxQueue
  BY DEF FewAsked, AskedFor
<1>5. n \in Nat
  BY <1>1
<1> DEFINE f == Asked
<1> HIDE DEF n, f
<1>6. n <= MaxQueue * Cardinality(Hops)
  BY <1>1, <1>2, <1>3, <1>4, <1>5, FewForEach DEF f
<1>7. MaxQueue * Cardinality(Hops) \in Nat /\ ARP_TABLE_SIZE \in Nat
  BY <1>1, <1>2, RouterAssumption
<1> QED
  BY <1>1, <1>6, <1>7 DEF n

\* As long as every request is answered, once and in order, the packets in the queue wait
\* for the hops of the requests under way, and no reply brings the router down (router.c:
\* 236-260): an ARP table in which each next hop can be entered once for every packet that
\* the queue has room for is large enough, although parse_arp_reply never looks whether it
\* has the address already.
THEOREM RequestsMatch ==
    ASSUME ARP_TABLE_SIZE >= MaxQueue * Cardinality(Hops)
    PROVE  Spec => []RequestsMatchQueue
<1> DEFINE Up == orderly => ~crashed
           J == IInv /\ FewAsked /\ Up
<1>1. Init => J
  <2> SUFFICES ASSUME Init PROVE J
    OBVIOUS
  <2>1. \A h : AskedFor(h) = {}
    BY DEF Init, AskedFor
  <2>2. Len(q) = 0 /\ MaxQueue \in Nat
    BY RouterAssumption DEF Init
  <2>3. FewAsked
    BY <2>1, <2>2, FS_EmptySet DEF FewAsked
  <2> QED
    BY <2>3, InitInv DEF Init
<1>2. J /\ [Next]_vars => J'
  <2> SUFFICES ASSUME IInv, FewAsked, Up, [Next]_vars PROVE J'
    OBVIOUS
  <2>1. IInv' /\ FewAsked'
    BY NextInv, FewAskedStep
  <2>2. ASSUME orderly' PROVE ~crashed'
    <3>1. SUFFICES ASSUME crashed' PROVE FALSE
      OBVIOUS
    <3>2. PICK i \in DOMAIN requests : ~crashed /\ ArpReply(i)
      BY <2>2, <3>1 DEF Next, vars, ReceivePacket, ParseArpRequest, UnaskedReply, LostReply
    <3>3. orderly /\ requests # <<>>
      BY <2>2, <3>2 DEF ArpReply
    <3>4. Len(arp_table) < ARP_TABLE_SIZE /\ Len(arp_table) \in Nat /\ ARP_TABLE_SIZE \in Nat
      BY <3>2, <3>3, RoomForReply, RouterAssumption DEF IInv, RouterTypeOK
    <3>5. requests \in Seq(Hops) /\ i = 1 /\ requests' = RemoveAt(requests, i)
      BY <3>2, <3>3 DEF ArpReply, IInv, RouterTypeOK
    <3>6. /\ requests' \in Seq(Hops) /\ requests' = Tail(requests)
          /\ requests[i] \in Hops /\ requests[i] = requests[1]
      BY <3>5, RequestGone
    <3>7. ~crashed'
      BY <3>2, <3>3, <3>4, <3>6, ReplyInv DEF ArpReply
    <3> QED
      BY <3>1, <3>7
  <2> QED
    BY <2>1, <2>2
<1>3. J => RequestsMatchQueue
  BY DEF IInv, RepliesFindTheirPacket, RequestsMatchQueue, NextHops
<1> QED
  BY <1>1, <1>2, <1>3, PTL DEF Spec
=============================================================================
