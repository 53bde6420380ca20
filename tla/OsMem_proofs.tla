--------------------------- MODULE OsMem_proofs ----------------------------
(***************************************************************************)
(* The allocator, for any constants: the heap's list partitions the heap,  *)
(* the blocks in use are those the program holds, and what the program has *)
(* written there is kept.                                                  *)
(*                                                                         *)
(* The invariant says of each block, in terms of its neighbours, what the  *)
(* list as a whole comes to: After and Before say where the next and the   *)
(* previous block are among all of them, so that no induction along the    *)
(* list is needed.  Every operation that changes the list is one splice,   *)
(* which cuts out the blocks between a and end, or puts in one new block   *)
(* (Splices, SpliceIsGood).  An operation of the library then promises     *)
(* one of few things: Frees, Reuses, Gains, Stays, Moves.  The actions are *)
(* proved from the promises alone.                                         *)
(***************************************************************************)
EXTENDS OsMem, TLAPS, NaturalsInduction, WellFoundedInduction

-----------------------------------------------------------------------------
(* Alignment *)

Aligned(n) == ALIGN(n) = n

\* What the assumption on the constants comes to.
LEMMA Constants ==
    /\ ALIGNMENT \in Nat /\ ALIGNMENT > 0
    /\ METADATA_SIZE \in Nat /\ METADATA_SIZE > 0
    /\ MMAP_THRESHOLD \in Nat /\ METADATA_SIZE <= MMAP_THRESHOLD
    /\ Aligned(HeapBase) /\ Aligned(METADATA_SIZE) /\ Aligned(MMAP_THRESHOLD)
    /\ HeapBase \in Nat /\ HeapBase > 0
  BY OsMemAssumption DEF Aligned

\* The multiples of ALIGNMENT are what ALIGN leaves as it is.
LEMMA MultipleIsAligned ==
    ASSUME NEW k \in Int
    PROVE  Aligned(k * ALIGNMENT)
  <1>1. \A A \in Nat \ {0} : (k * A + A - 1) \div A = k
    OBVIOUS
  <1>2. ALIGN(k * ALIGNMENT) = k * ALIGNMENT
    BY <1>1, Constants DEF ALIGN
  <1> QED
    BY <1>2 DEF Aligned

\* An aligned number is a multiple.
LEMMA AlignedIsMultiple ==
    ASSUME NEW n \in Int, Aligned(n)
    PROVE  \E k \in Int : n = k * ALIGNMENT
  <1>1. \A A \in Nat \ {0} : \A x \in Int : x \div A \in Int
    OBVIOUS
  <1>2. (n + ALIGNMENT - 1) \div ALIGNMENT \in Int
    BY <1>1, Constants
  <1> QED
    BY <1>2 DEF Aligned, ALIGN

\* ALIGN rounds up to the next aligned number (osmem.c:12).
LEMMA AlignUp ==
    ASSUME NEW n \in Int
    PROVE  ALIGN(n) \in Int /\ Aligned(ALIGN(n)) /\ n <= ALIGN(n) /\ ALIGN(n) < n + ALIGNMENT
  <1>1. \A A \in Nat \ {0} : \A x \in Int :
            x \div A \in Int /\ (x \div A) * A <= x /\ x < (x \div A) * A + A
    OBVIOUS
  <1> DEFINE x == n + ALIGNMENT - 1
             q == x \div ALIGNMENT
  <1>2. q \in Int /\ q * ALIGNMENT <= x /\ x < q * ALIGNMENT + ALIGNMENT
    BY <1>1, Constants
  <1>3. ALIGN(n) = q * ALIGNMENT
    BY DEF ALIGN
  <1>4. Aligned(q * ALIGNMENT)
    BY <1>2, MultipleIsAligned
  <1>5. q * ALIGNMENT \in Int
    BY <1>2, Constants
  <1> QED
    BY <1>2, <1>3, <1>4, <1>5, Constants

\* No aligned size that is large enough is smaller than ALIGN(n).
LEMMA AlignLeast ==
    ASSUME NEW n \in Int, NEW b \in Int, Aligned(b), n <= b
    PROVE  ALIGN(n) <= b
  <1>1. PICK k \in Int : b = k * ALIGNMENT
    BY AlignedIsMultiple
  <1>2. PICK q \in Int : ALIGN(n) = q * ALIGNMENT
    BY AlignUp, AlignedIsMultiple
  <1>3. q * ALIGNMENT < k * ALIGNMENT + ALIGNMENT
    BY <1>1, <1>2, AlignUp, Constants
  <1>4. \A A \in Nat \ {0} : q * A < k * A + A => q <= k
    OBVIOUS
  <1>5. q <= k
    BY <1>3, <1>4, Constants
  <1>6. \A A \in Nat : q <= k => q * A <= k * A
    OBVIOUS
  <1> QED
    BY <1>1, <1>2, <1>5, <1>6, Constants

\* Sums and differences of aligned numbers are aligned.
LEMMA AlignedSum ==
    ASSUME NEW a \in Int, NEW b \in Int, Aligned(a), Aligned(b)
    PROVE  Aligned(a + b) /\ Aligned(a - b)
  <1>1. PICK j \in Int : a = j * ALIGNMENT
    BY AlignedIsMultiple
  <1>2. PICK k \in Int : b = k * ALIGNMENT
    BY AlignedIsMultiple
  <1>3. a + b = (j + k) * ALIGNMENT /\ a - b = (j - k) * ALIGNMENT
    BY <1>1, <1>2, Constants
  <1>4. Aligned((j + k) * ALIGNMENT) /\ Aligned((j - k) * ALIGNMENT)
    BY MultipleIsAligned
  <1> QED
    BY <1>3, <1>4

\* The same, of a sum that has a name.
LEMMA AlignedAdds ==
    ASSUME NEW a \in Int, NEW b \in Int, Aligned(a), Aligned(b), NEW c, c = a + b
    PROVE  Aligned(c)
  BY AlignedSum

\* A set of numbers has a least one.
LEMMA LeastNumber == ASSUME NEW I \in SUBSET Nat, I # {} PROVE \E x \in I : \A y \in I : x <= y
  <1> DEFINE Below == {p \in Nat \X Nat : p[1] < p[2]}
  <1>1. IsWellFoundedOn(Below, Nat)
    <2>1. OpToRel(<, Nat) = Below
      BY DEF OpToRel
    <2> QED
      BY <2>1, NatLessThanWellFounded
  <1>2. PICK x \in I : \A y \in I : <<y, x>> \notin Below
    <2> HIDE DEF Below
    <2> QED
      BY <1>1, WFMin
  <1>3. \A v, y \in I : <<y, v>> \notin Below => v <= y
    OBVIOUS
  <1> HIDE DEF Below
  <1> QED
    BY <1>2, <1>3

\* A bounded set of numbers has a largest one.
LEMMA LargestNumber ==
    ASSUME NEW I \in SUBSET Nat, I # {}, NEW bound \in Nat, \A x \in I : x <= bound
    PROVE  \E x \in I : \A y \in I : y <= x
  <1> DEFINE Left == {bound - x : x \in I}
  <1>1. Left \in SUBSET Nat /\ Left # {}
    <2>1. \A x \in I : bound - x \in Nat
      OBVIOUS
    <2> QED
      BY <2>1
  <1> HIDE DEF Left
  <1>2. PICK l \in Left : \A y \in Left : l <= y
    BY <1>1, LeastNumber
  <1>3. PICK x \in I : l = bound - x
    BY <1>2 DEF Left
  <1>4. ASSUME NEW y \in I PROVE y <= x
    <2>1. bound - y \in Left
      BY DEF Left
    <2>2. bound - x <= bound - y
      BY <1>2, <1>3, <2>1
    <2> QED
      BY <2>2
  <1> QED
    BY <1>4

-----------------------------------------------------------------------------
(* A well-formed memory *)

\* m is a record of the four fields, with a block_meta at each address of m.block.
IsMem(m) ==
    /\ m = [start |-> m.start, brk |-> m.brk, block |-> m.block, data |-> m.data]
    /\ m.block = [a \in DOMAIN m.block |-> m.block[a]]
    /\ \A a \in DOMAIN m.block : m.block[a] =
           Block(m.block[a].status, m.block[a].size, m.block[a].prev, m.block[a].next)
    /\ m.data = [x \in DOMAIN m.data |-> m.data[x]]

\* Of the addresses H, b is the next after a, or is NULL since a is the last.
After(H, a, b) ==
    IF b = NULL THEN \A c \in H : c <= a
    ELSE b \in H /\ a < b /\ \A c \in H : c <= a \/ b <= c

Before(H, a, b) ==
    IF b = NULL THEN \A c \in H : a <= c
    ELSE b \in H /\ b < a /\ \A c \in H : c <= b \/ a <= c

\* The list runs through the blocks of the heap in the order of their addresses.
Linked(m) == \A a \in HeapBlocks(m) :
    /\ After(HeapBlocks(m), a, m.block[a].next)
    /\ Before(HeapBlocks(m), a, m.block[a].prev)

\* The blocks do not overlap, and lie between HeapBase and the break.
Placed(m) ==
    /\ m.brk \in Nat /\ Aligned(m.brk) /\ HeapBase <= m.brk
    /\ \A a \in MapAddresses : m.brk < a
    /\ \A a \in HeapBlocks(m) :
           a \in Nat /\ Aligned(a) /\ HeapBase <= a /\ a + METADATA_SIZE <= m.brk
    /\ \A a, b \in HeapBlocks(m) : a < b => a + METADATA_SIZE <= b

Mapped(m) == \A a \in DOMAIN m.block :
    m.block[a].status = "MAPPED" => a \in MapAddresses /\ m.block[a].size \in Sizes

\* heap_start without a block is left behind when the first sbrk fails.
Started(m) ==
    IF HeapBlocks(m) = {} THEN m.start \in {NULL, HeapBase} /\ m.brk = HeapBase
    ELSE m.start = HeapBase /\ HeapBase \in HeapBlocks(m)

IsFree(m, a) == a # NULL /\ m.block[a].status = "FREE"

\* What is recorded of a block: of a free one its whole size, and the next is not free.
SizedAt(m, a) ==
    /\ m.block[a].status \in {"FREE", "ALLOC"}
    /\ m.block[a].size \in Nat
    /\ m.block[a].size <= get_block_size(m, a)
    /\ m.block[a].status = "FREE" =>
           m.block[a].size = get_block_size(m, a) /\ ~IsFree(m, m.block[a].next)

Sized(m) == \A a \in HeapBlocks(m) : SizedAt(m, a)

Good(m) == Linked(m) /\ Placed(m) /\ Mapped(m) /\ Started(m) /\ Sized(m)

\* The null pointer is below every block.
LEMMA NullIsLow == ASSUME NEW m, Placed(m) PROVE NULL \in Int /\ \A a \in HeapBlocks(m) : NULL < a
  BY Constants DEF Placed, NULL

LEMMA NullIsNoBlock == ASSUME NEW m, Placed(m) PROVE NULL \notin HeapBlocks(m)
  BY NullIsLow DEF Placed

\* A block reaches to the next one, or to the break, and has a size.
LEMMA BlockReaches ==
    ASSUME NEW m, Linked(m), Placed(m), NEW a \in HeapBlocks(m)
    PROVE  /\ a \in Nat /\ m.block[a].next \in HeapBlocks(m) \cup {NULL}
           /\ EndOf(m, m.block[a].next) \in Nat
           /\ a + METADATA_SIZE <= EndOf(m, m.block[a].next)
           /\ get_block_size(m, a) = EndOf(m, m.block[a].next) - a - METADATA_SIZE
           /\ get_block_size(m, a) \in Nat
  <1> DEFINE b == m.block[a].next
  <1>1. After(HeapBlocks(m), a, b)
    BY DEF Linked
  <1>2. a \in Nat /\ m.brk \in Nat /\ a + METADATA_SIZE <= m.brk
    BY DEF Placed
  <1>3. b # NULL => b \in HeapBlocks(m) /\ b \in Nat /\ a < b /\ a + METADATA_SIZE <= b
    BY <1>1 DEF After, Placed
  <1>4. get_block_size(m, a) = EndOf(m, b) - a - METADATA_SIZE
    BY DEF get_block_size, Gap
  <1> HIDE DEF b
  <1>5. EndOf(m, b) \in Nat /\ a + METADATA_SIZE <= EndOf(m, b) /\ b \in HeapBlocks(m) \cup {NULL}
    BY <1>2, <1>3 DEF EndOf
  <1>6. \A e \in Nat : a + METADATA_SIZE <= e => e - a - METADATA_SIZE \in Nat
    BY <1>2, Constants
  <1> QED
    BY <1>2, <1>4, <1>5, <1>6 DEF b

\* Nothing lies between a block and the next.
LEMMA BlocksApart ==
    ASSUME NEW m, Linked(m), Placed(m), NEW a \in HeapBlocks(m), NEW c \in HeapBlocks(m), a < c
    PROVE  m.block[a].next # NULL /\ EndOf(m, m.block[a].next) <= c
  <1>1. After(HeapBlocks(m), a, m.block[a].next)
    BY DEF Linked
  <1>2. a \in Nat /\ c \in Nat
    BY DEF Placed
  <1> QED
    BY <1>1, <1>2 DEF After, EndOf

\* The block after a points back to a.
LEMMA PrevAndNext ==
    ASSUME NEW m, Linked(m), Placed(m), NEW a \in HeapBlocks(m), m.block[a].next # NULL
    PROVE  m.block[m.block[a].next].prev = a
  <1> DEFINE H == HeapBlocks(m)
             b == m.block[a].next
             p == m.block[b].prev
  <1>1. b \in H /\ a < b /\ \A c \in H : c <= a \/ b <= c
    BY DEF Linked, After
  <1>2. p = NULL \/ p \in H
    BY <1>1 DEF Linked, Before
  <1>3. IF p = NULL THEN \A c \in H : b <= c ELSE p < b /\ \A c \in H : c <= p \/ b <= c
    BY <1>1 DEF Linked, Before
  <1>4. \A c \in H : c \in Nat
    BY DEF Placed
  <1> HIDE DEF b, p, H
  <1>5. a \in H
    BY DEF H
  <1>6. p # NULL
    BY <1>1, <1>3, <1>4, <1>5
  <1>7. p = a
    BY <1>1, <1>2, <1>3, <1>4, <1>5, <1>6
  <1> QED
    BY <1>7 DEF b, p

\* The block before a points on to a.
LEMMA NextOfPrev ==
    ASSUME NEW m, Linked(m), Placed(m), NEW a \in HeapBlocks(m), m.block[a].prev # NULL
    PROVE  /\ m.block[a].prev \in HeapBlocks(m) /\ m.block[a].prev < a
           /\ m.block[m.block[a].prev].next = a
  <1> DEFINE H == HeapBlocks(m)
             b == m.block[a].prev
             p == m.block[b].next
  <1>1. b \in H /\ b < a /\ \A c \in H : c <= b \/ a <= c
    BY DEF Linked, Before
  <1>2. p = NULL \/ p \in H
    BY <1>1 DEF Linked, After
  <1>3. IF p = NULL THEN \A c \in H : c <= b ELSE b < p /\ \A c \in H : c <= b \/ p <= c
    BY <1>1 DEF Linked, After
  <1>4. \A c \in H : c \in Nat
    BY DEF Placed
  <1> HIDE DEF b, p, H
  <1>5. a \in H
    BY DEF H
  <1>6. p # NULL
    BY <1>1, <1>3, <1>4, <1>5
  <1>7. p = a
    BY <1>1, <1>2, <1>3, <1>4, <1>5, <1>6
  <1> QED
    BY <1>1, <1>7 DEF b, p, H

-----------------------------------------------------------------------------
(* A splice of the list                                                      *)

\* In r the blocks of m between a and end (to the break, if end is NULL) have
\* made way for a block new, or for none if it is NULL.
Splices(m, r, a, end, new) ==
    /\ a \in HeapBlocks(m)
    /\ end # NULL => end \in HeapBlocks(m) /\ a < end
    /\ new # NULL => new \in Nat /\ a < new /\ (end # NULL => new < end)
    /\ NULL \notin HeapBlocks(r)
    /\ \A x \in HeapBlocks(r) : x # new =>
           x \in HeapBlocks(m) /\ (x <= a \/ (end # NULL /\ end <= x))
    /\ \A x \in HeapBlocks(m) : x <= a \/ (end # NULL /\ end <= x) => x \in HeapBlocks(r)
    /\ \A x \in HeapBlocks(r) : x # new =>
           /\ r.block[x].next = IF x = a THEN IF new = NULL THEN end ELSE new ELSE m.block[x].next
           /\ r.block[x].prev = IF x = end THEN IF new = NULL THEN a ELSE new ELSE m.block[x].prev
    /\ new # NULL => new \in HeapBlocks(r) /\ r.block[new].next = end /\ r.block[new].prev = a

\* What is not spliced stays as it is recorded.
Keeps(m, r, S) ==
    /\ r.start = m.start
    /\ \A x \in HeapBlocks(r) : x \notin S =>
           r.block[x].status = m.block[x].status /\ r.block[x].size = m.block[x].size
    /\ \A x : x \in DOMAIN r.block /\ r.block[x].status = "MAPPED" <=>
              x \in DOMAIN m.block /\ m.block[x].status = "MAPPED"
    /\ \A x \in DOMAIN m.block : m.block[x].status = "MAPPED" => r.block[x].size = m.block[x].size

\* The list is still a list after a splice.
LEMMA SpliceLinks ==
    ASSUME NEW m, NEW r, NEW a, NEW end, NEW new, Linked(m), Placed(m), Splices(m, r, a, end, new)
    PROVE  Linked(r)
  <1> DEFINE H == HeapBlocks(m)
             K == HeapBlocks(r)
  <1>1. \A c \in H : c \in Nat /\ c # NULL
    BY NullIsNoBlock DEF Placed
  <1>2. /\ a \in H
        /\ end # NULL => end \in H /\ a < end /\ end \in K
        /\ new # NULL => new \in Nat /\ a < new /\ (end # NULL => new < end) /\ new \in K
    BY <1>1 DEF Splices
  <1>3. \A x \in K : x # new => x \in H /\ (x <= a \/ (end # NULL /\ end <= x))
    BY DEF Splices
  <1>4. \A x \in H : x <= a \/ (end # NULL /\ end <= x) => x \in K
    BY DEF Splices
  <1>0. /\ Splices(m, r, a, end, new) => \A x \in K : x # new =>
              /\ r.block[x].next = IF x = a THEN IF new = NULL THEN end ELSE new ELSE m.block[x].next
              /\ r.block[x].prev = IF x = end THEN IF new = NULL THEN a ELSE new ELSE m.block[x].prev
        /\ Splices(m, r, a, end, new) => (new # NULL => r.block[new].next = end /\ r.block[new].prev = a)
        /\ Linked(m) => \A x \in H : After(H, x, m.block[x].next) /\ Before(H, x, m.block[x].prev)
        /\ (\A x \in K : After(K, x, r.block[x].next) /\ Before(K, x, r.block[x].prev)) => Linked(r)
    BY DEF Splices, Linked
  <1> HIDE DEF H, K
  <1>5. a \in K /\ a \in Nat /\ (end # NULL => end \in Nat)
    <2>1. a \in Nat /\ (end # NULL => end \in Nat)
      BY <1>1, <1>2
    <2>2. a <= a
      BY <2>1
    <2> QED
      BY <1>2, <1>4, <2>1, <2>2
  <1>6. \A x \in K : x # NULL /\ x \in Nat
    <2>1. NULL \notin K
      BY DEF Splices, K
    <2> QED
      BY <1>1, <1>2, <1>3, <2>1
  <1>7. ASSUME NEW x \in K PROVE After(K, x, r.block[x].next) /\ Before(K, x, r.block[x].prev)
    <2>1. CASE x = new
      <3>1. new # NULL /\ r.block[x].next = end /\ r.block[x].prev = a
        BY <1>0, <1>6, <2>1
      <3>2. After(K, new, end)
        BY <1>1, <1>2, <1>3, <3>1 DEF After
      <3>3. Before(K, new, a)
        BY <1>1, <1>2, <1>3, <1>5, <3>1 DEF Before
      <3> QED
        BY <2>1, <3>1, <3>2, <3>3
    <2>2. CASE x # new
      <3>1. x \in H /\ x \in Nat /\ (x <= a \/ (end # NULL /\ end <= x))
        BY <1>1, <1>3, <2>2
      <3>2. After(H, x, m.block[x].next) /\ Before(H, x, m.block[x].prev)
        BY <1>0, <3>1
      <3>3. r.block[x].next = IF x = a THEN IF new = NULL THEN end ELSE new ELSE m.block[x].next
        BY <1>0, <2>2
      <3>4. r.block[x].prev = IF x = end THEN IF new = NULL THEN a ELSE new ELSE m.block[x].prev
        BY <1>0, <2>2
      <3>5. CASE x = a
        <4>1. After(K, x, r.block[x].next)
          BY <1>1, <1>2, <1>3, <1>6, <3>3, <3>5 DEF After
        <4> QED
          <5>1. x # end
            BY <1>1, <1>2, <3>5
          <5>2. Before(K, x, m.block[x].prev)
            <6>1. m.block[x].prev # NULL => m.block[x].prev \in K
              BY <1>1, <1>4, <1>5, <3>2, <3>5 DEF Before
            <6> QED
              BY <1>1, <1>2, <1>3, <1>6, <3>2, <3>5, <6>1 DEF Before
          <5> QED
            BY <3>4, <4>1, <5>1, <5>2
      <3>6. CASE x = end /\ x # a
        <4>1. Before(K, x, r.block[x].prev)
          BY <1>1, <1>2, <1>3, <1>5, <1>6, <3>4, <3>6 DEF Before
        <4>2. After(K, x, m.block[x].next)
          <5>1. m.block[x].next # NULL => m.block[x].next \in K
            BY <1>1, <1>2, <1>4, <1>6, <3>2, <3>6 DEF After
          <5> QED
            BY <1>1, <1>2, <1>3, <1>6, <3>2, <3>6, <5>1 DEF After
        <4> QED
          BY <3>3, <3>6, <4>1, <4>2
      <3>7. CASE x # end /\ x # a /\ x < a
        <4>2. m.block[x].next \in H /\ m.block[x].next # NULL /\ m.block[x].next <= a
          BY <1>1, <1>2, <1>5, <3>1, <3>2, <3>7 DEF After
        <4>1. /\ m.block[x].next \in K
              /\ m.block[x].prev # NULL => m.block[x].prev \in K
          <5>1. m.block[x].prev # NULL => m.block[x].prev \in H /\ m.block[x].prev < x
            BY <3>2 DEF Before
          <5>2. m.block[x].prev # NULL => m.block[x].prev <= a
            <6>1. x \in Nat /\ a \in Nat /\ x < a
              BY <1>1, <1>5, <3>1, <3>7
            <6>2. m.block[x].prev # NULL => m.block[x].prev \in Nat
              BY <1>1, <5>1
            <6> HIDE DEF H, K
            <6> QED
              BY <5>1, <6>1, <6>2
          <5> QED
            BY <1>4, <4>2, <5>1, <5>2
        <4>3. After(K, x, m.block[x].next)
          <5>1. x < m.block[x].next /\ \A c \in H : c <= x \/ m.block[x].next <= c
            BY <3>2, <4>2 DEF After
          <5>2. m.block[x].next \in Nat
            BY <1>1, <4>2
          <5>3. \A c \in K : c <= x \/ m.block[x].next <= c
            BY <1>2, <1>3, <1>5, <1>6, <3>1, <4>2, <5>1, <5>2
          <5> QED
            BY <4>1, <4>2, <5>1, <5>3 DEF After
        <4>4. Before(K, x, m.block[x].prev)
          BY <1>1, <1>2, <1>3, <1>6, <3>1, <3>2, <3>7, <4>1 DEF Before
        <4> QED
          BY <3>3, <3>4, <3>7, <4>3, <4>4
      <3>8. CASE x # end /\ x # a /\ end # NULL /\ end < x
        <4>1. m.block[x].prev # NULL /\ end <= m.block[x].prev
          BY <1>1, <1>2, <1>5, <3>1, <3>2, <3>8 DEF Before
        <4>2. /\ m.block[x].next # NULL => m.block[x].next \in K
              /\ m.block[x].prev \in H /\ m.block[x].prev \in K
          <5>1. m.block[x].next # NULL => m.block[x].next \in H /\ x < m.block[x].next
            BY <3>2 DEF After
          <5>2. m.block[x].next # NULL => end <= m.block[x].next
            <6>1. x \in Nat /\ end \in Nat /\ end < x
              BY <1>5, <3>1, <3>8
            <6>2. m.block[x].next # NULL => m.block[x].next \in Nat
              BY <1>1, <5>1
            <6> QED
              BY <5>1, <6>1, <6>2
          <5>3. m.block[x].prev \in H
            BY <3>2, <4>1 DEF Before
          <5> QED
            BY <1>4, <3>8, <4>1, <5>1, <5>2, <5>3
        <4>3. After(K, x, m.block[x].next)
          BY <1>1, <1>2, <1>3, <1>5, <1>6, <3>1, <3>2, <3>8, <4>2 DEF After
        <4>4. Before(K, x, m.block[x].prev)
          <5>1. m.block[x].prev < x /\ \A c \in H : c <= m.block[x].prev \/ x <= c
            BY <3>2, <4>1 DEF Before
          <5>2. m.block[x].prev \in Nat
            BY <1>1, <4>2
          <5>3. \A c \in K : c <= m.block[x].prev \/ x <= c
            BY <1>2, <1>3, <1>5, <1>6, <3>1, <3>8, <4>1, <5>1, <5>2
          <5> QED
            BY <4>1, <4>2, <5>1, <5>3 DEF Before
        <4> QED
          BY <3>3, <3>4, <3>8, <4>3, <4>4
      <3> QED
        BY <1>1, <1>2, <1>5, <3>1, <3>5, <3>6, <3>7, <3>8
    <2> QED
      BY <2>1, <2>2
  <1> QED
    BY <1>0, <1>7

\* Where the break is after a splice, and where the new block lies.
Fits(m, r, a, end, new) ==
    /\ r.brk \in Nat /\ Aligned(r.brk) /\ m.brk <= r.brk
    /\ \A x \in MapAddresses : r.brk < x
    /\ end # NULL => r.brk = m.brk
    /\ new # NULL => /\ Aligned(new) /\ a + METADATA_SIZE <= new
                     /\ new + METADATA_SIZE <= EndOf(r, end)

\* A splice leaves the room of the other blocks as it was.
LEMMA SpliceRooms ==
    ASSUME NEW m, NEW r, NEW a, NEW end, NEW new, Linked(m), Placed(m), Splices(m, r, a, end, new),
           Fits(m, r, a, end, new), NEW x \in HeapBlocks(r), x # a, x # new
    PROVE  /\ r.block[x].next = m.block[x].next
           /\ get_block_size(r, x) = get_block_size(m, x)
  <1> DEFINE b == m.block[x].next
  <1>1. r.block[x].next = b
    BY DEF Splices
  <1>2. x \in HeapBlocks(m) /\ (x <= a \/ (end # NULL /\ end <= x)) /\ a \in HeapBlocks(m)
    BY DEF Splices
  <1>3. x \in Nat /\ a \in Nat
    BY <1>2 DEF Placed
  <1>4. b = NULL => r.brk = m.brk
    <2>1. CASE x < a
      BY <1>2, <2>1, BlocksApart
    <2>2. CASE end # NULL
      BY <2>2 DEF Fits
    <2> QED
      BY <1>2, <1>3, <2>1, <2>2
  <1> HIDE DEF b
  <1>5. EndOf(r, b) = EndOf(m, b)
    BY <1>4 DEF EndOf
  <1>6. get_block_size(r, x) = EndOf(r, b) - x - METADATA_SIZE
    BY <1>1 DEF get_block_size, Gap
  <1>7. get_block_size(m, x) = EndOf(m, b) - x - METADATA_SIZE
    BY DEF get_block_size, Gap, b
  <1> QED
    BY <1>1, <1>5, <1>6, <1>7 DEF b

\* The blocks still lie apart, between the base and the break.
LEMMA SplicePlaces ==
    ASSUME NEW m, NEW r, NEW a, NEW end, NEW new, Linked(m), Placed(m), Splices(m, r, a, end, new),
           Fits(m, r, a, end, new)
    PROVE  Placed(r)
  <1> DEFINE H == HeapBlocks(m)
             K == HeapBlocks(r)
  <1>1. /\ a \in H
        /\ end # NULL => end \in H /\ a < end
        /\ new # NULL => new \in Nat /\ a < new /\ (end # NULL => new < end)
        /\ NULL \notin K
        /\ \A x \in K : x # new => x \in H /\ (x <= a \/ (end # NULL /\ end <= x))
    BY DEF Splices
  <1>2. /\ m.brk \in Nat /\ HeapBase <= m.brk
        /\ \A x \in H : x \in Nat /\ Aligned(x) /\ HeapBase <= x /\ x + METADATA_SIZE <= m.brk
        /\ \A x, y \in H : x < y => x + METADATA_SIZE <= y
    BY DEF Placed
  <1>3. /\ r.brk \in Nat /\ Aligned(r.brk) /\ m.brk <= r.brk
        /\ \A x \in MapAddresses : r.brk < x
        /\ new # NULL => /\ Aligned(new) /\ a + METADATA_SIZE <= new
                         /\ new + METADATA_SIZE <= IF end = NULL THEN r.brk ELSE end
    BY DEF Fits, EndOf
  <1>4. METADATA_SIZE \in Nat /\ METADATA_SIZE > 0 /\ HeapBase \in Nat
    BY Constants
  <1> HIDE DEF H, K
  <1>5. HeapBase <= r.brk
    BY <1>2, <1>3, <1>4
  <1>6. ASSUME NEW x \in K
        PROVE  x \in Nat /\ Aligned(x) /\ HeapBase <= x /\ x + METADATA_SIZE <= r.brk
    <2>1. CASE x # new
      <3>1. x \in Nat /\ Aligned(x) /\ HeapBase <= x /\ x + METADATA_SIZE <= m.brk
        BY <1>1, <1>2, <2>1
      <3> QED
        BY <1>2, <1>3, <1>4, <3>1
    <2>2. CASE x = new
      <3>1. new # NULL
        BY <1>1, <2>2
      <3>2. new \in Nat /\ Aligned(new) /\ a < new /\ a \in Nat /\ HeapBase <= a
        BY <1>1, <1>2, <1>3, <3>1
      <3>3. new + METADATA_SIZE <= r.brk
        <4>1. CASE end = NULL
          BY <1>3, <3>1, <4>1
        <4>2. CASE end # NULL
          <5>1. end \in Nat /\ end + METADATA_SIZE <= m.brk
            BY <1>1, <1>2, <4>2
          <5>2. new + METADATA_SIZE <= end
            BY <1>3, <3>1, <4>2
          <5> QED
            BY <1>2, <1>3, <1>4, <3>2, <5>1, <5>2
        <4> QED
          BY <4>1, <4>2
      <3>4. HeapBase <= new
        BY <1>4, <3>2
      <3> QED
        BY <2>2, <3>2, <3>3, <3>4
    <2> QED
      BY <2>1, <2>2
  <1>7. ASSUME NEW x \in K, NEW y \in K, x < y
        PROVE  x + METADATA_SIZE <= y
    <2>1. CASE x # new /\ y # new
      BY <1>1, <1>2, <1>7, <2>1
    <2>2. CASE x = new /\ y # new
      <3>1. new # NULL /\ new \in Nat /\ a < new
        BY <1>1, <2>2
      <3>2. y \in H /\ y \in Nat /\ (y <= a \/ (end # NULL /\ end <= y))
        BY <1>1, <1>2, <2>2
      <3>3. a \in Nat /\ end # NULL /\ end <= y /\ end \in Nat
        <4>1. a \in Nat
          BY <1>1, <1>2
        <4>2. ~(y <= a)
          BY <1>7, <2>2, <3>1, <3>2, <4>1
        <4> QED
          BY <1>1, <1>2, <3>2, <4>1, <4>2
      <3>4. new + METADATA_SIZE <= end
        BY <1>3, <3>1, <3>3
      <3> QED
        BY <1>4, <2>2, <3>1, <3>2, <3>3, <3>4
    <2>3. CASE x # new /\ y = new
      <3>1. new # NULL /\ new \in Nat /\ a < new /\ a \in Nat /\ a + METADATA_SIZE <= new
        BY <1>1, <1>2, <1>3, <2>3
      <3>2. x \in H /\ x \in Nat /\ (x <= a \/ (end # NULL /\ end <= x))
        BY <1>1, <1>2, <2>3
      <3>3. x <= a
        <4>1. end # NULL => end \in Nat /\ new < end
          BY <1>1, <1>2, <3>1
        <4> QED
          BY <1>7, <2>3, <3>1, <3>2, <4>1
      <3>4. x = a \/ x + METADATA_SIZE <= a
        BY <1>1, <1>2, <3>1, <3>2, <3>3
      <3> QED
        BY <1>4, <2>3, <3>1, <3>2, <3>4
    <2>4. CASE x = new /\ y = new
      <3>1. x \in Nat
        BY <1>6
      <3> QED
        BY <1>7, <2>4, <3>1
    <2> QED
      BY <2>1, <2>2, <2>3, <2>4
  <1> QED
    BY <1>3, <1>5, <1>6, <1>7 DEF Placed, K

\* A heap that is spliced with blocks of the right sizes is a good heap.
LEMMA SpliceIsGood ==
    ASSUME NEW m, NEW r, NEW a, NEW end, NEW new, Good(m), Splices(m, r, a, end, new),
           Fits(m, r, a, end, new), Keeps(m, r, {a, new}), SizedAt(r, a),
           new # NULL => SizedAt(r, new),
           IsFree(m, m.block[a].prev) => r.block[a].status # "FREE"
    PROVE  Good(r)
  <1>1. Linked(m) /\ Placed(m) /\ Mapped(m) /\ Started(m) /\ Sized(m)
    BY DEF Good
  <1>2. Linked(r)
    BY <1>1, SpliceLinks
  <1>3. Placed(r)
    BY <1>1, SplicePlaces
  <1>4. Mapped(r)
    BY <1>1 DEF Mapped, Keeps
  <1>5. a \in HeapBlocks(m) /\ a \in Nat
    BY <1>1 DEF Splices, Placed
  <1>6. Started(r)
    <2>1. m.start = HeapBase /\ HeapBase \in HeapBlocks(m) /\ HeapBase <= a
      BY <1>1, <1>5 DEF Started, Placed
    <2>2. HeapBase \in HeapBlocks(r)
      BY <2>1 DEF Splices
    <2> QED
      BY <2>1, <2>2 DEF Started, Keeps
  <1>7. ASSUME NEW x \in HeapBlocks(r) PROVE SizedAt(r, x)
    <2>1. CASE x = a
      BY <2>1
    <2>2. CASE x = new
      BY <2>2 DEF Splices
    <2>3. CASE x # a /\ x # new
      <3>1. x \in HeapBlocks(m) /\ SizedAt(m, x)
        BY <1>1, <2>3 DEF Splices, Sized
      <3>2. r.block[x].status = m.block[x].status /\ r.block[x].size = m.block[x].size
        BY <2>3 DEF Keeps
      <3>3. r.block[x].next = m.block[x].next /\ get_block_size(r, x) = get_block_size(m, x)
        BY <1>1, <2>3, SpliceRooms
      <3>4. ASSUME m.block[x].status = "FREE" PROVE ~IsFree(r, m.block[x].next)
        <4> DEFINE b == m.block[x].next
        <4>1. ~IsFree(m, b)
          BY <3>1, <3>4 DEF SizedAt
        <4>2. CASE b = NULL
          BY <4>2 DEF IsFree
        <4>3. CASE b # NULL
          <5>1. b \in HeapBlocks(r)
            BY <1>2, <3>3, <4>3 DEF Linked, After
          <5>2. CASE b = a
            <6>1. m.block[a].prev = x
              BY <1>1, <3>1, <4>3, <5>2, PrevAndNext
            <6>2. IsFree(m, x)
              BY <1>3, <3>4, NullIsNoBlock DEF IsFree
            <6> QED
              BY <5>2, <6>1, <6>2 DEF IsFree
          <5>3. b # new \/ b = a
            <6>1. SUFFICES ASSUME b = new, b # a PROVE FALSE
              OBVIOUS
            <6>2. r.block[b].prev = a
              BY <4>3, <6>1 DEF Splices
            <6>3. r.block[b].prev = x
              BY <1>2, <1>3, <3>3, <4>3, PrevAndNext
            <6> QED
              BY <2>3, <6>2, <6>3
          <5>4. CASE b # a /\ b # new
            <6>1. r.block[b].status = m.block[b].status
              BY <5>1, <5>4 DEF Keeps
            <6> QED
              BY <4>1, <4>3, <6>1 DEF IsFree
          <5> QED
            BY <5>2, <5>3, <5>4
        <4> QED
          BY <4>2, <4>3
      <3> QED
        BY <3>1, <3>2, <3>3, <3>4 DEF SizedAt
    <2> QED
      BY <2>1, <2>2, <2>3
  <1> QED
    BY <1>2, <1>3, <1>4, <1>6, <1>7 DEF Good, Sized

-----------------------------------------------------------------------------
(* What the operators on the memory change                                   *)

\* r is a well-formed memory with the block_metas of m but for those of S.
Rewrites(m, r, S) ==
    /\ IsMem(r) /\ r.start = m.start
    /\ \A x \in DOMAIN r.block : x \notin S => x \in DOMAIN m.block /\ r.block[x] = m.block[x]
    /\ \A x \in DOMAIN m.block : x \notin S => x \in DOMAIN r.block

\* r has b at a besides, or instead of what m has there.
Writes(m, r, a, b) ==
    /\ Rewrites(m, r, {a}) /\ r.brk = m.brk
    /\ DOMAIN r.block = DOMAIN m.block \cup {a} /\ r.block[a] = b

\* The fields of a block.
LEMMA BlockFields ==
    ASSUME NEW status, NEW size, NEW prev, NEW next
    PROVE  /\ Block(status, size, prev, next).status = status
           /\ Block(status, size, prev, next).size = size
           /\ Block(status, size, prev, next).prev = prev
           /\ Block(status, size, prev, next).next = next
  BY DEF Block

\* m with b at address a.
Written(m, a, b) == [m EXCEPT !.block = [x \in DOMAIN m.block \cup {a} |->
                                            IF x \in {a} THEN b ELSE m.block[x]]]

\* Writing one block_meta changes that one only.
LEMMA RewriteBlock ==
    ASSUME NEW m, IsMem(m), NEW a, NEW status, NEW size, NEW prev, NEW next,
           NEW r, r = Written(m, a, Block(status, size, prev, next))
    PROVE  Writes(m, r, a, Block(status, size, prev, next)) /\ r.data = m.data
  <1>1. m = [start |-> m.start, brk |-> m.brk, block |-> m.block, data |-> m.data]
    BY DEF IsMem
  <1> DEFINE B == [x \in DOMAIN m.block \cup {a} |->
                      IF x \in {a} THEN Block(status, size, prev, next) ELSE m.block[x]]
  <1>2. /\ DOMAIN B = DOMAIN m.block \cup {a} /\ B[a] = Block(status, size, prev, next)
        /\ \A x \in DOMAIN m.block : x # a => B[x] = m.block[x]
        /\ B = [x \in DOMAIN B |-> B[x]]
    OBVIOUS
  <1>3. \A x \in DOMAIN B : B[x] = Block(B[x].status, B[x].size, B[x].prev, B[x].next)
    <2>1. \A x \in DOMAIN m.block : m.block[x] =
              Block(m.block[x].status, m.block[x].size, m.block[x].prev, m.block[x].next)
      BY DEF IsMem
    <2>2. B[a] = Block(B[a].status, B[a].size, B[a].prev, B[a].next)
      BY <1>2, BlockFields
    <2> HIDE DEF B
    <2> QED
      BY <1>2, <2>1, <2>2
  <1> HIDE DEF B
  <1>4. r = [start |-> m.start, brk |-> m.brk, block |-> B, data |-> m.data]
    BY <1>1 DEF B, Written
  <1>5. /\ r.start = m.start /\ r.brk = m.brk /\ r.block = B /\ r.data = m.data
        /\ r = [start |-> r.start, brk |-> r.brk, block |-> r.block, data |-> r.data]
    BY <1>4
  <1>6. IsMem(r)
    BY <1>2, <1>3, <1>5 DEF IsMem
  <1> QED
    BY <1>2, <1>5, <1>6 DEF Rewrites, Writes

\* Forgetting bytes changes no block.
LEMMA WipeIs ==
    ASSUME NEW m, IsMem(m), NEW a, NEW n
    PROVE  LET r == Wipe(m, a, n) IN
           /\ IsMem(r) /\ r.start = m.start /\ r.brk = m.brk /\ r.block = m.block
           /\ r.data = Restrict(m.data, DOMAIN m.data \ Bytes(a, n))
  <1> DEFINE D == Restrict(m.data, DOMAIN m.data \ Bytes(a, n))
             r == Wipe(m, a, n)
  <1>1. D = [x \in DOMAIN D |-> D[x]]
    BY DEF Restrict
  <1>2. m = [start |-> m.start, brk |-> m.brk, block |-> m.block, data |-> m.data]
    BY DEF IsMem
  <1>3. r = [m EXCEPT !.data = D]
    BY DEF Wipe
  <1> HIDE DEF D, r
  <1>4. r = [start |-> m.start, brk |-> m.brk, block |-> m.block, data |-> D]
    BY <1>2, <1>3
  <1>5. /\ r.start = m.start /\ r.brk = m.brk /\ r.block = m.block /\ r.data = D
        /\ r = [start |-> r.start, brk |-> r.brk, block |-> r.block, data |-> r.data]
    BY <1>4
  <1>6. IsMem(r)
    BY <1>1, <1>5 DEF IsMem
  <1> QED
    BY <1>5, <1>6 DEF D, r

\* r is m with b at address a, where the bytes were that b takes.
Puts(m, r, a, b) ==
    /\ Writes(m, r, a, b)
    /\ r.data = Restrict(m.data, DOMAIN m.data \ Bytes(a, METADATA_SIZE))

\* A new block_meta, and the bytes it takes.
LEMMA PutBlockIs ==
    ASSUME NEW m, IsMem(m), NEW a, NEW status, NEW size, NEW prev, NEW next
    PROVE  Puts(m, PutBlock(m, a, Block(status, size, prev, next)), a, Block(status, size, prev, next))
  <1> DEFINE b == [m EXCEPT !.block = Put(m.block, {a}, Block(status, size, prev, next))]
             r == PutBlock(m, a, Block(status, size, prev, next))
  <1>1. Writes(m, b, a, Block(status, size, prev, next)) /\ b.data = m.data
    <2>1. b = Written(m, a, Block(status, size, prev, next))
      BY DEF Put, Written
    <2> HIDE DEF b
    <2> QED
      BY <2>1, RewriteBlock
  <1>2. r = Wipe(b, a, METADATA_SIZE)
    BY DEF PutBlock
  <1>3. IsMem(b)
    BY <1>1 DEF Rewrites, Writes
  <1> HIDE DEF b, r
  <1>4. /\ IsMem(r) /\ r.start = b.start /\ r.brk = b.brk /\ r.block = b.block
        /\ r.data = Restrict(b.data, DOMAIN b.data \ Bytes(a, METADATA_SIZE))
    BY <1>2, <1>3, WipeIs
  <1> QED
    BY <1>1, <1>4 DEF Puts, Rewrites, Writes, r

\* The same, of a block whose fields are not named.
LEMMA PutAnyBlock ==
    ASSUME NEW m, IsMem(m), NEW a, NEW b, b = Block(b.status, b.size, b.prev, b.next)
    PROVE  LET r == PutBlock(m, a, b) IN
           /\ Writes(m, r, a, b)
           /\ r.data = Restrict(m.data, DOMAIN m.data \ Bytes(a, METADATA_SIZE))
  <1>1. PICK status, size, prev, next : b = Block(status, size, prev, next)
    OBVIOUS
  <1> QED
    BY <1>1, PutBlockIs DEF Puts

\* An update of one block_meta.
LEMMA UpdateBlock ==
    ASSUME NEW m, IsMem(m), NEW r, NEW a \in DOMAIN m.block,
           NEW status, NEW size, NEW prev, NEW next,
           r = [m EXCEPT !.block[a] = Block(status, size, prev, next)]
    PROVE  Writes(m, r, a, Block(status, size, prev, next)) /\ r.data = m.data
  <1>1. m.block = [x \in DOMAIN m.block |-> m.block[x]]
    BY DEF IsMem
  <1>2. r = [m EXCEPT !.block = [m.block EXCEPT ![a] = Block(status, size, prev, next)]]
    OBVIOUS
  <1>3. [m.block EXCEPT ![a] = Block(status, size, prev, next)] =
            [x \in DOMAIN m.block \cup {a} |->
                IF x \in {a} THEN Block(status, size, prev, next) ELSE m.block[x]]
    BY <1>1
  <1>4. DOMAIN m.block = DOMAIN m.block \cup {a}
    OBVIOUS
  <1>5. r = Written(m, a, Block(status, size, prev, next))
    BY <1>2, <1>3 DEF Written
  <1> QED
    BY <1>4, <1>5, RewriteBlock

\* The small writes: a size, a pointer, a link, a status, the break.
LEMMA SetSizeIs ==
    ASSUME NEW m, IsMem(m), NEW a \in DOMAIN m.block, NEW size
    PROVE  LET b == m.block[a]
               r == SetSize(m, a, size)
           IN  Writes(m, r, a, Block(b.status, size, b.prev, b.next)) /\ r.data = m.data
  <1> DEFINE b == m.block[a]
  <1>0. b = Block(b.status, b.size, b.prev, b.next)
    BY DEF IsMem
  <1>1. SetSize(m, a, size) = [m EXCEPT !.block[a] = Block(b.status, size, b.prev, b.next)]
    <2>1. SetSize(m, a, size) = [m EXCEPT !.block[a] = [b EXCEPT !.size = size]]
      BY DEF SetSize
    <2> HIDE DEF b
    <2>2. [b EXCEPT !.size = size] = Block(b.status, size, b.prev, b.next)
      BY <1>0 DEF Block
    <2> QED
      BY <2>1, <2>2 DEF b
  <1> QED
    BY <1>1, UpdateBlock

LEMMA SetPrevIs ==
    ASSUME NEW m, IsMem(m), NEW a \in DOMAIN m.block, a # NULL, NEW prev
    PROVE  LET b == m.block[a]
               r == SetPrev(m, a, prev)
           IN  Writes(m, r, a, Block(b.status, b.size, prev, b.next)) /\ r.data = m.data
  <1> DEFINE b == m.block[a]
  <1>0. b = Block(b.status, b.size, b.prev, b.next)
    BY DEF IsMem
  <1>1. SetPrev(m, a, prev) = [m EXCEPT !.block[a] = Block(b.status, b.size, prev, b.next)]
    <2>1. SetPrev(m, a, prev) = [m EXCEPT !.block[a] = [b EXCEPT !.prev = prev]]
      BY DEF SetPrev
    <2> HIDE DEF b
    <2>2. [b EXCEPT !.prev = prev] = Block(b.status, b.size, prev, b.next)
      BY <1>0 DEF Block
    <2> QED
      BY <2>1, <2>2 DEF b
  <1> QED
    BY <1>1, UpdateBlock

LEMMA LinkToIs ==
    ASSUME NEW m, IsMem(m), NEW a \in DOMAIN m.block, NEW next
    PROVE  LET b == m.block[a]
               r == LinkTo(m, a, next)
           IN  Writes(m, r, a, Block(b.status, Gap(m, a, next), b.prev, next)) /\ r.data = m.data
  <1>1. LinkTo(m, a, next) =
            [m EXCEPT !.block[a] = Block(m.block[a].status, Gap(m, a, next), m.block[a].prev, next)]
    BY DEF LinkTo
  <1> QED
    BY <1>1, UpdateBlock

LEMMA InUseIs ==
    ASSUME NEW m, IsMem(m), NEW a \in DOMAIN m.block, NEW size
    PROVE  LET b == m.block[a]
               r == InUse(m, a, size)
           IN  Writes(m, r, a, Block("ALLOC", size, b.prev, b.next)) /\ r.data = m.data
  <1>1. InUse(m, a, size) =
            [m EXCEPT !.block[a] = Block("ALLOC", size, m.block[a].prev, m.block[a].next)]
    BY DEF InUse
  <1> QED
    BY <1>1, UpdateBlock

LEMMA DropBlocksIs ==
    ASSUME NEW m, IsMem(m), NEW S
    PROVE  LET r == DropBlocks(m, S) IN
           /\ Rewrites(m, r, S) /\ r.brk = m.brk /\ r.data = m.data
           /\ DOMAIN r.block = DOMAIN m.block \ S
  <1> DEFINE B == Restrict(m.block, DOMAIN m.block \ S)
             r == DropBlocks(m, S)
  <1>1. B = [x \in DOMAIN m.block \ S |-> m.block[x]]
    BY DEF Restrict
  <1>2. m = [start |-> m.start, brk |-> m.brk, block |-> m.block, data |-> m.data]
    BY DEF IsMem
  <1>3. r = [m EXCEPT !.block = B]
    BY DEF DropBlocks
  <1> HIDE DEF B, r
  <1>4. r = [start |-> m.start, brk |-> m.brk, block |-> B, data |-> m.data]
    BY <1>2, <1>3
  <1>5. /\ r.start = m.start /\ r.brk = m.brk /\ r.block = B /\ r.data = m.data
        /\ r = [start |-> r.start, brk |-> r.brk, block |-> r.block, data |-> r.data]
    BY <1>4
  <1>6. /\ DOMAIN B = DOMAIN m.block \ S /\ \A x \in DOMAIN B : B[x] = m.block[x]
        /\ B = [x \in DOMAIN B |-> B[x]]
    BY <1>1
  <1>7. \A x \in DOMAIN B : B[x] = Block(B[x].status, B[x].size, B[x].prev, B[x].next)
    BY <1>6 DEF IsMem
  <1>8. IsMem(r)
    BY <1>5, <1>6, <1>7 DEF IsMem
  <1> QED
    BY <1>5, <1>6, <1>8 DEF Rewrites, r

LEMMA SbrkIs ==
    ASSUME NEW m, IsMem(m), NEW n
    PROVE  LET r == sbrk(m, n) IN
           /\ IsMem(r) /\ r.start = m.start /\ r.brk = m.brk + n
           /\ r.block = m.block /\ r.data = m.data
  <1> DEFINE r == sbrk(m, n)
             brk == m.brk + n
  <1>1. m = [start |-> m.start, brk |-> m.brk, block |-> m.block, data |-> m.data]
    BY DEF IsMem
  <1>2. r = [m EXCEPT !.brk = brk]
    BY DEF sbrk
  <1> HIDE DEF r, brk
  <1>3. r = [start |-> m.start, brk |-> brk, block |-> m.block, data |-> m.data]
    BY <1>1, <1>2
  <1>4. /\ r.start = m.start /\ r.brk = brk /\ r.block = m.block /\ r.data = m.data
        /\ r = [start |-> r.start, brk |-> r.brk, block |-> r.block, data |-> r.data]
    BY <1>3
  <1>5. IsMem(r)
    BY <1>4 DEF IsMem
  <1> QED
    BY <1>4, <1>5 DEF r, brk

-----------------------------------------------------------------------------
(* Merging                                                                   *)

\* Block a of m has been joined with its neighbour n, so that end is next.
Joined(m, r, a, n, end, size) ==
    /\ Rewrites(m, r, {a, n, end}) /\ r.brk = m.brk /\ r.data = m.data
    /\ DOMAIN r.block = DOMAIN m.block \ {n}
    /\ r.block[a] = Block(m.block[a].status, size, m.block[a].prev, end)
    /\ end # NULL =>
           r.block[end] = Block(m.block[end].status, m.block[end].size, a, m.block[end].next)

\* Two blocks joined are one block and a pointer back to it.
LEMMA JoinIs ==
    ASSUME NEW m, IsMem(m), NEW a \in DOMAIN m.block, NEW n, a # n, NEW end, NEW size,
           end = NULL \/ (end \in DOMAIN m.block /\ end # a /\ end # n), NULL \notin DOMAIN m.block,
           NEW l, Writes(m, l, a, Block(m.block[a].status, size, m.block[a].prev, end)),
           l.data = m.data
    PROVE  Joined(m, DropBlocks(SetPrev(l, end, a), {n}), a, n, end, size)
  <1> DEFINE s == SetPrev(l, end, a)
             r == DropBlocks(s, {n})
  <1>1. /\ IsMem(l) /\ l.start = m.start /\ l.brk = m.brk /\ DOMAIN l.block = DOMAIN m.block
        /\ l.block[a] = Block(m.block[a].status, size, m.block[a].prev, end)
        /\ \A x \in DOMAIN m.block : x # a => l.block[x] = m.block[x]
    BY DEF Writes, Rewrites
  <1>2. /\ IsMem(s) /\ s.start = m.start /\ s.brk = m.brk /\ s.data = m.data
        /\ DOMAIN s.block = DOMAIN m.block
        /\ \A x \in DOMAIN m.block : x # end => s.block[x] = l.block[x]
        /\ end # NULL => s.block[end] =
               Block(m.block[end].status, m.block[end].size, a, m.block[end].next)
    <2>1. CASE end = NULL
      <3>1. s = l
        BY <2>1 DEF SetPrev
      <3> HIDE DEF s
      <3> QED
        BY <1>1, <2>1, <3>1
    <2>2. CASE end # NULL
      <3>1. end \in DOMAIN l.block /\ l.block[end] = m.block[end]
        BY <1>1, <2>2
      <3>2. Writes(l, s, end, Block(l.block[end].status, l.block[end].size, a, l.block[end].next))
            /\ s.data = l.data
        BY <1>1, <2>2, <3>1, SetPrevIs
      <3> HIDE DEF s
      <3>3. /\ IsMem(s) /\ s.start = l.start /\ s.brk = l.brk
            /\ DOMAIN s.block = DOMAIN l.block \cup {end}
            /\ \A x \in DOMAIN l.block : x # end => s.block[x] = l.block[x]
            /\ s.block[end] = Block(l.block[end].status, l.block[end].size, a, l.block[end].next)
        BY <3>2 DEF Writes, Rewrites
      <3> QED
        BY <1>1, <2>2, <3>1, <3>2, <3>3
    <2> QED
      BY <2>1, <2>2
  <1> HIDE DEF s
  <1>3. /\ Rewrites(s, r, {n}) /\ r.brk = s.brk /\ r.data = s.data
        /\ DOMAIN r.block = DOMAIN s.block \ {n}
    BY <1>2, DropBlocksIs
  <1> HIDE DEF r
  <1>4. /\ IsMem(r) /\ r.start = s.start
        /\ \A x \in DOMAIN r.block : r.block[x] = s.block[x]
    BY <1>3 DEF Rewrites
  <1>5. \A x \in DOMAIN r.block : x \notin {a, n, end} => x \in DOMAIN m.block /\ r.block[x] = m.block[x]
    BY <1>1, <1>2, <1>3, <1>4
  <1>6. Rewrites(m, r, {a, n, end})
    BY <1>2, <1>3, <1>4, <1>5 DEF Rewrites
  <1>7. r.block[a] = Block(m.block[a].status, size, m.block[a].prev, end)
    BY <1>1, <1>2, <1>3, <1>4
  <1>8. end # NULL => r.block[end] = Block(m.block[end].status, m.block[end].size, a, m.block[end].next)
    BY <1>2, <1>3, <1>4
  <1> QED
    BY <1>2, <1>3, <1>6, <1>7, <1>8 DEF Joined, r, s

\* At most three blocks in a row are free, whichever way the list is followed.
FewFree(m) ==
    /\ NULL \notin HeapBlocks(m)
    /\ \A b \in HeapBlocks(m) : LET c == m.block[b].next
                                    d == m.block[c].next
                                    e == m.block[d].next
           IN  /\ c \in HeapBlocks(m) \cup {NULL}
               /\ IsFree(m, b) /\ IsFree(m, c) /\ IsFree(m, d) => ~IsFree(m, e)

FewFreeBefore(m) ==
    \A b \in HeapBlocks(m) : LET c == m.block[b].prev
                                 d == m.block[c].prev
                                 e == m.block[d].prev
        IN  /\ c # NULL => c \in HeapBlocks(m)
            /\ IsFree(m, c) /\ IsFree(m, d) => ~IsFree(m, e)

\* FirstNotFree is the loop of merge_next_block (osmem.c:213-229).
LEMMA SkipFree ==
    ASSUME NEW m, FewFree(m)
    PROVE  \A b \in HeapBlocks(m) \cup {NULL} :
               FirstNotFree(m, b) =
                   IF IsFree(m, b) THEN FirstNotFree(m, m.block[b].next) ELSE b
  <1> DEFINE D == HeapBlocks(m) \cup {NULL}
             F(b) == IsFree(m, b)
             N(b) == m.block[b].next
             By(f) == [b \in D |-> IF b # NULL /\ m.block[b].status = "FREE" THEN f[m.block[b].next] ELSE b]
             skip == CHOOSE f : f = By(f)
             right == [b \in D |-> IF ~F(b) THEN b ELSE IF ~F(N(b)) THEN N(b)
                                   ELSE IF ~F(N(N(b))) THEN N(N(b)) ELSE N(N(N(b)))]
  <1>1. \A b : FirstNotFree(m, b) = skip[b]
    BY DEF FirstNotFree
  <1>2. \A b \in D : F(b) => N(b) \in D /\ (F(N(b)) /\ F(N(N(b))) => ~F(N(N(N(b)))))
    BY DEF FewFree, IsFree
  <1>3. \A f : By(f) = [b \in D |-> IF F(b) THEN f[N(b)] ELSE b]
    BY DEF IsFree
  <1> HIDE DEF F, N, D
  <1>4. right = By(right)
    <2>1. ASSUME NEW b \in D PROVE right[b] = IF F(b) THEN right[N(b)] ELSE b
      <3>1. CASE ~F(b)
        BY <3>1
      <3>2. CASE F(b)
        <4>1. N(b) \in D
          BY <1>2, <3>2
        <4>2. right[N(b)] = IF ~F(N(b)) THEN N(b) ELSE IF ~F(N(N(b))) THEN N(N(b))
                            ELSE IF ~F(N(N(N(b)))) THEN N(N(N(b))) ELSE N(N(N(N(b))))
          BY <4>1
        <4>3. right[b] = IF ~F(N(b)) THEN N(b) ELSE IF ~F(N(N(b))) THEN N(N(b)) ELSE N(N(N(b)))
          BY <3>2
        <4> QED
          BY <1>2, <3>2, <4>2, <4>3
      <3> QED
        BY <3>1, <3>2
    <2>2. right = [b \in D |-> right[b]]
      OBVIOUS
    <2> HIDE DEF right, By
    <2>3. right = [b \in D |-> IF F(b) THEN right[N(b)] ELSE b]
      BY <2>1, <2>2
    <2> QED
      BY <1>3, <2>3
  <1> HIDE DEF right, By
  <1>5. skip = By(skip)
    BY <1>4
  <1> HIDE DEF skip
  <1>6. skip = [b \in D |-> IF F(b) THEN skip[N(b)] ELSE b]
    BY <1>3, <1>5
  <1>7. ASSUME NEW b \in D PROVE skip[b] = IF F(b) THEN skip[N(b)] ELSE b
    BY <1>6
  <1>8. \A b \in D : FirstNotFree(m, b) = IF F(b) THEN FirstNotFree(m, N(b)) ELSE b
    BY <1>1, <1>7
  <1> QED
    BY <1>8 DEF D, F, N

\* FirstOfFree is the loop of merge_prev_block (osmem.c:232-250).
LEMMA BackOverFree ==
    ASSUME NEW m, FewFreeBefore(m)
    PROVE  \A b \in HeapBlocks(m) :
               FirstOfFree(m, b) =
                   IF IsFree(m, m.block[b].prev) THEN FirstOfFree(m, m.block[b].prev) ELSE b
  <1> DEFINE D == HeapBlocks(m)
             F(b) == IsFree(m, b)
             N(b) == m.block[b].prev
             By(f) == [b \in D |-> IF m.block[b].prev # NULL /\ m.block[m.block[b].prev].status = "FREE"
                                   THEN f[m.block[b].prev] ELSE b]
             back == CHOOSE f : f = By(f)
             right == [b \in D |-> IF ~F(N(b)) THEN b ELSE IF ~F(N(N(b))) THEN N(b) ELSE N(N(b))]
  <1>1. \A b : FirstOfFree(m, b) = back[b]
    BY DEF FirstOfFree
  <1>2. \A b \in D : F(N(b)) => N(b) \in D /\ (F(N(N(b))) => ~F(N(N(N(b)))))
    BY DEF FewFreeBefore, IsFree
  <1>3. \A f : By(f) = [b \in D |-> IF F(N(b)) THEN f[N(b)] ELSE b]
    BY DEF IsFree
  <1> HIDE DEF F, N, D
  <1>4. right = By(right)
    <2>1. ASSUME NEW b \in D PROVE right[b] = IF F(N(b)) THEN right[N(b)] ELSE b
      <3>1. CASE ~F(N(b))
        BY <3>1
      <3>2. CASE F(N(b))
        <4>1. N(b) \in D
          BY <1>2, <3>2
        <4>2. right[N(b)] = IF ~F(N(N(b))) THEN N(b) ELSE IF ~F(N(N(N(b)))) THEN N(N(b))
                            ELSE N(N(N(b)))
          BY <4>1
        <4>3. right[b] = IF ~F(N(N(b))) THEN N(b) ELSE N(N(b))
          BY <3>2
        <4> QED
          BY <1>2, <3>2, <4>2, <4>3
      <3> QED
        BY <3>1, <3>2
    <2>2. right = [b \in D |-> right[b]]
      OBVIOUS
    <2> HIDE DEF right, By
    <2>3. right = [b \in D |-> IF F(N(b)) THEN right[N(b)] ELSE b]
      BY <2>1, <2>2
    <2> QED
      BY <1>3, <2>3
  <1> HIDE DEF right, By
  <1>5. back = By(back)
    BY <1>4
  <1> HIDE DEF back
  <1>6. back = [b \in D |-> IF F(N(b)) THEN back[N(b)] ELSE b]
    BY <1>3, <1>5
  <1>7. ASSUME NEW b \in D PROVE back[b] = IF F(N(b)) THEN back[N(b)] ELSE b
    BY <1>6
  <1>8. \A b \in D : FirstOfFree(m, b) = IF F(N(b)) THEN FirstOfFree(m, N(b)) ELSE b
    BY <1>1, <1>7
  <1> QED
    BY <1>8 DEF D, F, N

\* merge_next_block takes in the free block after a, if there is one.
LEMMA MergeNextIs ==
    ASSUME NEW m, IsMem(m), FewFree(m), NULL \notin DOMAIN m.block, m.brk \in Nat,
           \A b \in HeapBlocks(m) : b \in Nat /\ b < m.brk,
           NEW a \in HeapBlocks(m), NEW n, n = m.block[a].next, NEW end,
           IsFree(m, n) => /\ end = m.block[n].next /\ ~IsFree(m, end)
                           /\ After(HeapBlocks(m), a, n) /\ After(HeapBlocks(m), n, end)
    PROVE  LET r == merge_next_block(m, a) IN
           IF IsFree(m, n) THEN Joined(m, r, a, n, end, Gap(m, a, end)) ELSE r = m
  <1> DEFINE H == HeapBlocks(m)
             stop == FirstNotFree(m, n)
             gone == {b \in H : a < b /\ b < EndOf(m, stop)}
             r == merge_next_block(m, a)
  <1>1. n \in H \cup {NULL}
    BY DEF FewFree
  <1>2. r = IF stop = n THEN m ELSE DropBlocks(SetPrev(LinkTo(m, a, stop), stop, a), gone)
    BY DEF merge_next_block
  <1>3. CASE ~IsFree(m, n)
    <2>1. stop = n
      BY <1>1, <1>3, SkipFree
    <2> HIDE DEF stop, r
    <2> QED
      BY <1>2, <1>3, <2>1 DEF r
  <1>4. CASE IsFree(m, n)
    <2>1. n \in H /\ n # NULL
      BY <1>1, <1>4 DEF IsFree
    <2>2. end \in H \cup {NULL}
      BY <1>4, <2>1 DEF FewFree
    <2>3. stop = end
      <3>1. FirstNotFree(m, n) = FirstNotFree(m, end)
        BY <1>4, <2>1, SkipFree
      <3>2. FirstNotFree(m, end) = end
        BY <1>4, <2>2, SkipFree
      <3> QED
        BY <3>1, <3>2
    <2> HIDE DEF stop, r
    <2>4. a < n /\ \A c \in H : c <= a \/ n <= c
      BY <1>4, <2>1 DEF After
    <2>5. IF end = NULL THEN \A c \in H : c <= n ELSE n < end /\ \A c \in H : c <= n \/ end <= c
      BY <1>4 DEF After
    <2>6. \A c \in H : c \in Nat /\ c < m.brk
      OBVIOUS
    <2>7. n < EndOf(m, end)
      BY <2>1, <2>5, <2>6 DEF EndOf
    <2>8. gone = {n}
      <3>1. ASSUME NEW b \in H, a < b, b < EndOf(m, end) PROVE b = n
        <4>1. b \in Nat /\ a \in Nat /\ n \in Nat
          BY <2>1, <2>6
        <4>2. n <= b
          BY <2>4, <3>1, <4>1
        <4>3. b <= n
          <5>1. CASE end = NULL
            BY <2>5, <5>1
          <5>2. CASE end # NULL
            <6>1. end \in Nat /\ b < end
              BY <2>2, <2>6, <3>1, <5>2 DEF EndOf
            <6> QED
              BY <2>5, <4>1, <5>2, <6>1
          <5> QED
            BY <5>1, <5>2
        <4> QED
          BY <4>1, <4>2, <4>3
      <3> QED
        BY <2>1, <2>3, <2>4, <2>7, <3>1
    <2>9. end # n /\ a # n /\ end # a
      <3>1. a \in Nat /\ n \in Nat
        BY <2>1, <2>6
      <3>2. end # NULL => end \in Nat
        BY <2>2, <2>6
      <3>3. end = NULL => end # n /\ end # a
        BY <2>1 DEF FewFree
      <3> QED
        BY <2>4, <2>5, <3>1, <3>2, <3>3
    <2>10. r = DropBlocks(SetPrev(LinkTo(m, a, end), end, a), {n})
      BY <1>2, <2>3, <2>8, <2>9
    <2>11. a \in DOMAIN m.block /\ (end = NULL \/ end \in DOMAIN m.block)
      BY <2>2 DEF HeapBlocks
    <2> DEFINE l == LinkTo(m, a, end)
               size == Gap(m, a, end)
    <2>12. Writes(m, l, a, Block(m.block[a].status, size, m.block[a].prev, end)) /\ l.data = m.data
      BY <2>11, LinkToIs
    <2> HIDE DEF l, size
    <2>13. Joined(m, DropBlocks(SetPrev(l, end, a), {n}), a, n, end, size)
      BY <2>9, <2>11, <2>12, JoinIs
    <2> QED
      BY <1>4, <2>10, <2>13 DEF r, l, size
  <1> QED
    BY <1>3, <1>4

\* merge_prev_block joins a to the free block before it, if there is one.
LEMMA MergePrevIs ==
    ASSUME NEW m, IsMem(m), FewFreeBefore(m), NULL \notin DOMAIN m.block,
           \A b \in HeapBlocks(m) : b \in Nat,
           NEW a \in HeapBlocks(m), NEW p, p = m.block[a].prev, NEW end, end = m.block[a].next,
           end = NULL \/ (end \in HeapBlocks(m) /\ a < end),
           IsFree(m, p) => ~IsFree(m, m.block[p].prev) /\ Before(HeapBlocks(m), a, p)
    PROVE  LET r == merge_prev_block(m, a) IN
           IF IsFree(m, p) THEN Joined(m, r, p, a, end, Gap(m, p, end)) ELSE r = m
  <1> DEFINE H == HeapBlocks(m)
             first == FirstOfFree(m, a)
             gone == {b \in H : first < b /\ b <= a}
             r == merge_prev_block(m, a)
  <1>1. r = IF first = a THEN m ELSE DropBlocks(SetPrev(LinkTo(m, first, end), end, first), gone)
    BY DEF merge_prev_block
  <1>2. CASE ~IsFree(m, p)
    <2>1. first = a
      BY <1>2, BackOverFree
    <2> HIDE DEF first, r
    <2> QED
      BY <1>1, <1>2, <2>1 DEF r
  <1>3. CASE IsFree(m, p)
    <2>1. p \in H /\ p < a /\ \A c \in H : c <= p \/ a <= c
      BY <1>3 DEF Before, IsFree
    <2>2. first = p
      <3>1. FirstOfFree(m, a) = FirstOfFree(m, p)
        BY <1>3, BackOverFree
      <3>2. FirstOfFree(m, p) = p
        BY <1>3, <2>1, BackOverFree
      <3> QED
        BY <3>1, <3>2
    <2> HIDE DEF first, r
    <2>3. p \in Nat /\ a \in Nat /\ p # a
      BY <2>1
    <2>4. gone = {a}
      <3>1. ASSUME NEW b \in H, p < b, b <= a PROVE b = a
        <4>1. b \in Nat /\ (b <= p \/ a <= b)
          BY <2>1
        <4> QED
          BY <2>3, <3>1, <4>1
      <3> QED
        BY <2>1, <2>2, <2>3, <3>1
    <2>5. end = NULL \/ (end \in DOMAIN m.block /\ end # p /\ end # a)
      <3>1. end \in H => end \in Nat /\ end \in DOMAIN m.block
        BY DEF HeapBlocks
      <3> QED
        BY <2>1, <2>3, <3>1
    <2>6. r = DropBlocks(SetPrev(LinkTo(m, p, end), end, p), {a})
      BY <1>1, <2>2, <2>3, <2>4
    <2>7. p \in DOMAIN m.block
      BY <2>1 DEF HeapBlocks
    <2> DEFINE l == LinkTo(m, p, end)
               size == Gap(m, p, end)
    <2>8. Writes(m, l, p, Block(m.block[p].status, size, m.block[p].prev, end)) /\ l.data = m.data
      BY <2>7, LinkToIs
    <2> HIDE DEF l, size
    <2>9. Joined(m, DropBlocks(SetPrev(l, end, p), {a}), p, a, end, size)
      BY <2>3, <2>5, <2>7, <2>8, JoinIs
    <2> QED
      BY <1>3, <2>6, <2>9 DEF r, l, size
  <1> QED
    BY <1>2, <1>3

-----------------------------------------------------------------------------
(* What a call does to the blocks in use                                     *)

Used(m) == {a \in DOMAIN m.block : m.block[a].status # "FREE"}

\* How many bytes there are behind the block_meta.
Room(m, a) == IF m.block[a].status = "MAPPED" THEN m.block[a].size ELSE get_block_size(m, a)

\* Block b is in use before and after, and has not changed.
Same(m, r, b) ==
    /\ b \in Used(m) /\ b \in Used(r)
    /\ r.block[b].status = m.block[b].status /\ r.block[b].size = m.block[b].size
    /\ Room(r, b) = Room(m, b)

\* No block is at the null pointer.
LEMMA NullIsNoAddress == ASSUME NEW m, Good(m) PROVE NULL \notin DOMAIN m.block
  <1>1. NULL \notin HeapBlocks(m)
    BY NullIsNoBlock DEF Good
  <1>2. \A x \in MapAddresses : x > 0
    BY OsMemAssumption
  <1> QED
    BY <1>1, <1>2 DEF Good, Mapped, HeapBlocks, NULL

\* A splice leaves the other blocks in use, as they were.
LEMMA SpliceSame ==
    ASSUME NEW m, NEW r, NEW a, NEW end, NEW new, Linked(m), Placed(m), Splices(m, r, a, end, new),
           Fits(m, r, a, end, new), Keeps(m, r, {a, new}), NEW b, b # a, b # new
    PROVE  /\ b \in Used(r) <=> b \in Used(m) /\ (b \in HeapBlocks(m) => b \in HeapBlocks(r))
           /\ b \in Used(r) => Same(m, r, b)
  <1>1. CASE b \in DOMAIN r.block /\ r.block[b].status = "MAPPED"
    <2>1. b \in DOMAIN m.block /\ m.block[b].status = "MAPPED" /\ m.block[b].size = r.block[b].size
      BY <1>1 DEF Keeps
    <2> QED
      BY <1>1, <2>1 DEF Same, Used, Room, HeapBlocks
  <1>2. CASE b \in HeapBlocks(r)
    <2>1. b \in HeapBlocks(m)
      BY <1>2 DEF Splices
    <2>2. r.block[b].status = m.block[b].status /\ r.block[b].size = m.block[b].size
      BY <1>2 DEF Keeps
    <2>3. get_block_size(r, b) = get_block_size(m, b)
      BY <1>2, SpliceRooms
    <2> QED
      BY <1>2, <2>1, <2>2, <2>3 DEF Same, Used, Room, HeapBlocks
  <1>3. CASE b \notin DOMAIN r.block
    <2>1. ~(b \in DOMAIN m.block /\ m.block[b].status = "MAPPED")
      BY <1>3 DEF Keeps
    <2> QED
      BY <1>3, <2>1 DEF Used, HeapBlocks
  <1> QED
    BY <1>1, <1>2, <1>3 DEF HeapBlocks

\* The blocks G of m have become part of the free block f before them.
Freed(m, r, f, G, end) ==
    /\ IsMem(r) /\ r.start = m.start /\ r.brk = m.brk /\ r.data = m.data
    /\ DOMAIN r.block = DOMAIN m.block \ G
    /\ \A x \in DOMAIN r.block : x # f /\ x # end => r.block[x] = m.block[x]
    /\ r.block[f].status = "FREE" /\ r.block[f].prev = m.block[f].prev /\ r.block[f].next = end
    /\ end # NULL => r.block[end] =
           Block(m.block[end].status, m.block[end].size, f, m.block[end].next)

\* Freeing a block and its free neighbours is a splice.
LEMMA FreedSplices ==
    ASSUME NEW m, Good(m), NEW r, NEW f \in HeapBlocks(m), NEW end, NEW G,
           end = NULL \/ (end \in HeapBlocks(m) /\ f < end),
           G = {x \in HeapBlocks(m) : f < x /\ (end = NULL \/ x < end)},
           Freed(m, r, f, G, end)
    PROVE  /\ Splices(m, r, f, end, NULL) /\ Fits(m, r, f, end, NULL)
           /\ Keeps(m, r, {f, NULL}) /\ Linked(r) /\ Placed(r)
           /\ \A x : x \in HeapBlocks(r) <=> x \in HeapBlocks(m) /\ x \notin G
  <1> DEFINE H == HeapBlocks(m)
             K == HeapBlocks(r)
  <1>1. Linked(m) /\ Placed(m)
    BY DEF Good
  <1>2. f \in Nat /\ NULL \notin H /\ f # NULL /\ (\A x \in H : x \in Nat) /\ f \notin G
    BY <1>1, NullIsNoBlock DEF Placed
  <1>3. f \in DOMAIN m.block /\ f \in DOMAIN r.block /\ f # end
    BY <1>2 DEF HeapBlocks, Freed
  <1>4. end # NULL => /\ end \in H /\ end \in Nat /\ end \in DOMAIN r.block
                      /\ r.block[end].status = m.block[end].status
                      /\ r.block[end].size = m.block[end].size
                      /\ r.block[end].prev = f /\ r.block[end].next = m.block[end].next
    <2>1. SUFFICES ASSUME end # NULL
                   PROVE  /\ end \in H /\ end \in Nat /\ end \in DOMAIN r.block
                          /\ r.block[end].status = m.block[end].status
                          /\ r.block[end].size = m.block[end].size
                          /\ r.block[end].prev = f /\ r.block[end].next = m.block[end].next
      OBVIOUS
    <2>2. end \in H /\ end \in Nat /\ end \notin G
      <3>1. end \in H /\ end \in Nat
        BY <1>2, <2>1
      <3>2. ~(end < end)
        BY <3>1
      <3> QED
        BY <2>1, <3>1, <3>2
    <2>3. end \in DOMAIN r.block
      BY <2>2 DEF Freed, HeapBlocks
    <2>4. r.block[end] = Block(m.block[end].status, m.block[end].size, f, m.block[end].next)
      BY <2>1 DEF Freed
    <2> QED
      BY <2>2, <2>3, <2>4, BlockFields
  <1>5. \A x \in DOMAIN r.block : x # f => r.block[x].status = m.block[x].status
                                           /\ r.block[x].size = m.block[x].size
                                           /\ r.block[x].next = m.block[x].next
                                           /\ (x # end => r.block[x].prev = m.block[x].prev)
    <2>1. \A x \in DOMAIN r.block : x \in DOMAIN m.block /\ x # NULL
      BY NullIsNoAddress DEF Freed
    <2>2. \A x \in DOMAIN r.block : x # f /\ x # end => r.block[x] = m.block[x]
      BY DEF Freed
    <2> QED
      BY <1>4, <2>1, <2>2
  <1>6. \A x : x \in K <=> x \in H /\ x \notin G
    BY <1>3, <1>5 DEF Freed, HeapBlocks
  <1>7. Splices(m, r, f, end, NULL)
    <2>1. \A x \in H : x \notin G <=> (x <= f \/ (end # NULL /\ end <= x))
      BY <1>2, <1>4
    <2>2. \A x \in K : /\ r.block[x].next = IF x = f THEN end ELSE m.block[x].next
                       /\ r.block[x].prev = IF x = end THEN f ELSE m.block[x].prev
      <3>1. r.block[f].next = end /\ r.block[f].prev = m.block[f].prev
        BY DEF Freed
      <3>2. \A x \in K : x \in DOMAIN r.block /\ x # NULL
        BY <1>2, <1>6 DEF HeapBlocks
      <3> QED
        BY <1>3, <1>4, <1>5, <3>1, <3>2
    <2>3. NULL \notin K
      BY <1>2, <1>6
    <2> HIDE DEF H, K
    <2> QED
      BY <1>2, <1>4, <1>6, <2>1, <2>2, <2>3 DEF Splices, H, K
  <1>8. Fits(m, r, f, end, NULL)
    BY <1>1 DEF Fits, Placed, Freed
  <1>9. Keeps(m, r, {f, NULL})
    <2>1. \A x \in DOMAIN m.block : m.block[x].status = "MAPPED" => x \in DOMAIN r.block /\ x # f
      BY DEF Freed, HeapBlocks
    <2>2. r.block[f].status = "FREE" /\ r.start = m.start /\ DOMAIN r.block \subseteq DOMAIN m.block
      BY DEF Freed
    <2> QED
      BY <1>5, <2>1, <2>2 DEF Keeps, HeapBlocks
  <1>10. Linked(r) /\ Placed(r)
    BY <1>1, <1>7, <1>8, SpliceLinks, SplicePlaces
  <1> QED
    BY <1>6, <1>7, <1>8, <1>9, <1>10

\* The heap it leaves is good, and the block is the only one not in use any more.
LEMMA FreedIsGood ==
    ASSUME NEW m, Good(m), NEW r, NEW f \in HeapBlocks(m), NEW end, NEW G,
           end = NULL \/ (end \in HeapBlocks(m) /\ f < end),
           G = {x \in HeapBlocks(m) : f < x /\ (end = NULL \/ x < end)},
           Freed(m, r, f, G, end), r.block[f].size = get_block_size(r, f),
           ~IsFree(m, end), ~IsFree(m, m.block[f].prev)
    PROVE  /\ Good(r)
           /\ \A b : (b \in Used(r) <=> b \in Used(m) /\ b # f /\ b \notin G)
           /\ \A b \in Used(r) : Same(m, r, b)
  <1> DEFINE H == HeapBlocks(m)
             K == HeapBlocks(r)
  <1>1. Linked(m) /\ Placed(m)
    BY DEF Good
  <1>2. f # NULL /\ f \notin G /\ G \subseteq H
    <2>1. f \in Nat /\ f # NULL
      BY <1>1, NullIsNoBlock DEF Placed
    <2> QED
      BY <2>1
  <1>3. /\ Splices(m, r, f, end, NULL) /\ Fits(m, r, f, end, NULL)
        /\ Keeps(m, r, {f, NULL}) /\ Linked(r) /\ Placed(r)
        /\ \A x : x \in K <=> x \in H /\ x \notin G
    BY FreedSplices
  <1>4. SizedAt(r, f)
    <2>1. f \in K
      BY <1>2, <1>3
    <2>2. get_block_size(r, f) \in Nat
      BY <1>3, <2>1, BlockReaches
    <2>3. ~IsFree(r, end)
      <3>1. end # NULL => end # f /\ end \in HeapBlocks(m)
        <4>1. f \in Nat
          BY <1>1 DEF Placed
        <4> QED
          BY <4>1
      <3>2. end # NULL => r.block[end].status = m.block[end].status
        BY BlockFields DEF Freed
      <3> QED
        BY <3>2 DEF IsFree
    <2> QED
      BY <2>2, <2>3 DEF SizedAt, Freed
  <1>5. Good(r)
    BY <1>3, <1>4, SpliceIsGood
  <1>6. ASSUME NEW b PROVE /\ b \in Used(r) <=> b \in Used(m) /\ b # f /\ b \notin G
                           /\ b \in Used(r) => Same(m, r, b)
    <2>1. CASE b = f \/ b = NULL
      <3>1. f \notin Used(r)
        BY DEF Freed, Used
      <3> QED
        BY <2>1, <3>1, NullIsNoAddress DEF Used, Freed
    <2>2. CASE b # f /\ b # NULL
      <3>1. /\ b \in Used(r) <=> b \in Used(m) /\ (b \in H => b \in K)
            /\ b \in Used(r) => Same(m, r, b)
        BY <1>1, <1>3, <2>2, SpliceSame
      <3> QED
        BY <1>2, <1>3, <2>2, <3>1
    <2> QED
      BY <2>1, <2>2
  <1> QED
    BY <1>5, <1>6

\* What os_free promises: block a is not in use any more, and nothing else changes.
Frees(m, r, a) ==
    /\ IsMem(r) /\ Good(r) /\ r.brk = m.brk /\ r.data = m.data
    /\ \A b : b \in Used(r) <=> b \in Used(m) /\ b # a
    /\ \A b \in Used(r) : Same(m, r, b)

\* os_free marks the block.
LEMMA SetFreeIs ==
    ASSUME NEW m, IsMem(m), NEW a \in DOMAIN m.block
    PROVE  LET b == m.block[a]
               r == [m EXCEPT !.block[a].status = "FREE"]
           IN  Writes(m, r, a, Block("FREE", b.size, b.prev, b.next)) /\ r.data = m.data
  <1> DEFINE b == m.block[a]
             r == [m EXCEPT !.block[a].status = "FREE"]
  <1>1. b = Block(b.status, b.size, b.prev, b.next)
    BY DEF IsMem
  <1>2. r = [m EXCEPT !.block[a] = Block("FREE", b.size, b.prev, b.next)]
    <2>1. r = [m EXCEPT !.block[a] = [b EXCEPT !.status = "FREE"]]
      OBVIOUS
    <2> HIDE DEF b, r
    <2>2. [b EXCEPT !.status = "FREE"] = Block("FREE", b.size, b.prev, b.next)
      BY <1>1 DEF Block
    <2> QED
      BY <2>1, <2>2 DEF b
  <1> HIDE DEF r
  <1>3. Writes(m, r, a, Block("FREE", b.size, b.prev, b.next)) /\ r.data = m.data
    BY <1>2, UpdateBlock
  <1> QED
    BY <1>3 DEF r

\* Of two neighbours one is in use.
LEMMA NoFreeNeighbours ==
    ASSUME NEW m, Good(m), NEW a \in HeapBlocks(m), IsFree(m, a)
    PROVE  ~IsFree(m, m.block[a].next) /\ ~IsFree(m, m.block[a].prev)
  <1>1. ~IsFree(m, m.block[a].next)
    BY DEF Good, Sized, SizedAt, IsFree
  <1>2. ASSUME IsFree(m, m.block[a].prev) PROVE FALSE
    <2>1. m.block[a].prev \in HeapBlocks(m) /\ m.block[m.block[a].prev].next = a
      BY <1>2, NextOfPrev DEF Good, IsFree
    <2> QED
      BY <1>2, <2>1 DEF Good, Sized, SizedAt, IsFree
  <1> QED
    BY <1>1, <1>2

\* The blocks after the last are those of a list that ends.
LEMMA MergesNext ==
    ASSUME NEW m, IsMem(m), Good(m), NEW a \in HeapBlocks(m), m.block[a].status = "ALLOC"
    PROVE  LET n == m.block[a].next
               end == IF IsFree(m, n) THEN m.block[n].next ELSE n
               G == {x \in HeapBlocks(m) : a < x /\ (end = NULL \/ x < end)}
               r == merge_next_block([m EXCEPT !.block[a].status = "FREE"], a)
           IN  /\ end = NULL \/ (end \in HeapBlocks(m) /\ a < end)
               /\ ~IsFree(m, end) /\ Freed(m, r, a, G, end)
  <1> DEFINE H == HeapBlocks(m)
             n == m.block[a].next
             end == IF IsFree(m, n) THEN m.block[n].next ELSE n
             G == {x \in H : a < x /\ (end = NULL \/ x < end)}
             m1 == [m EXCEPT !.block[a].status = "FREE"]
             r == merge_next_block(m1, a)
  <1>1. Linked(m) /\ Placed(m) /\ NULL \notin H /\ NULL \notin DOMAIN m.block
    BY NullIsNoBlock, NullIsNoAddress DEF Good
  <1>2. (\A x \in H : x \in Nat /\ x < m.brk) /\ m.brk \in Nat
    BY <1>1, Constants DEF Placed
  <1>3. \A x \in H : After(H, x, m.block[x].next)
    BY <1>1 DEF Linked
  <1>4. a \in DOMAIN m.block /\ H \subseteq DOMAIN m.block
    BY DEF HeapBlocks
  <1>5. Writes(m, m1, a, Block("FREE", m.block[a].size, m.block[a].prev, n)) /\ m1.data = m.data
    BY <1>4, SetFreeIs
  <1> HIDE DEF m1
  <1>6. /\ IsMem(m1) /\ m1.start = m.start /\ m1.brk = m.brk /\ DOMAIN m1.block = DOMAIN m.block
        /\ \A x \in DOMAIN m.block : x # a => m1.block[x] = m.block[x]
        /\ m1.block[a] = Block("FREE", m.block[a].size, m.block[a].prev, n)
    BY <1>4, <1>5 DEF Writes, Rewrites
  <1>7. /\ m1.block[a].status = "FREE" /\ m1.block[a].prev = m.block[a].prev
        /\ m1.block[a].size = m.block[a].size /\ m1.block[a].next = n
    BY <1>6, BlockFields
  <1>8. HeapBlocks(m1) = H
    <2>1. \A x \in DOMAIN m.block : m1.block[x].status # "MAPPED" <=> m.block[x].status # "MAPPED"
      BY <1>6, <1>7
    <2> QED
      BY <1>6, <2>1 DEF HeapBlocks
  <1>9. \A x \in DOMAIN m.block : m1.block[x].next = m.block[x].next
    BY <1>6, <1>7
  <1>10. \A x \in DOMAIN m.block : x # a => (IsFree(m1, x) <=> IsFree(m, x))
    BY <1>6 DEF IsFree
  <1> HIDE DEF H
  <1>11. \A x \in H : m.block[x].next # NULL => m.block[x].next \in H /\ x < m.block[x].next
    BY <1>3 DEF After
  <1>12. ASSUME NEW b \in H, IsFree(m1, b), IsFree(m1, m.block[b].next)
         PROVE  b = a \/ m.block[b].next = a
    <2>1. m.block[b].next # NULL /\ m.block[b].next \in H
      BY <1>11, <1>12 DEF IsFree
    <2>2. SUFFICES ASSUME b # a, m.block[b].next # a PROVE FALSE
      OBVIOUS
    <2>3. IsFree(m, b) /\ IsFree(m, m.block[b].next)
      BY <1>4, <1>10, <1>12, <2>1, <2>2 DEF H
    <2> QED
      BY <2>3, NoFreeNeighbours DEF H
  <1>13. FewFree(m1)
    <2>1. ASSUME NEW b \in H, NEW c, c = m.block[b].next, NEW d, d = m.block[c].next,
                 NEW e, e = m.block[d].next, IsFree(m1, b), IsFree(m1, c), IsFree(m1, d), IsFree(m1, e)
          PROVE  FALSE
      <3>1. c \in H /\ d \in H /\ e \in H /\ b < c /\ c < d /\ d < e
        BY <1>11, <2>1 DEF IsFree
      <3>2. b \in Nat /\ c \in Nat /\ d \in Nat /\ e \in Nat
        BY <1>2, <3>1 DEF H
      <3>3. (b = a \/ c = a) /\ (c = a \/ d = a) /\ (d = a \/ e = a)
        BY <1>12, <2>1, <3>1
      <3> QED
        BY <3>1, <3>2, <3>3
    <2>2. ASSUME NEW b \in H PROVE m1.block[b].next = m.block[b].next /\ m.block[b].next \in H \cup {NULL}
      BY <1>4, <1>9, <1>11 DEF H
    <2>3. ASSUME NEW b \in H
          PROVE  LET c == m1.block[b].next
                     d == m1.block[c].next
                     e == m1.block[d].next
                 IN  IsFree(m1, b) /\ IsFree(m1, c) /\ IsFree(m1, d) => ~IsFree(m1, e)
      <3> DEFINE c == m1.block[b].next
                 d == m1.block[c].next
                 e == m1.block[d].next
      <3>1. SUFFICES ASSUME IsFree(m1, b), IsFree(m1, c), IsFree(m1, d), IsFree(m1, e) PROVE FALSE
        OBVIOUS
      <3>2. c = m.block[b].next
        BY <2>2
      <3>3. c \in H
        BY <1>11, <3>1, <3>2 DEF IsFree
      <3>4. d = m.block[c].next
        BY <2>2, <3>3
      <3>5. d \in H
        BY <1>11, <3>1, <3>3, <3>4 DEF IsFree
      <3>6. e = m.block[d].next
        BY <2>2, <3>5
      <3> HIDE DEF c, d, e
      <3> QED
        BY <2>1, <3>1, <3>2, <3>4, <3>6
    <2> QED
      BY <1>1, <1>8, <2>2, <2>3 DEF FewFree, H
  <1>14. n = NULL \/ (n \in H /\ a < n)
    BY <1>11 DEF H
  <1>15. a \in H /\ a \in Nat
    BY <1>2 DEF H
  <1>16. IsFree(m1, n) <=> IsFree(m, n)
    <2>1. n # NULL => n # a /\ n \in DOMAIN m.block
      BY <1>4, <1>14, <1>15 DEF H
    <2> QED
      BY <1>10, <2>1 DEF IsFree
  <1>17. IsFree(m, n) => /\ n \in H /\ end = m.block[n].next /\ ~IsFree(m, end)
                         /\ After(H, a, n) /\ After(H, n, end)
    BY <1>3, <1>14, <1>15, NoFreeNeighbours DEF IsFree, H
  <1>18. end = NULL \/ (end \in H /\ a < end /\ end \in Nat)
    <2>1. CASE IsFree(m, n)
      <3>1. n \in H /\ end = m.block[n].next /\ a < n /\ n \in Nat
        BY <1>2, <1>14, <1>17, <2>1 DEF H, IsFree
      <3> HIDE DEF end
      <3>2. end # NULL => end \in H /\ n < end /\ end \in Nat
        BY <1>2, <1>11, <3>1 DEF H
      <3> QED
        BY <1>15, <3>1, <3>2
    <2>2. CASE ~IsFree(m, n)
      BY <1>2, <1>14, <2>2 DEF H
    <2> QED
      BY <2>1, <2>2
  <1>19. ~IsFree(m, end)
    BY <1>17
  <1>20. IF IsFree(m, n) THEN Joined(m1, r, a, n, end, Gap(m1, a, end)) ELSE r = m1
    <2>1. a \in HeapBlocks(m1) /\ n = m1.block[a].next
      BY <1>7, <1>8, <1>15
    <2>2. NULL \notin DOMAIN m1.block /\ m1.brk \in Nat
      BY <1>1, <1>2, <1>6
    <2>3. \A b \in HeapBlocks(m1) : b \in Nat /\ b < m1.brk
      BY <1>2, <1>6, <1>8 DEF H
    <2>4. IsFree(m1, n) => /\ end = m1.block[n].next /\ ~IsFree(m1, end)
                           /\ After(HeapBlocks(m1), a, n) /\ After(HeapBlocks(m1), n, end)
      <3>1. SUFFICES ASSUME IsFree(m, n)
                     PROVE  /\ end = m1.block[n].next /\ ~IsFree(m1, end)
                            /\ After(HeapBlocks(m1), a, n) /\ After(HeapBlocks(m1), n, end)
        BY <1>16
      <3>2. end = m.block[n].next /\ ~IsFree(m, end) /\ n \in H /\ After(H, a, n) /\ After(H, n, end)
        BY <1>17, <3>1
      <3>3. end = m1.block[n].next
        BY <1>4, <1>9, <3>2 DEF H
      <3>4. ~IsFree(m1, end)
        <4>1. end # NULL => end # a /\ end \in DOMAIN m.block
          BY <1>4, <1>15, <1>18 DEF H
        <4> QED
          BY <1>10, <3>2, <4>1 DEF IsFree
      <3> QED
        BY <1>8, <3>2, <3>3, <3>4
    <2> HIDE DEF end, n
    <2> QED
      BY <1>6, <1>13, <1>16, <2>1, <2>2, <2>3, <2>4, MergeNextIs
  <1>21. Freed(m, r, a, G, end)
    <2>1. CASE IsFree(m, n)
      <3>1. Joined(m1, r, a, n, end, Gap(m1, a, end))
        BY <1>20, <2>1
      <3>2. n \in H /\ n \in Nat /\ a < n /\ (\A c \in H : c <= a \/ n <= c)
            /\ (IF end = NULL THEN \A c \in H : c <= n ELSE n < end /\ \A c \in H : c <= n \/ end <= c)
        BY <1>2, <1>17, <2>1 DEF After, IsFree, H
      <3> HIDE DEF r, end, n
      <3>3. G = {n}
        <4>1. ASSUME NEW x \in H PROVE a < x /\ (end = NULL \/ x < end) <=> x = n
          <5>1. x \in Nat
            BY <1>2 DEF H
          <5> QED
            BY <1>15, <1>18, <3>2, <5>1
        <4> QED
          BY <3>2, <4>1
      <3> HIDE DEF G
      <3>4. /\ IsMem(r) /\ r.start = m.start /\ r.brk = m.brk /\ r.data = m.data
            /\ DOMAIN r.block = DOMAIN m.block \ G
        BY <1>5, <1>6, <3>1, <3>3 DEF Joined, Rewrites
      <3>5. \A x \in DOMAIN r.block : x # a /\ x # end => r.block[x] = m.block[x]
        <4>1. \A x \in DOMAIN r.block : x \notin {a, n, end} => x \in DOMAIN m1.block /\ r.block[x] = m1.block[x]
          BY <3>1 DEF Joined, Rewrites
        <4> QED
          BY <1>6, <3>3, <3>4, <4>1
      <3>6. r.block[a] = Block("FREE", Gap(m1, a, end), m.block[a].prev, end)
        BY <1>7, <3>1 DEF Joined
      <3>7. end # NULL => r.block[end] = Block(m.block[end].status, m.block[end].size, a, m.block[end].next)
        <4>1. end # NULL => m1.block[end] = m.block[end]
          BY <1>4, <1>6, <1>15, <1>18 DEF H
        <4> QED
          BY <3>1, <4>1 DEF Joined
      <3> QED
        BY <3>4, <3>5, <3>6, <3>7, BlockFields DEF Freed
    <2>2. CASE ~IsFree(m, n)
      <3>1. r = m1 /\ end = n
        BY <1>20, <2>2
      <3> HIDE DEF r, end
      <3>2. G = {}
        <4>1. \A c \in H : c <= a \/ (n # NULL /\ n <= c)
          BY <1>3, <1>15 DEF After, H
        <4>2. ASSUME NEW x \in H, a < x, end = NULL \/ x < end PROVE FALSE
          <5>1. x \in Nat
            BY <1>2 DEF H
          <5> QED
            BY <1>15, <1>18, <3>1, <4>1, <4>2, <5>1
        <4> QED
          BY <4>2
      <3>3. n # NULL => m1.block[n] = Block(m.block[n].status, m.block[n].size, a, m.block[n].next)
        <4>1. n # NULL => n # a /\ n \in DOMAIN m.block
          BY <1>4, <1>14, <1>15 DEF H
        <4>2. n # NULL => m.block[n].prev = a
          BY <1>1, PrevAndNext DEF H
        <4>3. n # NULL => m.block[n] =
                  Block(m.block[n].status, m.block[n].size, m.block[n].prev, m.block[n].next)
          BY <4>1 DEF IsMem
        <4> QED
          BY <1>6, <4>1, <4>2, <4>3
      <3> HIDE DEF G
      <3> QED
        BY <1>5, <1>6, <1>7, <3>1, <3>2, <3>3 DEF Freed
    <2> QED
      BY <2>1, <2>2
  <1> QED
    BY <1>18, <1>19, <1>21 DEF H, r, m1

\* os_free of a block of the heap.
LEMMA FreeAlloc ==
    ASSUME NEW m, IsMem(m), Good(m), NEW a \in HeapBlocks(m), m.block[a].status = "ALLOC"
    PROVE  Frees(m, os_free(m, a + METADATA_SIZE), a)
  <1> DEFINE H == HeapBlocks(m)
             n == m.block[a].next
             p == m.block[a].prev
             end == IF IsFree(m, n) THEN m.block[n].next ELSE n
             G == {x \in H : a < x /\ (end = NULL \/ x < end)}
             s == merge_next_block([m EXCEPT !.block[a].status = "FREE"], a)
             t == merge_prev_block(s, a)
             r == os_free(m, a + METADATA_SIZE)
  <1>1. Linked(m) /\ Placed(m) /\ NULL \notin H /\ NULL \notin DOMAIN m.block /\ Sized(m)
    BY NullIsNoBlock, NullIsNoAddress DEF Good
  <1>2. a \in Nat /\ (\A x \in H : x \in Nat)
    BY <1>1 DEF Placed
  <1>3. end = NULL \/ (end \in H /\ a < end)
    BY MergesNext
  <1>4. ~IsFree(m, end)
    BY MergesNext
  <1>5. Freed(m, s, a, G, end)
    BY MergesNext
  <1>6. r = IF a \in DOMAIN t.block THEN SetSize(t, a, get_block_size(t, a)) ELSE t
    <2>1. (a + METADATA_SIZE) - METADATA_SIZE = a
      BY <1>2, Constants
    <2> QED
      BY <2>1 DEF os_free
  <1> HIDE DEF r, s
  <1> DEFINE K == HeapBlocks(s)
  <1>7. /\ Linked(s) /\ Placed(s) /\ \A x : x \in K <=> x \in H /\ x \notin G
    <2> HIDE DEF end
    <2>1. end = NULL \/ (end \in HeapBlocks(m) /\ a < end)
      BY <1>3
    <2>2. G = {x \in HeapBlocks(m) : a < x /\ (end = NULL \/ x < end)}
      OBVIOUS
    <2> HIDE DEF G, H
    <2>3. /\ Linked(s) /\ Placed(s)
          /\ \A x : x \in HeapBlocks(s) <=> x \in HeapBlocks(m) /\ x \notin G
      BY <1>5, <2>1, <2>2, FreedSplices
    <2> QED
      BY <2>3 DEF H
  <1>8. /\ IsMem(s) /\ s.start = m.start /\ s.brk = m.brk /\ s.data = m.data
        /\ DOMAIN s.block = DOMAIN m.block \ G
        /\ \A x \in DOMAIN s.block : x # a /\ x # end => s.block[x] = m.block[x]
        /\ s.block[a].status = "FREE" /\ s.block[a].prev = p /\ s.block[a].next = end
        /\ end # NULL => s.block[end] = Block(m.block[end].status, m.block[end].size, a, m.block[end].next)
    BY <1>5 DEF Freed
  <1>9. a \in H /\ a \notin G /\ a \in K /\ K \subseteq DOMAIN s.block
    BY <1>2, <1>7 DEF HeapBlocks
  <1>10. (\A x \in K : x \in H /\ x \in Nat /\ x # NULL) /\ a # NULL
    BY <1>1, <1>2, <1>7
  <1>11. end = NULL \/ (end \in K /\ a < end /\ end # a)
    <2>1. end # NULL => end \notin G /\ end # a
      <3> HIDE DEF end
      <3>1. \A x \in H : ~(x < x)
        <4> HIDE DEF H
        <4> QED
          BY <1>2
      <3> QED
        BY <1>2, <1>3, <3>1
    <2> QED
      BY <1>3, <1>7, <2>1
  <1> HIDE DEF end, G, K, H
  <1>12. ASSUME NEW x \in K, x # a
         PROVE  /\ s.block[x].status = m.block[x].status /\ s.block[x].next = m.block[x].next
                /\ x # end => s.block[x].prev = m.block[x].prev
    BY <1>8, <1>9, <1>10, <1>12, BlockFields
  <1>13. \A x \in K : x # a => (IsFree(s, x) <=> IsFree(m, x))
    BY <1>12 DEF IsFree
  <1>14. IsFree(s, a) /\ ~IsFree(s, end)
    <2>1. ~IsFree(s, end)
      BY <1>4, <1>11, <1>13 DEF IsFree
    <2> QED
      BY <1>8, <1>10, <2>1 DEF IsFree
  <1>15. \A x \in K : s.block[x].prev # NULL =>
             s.block[x].prev \in K /\ s.block[x].prev < x /\ s.block[s.block[x].prev].next = x
    BY <1>7, NextOfPrev DEF K
  <1>16. p # NULL => p \in K /\ p < a /\ s.block[p].next = a /\ p # a
    <2>1. p # NULL => p \in K /\ p < a /\ s.block[p].next = a
      BY <1>8, <1>9, <1>15
    <2> QED
      BY <1>2, <2>1
  <1>17. IsFree(m, p) => /\ p \in H /\ p # end /\ s.block[p].prev = m.block[p].prev
                         /\ ~IsFree(m, m.block[p].prev) /\ ~IsFree(s, m.block[p].prev)
    <2>1. SUFFICES ASSUME IsFree(m, p)
                   PROVE  /\ p \in H /\ p # end /\ s.block[p].prev = m.block[p].prev
                          /\ ~IsFree(m, m.block[p].prev) /\ ~IsFree(s, m.block[p].prev)
      OBVIOUS
    <2>2. p \in K /\ p < a /\ p \in H /\ p # a /\ p \in Nat
      BY <1>10, <1>16, <2>1 DEF IsFree
    <2>3. p # end
      BY <1>4, <2>1
    <2>4. s.block[p].prev = m.block[p].prev
      BY <1>12, <2>2, <2>3
    <2>5. ~IsFree(m, m.block[p].prev)
      BY <2>1, <2>2, NoFreeNeighbours DEF H
    <2>6. ~IsFree(s, m.block[p].prev)
      <3>1. m.block[p].prev # NULL => m.block[p].prev \in K /\ m.block[p].prev < p
        BY <1>15, <2>2, <2>4
      <3>2. m.block[p].prev # NULL => m.block[p].prev # a
        BY <1>2, <1>10, <2>2, <3>1
      <3> QED
        BY <1>13, <2>5, <3>1, <3>2 DEF IsFree
    <2> QED
      BY <2>2, <2>3, <2>4, <2>5, <2>6
  <1>18. IsFree(s, p) <=> IsFree(m, p)
    BY <1>13, <1>16 DEF IsFree
  <1>19. ASSUME NEW d \in K, IsFree(s, d), IsFree(s, s.block[d].next), s.block[d].next \in K
         PROVE  s.block[d].next = a
    <2>1. CASE d = a
      BY <1>8, <1>14, <1>19, <2>1
    <2>2. CASE d # a /\ s.block[d].next # a
      <3>1. IsFree(m, d) /\ IsFree(m, m.block[d].next) /\ d \in H
        BY <1>10, <1>12, <1>13, <1>19, <2>2
      <3> QED
        BY <3>1, NoFreeNeighbours DEF H
    <2> QED
      BY <2>1, <2>2
  <1>20. FewFreeBefore(s)
    <2>1. ASSUME NEW b \in K
          PROVE  LET c == s.block[b].prev
                     d == s.block[c].prev
                     e == s.block[d].prev
                 IN  /\ c # NULL => c \in K
                     /\ IsFree(s, c) /\ IsFree(s, d) => ~IsFree(s, e)
      <3> DEFINE c == s.block[b].prev
                 d == s.block[c].prev
                 e == s.block[d].prev
      <3>1. c # NULL => c \in K
        BY <1>15
      <3>2. SUFFICES ASSUME IsFree(s, c), IsFree(s, d), IsFree(s, e) PROVE FALSE
        BY <3>1
      <3>3. c \in K
        BY <3>1, <3>2 DEF IsFree
      <3> HIDE DEF c
      <3>4. d \in K /\ s.block[d].next = c
        BY <1>15, <3>2, <3>3 DEF IsFree
      <3>5. c = a
        BY <1>19, <3>2, <3>3, <3>4
      <3> HIDE DEF d
      <3>6. e \in K /\ s.block[e].next = d
        BY <1>15, <3>2, <3>4 DEF IsFree
      <3>7. d = a
        BY <1>19, <3>2, <3>4, <3>6
      <3>8. d < c
        BY <1>15, <3>2, <3>3 DEF d, IsFree
      <3> QED
        BY <1>2, <3>5, <3>7, <3>8
    <2> QED
      BY <2>1 DEF FewFreeBefore, K
  <1>21. IF IsFree(s, p) THEN Joined(s, t, p, a, end, Gap(s, p, end)) ELSE t = s
    <2>1. p = s.block[a].prev /\ end = s.block[a].next /\ a \in HeapBlocks(s)
      BY <1>8, <1>9 DEF K
    <2>2. NULL \notin DOMAIN s.block
      BY <1>1, <1>8
    <2>3. \A b \in HeapBlocks(s) : b \in Nat
      BY <1>10 DEF K
    <2>4. end = NULL \/ (end \in HeapBlocks(s) /\ a < end)
      BY <1>11 DEF K
    <2>5. IsFree(s, p) => ~IsFree(s, s.block[p].prev) /\ Before(HeapBlocks(s), a, p)
      <3>1. Before(HeapBlocks(s), a, p)
        BY <1>7, <2>1 DEF Linked
      <3> QED
        BY <1>17, <1>18, <3>1
    <2> HIDE DEF p, t
    <2> QED
      BY <1>8, <1>20, <2>1, <2>2, <2>3, <2>4, <2>5, MergePrevIs DEF t
  <1>22. \A b \in G : b \notin Used(m)
    <2>1. ASSUME NEW b \in G PROVE IsFree(m, b)
      <3>1. b \in H /\ a < b /\ (end = NULL \/ b < end) /\ b \in Nat
        BY <1>2 DEF G
      <3>2. After(H, a, n)
        BY <1>1, <1>9 DEF Linked, H
      <3>3. n # NULL /\ n \in H /\ n <= b
        BY <1>2, <3>1, <3>2 DEF After
      <3>4. CASE IsFree(m, n)
        <4>1. After(H, n, end)
          BY <1>1, <3>3, <3>4 DEF Linked, H, end
        <4>2. b <= n
          <5>1. end # NULL => end \in Nat
            BY <1>2, <1>3
          <5> QED
            BY <3>1, <4>1, <5>1 DEF After
        <4>3. n \in Nat
          BY <1>2, <3>3
        <4> QED
          BY <3>1, <3>3, <3>4, <4>2, <4>3
      <3>5. CASE ~IsFree(m, n)
        <4>1. end = n
          BY <3>5 DEF end
        <4>2. n \in Nat /\ n # NULL /\ b \in Nat /\ n <= b /\ b < n
          BY <1>2, <3>1, <3>3, <4>1
        <4> QED
          BY <4>2
      <3> QED
        BY <3>4, <3>5
    <2> QED
      BY <2>1 DEF Used, IsFree
  <1>23. CASE ~IsFree(m, p)
    <2>1. t = s /\ r = SetSize(s, a, get_block_size(s, a))
      BY <1>6, <1>9, <1>18, <1>21, <1>23
    <2>2. Writes(s, r, a, Block("FREE", get_block_size(s, a), p, end)) /\ r.data = s.data
      <3> HIDE DEF p
      <3> DEFINE size == get_block_size(s, a)
      <3>1. a \in DOMAIN s.block
        BY <1>9
      <3> HIDE DEF size
      <3>2. Writes(s, SetSize(s, a, size), a,
                   Block(s.block[a].status, size, s.block[a].prev, s.block[a].next))
            /\ SetSize(s, a, size).data = s.data
        BY <1>8, <3>1, SetSizeIs
      <3> QED
        BY <1>8, <2>1, <3>2 DEF size
    <2>3. /\ IsMem(r) /\ r.start = m.start /\ r.brk = m.brk /\ r.data = m.data
          /\ DOMAIN r.block = DOMAIN s.block
          /\ \A x \in DOMAIN s.block : x # a => r.block[x] = s.block[x]
          /\ r.block[a] = Block("FREE", get_block_size(s, a), p, end)
      BY <1>8, <1>9, <2>2 DEF Writes, Rewrites
    <2>4. r.block[a].status = "FREE" /\ r.block[a].prev = p /\ r.block[a].next = end
          /\ r.block[a].size = get_block_size(s, a)
      BY <2>3, BlockFields
    <2>5. Freed(m, r, a, G, end)
      <3>1. end # NULL => end \in DOMAIN s.block /\ end # a
        BY <1>9, <1>11
      <3> QED
        BY <1>8, <2>3, <2>4, <3>1 DEF Freed
    <2>6. r.block[a].size = get_block_size(r, a)
      BY <1>8, <2>3, <2>4 DEF get_block_size, Gap, EndOf
    <2>7. end = NULL \/ (end \in HeapBlocks(m) /\ a < end)
      BY <1>3 DEF H
    <2>8. G = {x \in HeapBlocks(m) : a < x /\ (end = NULL \/ x < end)}
      BY DEF G, H
    <2>9. /\ Good(r)
          /\ \A b : (b \in Used(r) <=> b \in Used(m) /\ b # a /\ b \notin G)
          /\ \A b \in Used(r) : Same(m, r, b)
      BY <1>4, <1>23, <2>5, <2>6, <2>7, <2>8, FreedIsGood
    <2>10. Frees(m, r, a)
      <3>1. \A b : b \in Used(r) <=> b \in Used(m) /\ b # a
        BY <1>22, <2>9
      <3> QED
        BY <2>3, <2>9, <3>1 DEF Frees
    <2> QED
      BY <2>10 DEF r
  <1>24. CASE IsFree(m, p)
    <2>1. Joined(s, t, p, a, end, Gap(s, p, end))
      BY <1>18, <1>21, <1>24
    <2>2. p \in K /\ p \in H /\ p \in Nat /\ p < a /\ s.block[p].prev = m.block[p].prev /\ p # end
      BY <1>10, <1>16, <1>17, <1>24 DEF IsFree
    <2> HIDE DEF t
    <2>3. /\ IsMem(t) /\ t.start = m.start /\ t.brk = m.brk /\ t.data = m.data
          /\ DOMAIN t.block = DOMAIN s.block \ {a}
          /\ \A x \in DOMAIN t.block : x \notin {p, a, end} => t.block[x] = s.block[x]
          /\ t.block[p] = Block(s.block[p].status, Gap(s, p, end), s.block[p].prev, end)
      BY <1>8, <2>1 DEF Joined, Rewrites
    <2>4. r = t
      BY <1>6, <2>3 DEF t
    <2> HIDE DEF p
    <2>5. /\ t.block[p].status = "FREE" /\ t.block[p].prev = m.block[p].prev /\ t.block[p].next = end
          /\ t.block[p].size = Gap(s, p, end)
      <3>1. s.block[p].status = "FREE"
        BY <1>18, <1>24 DEF IsFree
      <3> QED
        BY <2>2, <2>3, <3>1, BlockFields
    <2> DEFINE G2 == {x \in H : p < x /\ (end = NULL \/ x < end)}
    <2>6. \A x \in H : x \in G2 <=> x = a \/ x \in G
      <3>1. Before(H, a, p)
        BY <1>1, <1>9 DEF Linked, H, p
      <3>2. \A x \in H : x <= p \/ a <= x
        BY <1>24, <3>1 DEF Before, IsFree
      <3>3. end # NULL => end \in Nat /\ a < end
        BY <1>2, <1>3
      <3>4. ASSUME NEW x \in H
            PROVE  p < x /\ (end = NULL \/ x < end) <=> x = a \/ (a < x /\ (end = NULL \/ x < end))
        <4>1. x \in Nat
          BY <1>2
        <4> QED
          BY <1>2, <2>2, <3>2, <3>3, <4>1
      <3> QED
        BY <3>4 DEF G
    <2> HIDE DEF G2
    <2>7. DOMAIN t.block = DOMAIN m.block \ G2
      <3>1. G2 \subseteq H /\ G \subseteq H
        BY DEF G2, G
      <3>2. \A x : x \in G2 <=> x = a \/ x \in G
        BY <1>9, <2>6, <3>1
      <3> QED
        BY <1>8, <2>3, <3>2
    <2>8. end # NULL => t.block[end] = Block(m.block[end].status, m.block[end].size, p, m.block[end].next)
      <3>1. end # NULL => t.block[end] = Block(s.block[end].status, s.block[end].size, p, s.block[end].next)
        BY <2>1 DEF Joined
      <3>2. end # NULL => s.block[end].size = m.block[end].size
        BY <1>8, BlockFields
      <3> QED
        BY <1>11, <1>12, <3>1, <3>2
    <2>9. Freed(m, t, p, G2, end)
      <3>1. \A x \in DOMAIN t.block : x # p /\ x # end => t.block[x] = m.block[x]
        BY <1>8, <2>3
      <3> QED
        BY <2>3, <2>5, <2>7, <2>8, <3>1 DEF Freed
    <2>10. t.block[p].size = get_block_size(t, p)
      BY <1>8, <2>3, <2>5 DEF get_block_size, Gap, EndOf
    <2>11. end = NULL \/ (end \in HeapBlocks(m) /\ p < end)
      <3>1. end # NULL => end \in Nat
        BY <1>2, <1>3
      <3> QED
        BY <1>2, <1>3, <2>2, <3>1 DEF H
    <2>12. G2 = {x \in HeapBlocks(m) : p < x /\ (end = NULL \/ x < end)}
      BY DEF G2, H
    <2>13. p \in HeapBlocks(m)
      BY <2>2 DEF H
    <2>14. ~IsFree(m, m.block[p].prev)
      BY <1>17, <1>24 DEF p
    <2>15. /\ Good(t)
           /\ \A b : (b \in Used(t) <=> b \in Used(m) /\ b # p /\ b \notin G2)
           /\ \A b \in Used(t) : Same(m, t, b)
      BY <1>4, <2>9, <2>10, <2>11, <2>12, <2>13, <2>14, FreedIsGood
    <2>16. \A b : b \in Used(t) <=> b \in Used(m) /\ b # a
      <3>1. p \notin Used(m)
        BY <1>24 DEF Used, IsFree
      <3>2. G2 \subseteq H /\ G \subseteq H
        BY DEF G2, G
      <3>3. \A b : b \in G2 <=> b = a \/ b \in G
        BY <1>9, <2>6, <3>2
      <3> QED
        BY <1>22, <2>15, <3>1, <3>3
    <2> QED
      BY <2>3, <2>4, <2>15, <2>16 DEF Frees, r
  <1> QED
    BY <1>23, <1>24 DEF r

\* The heap is the same; only mappings come and go.
LEMMA SameHeap ==
    ASSUME NEW m, Good(m), NEW r, r.start = m.start, r.brk = m.brk, HeapBlocks(r) = HeapBlocks(m),
           \A x \in HeapBlocks(m) : r.block[x] = m.block[x], Mapped(r)
    PROVE  /\ Good(r)
           /\ \A x \in HeapBlocks(m) : get_block_size(r, x) = get_block_size(m, x)
  <1>1. Linked(m) /\ Placed(m) /\ Started(m) /\ Sized(m)
    BY DEF Good
  <1>2. Linked(r) /\ Placed(r) /\ Started(r)
    BY <1>1 DEF Linked, Placed, Started
  <1>3. \A x \in HeapBlocks(m) : get_block_size(r, x) = get_block_size(m, x)
    BY DEF get_block_size, Gap, EndOf
  <1>4. ASSUME NEW x \in HeapBlocks(m) PROVE SizedAt(r, x)
    <2>1. SizedAt(m, x)
      BY <1>1 DEF Sized
    <2>2. m.block[x].next # NULL => m.block[x].next \in HeapBlocks(m)
      BY <1>1 DEF Linked, After
    <2>3. IsFree(r, m.block[x].next) <=> IsFree(m, m.block[x].next)
      BY <2>2 DEF IsFree
    <2> QED
      BY <1>3, <2>1, <2>3 DEF SizedAt
  <1> QED
    BY <1>2, <1>3, <1>4 DEF Good, Sized

\* os_free of a mapping.
LEMMA FreeMapped ==
    ASSUME NEW m, IsMem(m), Good(m), NEW a \in DOMAIN m.block, m.block[a].status = "MAPPED"
    PROVE  Frees(m, os_free(m, a + METADATA_SIZE), a)
  <1> DEFINE r == os_free(m, a + METADATA_SIZE)
  <1>1. a \in Nat
    BY OsMemAssumption DEF Good, Mapped
  <1>2. r = DropBlocks(m, {a})
    <2>1. (a + METADATA_SIZE) - METADATA_SIZE = a
      BY <1>1, Constants
    <2> QED
      BY <2>1 DEF os_free
  <1> HIDE DEF r
  <1>3. /\ IsMem(r) /\ r.start = m.start /\ r.brk = m.brk /\ r.data = m.data
        /\ DOMAIN r.block = DOMAIN m.block \ {a}
        /\ \A x \in DOMAIN r.block : r.block[x] = m.block[x]
    BY <1>2, DropBlocksIs DEF Rewrites
  <1>4. \A x : x \in HeapBlocks(r) <=> x \in HeapBlocks(m)
    BY <1>3 DEF HeapBlocks
  <1>5. HeapBlocks(r) = HeapBlocks(m)
    BY <1>4
  <1>6. \A x \in HeapBlocks(m) : r.block[x] = m.block[x]
    BY <1>3, <1>5 DEF HeapBlocks
  <1>7. Mapped(r)
    BY <1>3 DEF Good, Mapped
  <1>8. Good(r) /\ \A x \in HeapBlocks(m) : get_block_size(r, x) = get_block_size(m, x)
    BY <1>3, <1>5, <1>6, <1>7, SameHeap
  <1>9. \A b : b \in Used(r) <=> b \in Used(m) /\ b # a
    BY <1>3 DEF Used
  <1>10. \A b \in Used(r) : Same(m, r, b)
    <2>1. ASSUME NEW b \in Used(r) PROVE Same(m, r, b)
      <3>1. b \in Used(m) /\ b \in DOMAIN r.block /\ r.block[b] = m.block[b]
        BY <1>3, <1>9 DEF Used
      <3>2. Room(r, b) = Room(m, b)
        BY <1>3, <1>8, <3>1 DEF Room, HeapBlocks
      <3> QED
        BY <3>1, <3>2 DEF Same
    <2> QED
      BY <2>1
  <1> QED
    BY <1>3, <1>8, <1>9, <1>10 DEF Frees, r

\* os_free gives back the block it is called with and nothing else.
LEMMA FreeIs ==
    ASSUME NEW m, IsMem(m), Good(m), NEW a \in Used(m)
    PROVE  Frees(m, os_free(m, a + METADATA_SIZE), a)
  <1>1. CASE m.block[a].status = "MAPPED"
    BY <1>1, FreeMapped DEF Used
  <1>2. CASE m.block[a].status # "MAPPED"
    <2>1. a \in HeapBlocks(m) /\ m.block[a].status = "ALLOC"
      BY <1>2 DEF Used, HeapBlocks, Good, Sized, SizedAt
    <2> QED
      BY <2>1, FreeAlloc
  <1> QED
    BY <1>1, <1>2

-----------------------------------------------------------------------------
(* The bytes of the blocks                                                   *)

\* The bytes the program may use of block a.
Extent(m, a) == Bytes(a + METADATA_SIZE, Room(m, a))

\* Blocks do not overlap, wherever they are.
LEMMA WholeApart ==
    ASSUME NEW m, Good(m), NEW a \in DOMAIN m.block
    PROVE  /\ a \in Nat /\ Room(m, a) \in Nat
           /\ \A b \in DOMAIN m.block : a < b => a + METADATA_SIZE + Room(m, a) <= b
  <1>1. Linked(m) /\ Placed(m) /\ Mapped(m)
    BY DEF Good
  <1>2. METADATA_SIZE \in Nat /\ m.brk \in Nat
    BY <1>1, Constants DEF Placed
  <1>3. CASE m.block[a].status = "MAPPED"
    <2>1. a \in MapAddresses /\ m.block[a].size \in Sizes /\ Room(m, a) = m.block[a].size
      BY <1>1, <1>3 DEF Mapped, Room
    <2>2. a \in Nat /\ Room(m, a) \in Nat
      BY <2>1, OsMemAssumption
    <2>3. ASSUME NEW b \in DOMAIN m.block, a < b PROVE a + METADATA_SIZE + Room(m, a) <= b
      <3>1. b \in MapAddresses
        <4>1. m.brk < a
          BY <1>1, <2>1 DEF Placed
        <4>2. b \in HeapBlocks(m) => b \in Nat /\ b + METADATA_SIZE <= m.brk
          BY <1>1 DEF Placed
        <4>3. b \notin HeapBlocks(m)
          BY <1>2, <2>2, <2>3, <4>1, <4>2
        <4> QED
          BY <1>1, <4>3 DEF Mapped, HeapBlocks
      <3> QED
        BY <2>1, <2>3, <3>1, OsMemAssumption
    <2> QED
      BY <2>2, <2>3
  <1>4. CASE m.block[a].status # "MAPPED"
    <2> DEFINE e == EndOf(m, m.block[a].next)
    <2>1. a \in HeapBlocks(m) /\ Room(m, a) = get_block_size(m, a)
      BY <1>4 DEF HeapBlocks, Room
    <2>2. a \in Nat /\ e \in Nat /\ get_block_size(m, a) \in Nat
          /\ get_block_size(m, a) = e - a - METADATA_SIZE
      BY <1>1, <2>1, BlockReaches
    <2> HIDE DEF e
    <2>3. a + METADATA_SIZE + Room(m, a) = e
      BY <1>2, <2>1, <2>2
    <2>4. ASSUME NEW b \in DOMAIN m.block, a < b PROVE e <= b
      <3>1. CASE b \in HeapBlocks(m)
        BY <1>1, <2>1, <2>4, <3>1, BlocksApart DEF e
      <3>2. CASE b \notin HeapBlocks(m)
        <4>1. b \in MapAddresses /\ b \in Nat /\ m.brk < b
          BY <1>1, <3>2, OsMemAssumption DEF Mapped, HeapBlocks, Placed
        <4>2. e <= m.brk
          <5>1. m.block[a].next # NULL => m.block[a].next \in HeapBlocks(m)
            BY <1>1, <2>1 DEF Linked, After
          <5>2. \A x \in HeapBlocks(m) : x \in Nat /\ x + METADATA_SIZE <= m.brk
            BY <1>1 DEF Placed
          <5>3. \A x \in HeapBlocks(m) : x <= m.brk
            BY <1>2, <5>2
          <5> QED
            BY <1>2, <5>1, <5>3 DEF e, EndOf
        <4> QED
          BY <1>2, <2>2, <4>1, <4>2
      <3> QED
        BY <3>1, <3>2
    <2> QED
      BY <2>1, <2>2, <2>3, <2>4
  <1> QED
    BY <1>3, <1>4

\* No block's bytes are those of a block_meta or of another block.
LEMMA ExtentsApart ==
    ASSUME NEW m, Good(m), NEW a \in DOMAIN m.block, NEW x \in Extent(m, a), NEW b \in DOMAIN m.block
    PROVE  x \notin Bytes(b, METADATA_SIZE) /\ (b # a => x \notin Extent(m, b))
  <1>1. /\ a \in Nat /\ b \in Nat /\ Room(m, a) \in Nat /\ Room(m, b) \in Nat
        /\ a < b => a + METADATA_SIZE + Room(m, a) <= b
        /\ b < a => b + METADATA_SIZE + Room(m, b) <= a
    BY WholeApart
  <1>2. METADATA_SIZE \in Nat
    BY Constants
  <1>3. x \in Int /\ a + METADATA_SIZE <= x /\ x < a + METADATA_SIZE + Room(m, a)
    BY <1>1, <1>2 DEF Extent, Bytes
  <1>4. x \notin Bytes(b, METADATA_SIZE)
    <2>1. ~(b <= x /\ x < b + METADATA_SIZE)
      BY <1>1, <1>2, <1>3
    <2> QED
      BY <1>1, <1>2, <2>1 DEF Bytes
  <1>5. ASSUME b # a PROVE x \notin Extent(m, b)
    <2>1. ~(b + METADATA_SIZE <= x /\ x < b + METADATA_SIZE + Room(m, b))
      BY <1>1, <1>2, <1>3, <1>5
    <2> QED
      BY <1>1, <1>2, <2>1 DEF Bytes, Extent
  <1> QED
    BY <1>4, <1>5

\* The bytes of the blocks in use before and after are still what they were.
DataKept(m, r) ==
    \A b : b \in Used(m) /\ b \in Used(r) =>
        \A x \in Extent(r, b) :
            x \in DOMAIN m.data => x \in DOMAIN r.data /\ r.data[x] = m.data[x]

\* A new block_meta is never within the bytes of a block in use.
LEMMA PutKeepsData ==
    ASSUME NEW m, NEW r, Good(r), NEW new,
           \/ r.data = m.data
           \/ /\ new \in DOMAIN r.block
              /\ r.data = Restrict(m.data, DOMAIN m.data \ Bytes(new, METADATA_SIZE))
    PROVE  DataKept(m, r)
  <1>1. CASE r.data = m.data
    BY <1>1 DEF DataKept
  <1>2. CASE /\ new \in DOMAIN r.block
             /\ r.data = Restrict(m.data, DOMAIN m.data \ Bytes(new, METADATA_SIZE))
    <2>1. ASSUME NEW b \in Used(r), NEW x \in Extent(r, b), x \in DOMAIN m.data
          PROVE  x \in DOMAIN r.data /\ r.data[x] = m.data[x]
      <3>1. x \notin Bytes(new, METADATA_SIZE)
        BY <1>2, <2>1, ExtentsApart DEF Used
      <3> QED
        BY <1>2, <2>1, <3>1 DEF Restrict
    <2> QED
      BY <2>1 DEF DataKept
  <1> QED
    BY <1>1, <1>2

-----------------------------------------------------------------------------
(* Taking a block into use                                                   *)

\* Block a of the heap is in use afterwards, `size` bytes long or longer and with
\* the size `recorded`; the other blocks in use are the same.
Reuses(m, r, a, size, recorded) ==
    /\ IsMem(r) /\ Good(r) /\ r.brk <= limit
    /\ a \in HeapBlocks(r) /\ r.block[a].status = "ALLOC" /\ r.block[a].size = recorded
    /\ size <= get_block_size(r, a)
    /\ \A b : b \in Used(r) <=> b \in Used(m) \/ b = a
    /\ \A b \in Used(m) : b # a => Same(m, r, b)
    /\ DataKept(m, r)

\* A block made of a splice can be used again, for as much as it holds.
LEMMA SpliceReuses ==
    ASSUME NEW m, Good(m), NEW r, IsMem(r), NEW a, NEW end, NEW new,
           Splices(m, r, a, end, new), Fits(m, r, a, end, new), Keeps(m, r, {a, new}),
           NEW size, NEW recorded \in Nat,
           r.block[a].status = "ALLOC", r.block[a].size = recorded,
           recorded <= get_block_size(r, a), size <= get_block_size(r, a),
           new # NULL => SizedAt(r, new) /\ r.block[new].status = "FREE",
           \A x \in HeapBlocks(m) : a < x /\ (end = NULL \/ x < end) => IsFree(m, x),
           \/ r.data = m.data
           \/ /\ new # NULL
              /\ r.data = Restrict(m.data, DOMAIN m.data \ Bytes(new, METADATA_SIZE)),
           r.brk <= limit
    PROVE  Reuses(m, r, a, size, recorded)
  <1>1. Linked(m) /\ Placed(m) /\ NULL \notin DOMAIN m.block
    BY NullIsNoAddress DEF Good
  <1>2. a \in HeapBlocks(m) /\ a \in Nat /\ a \in HeapBlocks(r)
    <2>1. a \in HeapBlocks(m) /\ a \in Nat
      BY <1>1 DEF Splices, Placed
    <2>2. a <= a
      BY <2>1
    <2> QED
      BY <2>1, <2>2 DEF Splices
  <1>3. SizedAt(r, a)
    BY DEF SizedAt
  <1>4. Good(r)
    BY <1>3, SpliceIsGood
  <1>5. new # NULL => new \in HeapBlocks(r) /\ a < new /\ new \in Nat /\ (end # NULL => new < end)
    BY DEF Splices
  <1>6. DataKept(m, r)
    <2>1. new # NULL => new \in DOMAIN r.block
      BY <1>5 DEF HeapBlocks
    <2> QED
      BY <1>4, <2>1, PutKeepsData
  <1>7. \A x \in HeapBlocks(m) : x \notin HeapBlocks(r) => IsFree(m, x)
    <2>1. ASSUME NEW x \in HeapBlocks(m), x \notin HeapBlocks(r) PROVE IsFree(m, x)
      <3>1. ~(x <= a \/ (end # NULL /\ end <= x))
        BY <2>1 DEF Splices
      <3>2. x \in Nat /\ (end # NULL => end \in Nat)
        BY <1>1 DEF Placed, Splices
      <3>3. a < x /\ (end = NULL \/ x < end)
        BY <1>2, <3>1, <3>2
      <3> QED
        BY <3>3
    <2> QED
      BY <2>1
  <1>8. new # NULL => new \notin Used(m)
    <2>1. SUFFICES ASSUME new # NULL, new \in Used(m) PROVE FALSE
      OBVIOUS
    <2>2. new \in HeapBlocks(r) /\ r.block[new].status = "FREE"
      BY <1>5, <2>1
    <2>3. new \in HeapBlocks(m)
      BY <2>1, <2>2 DEF Keeps, Used, HeapBlocks
    <2>4. IsFree(m, new)
      BY <1>5, <2>1, <2>3
    <2> QED
      BY <2>1, <2>4 DEF IsFree, Used
  <1>9. ASSUME NEW b, b # a, b # new
        PROVE  (b \in Used(r) <=> b \in Used(m)) /\ (b \in Used(r) => Same(m, r, b))
    <2>1. /\ b \in Used(r) <=> b \in Used(m) /\ (b \in HeapBlocks(m) => b \in HeapBlocks(r))
          /\ b \in Used(r) => Same(m, r, b)
      BY <1>1, <1>9, SpliceSame
    <2>2. b \in Used(m) => (b \in HeapBlocks(m) => b \in HeapBlocks(r))
      BY <1>7 DEF Used, IsFree
    <2> QED
      BY <2>1, <2>2
  <1>10. ASSUME NEW b, b # a
         PROVE  (b \in Used(r) <=> b \in Used(m)) /\ (b \in Used(r) => Same(m, r, b))
    <2>1. CASE b # new
      BY <1>9, <1>10, <2>1
    <2>2. CASE b = new /\ new # NULL
      <3>1. new \notin Used(r)
        BY <2>2 DEF Used
      <3> QED
        BY <1>8, <2>2, <3>1
    <2>3. CASE b = new /\ new = NULL
      <3>1. NULL \notin Used(r)
        BY <1>4, NullIsNoAddress DEF Used
      <3> QED
        BY <1>1, <2>3, <3>1 DEF Used
    <2> QED
      BY <2>1, <2>2, <2>3
  <1>11. a \in Used(r)
    BY <1>2 DEF Used, HeapBlocks
  <1> QED
    BY <1>2, <1>4, <1>6, <1>10, <1>11 DEF Reuses

\* Nothing moves: block a is in use from now on, and may have grown with the break.
LEMMA ResizeReuses ==
    ASSUME NEW m, Good(m), NEW r, IsMem(r), NEW a \in HeapBlocks(m),
           NEW size, NEW recorded \in Nat, NEW l,
           Writes(l, r, a, Block("ALLOC", recorded, m.block[a].prev, m.block[a].next)),
           r.data = m.data, l.start = m.start, l.block = m.block, l.brk = r.brk,
           r.brk \in Nat, Aligned(r.brk), m.brk <= r.brk, r.brk <= limit,
           \A x \in MapAddresses : r.brk < x,
           m.block[a].next = NULL \/ r.brk = m.brk,
           recorded <= Gap(r, a, m.block[a].next), size <= Gap(r, a, m.block[a].next)
    PROVE  Reuses(m, r, a, size, recorded) /\ a \in HeapBlocks(r)
           /\ get_block_size(r, a) = Gap(r, a, m.block[a].next)
  <1> DEFINE H == HeapBlocks(m)
             end == m.block[a].next
  <1>1. Linked(m) /\ Placed(m) /\ NULL \notin H
    BY NullIsNoBlock DEF Good
  <1>2. /\ r.start = m.start /\ DOMAIN r.block = DOMAIN m.block
        /\ \A x \in DOMAIN m.block : x # a => r.block[x] = m.block[x]
        /\ r.block[a] = Block("ALLOC", recorded, m.block[a].prev, end)
    <2>1. a \in DOMAIN m.block
      BY DEF HeapBlocks
    <2> QED
      BY <2>1 DEF Writes, Rewrites
  <1>3. /\ r.block[a].status = "ALLOC" /\ r.block[a].size = recorded
        /\ r.block[a].prev = m.block[a].prev /\ r.block[a].next = end
    BY <1>2, BlockFields
  <1>4. \A x : x \in HeapBlocks(r) <=> x \in H
    BY <1>2, <1>3 DEF HeapBlocks
  <1>5. a \in Nat /\ (\A x \in H : x \in Nat)
    BY <1>1 DEF Placed
  <1>6. After(H, a, end)
    BY <1>1 DEF Linked
  <1>7. end # NULL => end \in H /\ a < end /\ m.block[end].prev = a
    <2>1. end # NULL => m.block[end].prev = a
      BY <1>1, PrevAndNext
    <2> QED
      BY <1>6, <2>1 DEF After
  <1> HIDE DEF end
  <1>8. Splices(m, r, a, end, NULL)
    <2>1. \A x \in HeapBlocks(r) : x \in H /\ (x <= a \/ (end # NULL /\ end <= x))
      BY <1>4, <1>5, <1>6 DEF After
    <2>2. \A x \in HeapBlocks(r) : /\ r.block[x].next = IF x = a THEN end ELSE m.block[x].next
                                   /\ r.block[x].prev = IF x = end THEN a ELSE m.block[x].prev
      <3>1. \A x \in HeapBlocks(r) : x # a => r.block[x] = m.block[x]
        BY <1>2 DEF HeapBlocks
      <3>2. \A x \in HeapBlocks(r) : x # NULL
        BY <1>1, <1>4
      <3>3. a # end
        BY <1>1, <1>5, <1>7
      <3> QED
        BY <1>3, <1>7, <3>1, <3>2, <3>3
    <2> HIDE DEF H
    <2>3. NULL \notin HeapBlocks(r)
      BY <1>1, <1>4
    <2> QED
      BY <1>4, <1>7, <2>1, <2>2, <2>3 DEF Splices, H
  <1>9. Fits(m, r, a, end, NULL)
    BY DEF Fits, end
  <1>10. Keeps(m, r, {a, NULL})
    BY <1>2, <1>3 DEF Keeps, HeapBlocks
  <1>11. get_block_size(r, a) = Gap(r, a, end)
    BY <1>3 DEF get_block_size
  <1>12. \A x \in HeapBlocks(m) : a < x /\ (end = NULL \/ x < end) => IsFree(m, x)
    <2>1. ASSUME NEW x \in H, a < x, end = NULL \/ x < end PROVE FALSE
      <3>1. x \in Nat /\ (end # NULL => end \in Nat)
        BY <1>5, <1>7
      <3> QED
        BY <1>5, <1>6, <2>1, <3>1 DEF After
    <2> QED
      BY <2>1
  <1>13. recorded <= get_block_size(r, a) /\ size <= get_block_size(r, a)
    BY <1>11 DEF end
  <1>14. Reuses(m, r, a, size, recorded)
    BY <1>3, <1>8, <1>9, <1>10, <1>12, <1>13, SpliceReuses
  <1> QED
    BY <1>4, <1>11, <1>14 DEF end


\* Block a as it is, or grown with the break, is put to use at `size` bytes.
LEMMA ReuseAs ==
    ASSUME NEW m, Good(m), limit \in HeapLimits, NEW a \in HeapBlocks(m), NEW size \in Nat,
           NEW l, IsMem(l), l.start = m.start, l.block = m.block, l.data = m.data,
           l.brk \in Nat, Aligned(l.brk), m.brk <= l.brk, l.brk <= limit,
           m.block[a].next = NULL \/ l.brk = m.brk, size <= Gap(l, a, m.block[a].next)
    PROVE  /\ Reuses(m, InUse(l, a, size), a, size, size)
           /\ m.block[a].status = "ALLOC" => Reuses(m, SetSize(l, a, size), a, size, size)
  <1>1. \A x \in MapAddresses : l.brk < x
    <2>1. limit \in Nat /\ \A x \in MapAddresses : limit < x /\ x \in Nat
      BY OsMemAssumption
    <2> QED
      BY <2>1
  <1>2. a \in DOMAIN l.block
    BY DEF HeapBlocks
  <1>3. ASSUME NEW r, r.data = l.data,
               Writes(l, r, a, Block("ALLOC", size, m.block[a].prev, m.block[a].next))
        PROVE  Reuses(m, r, a, size, size)
    <2>1. IsMem(r) /\ r.brk = l.brk
      BY <1>3 DEF Writes, Rewrites
    <2>2. size <= Gap(r, a, m.block[a].next)
      BY <2>1 DEF Gap, EndOf
    <2> QED
      BY <1>1, <1>3, <2>1, <2>2, ResizeReuses
  <1>4. Reuses(m, InUse(l, a, size), a, size, size)
    BY <1>2, <1>3, InUseIs
  <1>5. ASSUME m.block[a].status = "ALLOC" PROVE Reuses(m, SetSize(l, a, size), a, size, size)
    BY <1>2, <1>3, <1>5, SetSizeIs
  <1> QED
    BY <1>4, <1>5

\* A block that is large enough is used whole.
LEMMA ReuseWhole ==
    ASSUME NEW m, IsMem(m), Good(m), limit \in HeapLimits, m.brk <= limit, NEW a \in HeapBlocks(m),
           NEW size \in Nat, size <= get_block_size(m, a)
    PROVE  /\ Reuses(m, InUse(m, a, size), a, size, size)
           /\ m.block[a].status = "ALLOC" => Reuses(m, SetSize(m, a, size), a, size, size)
  <1>1. m.brk \in Nat /\ Aligned(m.brk) /\ m.brk <= m.brk
    BY DEF Good, Placed
  <1>2. size <= Gap(m, a, m.block[a].next)
    BY DEF get_block_size
  <1> QED
    BY <1>1, <1>2, ReuseAs

\* The last block is used once the break has moved.
LEMMA ReuseGrown ==
    ASSUME NEW m, IsMem(m), Good(m), limit \in HeapLimits, NEW a \in HeapBlocks(m),
           m.block[a].next = NULL, NEW n \in Nat, Aligned(n), CanGrow(m, n),
           NEW size \in Nat, size <= get_block_size(m, a) + n
    PROVE  /\ Reuses(m, InUse(sbrk(m, n), a, size), a, size, size)
           /\ m.block[a].status = "ALLOC" => Reuses(m, SetSize(sbrk(m, n), a, size), a, size, size)
  <1> DEFINE l == sbrk(m, n)
  <1>1. m.brk \in Nat /\ Aligned(m.brk) /\ a \in Nat
    BY DEF Good, Placed
  <1>2. IsMem(l) /\ l.start = m.start /\ l.brk = m.brk + n /\ l.block = m.block /\ l.data = m.data
    BY SbrkIs
  <1> HIDE DEF l
  <1>3. l.brk \in Nat /\ Aligned(l.brk) /\ m.brk <= l.brk /\ l.brk <= limit
    <2>1. Aligned(l.brk)
      <3>1. Aligned(m.brk + n)
        <4>1. m.brk \in Int /\ Aligned(m.brk) /\ n \in Int
          BY <1>1
        <4> QED
          BY <4>1, AlignedSum
      <3> QED
        BY <1>2, <3>1
    <2>2. l.brk = m.brk + n /\ m.brk + n <= limit
      BY <1>2 DEF CanGrow
    <2>3. m.brk + n \in Nat /\ m.brk <= m.brk + n
      BY <1>1
    <2> QED
      BY <2>1, <2>2, <2>3
  <1>4. get_block_size(m, a) = m.brk - a - METADATA_SIZE
    BY DEF get_block_size, Gap, EndOf
  <1>5. size <= Gap(l, a, NULL)
    BY <1>1, <1>2, <1>4, Constants DEF Gap, EndOf
  <1> QED
    BY <1>2, <1>3, <1>5, ReuseAs DEF l

-----------------------------------------------------------------------------
(* Splitting                                                                 *)

\* Where the remainder of block a begins when `size` bytes are split off.
Remainder(a, size) == a + ALIGN(size) + METADATA_SIZE

\* The remainder lies within the block.
LEMMA SplitFits ==
    ASSUME NEW m, IsMem(m), Good(m), NEW a \in HeapBlocks(m), NEW size \in Nat,
           CanSplit(get_block_size(m, a), size)
    PROVE  LET new == Remainder(a, size)
               next == m.block[a].next
           IN  /\ new \in Nat /\ Aligned(new) /\ a + METADATA_SIZE <= new /\ a < new
               /\ size <= new - a - METADATA_SIZE
               /\ new + METADATA_SIZE <= EndOf(m, next)
               /\ new \notin DOMAIN m.block /\ new # NULL
  <1> DEFINE new == Remainder(a, size)
             next == m.block[a].next
             e == EndOf(m, next)
  <1>1. Linked(m) /\ Placed(m) /\ Mapped(m)
    BY DEF Good
  <1>2. a \in Nat /\ Aligned(a) /\ (\A x \in HeapBlocks(m) : x \in Nat)
    BY <1>1 DEF Placed
  <1>3. e \in Nat /\ get_block_size(m, a) = e - a - METADATA_SIZE
    BY <1>1, BlockReaches
  <1>4. ALIGN(size) \in Int /\ Aligned(ALIGN(size)) /\ size <= ALIGN(size)
    BY AlignUp
  <1>5. ALIGN(1) \in Int /\ 1 <= ALIGN(1)
    BY AlignUp
  <1>6. METADATA_SIZE \in Nat /\ METADATA_SIZE > 0 /\ Aligned(METADATA_SIZE)
    BY Constants
  <1>7. e - a - METADATA_SIZE >= ALIGN(size) + METADATA_SIZE + ALIGN(1)
    BY <1>3 DEF CanSplit
  <1>8. new = a + ALIGN(size) + METADATA_SIZE
    BY DEF Remainder
  <1> HIDE DEF new, e
  <1>9. /\ new \in Nat /\ a + METADATA_SIZE <= new /\ a < new
        /\ size <= new - a - METADATA_SIZE /\ new + METADATA_SIZE <= e /\ new # 0
    BY <1>2, <1>3, <1>4, <1>5, <1>6, <1>7, <1>8
  <1>10. Aligned(new)
    <2>1. PICK x \in Int : x = a + ALIGN(size)
      BY <1>2, <1>4
    <2>2. Aligned(x)
      BY <1>2, <1>4, <2>1, AlignedAdds
    <2> QED
      BY <1>6, <1>8, <2>1, <2>2, AlignedAdds
  <1>11. new \notin HeapBlocks(m)
    <2>1. SUFFICES ASSUME new \in HeapBlocks(m) PROVE FALSE
      OBVIOUS
    <2>2. e <= new
      BY <1>1, <1>9, <2>1, BlocksApart DEF e
    <2> QED
      BY <1>3, <1>6, <1>9, <2>2
  <1>12. new \notin MapAddresses
    <2>1. SUFFICES ASSUME new \in MapAddresses PROVE FALSE
      OBVIOUS
    <2>2. m.brk < new /\ m.brk \in Nat
      BY <1>1, <2>1 DEF Placed
    <2>3. e <= m.brk
      <3>1. next # NULL => next \in HeapBlocks(m)
        BY <1>1 DEF Linked, After
      <3>2. \A x \in HeapBlocks(m) : x \in Nat /\ x + METADATA_SIZE <= m.brk
        BY <1>1 DEF Placed
      <3>3. \A x \in HeapBlocks(m) : x <= m.brk
        BY <1>6, <2>2, <3>2
      <3> QED
        BY <2>2, <3>1, <3>3 DEF e, EndOf
    <2> QED
      BY <1>3, <1>6, <1>9, <2>2, <2>3
  <1>13. new \notin DOMAIN m.block
    BY <1>1, <1>11, <1>12 DEF Mapped, HeapBlocks
  <1> QED
    BY <1>9, <1>10, <1>13 DEF e, new, NULL

\* In r there is a block b at new, end follows it, and the blocks G are gone.
Inserted(m, r, new, b, end, G) ==
    /\ IsMem(r) /\ r.start = m.start /\ r.brk = m.brk
    /\ r.data = Restrict(m.data, DOMAIN m.data \ Bytes(new, METADATA_SIZE))
    /\ DOMAIN r.block = (DOMAIN m.block \ G) \cup {new}
    /\ r.block[new] = b
    /\ end # NULL => r.block[end] =
           Block(m.block[end].status, m.block[end].size, new, m.block[end].next)
    /\ \A x \in DOMAIN r.block : x # new /\ x # end => r.block[x] = m.block[x]

\* split_block puts the block of what remains into the list.
LEMMA InsertIs ==
    ASSUME NEW m, IsMem(m), NEW a, NEW new, new # NULL, new \notin DOMAIN m.block, NEW n,
           n = NULL \/ n \in DOMAIN m.block
    PROVE  Inserted(m, SetPrev(PutBlock(m, new, Block("FREE", 0, a, n)), n, new),
                    new, Block("FREE", 0, a, n), n, {})
  <1> DEFINE b == Block("FREE", 0, a, n)
             p == PutBlock(m, new, b)
             r == SetPrev(p, n, new)
  <1>1. Writes(m, p, new, b) /\ p.data = Restrict(m.data, DOMAIN m.data \ Bytes(new, METADATA_SIZE))
    <2>1. Puts(m, p, new, b)
      BY PutBlockIs
    <2> QED
      BY <2>1 DEF Puts
  <1> HIDE DEF b, p
  <1>2. /\ IsMem(p) /\ p.start = m.start /\ p.brk = m.brk
        /\ DOMAIN p.block = DOMAIN m.block \cup {new} /\ p.block[new] = b
        /\ \A x \in DOMAIN m.block : p.block[x] = m.block[x]
    BY <1>1 DEF Writes, Rewrites
  <1>3. CASE n = NULL
    <2>1. r = p
      BY <1>3 DEF SetPrev
    <2> HIDE DEF r
    <2>2. Inserted(m, r, new, b, n, {})
      BY <1>1, <1>2, <1>3, <2>1 DEF Inserted
    <2> QED
      BY <2>2 DEF r, p, b
  <1>4. CASE n # NULL
    <2>1. n \in DOMAIN p.block /\ p.block[n] = m.block[n] /\ n # new
      BY <1>2, <1>4
    <2>2. Writes(p, r, n, Block(p.block[n].status, p.block[n].size, new, p.block[n].next))
          /\ r.data = p.data
      BY <1>2, <1>4, <2>1, SetPrevIs
    <2> HIDE DEF r
    <2>3. /\ IsMem(r) /\ r.start = p.start /\ r.brk = p.brk /\ DOMAIN r.block = DOMAIN p.block \cup {n}
          /\ r.block[n] = Block(m.block[n].status, m.block[n].size, new, m.block[n].next)
          /\ \A x \in DOMAIN p.block : x # n => r.block[x] = p.block[x]
      BY <2>1, <2>2 DEF Writes, Rewrites
    <2>4. DOMAIN r.block = (DOMAIN m.block \ {}) \cup {new} /\ r.block[new] = b
      BY <1>2, <2>1, <2>3
    <2>5. \A x \in DOMAIN r.block : x # new /\ x # n => r.block[x] = m.block[x]
      BY <1>2, <2>3, <2>4
    <2>6. Inserted(m, r, new, b, n, {})
      BY <1>1, <1>2, <2>2, <2>3, <2>4, <2>5 DEF Inserted
    <2> QED
      BY <2>6 DEF r, p, b
  <1> QED
    BY <1>3, <1>4

\* The remainder takes in the block after it, if that is free.
LEMMA RemainderMerges ==
    ASSUME NEW m, IsMem(m), Good(m), NEW a \in HeapBlocks(m), NEW new \in Nat, a < new,
           new \notin DOMAIN m.block, new + METADATA_SIZE <= EndOf(m, m.block[a].next),
           NEW n, n = m.block[a].next, NEW end, end = IF IsFree(m, n) THEN m.block[n].next ELSE n,
           NEW G, G = IF IsFree(m, n) THEN {n} ELSE {},
           NEW l, Inserted(m, l, new, Block("FREE", 0, a, n), n, {})
    PROVE  \E z : Inserted(m, merge_next_block(l, new), new, Block("FREE", z, a, end), end, G)
  <1> DEFINE H == HeapBlocks(m)
             L == HeapBlocks(l)
             r == merge_next_block(l, new)
             size == Gap(l, new, end)
  <1>1. Linked(m) /\ Placed(m) /\ NULL \notin H /\ NULL \notin DOMAIN m.block
    BY NullIsNoBlock, NullIsNoAddress DEF Good
  <1>2. (\A x \in H : x \in Nat /\ x < m.brk) /\ m.brk \in Nat
    BY <1>1, Constants DEF Placed
  <1>3. n \in H \cup {NULL} /\ a < new /\ new # NULL /\ a \in Nat
    BY <1>1, <1>2 DEF Linked, After, NULL
  <1>4. H \subseteq DOMAIN m.block /\ a # new
    BY <1>2 DEF HeapBlocks
  <1>5. /\ IsMem(l) /\ l.start = m.start /\ l.brk = m.brk
        /\ DOMAIN l.block = DOMAIN m.block \cup {new} /\ l.block[new] = Block("FREE", 0, a, n)
        /\ l.data = Restrict(m.data, DOMAIN m.data \ Bytes(new, METADATA_SIZE))
        /\ n # NULL => l.block[n] = Block(m.block[n].status, m.block[n].size, new, m.block[n].next)
        /\ \A x \in DOMAIN l.block : x # new /\ x # n => l.block[x] = m.block[x]
    BY DEF Inserted
  <1>6. l.block[new].status = "FREE" /\ l.block[new].next = n /\ l.block[new].prev = a
    BY <1>5, BlockFields
  <1>7. \A x \in DOMAIN m.block : l.block[x].status = m.block[x].status /\ l.block[x].size = m.block[x].size
                                  /\ l.block[x].next = m.block[x].next
    <2>1. n # NULL => l.block[n].status = m.block[n].status /\ l.block[n].size = m.block[n].size
                      /\ l.block[n].next = m.block[n].next
      BY <1>5, BlockFields
    <2>2. \A x \in DOMAIN m.block : x \in DOMAIN l.block /\ x # new /\ x # NULL
      BY <1>1, <1>5
    <2> QED
      BY <1>5, <2>1, <2>2
  <1>8. \A x : x \in L <=> x \in H \/ x = new
    BY <1>5, <1>6, <1>7 DEF HeapBlocks
  <1>9. \A x \in H \cup {NULL} : IsFree(l, x) <=> IsFree(m, x)
    BY <1>4, <1>7 DEF IsFree
  <1>10. \A x \in H : After(H, x, m.block[x].next)
    BY <1>1 DEF Linked
  <1>11. \A x \in H : m.block[x].next \in H \cup {NULL}
    BY <1>10 DEF After
  <1>12. \A x \in H : IsFree(m, x) => ~IsFree(m, m.block[x].next)
    BY NoFreeNeighbours
  <1>13. FewFree(l)
    <2>1. \A x \in H : l.block[x].next = m.block[x].next
      BY <1>4, <1>7
    <2>2. \A x \in H : l.block[x].next \in H \cup {NULL} /\ (IsFree(l, x) => ~IsFree(l, l.block[x].next))
      BY <1>9, <1>11, <1>12, <2>1
    <2>3. \A x \in L : l.block[x].next \in H \cup {NULL}
      BY <1>3, <1>6, <1>8, <2>2
    <2>4. ~IsFree(l, NULL)
      BY DEF IsFree
    <2>5. ASSUME NEW x \in L
          PROVE  LET c == l.block[x].next
                     d == l.block[c].next
                     e == l.block[d].next
                 IN  /\ c \in L \cup {NULL}
                     /\ IsFree(l, x) /\ IsFree(l, c) /\ IsFree(l, d) => ~IsFree(l, e)
      <3>1. l.block[x].next \in H \cup {NULL}
        BY <2>3
      <3>2. l.block[x].next \in L \cup {NULL}
        BY <1>8, <3>1
      <3>3. IsFree(l, l.block[x].next) => ~IsFree(l, l.block[l.block[x].next].next)
        BY <2>2, <2>4, <3>1
      <3> QED
        BY <3>2, <3>3
    <2>6. NULL \notin L
      BY <1>1, <1>3, <1>8
    <2> HIDE DEF L
    <2>7. NULL \notin HeapBlocks(l)
      BY <2>6 DEF L
    <2> QED
      BY <2>5, <2>7 DEF FewFree, L
  <1>14. \A b \in L : b \in Nat /\ b < l.brk
    <2>1. new < m.brk
      <3>1. EndOf(m, n) \in Nat /\ EndOf(m, n) <= m.brk
        <4>1. CASE n = NULL
          <5>1. EndOf(m, n) = m.brk
            BY <4>1 DEF EndOf
          <5> QED
            BY <1>2, <5>1
        <4>2. CASE n # NULL
          <5>1. EndOf(m, n) = n /\ n \in H
            BY <1>3, <4>2 DEF EndOf
          <5> QED
            BY <1>2, <5>1
        <4> QED
          BY <4>1, <4>2
      <3> QED
        BY <1>2, <3>1, Constants
    <2> QED
      BY <1>2, <1>5, <1>8, <2>1
  <1>15. ASSUME IsFree(m, n)
         PROVE  /\ n \in H /\ end = m.block[n].next /\ ~IsFree(m, end) /\ end \in H \cup {NULL}
                /\ After(L, new, n) /\ After(L, n, end) /\ end # n /\ end # new /\ end # a /\ n # a /\ n # new
    <2>1. n \in H /\ n # NULL /\ end = m.block[n].next
      BY <1>3, <1>15 DEF IsFree
    <2>2. ~IsFree(m, end) /\ end \in H \cup {NULL} /\ After(H, n, end)
      BY <1>10, <1>11, <1>12, <1>15, <2>1
    <2>3. a < n /\ (\A c \in H : c <= a \/ n <= c) /\ n \in Nat
      BY <1>2, <1>10, <2>1 DEF After
    <2>4. new < n
      BY <1>2, <2>1, <2>3, Constants DEF EndOf
    <2>5. end # NULL => n < end /\ end \in Nat
      BY <1>2, <2>2 DEF After
    <2> HIDE DEF L, H
    <2>6. After(L, new, n)
      <3>1. \A c \in L : c <= new \/ n <= c
        <4>1. ASSUME NEW c \in H PROVE c <= new \/ n <= c
          <5>1. c \in Nat /\ (c <= a \/ n <= c)
            BY <1>2, <2>3, <4>1
          <5> QED
            BY <1>3, <5>1
        <4>2. new <= new
          OBVIOUS
        <4> QED
          BY <1>8, <4>1, <4>2
      <3> QED
        BY <1>8, <2>1, <2>4, <3>1 DEF After
    <2>7. After(L, n, end)
      <3>1. end = NULL => \A c \in L : c <= n
        BY <1>8, <2>2, <2>3, <2>4 DEF After
      <3>2. end # NULL => end \in L /\ n < end /\ \A c \in L : c <= n \/ end <= c
        BY <1>8, <2>2, <2>3, <2>4 DEF After
      <3> QED
        BY <3>1, <3>2 DEF After
    <2>8. end # n /\ end # new /\ end # a /\ n # a /\ n # new
      <3>1. end = NULL => end # n /\ end # new /\ end # a
        BY <1>1, <1>3, <2>1 DEF H
      <3> QED
        BY <1>3, <2>3, <2>4, <2>5, <3>1
    <2> QED
      BY <2>1, <2>2, <2>6, <2>7, <2>8 DEF L, H
  <1>16. IF IsFree(l, n) THEN Joined(l, r, new, n, end, size) ELSE r = l
    <2>1. IsFree(l, n) => /\ end = l.block[n].next /\ ~IsFree(l, end)
                          /\ After(L, new, n) /\ After(L, n, end)
      <3>1. SUFFICES ASSUME IsFree(l, n)
                     PROVE  end = l.block[n].next /\ ~IsFree(l, end) /\ After(L, new, n) /\ After(L, n, end)
        OBVIOUS
      <3>2. IsFree(m, n)
        BY <1>3, <1>9, <3>1
      <3>3. n \in DOMAIN m.block
        BY <1>4, <1>15, <3>2
      <3> HIDE DEF L, H
      <3> QED
        BY <1>7, <1>9, <1>15, <3>2, <3>3
    <2>2. NULL \notin DOMAIN l.block /\ l.brk \in Nat /\ new \in L
      BY <1>1, <1>2, <1>3, <1>5, <1>8
    <2> HIDE DEF size, r
    <2> QED
      BY <1>5, <1>6, <1>13, <1>14, <2>1, <2>2, MergeNextIs DEF size, r
  <1> HIDE DEF r, size
  <1>17. CASE ~IsFree(m, n)
    <2>1. r = l /\ end = n /\ G = {}
      BY <1>3, <1>9, <1>16, <1>17
    <2> QED
      BY <2>1 DEF r
  <1>18. CASE IsFree(m, n)
    <2>1. Joined(l, r, new, n, end, size) /\ G = {n}
      BY <1>3, <1>9, <1>16, <1>18
    <2>2. /\ IsMem(r) /\ r.start = l.start /\ r.brk = l.brk /\ r.data = l.data
          /\ DOMAIN r.block = DOMAIN l.block \ {n}
          /\ \A x \in DOMAIN r.block : x \notin {new, n, end} => r.block[x] = l.block[x]
          /\ r.block[new] = Block(l.block[new].status, size, l.block[new].prev, end)
          /\ end # NULL => r.block[end] = Block(l.block[end].status, l.block[end].size, new, l.block[end].next)
      BY <2>1 DEF Joined, Rewrites
    <2>3. r.block[new] = Block("FREE", size, a, end)
      BY <1>6, <2>2
    <2>4. end # NULL => r.block[end] = Block(m.block[end].status, m.block[end].size, new, m.block[end].next)
      BY <1>4, <1>7, <1>15, <1>18, <2>2
    <2>5. DOMAIN r.block = (DOMAIN m.block \ G) \cup {new}
      BY <1>5, <1>15, <1>18, <2>1, <2>2
    <2>6. \A x \in DOMAIN r.block : x # new /\ x # end => r.block[x] = m.block[x]
      BY <1>5, <2>2, <2>5
    <2>7. Inserted(m, r, new, Block("FREE", size, a, end), end, G)
      BY <1>5, <2>2, <2>3, <2>4, <2>5, <2>6 DEF Inserted
    <2> QED
      BY <2>7 DEF r
  <1> QED
    BY <1>17, <1>18

\* Block a is in use up to new, where the remainder begins, which end follows.
Split(m, r, a, size, new, end, G) ==
    /\ IsMem(r) /\ r.start = m.start /\ r.brk = m.brk
    /\ r.data = Restrict(m.data, DOMAIN m.data \ Bytes(new, METADATA_SIZE))
    /\ DOMAIN r.block = (DOMAIN m.block \ G) \cup {new}
    /\ r.block[a] = Block("ALLOC", size, m.block[a].prev, new)
    /\ r.block[new] = Block("FREE", Gap(m, new, end), a, end)
    /\ end # NULL => r.block[end] =
           Block(m.block[end].status, m.block[end].size, new, m.block[end].next)
    /\ \A x \in DOMAIN r.block : x # a /\ x # new /\ x # end => r.block[x] = m.block[x]

\* split_block, as a whole (osmem.c:40-67).
LEMMA SplitIs ==
    ASSUME NEW m, IsMem(m), Good(m), NEW a \in HeapBlocks(m), NEW size \in Nat,
           CanSplit(get_block_size(m, a), size), NEW new, new = Remainder(a, size),
           NEW n, n = m.block[a].next, NEW end, end = IF IsFree(m, n) THEN m.block[n].next ELSE n,
           NEW G, G = IF IsFree(m, n) THEN {n} ELSE {}
    PROVE  /\ Split(m, split_block(m, a, size), a, size, new, end, G)
           /\ end = NULL \/ (end \in HeapBlocks(m) /\ a < end /\ new < end)
  <1> DEFINE H == HeapBlocks(m)
             l == SetPrev(PutBlock(m, new, Block("FREE", 0, a, n)), n, new)
             g == merge_next_block(l, new)
             u == [g EXCEPT !.block[a] = Block("ALLOC", size, m.block[a].prev, new)]
             r == split_block(m, a, size)
  <1>1. Linked(m) /\ Placed(m) /\ NULL \notin H /\ NULL \notin DOMAIN m.block
    BY NullIsNoBlock, NullIsNoAddress DEF Good
  <1>2. /\ new \in Nat /\ Aligned(new) /\ a + METADATA_SIZE <= new /\ a < new
        /\ new + METADATA_SIZE <= EndOf(m, n) /\ new \notin DOMAIN m.block /\ new # NULL
    BY SplitFits
  <1>3. n \in H \cup {NULL} /\ a \in DOMAIN m.block /\ a \in Nat /\ H \subseteq DOMAIN m.block
    BY <1>1 DEF Linked, After, HeapBlocks, Placed
  <1>4. Inserted(m, l, new, Block("FREE", 0, a, n), n, {})
    BY <1>2, <1>3, InsertIs
  <1> HIDE DEF l
  <1>5. PICK z : Inserted(m, g, new, Block("FREE", z, a, end), end, G)
    BY <1>2, <1>4, RemainderMerges
  <1> HIDE DEF g
  <1>6. end = NULL \/ (end \in H /\ a < end /\ new < end /\ end # new /\ end # a)
    <2>1. n # NULL => n \in H /\ a < n /\ n \in Nat
      BY <1>1 DEF Linked, After, Placed
    <2>2. n # NULL => new < n
      <3>1. n # NULL => EndOf(m, n) = n
        BY DEF EndOf
      <3> QED
        BY <1>2, <2>1, <3>1, Constants
    <2>3. IsFree(m, n) => n # NULL /\ (end = NULL \/ (end \in H /\ n < end /\ end \in Nat))
      BY <1>1, <2>1 DEF Linked, After, Placed, IsFree
    <2> QED
      BY <1>2, <1>3, <2>1, <2>2, <2>3
  <1>7. /\ IsMem(g) /\ g.start = m.start /\ g.brk = m.brk
        /\ g.data = Restrict(m.data, DOMAIN m.data \ Bytes(new, METADATA_SIZE))
        /\ DOMAIN g.block = (DOMAIN m.block \ G) \cup {new}
        /\ g.block[new] = Block("FREE", z, a, end)
        /\ end # NULL => g.block[end] =
               Block(m.block[end].status, m.block[end].size, new, m.block[end].next)
        /\ \A x \in DOMAIN g.block : x # new /\ x # end => g.block[x] = m.block[x]
    BY <1>5 DEF Inserted
  <1>8. a \in DOMAIN g.block /\ a # new /\ a # end /\ new \in DOMAIN g.block
    <2>1. a # new /\ a # end
      BY <1>1, <1>2, <1>3, <1>6
    <2>2. a \notin G
      <3>1. n # NULL => a < n
        BY <1>1 DEF Linked, After
      <3>2. ~(a < a)
        BY <1>3
      <3>3. n # a
        BY <1>1, <3>1, <3>2
      <3> QED
        BY <3>3
    <2> QED
      BY <1>3, <1>7, <2>1, <2>2
  <1>9. g.block[a] = m.block[a]
    BY <1>7, <1>8
  <1>10. Writes(g, u, a, Block("ALLOC", size, m.block[a].prev, new)) /\ u.data = g.data
    BY <1>7, <1>8, UpdateBlock
  <1> HIDE DEF u
  <1>11. /\ IsMem(u) /\ u.start = m.start /\ u.brk = m.brk /\ DOMAIN u.block = DOMAIN g.block
         /\ u.block[a] = Block("ALLOC", size, m.block[a].prev, new)
         /\ u.block[new] = Block("FREE", z, a, end)
         /\ \A x \in DOMAIN g.block : x # a => u.block[x] = g.block[x]
    <2>1. IsMem(u) /\ u.start = g.start /\ u.brk = g.brk /\ u.block[a] = Block("ALLOC", size, m.block[a].prev, new)
      BY <1>10 DEF Writes, Rewrites
    <2>2. DOMAIN u.block = DOMAIN g.block
      BY <1>8, <1>10 DEF Writes
    <2>3. \A x \in DOMAIN g.block : x # a => u.block[x] = g.block[x]
      BY <1>10, <2>2 DEF Writes, Rewrites
    <2>4. u.block[new] = Block("FREE", z, a, end)
      BY <1>7, <1>8, <2>3
    <2>5. g.start = m.start /\ g.brk = m.brk
      BY <1>7
    <2> QED
      BY <2>1, <2>2, <2>3, <2>4, <2>5
  <1>12. get_block_size(g, new) = Gap(m, new, end)
    <2>1. g.block[new].next = end
      <3>1. g.block[new] = Block("FREE", z, a, end)
        BY <1>7
      <3>2. Block("FREE", z, a, end).next = end
        BY BlockFields
      <3> QED
        BY <3>1, <3>2
    <2>2. get_block_size(g, new) = Gap(g, new, end)
      BY <2>1 DEF get_block_size
    <2>3. EndOf(g, end) = EndOf(m, end)
      BY <1>7 DEF EndOf
    <2> QED
      BY <2>2, <2>3 DEF Gap
  <1>13. r = SetSize(u, new, Gap(m, new, end))
    <2>1. r = SetSize([g EXCEPT !.block[a] = Block("ALLOC", size, @.prev, new)],
                      new, get_block_size(g, new))
      BY DEF split_block, g, l, Remainder
    <2>2. [g EXCEPT !.block[a] = Block("ALLOC", size, @.prev, new)] =
          [g EXCEPT !.block[a] = Block("ALLOC", size, g.block[a].prev, new)]
      OBVIOUS
    <2>3. [g EXCEPT !.block[a] = Block("ALLOC", size, @.prev, new)] = u
      BY <1>9, <2>2 DEF u
    <2> HIDE DEF r
    <2> QED
      BY <1>12, <2>1, <2>3
  <1>14. Writes(u, r, new, Block(u.block[new].status, Gap(m, new, end), u.block[new].prev, u.block[new].next))
         /\ r.data = u.data
    <2>1. IsMem(u) /\ new \in DOMAIN u.block
      BY <1>8, <1>11
    <2> QED
      BY <1>13, <2>1, SetSizeIs
  <1> HIDE DEF r
  <1>15. Block(u.block[new].status, Gap(m, new, end), u.block[new].prev, u.block[new].next) =
             Block("FREE", Gap(m, new, end), a, end)
    <2>1. u.block[new].status = "FREE" /\ u.block[new].prev = a /\ u.block[new].next = end
      BY <1>11, BlockFields
    <2> QED
      BY <2>1
  <1>16. /\ IsMem(r) /\ r.start = m.start /\ r.brk = m.brk /\ r.data = g.data
         /\ DOMAIN r.block = DOMAIN g.block
         /\ r.block[new] = Block("FREE", Gap(m, new, end), a, end)
         /\ \A x \in DOMAIN u.block : x # new => r.block[x] = u.block[x]
    BY <1>8, <1>10, <1>11, <1>14, <1>15 DEF Writes, Rewrites
  <1>17. r.block[a] = Block("ALLOC", size, m.block[a].prev, new)
    BY <1>8, <1>11, <1>16
  <1>18. end # NULL => r.block[end] =
             Block(m.block[end].status, m.block[end].size, new, m.block[end].next)
    <2>1. end # NULL => end \in DOMAIN g.block
      <3>1. SUFFICES ASSUME end # NULL PROVE end \notin G /\ end \in DOMAIN m.block
        BY <1>7
      <3>2. ASSUME IsFree(m, n) PROVE end # n
        <4>1. n \in H /\ n < end /\ n \in Nat
          BY <1>1, <1>3, <3>1, <3>2 DEF Linked, After, Placed, IsFree
        <4> QED
          BY <4>1
      <3> QED
        BY <1>3, <1>6, <3>1, <3>2
    <2>2. end # NULL => end # a /\ end # new
      BY <1>3, <1>6
    <2>3. end # NULL => r.block[end] = u.block[end] /\ u.block[end] = g.block[end]
      BY <1>11, <1>16, <2>1, <2>2
    <2> QED
      BY <1>7, <2>3
  <1>19. \A x \in DOMAIN r.block : x # a /\ x # new /\ x # end => r.block[x] = m.block[x]
    BY <1>7, <1>11, <1>16
  <1>20. Split(m, r, a, size, new, end, G)
    BY <1>7, <1>16, <1>17, <1>18, <1>19 DEF Split
  <1> QED
    BY <1>6, <1>20 DEF r

\* split_block puts block a to use at `size` bytes.
LEMMA SplitReuses ==
    ASSUME NEW m, IsMem(m), Good(m), m.brk <= limit, NEW a \in HeapBlocks(m), NEW size \in Nat,
           CanSplit(get_block_size(m, a), size)
    PROVE  /\ Reuses(m, split_block(m, a, size), a, size, size)
           /\ get_block_size(split_block(m, a, size), a) <= get_block_size(m, a)
  <1> DEFINE H == HeapBlocks(m)
             n == m.block[a].next
             end == IF IsFree(m, n) THEN m.block[n].next ELSE n
             G == IF IsFree(m, n) THEN {n} ELSE {}
             new == Remainder(a, size)
             r == split_block(m, a, size)
             K == HeapBlocks(r)
  <1>1. Linked(m) /\ Placed(m) /\ NULL \notin H /\ NULL \notin DOMAIN m.block
    BY NullIsNoBlock, NullIsNoAddress DEF Good
  <1>2. /\ new \in Nat /\ Aligned(new) /\ a + METADATA_SIZE <= new /\ a < new
        /\ size <= new - a - METADATA_SIZE
        /\ new + METADATA_SIZE <= EndOf(m, n) /\ new \notin DOMAIN m.block /\ new # NULL
    BY SplitFits
  <1>3. /\ Split(m, r, a, size, new, end, G)
        /\ end = NULL \/ (end \in H /\ a < end /\ new < end)
    BY SplitIs
  <1>4. /\ a \in Nat /\ (\A x \in H : x \in Nat) /\ H \subseteq DOMAIN m.block
        /\ m.brk \in Nat
    BY <1>1 DEF Placed, HeapBlocks
  <1> HIDE DEF r, new
  <1>5. /\ n \in H \cup {NULL} /\ (n # NULL => a < n /\ \A c \in H : c <= a \/ n <= c)
        /\ n = NULL => \A c \in H : c <= a
    BY <1>1 DEF Linked, After
  <1>6. IsFree(m, n) => /\ n \in H
                        /\ IF end = NULL THEN \A c \in H : c <= n
                           ELSE n < end /\ \A c \in H : c <= n \/ end <= c
    <2>1. SUFFICES ASSUME IsFree(m, n)
                   PROVE  /\ n \in H
                          /\ IF end = NULL THEN \A c \in H : c <= n
                             ELSE n < end /\ \A c \in H : c <= n \/ end <= c
      OBVIOUS
    <2>2. n \in H /\ n \in Nat
      BY <1>4, <1>5, <2>1 DEF IsFree
    <2>3. After(H, n, end)
      BY <1>1, <2>1, <2>2 DEF Linked
    <2> HIDE DEF end
    <2> QED
      BY <2>2, <2>3 DEF After
  <1>7. \A x \in H : x \notin G <=> (x <= a \/ (end # NULL /\ end <= x))
    <2>1. ASSUME NEW x \in H PROVE x \notin G <=> (x <= a \/ (end # NULL /\ end <= x))
      <3>1. CASE IsFree(m, n)
        <4>1. G = {n} /\ n \in Nat /\ x \in Nat /\ n # NULL
          BY <1>4, <1>6, <3>1 DEF IsFree
        <4>2. end # NULL => end \in Nat
          BY <1>3, <1>4
        <4>3. /\ a < n /\ (x <= a \/ n <= x)
              /\ IF end = NULL THEN x <= n ELSE n < end /\ (x <= n \/ end <= x)
          BY <1>5, <1>6, <3>1, <4>1
        <4> HIDE DEF end, n, G
        <4>4. x = n <=> ~(x <= a \/ (end # NULL /\ end <= x))
          BY <1>4, <4>1, <4>2, <4>3
        <4> QED
          BY <4>1, <4>4
      <3>2. CASE ~IsFree(m, n)
        BY <1>4, <1>5, <3>2
      <3> QED
        BY <3>1, <3>2
    <2> QED
      BY <2>1
  <1> HIDE DEF G, end
  <1>8. a \notin G /\ (end # NULL => end \notin G)
    <2>1. a <= a
      BY <1>4
    <2>2. end # NULL => end <= end
      <3>1. SUFFICES ASSUME end # NULL PROVE end <= end
        OBVIOUS
      <3>2. end \in H
        BY <1>3, <3>1
      <3>3. end \in Nat
        BY <1>4, <3>2
      <3> QED
        BY <3>3
    <2> QED
      BY <1>3, <1>7, <2>1, <2>2
  <1>9. /\ IsMem(r) /\ r.start = m.start /\ r.brk = m.brk
        /\ r.data = Restrict(m.data, DOMAIN m.data \ Bytes(new, METADATA_SIZE))
        /\ DOMAIN r.block = (DOMAIN m.block \ G) \cup {new}
        /\ r.block[a].status = "ALLOC" /\ r.block[a].size = size
        /\ r.block[a].prev = m.block[a].prev /\ r.block[a].next = new
        /\ r.block[new].status = "FREE" /\ r.block[new].size = Gap(m, new, end)
        /\ r.block[new].prev = a /\ r.block[new].next = end
        /\ \A x \in DOMAIN r.block : x # a /\ x # new /\ x # end => r.block[x] = m.block[x]
    BY <1>3, BlockFields DEF Split
  <1>10. end # NULL => /\ r.block[end].status = m.block[end].status
                       /\ r.block[end].size = m.block[end].size
                       /\ r.block[end].next = m.block[end].next /\ r.block[end].prev = new
    <2>1. end # NULL => r.block[end] =
             Block(m.block[end].status, m.block[end].size, new, m.block[end].next)
      BY <1>3 DEF Split
    <2> QED
      BY <2>1, BlockFields
  <1>11. \A x \in DOMAIN r.block : x # a /\ x # new =>
             /\ r.block[x].status = m.block[x].status /\ r.block[x].size = m.block[x].size
             /\ r.block[x].next = m.block[x].next
             /\ (x # end => r.block[x].prev = m.block[x].prev)
    <2>1. \A x \in DOMAIN r.block : x # NULL
      BY <1>1, <1>2, <1>9
    <2> QED
      BY <1>9, <1>10, <2>1
  <1>12. a # new /\ a # end /\ a \in DOMAIN r.block
    BY <1>1, <1>2, <1>3, <1>4, <1>8, <1>9
  <1>13. \A x : x \in K <=> (x \in H /\ x \notin G) \/ x = new
    <2>1. ASSUME NEW x PROVE x \in K <=> (x \in H /\ x \notin G) \/ x = new
      <3>1. CASE x = new
        BY <1>9, <3>1 DEF HeapBlocks
      <3>2. CASE x = a
        BY <1>8, <1>9, <1>12, <3>2 DEF HeapBlocks
      <3>3. CASE x # new /\ x # a
        BY <1>9, <1>11, <3>3 DEF HeapBlocks
      <3> QED
        BY <3>1, <3>2, <3>3
    <2> QED
      BY <2>1
  <1>14. Splices(m, r, a, end, new)
    <2>1. end # NULL => end \in H /\ a < end /\ new < end
      BY <1>3
    <2>2. NULL \notin K
      BY <1>1, <1>2, <1>13
    <2>3. \A x \in K : x # new => x \in H /\ (x <= a \/ (end # NULL /\ end <= x))
      BY <1>7, <1>13
    <2>4. \A x \in H : x <= a \/ (end # NULL /\ end <= x) => x \in K
      BY <1>7, <1>13
    <2>5. \A x \in K : x # new => /\ r.block[x].next = IF x = a THEN new ELSE m.block[x].next
                                  /\ r.block[x].prev = IF x = end THEN new ELSE m.block[x].prev
      <3>1. \A x \in K : x \in DOMAIN r.block /\ x # NULL
        BY <2>2 DEF HeapBlocks
      <3>2. ASSUME NEW x \in K, x # new
            PROVE  /\ r.block[x].next = IF x = a THEN new ELSE m.block[x].next
                   /\ r.block[x].prev = IF x = end THEN new ELSE m.block[x].prev
        <4>1. CASE x = a
          BY <1>9, <1>12, <4>1
        <4>2. CASE x = end
          BY <1>10, <1>12, <3>1, <4>2
        <4>3. CASE x # a /\ x # end
          BY <1>11, <3>1, <3>2, <4>3
        <4> QED
          BY <4>1, <4>2, <4>3
      <3> QED
        BY <3>2
    <2>6. new \in K
      BY <1>13
    <2> HIDE DEF K, H
    <2> QED
      BY <1>2, <1>9, <2>1, <2>2, <2>3, <2>4, <2>5, <2>6 DEF Splices, K, H
  <1>15. new + METADATA_SIZE <= EndOf(m, end)
    <2>1. CASE IsFree(m, n)
      <3>1. n \in H /\ n \in Nat /\ EndOf(m, n) = n
        BY <1>1, <1>4, <1>6, <2>1 DEF EndOf
      <3>2. EndOf(m, end) \in Nat /\ n + METADATA_SIZE <= EndOf(m, end)
        BY <1>1, <2>1, <3>1, BlockReaches DEF end
      <3> QED
        BY <1>2, <3>1, <3>2, Constants
    <2>2. CASE ~IsFree(m, n)
      BY <1>2, <2>2 DEF end
    <2> QED
      BY <2>1, <2>2
  <1>16. Fits(m, r, a, end, new)
    <2>1. EndOf(r, end) = EndOf(m, end)
      BY <1>9 DEF EndOf
    <2> QED
      BY <1>1, <1>2, <1>9, <1>15, <2>1 DEF Fits, Placed
  <1>17. Keeps(m, r, {a, new})
    <2>1. \A x \in DOMAIN m.block : m.block[x].status = "MAPPED" =>
              x \in DOMAIN r.block /\ x # a /\ x # new
      <3>1. G \subseteq H
        BY <1>6 DEF G
      <3> QED
        BY <1>2, <1>9, <3>1 DEF HeapBlocks
    <2>2. \A x \in DOMAIN r.block : x # new => x \in DOMAIN m.block
      BY <1>9
    <2>3. \A x : x \in DOMAIN r.block /\ r.block[x].status = "MAPPED" <=>
                 x \in DOMAIN m.block /\ m.block[x].status = "MAPPED"
      BY <1>9, <1>11, <2>1, <2>2
    <2>4. \A x \in DOMAIN m.block : m.block[x].status = "MAPPED" => r.block[x].size = m.block[x].size
      BY <1>11, <2>1
    <2>5. \A x \in K : x \notin {a, new} =>
              r.block[x].status = m.block[x].status /\ r.block[x].size = m.block[x].size
      BY <1>11 DEF HeapBlocks
    <2> QED
      BY <1>9, <2>3, <2>4, <2>5 DEF Keeps
  <1>18. Linked(r) /\ Placed(r)
    BY <1>1, <1>14, <1>16, SpliceLinks, SplicePlaces
  <1>19. SizedAt(r, new)
    <2>1. new \in K
      BY <1>13
    <2>2. get_block_size(r, new) = Gap(m, new, end) /\ get_block_size(r, new) \in Nat
      <3>1. get_block_size(r, new) \in Nat
        BY <1>18, <2>1, BlockReaches
      <3> QED
        BY <1>9, <3>1 DEF get_block_size, Gap, EndOf
    <2>3. ~IsFree(r, end)
      <3>1. ~IsFree(m, end)
        BY <1>6, NoFreeNeighbours DEF end
      <3> QED
        BY <1>10, <3>1 DEF IsFree
    <2> QED
      BY <1>9, <2>2, <2>3 DEF SizedAt
  <1>20. size <= get_block_size(r, a)
    <2>1. get_block_size(r, a) = new - a - METADATA_SIZE
      BY <1>2, <1>9 DEF get_block_size, Gap, EndOf
    <2> QED
      BY <1>2, <2>1
  <1>21. \A x \in H : a < x /\ (end = NULL \/ x < end) => IsFree(m, x)
    <2>1. ASSUME NEW x \in H, a < x, end = NULL \/ x < end PROVE IsFree(m, x)
      <3>1. ~(x <= a \/ (end # NULL /\ end <= x))
        <4>1. x \in Nat /\ (end # NULL => end \in Nat)
          BY <1>3, <1>4
        <4> QED
          BY <1>4, <2>1, <4>1
      <3>2. x \in G
        BY <1>7, <3>1
      <3> QED
        BY <3>2 DEF G
    <2> QED
      BY <2>1
  <1>22. Reuses(m, r, a, size, size)
    <2>1. r.brk <= limit
      BY <1>9
    <2>2. IsMem(r) /\ r.block[a].status = "ALLOC" /\ r.block[a].size = size
      BY <1>9
    <2>3. new # NULL => SizedAt(r, new) /\ r.block[new].status = "FREE"
      BY <1>9, <1>19
    <2>4. /\ new # NULL
          /\ r.data = Restrict(m.data, DOMAIN m.data \ Bytes(new, METADATA_SIZE))
      BY <1>2, <1>9
    <2> HIDE DEF H, n
    <2> QED
      BY <1>14, <1>16, <1>17, <1>20, <1>21, <2>1, <2>2, <2>3, <2>4, SpliceReuses DEF H
  <1>23. get_block_size(r, a) <= get_block_size(m, a)
    <2>1. get_block_size(r, a) = new - a - METADATA_SIZE
      BY <1>2, <1>9 DEF get_block_size, Gap, EndOf
    <2>2. EndOf(m, n) \in Nat /\ get_block_size(m, a) = EndOf(m, n) - a - METADATA_SIZE
      BY <1>1, BlockReaches
    <2> QED
      BY <1>2, <1>4, <2>1, <2>2, Constants
  <1> QED
    BY <1>22, <1>23 DEF r

-----------------------------------------------------------------------------
(* Extending the heap                                                        *)

\* get_last_block finds the block with the highest address.
LEMMA LastBlock ==
    ASSUME NEW m, Good(m), HeapBlocks(m) # {}
    PROVE  /\ get_last_block(m) \in HeapBlocks(m) /\ m.block[get_last_block(m)].next = NULL
           /\ \A c \in HeapBlocks(m) : c <= get_last_block(m)
  <1> DEFINE H == HeapBlocks(m)
  <1>1. Linked(m) /\ Placed(m)
    BY DEF Good
  <1>2. m.brk \in Nat /\ \A x \in H : x \in Nat /\ x + METADATA_SIZE <= m.brk
    BY <1>1 DEF Placed
  <1>3. \A x \in H : x <= m.brk
    BY <1>2, Constants
  <1>4. \A x \in H : After(H, x, m.block[x].next)
    BY <1>1 DEF Linked
  <1>5. get_last_block(m) = CHOOSE x \in H : m.block[x].next = NULL
    BY DEF get_last_block
  <1>6. H # {} /\ H \in SUBSET Nat
    BY <1>2
  <1> HIDE DEF H
  <1>7. PICK l \in H : \A y \in H : y <= l
    BY <1>2, <1>3, <1>6, LargestNumber
  <1>8. m.block[l].next = NULL
    <2>1. SUFFICES ASSUME m.block[l].next # NULL PROVE FALSE
      OBVIOUS
    <2>2. m.block[l].next \in H /\ l < m.block[l].next
      BY <1>4, <2>1 DEF After
    <2>3. l \in Nat /\ m.block[l].next \in Nat /\ m.block[l].next <= l
      BY <1>2, <1>7, <2>2
    <2> QED
      BY <2>2, <2>3
  <1>9. get_last_block(m) \in H /\ m.block[get_last_block(m)].next = NULL
    BY <1>5, <1>7, <1>8
  <1>10. \A c \in H : c <= get_last_block(m)
    BY <1>4, <1>9 DEF After
  <1> QED
    BY <1>9, <1>10 DEF H

\* A new block at the break, which grows by n.
Append(m, last, size, n) ==
    PutBlock([sbrk(m, n) EXCEPT !.block[last].next = m.brk], m.brk, Block("ALLOC", size, last, NULL))

\* It follows the last block, and is where the break was.
Appended(m, r, last, size, n) ==
    /\ IsMem(r) /\ r.start = m.start /\ r.brk = m.brk + n
    /\ r.data = Restrict(m.data, DOMAIN m.data \ Bytes(m.brk, METADATA_SIZE))
    /\ DOMAIN r.block = DOMAIN m.block \cup {m.brk}
    /\ r.block[m.brk] = Block("ALLOC", size, last, NULL)
    /\ r.block[last] = Block(m.block[last].status, m.block[last].size, m.block[last].prev, m.brk)
    /\ \A x \in DOMAIN m.block : x # last => r.block[x] = m.block[x]

\* A block beyond the old break.
LEMMA AppendIs ==
    ASSUME NEW m, IsMem(m), NEW last \in DOMAIN m.block, NEW size, NEW n, m.brk \notin DOMAIN m.block
    PROVE  Appended(m, Append(m, last, size, n), last, size, n)
  <1> DEFINE s == sbrk(m, n)
             t == [s EXCEPT !.block[last].next = m.brk]
             r == Append(m, last, size, n)
             b == m.block[last]
  <1>1. IsMem(s) /\ s.start = m.start /\ s.brk = m.brk + n /\ s.block = m.block /\ s.data = m.data
    BY SbrkIs
  <1> HIDE DEF s
  <1>2. r = PutBlock(t, m.brk, Block("ALLOC", size, last, NULL))
    BY DEF Append, s
  <1>3. t = [s EXCEPT !.block[last] = Block(b.status, b.size, b.prev, m.brk)]
    <2>1. t = [s EXCEPT !.block[last] = [b EXCEPT !.next = m.brk]]
      BY <1>1
    <2>2. b = Block(b.status, b.size, b.prev, b.next)
      BY DEF IsMem
    <2> HIDE DEF b, t
    <2>3. [b EXCEPT !.next = m.brk] = Block(b.status, b.size, b.prev, m.brk)
      BY <2>2 DEF Block
    <2> QED
      BY <2>1, <2>3
  <1> HIDE DEF t, b, r
  <1>4. Writes(s, t, last, Block(b.status, b.size, b.prev, m.brk)) /\ t.data = s.data
    BY <1>1, <1>3, UpdateBlock
  <1>5. /\ IsMem(t) /\ t.start = m.start /\ t.brk = m.brk + n /\ t.data = m.data
        /\ DOMAIN t.block = DOMAIN m.block
        /\ t.block[last] = Block(b.status, b.size, b.prev, m.brk)
        /\ \A x \in DOMAIN m.block : x # last => t.block[x] = m.block[x]
    BY <1>1, <1>4 DEF Writes, Rewrites
  <1>6. /\ Writes(t, r, m.brk, Block("ALLOC", size, last, NULL))
        /\ r.data = Restrict(t.data, DOMAIN t.data \ Bytes(m.brk, METADATA_SIZE))
    <2>1. IsMem(t)
      BY <1>5
    <2> DEFINE a == m.brk
               w == Block("ALLOC", size, last, NULL)
    <2>2. LET p == PutBlock(t, a, w) IN
            /\ Writes(t, p, a, w)
            /\ p.data = Restrict(t.data, DOMAIN t.data \ Bytes(a, METADATA_SIZE))
      <3>1. Puts(t, PutBlock(t, a, w), a, w)
        BY <2>1, PutBlockIs
      <3> HIDE DEF w
      <3> QED
        BY <3>1 DEF Puts
    <2> HIDE DEF a, w
    <2>3. r = PutBlock(t, a, w)
      BY <1>2 DEF a, w
    <2> QED
      BY <2>2, <2>3 DEF a, w
  <1>7. /\ IsMem(r) /\ r.start = t.start /\ r.brk = t.brk
        /\ DOMAIN r.block = DOMAIN t.block \cup {m.brk}
        /\ r.block[m.brk] = Block("ALLOC", size, last, NULL)
        /\ \A x \in DOMAIN t.block : x # m.brk => r.block[x] = t.block[x]
    BY <1>6 DEF Writes, Rewrites
  <1> QED
    BY <1>5, <1>6, <1>7 DEF Appended, r, b

\* It is one of the list, and can be used.
LEMMA AppendReuses ==
    ASSUME NEW m, IsMem(m), Good(m), limit \in HeapLimits, NEW last \in HeapBlocks(m),
           m.block[last].next = NULL, m.block[last].status = "ALLOC", NEW size \in Nat,
           NEW n, n = METADATA_SIZE + ALIGN(size), CanGrow(m, n)
    PROVE  /\ Reuses(m, Append(m, last, size, n), m.brk, size, size)
           /\ m.brk \notin DOMAIN m.block
  <1> DEFINE H == HeapBlocks(m)
             r == Append(m, last, size, n)
             K == HeapBlocks(r)
             new == m.brk
  <1>1. Linked(m) /\ Placed(m) /\ Mapped(m) /\ NULL \notin H /\ NULL \notin DOMAIN m.block
    BY NullIsNoBlock, NullIsNoAddress DEF Good
  <1>2. /\ new \in Nat /\ Aligned(new) /\ last \in Nat /\ METADATA_SIZE \in Nat /\ METADATA_SIZE > 0
        /\ \A x \in H : x \in Nat /\ x + METADATA_SIZE <= new
        /\ \A x \in MapAddresses : new < x
    BY <1>1, Constants DEF Placed
  <1>3. new \notin DOMAIN m.block /\ new # NULL
    <2>1. new \notin H
      BY <1>2
    <2>2. new \notin MapAddresses
      BY <1>2
    <2>3. new # 0
      BY <1>2
    <2> QED
      BY <1>1, <2>1, <2>2, <2>3 DEF Mapped, HeapBlocks, NULL
  <1>4. last \in DOMAIN m.block
    BY DEF HeapBlocks
  <1>5. Appended(m, r, last, size, n)
    BY <1>3, <1>4, AppendIs
  <1> HIDE DEF r
  <1>6. /\ IsMem(r) /\ r.start = m.start /\ r.brk = new + n
        /\ r.data = Restrict(m.data, DOMAIN m.data \ Bytes(new, METADATA_SIZE))
        /\ DOMAIN r.block = DOMAIN m.block \cup {new}
        /\ r.block[new].status = "ALLOC" /\ r.block[new].size = size
        /\ r.block[new].prev = last /\ r.block[new].next = NULL
        /\ r.block[last].status = "ALLOC" /\ r.block[last].size = m.block[last].size
        /\ r.block[last].prev = m.block[last].prev /\ r.block[last].next = new
        /\ \A x \in DOMAIN m.block : x # last => r.block[x] = m.block[x]
    BY <1>5, BlockFields DEF Appended
  <1>7. /\ ALIGN(size) \in Nat /\ Aligned(ALIGN(size)) /\ size <= ALIGN(size)
        /\ n \in Nat /\ Aligned(n)
    <2>1. ALIGN(size) \in Int /\ Aligned(ALIGN(size)) /\ size <= ALIGN(size)
      BY AlignUp
    <2>2. n \in Int /\ Aligned(n)
      <3>1. n \in Int
        BY <1>2, <2>1
      <3> QED
        BY <1>2, <2>1, <3>1, Constants, AlignedAdds
    <2> QED
      BY <1>2, <2>1, <2>2
  <1> HIDE DEF new
  <1>8. /\ r.brk \in Nat /\ Aligned(r.brk) /\ new <= r.brk /\ r.brk <= limit
        /\ new + METADATA_SIZE <= r.brk /\ size <= r.brk - new - METADATA_SIZE
        /\ \A x \in MapAddresses : r.brk < x
    <2>1. r.brk \in Nat /\ new <= r.brk
      BY <1>2, <1>6, <1>7
    <2>2. Aligned(r.brk)
      BY <1>2, <1>6, <1>7, AlignedAdds
    <2>3. r.brk <= limit
      BY <1>6 DEF CanGrow, new
    <2>4. limit \in Nat /\ \A x \in MapAddresses : limit < x /\ x \in Nat
      BY OsMemAssumption
    <2>5. \A x \in MapAddresses : r.brk < x
      BY <2>1, <2>3, <2>4
    <2>6. new + METADATA_SIZE <= r.brk /\ size <= r.brk - new - METADATA_SIZE
      BY <1>2, <1>6, <1>7
    <2> QED
      BY <2>1, <2>2, <2>3, <2>5, <2>6
  <1>9. last # new
    BY <1>3, <1>4
  <1>10. \A x : x \in K <=> x \in H \/ x = new
    BY <1>4, <1>6, <1>9 DEF HeapBlocks
  <1>11. \A x \in H : x <= last
    BY <1>1 DEF Linked, After
  <1>12. Splices(m, r, last, NULL, new)
    <2>1. last < new
      BY <1>2
    <2>2. NULL \notin K
      BY <1>1, <1>3, <1>10
    <2>3. \A x \in K : x # new => /\ r.block[x].next = IF x = last THEN new ELSE m.block[x].next
                                  /\ r.block[x].prev = m.block[x].prev
      <3>1. \A x \in H : x \in DOMAIN m.block
        BY DEF HeapBlocks
      <3> QED
        BY <1>6, <1>10, <3>1
    <2>4. \A x \in K : x # NULL
      BY <2>2
    <2> HIDE DEF H, K
    <2> QED
      BY <1>2, <1>3, <1>6, <1>10, <1>11, <2>1, <2>2, <2>3, <2>4 DEF Splices, H, K
  <1>13. Fits(m, r, last, NULL, new)
    <2>1. EndOf(r, NULL) = r.brk
      BY DEF EndOf
    <2>2. last + METADATA_SIZE <= new
      BY <1>2
    <2> QED
      BY <1>2, <1>8, <2>1, <2>2 DEF Fits, new
  <1>14. Keeps(m, r, {last, new})
    <2>1. \A x \in DOMAIN m.block : x # new
      BY <1>3
    <2>2. \A x : x \in DOMAIN r.block /\ r.block[x].status = "MAPPED" <=>
                 x \in DOMAIN m.block /\ m.block[x].status = "MAPPED"
      BY <1>6, <2>1
    <2>3. \A x \in DOMAIN m.block : m.block[x].status = "MAPPED" => r.block[x].size = m.block[x].size
      BY <1>6
    <2>4. \A x \in K : x \notin {last, new} =>
              r.block[x].status = m.block[x].status /\ r.block[x].size = m.block[x].size
      BY <1>6 DEF HeapBlocks
    <2> QED
      BY <1>6, <2>2, <2>3, <2>4 DEF Keeps
  <1>15. get_block_size(r, new) = r.brk - new - METADATA_SIZE
    BY <1>6 DEF get_block_size, Gap, EndOf
  <1>16. get_block_size(r, last) = get_block_size(m, last)
    <2>1. get_block_size(r, last) = new - last - METADATA_SIZE
      BY <1>3, <1>6 DEF get_block_size, Gap, EndOf
    <2>2. get_block_size(m, last) = new - last - METADATA_SIZE
      BY DEF get_block_size, Gap, EndOf, new
    <2> QED
      BY <2>1, <2>2
  <1>17. SizedAt(r, new)
    BY <1>6, <1>8, <1>15 DEF SizedAt
  <1>18. SizedAt(r, last)
    BY <1>6, <1>16 DEF SizedAt, Good, Sized
  <1>19. Good(r)
    BY <1>6, <1>12, <1>13, <1>14, <1>17, <1>18, SpliceIsGood
  <1>20. DataKept(m, r)
    <2>1. new \in DOMAIN r.block
      BY <1>6
    <2>2. r.data = Restrict(m.data, DOMAIN m.data \ Bytes(new, METADATA_SIZE))
      BY <1>6
    <2> QED
      BY <1>19, <2>1, <2>2, PutKeepsData
  <1>21. Same(m, r, last) /\ last \in Used(m) /\ last \in Used(r)
    BY <1>4, <1>6, <1>16 DEF Same, Used, Room
  <1>22. ASSUME NEW x, x # last, x # new
         PROVE  (x \in Used(r) <=> x \in Used(m)) /\ (x \in Used(m) => Same(m, r, x))
    <2>1. /\ x \in Used(r) <=> x \in Used(m) /\ (x \in HeapBlocks(m) => x \in HeapBlocks(r))
          /\ x \in Used(r) => Same(m, r, x)
      BY <1>1, <1>12, <1>13, <1>14, <1>22, SpliceSame
    <2> QED
      BY <1>10, <2>1
  <1>23. new \in K /\ new \in Used(r) /\ new \notin Used(m)
    BY <1>3, <1>6, <1>10 DEF Used
  <1>24. \A x : x \in Used(r) <=> x \in Used(m) \/ x = new
    BY <1>21, <1>22, <1>23
  <1>25. \A x \in Used(m) : x # new => Same(m, r, x)
    BY <1>21, <1>22
  <1>26. Reuses(m, r, new, size, size)
    BY <1>6, <1>8, <1>15, <1>19, <1>20, <1>23, <1>24, <1>25 DEF Reuses
  <1> QED
    BY <1>3, <1>26 DEF r, new

-----------------------------------------------------------------------------
(* What an allocation promises                                               *)

\* The blocks in use are the same.
Stays(m, r) ==
    /\ IsMem(r) /\ Good(r) /\ r.brk <= limit
    /\ \A b : b \in Used(r) <=> b \in Used(m)
    /\ \A b \in Used(m) : Same(m, r, b)
    /\ DataKept(m, r)

\* Block c, which was not in use, is in use besides, and as large as was asked.
Gains(m, r, c, size) ==
    /\ IsMem(r) /\ Good(r) /\ r.brk <= limit
    /\ c \notin Used(m)
    /\ \A b : b \in Used(r) <=> b \in Used(m) \/ b = c
    /\ \A b \in Used(m) : Same(m, r, b)
    /\ DataKept(m, r)
    /\ size <= Room(r, c) /\ r.block[c].size = size

IsAnswer(r) ==
    /\ r = [m |-> r.m, ptr |-> r.ptr, granted |-> r.granted]
    /\ r.granted \in BOOLEAN

Allocates(m, r, size) ==
    /\ IsAnswer(r)
    /\ IF r.granted THEN r.ptr \in Nat \ {0} /\ Gains(m, r.m, r.ptr - METADATA_SIZE, size)
       ELSE r.ptr \in {NULL, FAULT} /\ Stays(m, r.m)

\* A block that is twice left as it was is left as it was.
LEMMA SameTwice ==
    ASSUME NEW m, NEW s, NEW r, NEW b, Same(m, s, b), Same(s, r, b)
    PROVE  Same(m, r, b)
  BY DEF Same

\* It has the same bytes.
LEMMA SameExtent ==
    ASSUME NEW m, NEW r, NEW b, Same(m, r, b)
    PROVE  Extent(r, b) = Extent(m, b)
  BY DEF Same, Extent

\* Doing nothing leaves the blocks in use.
LEMMA ItStays ==
    ASSUME NEW m, IsMem(m), Good(m), m.brk <= limit
    PROVE  Stays(m, m)
  BY DEF Stays, Same, DataKept

\* What is kept twice is kept.
LEMMA DataKeptTwice ==
    ASSUME NEW m, NEW s, NEW r, DataKept(m, s), DataKept(s, r),
           \A b : b \in Used(m) /\ b \in Used(r) => b \in Used(s) /\ Same(s, r, b)
    PROVE  DataKept(m, r)
  <1>1. ASSUME NEW b \in Used(m), b \in Used(r), NEW x \in Extent(r, b), x \in DOMAIN m.data
        PROVE  x \in DOMAIN r.data /\ r.data[x] = m.data[x]
    <2>1. b \in Used(s) /\ Extent(r, b) = Extent(s, b)
      BY <1>1, SameExtent
    <2>2. x \in DOMAIN s.data /\ s.data[x] = m.data[x]
      BY <1>1, <2>1 DEF DataKept
    <2> QED
      BY <1>1, <2>1, <2>2 DEF DataKept
  <1> QED
    BY <1>1 DEF DataKept

\* An allocation after a step that changed no block in use.
LEMMA StaysAllocates ==
    ASSUME NEW m, NEW s, Stays(m, s), NEW r, NEW size, Allocates(s, r, size)
    PROVE  Allocates(m, r, size)
  <1>1. \A b \in Used(m) : b \in Used(s) /\ Same(m, s, b)
    BY DEF Stays
  <1>2. \A b : b \in Used(s) <=> b \in Used(m)
    BY DEF Stays
  <1>3. CASE r.granted
    <2> DEFINE c == r.ptr - METADATA_SIZE
    <2>1. r.ptr \in Nat \ {0} /\ Gains(s, r.m, c, size) /\ IsAnswer(r)
      BY <1>3 DEF Allocates
    <2> HIDE DEF c
    <2>2. \A b \in Used(m) : Same(s, r.m, b)
      BY <1>1, <2>1 DEF Gains
    <2>3. \A b \in Used(m) : Same(m, r.m, b)
      BY <1>1, <2>2, SameTwice
    <2>4. DataKept(m, r.m)
      <3>1. DataKept(m, s) /\ DataKept(s, r.m)
        BY <2>1 DEF Gains, Stays
      <3> QED
        BY <1>1, <2>2, <3>1, DataKeptTwice
    <2>5. Gains(m, r.m, c, size)
      BY <1>2, <2>1, <2>3, <2>4 DEF Gains
    <2> QED
      BY <1>3, <2>1, <2>5 DEF Allocates, c
  <1>4. CASE ~r.granted
    <2>1. r.ptr \in {NULL, FAULT} /\ Stays(s, r.m) /\ IsAnswer(r)
      BY <1>4 DEF Allocates
    <2>2. \A b \in Used(m) : Same(s, r.m, b)
      BY <1>1, <2>1 DEF Stays
    <2>3. \A b \in Used(m) : Same(m, r.m, b)
      BY <1>1, <2>2, SameTwice
    <2>4. DataKept(m, r.m)
      <3>1. DataKept(m, s) /\ DataKept(s, r.m)
        BY <2>1 DEF Stays
      <3> QED
        BY <1>1, <2>2, <3>1, DataKeptTwice
    <2>5. Stays(m, r.m)
      BY <1>2, <2>1, <2>3, <2>4 DEF Stays
    <2> QED
      BY <1>4, <2>1, <2>5 DEF Allocates
  <1> QED
    BY <1>3, <1>4

\* A free block that is reused is a block gained.
LEMMA ReusesGains ==
    ASSUME NEW m, NEW r, NEW c, c \notin Used(m), NEW size, Reuses(m, r, c, size, size)
    PROVE  Gains(m, r, c, size)
  <1>1. Room(r, c) = get_block_size(r, c)
    BY DEF Reuses, Room
  <1> QED
    BY <1>1 DEF Reuses, Gains

\* The three ways to answer.
LEMMA DoneIs ==
    ASSUME NEW m, NEW r, NEW c, NEW size, Gains(m, r, c, size)
    PROVE  Allocates(m, Done(r, c), size)
  <1>1. c \in Nat
    BY WholeApart DEF Gains, Used
  <1>2. (c + METADATA_SIZE) - METADATA_SIZE = c /\ c + METADATA_SIZE \in Nat \ {0}
    BY <1>1, Constants
  <1> DEFINE d == Done(r, c)
  <1>3. d.m = r /\ d.ptr = c + METADATA_SIZE /\ d.granted = TRUE /\ IsAnswer(d)
    BY DEF Done, IsAnswer
  <1> HIDE DEF d
  <1> QED
    BY <1>2, <1>3 DEF Allocates, d

\* The other two answers, that give no block.
LEMMA FailedIs ==
    ASSUME NEW m, NEW r, NEW size, Stays(m, r)
    PROVE  Allocates(m, Failed(r), size) /\ Allocates(m, Fault(r), size)
  <1> DEFINE f == Failed(r)
             g == Fault(r)
  <1>1. f.m = r /\ f.ptr = NULL /\ f.granted = FALSE /\ IsAnswer(f)
    BY DEF Failed, IsAnswer
  <1>2. g.m = r /\ g.ptr = FAULT /\ g.granted = FALSE /\ IsAnswer(g)
    BY DEF Fault, IsAnswer
  <1> HIDE DEF f, g
  <1> QED
    BY <1>1, <1>2 DEF Allocates, f, g

-----------------------------------------------------------------------------
(* Allocation                                                                *)

\* If a free block is large enough, one of them is the best.
LEMMA BestFitsExist ==
    ASSUME NEW m, Good(m), NEW size \in Nat, NEW a \in HeapBlocks(m),
           m.block[a].status = "FREE", size <= get_block_size(m, a)
    PROVE  BestFits(m, size) # {}
  <1> DEFINE fits == {x \in HeapBlocks(m) :
                        m.block[x].status = "FREE" /\ get_block_size(m, x) >= size}
             gaps == {get_block_size(m, x) : x \in fits}
  <1>1. Linked(m) /\ Placed(m)
    BY DEF Good
  <1>2. \A x \in fits : x \in Nat /\ get_block_size(m, x) \in Nat
    BY <1>1, BlockReaches
  <1>3. a \in fits
    BY <1>1, BlockReaches
  <1>4. BestFits(m, size) = {x \in fits : \A y \in fits :
            \/ get_block_size(m, x) < get_block_size(m, y)
            \/ get_block_size(m, x) = get_block_size(m, y) /\ x <= y}
    BY DEF BestFits
  <1> HIDE DEF fits
  <1>5. gaps \in SUBSET Nat /\ gaps # {}
    BY <1>2, <1>3
  <1>6. PICK g \in gaps : \A y \in gaps : g <= y
    BY <1>5, LeastNumber
  <1> DEFINE least == {x \in fits : get_block_size(m, x) = g}
  <1>7. least \in SUBSET Nat /\ least # {}
    BY <1>2, <1>6
  <1>8. PICK c \in least : \A y \in least : c <= y
    BY <1>7, LeastNumber
  <1>9. ASSUME NEW y \in fits
        PROVE  \/ get_block_size(m, c) < get_block_size(m, y)
               \/ get_block_size(m, c) = get_block_size(m, y) /\ c <= y
    <2>1. get_block_size(m, c) = g /\ get_block_size(m, y) \in gaps
      BY <1>8
    <2>2. g <= get_block_size(m, y) /\ g \in Nat /\ get_block_size(m, y) \in Nat
      BY <1>2, <1>5, <1>6, <2>1
    <2>3. get_block_size(m, y) = g => c <= y
      BY <1>8
    <2> HIDE DEF gaps, least
    <2> QED
      BY <2>1, <2>2, <2>3
  <1>10. c \in BestFits(m, size)
    BY <1>4, <1>8, <1>9
  <1> QED
    BY <1>10

\* Without a fit, the heap grows or the call fails.
LEMMA ExtendAllocates ==
    ASSUME NEW m, IsMem(m), Good(m), limit \in HeapLimits, m.brk <= limit, HeapBlocks(m) # {},
           NEW size \in Nat, BestFits(m, size) = {}
    PROVE  Allocates(m, ExtendHeap(m, size), size)
  <1> DEFINE last == get_last_block(m)
             n == ALIGN(size - m.block[last].size)
             N == METADATA_SIZE + ALIGN(size)
             r == ExtendHeap(m, size)
  <1>1. last \in HeapBlocks(m) /\ m.block[last].next = NULL
    BY LastBlock
  <1>2. r = IF m.block[last].status = "FREE"
            THEN IF ~CanGrow(m, n) THEN Failed(m)
                 ELSE Done(InUse(sbrk(m, n), last, size), last)
            ELSE IF ~CanGrow(m, N) THEN Failed(m)
                 ELSE Done(Append(m, last, size, N), m.brk)
    BY DEF ExtendHeap, Append
  <1> HIDE DEF last, r
  <1>3. Stays(m, m)
    BY ItStays
  <1>4. CASE m.block[last].status = "FREE" /\ CanGrow(m, n)
    <2>1. m.block[last].size \in Nat /\ m.block[last].size = get_block_size(m, last)
      BY <1>1, <1>4 DEF Good, Sized, SizedAt
    <2>2. m.block[last].size < size
      <3>1. ~(size <= get_block_size(m, last))
        BY <1>1, <1>4, BestFitsExist
      <3> QED
        BY <2>1, <3>1
    <2>3. n \in Int /\ Aligned(n) /\ size - m.block[last].size <= n
      BY <2>1, AlignUp
    <2> HIDE DEF n
    <2>4. n \in Nat /\ size <= get_block_size(m, last) + n
      BY <2>1, <2>2, <2>3
    <2>5. Reuses(m, InUse(sbrk(m, n), last, size), last, size, size)
      BY <1>1, <1>4, <2>3, <2>4, ReuseGrown
    <2>6. last \notin Used(m)
      BY <1>4 DEF Used
    <2>7. Gains(m, InUse(sbrk(m, n), last, size), last, size)
      BY <2>5, <2>6, ReusesGains
    <2> QED
      BY <1>2, <1>4, <2>7, DoneIs DEF r
  <1>5. CASE m.block[last].status # "FREE" /\ CanGrow(m, N)
    <2>1. m.block[last].status = "ALLOC"
      BY <1>1, <1>5 DEF Good, Sized, SizedAt
    <2>2. Reuses(m, Append(m, last, size, N), m.brk, size, size) /\ m.brk \notin DOMAIN m.block
      BY <1>1, <1>5, <2>1, AppendReuses
    <2> HIDE DEF N
    <2>3. Gains(m, Append(m, last, size, N), m.brk, size)
      BY <2>2, ReusesGains DEF Used
    <2> QED
      BY <1>2, <1>5, <2>3, DoneIs DEF r
  <1>6. CASE r = Failed(m)
    BY <1>3, <1>6, FailedIs DEF r
  <1> QED
    BY <1>2, <1>4, <1>5, <1>6

\* get_best_fit gives a block of the heap or fails.
LEMMA BestFitAllocates ==
    ASSUME NEW m, IsMem(m), Good(m), limit \in HeapLimits, m.brk <= limit, NEW size \in Nat
    PROVE  Allocates(m, get_best_fit(m, size), size)
  <1> DEFINE r == get_best_fit(m, size)
             a == CHOOSE x \in BestFits(m, size) : TRUE
             s == IF CanSplit(get_block_size(m, a), size)
                  THEN split_block(m, a, size)
                  ELSE InUse(m, a, size)
  <1>1. r = IF m.start \notin DOMAIN m.block THEN Fault(m)
            ELSE IF BestFits(m, size) = {} THEN ExtendHeap(m, size)
            ELSE Done(s, a)
    BY DEF get_best_fit
  <1>2. CASE m.start \notin DOMAIN m.block
    BY <1>1, <1>2, ItStays, FailedIs
  <1>3. CASE m.start \in DOMAIN m.block /\ BestFits(m, size) = {}
    <2>1. HeapBlocks(m) # {}
      <3>1. SUFFICES ASSUME HeapBlocks(m) = {} PROVE FALSE
        OBVIOUS
      <3>2. m.start \in {NULL, HeapBase} /\ m.brk = HeapBase
        BY <3>1 DEF Good, Started
      <3>3. m.start \in MapAddresses
        BY <1>3, <3>1 DEF Good, Mapped, HeapBlocks
      <3>4. m.brk < m.start /\ m.start \in Nat
        BY <3>3, OsMemAssumption DEF Good, Placed
      <3> QED
        BY <3>2, <3>4, Constants DEF NULL
    <2>2. r = ExtendHeap(m, size)
      BY <1>1, <1>3
    <2> HIDE DEF r
    <2> QED
      BY <1>3, <2>1, <2>2, ExtendAllocates DEF r
  <1>4. CASE m.start \in DOMAIN m.block /\ BestFits(m, size) # {}
    <2>1. r = Done(s, a)
      BY <1>1, <1>4
    <2>2. a \in BestFits(m, size)
      BY <1>4
    <2> HIDE DEF r, a
    <2>3. a \in HeapBlocks(m) /\ m.block[a].status = "FREE" /\ get_block_size(m, a) >= size
      BY <2>2 DEF BestFits
    <2>4. size <= get_block_size(m, a)
      <3>1. get_block_size(m, a) \in Nat
        BY <2>3, BlockReaches DEF Good
      <3> QED
        BY <2>3, <3>1
    <2>5. Reuses(m, s, a, size, size)
      <3>1. CASE CanSplit(get_block_size(m, a), size)
        BY <2>3, <3>1, SplitReuses
      <3>2. CASE ~CanSplit(get_block_size(m, a), size)
        BY <2>3, <2>4, <3>2, ReuseWhole
      <3> QED
        BY <3>1, <3>2
    <2> HIDE DEF s
    <2>6. Gains(m, s, a, size)
      BY <2>3, <2>5, ReusesGains DEF Used
    <2> QED
      BY <2>1, <2>6, DoneIs DEF r
  <1> QED
    BY <1>2, <1>3, <1>4

\* Mappings that were there before are the same when only one is added.
LEMMA MmapAllocates ==
    ASSUME NEW m, IsMem(m), Good(m), m.brk <= limit, NEW size \in Sizes
    PROVE  Allocates(m, alloc_via_mmap(m, size), size)
  <1> DEFINE unused == MapAddresses \ DOMAIN m.block
             c == Min(unused)
             s == PutBlock(m, c, Block("MAPPED", size, NULL, NULL))
             r == alloc_via_mmap(m, size)
  <1>1. r = IF unused = {} THEN Failed(m) ELSE Done(s, c)
    BY DEF alloc_via_mmap
  <1>2. CASE unused = {}
    BY <1>1, <1>2, ItStays, FailedIs
  <1>3. CASE unused # {}
    <2>1. c \in unused
      <3>1. unused \in SUBSET Nat
        BY OsMemAssumption
      <3> HIDE DEF unused
      <3>2. \E x \in unused : \A y \in unused : x <= y
        BY <1>3, <3>1, LeastNumber
      <3> QED
        BY <3>2 DEF Min
    <2>2. r = Done(s, c)
      BY <1>1, <1>3
    <2> HIDE DEF r, c
    <2>3. c \notin DOMAIN m.block /\ c \in MapAddresses /\ c \in Nat
      BY <2>1, OsMemAssumption
    <2> HIDE DEF unused
    <2>4. /\ Writes(m, s, c, Block("MAPPED", size, NULL, NULL))
          /\ s.data = Restrict(m.data, DOMAIN m.data \ Bytes(c, METADATA_SIZE))
      <3>1. Puts(m, s, c, Block("MAPPED", size, NULL, NULL))
        BY PutBlockIs
      <3> HIDE DEF s
      <3> QED
        BY <3>1 DEF Puts
    <2> HIDE DEF s
    <2>5. /\ IsMem(s) /\ s.start = m.start /\ s.brk = m.brk
          /\ DOMAIN s.block = DOMAIN m.block \cup {c}
          /\ s.block[c].status = "MAPPED" /\ s.block[c].size = size
          /\ \A x \in DOMAIN m.block : s.block[x] = m.block[x]
      BY <2>3, <2>4, BlockFields DEF Writes, Rewrites
    <2>6. \A x : x \in HeapBlocks(s) <=> x \in HeapBlocks(m)
      BY <2>3, <2>5 DEF HeapBlocks
    <2>7. HeapBlocks(s) = HeapBlocks(m) /\ \A x \in HeapBlocks(m) : s.block[x] = m.block[x]
      BY <2>5, <2>6 DEF HeapBlocks
    <2>8. Mapped(s)
      BY <2>3, <2>5 DEF Good, Mapped
    <2>9. Good(s) /\ \A x \in HeapBlocks(m) : get_block_size(s, x) = get_block_size(m, x)
      BY <2>5, <2>7, <2>8, SameHeap
    <2>10. \A b : b \in Used(s) <=> b \in Used(m) \/ b = c
      BY <2>5 DEF Used
    <2>11. ASSUME NEW b \in Used(m) PROVE Same(m, s, b)
      <3>1. b \in DOMAIN m.block /\ b \in Used(s) /\ s.block[b] = m.block[b]
        BY <2>5, <2>10, <2>11 DEF Used
      <3>2. Room(s, b) = Room(m, b)
        BY <2>9, <3>1 DEF Room, HeapBlocks
      <3> QED
        BY <2>11, <3>1, <3>2 DEF Same
    <2>12. DataKept(m, s)
      <3>1. c \in DOMAIN s.block
        BY <2>5
      <3> QED
        BY <2>4, <2>9, <3>1, PutKeepsData
    <2>13. size <= Room(s, c)
      BY <2>5, OsMemAssumption DEF Room
    <2>14. c \notin Used(m)
      BY <2>3 DEF Used
    <2>15. Gains(m, s, c, size)
      BY <2>5, <2>9, <2>10, <2>11, <2>12, <2>13, <2>14 DEF Gains
    <2> QED
      BY <2>2, <2>15, DoneIs DEF r
  <1> QED
    BY <1>2, <1>3

\* A heap that is started is one free block; no block in use is concerned.
LEMMA PreallocateStays ==
    ASSUME NEW m, IsMem(m), Good(m), limit \in HeapLimits, m.brk <= limit, m.start = NULL
    PROVE  Stays(m, preallocate_heap(m))
  <1> DEFINE base == m.brk
             t == [m EXCEPT !.start = base]
             u == sbrk(t, MMAP_THRESHOLD)
             v == Block("FREE", MMAP_THRESHOLD - METADATA_SIZE, NULL, NULL)
             r == preallocate_heap(m)
  <1>1. r = IF CanGrow(m, MMAP_THRESHOLD) THEN PutBlock(u, base, v) ELSE t
    BY DEF preallocate_heap
  <1>2. HeapBlocks(m) = {} /\ base = HeapBase /\ base \in Nat /\ base > 0
    BY Constants DEF Good, Started, NULL
  <1>3. Placed(m) /\ Mapped(m) /\ NULL \notin DOMAIN m.block
    BY NullIsNoAddress DEF Good
  <1>4. base \notin DOMAIN m.block
    <2>1. base \notin MapAddresses
      BY <1>2, <1>3 DEF Placed
    <2> QED
      BY <1>2, <1>3, <2>1 DEF Mapped, HeapBlocks
  <1> HIDE DEF base
  <1>5. IsMem(t) /\ t.start = base /\ t.brk = m.brk /\ t.block = m.block /\ t.data = m.data
    <2>1. m = [start |-> m.start, brk |-> m.brk, block |-> m.block, data |-> m.data]
      BY DEF IsMem
    <2>2. t = [start |-> base, brk |-> m.brk, block |-> m.block, data |-> m.data]
      BY <2>1
    <2>3. /\ t.start = base /\ t.brk = m.brk /\ t.block = m.block /\ t.data = m.data
          /\ t = [start |-> t.start, brk |-> t.brk, block |-> t.block, data |-> t.data]
      BY <2>2
    <2> HIDE DEF t
    <2> QED
      BY <2>3 DEF IsMem
  <1> HIDE DEF t
  <1>6. CASE ~CanGrow(m, MMAP_THRESHOLD)
    <2>1. r = t
      BY <1>1, <1>6
    <2> HIDE DEF r
    <2>2. HeapBlocks(t) = {} /\ Used(t) = Used(m) /\ Mapped(t)
      BY <1>2, <1>3, <1>5 DEF HeapBlocks, Used, Mapped
    <2>3. Linked(t) /\ Sized(t) /\ Started(t)
      BY <1>2, <1>5, <2>2 DEF Linked, Sized, Started, base
    <2>4. Placed(t)
      BY <1>3, <1>5, <2>2 DEF Placed
    <2>5. \A b \in Used(m) : Same(m, t, b)
      BY <1>5, <2>2 DEF Same, Room, get_block_size, Gap, EndOf
    <2>6. DataKept(m, t)
      BY <1>5 DEF DataKept
    <2> QED
      BY <1>5, <2>1, <2>2, <2>3, <2>4, <2>5, <2>6 DEF Stays, Good, r
  <1>7. CASE CanGrow(m, MMAP_THRESHOLD)
    <2>1. r = PutBlock(u, base, v)
      BY <1>1, <1>7
    <2>2. IsMem(u) /\ u.start = base /\ u.brk = base + MMAP_THRESHOLD /\ u.block = m.block
          /\ u.data = m.data
      BY <1>5, SbrkIs DEF base
    <2> HIDE DEF u, r
    <2>3. LET q == PutBlock(u, base, v) IN
            /\ Writes(u, q, base, v)
            /\ q.data = Restrict(u.data, DOMAIN u.data \ Bytes(base, METADATA_SIZE))
      <3>1. IsMem(u)
        BY <2>2
      <3>2. v = Block(v.status, v.size, v.prev, v.next)
        BY BlockFields
      <3> HIDE DEF v
      <3> QED
        BY <3>1, <3>2, PutAnyBlock
    <2> HIDE DEF v
    <2>4. /\ IsMem(r) /\ r.start = base /\ r.brk = base + MMAP_THRESHOLD
          /\ DOMAIN r.block = DOMAIN m.block \cup {base} /\ r.block[base] = v
          /\ \A x \in DOMAIN m.block : r.block[x] = m.block[x]
          /\ r.data = Restrict(m.data, DOMAIN m.data \ Bytes(base, METADATA_SIZE))
      BY <1>4, <2>1, <2>2, <2>3 DEF Writes, Rewrites
    <2>5. /\ r.block[base].status = "FREE" /\ r.block[base].prev = NULL /\ r.block[base].next = NULL
          /\ r.block[base].size = MMAP_THRESHOLD - METADATA_SIZE
      BY <2>4, BlockFields DEF v
    <2>6. /\ MMAP_THRESHOLD \in Nat /\ METADATA_SIZE \in Nat /\ METADATA_SIZE <= MMAP_THRESHOLD
          /\ Aligned(MMAP_THRESHOLD) /\ Aligned(base)
      BY <1>3, Constants DEF Placed, base
    <2>7. HeapBlocks(r) = {base}
      BY <1>2, <2>4, <2>5 DEF HeapBlocks
    <2>8. r.brk \in Nat /\ Aligned(r.brk) /\ base + METADATA_SIZE <= r.brk /\ HeapBase <= r.brk
          /\ r.brk <= limit
      <3>1. Aligned(r.brk)
        BY <1>2, <2>4, <2>6, AlignedAdds
      <3>2. r.brk <= limit
        BY <1>7, <2>4 DEF CanGrow, base
      <3> QED
        BY <1>2, <2>4, <2>6, <3>1, <3>2
    <2>9. \A x \in MapAddresses : r.brk < x
      <3>1. limit \in Nat /\ \A x \in MapAddresses : limit < x /\ x \in Nat
        BY OsMemAssumption
      <3> QED
        BY <2>8, <3>1
    <2>10. Placed(r)
      <3>1. base <= base /\ ~(base < base)
        BY <1>2
      <3> QED
        BY <1>2, <2>6, <2>7, <2>8, <2>9, <3>1 DEF Placed
    <2>11. Linked(r)
      <3>1. base <= base
        BY <1>2
      <3> QED
        BY <2>5, <2>7, <3>1 DEF Linked, After, Before
    <2>12. Started(r)
      BY <1>2, <2>4, <2>7 DEF Started
    <2>13. get_block_size(r, base) = MMAP_THRESHOLD - METADATA_SIZE
      BY <1>2, <2>4, <2>5, <2>6 DEF get_block_size, Gap, EndOf
    <2>14. SizedAt(r, base)
      <3>1. MMAP_THRESHOLD - METADATA_SIZE \in Nat
        BY <2>6
      <3>2. ~IsFree(r, NULL)
        BY DEF IsFree
      <3> QED
        BY <2>5, <2>13, <3>1, <3>2 DEF SizedAt
    <2>15. Mapped(r)
      BY <1>3, <2>4, <2>5 DEF Mapped
    <2>16. Good(r)
      BY <2>7, <2>10, <2>11, <2>12, <2>14, <2>15 DEF Good, Sized
    <2>17. \A b : b \in Used(r) <=> b \in Used(m)
      BY <1>4, <2>4, <2>5 DEF Used
    <2>18. ASSUME NEW b \in Used(m) PROVE Same(m, r, b)
      <3>1. b \in DOMAIN m.block /\ m.block[b].status = "MAPPED" /\ r.block[b] = m.block[b]
        BY <1>2, <2>4 DEF Used, HeapBlocks
      <3> QED
        BY <2>17, <3>1 DEF Same, Room
    <2>19. DataKept(m, r)
      <3>1. base \in DOMAIN r.block
        BY <2>4
      <3> QED
        BY <2>4, <2>16, <3>1, PutKeepsData
    <2> QED
      BY <2>4, <2>8, <2>16, <2>17, <2>18, <2>19 DEF Stays, r
  <1> QED
    BY <1>6, <1>7

\* So does the first call, which has to set up the heap.
LEMMA OnHeapAllocates ==
    ASSUME NEW m, IsMem(m), Good(m), limit \in HeapLimits, m.brk <= limit, NEW size \in Nat
    PROVE  Allocates(m, OnHeap(m, size), size)
  <1> DEFINE p == preallocate_heap(m)
  <1>1. OnHeap(m, size) =
            IF m.start # NULL THEN get_best_fit(m, size)
            ELSE IF CanGrow(m, MMAP_THRESHOLD) THEN get_best_fit(p, size) ELSE Failed(p)
    BY DEF OnHeap
  <1> HIDE DEF p
  <1>2. CASE m.start # NULL
    BY <1>1, <1>2, BestFitAllocates
  <1>3. CASE m.start = NULL
    <2>1. Stays(m, p)
      BY <1>3, PreallocateStays DEF p
    <2>2. Allocates(p, get_best_fit(p, size), size)
      BY <2>1, BestFitAllocates DEF Stays
    <2>3. Allocates(m, get_best_fit(p, size), size)
      BY <2>1, <2>2, StaysAllocates
    <2>4. Allocates(m, Failed(p), size)
      BY <2>1, FailedIs
    <2> QED
      BY <1>1, <1>3, <2>3, <2>4
  <1> QED
    BY <1>2, <1>3

\* os_malloc gives a block that was not in use, and disturbs none that was.
LEMMA MallocAllocates ==
    ASSUME NEW m, IsMem(m), Good(m), limit \in HeapLimits, m.brk <= limit, NEW size \in Sizes
    PROVE  Allocates(m, os_malloc(m, size), size)
  <1>1. size \in Nat
    BY OsMemAssumption
  <1> QED
    BY <1>1, MmapAllocates, OnHeapAllocates DEF os_malloc

-----------------------------------------------------------------------------
(* Writing to a block                                                        *)

\* r differs from m in the bytes of block c only.
Touches(m, r, c) ==
    /\ IsMem(r) /\ r.start = m.start /\ r.brk = m.brk /\ r.block = m.block
    /\ \A x : x \notin Extent(m, c) =>
           /\ x \in DOMAIN r.data <=> x \in DOMAIN m.data
           /\ x \in DOMAIN m.data => r.data[x] = m.data[x]

\* Writing into a block changes no other block and no block_meta.
LEMMA TouchedIsGood ==
    ASSUME NEW m, Good(m), NEW r, NEW c \in DOMAIN m.block, Touches(m, r, c)
    PROVE  /\ Good(r) /\ Used(r) = Used(m)
           /\ \A b \in DOMAIN m.block : Room(r, b) = Room(m, b)
           /\ \A b \in Used(m) : Same(m, r, b)
  <1>1. r.start = m.start /\ r.brk = m.brk /\ r.block = m.block
    BY DEF Touches
  <1>2. HeapBlocks(r) = HeapBlocks(m) /\ Mapped(r) /\ Used(r) = Used(m)
    BY <1>1 DEF HeapBlocks, Good, Mapped, Used
  <1>3. Good(r)
    BY <1>1, <1>2, SameHeap
  <1>4. \A b \in DOMAIN m.block : Room(r, b) = Room(m, b)
    BY <1>1 DEF Room, get_block_size, Gap, EndOf
  <1>5. \A b \in Used(m) : Same(m, r, b)
    BY <1>1, <1>2, <1>4 DEF Same, Used
  <1> QED
    BY <1>2, <1>3, <1>4, <1>5

\* A new block may be written to.
LEMMA TouchedIsGained ==
    ASSUME NEW m, NEW s, NEW c, NEW size, Gains(m, s, c, size), NEW r, Touches(s, r, c)
    PROVE  Gains(m, r, c, size)
  <1>1. Good(s) /\ c \in Used(s) /\ c \in DOMAIN s.block
    BY DEF Gains, Used
  <1>2. /\ Good(r) /\ Used(r) = Used(s) /\ \A b \in DOMAIN s.block : Room(r, b) = Room(s, b)
        /\ \A b \in Used(s) : Same(s, r, b)
    BY <1>1, TouchedIsGood
  <1>3. \A b \in Used(m) : Same(m, s, b) /\ b \in Used(s)
    BY DEF Gains
  <1>4. \A b \in Used(m) : Same(m, r, b)
    BY <1>2, <1>3, SameTwice
  <1>5. DataKept(m, r)
    <2>1. ASSUME NEW b \in Used(m), NEW x \in Extent(r, b), x \in DOMAIN m.data
          PROVE  x \in DOMAIN r.data /\ r.data[x] = m.data[x]
      <3>1. b # c /\ x \in Extent(s, b) /\ b \in DOMAIN s.block
        BY <1>2, <1>3, <2>1, SameExtent DEF Gains, Used
      <3>2. x \in DOMAIN s.data /\ s.data[x] = m.data[x]
        BY <1>3, <2>1, <3>1 DEF Gains, DataKept
      <3>3. x \notin Extent(s, c)
        BY <1>1, <3>1, ExtentsApart
      <3> QED
        BY <3>2, <3>3 DEF Touches
    <2> QED
      BY <2>1 DEF DataKept
  <1>6. IsMem(r) /\ r.brk <= limit /\ r.block[c].size = size
    BY DEF Touches, Gains
  <1>7. size <= Room(r, c)
    BY <1>1, <1>2 DEF Gains
  <1>8. c \notin Used(m) /\ \A b : b \in Used(r) <=> b \in Used(m) \/ b = c
    BY <1>2 DEF Gains
  <1> QED
    BY <1>2, <1>4, <1>5, <1>6, <1>7, <1>8 DEF Gains

\* Writing bytes changes bytes.
LEMMA SetDataIs ==
    ASSUME NEW m, IsMem(m), NEW D, D = [x \in DOMAIN D |-> D[x]], NEW r, r = [m EXCEPT !.data = D]
    PROVE  IsMem(r) /\ r.start = m.start /\ r.brk = m.brk /\ r.block = m.block /\ r.data = D
  <1>1. m = [start |-> m.start, brk |-> m.brk, block |-> m.block, data |-> m.data]
    BY DEF IsMem
  <1>2. r = [start |-> m.start, brk |-> m.brk, block |-> m.block, data |-> D]
    BY <1>1
  <1>3. /\ r.start = m.start /\ r.brk = m.brk /\ r.block = m.block /\ r.data = D
        /\ r = [start |-> r.start, brk |-> r.brk, block |-> r.block, data |-> r.data]
    BY <1>2
  <1> QED
    BY <1>3 DEF IsMem

\* The n first bytes of block c.
LEMMA FirstBytes ==
    ASSUME NEW m, Good(m), NEW c \in DOMAIN m.block, NEW n \in Nat, n <= Room(m, c)
    PROVE  /\ Bytes(c + METADATA_SIZE, n) \subseteq Extent(m, c)
           /\ \A x \in Bytes(c + METADATA_SIZE, n) : x \in Int
           /\ \A i \in 0 .. n - 1 : c + METADATA_SIZE + i \in Bytes(c + METADATA_SIZE, n)
  <1>1. c \in Nat /\ Room(m, c) \in Nat
    BY WholeApart
  <1> QED
    BY <1>1, Constants DEF Bytes, Extent

\* memset writes within the block.
LEMMA MemsetIs ==
    ASSUME NEW m, IsMem(m), Good(m), NEW c \in DOMAIN m.block, NEW n \in Nat, n <= Room(m, c), NEW byte,
           NEW ptr, ptr = c + METADATA_SIZE
    PROVE  LET r == memset(m, ptr, byte, n) IN
           /\ Touches(m, r, c)
           /\ \A x \in Bytes(ptr, n) : x \in DOMAIN r.data /\ r.data[x] = byte
  <1> DEFINE r == memset(m, ptr, byte, n)
             S == Bytes(ptr, n)
             D == [x \in DOMAIN m.data \cup S |-> IF x \in S THEN byte ELSE m.data[x]]
  <1>1. r = [m EXCEPT !.data = D]
    BY DEF memset, Put
  <1>2. S \subseteq Extent(m, c)
    BY FirstBytes
  <1>3. DOMAIN D = DOMAIN m.data \cup S /\ D = [x \in DOMAIN D |-> D[x]]
        /\ \A x \in DOMAIN D : D[x] = IF x \in S THEN byte ELSE m.data[x]
    OBVIOUS
  <1> HIDE DEF r, D, S
  <1>4. IsMem(r) /\ r.start = m.start /\ r.brk = m.brk /\ r.block = m.block /\ r.data = D
    BY <1>1, <1>3, SetDataIs
  <1>5. Touches(m, r, c)
    BY <1>2, <1>3, <1>4 DEF Touches
  <1>6. \A x \in S : x \in DOMAIN r.data /\ r.data[x] = byte
    BY <1>3, <1>4
  <1> QED
    BY <1>5, <1>6 DEF r, S

\* os_calloc does what os_malloc does, and the bytes are zero.
LEMMA CallocAllocates ==
    ASSUME NEW m, IsMem(m), Good(m), limit \in HeapLimits, m.brk <= limit, NEW size \in Sizes
    PROVE  LET r == os_calloc(m, size) IN
           /\ Allocates(m, r, size)
           /\ r.granted => \A x \in Bytes(r.ptr, size) : x \in DOMAIN r.m.data /\ r.m.data[x] = 0
  <1> DEFINE r == os_calloc(m, size)
             s == IF ALIGN(size) + METADATA_SIZE > PAGE_SIZE
                  THEN alloc_via_mmap(m, size)
                  ELSE OnHeap(m, size)
             d == memset(s.m, s.ptr, 0, s.m.block[s.ptr - METADATA_SIZE].size)
  <1>1. r = IF ~s.granted THEN s ELSE [s EXCEPT !.m = d]
    BY DEF os_calloc
  <1>2. size \in Nat
    BY OsMemAssumption
  <1>3. Allocates(m, s, size)
    BY <1>2, MmapAllocates, OnHeapAllocates
  <1> HIDE DEF r, s
  <1>4. CASE ~s.granted
    BY <1>1, <1>3, <1>4 DEF r
  <1>5. CASE s.granted
    <2> DEFINE c == s.ptr - METADATA_SIZE
    <2>1. IsAnswer(s) /\ s.ptr \in Nat \ {0} /\ Gains(m, s.m, c, size)
      BY <1>3, <1>5 DEF Allocates
    <2> HIDE DEF c
    <2>2. /\ IsMem(s.m) /\ Good(s.m) /\ c \in Used(s.m) /\ c \in DOMAIN s.m.block
          /\ size <= Room(s.m, c) /\ s.m.block[c].size = size
      BY <2>1 DEF Gains, Used
    <2>3. s.ptr = c + METADATA_SIZE
      BY <2>1, Constants DEF c
    <2>4. d = memset(s.m, s.ptr, 0, size)
      BY <2>2 DEF c
    <2> HIDE DEF d
    <2>5. Touches(s.m, d, c) /\ \A x \in Bytes(s.ptr, size) : x \in DOMAIN d.data /\ d.data[x] = 0
      BY <1>2, <2>2, <2>3, <2>4, MemsetIs
    <2>6. Gains(m, d, c, size)
      BY <2>1, <2>5, TouchedIsGained
    <2>7. r = [s EXCEPT !.m = d] /\ s.granted = TRUE
      BY <1>1, <1>5, <2>1 DEF IsAnswer
    <2>8. r.m = d /\ r.ptr = s.ptr /\ r.granted = TRUE /\ IsAnswer(r)
      <3>1. r = [m |-> d, ptr |-> s.ptr, granted |-> TRUE]
        BY <2>1, <2>7 DEF IsAnswer
      <3>2. r.m = d /\ r.ptr = s.ptr /\ r.granted = TRUE
        BY <3>1
      <3> QED
        BY <3>1, <3>2 DEF IsAnswer
    <2>9. Allocates(m, r, size)
      BY <2>1, <2>6, <2>8 DEF Allocates, c
    <2> QED
      BY <2>5, <2>8, <2>9 DEF r
  <1> QED
    BY <1>4, <1>5

\* memcpy writes within the block, what it reads elsewhere.
LEMMA MemcpyIs ==
    ASSUME NEW m, IsMem(m), Good(m), NEW c \in DOMAIN m.block, NEW n \in Nat, n <= Room(m, c),
           NEW to, to = c + METADATA_SIZE, NEW from \in Int
    PROVE  LET r == memcpy(m, to, from, n) IN
           /\ Touches(m, r, c)
           /\ \A i \in 0 .. n - 1 : from + i \in DOMAIN m.data =>
                  to + i \in DOMAIN r.data /\ r.data[to + i] = m.data[from + i]
  <1> DEFINE r == memcpy(m, to, from, n)
             S == Bytes(to, n)
             kept == DOMAIN m.data \ S
             copied == {x \in S : x - to + from \in DOMAIN m.data}
             D == [x \in kept \cup copied |-> m.data[IF x \in kept THEN x ELSE x - to + from]]
  <1>1. r = [m EXCEPT !.data = D]
    BY DEF memcpy
  <1>2. S \subseteq Extent(m, c) /\ (\A i \in 0 .. n - 1 : to + i \in S) /\ to \in Int
    BY FirstBytes, WholeApart, Constants
  <1>3. DOMAIN D = kept \cup copied /\ D = [x \in DOMAIN D |-> D[x]]
        /\ \A x \in DOMAIN D : D[x] = m.data[IF x \in kept THEN x ELSE x - to + from]
    OBVIOUS
  <1> HIDE DEF r, D, S
  <1>4. IsMem(r) /\ r.start = m.start /\ r.brk = m.brk /\ r.block = m.block /\ r.data = D
    BY <1>1, <1>3, SetDataIs
  <1>5. Touches(m, r, c)
    <2>1. ASSUME NEW x, x \notin S
          PROVE  (x \in DOMAIN D <=> x \in DOMAIN m.data) /\ (x \in DOMAIN m.data => D[x] = m.data[x])
      BY <1>3, <2>1
    <2> QED
      BY <1>2, <1>4, <2>1 DEF Touches
  <1>6. ASSUME NEW i \in 0 .. n - 1, from + i \in DOMAIN m.data
        PROVE  to + i \in DOMAIN D /\ D[to + i] = m.data[from + i]
    <2>1. to + i \in S /\ (to + i) - to + from = from + i
      BY <1>2
    <2>2. to + i \in copied /\ to + i \notin kept
      BY <1>6, <2>1
    <2> QED
      BY <1>3, <2>1, <2>2
  <1> QED
    BY <1>4, <1>5, <1>6 DEF r

-----------------------------------------------------------------------------
(* Reallocation                                                              *)

\* Block c has taken the place of block a, with the n first bytes of what it
\* held; no block in use has bytes of a any more.
Moves(m, r, a, c, size, n) ==
    /\ IsMem(r) /\ Good(r) /\ r.brk <= limit
    /\ c \notin Used(m)
    /\ \A b : b \in Used(r) <=> (b \in Used(m) /\ b # a) \/ b = c
    /\ \A b \in Used(m) : b # a => Same(m, r, b)
    /\ DataKept(m, r)
    /\ size <= Room(r, c) /\ r.block[c].size = size
    /\ \A b \in Used(r) : \A x \in Extent(r, b) : x \notin Extent(m, a)
    /\ \A i \in 0 .. n - 1 :
           a + METADATA_SIZE + i \in Extent(m, a) /\ a + METADATA_SIZE + i \in DOMAIN m.data =>
               /\ c + METADATA_SIZE + i \in DOMAIN r.data
               /\ r.data[c + METADATA_SIZE + i] = m.data[a + METADATA_SIZE + i]

Moved(m, r, a, size, n) ==
    /\ IsAnswer(r)
    /\ IF r.granted THEN /\ r.ptr \in Nat \ {0} /\ r.ptr # a + METADATA_SIZE
                         /\ Moves(m, r.m, a, r.ptr - METADATA_SIZE, size, n)
       ELSE Stays(m, r.m)

\* Moving a block: a new one, its first bytes copied, the old one given back.
LEMMA MovesTo ==
    ASSUME NEW m, Good(m), NEW a \in Used(m), NEW size \in Nat, NEW n \in Nat, n <= size,
           NEW s, Allocates(m, s, size)
    PROVE  Moved(m, MoveTo(s, a + METADATA_SIZE, n), a, size, n)
  <1> DEFINE from == a + METADATA_SIZE
             r == MoveTo(s, from, n)
             t == memcpy(s.m, s.ptr, from, n)
             u == os_free(t, from)
             c == s.ptr - METADATA_SIZE
  <1>1. r = IF s.ptr \in {NULL, FAULT} THEN Fault(s.m) ELSE [s EXCEPT !.m = u]
    BY DEF MoveTo
  <1> HIDE DEF r
  <1>2. CASE ~s.granted
    <2>1. s.ptr \in {NULL, FAULT} /\ Stays(m, s.m)
      BY <1>2 DEF Allocates
    <2>2. r = Fault(s.m)
      BY <1>1, <2>1
    <2>3. r.m = s.m /\ r.granted = FALSE /\ IsAnswer(r)
      BY <2>2 DEF Fault, IsAnswer
    <2> QED
      BY <2>1, <2>3 DEF Moved, r
  <1>3. CASE s.granted
    <2>1. IsAnswer(s) /\ s.ptr \in Nat \ {0} /\ Gains(m, s.m, c, size)
      BY <1>3 DEF Allocates
    <2>2. s.ptr \notin {NULL, FAULT}
      BY <2>1 DEF NULL, FAULT
    <2>3. r = [s EXCEPT !.m = u] /\ s.granted = TRUE
      BY <1>1, <1>3, <2>1, <2>2 DEF IsAnswer
    <2> HIDE DEF c
    <2>4. /\ IsMem(s.m) /\ Good(s.m) /\ c \in Used(s.m) /\ c \in DOMAIN s.m.block
          /\ c # a /\ a \in Used(s.m) /\ a \in DOMAIN s.m.block
          /\ size <= Room(s.m, c) /\ s.m.block[c].size = size
      BY <2>1 DEF Gains, Used
    <2>5. c \in Nat /\ a \in Nat /\ Room(s.m, c) \in Nat /\ s.ptr = c + METADATA_SIZE
          /\ METADATA_SIZE \in Nat
      BY <2>1, <2>4, WholeApart, Constants DEF c
    <2>6. from \in Int /\ n <= Room(s.m, c)
      BY <2>4, <2>5
    <2>7. /\ Touches(s.m, t, c)
          /\ \A i \in 0 .. n - 1 : from + i \in DOMAIN s.m.data =>
                 s.ptr + i \in DOMAIN t.data /\ t.data[s.ptr + i] = s.m.data[from + i]
      BY <2>4, <2>5, <2>6, MemcpyIs
    <2> HIDE DEF t
    <2>8. Gains(m, t, c, size)
      BY <2>1, <2>7, TouchedIsGained
    <2>9. IsMem(t) /\ Good(t) /\ a \in Used(t) /\ t.brk <= limit
      BY <2>8 DEF Gains
    <2>10. Frees(t, u, a)
      BY <2>9, FreeIs
    <2> HIDE DEF u
    <2>11. /\ IsMem(u) /\ Good(u) /\ u.brk = t.brk /\ u.data = t.data
           /\ \A b : b \in Used(u) <=> b \in Used(t) /\ b # a
           /\ \A b \in Used(u) : Same(t, u, b)
      BY <2>10 DEF Frees
    <2>12. /\ \A b : b \in Used(t) <=> b \in Used(m) \/ b = c
           /\ \A b \in Used(m) : Same(m, t, b)
           /\ c \notin Used(m)
      BY <2>8 DEF Gains
    <2>13. \A b : b \in Used(u) <=> (b \in Used(m) /\ b # a) \/ b = c
      BY <2>4, <2>11, <2>12
    <2>14. ASSUME NEW b \in Used(m), b # a PROVE Same(m, u, b)
      <3>1. Same(m, t, b) /\ Same(t, u, b)
        BY <2>11, <2>12, <2>14
      <3> QED
        BY <3>1, SameTwice
    <2>15. DataKept(m, u)
      <3>1. DataKept(m, t) /\ DataKept(t, u)
        BY <2>8, <2>11 DEF Gains, DataKept
      <3>2. \A b : b \in Used(m) /\ b \in Used(u) => b \in Used(t) /\ Same(t, u, b)
        BY <2>11
      <3> QED
        BY <3>1, <3>2, DataKeptTwice
    <2>16. Same(t, u, c)
      BY <2>11, <2>13
    <2>17. size <= Room(u, c) /\ u.block[c].size = size
      BY <2>8, <2>16 DEF Same, Gains
    <2>18. ASSUME NEW b \in Used(u), NEW x \in Extent(u, b) PROVE x \notin Extent(m, a)
      <3>1. b # a /\ b \in Used(t) /\ Same(t, u, b) /\ Same(m, t, a)
        BY <2>11, <2>12, <2>18
      <3>2. x \in Extent(t, b) /\ Extent(t, a) = Extent(m, a)
        BY <2>18, <3>1, SameExtent
      <3>3. a \in DOMAIN t.block /\ b \in DOMAIN t.block
        BY <2>9, <3>1 DEF Used
      <3>4. x \notin Extent(t, a)
        BY <2>9, <3>1, <3>2, <3>3, ExtentsApart
      <3> QED
        BY <3>2, <3>4
    <2>19. ASSUME NEW i \in 0 .. n - 1, from + i \in Extent(m, a), from + i \in DOMAIN m.data
           PROVE  /\ c + METADATA_SIZE + i \in DOMAIN u.data
                  /\ u.data[c + METADATA_SIZE + i] = m.data[from + i]
      <3>1. Same(m, s.m, a) /\ DataKept(m, s.m)
        BY <2>1 DEF Gains
      <3>2. from + i \in Extent(s.m, a)
        BY <2>19, <3>1, SameExtent
      <3>3. from + i \in DOMAIN s.m.data /\ s.m.data[from + i] = m.data[from + i]
        BY <2>4, <2>19, <3>1, <3>2 DEF DataKept
      <3> QED
        BY <2>5, <2>7, <2>11, <2>19, <3>3
    <2>20. Moves(m, u, a, c, size, n)
      BY <2>9, <2>11, <2>12, <2>13, <2>14, <2>15, <2>17, <2>18, <2>19 DEF Moves
    <2>21. r.m = u /\ r.ptr = s.ptr /\ r.granted = TRUE /\ IsAnswer(r)
      <3>1. r = [m |-> u, ptr |-> s.ptr, granted |-> TRUE]
        BY <2>1, <2>3 DEF IsAnswer
      <3>2. r.m = u /\ r.ptr = s.ptr /\ r.granted = TRUE
        BY <3>1
      <3> QED
        BY <3>1, <3>2 DEF IsAnswer
    <2>22. s.ptr # from
      BY <2>4, <2>5
    <2> QED
      BY <2>1, <2>20, <2>21, <2>22 DEF Moved, r, c
  <1> QED
    BY <1>2, <1>3


\* What os_realloc promises of block a.
Reallocs(m, r, a, size) ==
    \/ \E n \in Nat : /\ Moved(m, r, a, size, n)
                      /\ n = size \/ (n = Smaller(m, a, size)
                                      /\ (m.block[a].status = "MAPPED" \/ MustMap(size)))
    \/ /\ IsAnswer(r)
       /\ IF r.granted THEN /\ r.ptr = a + METADATA_SIZE /\ m.block[a].status = "ALLOC"
                            /\ \E recorded : Reuses(m, r.m, a, size, recorded)
          ELSE Stays(m, r.m)

\* Smaller is the minimum of the recorded size and the new one.
LEMMA SmallerIs ==
    ASSUME NEW m, Good(m), NEW a \in Used(m), NEW size \in Nat
    PROVE  /\ Smaller(m, a, size) \in Nat /\ Smaller(m, a, size) <= size
           /\ Smaller(m, a, size) = IF m.block[a].size <= size THEN m.block[a].size ELSE size
  <1>1. m.block[a].size \in Nat
    BY OsMemAssumption DEF Good, Sized, SizedAt, Mapped, Used, HeapBlocks
  <1> QED
    BY <1>1 DEF Smaller

\* Answers of os_realloc that leave the block where it is.
LEMMA InPlaceReallocs ==
    ASSUME NEW m, NEW a \in Nat, m.block[a].status = "ALLOC", NEW size, NEW s, NEW recorded,
           Reuses(m, s, a, size, recorded)
    PROVE  Reallocs(m, Done(s, a), a, size)
  <1> DEFINE d == Done(s, a)
  <1>1. d.m = s /\ d.ptr = a + METADATA_SIZE /\ d.granted = TRUE /\ IsAnswer(d)
    BY DEF Done, IsAnswer
  <1> HIDE DEF d
  <1> QED
    BY <1>1 DEF Reallocs, d

\* Answers that leave everything as it was.
LEMMA UnchangedReallocs ==
    ASSUME NEW m, NEW s, Stays(m, s), NEW ptr, NEW a, NEW size
    PROVE  Reallocs(m, Unchanged(s, ptr), a, size)
  <1> DEFINE d == Unchanged(s, ptr)
  <1>1. d.m = s /\ d.granted = FALSE /\ IsAnswer(d)
    BY DEF Unchanged, IsAnswer
  <1> HIDE DEF d
  <1> QED
    BY <1>1 DEF Reallocs, d

\* os_realloc of a mapping.
LEMMA MappedReallocs ==
    ASSUME NEW m, IsMem(m), Good(m), limit \in HeapLimits, m.brk <= limit, NEW a \in Used(m),
           m.block[a].status = "MAPPED", NEW size \in Sizes
    PROVE  Reallocs(m, ReallocMapped(m, a, size), a, size)
  <1> DEFINE n == Smaller(m, a, size)
             ptr == a + METADATA_SIZE
             r == ReallocMapped(m, a, size)
  <1>1. r = IF MustMap(size) THEN MoveTo(alloc_via_mmap(m, size), ptr, n)
            ELSE IF m.start = NULL /\ ~CanGrow(m, MMAP_THRESHOLD)
            THEN Unchanged(preallocate_heap(m), ptr)
            ELSE MoveTo(OnHeap(m, size), ptr, n)
    BY DEF ReallocMapped
  <1>2. size \in Nat
    BY OsMemAssumption
  <1>3. n \in Nat /\ n <= size
    BY <1>2, SmallerIs
  <1> HIDE DEF r, n
  <1>4. Moved(m, MoveTo(alloc_via_mmap(m, size), ptr, n), a, size, n)
    BY <1>2, <1>3, MmapAllocates, MovesTo
  <1>5. Moved(m, MoveTo(OnHeap(m, size), ptr, n), a, size, n)
    BY <1>2, <1>3, OnHeapAllocates, MovesTo
  <1>6. CASE r = MoveTo(alloc_via_mmap(m, size), ptr, n) \/ r = MoveTo(OnHeap(m, size), ptr, n)
    <2>1. Moved(m, r, a, size, n)
      BY <1>4, <1>5, <1>6
    <2> QED
      BY <1>3, <2>1 DEF Reallocs, n, r
  <1>7. CASE m.start = NULL /\ r = Unchanged(preallocate_heap(m), ptr)
    BY <1>7, PreallocateStays, UnchangedReallocs DEF r
  <1> QED
    BY <1>1, <1>6, <1>7

\* The room of a block of the heap is aligned.
LEMMA GapIsAligned ==
    ASSUME NEW m, Good(m), NEW a \in HeapBlocks(m)
    PROVE  /\ get_block_size(m, a) \in Nat /\ Aligned(get_block_size(m, a))
           /\ get_block_size(m, a) = EndOf(m, m.block[a].next) - a - METADATA_SIZE
  <1> DEFINE e == EndOf(m, m.block[a].next)
             d == e - a
             g == get_block_size(m, a)
  <1>1. Linked(m) /\ Placed(m)
    BY DEF Good
  <1>2. a \in Nat /\ e \in Nat /\ g \in Nat /\ g = e - a - METADATA_SIZE
    BY <1>1, BlockReaches
  <1>3. Aligned(a) /\ Aligned(m.brk) /\ m.brk \in Nat /\ \A x \in HeapBlocks(m) : Aligned(x)
    BY <1>1 DEF Placed
  <1>4. m.block[a].next # NULL => m.block[a].next \in HeapBlocks(m)
    BY <1>1 DEF Linked, After
  <1>5. Aligned(e)
    BY <1>3, <1>4 DEF EndOf
  <1>6. METADATA_SIZE \in Nat /\ Aligned(METADATA_SIZE)
    BY Constants
  <1> HIDE DEF e, g
  <1>7. \A x \in Int, y \in Int, z \in Int : Aligned(x) /\ Aligned(y) /\ z = x - y => Aligned(z)
    BY AlignedSum
  <1>8. d \in Int /\ Aligned(d)
    <2>1. d \in Int
      BY <1>2
    <2> QED
      BY <1>2, <1>3, <1>5, <1>7, <2>1
  <1>9. g = d - METADATA_SIZE
    BY <1>2
  <1> HIDE DEF d
  <1>10. Aligned(g)
    BY <1>2, <1>6, <1>7, <1>8, <1>9
  <1> QED
    BY <1>2, <1>10 DEF e, g

\* os_realloc of the last block of the heap.
LEMMA GrowLastReallocs ==
    ASSUME NEW m, IsMem(m), Good(m), limit \in HeapLimits, m.brk <= limit, NEW a \in HeapBlocks(m),
           m.block[a].status = "ALLOC", NEW size \in Sizes, m.block[a].next = NULL,
           ~(get_block_size(m, a) >= ALIGN(size))
    PROVE  Reallocs(m, GrowLast(m, a, size), a, size)
  <1> DEFINE old == ALIGN(m.block[a].size)
             new == ALIGN(size)
             n == new - old
             g == get_block_size(m, a)
             r == GrowLast(m, a, size)
  <1>1. r = IF ~CanGrow(m, n) THEN Unchanged(m, a + METADATA_SIZE)
            ELSE Done(SetSize(sbrk(m, n), a, size), a)
    BY DEF GrowLast
  <1>2. size \in Nat /\ m.block[a].size \in Nat /\ m.block[a].size <= g
    BY OsMemAssumption DEF Good, Sized, SizedAt
  <1>3. g \in Nat /\ Aligned(g) /\ a \in Nat
    BY GapIsAligned DEF Good, Placed
  <1>4. old \in Int /\ Aligned(old) /\ new \in Int /\ Aligned(new) /\ size <= new
    BY <1>2, AlignUp
  <1>5. old <= g
    BY <1>2, <1>3, AlignLeast
  <1>6. g < new
    <2>1. ~(g >= new)
      OBVIOUS
    <2> HIDE DEF g, new
    <2> QED
      BY <1>3, <1>4, <2>1
  <1> HIDE DEF r, g, old, new
  <1>7. n \in Nat /\ size <= g + n
    BY <1>2, <1>3, <1>4, <1>5, <1>6
  <1>8. Aligned(n)
    BY <1>4, AlignedSum
  <1> HIDE DEF n
  <1>9. CASE CanGrow(m, n)
    <2>1. Reuses(m, SetSize(sbrk(m, n), a, size), a, size, size)
      BY <1>2, <1>7, <1>8, <1>9, ReuseGrown DEF g
    <2>2. r = Done(SetSize(sbrk(m, n), a, size), a)
      BY <1>1, <1>9
    <2> QED
      BY <1>3, <2>1, <2>2, InPlaceReallocs DEF r
  <1>10. CASE ~CanGrow(m, n)
    BY <1>1, <1>10, ItStays, UnchangedReallocs DEF r
  <1> QED
    BY <1>9, <1>10

\* os_realloc that has to find another block of the heap.
LEMMA RelocateReallocs ==
    ASSUME NEW m, IsMem(m), Good(m), limit \in HeapLimits, m.brk <= limit, NEW a \in Used(m),
           NEW size \in Sizes
    PROVE  Reallocs(m, Relocate(m, a, size), a, size)
  <1> DEFINE s == get_best_fit(m, size)
             ptr == a + METADATA_SIZE
             r == Relocate(m, a, size)
  <1>1. r = IF s.ptr = NULL THEN Unchanged(m, ptr) ELSE MoveTo(s, ptr, size)
    BY DEF Relocate
  <1>2. size \in Nat /\ size <= size
    BY OsMemAssumption
  <1>3. Allocates(m, s, size)
    BY <1>2, BestFitAllocates
  <1> HIDE DEF r, s
  <1>4. CASE s.ptr = NULL
    BY <1>1, <1>4, ItStays, UnchangedReallocs DEF r
  <1>5. CASE s.ptr # NULL
    <2>1. Moved(m, MoveTo(s, ptr, size), a, size, size)
      BY <1>2, <1>3, MovesTo
    <2> QED
      BY <1>1, <1>2, <1>5, <2>1 DEF Reallocs, r
  <1> QED
    BY <1>4, <1>5

\* After a free block there is nothing to merge.
LEMMA MergesNothing ==
    ASSUME NEW m, IsMem(m), Good(m), NEW a \in HeapBlocks(m), IsFree(m, a)
    PROVE  merge_next_block(m, a) = m
  <1> DEFINE H == HeapBlocks(m)
  <1>1. Linked(m) /\ Placed(m) /\ NULL \notin H /\ NULL \notin DOMAIN m.block
    BY NullIsNoBlock, NullIsNoAddress DEF Good
  <1>2. m.brk \in Nat /\ \A x \in H : x \in Nat /\ x < m.brk
    BY <1>1, Constants DEF Placed
  <1>3. \A x \in H : m.block[x].next \in H \cup {NULL}
    BY <1>1 DEF Linked, After
  <1>4. \A x \in H : IsFree(m, x) => ~IsFree(m, m.block[x].next)
    BY NoFreeNeighbours
  <1>5. FewFree(m)
    <2>1. ASSUME NEW x \in H
          PROVE  LET c == m.block[x].next
                     d == m.block[c].next
                     e == m.block[d].next
                 IN  /\ c \in H \cup {NULL}
                     /\ IsFree(m, x) /\ IsFree(m, c) /\ IsFree(m, d) => ~IsFree(m, e)
      BY <1>3, <1>4
    <2> QED
      BY <1>1, <2>1 DEF FewFree
  <1>6. ~IsFree(m, m.block[a].next)
    BY <1>4
  <1> QED
    BY <1>1, <1>2, <1>5, <1>6, MergeNextIs

\* One more small write, of a pointer.
LEMMA SetNextIs ==
    ASSUME NEW m, IsMem(m), NEW a \in DOMAIN m.block, NEW next
    PROVE  LET b == m.block[a]
               r == [m EXCEPT !.block[a].next = next]
           IN  Writes(m, r, a, Block(b.status, b.size, b.prev, next)) /\ r.data = m.data
  <1> DEFINE b == m.block[a]
             r == [m EXCEPT !.block[a].next = next]
  <1>1. b = Block(b.status, b.size, b.prev, b.next)
    BY DEF IsMem
  <1>2. r = [m EXCEPT !.block[a] = Block(b.status, b.size, b.prev, next)]
    <2>1. r = [m EXCEPT !.block[a] = [b EXCEPT !.next = next]]
      OBVIOUS
    <2> HIDE DEF b, r
    <2>2. [b EXCEPT !.next = next] = Block(b.status, b.size, b.prev, next)
      BY <1>1 DEF Block
    <2> QED
      BY <2>1, <2>2 DEF b
  <1> HIDE DEF r
  <1>3. Writes(m, r, a, Block(b.status, b.size, b.prev, next)) /\ r.data = m.data
    BY <1>2, UpdateBlock
  <1> QED
    BY <1>3 DEF r

\* The free block after a has become part of it.
LEMMA JoinReuses ==
    ASSUME NEW m, IsMem(m), Good(m), m.brk <= limit, NEW a \in HeapBlocks(m), m.block[a].status = "ALLOC",
           NEW n, n = m.block[a].next, IsFree(m, n), NEW end, end = m.block[n].next,
           NEW r, Joined(m, r, a, n, end, m.block[a].size), NEW size \in Nat,
           size <= get_block_size(m, a) + METADATA_SIZE + get_block_size(m, n)
    PROVE  Reuses(m, r, a, size, m.block[a].size)
  <1> DEFINE H == HeapBlocks(m)
             K == HeapBlocks(r)
             size0 == m.block[a].size
  <1>1. Linked(m) /\ Placed(m) /\ NULL \notin H /\ NULL \notin DOMAIN m.block
    BY NullIsNoBlock, NullIsNoAddress DEF Good
  <1>2. (\A x \in H : x \in Nat) /\ m.brk \in Nat /\ a \in Nat /\ H \subseteq DOMAIN m.block
    BY <1>1 DEF Placed, HeapBlocks
  <1>3. n \in H /\ n # NULL /\ a < n /\ n \in Nat /\ \A c \in H : c <= a \/ n <= c
    BY <1>1, <1>2 DEF Linked, After, IsFree
  <1>4. /\ end # NULL => end \in H /\ n < end /\ end \in Nat /\ \A c \in H : c <= n \/ end <= c
        /\ end = NULL => \A c \in H : c <= n
    BY <1>1, <1>2, <1>3 DEF Linked, After
  <1>5. a # n /\ a # end /\ n # end
    BY <1>1, <1>2, <1>3, <1>4
  <1>6. /\ IsMem(r) /\ r.start = m.start /\ r.brk = m.brk /\ r.data = m.data
        /\ DOMAIN r.block = DOMAIN m.block \ {n}
        /\ r.block[a].status = "ALLOC" /\ r.block[a].size = size0
        /\ r.block[a].prev = m.block[a].prev /\ r.block[a].next = end
        /\ \A x \in DOMAIN r.block : x # a /\ x # end => r.block[x] = m.block[x]
    <2>1. /\ IsMem(r) /\ r.start = m.start /\ r.brk = m.brk /\ r.data = m.data
          /\ DOMAIN r.block = DOMAIN m.block \ {n}
          /\ r.block[a] = Block(m.block[a].status, size0, m.block[a].prev, end)
      BY DEF Joined, Rewrites
    <2>2. \A x \in DOMAIN r.block : x # a /\ x # end => r.block[x] = m.block[x]
      <3>1. \A x \in DOMAIN r.block : x \notin {a, n, end} => r.block[x] = m.block[x]
        BY DEF Joined, Rewrites
      <3> QED
        BY <2>1, <3>1
    <2>3. LET b == Block("ALLOC", size0, m.block[a].prev, end) IN
            b.status = "ALLOC" /\ b.size = size0 /\ b.prev = m.block[a].prev /\ b.next = end
      BY BlockFields
    <2> QED
      BY <2>1, <2>2, <2>3
  <1>7. end # NULL => /\ r.block[end].status = m.block[end].status
                      /\ r.block[end].size = m.block[end].size
                      /\ r.block[end].next = m.block[end].next /\ r.block[end].prev = a
    <2>1. SUFFICES ASSUME end # NULL
                   PROVE  /\ r.block[end].status = m.block[end].status
                          /\ r.block[end].size = m.block[end].size
                          /\ r.block[end].next = m.block[end].next /\ r.block[end].prev = a
      OBVIOUS
    <2>2. r.block[end] = Block(m.block[end].status, m.block[end].size, a, m.block[end].next)
      BY <2>1 DEF Joined
    <2> DEFINE e == m.block[end]
               f == r.block[end]
    <2>3. f = Block(e.status, e.size, a, e.next)
      BY <2>2
    <2> HIDE DEF e, f
    <2>4. f.status = e.status /\ f.size = e.size /\ f.prev = a /\ f.next = e.next
      BY <2>3, BlockFields
    <2> QED
      BY <2>4 DEF e, f
  <1> HIDE DEF size0
  <1>8. \A x \in DOMAIN r.block : x # a =>
            /\ r.block[x].status = m.block[x].status /\ r.block[x].size = m.block[x].size
            /\ r.block[x].next = m.block[x].next /\ (x # end => r.block[x].prev = m.block[x].prev)
    <2>1. \A x \in DOMAIN r.block : x # NULL
      BY <1>1, <1>6
    <2> QED
      BY <1>6, <1>7, <2>1
  <1>9. \A x : x \in K <=> x \in H /\ x # n
    <2>1. a \in DOMAIN r.block
      BY <1>2, <1>5, <1>6
    <2> QED
      BY <1>6, <1>8, <2>1 DEF HeapBlocks
  <1>10. \A x \in H : x # n <=> (x <= a \/ (end # NULL /\ end <= x))
    <2>1. ASSUME NEW x \in H PROVE x # n <=> (x <= a \/ (end # NULL /\ end <= x))
      <3>1. x \in Nat /\ (x <= a \/ n <= x) /\ (end # NULL => x <= n \/ end <= x) /\ (end = NULL => x <= n)
        BY <1>2, <1>3, <1>4
      <3> HIDE DEF H
      <3> QED
        BY <1>2, <1>3, <1>4, <3>1
    <2> QED
      BY <2>1
  <1>11. Splices(m, r, a, end, NULL)
    <2>1. end # NULL => end \in H /\ a < end
      BY <1>2, <1>3, <1>4
    <2>2. NULL \notin K
      BY <1>1, <1>9
    <2>3. ASSUME NEW x \in K
          PROVE  /\ r.block[x].next = IF x = a THEN end ELSE m.block[x].next
                 /\ r.block[x].prev = IF x = end THEN a ELSE m.block[x].prev
      <3>1. x \in DOMAIN r.block /\ x # NULL
        BY <2>2 DEF HeapBlocks
      <3>2. CASE x = a
        BY <1>5, <1>6, <3>2
      <3>3. CASE x # a
        BY <1>7, <1>8, <3>1, <3>3
      <3> QED
        BY <3>2, <3>3
    <2> HIDE DEF K, H
    <2> QED
      BY <1>9, <1>10, <2>1, <2>2, <2>3 DEF Splices, K, H
  <1>12. Fits(m, r, a, end, NULL)
    BY <1>1, <1>6 DEF Fits, Placed
  <1>13. Keeps(m, r, {a, NULL})
    <2>1. \A x \in DOMAIN m.block : m.block[x].status = "MAPPED" => x \in DOMAIN r.block /\ x # a
      BY <1>3, <1>6 DEF HeapBlocks
    <2>2. DOMAIN r.block \subseteq DOMAIN m.block
      BY <1>6
    <2> QED
      BY <1>6, <1>8, <2>1, <2>2 DEF Keeps, HeapBlocks
  <1>14. get_block_size(r, a) = get_block_size(m, a) + METADATA_SIZE + get_block_size(m, n)
    <2>1. get_block_size(m, a) = n - a - METADATA_SIZE
      BY <1>3 DEF get_block_size, Gap, EndOf
    <2>2. get_block_size(m, n) = EndOf(m, end) - n - METADATA_SIZE /\ EndOf(m, end) \in Nat
      BY <1>1, <1>3, BlockReaches
    <2>3. get_block_size(r, a) = EndOf(m, end) - a - METADATA_SIZE
      BY <1>6 DEF get_block_size, Gap, EndOf
    <2>4. n \in Nat /\ a \in Nat /\ METADATA_SIZE \in Nat
      BY <1>2, <1>3, Constants
    <2> HIDE DEF H, K, size0
    <2> QED
      BY <2>1, <2>2, <2>3, <2>4
  <1>15. size <= get_block_size(r, a)
    BY <1>14
  <1>16. size0 \in Nat /\ size0 <= get_block_size(r, a)
    <2>1. size0 \in Nat /\ size0 <= get_block_size(m, a)
      BY DEF Good, Sized, SizedAt, size0
    <2>2. get_block_size(m, a) \in Nat /\ get_block_size(m, n) \in Nat
      BY <1>1, <1>3, BlockReaches
    <2> QED
      BY <1>14, <2>1, <2>2, Constants
  <1>17. \A x \in H : a < x /\ (end = NULL \/ x < end) => IsFree(m, x)
    <2>1. ASSUME NEW x \in H, a < x, end = NULL \/ x < end PROVE x = n
      <3>1. ~(x <= a \/ (end # NULL /\ end <= x))
        BY <1>2, <1>4, <2>1
      <3> QED
        BY <1>10, <3>1
    <2> QED
      BY <2>1
  <1>18. r.brk <= limit
    BY <1>6
  <1> HIDE DEF H
  <1>19. Reuses(m, r, a, size, size0)
    BY <1>6, <1>11, <1>12, <1>13, <1>15, <1>16, <1>17, <1>18, SpliceReuses DEF H
  <1> QED
    BY <1>19 DEF size0

\* Growing a block and then splitting it.
LEMMA ReusesTwice ==
    ASSUME NEW m, NEW s, NEW r, NEW a \in Used(m), NEW size, NEW recorded, NEW old,
           Reuses(m, s, a, size, old), Reuses(s, r, a, size, recorded),
           get_block_size(r, a) <= get_block_size(s, a)
    PROVE  Reuses(m, r, a, size, recorded)
  <1>1. /\ \A b : b \in Used(s) <=> b \in Used(m) \/ b = a
        /\ \A b \in Used(m) : b # a => Same(m, s, b)
        /\ DataKept(m, s)
    BY DEF Reuses
  <1>2. /\ \A b : b \in Used(r) <=> b \in Used(s) \/ b = a
        /\ \A b \in Used(s) : b # a => Same(s, r, b)
        /\ DataKept(s, r)
    BY DEF Reuses
  <1>3. \A b \in Used(m) : b # a => Same(m, r, b)
    BY <1>1, <1>2, SameTwice
  <1>4. DataKept(m, r)
    <2>1. ASSUME NEW b \in Used(m), b \in Used(r), NEW x \in Extent(r, b), x \in DOMAIN m.data
          PROVE  x \in DOMAIN r.data /\ r.data[x] = m.data[x]
      <3>1. b \in Used(s) /\ x \in Extent(s, b)
        <4>1. CASE b # a
          BY <1>1, <1>2, <2>1, <4>1, SameExtent
        <4>2. CASE b = a
          <5>1. /\ a \in Nat /\ Room(s, a) \in Nat /\ Room(r, a) \in Nat
                /\ s.block[a].status = "ALLOC" /\ r.block[a].status = "ALLOC"
            BY WholeApart DEF Reuses, HeapBlocks
          <5>2. Room(r, a) <= Room(s, a)
            BY <5>1 DEF Room
          <5> QED
            BY <1>1, <2>1, <4>2, <5>1, <5>2, Constants DEF Extent, Bytes
        <4> QED
          BY <4>1, <4>2
      <3>2. x \in DOMAIN s.data /\ s.data[x] = m.data[x]
        BY <1>1, <2>1, <3>1 DEF DataKept
      <3> QED
        BY <1>2, <2>1, <3>1, <3>2 DEF DataKept
    <2> QED
      BY <2>1 DEF DataKept
  <1> QED
    BY <1>1, <1>2, <1>3, <1>4 DEF Reuses

\* os_realloc that takes in the free block behind.
LEMMA AbsorbReallocs ==
    ASSUME NEW m, IsMem(m), Good(m), limit \in HeapLimits, m.brk <= limit, NEW a \in HeapBlocks(m),
           m.block[a].status = "ALLOC", NEW size \in Sizes, NEW n, n = m.block[a].next, IsFree(m, n),
           get_block_size(m, n) + METADATA_SIZE >= ALIGN(size) - get_block_size(m, a)
    PROVE  Reallocs(m, Absorb(m, a, size), a, size)
  <1> DEFINE end == m.block[n].next
             l == [m EXCEPT !.block[a].next = end]
             s == DropBlocks(SetPrev(l, end, a), {n})
             t == IF CanSplit(get_block_size(s, a), size) THEN split_block(s, a, size) ELSE s
             old == m.block[a].size
  <1>1. Absorb(m, a, size) = Done(t, a)
    BY DEF Absorb
  <1>2. Linked(m) /\ Placed(m) /\ NULL \notin HeapBlocks(m) /\ NULL \notin DOMAIN m.block
    BY NullIsNoBlock, NullIsNoAddress DEF Good
  <1>3. a \in DOMAIN m.block /\ a \in Used(m) /\ a \in Nat
    BY <1>2 DEF HeapBlocks, Used, Placed
  <1>4. n \in HeapBlocks(m) /\ a < n /\ n \in Nat
    BY <1>2 DEF Linked, After, Placed, IsFree
  <1>5. end = NULL \/ (end \in HeapBlocks(m) /\ n < end /\ end \in Nat)
    BY <1>2, <1>4 DEF Linked, After, Placed
  <1>6. Writes(m, l, a, Block(m.block[a].status, old, m.block[a].prev, end)) /\ l.data = m.data
    BY <1>3, SetNextIs
  <1> HIDE DEF l, old
  <1>7. end = NULL \/ (end \in DOMAIN m.block /\ end # a /\ end # n)
    BY <1>3, <1>4, <1>5 DEF HeapBlocks
  <1>8. a # n
    BY <1>3, <1>4
  <1>9. Joined(m, s, a, n, end, old)
    BY <1>2, <1>3, <1>6, <1>7, <1>8, JoinIs
  <1> HIDE DEF s
  <1>10. size \in Nat
    BY OsMemAssumption
  <1>11. size <= get_block_size(m, a) + METADATA_SIZE + get_block_size(m, n)
    <2>1. get_block_size(m, a) \in Nat /\ get_block_size(m, n) \in Nat
      BY <1>4, GapIsAligned
    <2>2. ALIGN(size) \in Int /\ size <= ALIGN(size)
      BY <1>10, AlignUp
    <2> QED
      BY <1>10, <2>1, <2>2, Constants
  <1>12. Reuses(m, s, a, size, old)
    BY <1>9, <1>10, <1>11, JoinReuses DEF old
  <1>13. \E recorded : Reuses(m, t, a, size, recorded)
    <2>1. CASE CanSplit(get_block_size(s, a), size)
      <3> DEFINE u == split_block(s, a, size)
      <3>1. IsMem(s) /\ Good(s) /\ s.brk <= limit /\ a \in HeapBlocks(s)
        BY <1>12 DEF Reuses
      <3>2. Reuses(s, u, a, size, size) /\ get_block_size(u, a) <= get_block_size(s, a)
        BY <1>10, <2>1, <3>1, SplitReuses
      <3>3. t = u
        BY <2>1
      <3> HIDE DEF t, u
      <3>4. Reuses(m, u, a, size, size)
        BY <1>3, <1>12, <3>2, ReusesTwice
      <3> QED
        BY <3>3, <3>4
    <2>2. CASE ~CanSplit(get_block_size(s, a), size)
      <3>1. t = s
        BY <2>2
      <3> HIDE DEF t
      <3> QED
        BY <1>12, <3>1
    <2> QED
      BY <2>1, <2>2
  <1>14. PICK recorded : Reuses(m, t, a, size, recorded)
    BY <1>13
  <1> HIDE DEF t
  <1> QED
    BY <1>1, <1>3, <1>14, InPlaceReallocs

\* os_realloc of a block of the heap, all its cases.
LEMMA AllocReallocs ==
    ASSUME NEW m, IsMem(m), Good(m), limit \in HeapLimits, m.brk <= limit, NEW a \in HeapBlocks(m),
           m.block[a].status = "ALLOC", NEW size \in Sizes
    PROVE  Reallocs(m, ReallocAlloc(m, a, size), a, size)
  <1> DEFINE total == get_block_size(m, a)
             next == m.block[a].next
             merged == merge_next_block(m, next)
             r == ReallocAlloc(m, a, size)
  <1>1. size \in Nat /\ a \in Nat /\ a \in Used(m)
    BY OsMemAssumption DEF Good, Placed, Used, HeapBlocks
  <1>2. total \in Nat /\ ALIGN(size) \in Int /\ size <= ALIGN(size)
    BY <1>1, GapIsAligned, AlignUp
  <1>3. CASE MustMap(size)
    <2> DEFINE n == Smaller(m, a, size)
    <2>1. r = MoveTo(alloc_via_mmap(m, size), a + METADATA_SIZE, n)
      BY <1>3 DEF ReallocAlloc
    <2>2. n \in Nat /\ n <= size
      BY <1>1, SmallerIs
    <2> HIDE DEF n, r
    <2>3. Moved(m, r, a, size, n)
      BY <1>1, <2>1, <2>2, MmapAllocates, MovesTo
    <2> QED
      BY <1>3, <2>2, <2>3 DEF Reallocs, n, r
  <1>4. CASE ~MustMap(size) /\ CanSplit(total, size)
    <2>1. r = Done(split_block(m, a, size), a)
      BY <1>4 DEF ReallocAlloc
    <2>2. Reuses(m, split_block(m, a, size), a, size, size)
      BY <1>1, <1>4, SplitReuses
    <2> HIDE DEF r
    <2> QED
      BY <1>1, <2>1, <2>2, InPlaceReallocs DEF r
  <1>5. CASE ~MustMap(size) /\ ~CanSplit(total, size) /\ total >= ALIGN(size)
    <2>1. r = Done(SetSize(m, a, size), a)
      BY <1>5 DEF ReallocAlloc
    <2>2. size <= total
      BY <1>1, <1>2, <1>5
    <2>3. Reuses(m, SetSize(m, a, size), a, size, size)
      BY <1>1, <2>2, ReuseWhole
    <2> HIDE DEF r
    <2> QED
      BY <1>1, <2>1, <2>3, InPlaceReallocs DEF r
  <1>6. CASE ~MustMap(size) /\ ~CanSplit(total, size) /\ ~(total >= ALIGN(size))
    <2>1. r = IF next = NULL THEN GrowLast(m, a, size)
              ELSE IF m.block[next].status # "FREE" THEN Relocate(m, a, size)
              ELSE IF get_block_size(merged, next) + METADATA_SIZE >= ALIGN(size) - total
              THEN Absorb(merged, a, size)
              ELSE Relocate(merged, a, size)
      BY <1>6 DEF ReallocAlloc
    <2> HIDE DEF r, merged
    <2>2. CASE next = NULL
      BY <1>1, <1>6, <2>1, <2>2, GrowLastReallocs DEF r
    <2>3. CASE next # NULL /\ m.block[next].status # "FREE"
      BY <1>1, <2>1, <2>3, RelocateReallocs DEF r
    <2>4. CASE next # NULL /\ m.block[next].status = "FREE"
      <3>1. IsFree(m, next)
        BY <2>4 DEF IsFree
      <3>2. next \in HeapBlocks(m)
        BY <2>4 DEF Good, Linked, After
      <3>3. merged = m
        BY <3>1, <3>2, MergesNothing DEF merged
      <3>4. Reallocs(m, Relocate(m, a, size), a, size)
        BY <1>1, RelocateReallocs
      <3>5. get_block_size(m, next) + METADATA_SIZE >= ALIGN(size) - total
                => Reallocs(m, Absorb(m, a, size), a, size)
        BY <3>1, AbsorbReallocs
      <3> HIDE DEF total
      <3> QED
        BY <2>1, <2>4, <3>3, <3>4, <3>5 DEF r
    <2> QED
      BY <2>2, <2>3, <2>4
  <1> QED
    BY <1>3, <1>4, <1>5, <1>6

\* os_realloc leaves the block in place or moves it, and disturbs no other.
LEMMA ReallocIs ==
    ASSUME NEW m, IsMem(m), Good(m), limit \in HeapLimits, m.brk <= limit, NEW a \in Used(m),
           NEW size \in Sizes
    PROVE  Reallocs(m, os_realloc(m, a + METADATA_SIZE, size), a, size)
  <1> DEFINE ptr == a + METADATA_SIZE
             r == os_realloc(m, ptr, size)
  <1>1. a \in Nat
    BY WholeApart DEF Used
  <1>2. ptr - METADATA_SIZE = a /\ ptr # NULL
    BY <1>1, Constants DEF NULL
  <1> HIDE DEF ptr
  <1>3. r = CASE m.block[a].status = "MAPPED" -> ReallocMapped(m, a, size)
              [] m.block[a].status = "ALLOC" -> ReallocAlloc(m, a, size)
              [] OTHER -> Failed(m)
    BY <1>2 DEF os_realloc
  <1> HIDE DEF r
  <1>4. CASE m.block[a].status = "MAPPED"
    BY <1>3, <1>4, MappedReallocs DEF r, ptr
  <1>5. CASE m.block[a].status # "MAPPED"
    <2>1. a \in HeapBlocks(m) /\ m.block[a].status = "ALLOC"
      BY <1>5 DEF Used, HeapBlocks, Good, Sized, SizedAt
    <2>2. r = ReallocAlloc(m, a, size)
      BY <1>3, <2>1
    <2> QED
      BY <2>1, <2>2, AllocReallocs DEF r, ptr
  <1> QED
    BY <1>4, <1>5

-----------------------------------------------------------------------------
(* The blocks the program holds                                              *)

\* lv has the sizes of the blocks in use of m, no larger than there is room; a
\* mapping is recorded with its size.
Held(m, lv) ==
    /\ \A p : p \in DOMAIN lv <=> \E a \in Used(m) : p = a + METADATA_SIZE
    /\ \A a \in Used(m) : LET n == lv[a + METADATA_SIZE] IN
           /\ n \in Sizes /\ n <= Room(m, a)
           /\ m.block[a].status = "MAPPED" => m.block[a].size = n

\* Each holds what the program wrote there, its pointer.
Contents(m, lv) ==
    \A a \in Used(m) : \A x \in Bytes(a + METADATA_SIZE, lv[a + METADATA_SIZE]) :
        x \in DOMAIN m.data /\ m.data[x] = a + METADATA_SIZE

\* What is known of a block the program holds.
LEMMA HeldBlock ==
    ASSUME NEW m, Good(m), NEW lv, Held(m, lv), NEW a \in Used(m)
    PROVE  /\ a \in Nat /\ a \in DOMAIN m.block /\ a + METADATA_SIZE \in DOMAIN lv
           /\ (a + METADATA_SIZE) - METADATA_SIZE = a
           /\ lv[a + METADATA_SIZE] \in Sizes /\ lv[a + METADATA_SIZE] \in Nat
           /\ lv[a + METADATA_SIZE] <= Room(m, a)
           /\ m.block[a].status = "MAPPED" => m.block[a].size = lv[a + METADATA_SIZE]
           /\ Bytes(a + METADATA_SIZE, lv[a + METADATA_SIZE]) \subseteq Extent(m, a)
  <1>1. a \in DOMAIN m.block /\ a \in Nat
    BY WholeApart DEF Used
  <1>2. a + METADATA_SIZE \in DOMAIN lv
    BY DEF Held
  <1>3. /\ lv[a + METADATA_SIZE] \in Sizes /\ lv[a + METADATA_SIZE] <= Room(m, a)
        /\ m.block[a].status = "MAPPED" => m.block[a].size = lv[a + METADATA_SIZE]
    BY DEF Held
  <1>4. lv[a + METADATA_SIZE] \in Nat
    BY <1>3, OsMemAssumption
  <1>5. Bytes(a + METADATA_SIZE, lv[a + METADATA_SIZE]) \subseteq Extent(m, a)
    BY <1>1, <1>3, <1>4, FirstBytes
  <1>6. (a + METADATA_SIZE) - METADATA_SIZE = a
    BY <1>1, Constants
  <1> QED
    BY <1>1, <1>2, <1>3, <1>4, <1>5, <1>6

\* The program has block c of r, of `size` bytes, and keeps the others, lo.
Takes(m, r, c, size, lv, lo) ==
    /\ IsMem(r) /\ Good(r) /\ c \in Used(r) /\ size <= Room(r, c)
    /\ r.block[c].status = "MAPPED" => r.block[c].size = size
    /\ \A b \in Used(r) : b # c =>
           /\ b \in Used(m) /\ Same(m, r, b)
           /\ b + METADATA_SIZE \in DOMAIN lo
           /\ lo[b + METADATA_SIZE] = lv[b + METADATA_SIZE]
    /\ \A p \in DOMAIN lo : \E b \in Used(r) : p = b + METADATA_SIZE
    /\ DataKept(m, r)

\* Once the program has filled its block, it holds what it should.
LEMMA TakesHeld ==
    ASSUME NEW m, Good(m), NEW lv, Held(m, lv), NEW size \in Sizes, NEW r, NEW c, NEW lo,
           Takes(m, r, c, size, lv, lo)
    PROVE  LET t == Fill(r, c + METADATA_SIZE, size)
               lw == Put(lo, {c + METADATA_SIZE}, size)
           IN  /\ IsMem(t) /\ Good(t) /\ t.brk = r.brk /\ Held(t, lw)
               /\ Contents(m, lv) => Contents(t, lw)
  <1> DEFINE ptr == c + METADATA_SIZE
             t == Fill(r, ptr, size)
             lw == Put(lo, {ptr}, size)
  <1>1. /\ IsMem(r) /\ Good(r) /\ c \in Used(r) /\ c \in DOMAIN r.block /\ size <= Room(r, c)
        /\ r.block[c].status = "MAPPED" => r.block[c].size = size
        /\ \A b \in Used(r) : b # c =>
               /\ b \in Used(m) /\ Same(m, r, b)
               /\ b + METADATA_SIZE \in DOMAIN lo
               /\ lo[b + METADATA_SIZE] = lv[b + METADATA_SIZE]
        /\ \A p \in DOMAIN lo : \E b \in Used(r) : p = b + METADATA_SIZE
        /\ DataKept(m, r)
    BY DEF Takes, Used
  <1>2. size \in Nat
    BY OsMemAssumption
  <1>3. t = memset(r, ptr, ptr, size)
    BY DEF Fill
  <1>4. Touches(r, t, c) /\ \A x \in Bytes(ptr, size) : x \in DOMAIN t.data /\ t.data[x] = ptr
    BY <1>1, <1>2, <1>3, MemsetIs
  <1> HIDE DEF t
  <1>5. /\ Good(t) /\ Used(t) = Used(r) /\ \A b \in DOMAIN r.block : Room(t, b) = Room(r, b)
        /\ \A b \in Used(r) : Same(r, t, b)
    BY <1>1, <1>4, TouchedIsGood
  <1>6. IsMem(t) /\ t.brk = r.brk /\ t.block = r.block
    BY <1>4 DEF Touches
  <1>7. /\ DOMAIN lw = DOMAIN lo \cup {ptr} /\ lw[ptr] = size
        /\ \A p \in DOMAIN lo : p # ptr => lw[p] = lo[p]
    BY DEF Put
  <1> HIDE DEF lw
  <1>8. \A b \in Used(r) : b \in Nat /\ (b # c => b + METADATA_SIZE # ptr)
    <2>1. \A b \in Used(r) : b \in Nat
      BY <1>1, WholeApart DEF Used
    <2> QED
      BY <1>1, <2>1, Constants
  <1> HIDE DEF ptr
  <1>9. \A b \in Used(r) : b # c =>
            lw[b + METADATA_SIZE] = lv[b + METADATA_SIZE] /\ b + METADATA_SIZE \in DOMAIN lw
    BY <1>1, <1>7, <1>8
  <1>10. Held(t, lw)
    <2>1. ASSUME NEW p PROVE p \in DOMAIN lw <=> \E b \in Used(t) : p = b + METADATA_SIZE
      <3>1. ptr = c + METADATA_SIZE
        BY DEF ptr
      <3>2. p \in DOMAIN lw => \E b \in Used(t) : p = b + METADATA_SIZE
        BY <1>1, <1>5, <1>7, <3>1
      <3>3. ASSUME NEW b \in Used(t), p = b + METADATA_SIZE PROVE p \in DOMAIN lw
        BY <1>5, <1>7, <1>9, <3>1, <3>3
      <3> QED
        BY <3>2, <3>3
    <2>2. ASSUME NEW b \in Used(t)
          PROVE  LET n == lw[b + METADATA_SIZE] IN
                 /\ n \in Sizes /\ n <= Room(t, b)
                 /\ t.block[b].status = "MAPPED" => t.block[b].size = n
      <3>1. b \in Used(r) /\ Room(t, b) = Room(r, b) /\ t.block[b] = r.block[b]
        BY <1>5, <1>6, <2>2 DEF Used
      <3>2. CASE b = c
        BY <1>1, <1>7, <3>1, <3>2 DEF ptr
      <3>3. CASE b # c
        <4>1. b \in Used(m) /\ Same(m, r, b) /\ lw[b + METADATA_SIZE] = lv[b + METADATA_SIZE]
          BY <1>1, <1>9, <3>1, <3>3
        <4>2. /\ lv[b + METADATA_SIZE] \in Sizes /\ lv[b + METADATA_SIZE] <= Room(m, b)
              /\ m.block[b].status = "MAPPED" => m.block[b].size = lv[b + METADATA_SIZE]
          BY <4>1, HeldBlock
        <4> QED
          BY <3>1, <4>1, <4>2 DEF Same
      <3> QED
        BY <3>2, <3>3
    <2> QED
      BY <2>1, <2>2 DEF Held
  <1>11. ASSUME Contents(m, lv) PROVE Contents(t, lw)
    <2>1. ASSUME NEW b \in Used(t), NEW x \in Bytes(b + METADATA_SIZE, lw[b + METADATA_SIZE])
          PROVE  x \in DOMAIN t.data /\ t.data[x] = b + METADATA_SIZE
      <3>1. CASE b = c
        BY <1>4, <1>7, <2>1, <3>1 DEF ptr
      <3>2. CASE b # c
        <4>1. b \in Used(m) /\ b \in Used(r) /\ Same(m, r, b) /\ b \in DOMAIN r.block
              /\ lw[b + METADATA_SIZE] = lv[b + METADATA_SIZE]
          BY <1>1, <1>5, <1>9, <2>1, <3>2 DEF Used
        <4>2. x \in DOMAIN m.data /\ m.data[x] = b + METADATA_SIZE
          BY <1>11, <2>1, <4>1 DEF Contents
        <4>3. x \in Extent(r, b)
          BY <2>1, <4>1, HeldBlock, SameExtent
        <4>4. x \in DOMAIN r.data /\ r.data[x] = m.data[x]
          BY <1>1, <4>1, <4>2, <4>3 DEF DataKept
        <4>5. x \notin Extent(r, c)
          BY <1>1, <3>2, <4>1, <4>3, ExtentsApart
        <4> QED
          BY <1>4, <4>2, <4>4, <4>5 DEF Touches
      <3> QED
        BY <3>1, <3>2
    <2> QED
      BY <2>1 DEF Contents
  <1> QED
    BY <1>5, <1>6, <1>10, <1>11 DEF t, lw, ptr

\* A call that changes no block in use changes nothing the program holds.
LEMMA StaysHeld ==
    ASSUME NEW m, Good(m), NEW lv, Held(m, lv), NEW r, Stays(m, r)
    PROVE  Held(r, lv) /\ (Contents(m, lv) => Contents(r, lv))
  <1>1. /\ \A b : b \in Used(r) <=> b \in Used(m)
        /\ \A b \in Used(m) : Same(m, r, b)
        /\ DataKept(m, r)
    BY DEF Stays
  <1>2. \A b \in Used(m) : Room(r, b) = Room(m, b) /\ r.block[b].status = m.block[b].status
                           /\ r.block[b].size = m.block[b].size
    BY <1>1 DEF Same
  <1>3. Held(r, lv)
    BY <1>1, <1>2 DEF Held
  <1>4. ASSUME Contents(m, lv) PROVE Contents(r, lv)
    <2>1. ASSUME NEW b \in Used(r), NEW x \in Bytes(b + METADATA_SIZE, lv[b + METADATA_SIZE])
          PROVE  x \in DOMAIN r.data /\ r.data[x] = b + METADATA_SIZE
      <3>1. b \in Used(m) /\ Same(m, r, b)
        BY <1>1, <2>1
      <3>2. x \in DOMAIN m.data /\ m.data[x] = b + METADATA_SIZE
        BY <1>4, <2>1, <3>1 DEF Contents
      <3>3. x \in Extent(r, b)
        BY <2>1, <3>1, HeldBlock, SameExtent
      <3> QED
        BY <1>1, <2>1, <3>1, <3>2, <3>3 DEF DataKept
    <2> QED
      BY <2>1 DEF Contents
  <1> QED
    BY <1>3, <1>4

\* A block gained is one more that the program holds.
LEMMA GainsTakes ==
    ASSUME NEW m, Good(m), NEW lv, Held(m, lv), NEW r, NEW c, NEW size, Gains(m, r, c, size)
    PROVE  Takes(m, r, c, size, lv, lv)
  <1>1. \A b \in Used(r) : b # c => b \in Used(m) /\ Same(m, r, b) /\ b + METADATA_SIZE \in DOMAIN lv
    BY HeldBlock DEF Gains
  <1>2. \A p \in DOMAIN lv : \E b \in Used(r) : p = b + METADATA_SIZE
    BY DEF Gains, Held
  <1> QED
    BY <1>1, <1>2 DEF Gains, Takes

\* What the program holds without the block at a.
Without(lv, a) == Restrict(lv, DOMAIN lv \ {a + METADATA_SIZE})

\* The other blocks of the program.
LEMMA WithoutIs ==
    ASSUME NEW m, Good(m), NEW lv, Held(m, lv), NEW a \in Used(m)
    PROVE  /\ \A b \in Used(m) : b # a =>
                  /\ b + METADATA_SIZE \in DOMAIN Without(lv, a)
                  /\ Without(lv, a)[b + METADATA_SIZE] = lv[b + METADATA_SIZE]
           /\ \A p \in DOMAIN Without(lv, a) : \E b \in Used(m) : b # a /\ p = b + METADATA_SIZE
  <1>1. /\ DOMAIN Without(lv, a) = DOMAIN lv \ {a + METADATA_SIZE}
        /\ \A p \in DOMAIN Without(lv, a) : Without(lv, a)[p] = lv[p]
    BY DEF Without, Restrict
  <1>2. \A b \in Used(m) : b \in Nat /\ b + METADATA_SIZE \in DOMAIN lv
    BY HeldBlock
  <1>3. \A b \in Used(m) : b # a => b + METADATA_SIZE # a + METADATA_SIZE
    BY <1>2, Constants
  <1>4. \A p \in DOMAIN lv : \E b \in Used(m) : p = b + METADATA_SIZE
    BY DEF Held
  <1> QED
    BY <1>1, <1>2, <1>3, <1>4

\* A block resized in place is still held, with its new size.
LEMMA ReusesTakes ==
    ASSUME NEW m, Good(m), NEW lv, Held(m, lv), NEW a \in Used(m), NEW r, NEW size, NEW recorded,
           Reuses(m, r, a, size, recorded)
    PROVE  Takes(m, r, a, size, lv, Without(lv, a))
  <1>1. /\ \A b : b \in Used(r) <=> b \in Used(m)
        /\ \A b \in Used(m) : b # a => Same(m, r, b)
        /\ r.block[a].status = "ALLOC" /\ size <= Room(r, a)
    BY DEF Reuses, Room
  <1>2. \A b \in Used(r) : b # a =>
            /\ b \in Used(m) /\ Same(m, r, b)
            /\ b + METADATA_SIZE \in DOMAIN Without(lv, a)
            /\ Without(lv, a)[b + METADATA_SIZE] = lv[b + METADATA_SIZE]
    BY <1>1, WithoutIs
  <1>3. \A p \in DOMAIN Without(lv, a) : \E b \in Used(r) : p = b + METADATA_SIZE
    BY <1>1, WithoutIs
  <1> QED
    BY <1>1, <1>2, <1>3 DEF Reuses, Takes

\* The bytes of a block that is not in use any more are not known any more.
LEMMA WipedIs ==
    ASSUME NEW s, IsMem(s), Good(s), NEW ptr, NEW n,
           \A b \in Used(s) : \A x \in Extent(s, b) : x \notin Bytes(ptr, n)
    PROVE  LET w == Wipe(s, ptr, n) IN
           /\ IsMem(w) /\ Good(w) /\ w.brk = s.brk /\ w.block = s.block /\ Used(w) = Used(s)
           /\ \A b \in Used(s) : Same(s, w, b) /\ Extent(w, b) = Extent(s, b)
           /\ \A b \in Used(s) : \A x \in Extent(s, b) : x \in DOMAIN s.data =>
                  x \in DOMAIN w.data /\ w.data[x] = s.data[x]
  <1> DEFINE w == Wipe(s, ptr, n)
  <1>1. /\ IsMem(w) /\ w.start = s.start /\ w.brk = s.brk /\ w.block = s.block
        /\ w.data = Restrict(s.data, DOMAIN s.data \ Bytes(ptr, n))
    BY WipeIs
  <1> HIDE DEF w
  <1>2. HeapBlocks(w) = HeapBlocks(s) /\ Mapped(w) /\ Used(w) = Used(s)
    BY <1>1 DEF HeapBlocks, Good, Mapped, Used
  <1>3. Good(w)
    BY <1>1, <1>2, SameHeap
  <1>4. \A b \in Used(s) : Same(s, w, b)
    BY <1>1, <1>2 DEF Same, Room, get_block_size, Gap, EndOf
  <1>5. \A b \in Used(s) : Extent(w, b) = Extent(s, b)
    BY <1>4, SameExtent
  <1>6. \A b \in Used(s) : \A x \in Extent(s, b) : x \in DOMAIN s.data =>
            x \in DOMAIN w.data /\ w.data[x] = s.data[x]
    BY <1>1 DEF Restrict
  <1> QED
    BY <1>1, <1>2, <1>3, <1>4, <1>5, <1>6 DEF w

\* The program has moved a block, and knows nothing any more of the old bytes.
LEMMA MovesTakes ==
    ASSUME NEW m, Good(m), NEW lv, Held(m, lv), NEW a \in Used(m), NEW s, NEW c, NEW size, NEW n,
           Moves(m, s, a, c, size, n),
           NEW w, w = Wipe(s, a + METADATA_SIZE, lv[a + METADATA_SIZE])
    PROVE  /\ Takes(m, w, c, size, lv, Without(lv, a)) /\ w.brk = s.brk
           /\ \A x \in Extent(s, c) : x \in DOMAIN s.data =>
                  x \in DOMAIN w.data /\ w.data[x] = s.data[x]
  <1> DEFINE ptr == a + METADATA_SIZE
             L == lv[ptr]
  <1>1. /\ IsMem(s) /\ Good(s) /\ DataKept(m, s)
        /\ \A b : b \in Used(s) <=> (b \in Used(m) /\ b # a) \/ b = c
        /\ \A b \in Used(m) : b # a => Same(m, s, b)
        /\ size <= Room(s, c) /\ s.block[c].size = size
        /\ \A b \in Used(s) : \A x \in Extent(s, b) : x \notin Extent(m, a)
    BY DEF Moves
  <1>2. Bytes(ptr, L) \subseteq Extent(m, a)
    BY HeldBlock
  <1>3. w = Wipe(s, ptr, L)
    OBVIOUS
  <1> HIDE DEF ptr, L
  <1>4. \A b \in Used(s) : \A x \in Extent(s, b) : x \notin Bytes(ptr, L)
    BY <1>1, <1>2
  <1>5. /\ IsMem(w) /\ Good(w) /\ w.brk = s.brk /\ w.block = s.block /\ Used(w) = Used(s)
        /\ \A b \in Used(s) : Same(s, w, b) /\ Extent(w, b) = Extent(s, b)
        /\ \A b \in Used(s) : \A x \in Extent(s, b) : x \in DOMAIN s.data =>
               x \in DOMAIN w.data /\ w.data[x] = s.data[x]
    BY <1>1, <1>3, <1>4, WipedIs
  <1>6. c \in Used(w) /\ c \in Used(s) /\ Same(s, w, c)
    BY <1>1, <1>5
  <1>7. size <= Room(w, c) /\ w.block[c].size = size
    BY <1>1, <1>6 DEF Same
  <1>8. \A b \in Used(w) : b # c =>
            /\ b \in Used(m) /\ Same(m, w, b)
            /\ b + METADATA_SIZE \in DOMAIN Without(lv, a)
            /\ Without(lv, a)[b + METADATA_SIZE] = lv[b + METADATA_SIZE]
    <2>1. \A b \in Used(w) : b # c => b \in Used(m) /\ b # a /\ Same(m, s, b) /\ Same(s, w, b)
      BY <1>1, <1>5
    <2>2. \A b \in Used(w) : b # c => Same(m, w, b)
      BY <2>1, SameTwice
    <2> QED
      BY <2>1, <2>2, WithoutIs
  <1>9. \A p \in DOMAIN Without(lv, a) : \E b \in Used(w) : p = b + METADATA_SIZE
    <2>1. \A p \in DOMAIN Without(lv, a) : \E b \in Used(m) : b # a /\ p = b + METADATA_SIZE
      BY WithoutIs
    <2> QED
      BY <1>1, <1>5, <2>1
  <1>10. DataKept(m, w)
    <2>1. ASSUME NEW b, b \in Used(m), b \in Used(w), NEW x \in Extent(w, b), x \in DOMAIN m.data
          PROVE  x \in DOMAIN w.data /\ w.data[x] = m.data[x]
      <3>1. b \in Used(s) /\ x \in Extent(s, b)
        BY <1>5, <2>1
      <3>2. x \in DOMAIN s.data /\ s.data[x] = m.data[x]
        BY <1>1, <2>1, <3>1 DEF DataKept
      <3> QED
        BY <1>5, <3>1, <3>2
    <2> QED
      BY <2>1 DEF DataKept
  <1> QED
    BY <1>5, <1>6, <1>7, <1>8, <1>9, <1>10 DEF Takes

\* What the program finds where its block has moved.
LEMMA MovesContents ==
    ASSUME NEW m, Good(m), NEW lv, Held(m, lv), Contents(m, lv), NEW a \in Used(m),
           NEW s, NEW c \in Nat, NEW size \in Nat, NEW n \in Nat, Moves(m, s, a, c, size, n),
           NEW w, w = Wipe(s, a + METADATA_SIZE, lv[a + METADATA_SIZE]),
           NEW kept \in Nat, kept <= n, kept <= size, kept <= lv[a + METADATA_SIZE],
           NEW x \in Bytes(c + METADATA_SIZE, kept)
    PROVE  x \in DOMAIN w.data /\ w.data[x] = a + METADATA_SIZE
  <1> DEFINE ptr == a + METADATA_SIZE
             L == lv[ptr]
             i == x - (c + METADATA_SIZE)
             y == ptr + i
             z == c + METADATA_SIZE + i
  <1>1. a \in Nat /\ L \in Nat /\ METADATA_SIZE \in Nat /\ Bytes(ptr, L) \subseteq Extent(m, a)
    BY HeldBlock, Constants
  <1>2. x \in c + METADATA_SIZE .. c + METADATA_SIZE + kept - 1 /\ x \in Int
    BY <1>1 DEF Bytes
  <1>3. i \in 0 .. kept - 1 /\ i \in 0 .. n - 1 /\ z = x
    BY <1>1, <1>2
  <1>4. y \in Bytes(ptr, L)
    <2>1. kept <= L
      OBVIOUS
    <2> HIDE DEF L
    <2> QED
      BY <1>1, <1>2, <2>1 DEF Bytes
  <1>5. y \in Extent(m, a) /\ y \in DOMAIN m.data /\ m.data[y] = ptr
    BY <1>1, <1>4 DEF Contents
  <1>6. z \in DOMAIN s.data /\ s.data[z] = m.data[y]
    <2>1. \A j \in 0 .. n - 1 :
             a + METADATA_SIZE + j \in Extent(m, a) /\ a + METADATA_SIZE + j \in DOMAIN m.data =>
               /\ c + METADATA_SIZE + j \in DOMAIN s.data
               /\ s.data[c + METADATA_SIZE + j] = m.data[a + METADATA_SIZE + j]
      BY DEF Moves
    <2> HIDE DEF i
    <2> QED
      BY <1>3, <1>5, <2>1
  <1>7. x \in Extent(s, c)
    <2>1. Good(s) /\ c \in DOMAIN s.block /\ size <= Room(s, c)
      BY DEF Moves, Used
    <2>2. Room(s, c) \in Nat
      BY <2>1, WholeApart
    <2> QED
      BY <1>1, <1>2, <2>1, <2>2 DEF Extent, Bytes
  <1>8. \A u \in Extent(s, c) : u \in DOMAIN s.data => u \in DOMAIN w.data /\ w.data[u] = s.data[u]
    BY MovesTakes
  <1> QED
    BY <1>3, <1>5, <1>6, <1>7, <1>8

\* The program gives a block back, and knows nothing any more of its bytes.
LEMMA FreesHeld ==
    ASSUME NEW m, Good(m), NEW lv, Held(m, lv), NEW a \in Used(m), NEW u, Frees(m, u, a),
           NEW w, w = Wipe(u, a + METADATA_SIZE, lv[a + METADATA_SIZE])
    PROVE  /\ IsMem(w) /\ Good(w) /\ w.brk = m.brk /\ Held(w, Without(lv, a))
           /\ Contents(m, lv) => Contents(w, Without(lv, a))
  <1> DEFINE ptr == a + METADATA_SIZE
             L == lv[ptr]
             lw == Without(lv, a)
  <1>1. /\ IsMem(u) /\ Good(u) /\ u.brk = m.brk /\ u.data = m.data
        /\ \A b : b \in Used(u) <=> b \in Used(m) /\ b # a
        /\ \A b \in Used(u) : Same(m, u, b)
    BY DEF Frees
  <1>2. Bytes(ptr, L) \subseteq Extent(m, a) /\ w = Wipe(u, ptr, L)
    BY HeldBlock
  <1>3. \A b \in Used(m) : /\ b # a => b + METADATA_SIZE \in DOMAIN lw
                           /\ b # a => lw[b + METADATA_SIZE] = lv[b + METADATA_SIZE]
    BY WithoutIs
  <1>4. \A p \in DOMAIN lw : \E b \in Used(m) : b # a /\ p = b + METADATA_SIZE
    BY WithoutIs
  <1> HIDE DEF ptr, L, lw
  <1>5. \A b \in Used(u) : \A x \in Extent(u, b) : x \notin Bytes(ptr, L)
    <2>1. ASSUME NEW b \in Used(u), NEW x \in Extent(u, b) PROVE x \notin Extent(m, a)
      <3>1. b \in DOMAIN m.block /\ a \in DOMAIN m.block /\ b # a /\ Same(m, u, b)
        BY <1>1, <2>1 DEF Used
      <3>2. x \in Extent(m, b)
        BY <2>1, <3>1, SameExtent
      <3> QED
        BY <3>1, <3>2, ExtentsApart
    <2> QED
      BY <1>2, <2>1
  <1>6. /\ IsMem(w) /\ Good(w) /\ w.brk = u.brk /\ w.block = u.block /\ Used(w) = Used(u)
        /\ \A b \in Used(u) : Same(u, w, b) /\ Extent(w, b) = Extent(u, b)
        /\ \A b \in Used(u) : \A x \in Extent(u, b) : x \in DOMAIN u.data =>
               x \in DOMAIN w.data /\ w.data[x] = u.data[x]
    BY <1>1, <1>2, <1>5, WipedIs
  <1>7. \A b \in Used(w) : b \in Used(m) /\ b # a /\ b \in Used(u) /\ Same(m, u, b) /\ Same(u, w, b)
    BY <1>1, <1>6
  <1>8. \A b \in Used(w) : Same(m, w, b)
    BY <1>7, SameTwice
  <1>9. Held(w, lw)
    <2>1. \A p : p \in DOMAIN lw <=> \E b \in Used(w) : p = b + METADATA_SIZE
      BY <1>1, <1>3, <1>4, <1>6
    <2>2. ASSUME NEW b \in Used(w)
          PROVE  LET n == lw[b + METADATA_SIZE] IN
                 /\ n \in Sizes /\ n <= Room(w, b)
                 /\ w.block[b].status = "MAPPED" => w.block[b].size = n
      <3>1. b \in Used(m) /\ Same(m, w, b) /\ lw[b + METADATA_SIZE] = lv[b + METADATA_SIZE]
        BY <1>3, <1>7, <1>8, <2>2
      <3>2. /\ lv[b + METADATA_SIZE] \in Sizes /\ lv[b + METADATA_SIZE] <= Room(m, b)
            /\ m.block[b].status = "MAPPED" => m.block[b].size = lv[b + METADATA_SIZE]
        BY <3>1, HeldBlock
      <3> QED
        BY <3>1, <3>2 DEF Same
    <2> QED
      BY <2>1, <2>2 DEF Held
  <1>10. ASSUME Contents(m, lv) PROVE Contents(w, lw)
    <2>1. ASSUME NEW b \in Used(w), NEW x \in Bytes(b + METADATA_SIZE, lw[b + METADATA_SIZE])
          PROVE  x \in DOMAIN w.data /\ w.data[x] = b + METADATA_SIZE
      <3>1. /\ b \in Used(m) /\ b \in Used(u) /\ Same(m, u, b)
            /\ lw[b + METADATA_SIZE] = lv[b + METADATA_SIZE]
        BY <1>3, <1>7, <2>1
      <3>2. x \in DOMAIN m.data /\ m.data[x] = b + METADATA_SIZE
        BY <1>10, <2>1, <3>1 DEF Contents
      <3>3. x \in Extent(u, b)
        BY <2>1, <3>1, HeldBlock, SameExtent
      <3> QED
        BY <1>1, <1>6, <3>1, <3>2, <3>3
    <2> QED
      BY <2>1 DEF Contents
  <1> QED
    BY <1>1, <1>6, <1>9, <1>10 DEF lw

-----------------------------------------------------------------------------
(* The invariants                                                            *)

\* The heap is as it should be, and the blocks in use are the program's.
IInv ==
    /\ limit \in HeapLimits
    /\ IsMem(mem) /\ Good(mem) /\ mem.brk <= limit
    /\ Held(mem, live)

\* What the program has written is there.
Kept == Contents(mem, live) /\ ~surprised

\* A pointer of the program is that of a block in use.
LEMMA HeldPointer ==
    ASSUME IInv, NEW ptr \in DOMAIN live
    PROVE  \E a \in Used(mem) : a \in Nat /\ ptr = a + METADATA_SIZE /\ ptr - METADATA_SIZE = a
  <1>1. PICK a \in Used(mem) : ptr = a + METADATA_SIZE
    BY DEF IInv, Held
  <1>2. a \in Nat
    BY WholeApart DEF IInv, Used
  <1> QED
    BY <1>1, <1>2, Constants

\* A call that fails leaves the program what it had.
LEMMA FailureKeeps ==
    ASSUME IInv, NEW r, ~r.granted, Stays(mem, r.m), NEW size, NEW others, NEW kept, NEW byte,
           Returns(r, size, others, kept, byte)
    PROVE  IInv' /\ (Kept => Kept')
  <1>1. mem' = r.m /\ live' = live /\ limit' = limit /\ (~surprised => ~surprised')
    BY DEF Returns
  <1>2. IsMem(r.m) /\ Good(r.m) /\ r.m.brk <= limit
    BY DEF Stays
  <1>3. Held(r.m, live) /\ (Contents(mem, live) => Contents(r.m, live))
    BY StaysHeld DEF IInv
  <1> QED
    BY <1>1, <1>2, <1>3 DEF IInv, Kept

\* A call that is granted gives the program block c, with the contents it
\* should have.
LEMMA GrantKeeps ==
    ASSUME IInv, NEW r, NEW c, r.granted, r.ptr = c + METADATA_SIZE, NEW size \in Sizes, NEW others,
           Takes(mem, r.m, c, size, live, others), r.m.brk <= limit, NEW kept, NEW byte,
           Returns(r, size, others, kept, byte)
    PROVE  /\ IInv'
           /\ Kept /\ (\A x \in Bytes(r.ptr, kept) : x \in DOMAIN r.m.data /\ r.m.data[x] = byte)
                  => Kept'
  <1> DEFINE t == Fill(r.m, r.ptr, size)
             lw == Put(others, {r.ptr}, size)
  <1>1. mem' = t /\ live' = lw /\ limit' = limit
    BY DEF Returns
  <1>2. /\ IsMem(t) /\ Good(t) /\ t.brk = r.m.brk /\ Held(t, lw)
        /\ Contents(mem, live) => Contents(t, lw)
    BY TakesHeld DEF IInv
  <1>3. ~surprised /\ (\A x \in Bytes(r.ptr, kept) : x \in DOMAIN r.m.data /\ r.m.data[x] = byte)
            => ~surprised'
    BY DEF Returns
  <1> HIDE DEF t, lw
  <1> QED
    BY <1>1, <1>2, <1>3 DEF IInv, Kept

\* os_malloc and os_calloc keep the invariants.
LEMMA AllocationKeeps ==
    ASSUME IInv, NEW r, NEW size \in Sizes, Allocates(mem, r, size), NEW kept, NEW byte,
           Returns(r, size, live, kept, byte)
    PROVE  /\ IInv'
           /\ Kept /\ (r.granted => \A x \in Bytes(r.ptr, kept) :
                                        x \in DOMAIN r.m.data /\ r.m.data[x] = byte)
                  => Kept'
  <1>1. CASE ~r.granted
    <2>1. Stays(mem, r.m)
      BY <1>1 DEF Allocates
    <2> QED
      BY <1>1, <2>1, FailureKeeps
  <1>2. CASE r.granted
    <2> DEFINE c == r.ptr - METADATA_SIZE
    <2>1. r.ptr \in Nat \ {0} /\ Gains(mem, r.m, c, size)
      BY <1>2 DEF Allocates
    <2>2. r.ptr = c + METADATA_SIZE
      BY <2>1, Constants
    <2> HIDE DEF c
    <2>3. Takes(mem, r.m, c, size, live, live)
      BY <2>1, GainsTakes DEF IInv
    <2>4. r.m.brk <= limit
      BY <2>1 DEF Gains
    <2> QED
      BY <1>2, <2>2, <2>3, <2>4, GrantKeeps
  <1> QED
    BY <1>1, <1>2

\* One lemma per action.
LEMMA MallocKeeps ==
    ASSUME IInv, NEW size \in Sizes, Malloc(size)
    PROVE  IInv' /\ (Kept => Kept')
  <1> DEFINE r == os_malloc(mem, size)
  <1>1. Allocates(mem, r, size)
    BY MallocAllocates DEF IInv
  <1>2. Returns(r, size, live, 0, 0)
    BY DEF Malloc
  <1> HIDE DEF r
  <1>3. r.granted => Bytes(r.ptr, 0) = {}
    <2>1. SUFFICES ASSUME r.granted PROVE Bytes(r.ptr, 0) = {}
      OBVIOUS
    <2>2. r.ptr \in Nat
      BY <1>1, <2>1 DEF Allocates
    <2> QED
      BY <2>2 DEF Bytes
  <1> QED
    BY <1>1, <1>2, <1>3, AllocationKeeps

LEMMA CallocKeeps ==
    ASSUME IInv, NEW size \in Sizes, Calloc(size)
    PROVE  IInv' /\ (Kept => Kept')
  <1> DEFINE r == os_calloc(mem, size)
  <1>1. /\ Allocates(mem, r, size)
        /\ r.granted => \A x \in Bytes(r.ptr, size) : x \in DOMAIN r.m.data /\ r.m.data[x] = 0
    BY CallocAllocates DEF IInv
  <1>2. Returns(r, size, live, size, 0)
    BY DEF Calloc
  <1> HIDE DEF r
  <1> QED
    BY <1>1, <1>2, AllocationKeeps

LEMMA FreeKeeps ==
    ASSUME IInv, NEW ptr \in DOMAIN live, Free(ptr)
    PROVE  IInv' /\ (Kept => Kept')
  <1>1. PICK a \in Used(mem) : ptr = a + METADATA_SIZE
    BY HeldPointer
  <1> DEFINE u == os_free(mem, a + METADATA_SIZE)
             w == Wipe(u, a + METADATA_SIZE, live[a + METADATA_SIZE])
             lw == Without(live, a)
  <1>2. mem' = w /\ live' = lw /\ limit' = limit /\ surprised' = surprised
    BY <1>1 DEF Free, Others, Without
  <1>3. Frees(mem, u, a)
    BY FreeIs DEF IInv
  <1> HIDE DEF u
  <1>4. /\ IsMem(w) /\ Good(w) /\ w.brk = mem.brk /\ Held(w, lw)
        /\ Contents(mem, live) => Contents(w, lw)
    BY <1>3, FreesHeld DEF IInv
  <1> HIDE DEF w, lw
  <1> QED
    BY <1>2, <1>4 DEF IInv, Kept

\* os_realloc keeps them where it resizes in place.
LEMMA ReuseKeeps ==
    ASSUME IInv, NEW a \in Used(mem), NEW ptr, ptr = a + METADATA_SIZE, NEW size \in Sizes,
           NEW r, r.granted, r.ptr = ptr, NEW recorded, Reuses(mem, r.m, a, size, recorded),
           NEW kept \in Nat, kept <= size, kept <= live[ptr],
           Returns(r, size, Without(live, a), kept, ptr)
    PROVE  IInv' /\ (Kept => Kept')
  <1>1. Takes(mem, r.m, a, size, live, Without(live, a))
    BY ReusesTakes DEF IInv
  <1>2. /\ r.m.brk <= limit /\ DataKept(mem, r.m) /\ Good(r.m) /\ a \in Used(r.m)
        /\ a \in DOMAIN r.m.block /\ size <= Room(r.m, a)
    BY <1>1 DEF Reuses, Takes, Used
  <1>3. ASSUME Kept, NEW x \in Bytes(ptr, kept) PROVE x \in DOMAIN r.m.data /\ r.m.data[x] = ptr
    <2>1. a \in Nat /\ METADATA_SIZE \in Nat /\ live[ptr] \in Nat
      BY HeldBlock, Constants DEF IInv
    <2>2. x \in Bytes(ptr, live[ptr])
      BY <1>3, <2>1 DEF Bytes
    <2>3. x \in DOMAIN mem.data /\ mem.data[x] = ptr
      BY <1>3, <2>2 DEF Kept, Contents
    <2>4. size \in Nat /\ Room(r.m, a) \in Nat
      BY <1>2, WholeApart, OsMemAssumption
    <2>5. kept <= Room(r.m, a)
      BY <1>2, <2>4
    <2>6. x \in Extent(r.m, a)
      BY <1>2, <1>3, <2>5, FirstBytes
    <2> QED
      BY <1>2, <2>3, <2>6 DEF DataKept
  <1> QED
    BY <1>1, <1>2, <1>3, GrantKeeps

\* r is the answer of os_realloc, in which the old bytes are forgotten.
LEMMA MoveKeeps ==
    ASSUME IInv, NEW a \in Used(mem), NEW ptr, ptr = a + METADATA_SIZE, NEW size \in Sizes,
           NEW n \in Nat, NEW s, NEW r, r.granted, r.ptr \in Nat \ {0},
           Moves(mem, s, a, r.ptr - METADATA_SIZE, size, n), r.m = Wipe(s, ptr, live[ptr]),
           NEW kept \in Nat, kept <= size, kept <= live[ptr],
           Returns(r, size, Without(live, a), kept, ptr)
    PROVE  IInv' /\ (Kept /\ kept <= n => Kept')
  <1> DEFINE c == r.ptr - METADATA_SIZE
  <1>1. r.ptr = c + METADATA_SIZE
    BY Constants
  <1>2. Moves(mem, s, a, c, size, n)
    OBVIOUS
  <1> HIDE DEF c
  <1>3. s.brk <= limit /\ Good(s) /\ c \in DOMAIN s.block
    BY <1>2 DEF Moves, Used
  <1>4. c \in Nat
    BY <1>3, WholeApart
  <1>5. Takes(mem, r.m, c, size, live, Without(live, a)) /\ r.m.brk = s.brk
    BY <1>2, MovesTakes DEF IInv
  <1>6. ASSUME Kept, kept <= n, NEW x \in Bytes(r.ptr, kept)
        PROVE  x \in DOMAIN r.m.data /\ r.m.data[x] = ptr
    <2>1. size \in Nat
      BY OsMemAssumption
    <2>2. Good(mem) /\ Held(mem, live) /\ Contents(mem, live)
      BY <1>6 DEF IInv, Kept
    <2> QED
      BY <1>1, <1>2, <1>4, <1>6, <2>1, <2>2, MovesContents
  <1>7. r.m.brk <= limit
    BY <1>3, <1>5
  <1>8. /\ IInv'
        /\ Kept /\ (\A x \in Bytes(r.ptr, kept) : x \in DOMAIN r.m.data /\ r.m.data[x] = ptr)
               => Kept'
    BY <1>1, <1>5, <1>7, GrantKeeps
  <1> QED
    BY <1>6, <1>8

\* What an answer with the old bytes forgotten is.
LEMMA ForgottenIs ==
    ASSUME NEW r, IsAnswer(r), NEW w
    PROVE  LET q == [r EXCEPT !.m = w] IN q.m = w /\ q.ptr = r.ptr /\ q.granted = r.granted
  <1> DEFINE q == [r EXCEPT !.m = w]
  <1>1. r = [m |-> r.m, ptr |-> r.ptr, granted |-> r.granted]
    BY DEF IsAnswer
  <1>2. q = [m |-> w, ptr |-> r.ptr, granted |-> r.granted]
    BY <1>1
  <1> HIDE DEF q
  <1> QED
    BY <1>2 DEF q

\* All of os_realloc.  Only a move that copies the recorded size can lose
\* contents: it copies too little when that size is stale.
LEMMA ReallocKeeps ==
    ASSUME IInv, NEW ptr \in DOMAIN live, NEW size \in Sizes, Realloc(ptr, size)
    PROVE  IInv' /\ (Kept /\ MovesStale = FALSE => Kept')
  <1>1. PICK a \in Used(mem) : a \in Nat /\ ptr = a + METADATA_SIZE /\ ptr - METADATA_SIZE = a
    BY HeldPointer
  <1> DEFINE r == os_realloc(mem, ptr, size)
             moved == r.granted /\ r.ptr # ptr
             kept == IF live[ptr] <= size THEN live[ptr] ELSE size
             w == Wipe(r.m, ptr, live[ptr])
             q == [r EXCEPT !.m = w]
  <1>2. /\ MustMap(size) => SizeIsRecorded(ptr) \/ MovesStale
        /\ Returns(IF moved THEN q ELSE r, size, Without(live, a), kept, ptr)
    BY <1>1 DEF Realloc, Others, Without
  <1>3. Reallocs(mem, r, a, size)
    BY <1>1, ReallocIs DEF IInv
  <1> HIDE DEF r
  <1>4. /\ size \in Nat /\ live[ptr] \in Nat
        /\ mem.block[a].status = "MAPPED" => mem.block[a].size = live[ptr]
    BY <1>1, HeldBlock, OsMemAssumption DEF IInv
  <1>5. kept \in Nat /\ kept <= size /\ kept <= live[ptr]
    BY <1>4
  <1> HIDE DEF w
  <1>6. IsAnswer(r)
    BY <1>3 DEF Reallocs, Moved
  <1>7. q.m = w /\ q.ptr = r.ptr /\ q.granted = r.granted
    BY <1>6, ForgottenIs
  <1> HIDE DEF q
  <1>8. CASE ~r.granted
    <2>1. Stays(mem, r.m)
      BY <1>3, <1>8 DEF Reallocs, Moved
    <2>2. Returns(r, size, Without(live, a), kept, ptr)
      BY <1>2, <1>8
    <2> HIDE DEF kept
    <2> QED
      BY <1>8, <2>1, <2>2, FailureKeeps
  <1>9. ASSUME r.granted, NEW n \in Nat, Moved(mem, r, a, size, n),
               n = size \/ (n = Smaller(mem, a, size)
                               /\ (mem.block[a].status = "MAPPED" \/ MustMap(size)))
        PROVE  IInv' /\ (Kept /\ MovesStale = FALSE => Kept')
    <2>1. r.ptr \in Nat \ {0} /\ r.ptr # ptr /\ Moves(mem, r.m, a, r.ptr - METADATA_SIZE, size, n)
      BY <1>1, <1>9 DEF Moved
    <2>2. Returns(q, size, Without(live, a), kept, ptr)
      BY <1>2, <1>9, <2>1
    <2>3. MovesStale = FALSE => kept <= n
      <3>1. SUFFICES ASSUME MovesStale = FALSE PROVE kept <= n
        OBVIOUS
      <3>2. CASE n = size
        BY <1>5, <3>2
      <3>3. CASE n = Smaller(mem, a, size) /\ (mem.block[a].status = "MAPPED" \/ MustMap(size))
        <4>1. mem.block[a].size = live[ptr]
          BY <1>1, <1>2, <1>4, <3>1, <3>3 DEF SizeIsRecorded, Start
        <4>2. n = IF mem.block[a].size <= size THEN mem.block[a].size ELSE size
          BY <1>4, <3>3, SmallerIs DEF IInv
        <4> QED
          BY <1>4, <4>1, <4>2
      <3> QED
        BY <1>9, <3>2, <3>3
    <2> HIDE DEF kept
    <2>4. IInv' /\ (Kept /\ kept <= n => Kept')
      BY <1>1, <1>5, <1>7, <1>9, <2>1, <2>2, MoveKeeps DEF w
    <2> QED
      BY <2>3, <2>4
  <1>10. ASSUME r.granted, r.ptr = ptr, NEW recorded, Reuses(mem, r.m, a, size, recorded)
         PROVE  IInv' /\ (Kept /\ MovesStale = FALSE => Kept')
    <2>1. Returns(r, size, Without(live, a), kept, ptr)
      BY <1>2, <1>10
    <2> HIDE DEF kept
    <2> QED
      BY <1>1, <1>5, <1>10, <2>1, ReuseKeeps
  <1>11. CASE r.granted
    <2>1. CASE \E n \in Nat : /\ Moved(mem, r, a, size, n)
                              /\ n = size \/ (n = Smaller(mem, a, size)
                                     /\ (mem.block[a].status = "MAPPED" \/ MustMap(size)))
      BY <1>9, <1>11, <2>1
    <2>2. CASE r.ptr = a + METADATA_SIZE /\ \E recorded : Reuses(mem, r.m, a, size, recorded)
      BY <1>1, <1>10, <1>11, <2>2
    <2> QED
      BY <1>3, <1>11, <2>1, <2>2 DEF Reallocs
  <1> QED
    BY <1>8, <1>11

-----------------------------------------------------------------------------
(* The theorems                                                              *)

\* At the beginning there are no blocks.
LEMMA InitKeeps == Init => IInv /\ Kept
  <1> SUFFICES ASSUME Init PROVE IInv /\ Kept
    OBVIOUS
  <1> DEFINE empty == [start |-> NULL, brk |-> HeapBase, block |-> <<>>, data |-> <<>>]
  <1>1. mem = empty /\ limit \in HeapLimits /\ live = <<>> /\ surprised = FALSE
    BY DEF Init
  <1>2. /\ empty.start = NULL /\ empty.brk = HeapBase
        /\ DOMAIN empty.block = {} /\ DOMAIN empty.data = {} /\ DOMAIN <<>> = {}
    OBVIOUS
  <1>3. IsMem(empty)
    BY DEF IsMem
  <1> HIDE DEF empty
  <1>4. HeapBlocks(empty) = {} /\ Used(empty) = {}
    BY <1>2 DEF HeapBlocks, Used
  <1>5. Good(empty)
    <2>1. Linked(empty) /\ Sized(empty) /\ Mapped(empty) /\ Started(empty)
      BY <1>2, <1>4 DEF Linked, Sized, Mapped, Started
    <2>2. \A a \in MapAddresses : HeapBase < a
      <3>1. HeapBase \in Int /\ limit \in Int /\ MapAddresses \subseteq Int
        BY <1>1, OsMemAssumption
      <3> QED
        BY <1>1, <3>1, OsMemAssumption
    <2>3. Placed(empty)
      BY <1>2, <1>4, <2>2, Constants DEF Placed
    <2> QED
      BY <2>1, <2>3 DEF Good
  <1>6. empty.brk <= limit
    BY <1>1, <1>2, OsMemAssumption
  <1>7. Held(empty, <<>>) /\ Contents(empty, <<>>)
    BY <1>2, <1>4 DEF Held, Contents
  <1> QED
    BY <1>1, <1>3, <1>5, <1>6, <1>7 DEF IInv, Kept

\* Every call keeps the invariants.
LEMMA NextKeeps ==
    ASSUME IInv, [Next]_vars
    PROVE  IInv' /\ (Kept /\ MovesStale = FALSE => Kept')
  <1>1. ASSUME NEW size \in Sizes, Malloc(size) PROVE IInv' /\ (Kept => Kept')
    BY <1>1, MallocKeeps
  <1>2. ASSUME NEW size \in Sizes, Calloc(size) PROVE IInv' /\ (Kept => Kept')
    BY <1>2, CallocKeeps
  <1>3. ASSUME NEW ptr \in DOMAIN live, NEW size \in Sizes, Realloc(ptr, size)
        PROVE  IInv' /\ (Kept /\ MovesStale = FALSE => Kept')
    BY <1>3, ReallocKeeps
  <1>4. ASSUME NEW ptr \in DOMAIN live, Free(ptr) PROVE IInv' /\ (Kept => Kept')
    BY <1>4, FreeKeeps
  <1>5. CASE UNCHANGED vars
    BY <1>5 DEF vars, IInv, Kept
  <1> QED
    BY <1>1, <1>2, <1>3, <1>4, <1>5 DEF Next

\* The first one needs nothing else.
LEMMA IInvHolds == Spec => []IInv
  <1>1. Init => IInv
    BY InitKeeps
  <1>2. IInv /\ [Next]_vars => IInv'
    BY NextKeeps
  <1> QED
    BY <1>1, <1>2, PTL DEF Spec

\* The block without a previous one is the first of the list.
LEMMA BeforeLeast ==
    ASSUME NEW H, \A c \in H : c \in Nat, NEW a \in H, NEW b, Before(H, a, b)
    PROVE  b = NULL <=> \A c \in H : a <= c
  <1>1. CASE b = NULL
    BY <1>1 DEF Before
  <1>2. CASE b # NULL
    <2>1. b \in H /\ b < a /\ a \in Nat /\ b \in Nat
      BY <1>2 DEF Before
    <2>2. ~(a <= b)
      BY <2>1
    <2> QED
      BY <1>2, <2>1, <2>2
  <1> QED
    BY <1>1, <1>2

\* The block without a next one is the last; the next one is the next address.
LEMMA AfterIs ==
    ASSUME NEW H, \A c \in H : c \in Nat, NEW a \in H, NEW b, After(H, a, b)
    PROVE  /\ b = NULL => a = Max(H)
           /\ b # NULL => b \in H /\ b > a /\ ~\E c \in H : a < c /\ c < b
  <1>1. ASSUME b = NULL PROVE a = Max(H)
    <2> DEFINE max == CHOOSE x \in H : \A y \in H : x >= y
    <2>1. \A c \in H : a >= c
      BY <1>1 DEF After
    <2>2. max \in H /\ \A c \in H : max >= c
      BY <2>1
    <2>3. Max(H) = max
      BY DEF Max
    <2> HIDE DEF max
    <2>4. a >= max /\ max >= a /\ a \in Nat /\ max \in Nat
      BY <2>1, <2>2
    <2> QED
      BY <2>3, <2>4
  <1>2. ASSUME b # NULL PROVE b \in H /\ b > a /\ ~\E c \in H : a < c /\ c < b
    <2>1. b \in H /\ a < b /\ (\A c \in H : c <= a \/ b <= c) /\ a \in Nat /\ b \in Nat
      BY <1>2 DEF After
    <2>2. ASSUME NEW c \in H PROVE ~(a < c /\ c < b)
      <3>1. c \in Nat /\ (c <= a \/ b <= c)
        BY <2>1
      <3> QED
        BY <2>1, <3>1
    <2> QED
      BY <2>1, <2>2
  <1> QED
    BY <1>1, <1>2

\* A good heap is what BlocksPartitionHeap says.
LEMMA GoodIsPartition == IInv => BlocksPartitionHeap
  <1> DEFINE heap == HeapBlocks(mem)
             Follows(a, b) == b > a /\ ~\E c \in heap : a < c /\ c < b
  <1> SUFFICES ASSUME IInv, heap # {}
               PROVE  /\ mem.start \in heap /\ mem.block[mem.start].prev = NULL
                      /\ \A a \in heap :
                            LET b == mem.block[a].next IN
                            /\ IF b = NULL THEN a = Max(heap)
                               ELSE b \in heap /\ Follows(a, b) /\ mem.block[b].prev = a
                            /\ a # mem.start => mem.block[a].prev # NULL
                            /\ IF mem.block[a].status = "FREE"
                               THEN /\ mem.block[a].size = get_block_size(mem, a)
                                    /\ b # NULL => mem.block[b].status # "FREE"
                               ELSE mem.block[a].size <= get_block_size(mem, a)
    BY DEF BlocksPartitionHeap
  <1>1. Linked(mem) /\ Placed(mem) /\ Started(mem) /\ Sized(mem)
    BY DEF IInv, Good
  <1>2. /\ \A a \in heap : After(heap, a, mem.block[a].next) /\ Before(heap, a, mem.block[a].prev)
        /\ \A a \in heap : a \in Nat /\ HeapBase <= a
        /\ mem.start = HeapBase /\ HeapBase \in heap /\ HeapBase \in Nat
    BY <1>1, Constants DEF Linked, Placed, Started
  <1>3. \A a \in heap : mem.block[a].next # NULL => mem.block[mem.block[a].next].prev = a
    BY <1>1, PrevAndNext
  <1>4. \A a \in heap : SizedAt(mem, a)
    BY <1>1 DEF Sized
  <1> HIDE DEF heap
  <1>5. \A a \in heap : mem.block[a].prev = NULL <=> \A c \in heap : a <= c
    BY <1>2, BeforeLeast
  <1>6. \A a \in heap : mem.block[a].prev = NULL <=> a = mem.start
    <2>1. \A a \in heap : (\A c \in heap : a <= c) <=> a = HeapBase
      BY <1>2
    <2> QED
      BY <1>2, <1>5, <2>1
  <1>7. \A a \in heap : LET b == mem.block[a].next IN
            /\ b = NULL => a = Max(heap)
            /\ b # NULL => b \in heap /\ Follows(a, b)
    <2>1. ASSUME NEW a \in heap, NEW b, b = mem.block[a].next
          PROVE  /\ b = NULL => a = Max(heap)
                 /\ b # NULL => b \in heap /\ Follows(a, b)
      <3>1. After(heap, a, b) /\ \A c \in heap : c \in Nat
        BY <1>2, <2>1
      <3> QED
        BY <3>1, AfterIs
    <2> HIDE DEF Follows
    <2> QED
      BY <2>1
  <1>8. ASSUME NEW a \in heap
        PROVE  IF mem.block[a].status = "FREE"
               THEN /\ mem.block[a].size = get_block_size(mem, a)
                    /\ mem.block[a].next # NULL => mem.block[mem.block[a].next].status # "FREE"
               ELSE mem.block[a].size <= get_block_size(mem, a)
    BY <1>4, <1>8 DEF SizedAt, IsFree
  <1> HIDE DEF Follows
  <1> QED
    BY <1>2, <1>3, <1>6, <1>7, <1>8

\* What the program holds is what BlocksInUseAreHeld says.
LEMMA HeldIsHeld == IInv => BlocksInUseAreHeld
  <1> SUFFICES ASSUME IInv PROVE BlocksInUseAreHeld
    OBVIOUS
  <1>1. Held(mem, live) /\ Good(mem)
    BY DEF IInv
  <1>2. {a + METADATA_SIZE : a \in Used(mem)} = DOMAIN live
    BY <1>1 DEF Held
  <1>3. ASSUME NEW p \in DOMAIN live, mem.block[Start(p)].status = "ALLOC"
        PROVE  get_block_size(mem, Start(p)) >= live[p]
    <2>1. PICK a \in Used(mem) : p = a + METADATA_SIZE /\ p - METADATA_SIZE = a
      BY HeldPointer
    <2>2. Start(p) = a
      BY <2>1 DEF Start
    <2>3. live[p] <= Room(mem, a) /\ live[p] \in Nat
      BY <1>1, <2>1, HeldBlock
    <2>4. Room(mem, a) = get_block_size(mem, a) /\ Room(mem, a) \in Nat
      <3>1. a \in DOMAIN mem.block
        BY DEF Used
      <3>2. Room(mem, a) \in Nat
        BY <1>1, <3>1, WholeApart
      <3> QED
        BY <1>3, <2>2, <3>2 DEF Room
    <2> QED
      BY <2>2, <2>3, <2>4
  <1> QED
    BY <1>2, <1>3 DEF BlocksInUseAreHeld, Used

\* What the program finds is what ContentsKept says.
LEMMA KeptIsKept == IInv /\ Kept => ContentsKept
  <1> SUFFICES ASSUME IInv, Kept PROVE ContentsKept
    OBVIOUS
  <1>1. ASSUME NEW p \in DOMAIN live, NEW x \in Bytes(p, live[p])
        PROVE  x \in DOMAIN mem.data /\ mem.data[x] = p
    <2>1. PICK a \in Used(mem) : p = a + METADATA_SIZE
      BY HeldPointer
    <2> QED
      BY <1>1, <2>1 DEF Kept, Contents
  <1> QED
    BY <1>1 DEF ContentsKept, Kept

\* For any sizes, limits of sbrk and mappings, and after any sequence of calls of
\* os_malloc, os_calloc, os_realloc and os_free (osmem.c): the list of blocks runs
\* through the heap from heap_start to the break in the order of addresses, both
\* ways, its recorded sizes fit, and two free blocks are never neighbours.
THEOREM HeapStaysPartitioned == Spec => []BlocksPartitionHeap
  BY IInvHolds, GoodIsPartition, PTL

\* The blocks in use are those the program holds, and none is smaller than what the
\* program asked for: no call leaks a block, gives one away twice or shrinks one,
\* whichever way os_realloc takes (osmem.c:305-408).
THEOREM InUseIsHeld == Spec => []BlocksInUseAreHeld
  BY IInvHolds, HeldIsHeld, PTL

\* No call changes a byte of what the program holds: no split, merge or block_meta
\* lands in a block in use, os_realloc takes the contents along and os_calloc's
\* bytes are zero.  The program must not let os_realloc move a block to a mapping
\* while the recorded size of that block is stale; then os_realloc copies too few
\* bytes (osmem.c:352-355).
THEOREM ContentsAreKept ==
    ASSUME MovesStale = FALSE
    PROVE  Spec => []ContentsKept
  <1>1. Init => IInv /\ Kept
    BY InitKeeps
  <1>2. IInv /\ Kept /\ [Next]_vars => (IInv /\ Kept)'
    BY NextKeeps
  <1>3. Spec => [](IInv /\ Kept)
    BY <1>1, <1>2, PTL DEF Spec
  <1> QED
    BY <1>3, KeptIsKept, PTL
=============================================================================
