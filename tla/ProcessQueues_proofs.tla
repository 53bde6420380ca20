------------------------ MODULE ProcessQueues_proofs -------------------------
(***************************************************************************)
(* Lemmas about the queues of processes, for every number of processes,    *)
(* every slice, every set of priorities, sleeps and events, and for any    *)
(* policy that charges the running process for its time, runs the first of *)
(* the ready processes, in an order of its own, and chooses the slice.     *)
(*                                                                         *)
(* The sections: sums over sets of processes; lists without repeated pids, *)
(* and what filtering, sorting and appending make of them; the queues, and *)
(* what time, signals and preemption make of them; the invariant (Inv),    *)
(* and why stop() and next() keep it.  Then the refinement, on the same    *)
(* general forms of stop() and next(): what the others see of the queues,  *)
(* what each helper does to it, what the last decision says of the queues, *)
(* and each step as a step of Scheduling or one that is not seen.  Then    *)
(* the waiting (Patience): each ready process moves up the line by a place *)
(* a slice, and whoever runs ahead of one it should not precede has done   *)
(* so for less than a slice.                                               *)
(***************************************************************************)
EXTENDS Policy, FiniteSetTheorems, SequenceTheorems, WellFoundedInduction, TLAPS

Pcbs == [pid : Nat, priority : Int, actual_priority : Int, total : Nat, syscall : Nat, execute : Nat,
         sleep : Nat, state : {"Ready", "Running", "Waiting"}, event : Events \cup {NoEvent}, extra : Nat]

-----------------------------------------------------------------------------
\* A set of numbers has a least one.
LEMMA LeastNumber == ASSUME NEW I \in SUBSET Nat, I # {} PROVE \E x \in I : \A y \in I : x <= y
  <1> DEFINE Below == {p \in Nat \X Nat : p[1] < p[2]}
  <1>1. OpToRel(<, Nat) = Below
    BY DEF OpToRel
  <1>2. IsWellFoundedOn(Below, Nat)
    BY <1>1, NatLessThanWellFounded
  <1>3. \E x \in I : \A y \in I : <<y, x>> \notin Below
    <2> HIDE DEF Below
    <2> QED
      BY <1>2, WFMin
  <1>4. \A x, y \in I : <<y, x>> \notin Below => x <= y
    OBVIOUS
  <1> HIDE DEF Below
  <1> QED
    BY <1>3, <1>4

\* Induction, over a set of numbers.
LEMMA AllNumbers == ASSUME NEW I \in SUBSET Nat, 0 \in I, \A n \in I : n + 1 \in I PROVE I = Nat
  <1>1. SUFFICES ASSUME Nat \ I # {} PROVE FALSE
    OBVIOUS
  <1>2. PICK x \in Nat \ I : \A y \in Nat \ I : x <= y
    BY <1>1, LeastNumber
  <1>3. x # 0 /\ x - 1 \in Nat
    BY <1>2
  <1>4. x - 1 \in I
    BY <1>2, <1>3
  <1> QED
    BY <1>2, <1>4

-----------------------------------------------------------------------------
(* Sums over sets of processes *)

Cost(p) == p.execute + p.syscall

\* The sum over s, by one that is taken out, given the sums over smaller sets.
Folded(f, s) == IF s = {} THEN 0 ELSE LET x == CHOOSE p \in s : TRUE IN Cost(x) + f[s \ {x}]

IsSum(S, f) == f = [s \in SUBSET S |-> Folded(f, s)]

\* f is a sum over the subsets of S that have at most n elements.
SumsUpTo(S, f, n) == \A s \in SUBSET S : Cardinality(s) <= n => f[s] = Folded(f, s)

Smaller(s) == s \ {CHOOSE p \in s : TRUE}

LEMMA OneLess ==
    ASSUME NEW s, IsFiniteSet(s), s # {}
    PROVE  /\ IsFiniteSet(Smaller(s)) /\ Smaller(s) \subseteq s
           /\ Cardinality(s) \in Nat /\ Cardinality(Smaller(s)) = Cardinality(s) - 1
  <1> DEFINE x == CHOOSE p \in s : TRUE
  <1>1. x \in s
    OBVIOUS
  <1> HIDE DEF x
  <1>2. IsFiniteSet(s \ {x}) /\ Cardinality(s \ {x}) = Cardinality(s) - 1
    BY <1>1, FS_RemoveElement
  <1>3. Cardinality(s) \in Nat
    BY FS_CardinalityType
  <1> QED
    BY <1>2, <1>3 DEF Smaller, x

LEMMA FoldedIs ==
    ASSUME NEW f, NEW s
    PROVE  /\ s = {} => Folded(f, s) = 0
           /\ s # {} => Folded(f, s) = Cost(CHOOSE p \in s : TRUE) + f[Smaller(s)]
  BY DEF Folded, Smaller

LEMMA SumExists == ASSUME NEW S, IsFiniteSet(S) PROVE \E f : IsSum(S, f)
  <1> DEFINE I == {n \in Nat : \E f : f = [s \in SUBSET S |-> f[s]] /\ SumsUpTo(S, f, n)}
  <1>1. 0 \in I
    <2> DEFINE f == [s \in SUBSET S |-> 0]
    <2>1. \A s \in SUBSET S : Cardinality(s) <= 0 => f[s] = Folded(f, s)
      <3> SUFFICES ASSUME NEW s \in SUBSET S, Cardinality(s) <= 0 PROVE f[s] = Folded(f, s)
        OBVIOUS
      <3>1. IsFiniteSet(s)
        BY FS_Subset
      <3>2. s = {}
        BY <3>1, FS_CardinalityType, FS_EmptySet
      <3> QED
        BY <3>2, FoldedIs
    <2> QED
      BY <2>1 DEF SumsUpTo
  <1>2. ASSUME NEW n \in I PROVE n + 1 \in I
    <2>1. PICK f : f = [s \in SUBSET S |-> f[s]] /\ SumsUpTo(S, f, n)
      OBVIOUS
    <2> DEFINE g == [s \in SUBSET S |-> Folded(f, s)]
    <2>2. \A s \in SUBSET S : Cardinality(s) <= n => g[s] = f[s]
      BY <2>1 DEF SumsUpTo
    <2>3. ASSUME NEW s \in SUBSET S, Cardinality(s) <= n + 1 PROVE g[s] = Folded(g, s)
      <3>1. CASE s = {}
        BY <3>1, FoldedIs
      <3>2. CASE s # {}
        <4>1. IsFiniteSet(s)
          BY FS_Subset
        <4>2. Smaller(s) \in SUBSET S /\ Cardinality(Smaller(s)) <= n
          <5>1. Smaller(s) \subseteq s /\ Cardinality(s) \in Nat
                /\ Cardinality(Smaller(s)) = Cardinality(s) - 1
            BY <3>2, <4>1, OneLess
          <5> QED
            BY <2>3, <5>1
        <4>3. g[Smaller(s)] = f[Smaller(s)]
          BY <2>2, <4>2
        <4>4. g[s] = Folded(f, s)
          OBVIOUS
        <4> HIDE DEF g
        <4>5. Folded(f, s) = Cost(CHOOSE p \in s : TRUE) + f[Smaller(s)]
          BY <3>2, FoldedIs
        <4>6. Folded(g, s) = Cost(CHOOSE p \in s : TRUE) + g[Smaller(s)]
          BY <3>2, FoldedIs
        <4> QED
          BY <4>3, <4>4, <4>5, <4>6
      <3> QED
        BY <3>1, <3>2
    <2>4. g = [s \in SUBSET S |-> g[s]]
      OBVIOUS
    <2> HIDE DEF g
    <2>5. SumsUpTo(S, g, n + 1)
      BY <2>3 DEF SumsUpTo
    <2> QED
      BY <2>4, <2>5
  <1>3. I = Nat
    <2> HIDE DEF I
    <2>1. I \in SUBSET Nat
      BY DEF I
    <2> QED
      BY <1>1, <1>2, <2>1, AllNumbers
  <1>4. Cardinality(S) \in I
    BY <1>3, FS_CardinalityType
  <1>5. PICK f : f = [s \in SUBSET S |-> f[s]] /\ SumsUpTo(S, f, Cardinality(S))
    BY <1>4
  <1>6. \A s \in SUBSET S : Cardinality(s) <= Cardinality(S)
    BY FS_Subset
  <1>7. \A s \in SUBSET S : f[s] = Folded(f, s)
    BY <1>5, <1>6 DEF SumsUpTo
  <1>8. f = [s \in SUBSET S |-> Folded(f, s)]
    BY <1>5, <1>7
  <1> QED
    BY <1>8 DEF IsSum

\* Sums over the subsets of two sets agree.
LEMMA SumsAgree ==
    ASSUME NEW S, NEW f, IsSum(S, f), NEW T, NEW g, IsSum(T, g), IsFiniteSet(S), S \subseteq T
    PROVE  f[S] = g[S]
  <1> DEFINE I == {n \in Nat : \A s \in SUBSET S : Cardinality(s) = n => f[s] = g[s]}
  <1>0. \A s \in SUBSET S : f[s] = Folded(f, s) /\ g[s] = Folded(g, s)
    BY DEF IsSum
  <1>1. 0 \in I
    <2> SUFFICES ASSUME NEW s \in SUBSET S, Cardinality(s) = 0 PROVE f[s] = g[s]
      OBVIOUS
    <2>1. s = {}
      BY FS_Subset, FS_EmptySet
    <2>2. Folded(f, s) = 0 /\ Folded(g, s) = 0
      BY <2>1, FoldedIs
    <2> QED
      BY <1>0, <2>2
  <1>2. ASSUME NEW n \in I PROVE n + 1 \in I
    <2> SUFFICES ASSUME NEW s \in SUBSET S, Cardinality(s) = n + 1 PROVE f[s] = g[s]
      OBVIOUS
    <2>1. IsFiniteSet(s) /\ s # {}
      BY FS_Subset, FS_EmptySet
    <2>2. Smaller(s) \in SUBSET S /\ Cardinality(Smaller(s)) = n
      BY <2>1, OneLess
    <2>3. f[Smaller(s)] = g[Smaller(s)]
      BY <2>2
    <2>4. f[s] = Cost(CHOOSE p \in s : TRUE) + f[Smaller(s)]
      BY <1>0, <2>1, FoldedIs
    <2>5. g[s] = Cost(CHOOSE p \in s : TRUE) + g[Smaller(s)]
      BY <1>0, <2>1, FoldedIs
    <2> QED
      BY <2>3, <2>4, <2>5
  <1>3. I = Nat
    <2> HIDE DEF I
    <2>1. I \in SUBSET Nat
      BY DEF I
    <2> QED
      BY <1>1, <1>2, <2>1, AllNumbers
  <1>4. Cardinality(S) \in I
    BY <1>3, FS_CardinalityType
  <1> QED
    BY <1>4

LEMMA TimeUsedIs == ASSUME NEW S PROVE TimeUsed(S) = (CHOOSE f : IsSum(S, f))[S]
  BY DEF TimeUsed, MapThenFoldSet, IsSum, Folded, Cost

LEMMA TimeUsedSums ==
    ASSUME NEW T, NEW g, IsSum(T, g), NEW S, S \subseteq T, IsFiniteSet(S)
    PROVE  TimeUsed(S) = g[S]
  <1> DEFINE f == CHOOSE f : IsSum(S, f)
  <1>1. IsSum(S, f)
    BY SumExists
  <1>2. TimeUsed(S) = f[S]
    BY TimeUsedIs
  <1> HIDE DEF f
  <1> QED
    BY <1>1, <1>2, SumsAgree

LEMMA NoTimeUsed == TimeUsed({}) = 0
  <1>1. PICK f : IsSum({}, f)
    BY SumExists, FS_EmptySet
  <1>2. TimeUsed({}) = f[{}]
    BY <1>1, TimeUsedSums, FS_EmptySet
  <1>3. f[{}] = Folded(f, {})
    BY <1>1 DEF IsSum
  <1> QED
    BY <1>2, <1>3, FoldedIs

LEMMA SomeTimeUsed ==
    ASSUME NEW S, IsFiniteSet(S), S # {}
    PROVE  TimeUsed(S) = Cost(CHOOSE p \in S : TRUE) + TimeUsed(Smaller(S))
  <1>1. PICK f : IsSum(S, f)
    BY SumExists
  <1>2. TimeUsed(S) = f[S]
    BY <1>1, TimeUsedSums
  <1>3. TimeUsed(Smaller(S)) = f[Smaller(S)]
    BY <1>1, TimeUsedSums, OneLess
  <1>4. f[S] = Folded(f, S)
    BY <1>1 DEF IsSum
  <1> QED
    BY <1>2, <1>3, <1>4, FoldedIs

\* Sets of processes, of which some facts are shown by induction on their number.
Flocks(n) == {s \in SUBSET Pcbs : IsFiniteSet(s) /\ Cardinality(s) = n}

LEMMA FlockIs ==
    ASSUME NEW s \in SUBSET Pcbs, IsFiniteSet(s)
    PROVE  Cardinality(s) \in Nat /\ s \in Flocks(Cardinality(s))
  BY FS_CardinalityType DEF Flocks

LEMMA CostIsInt == ASSUME NEW p \in Pcbs PROVE Cost(p) \in Int
  BY DEF Cost, Pcbs

LEMMA TimeUsedIsInt == ASSUME NEW S \in SUBSET Pcbs, IsFiniteSet(S) PROVE TimeUsed(S) \in Int
  <1> DEFINE I == {n \in Nat : \A s \in Flocks(n) : TimeUsed(s) \in Int}
  <1>1. 0 \in I
    <2> SUFFICES ASSUME NEW s \in Flocks(0) PROVE TimeUsed(s) \in Int
      OBVIOUS
    <2>1. s = {}
      BY FS_EmptySet DEF Flocks
    <2> QED
      BY <2>1, NoTimeUsed
  <1>2. ASSUME NEW n \in I PROVE n + 1 \in I
    <2> SUFFICES ASSUME NEW s \in Flocks(n + 1) PROVE TimeUsed(s) \in Int
      OBVIOUS
    <2>1. IsFiniteSet(s) /\ s # {} /\ s \subseteq Pcbs /\ Cardinality(s) = n + 1
      BY FS_EmptySet DEF Flocks
    <2>2. Smaller(s) \in Flocks(n)
      BY <2>1, OneLess DEF Flocks
    <2>3. TimeUsed(s) = Cost(CHOOSE p \in s : TRUE) + TimeUsed(Smaller(s))
      BY <2>1, SomeTimeUsed
    <2>4. (CHOOSE p \in s : TRUE) \in Pcbs
      BY <2>1
    <2>5. TimeUsed(Smaller(s)) \in Int
      BY <2>2
    <2>6. Cost(CHOOSE p \in s : TRUE) \in Int
      BY <2>4, CostIsInt
    <2> QED
      BY <2>3, <2>5, <2>6
  <1>3. I = Nat
    <2> HIDE DEF I
    <2>1. I \in SUBSET Nat
      BY DEF I
    <2> QED
      BY <1>1, <1>2, <2>1, AllNumbers
  <1> QED
    BY <1>3, FlockIs

\* It does not matter who is taken out first.
Exchange(s) == \A x \in s : TimeUsed(s) = Cost(x) + TimeUsed(s \ {x})

LEMMA Exchanges == ASSUME NEW S \in SUBSET Pcbs, IsFiniteSet(S) PROVE Exchange(S)
  <1> DEFINE I == {n \in Nat : \A s \in Flocks(n) : Exchange(s)}
  <1>1. 0 \in I
    <2> SUFFICES ASSUME NEW s \in Flocks(0) PROVE Exchange(s)
      OBVIOUS
    <2>1. s = {}
      BY FS_EmptySet DEF Flocks
    <2> QED
      BY <2>1 DEF Exchange
  <1>2. ASSUME NEW n \in I PROVE n + 1 \in I
    <2> SUFFICES ASSUME NEW s \in Flocks(n + 1), NEW x \in s PROVE TimeUsed(s) = Cost(x) + TimeUsed(s \ {x})
      BY DEF Exchange
    <2> DEFINE c == CHOOSE p \in s : TRUE
    <2>1. IsFiniteSet(s) /\ s # {} /\ s \subseteq Pcbs /\ Cardinality(s) = n + 1
      BY FS_EmptySet DEF Flocks
    <2>2. c \in s /\ Smaller(s) = s \ {c} /\ TimeUsed(s) = Cost(c) + TimeUsed(s \ {c})
      BY <2>1, SomeTimeUsed DEF Smaller
    <2> HIDE DEF c
    <2>3. \A y \in s : s \ {y} \in Flocks(n)
      <3> SUFFICES ASSUME NEW y \in s PROVE s \ {y} \in Flocks(n)
        OBVIOUS
      <3>1. IsFiniteSet(s \ {y}) /\ Cardinality(s \ {y}) = Cardinality(s) - 1
        BY <2>1, FS_RemoveElement
      <3> QED
        BY <2>1, <3>1 DEF Flocks
    <2>4. Exchange(s \ {c}) /\ Exchange(s \ {x})
      BY <2>2, <2>3
    <2>5. CASE x = c
      BY <2>2, <2>5
    <2>6. CASE x # c
      <3> DEFINE both == s \ {c, x}
      <3>1. (s \ {c}) \ {x} = both /\ (s \ {x}) \ {c} = both
        OBVIOUS
      <3>2. TimeUsed(s \ {c}) = Cost(x) + TimeUsed(both)
        BY <2>4, <2>6, <3>1 DEF Exchange
      <3>3. TimeUsed(s \ {x}) = Cost(c) + TimeUsed(both)
        BY <2>2, <2>4, <2>6, <3>1 DEF Exchange
      <3>4. Cost(x) \in Int /\ Cost(c) \in Int
        BY <2>1, <2>2, CostIsInt
      <3>5. TimeUsed(both) \in Int
        <4>1. both \in SUBSET Pcbs /\ IsFiniteSet(both)
          BY <2>1, FS_Subset
        <4> HIDE DEF both
        <4> QED
          BY <4>1, TimeUsedIsInt
      <3> HIDE DEF both
      <3> QED
        BY <2>2, <3>2, <3>3, <3>4, <3>5
    <2> QED
      BY <2>5, <2>6
  <1>3. I = Nat
    <2> HIDE DEF I
    <2>1. I \in SUBSET Nat
      BY DEF I
    <2> QED
      BY <1>1, <1>2, <2>1, AllNumbers
  <1> QED
    BY <1>3, FlockIs

\* One process more.
LEMMA OneMoreUsed ==
    ASSUME NEW S \in SUBSET Pcbs, IsFiniteSet(S), NEW x \in Pcbs, x \notin S
    PROVE  TimeUsed(S \cup {x}) = TimeUsed(S) + Cost(x) /\ IsFiniteSet(S \cup {x})
  <1>1. S \cup {x} \in SUBSET Pcbs /\ IsFiniteSet(S \cup {x}) /\ (S \cup {x}) \ {x} = S
    BY FS_AddElement
  <1>2. TimeUsed(S \cup {x}) = Cost(x) + TimeUsed((S \cup {x}) \ {x})
    BY <1>1, Exchanges DEF Exchange
  <1>3. TimeUsed(S) \in Int /\ Cost(x) \in Int
    BY TimeUsedIsInt, CostIsInt
  <1>4. TimeUsed(S \cup {x}) = Cost(x) + TimeUsed(S)
    BY <1>1, <1>2
  <1> QED
    BY <1>1, <1>3, <1>4

Image(h, S) == {h[x] : x \in S}

\* h changes processes, but not what each has used.
KeepsUse(h, S) ==
    /\ h \in [S -> Pcbs]
    /\ \A x \in S : Cost(h[x]) = Cost(x)
    /\ \A x, y \in S : h[x] = h[y] => x = y

LEMMA SameUsed ==
    ASSUME NEW S \in SUBSET Pcbs, IsFiniteSet(S), NEW h, KeepsUse(h, S)
    PROVE  TimeUsed(Image(h, S)) = TimeUsed(S) /\ IsFiniteSet(Image(h, S))
  <1> DEFINE P(s) == TimeUsed(Image(h, s)) = TimeUsed(s) /\ IsFiniteSet(Image(h, s))
             I == {n \in Nat : \A s \in Flocks(n) : s \subseteq S => P(s)}
  <1>1. 0 \in I
    <2> SUFFICES ASSUME NEW s \in Flocks(0) PROVE P(s)
      OBVIOUS
    <2>1. s = {}
      BY FS_EmptySet DEF Flocks
    <2>2. Image(h, s) = {}
      BY <2>1 DEF Image
    <2> QED
      BY <2>1, <2>2, FS_EmptySet
  <1>2. ASSUME NEW n \in I PROVE n + 1 \in I
    <2> SUFFICES ASSUME NEW s \in Flocks(n + 1), s \subseteq S PROVE P(s)
      OBVIOUS
    <2> DEFINE c == CHOOSE p \in s : TRUE
               r == Smaller(s)
    <2>1. IsFiniteSet(s) /\ s # {} /\ s \subseteq Pcbs /\ Cardinality(s) = n + 1
      BY FS_EmptySet DEF Flocks
    <2>2. c \in s /\ r = s \ {c}
      BY <2>1 DEF Smaller
    <2>3. r \in Flocks(n) /\ IsFiniteSet(r)
      BY <2>1, OneLess DEF Flocks
    <2> HIDE DEF c, r
    <2>4. P(r)
      BY <2>2, <2>3
    <2>5. Image(h, s) = Image(h, r) \cup {h[c]}
      BY <2>2 DEF Image
    <2>6. h[c] \notin Image(h, r) /\ Image(h, r) \in SUBSET Pcbs /\ h[c] \in Pcbs /\ Cost(h[c]) = Cost(c)
      BY <2>1, <2>2 DEF Image, KeepsUse
    <2>7. TimeUsed(Image(h, s)) = TimeUsed(Image(h, r)) + Cost(h[c]) /\ IsFiniteSet(Image(h, s))
      BY <2>4, <2>5, <2>6, OneMoreUsed
    <2>8. TimeUsed(s) = TimeUsed(r) + Cost(c)
      <3>1. s = r \cup {c} /\ c \notin r /\ c \in Pcbs /\ r \in SUBSET Pcbs
        BY <2>1, <2>2
      <3> QED
        BY <2>3, <3>1, OneMoreUsed
    <2> QED
      BY <2>4, <2>6, <2>7, <2>8
  <1>3. I = Nat
    <2> HIDE DEF I
    <2>1. I \in SUBSET Nat
      BY DEF I
    <2> QED
      BY <1>1, <1>2, <2>1, AllNumbers
  <1>4. Cardinality(S) \in I /\ S \in Flocks(Cardinality(S))
    BY <1>3, FlockIs
  <1> QED
    BY <1>4

-----------------------------------------------------------------------------
(* Lists of processes *)

Who(s) == {s[i] : i \in 1 .. Len(s)}

Distinct(s) == \A i, j \in 1 .. Len(s) : s[i].pid = s[j].pid => i = j

List(s) == s \in Seq(Pcbs) /\ Distinct(s)

LEMMA WhoIsRange == ASSUME NEW s \in Seq(Pcbs) PROVE Range(s) = Who(s) /\ DOMAIN s = 1 .. Len(s)
  BY RangeEquality, LenProperties DEF Who

LEMMA SequenceIs ==
    ASSUME NEW S, NEW n \in Nat, NEW r \in [1 .. n -> S] PROVE r \in Seq(S) /\ Len(r) = n
  <1>1. r \in Seq(S)
    OBVIOUS
  <1>2. Len(r) = n
    BY <1>1
  <1> QED
    BY <1>1, <1>2

\* What goes before what, in I.
IsBefore(I, B) ==
    /\ B \in [I -> SUBSET I]
    /\ \A i \in I : i \notin B[i]
    /\ \A i, j \in I : j \in B[i] => B[j] \subseteq B[i]
    /\ \A i, j \in I : i # j => i \in B[j] \/ j \in B[i]

Ranks(I, B) == [i \in I |-> Cardinality(B[i]) + 1]

\* R numbers the elements of I from 1.
Numbers(R, I) ==
    /\ Cardinality(I) \in Nat
    /\ R \in [I -> 1 .. Cardinality(I)]
    /\ \A i, j \in I : R[i] = R[j] => i = j
    /\ \A k \in 1 .. Cardinality(I) : \E i \in I : R[i] = k

LEMMA RanksAreNumbers ==
    ASSUME NEW I, IsFiniteSet(I), NEW B, IsBefore(I, B) PROVE Numbers(Ranks(I, B), I)
  <1> DEFINE R == Ranks(I, B)
             N == Cardinality(I)
  <1>1. N \in Nat
    BY FS_CardinalityType
  <1>2. \A i \in I : IsFiniteSet(B[i]) /\ Cardinality(B[i]) \in Nat /\ Cardinality(B[i]) < N
    <2> SUFFICES ASSUME NEW i \in I PROVE IsFiniteSet(B[i]) /\ Cardinality(B[i]) \in Nat /\ Cardinality(B[i]) < N
      OBVIOUS
    <2>1. B[i] \in SUBSET I /\ B[i] # I
      BY DEF IsBefore
    <2>2. IsFiniteSet(B[i]) /\ Cardinality(B[i]) <= N /\ (N = Cardinality(B[i]) => I = B[i])
      BY <2>1, FS_Subset
    <2>3. Cardinality(B[i]) \in Nat
      BY <2>2, FS_CardinalityType
    <2> QED
      BY <1>1, <2>1, <2>2, <2>3
  <1>3. \A i, j \in I : i \in B[j] => Cardinality(B[i]) < Cardinality(B[j])
    <2> SUFFICES ASSUME NEW i \in I, NEW j \in I, i \in B[j] PROVE Cardinality(B[i]) < Cardinality(B[j])
      OBVIOUS
    <2>1. B[i] \in SUBSET B[j] /\ B[i] # B[j]
      BY DEF IsBefore
    <2>2. Cardinality(B[i]) <= Cardinality(B[j]) /\ (Cardinality(B[j]) = Cardinality(B[i]) => B[j] = B[i])
      BY <1>2, <2>1, FS_Subset
    <2> QED
      BY <1>2, <2>1, <2>2
  <1>4. \A i \in I : R[i] = Cardinality(B[i]) + 1 /\ R[i] \in 1 .. N
    BY <1>1, <1>2 DEF Ranks
  <1>5. R \in [I -> 1 .. N]
    BY <1>4 DEF Ranks
  <1>6. \A i, j \in I : R[i] = R[j] => i = j
    <2> SUFFICES ASSUME NEW i \in I, NEW j \in I, i # j PROVE R[i] # R[j]
      OBVIOUS
    <2>1. i \in B[j] \/ j \in B[i]
      BY DEF IsBefore
    <2>2. Cardinality(B[i]) < Cardinality(B[j]) \/ Cardinality(B[j]) < Cardinality(B[i])
      BY <1>3, <2>1
    <2>3. R[i] = Cardinality(B[i]) + 1 /\ R[j] = Cardinality(B[j]) + 1
      BY <1>4
    <2>4. Cardinality(B[i]) \in Nat /\ Cardinality(B[j]) \in Nat
      BY <1>2
    <2> HIDE DEF R
    <2> QED
      BY <2>2, <2>3, <2>4
  <1> HIDE DEF R
  <1>7. R \in Injection(I, 1 .. N)
    BY <1>5, <1>6 DEF Injection, IsInjective
  <1>8. IsFiniteSet(1 .. N) /\ Cardinality(1 .. N) = N
    BY <1>1, FS_Interval
  <1>9. R \in Surjection(I, 1 .. N)
    BY <1>7, <1>8, FS_Injection
  <1>10. \A k \in 1 .. N : \E i \in I : R[i] = k
    BY <1>9 DEF Surjection
  <1> QED
    BY <1>1, <1>5, <1>6, <1>10 DEF R, Numbers

\* r consists of the elements of s at the indices in I, in some order.
Gathers(r, s, I) == List(r) /\ Len(r) = Cardinality(I) /\ Who(r) = {s[i] : i \in I}

By(R, s, I) == [k \in 1 .. Cardinality(I) |-> s[CHOOSE i \in I : R[i] = k]]

LEMMA Gathered ==
    ASSUME NEW s, List(s), NEW I \in SUBSET (1 .. Len(s)), NEW R, Numbers(R, I)
    PROVE  Gathers(By(R, s, I), s, I)
  <1> DEFINE n == Cardinality(I)
             g == [k \in 1 .. n |-> CHOOSE i \in I : R[i] = k]
             r == [k \in 1 .. n |-> s[CHOOSE i \in I : R[i] = k]]
  <1>0. n \in Nat /\ R \in [I -> 1 .. n] /\ \A i, j \in I : R[i] = R[j] => i = j
    BY DEF Numbers
  <1>1. \A k \in 1 .. n : g[k] \in I /\ R[g[k]] = k
    BY DEF Numbers
  <1>2. r = [k \in 1 .. n |-> s[g[k]]]
    OBVIOUS
  <1> HIDE DEF g, r, n
  <1>3. \A i \in I : g[R[i]] = i /\ R[i] \in 1 .. n
    BY <1>0, <1>1
  <1>4. \A i \in I : s[i] \in Pcbs
    BY DEF List
  <1>5. r \in [1 .. n -> Pcbs]
    BY <1>1, <1>2, <1>4
  <1>6. r \in Seq(Pcbs) /\ Len(r) = n
    BY <1>0, <1>5, SequenceIs
  <1>7. Distinct(r)
    <2> SUFFICES ASSUME NEW j \in 1 .. n, NEW k \in 1 .. n, r[j].pid = r[k].pid PROVE j = k
      BY <1>6 DEF Distinct
    <2>1. g[j] = g[k]
      BY <1>1, <1>2 DEF List, Distinct
    <2> QED
      BY <1>1, <2>1
  <1>8. Who(r) = {s[i] : i \in I}
    <2>1. \A k \in 1 .. n : r[k] \in {s[i] : i \in I}
      BY <1>1, <1>2
    <2>2. \A i \in I : r[R[i]] = s[i]
      BY <1>2, <1>3
    <2>3. Who(r) = {r[k] : k \in 1 .. n}
      BY <1>6 DEF Who
    <2>4. \A i \in I : s[i] \in {r[k] : k \in 1 .. n}
      BY <1>3, <2>2
    <2>5. {r[k] : k \in 1 .. n} \subseteq {s[i] : i \in I}
      BY <2>1
    <2>6. {s[i] : i \in I} \subseteq {r[k] : k \in 1 .. n}
      BY <2>4
    <2> QED
      BY <2>3, <2>5, <2>6
  <1> QED
    BY <1>6, <1>7, <1>8 DEF Gathers, List, r, n, By

LEMMA OnlyGathers ==
    ASSUME NEW s, List(s), NEW I \in SUBSET (1 .. Len(s)) PROVE Gathers(Only(s, I), s, I)
  <1> DEFINE B == [i \in I |-> {j \in I : j < i}]
             R == Ranks(I, B)
             n == Cardinality(I)
  <1>1. IsFiniteSet(I)
    <2>1. IsFiniteSet(1 .. Len(s))
      BY FS_Interval, LenProperties DEF List
    <2> QED
      BY <2>1, FS_Subset
  <1>2. IsBefore(I, B)
    <2>1. I \subseteq Int
      OBVIOUS
    <2>2. \A i \in I : B[i] = {j \in I : j < i}
      OBVIOUS
    <2>3. B \in [I -> SUBSET I]
      OBVIOUS
    <2> HIDE DEF B
    <2> QED
      BY <2>1, <2>2, <2>3 DEF IsBefore
  <1>3. \A i \in I : IsFiniteSet({j \in I : j < i}) /\ Cardinality({j \in I : j < i}) \in Nat
    <2> SUFFICES ASSUME NEW i \in I PROVE IsFiniteSet({j \in I : j < i}) /\ Cardinality({j \in I : j < i}) \in Nat
      OBVIOUS
    <2>1. {j \in I : j < i} \in SUBSET I
      OBVIOUS
    <2>2. IsFiniteSet({j \in I : j < i})
      BY <1>1, <2>1, FS_Subset
    <2> QED
      BY <2>2, FS_CardinalityType
  <1>4. \A k \in 1 .. n, i \in I : R[i] = k <=> Cardinality({j \in I : j < i}) = k - 1
    <2> SUFFICES ASSUME NEW k \in 1 .. n, NEW i \in I PROVE R[i] = k <=> Cardinality({j \in I : j < i}) = k - 1
      OBVIOUS
    <2>1. R[i] = Cardinality({j \in I : j < i}) + 1
      BY DEF Ranks
    <2>2. Cardinality({j \in I : j < i}) \in Nat /\ k \in Int
      BY <1>3
    <2> HIDE DEF R
    <2> QED
      BY <2>1, <2>2
  <1>5. Numbers(R, I)
    <2> HIDE DEF B
    <2> QED
      BY <1>1, <1>2, RanksAreNumbers
  <1>6. Only(s, I) = [k \in 1 .. n |-> s[CHOOSE i \in I : Cardinality({j \in I : j < i}) = k - 1]]
    BY DEF Only
  <1>7. \A k \in 1 .. n : (CHOOSE i \in I : Cardinality({j \in I : j < i}) = k - 1)
                         = (CHOOSE i \in I : R[i] = k)
    <2> SUFFICES ASSUME NEW k \in 1 .. n
                 PROVE (CHOOSE i \in I : Cardinality({j \in I : j < i}) = k - 1) = (CHOOSE i \in I : R[i] = k)
      OBVIOUS
    <2>1. \A i \in I : R[i] = k <=> Cardinality({j \in I : j < i}) = k - 1
      BY <1>4
    <2> HIDE DEF R
    <2> QED
      BY <2>1
  <1> HIDE DEF R, B, n
  <1>8. Only(s, I) = [k \in 1 .. n |-> s[CHOOSE i \in I : R[i] = k]]
    BY <1>6, <1>7
  <1>9. Only(s, I) = By(R, s, I)
    BY <1>8 DEF By, n
  <1> QED
    BY <1>5, <1>9, Gathered

LEMMA InOrderGathers ==
    ASSUME NEW s, List(s), NEW B, IsBefore(1 .. Len(s), B) PROVE Gathers(InOrder(s, B), s, 1 .. Len(s))
  <1> DEFINE I == 1 .. Len(s)
             R == Ranks(I, B)
             n == Cardinality(I)
  <1>1. IsFiniteSet(I) /\ n = Len(s) /\ DOMAIN s = I
    <2>1. Len(s) \in Nat /\ DOMAIN s = I
      BY LenProperties DEF List
    <2>2. \A b \in Nat : IsFiniteSet(1 .. b) /\ Cardinality(1 .. b) = b
      BY FS_Interval
    <2> QED
      BY <2>1, <2>2
  <1>2. InOrder(s, B) = [k \in I |-> s[CHOOSE i \in I : Cardinality(B[i]) + 1 = k]]
    BY <1>1 DEF InOrder
  <1>3. \A i \in I : R[i] = Cardinality(B[i]) + 1
    BY DEF Ranks
  <1>4. \A k \in I : (CHOOSE i \in I : Cardinality(B[i]) + 1 = k) = (CHOOSE i \in I : R[i] = k)
    <2> HIDE DEF R, I
    <2> QED
      BY <1>3
  <1>5. Numbers(R, I)
    <2> HIDE DEF I
    <2> QED
      BY <1>1, RanksAreNumbers DEF I
  <1>6. I = 1 .. n
    BY <1>1
  <1>7. I \in SUBSET (1 .. Len(s))
    OBVIOUS
  <1> HIDE DEF R, n, I
  <1>8. InOrder(s, B) = [k \in 1 .. n |-> s[CHOOSE i \in I : R[i] = k]]
    BY <1>2, <1>4, <1>6
  <1>9. InOrder(s, B) = By(R, s, I)
    BY <1>8 DEF By, n
  <1>10. Gathers(InOrder(s, B), s, I)
    BY <1>5, <1>7, <1>9, Gathered
  <1> QED
    BY <1>10 DEF I

Apart(S, T) == \A p \in S, q \in T : p.pid # q.pid

LEMMA ListFacts ==
    ASSUME NEW s, List(s)
    PROVE  /\ s \in Seq(Pcbs) /\ Len(s) \in Nat /\ DOMAIN s = 1 .. Len(s)
           /\ Who(s) \in SUBSET Pcbs
           /\ \A i \in 1 .. Len(s) : s[i] \in Pcbs /\ s[i] \in Who(s)
           /\ \A i, j \in 1 .. Len(s) : s[i].pid = s[j].pid => i = j
           /\ \A p, q \in Who(s) : p.pid = q.pid => p = q
  <1>1. s \in Seq(Pcbs) /\ Len(s) \in Nat /\ DOMAIN s = 1 .. Len(s)
    BY LenProperties DEF List
  <1>2. \A i \in 1 .. Len(s) : s[i] \in Pcbs /\ s[i] \in Who(s)
    BY <1>1 DEF Who
  <1>3. \A i, j \in 1 .. Len(s) : s[i].pid = s[j].pid => i = j
    BY DEF List, Distinct
  <1>4. \A p, q \in Who(s) : p.pid = q.pid => p = q
    BY <1>3 DEF Who
  <1>5. Who(s) \in SUBSET Pcbs
    BY <1>2 DEF Who
  <1> QED
    BY <1>1, <1>2, <1>3, <1>4, <1>5

LEMMA FiniteList == ASSUME NEW s, List(s) PROVE IsFiniteSet(Who(s))
  <1>1. Len(s) \in Nat
    BY ListFacts
  <1>2. IsFiniteSet(1 .. Len(s))
    BY <1>1, FS_Interval
  <1>3. [i \in 1 .. Len(s) |-> s[i]] \in Surjection(1 .. Len(s), Who(s))
    BY DEF Surjection, Who
  <1> QED
    BY <1>2, <1>3, FS_Surjection

LEMMA EmptyList == List(<<>>) /\ Who(<<>>) = {} /\ Len(<<>>) = 0
  <1>1. <<>> \in Seq(Pcbs) /\ Len(<<>>) = 0
    BY EmptySeq
  <1> QED
    BY <1>1 DEF List, Distinct, Who

LEMMA OneList == ASSUME NEW p \in Pcbs PROVE List(<<p>>) /\ Who(<<p>>) = {p} /\ Len(<<p>>) = 1 /\ <<p>>[1] = p
  <1>1. <<p>> \in Seq(Pcbs) /\ Len(<<p>>) = 1 /\ <<p>>[1] = p
    OBVIOUS
  <1>2. \A i \in 1 .. 1 : i = 1
    OBVIOUS
  <1> QED
    BY <1>1, <1>2 DEF List, Distinct, Who

Joins(r, s, t) ==
    /\ List(r) /\ Who(r) = Who(s) \cup Who(t)
    /\ Len(r) = Len(s) + Len(t)
    /\ \A i \in 1 .. Len(s) : r[i] = s[i]
    /\ \A i \in 1 .. Len(t) : r[Len(s) + i] = t[i]
    /\ \A i \in Len(s) + 1 .. Len(r) : r[i] \in Who(t)

LEMMA Joined == ASSUME NEW s, NEW t, List(s), List(t), Apart(Who(s), Who(t)) PROVE Joins(s \o t, s, t)
  <1> DEFINE r == s \o t
  <1>1. s \in Seq(Pcbs) /\ t \in Seq(Pcbs) /\ Len(s) \in Nat /\ Len(t) \in Nat
    BY ListFacts
  <1>2. r \in Seq(Pcbs) /\ Len(r) = Len(s) + Len(t)
        /\ \A i \in 1 .. Len(s) + Len(t) : r[i] = IF i <= Len(s) THEN s[i] ELSE t[i - Len(s)]
    BY <1>1, ConcatProperties
  <1> HIDE DEF r
  <1>3. \A i \in 1 .. Len(s) : r[i] = s[i] /\ i \in 1 .. Len(r)
    BY <1>1, <1>2
  <1>4. \A i \in 1 .. Len(t) : r[Len(s) + i] = t[i] /\ Len(s) + i \in 1 .. Len(r)
    <2> SUFFICES ASSUME NEW i \in 1 .. Len(t) PROVE r[Len(s) + i] = t[i] /\ Len(s) + i \in 1 .. Len(r)
      OBVIOUS
    <2>1. Len(s) + i \in 1 .. Len(s) + Len(t) /\ ~(Len(s) + i <= Len(s)) /\ (Len(s) + i) - Len(s) = i
      BY <1>1
    <2> QED
      BY <1>2, <2>1
  <1>5. \A i \in 1 .. Len(r) : i \in 1 .. Len(s) \/ (i - Len(s) \in 1 .. Len(t) /\ r[i] = t[i - Len(s)] /\ i > Len(s))
    BY <1>1, <1>2
  <1>6. \A i \in Len(s) + 1 .. Len(r) : r[i] \in Who(t)
    <2> SUFFICES ASSUME NEW i \in Len(s) + 1 .. Len(r) PROVE r[i] \in Who(t)
      OBVIOUS
    <2>1. i - Len(s) \in 1 .. Len(t) /\ r[i] = t[i - Len(s)]
      BY <1>1, <1>2
    <2> QED
      BY <2>1, ListFacts
  <1>7. \A i \in 1 .. Len(r) : (i \in 1 .. Len(s) /\ r[i] \in Who(s)) \/ (i \notin 1 .. Len(s) /\ r[i] \in Who(t))
    <2> SUFFICES ASSUME NEW i \in 1 .. Len(r)
                 PROVE (i \in 1 .. Len(s) /\ r[i] \in Who(s)) \/ (i \notin 1 .. Len(s) /\ r[i] \in Who(t))
      OBVIOUS
    <2>1. CASE i \in 1 .. Len(s)
      BY <1>3, <2>1, ListFacts
    <2>2. CASE i \notin 1 .. Len(s)
      <3>1. i - Len(s) \in 1 .. Len(t) /\ r[i] = t[i - Len(s)]
        BY <1>5, <2>2
      <3> QED
        BY <2>2, <3>1, ListFacts
    <2> QED
      BY <2>1, <2>2
  <1>8. Who(r) = Who(s) \cup Who(t)
    <2>1. Who(r) \subseteq Who(s) \cup Who(t)
      BY <1>7 DEF Who
    <2>2. Who(s) \subseteq Who(r)
      BY <1>3 DEF Who
    <2>3. Who(t) \subseteq Who(r)
      BY <1>4 DEF Who
    <2> QED
      BY <2>1, <2>2, <2>3
  <1>9. Distinct(r)
    <2> SUFFICES ASSUME NEW i \in 1 .. Len(r), NEW j \in 1 .. Len(r), r[i].pid = r[j].pid PROVE i = j
      BY DEF Distinct
    <2>1. CASE i \in 1 .. Len(s) /\ j \in 1 .. Len(s)
      BY <1>3, <2>1, ListFacts
    <2>2. CASE i \notin 1 .. Len(s) /\ j \notin 1 .. Len(s)
      <3>1. i - Len(s) \in 1 .. Len(t) /\ r[i] = t[i - Len(s)] /\ j - Len(s) \in 1 .. Len(t) /\ r[j] = t[j - Len(s)]
        BY <1>5, <2>2
      <3>2. i - Len(s) = j - Len(s)
        BY <3>1, ListFacts
      <3> QED
        BY <1>1, <3>2
    <2>3. CASE i \in 1 .. Len(s) /\ j \notin 1 .. Len(s)
      BY <1>7, <2>3 DEF Apart
    <2>4. CASE i \notin 1 .. Len(s) /\ j \in 1 .. Len(s)
      BY <1>7, <2>4 DEF Apart
    <2> QED
      BY <2>1, <2>2, <2>3, <2>4
  <1> QED
    BY <1>2, <1>3, <1>4, <1>6, <1>8, <1>9 DEF Joins, List, r

LEMMA Appended ==
    ASSUME NEW s, List(s), NEW p \in Pcbs, Apart(Who(s), {p})
    PROVE  /\ List(Append(s, p)) /\ Who(Append(s, p)) = Who(s) \cup {p}
           /\ Len(Append(s, p)) = Len(s) + 1
           /\ \A i \in 1 .. Len(s) : Append(s, p)[i] = s[i]
           /\ Append(s, p)[Len(s) + 1] = p
  <1>1. List(<<p>>) /\ Who(<<p>>) = {p} /\ Len(<<p>>) = 1 /\ <<p>>[1] = p
    BY OneList
  <1>2. Append(s, p) = s \o <<p>>
    BY ListFacts, AppendIsConcat
  <1>3. Joins(s \o <<p>>, s, <<p>>)
    BY <1>1, Joined
  <1> QED
    BY <1>1, <1>2, <1>3 DEF Joins

LEMMA TailIs ==
    ASSUME NEW s, List(s), s # <<>>
    PROVE  /\ Len(s) \in Nat \ {0} /\ Head(s) = s[1] /\ Head(s) \in Who(s) /\ Head(s) \in Pcbs
           /\ List(Tail(s)) /\ Who(Tail(s)) = Who(s) \ {Head(s)}
           /\ Len(Tail(s)) = Len(s) - 1
           /\ \A i \in 1 .. Len(Tail(s)) : Tail(s)[i] = s[i + 1]
           /\ Apart({Head(s)}, Who(Tail(s)))
  <1> DEFINE h == Head(s)
             t == Tail(s)
  <1>1. s \in Seq(Pcbs)
    BY ListFacts
  <1>2. Len(s) \in Nat \ {0} /\ h = s[1]
    BY <1>1, EmptySeq
  <1>3. t \in Seq(Pcbs) /\ Len(t) = Len(s) - 1 /\ \A i \in 1 .. Len(t) : t[i] = s[i + 1]
    BY <1>1, HeadTailProperties
  <1> HIDE DEF h, t
  <1>4. h \in Who(s) /\ h \in Pcbs /\ 1 \in 1 .. Len(s)
    BY <1>2, ListFacts
  <1>5. \A i \in 1 .. Len(t) : i + 1 \in 1 .. Len(s) /\ i + 1 # 1
    BY <1>2, <1>3
  <1>6. Distinct(t)
    <2> SUFFICES ASSUME NEW i \in 1 .. Len(t), NEW j \in 1 .. Len(t), t[i].pid = t[j].pid PROVE i = j
      BY DEF Distinct
    <2>1. s[i + 1].pid = s[j + 1].pid /\ i + 1 \in 1 .. Len(s) /\ j + 1 \in 1 .. Len(s)
      BY <1>3, <1>5
    <2>2. i + 1 = j + 1
      BY <2>1, ListFacts
    <2> QED
      BY <2>2
  <1>7. Apart({h}, Who(t))
    <2> SUFFICES ASSUME NEW i \in 1 .. Len(t) PROVE h.pid # t[i].pid
      BY DEF Apart, Who
    <2> QED
      BY <1>2, <1>3, <1>4, <1>5, ListFacts
  <1>8. Who(s) = {h} \cup Who(t)
    <2>1. Who(t) \subseteq Who(s)
      BY <1>3, <1>5 DEF Who
    <2>2. ASSUME NEW i \in 1 .. Len(s), i # 1 PROVE s[i] \in Who(t)
      <3>1. i - 1 \in 1 .. Len(t) /\ (i - 1) + 1 = i
        BY <1>2, <1>3, <2>2
      <3>2. t[i - 1] = s[i]
        BY <1>3, <3>1
      <3> QED
        BY <3>1, <3>2 DEF Who
    <2>3. Who(s) \subseteq {h} \cup Who(t)
      BY <1>2, <2>2 DEF Who
    <2> QED
      BY <1>4, <2>1, <2>3
  <1>9. h \notin Who(t)
    BY <1>7 DEF Apart
  <1> QED
    BY <1>2, <1>3, <1>4, <1>6, <1>7, <1>8, <1>9 DEF h, t, List

\* The processes of s, each changed by h, which leaves its pid alone.
Maps(r, h, s) ==
    /\ DOMAIN r = DOMAIN s
    /\ h \in [Who(s) -> Pcbs]
    /\ \A p \in Who(s) : h[p].pid = p.pid
    /\ r = [i \in DOMAIN s |-> h[s[i]]]

LEMMA Mapped ==
    ASSUME NEW s, List(s), NEW h, NEW r, Maps(r, h, s)
    PROVE  List(r) /\ Len(r) = Len(s) /\ Who(r) = Image(h, Who(s)) /\ \A i \in 1 .. Len(s) : r[i] = h[s[i]]
  <1>1. Len(s) \in Nat /\ DOMAIN s = 1 .. Len(s) /\ \A i \in 1 .. Len(s) : s[i] \in Who(s)
    BY ListFacts
  <1>2. \A i \in 1 .. Len(s) : r[i] = h[s[i]] /\ r[i] \in Pcbs /\ r[i].pid = s[i].pid
    BY <1>1 DEF Maps
  <1>3. r \in [1 .. Len(s) -> Pcbs]
    BY <1>1, <1>2 DEF Maps
  <1>4. r \in Seq(Pcbs) /\ Len(r) = Len(s)
    BY <1>1, <1>3, SequenceIs
  <1>5. Distinct(r)
    BY <1>2, <1>4, ListFacts DEF Distinct
  <1>6. Who(r) \subseteq Image(h, Who(s))
    BY <1>1, <1>2, <1>4 DEF Who, Image
  <1>7. Image(h, Who(s)) \subseteq Who(r)
    BY <1>1, <1>2, <1>4 DEF Who, Image
  <1> QED
    BY <1>2, <1>4, <1>5, <1>6, <1>7 DEF List

-----------------------------------------------------------------------------
(* The queues *)

\* The processes of the queues q.
Folk(q) == Who(q.ready) \cup Who(q.waiting)

\* Events are events, and sleeps last.
Proper == NoEvent \notin Events /\ 0 \notin SleepTimes

Settled(p) ==
    /\ p.state \in {"Ready", "Running"}
    /\ Proper => p.sleep = 0 /\ p.event = NoEvent

Absent(p) ==
    /\ p.state = "Waiting"
    /\ Proper => (p.event = NoEvent <=> p.sleep >= 1)

Sound(q) ==
    /\ q = [ready |-> q.ready, waiting |-> q.waiting]
    /\ List(q.ready) /\ List(q.waiting) /\ Apart(Who(q.ready), Who(q.waiting))
    /\ \A p \in Who(q.ready) : Settled(p)
    /\ \A i \in 2 .. Len(q.ready) : IsReady(q.ready[i])
    /\ \A p \in Who(q.waiting) : Absent(p)

LEMMA SoundFolk ==
    ASSUME NEW q, Sound(q)
    PROVE  /\ Folk(q) \in SUBSET Pcbs /\ IsFiniteSet(Folk(q))
           /\ \A p, r \in Folk(q) : p.pid = r.pid => p = r
           /\ Range(Everyone(q)) = Folk(q)
  <1>1. List(q.ready) /\ List(q.waiting) /\ Apart(Who(q.ready), Who(q.waiting))
    BY DEF Sound
  <1>2. Folk(q) \in SUBSET Pcbs
    BY <1>1, ListFacts DEF Folk
  <1>3. IsFiniteSet(Folk(q))
    BY <1>1, FiniteList, FS_Union DEF Folk
  <1>4. \A p, r \in Folk(q) : p.pid = r.pid => p = r
    BY <1>1, ListFacts DEF Folk, Apart
  <1>5. Joins(Everyone(q), q.ready, q.waiting)
    BY <1>1, Joined DEF Everyone
  <1>6. Range(Everyone(q)) = Folk(q)
    BY <1>5, WhoIsRange DEF Joins, List, Folk
  <1> QED
    BY <1>2, <1>3, <1>4, <1>6

\* The process p, t time units later.
Elapsed(p, t) == IF p.state = "Waiting" THEN Rested(Older(p, t), t) ELSE Older(p, t)

LEMMA OlderIs ==
    ASSUME NEW p \in Pcbs, NEW t \in Nat
    PROVE  /\ Older(p, t) \in Pcbs /\ Older(p, t).pid = p.pid /\ Older(p, t).total = p.total + t
           /\ Older(p, t).execute = p.execute /\ Older(p, t).syscall = p.syscall
           /\ Older(p, t).state = p.state /\ Older(p, t).sleep = p.sleep /\ Older(p, t).event = p.event
  BY DEF Older, Pcbs

LEMMA RestedIs ==
    ASSUME NEW p \in Pcbs, NEW t \in Nat
    PROVE  /\ Rested(p, t) \in Pcbs /\ Rested(p, t).pid = p.pid /\ Rested(p, t).total = p.total
           /\ Rested(p, t).execute = p.execute /\ Rested(p, t).syscall = p.syscall
           /\ Rested(p, t).event = p.event
           /\ p.sleep = 0 => Rested(p, t).sleep = 0 /\ Rested(p, t).state = p.state
           /\ p.sleep > t => Rested(p, t).sleep = p.sleep - t /\ Rested(p, t).state = p.state
           /\ p.sleep # 0 /\ ~(p.sleep > t) => Rested(p, t).sleep = 0 /\ Rested(p, t).state = "Ready"
  <1>1. CASE p.sleep = 0
    <2>1. Rested(p, t) = p
      BY <1>1 DEF Rested
    <2> QED
      BY <1>1, <2>1 DEF Pcbs
  <1>2. CASE p.sleep # 0 /\ p.sleep > t
    <2>1. Rested(p, t) = [p EXCEPT !.sleep = @ - t]
      BY <1>2 DEF Rested
    <2>2. p.sleep \in Nat /\ p.sleep - t \in Nat
      BY <1>2 DEF Pcbs
    <2> QED
      BY <1>2, <2>1, <2>2 DEF Pcbs
  <1>3. CASE p.sleep # 0 /\ ~(p.sleep > t)
    <2>1. Rested(p, t) = [p EXCEPT !.sleep = 0, !.state = "Ready"]
      BY <1>3 DEF Rested
    <2>2. p.sleep \in Nat /\ ~(p.sleep > t)
      BY <1>3 DEF Pcbs
    <2> DEFINE m == [p EXCEPT !.sleep = 0]
    <2>a. m \in Pcbs /\ m.pid = p.pid /\ m.total = p.total /\ m.event = p.event /\ m.execute = p.execute
          /\ m.syscall = p.syscall /\ m.sleep = 0
      BY DEF Pcbs
    <2>b. Rested(p, t) = [m EXCEPT !.state = "Ready"]
      BY <2>1
    <2> HIDE DEF m
    <2>3. Rested(p, t) \in Pcbs
      BY <2>a, <2>b DEF Pcbs
    <2>4. /\ Rested(p, t).pid = p.pid /\ Rested(p, t).total = p.total /\ Rested(p, t).event = p.event
          /\ Rested(p, t).execute = p.execute /\ Rested(p, t).syscall = p.syscall
          /\ Rested(p, t).sleep = 0 /\ Rested(p, t).state = "Ready"
      BY <2>a, <2>b DEF Pcbs
    <2> QED
      BY <1>3, <2>2, <2>3, <2>4
  <1> QED
    BY <1>1, <1>2, <1>3

\* What time does to a process.
Later(r, p, t) ==
    /\ r \in Pcbs /\ r.pid = p.pid /\ r.total = p.total + t
    /\ r.execute = p.execute /\ r.syscall = p.syscall /\ r.event = p.event
    /\ p.state # "Waiting" => r.state = p.state /\ r.sleep = p.sleep
    /\ p.state = "Waiting" =>
           /\ p.sleep = 0 => r.sleep = 0 /\ r.state = "Waiting"
           /\ p.sleep > t => r.sleep = p.sleep - t /\ r.state = "Waiting"
           /\ p.sleep # 0 /\ ~(p.sleep > t) => r.sleep = 0 /\ r.state = "Ready"

LEMMA ElapsedIs == ASSUME NEW p \in Pcbs, NEW t \in Nat PROVE Later(Elapsed(p, t), p, t)
  <1> DEFINE o == Older(p, t)
  <1>1. o \in Pcbs /\ o.pid = p.pid /\ o.total = p.total + t /\ o.execute = p.execute /\ o.syscall = p.syscall
        /\ o.state = p.state /\ o.sleep = p.sleep /\ o.event = p.event
    BY OlderIs
  <1>2. Elapsed(p, t) = IF p.state = "Waiting" THEN Rested(o, t) ELSE o
    BY DEF Elapsed
  <1> HIDE DEF o
  <1>3. CASE p.state # "Waiting"
    BY <1>1, <1>2, <1>3 DEF Later
  <1>4. CASE p.state = "Waiting"
    <2> DEFINE r == Rested(o, t)
    <2>1. /\ r \in Pcbs /\ r.pid = o.pid /\ r.total = o.total
          /\ r.execute = o.execute /\ r.syscall = o.syscall
          /\ r.event = o.event
          /\ o.sleep = 0 => r.sleep = 0 /\ r.state = o.state
          /\ o.sleep > t => r.sleep = o.sleep - t /\ r.state = o.state
          /\ o.sleep # 0 /\ ~(o.sleep > t) => r.sleep = 0 /\ r.state = "Ready"
      BY <1>1, RestedIs
    <2>2. Elapsed(p, t) = r
      BY <1>2, <1>4
    <2> HIDE DEF r
    <2> QED
      BY <1>1, <1>4, <2>1, <2>2 DEF Later
  <1> QED
    BY <1>3, <1>4

\* The list s falls into a, its elements at the indices in I, and b, the others.
Parts(a, b, s, I) ==
    /\ List(a) /\ List(b) /\ Apart(Who(a), Who(b))
    /\ Who(a) = {s[i] : i \in I} /\ Who(b) = {s[i] : i \in (1 .. Len(s)) \ I}
    /\ Who(a) \cup Who(b) = Who(s)

LEMMA Parted ==
    ASSUME NEW s, List(s), NEW I \in SUBSET (1 .. Len(s))
    PROVE  Parts(Only(s, I), Only(s, (1 .. Len(s)) \ I), s, I)
  <1> DEFINE J == (1 .. Len(s)) \ I
             a == Only(s, I)
             b == Only(s, J)
  <1>1. Gathers(a, s, I)
    BY OnlyGathers
  <1>2. Gathers(b, s, J)
    <2>1. J \in SUBSET (1 .. Len(s))
      OBVIOUS
    <2> HIDE DEF J
    <2> QED
      BY <2>1, OnlyGathers
  <1> HIDE DEF a, b
  <1>3. List(a) /\ List(b) /\ Who(a) = {s[i] : i \in I} /\ Who(b) = {s[i] : i \in J}
    BY <1>1, <1>2 DEF Gathers
  <1>4. Apart(Who(a), Who(b))
    <2> SUFFICES ASSUME NEW i \in I, NEW j \in J PROVE s[i].pid # s[j].pid
      BY <1>3 DEF Apart
    <2> QED
      BY ListFacts
  <1>5. Who(a) \cup Who(b) = Who(s)
    BY <1>3 DEF Who
  <1> QED
    BY <1>3, <1>4, <1>5 DEF Parts, a, b

\* r is what has become of q, where each process p became h[p].
Became(r, q, h) ==
    /\ Sound(r) /\ Folk(r) = Image(h, Folk(q)) /\ KeepsUse(h, Folk(q))
    /\ Len(r.ready) >= Len(q.ready)
    /\ \A i \in 1 .. Len(q.ready) : r.ready[i] = h[q.ready[i]]

After(q, t) == [p \in Folk(q) |-> Elapsed(p, t)]

LEMMA AfterKeepsUse == ASSUME NEW q, Sound(q), NEW t \in Nat PROVE KeepsUse(After(q, t), Folk(q))
  <1>1. \A p \in Folk(q) : p \in Pcbs /\ Later(Elapsed(p, t), p, t) /\ After(q, t)[p] = Elapsed(p, t)
    BY SoundFolk, ElapsedIs DEF After
  <1>2. After(q, t) \in [Folk(q) -> Pcbs]
    BY <1>1 DEF After, Later
  <1>3. \A p \in Folk(q) : Cost(After(q, t)[p]) = Cost(p) /\ After(q, t)[p].pid = p.pid
    BY <1>1 DEF Later, Cost
  <1>4. \A p, r \in Folk(q) : After(q, t)[p] = After(q, t)[r] => p = r
    BY <1>3, SoundFolk
  <1> QED
    BY <1>2, <1>3, <1>4 DEF KeepsUse

LEMMA TimePasses ==
    ASSUME NEW q, Sound(q), NEW t \in Nat PROVE Became(ActualiseTimings(q, t), q, After(q, t))
  <1> DEFINE w == q.waiting
             rested == [i \in DOMAIN w |-> Rested(Older(w[i], t), t)]
             awake == {i \in DOMAIN rested : IsReady(rested[i])}
             woken == Only(rested, awake)
             asleep == Only(rested, DOMAIN rested \ awake)
             aged == Aged(q.ready, t)
             r == ActualiseTimings(q, t)
             h == After(q, t)
  <1>0. r = [ready |-> aged \o woken, waiting |-> asleep]
    BY DEF ActualiseTimings
  <1>1. /\ List(q.ready) /\ List(w) /\ Apart(Who(q.ready), Who(w))
        /\ \A p \in Who(q.ready) : Settled(p)
        /\ \A i \in 2 .. Len(q.ready) : IsReady(q.ready[i])
        /\ \A p \in Who(w) : Absent(p)
    BY DEF Sound
  <1>2. KeepsUse(h, Folk(q))
    BY AfterKeepsUse
  <1>3. \A p \in Folk(q) : p \in Pcbs /\ h[p] = Elapsed(p, t) /\ Later(h[p], p, t)
    BY SoundFolk, ElapsedIs DEF After
  <1>4. Maps(rested, [p \in Who(w) |-> h[p]], w)
    <2>1. \A i \in DOMAIN w : w[i] \in Who(w) /\ w[i].state = "Waiting" /\ w[i] \in Folk(q)
      BY <1>1, ListFacts DEF Absent, Folk
    <2>2. \A i \in DOMAIN w : rested[i] = h[w[i]]
      BY <1>3, <2>1 DEF Elapsed
    <2>3. \A p \in Who(w) : h[p] \in Pcbs /\ h[p].pid = p.pid
      BY <1>3 DEF Later, Folk
    <2> DEFINE g == [p \in Who(w) |-> h[p]]
    <2>4. g \in [Who(w) -> Pcbs] /\ (\A p \in Who(w) : g[p].pid = p.pid) /\ \A i \in DOMAIN w : g[w[i]] = h[w[i]]
      BY <2>1, <2>3
    <2> HIDE DEF g, h
    <2>5. rested = [i \in DOMAIN w |-> g[w[i]]]
      BY <2>2, <2>4
    <2> QED
      BY <2>4, <2>5 DEF Maps, g
  <1>5. Maps(aged, [p \in Who(q.ready) |-> h[p]], q.ready)
    <2>1. \A i \in DOMAIN q.ready : q.ready[i] \in Who(q.ready) /\ q.ready[i].state # "Waiting" /\ q.ready[i] \in Folk(q)
      BY <1>1, ListFacts DEF Settled, Folk
    <2>2. DOMAIN aged = DOMAIN q.ready /\ \A i \in DOMAIN q.ready : aged[i] = h[q.ready[i]]
      BY <1>3, <2>1 DEF Elapsed, Aged
    <2>3. \A p \in Who(q.ready) : h[p] \in Pcbs /\ h[p].pid = p.pid
      BY <1>3 DEF Later, Folk
    <2>a. aged = [i \in DOMAIN q.ready |-> aged[i]]
      BY DEF Aged
    <2> DEFINE g == [p \in Who(q.ready) |-> h[p]]
    <2>4. g \in [Who(q.ready) -> Pcbs] /\ (\A p \in Who(q.ready) : g[p].pid = p.pid)
          /\ \A i \in DOMAIN q.ready : g[q.ready[i]] = h[q.ready[i]]
      BY <2>1, <2>3
    <2> HIDE DEF g, h, aged
    <2>5. aged = [i \in DOMAIN q.ready |-> g[q.ready[i]]]
      BY <2>a, <2>2, <2>4
    <2> QED
      BY <2>4, <2>5 DEF Maps, g
  <1> HIDE DEF rested, aged, h, r
  <1>6. List(rested) /\ Len(rested) = Len(w) /\ Who(rested) = Image(h, Who(w))
    <2>1. List(rested) /\ Len(rested) = Len(w) /\ Who(rested) = Image([p \in Who(w) |-> h[p]], Who(w))
      BY <1>1, <1>4, Mapped
    <2> QED
      BY <2>1 DEF Image
  <1>7. List(aged) /\ Len(aged) = Len(q.ready) /\ Who(aged) = Image(h, Who(q.ready))
        /\ \A i \in 1 .. Len(q.ready) : aged[i] = h[q.ready[i]]
    <2> DEFINE g == [p \in Who(q.ready) |-> h[p]]
    <2>1. List(aged) /\ Len(aged) = Len(q.ready) /\ Who(aged) = Image(g, Who(q.ready))
          /\ \A i \in 1 .. Len(q.ready) : aged[i] = g[q.ready[i]]
      BY <1>1, <1>5, Mapped
    <2>2. \A i \in 1 .. Len(q.ready) : q.ready[i] \in Who(q.ready)
      BY <1>1, ListFacts
    <2>3. Image(g, Who(q.ready)) = Image(h, Who(q.ready))
      BY DEF Image
    <2>4. \A i \in 1 .. Len(q.ready) : g[q.ready[i]] = h[q.ready[i]]
      BY <2>2
    <2> HIDE DEF g
    <2> QED
      BY <2>1, <2>3, <2>4
  <1>8. DOMAIN rested = 1 .. Len(rested) /\ awake \in SUBSET (1 .. Len(rested))
        /\ DOMAIN rested \ awake = (1 .. Len(rested)) \ awake
    BY <1>6, ListFacts
  <1>9. Parts(woken, asleep, rested, awake)
    <2>1. asleep = Only(rested, (1 .. Len(rested)) \ awake)
      BY <1>8
    <2> HIDE DEF awake
    <2> QED
      BY <1>6, <1>8, <2>1, Parted
  <1>10. \A p \in Who(woken) : p \in Image(h, Who(w)) /\ IsReady(p)
    BY <1>6, <1>8, <1>9, ListFacts DEF Parts
  <1>11. \A p \in Who(asleep) : p \in Image(h, Who(w)) /\ ~IsReady(p)
    BY <1>6, <1>8, <1>9, ListFacts DEF Parts
  <1> HIDE DEF woken, asleep, awake
  <1>12. Apart(Who(aged), Who(woken)) /\ Apart(Who(aged), Who(asleep)) /\ Apart(Who(woken), Who(asleep))
    <2>1. \A p \in Who(q.ready), v \in Who(w) : h[p].pid # h[v].pid
      BY <1>1, <1>3 DEF Later, Apart, Folk
    <2>2. Apart(Image(h, Who(q.ready)), Image(h, Who(w)))
      BY <2>1 DEF Apart, Image
    <2> QED
      BY <1>7, <1>9, <1>10, <1>11, <2>2 DEF Apart, Parts
  <1>13. Joins(r.ready, aged, woken) /\ r.waiting = asleep /\ r = [ready |-> r.ready, waiting |-> r.waiting]
    <2>1. r.ready = aged \o woken /\ r.waiting = asleep
      BY <1>0
    <2> QED
      BY <1>0, <1>7, <1>9, <1>12, <2>1, Joined DEF Parts
  <1>14. \A p \in Who(q.ready) : Settled(h[p]) /\ (IsReady(p) => IsReady(h[p]))
    BY <1>1, <1>3 DEF Later, Settled, Folk, IsReady
  <1>15. \A p \in Who(w) : IF IsReady(h[p]) THEN Settled(h[p]) ELSE Absent(h[p])
    <2> SUFFICES ASSUME NEW p \in Who(w) PROVE IF IsReady(h[p]) THEN Settled(h[p]) ELSE Absent(h[p])
      OBVIOUS
    <2>1. p \in Pcbs /\ Later(h[p], p, t) /\ Absent(p)
      BY <1>1, <1>3 DEF Folk
    <2>2. p.sleep \in Nat
      BY <2>1 DEF Pcbs
    <2>3. CASE p.sleep = 0
      BY <2>1, <2>3 DEF Later, Absent, Settled, IsReady
    <2>4. CASE p.sleep > t
      BY <2>1, <2>2, <2>4 DEF Later, Absent, Settled, IsReady
    <2>5. CASE p.sleep # 0 /\ ~(p.sleep > t)
      BY <2>1, <2>2, <2>5 DEF Later, Absent, Settled, IsReady
    <2> QED
      BY <2>3, <2>4, <2>5
  <1>16. \A p \in Who(r.ready) : Settled(p)
    BY <1>7, <1>10, <1>13, <1>14, <1>15 DEF Joins, Image
  <1>17. \A p \in Who(r.waiting) : Absent(p)
    BY <1>11, <1>13, <1>15 DEF Image
  <1>18. \A i \in 2 .. Len(r.ready) : IsReady(r.ready[i])
    <2> SUFFICES ASSUME NEW i \in 2 .. Len(r.ready) PROVE IsReady(r.ready[i])
      OBVIOUS
    <2>0. Len(r.ready) \in Nat /\ Len(q.ready) \in Nat
      BY <1>1, <1>13, ListFacts DEF Joins
    <2>1. CASE i \in 1 .. Len(q.ready)
      <3>1. r.ready[i] = h[q.ready[i]]
        BY <1>7, <1>13, <2>1 DEF Joins
      <3>2. i \in 2 .. Len(q.ready) /\ q.ready[i] \in Who(q.ready)
        BY <1>1, <2>0, <2>1, ListFacts
      <3> QED
        BY <1>1, <1>14, <3>1, <3>2
    <2>2. CASE i \notin 1 .. Len(q.ready)
      <3>1. i \in Len(aged) + 1 .. Len(r.ready)
        BY <1>7, <2>0, <2>2
      <3> QED
        BY <1>10, <1>13, <3>1 DEF Joins
    <2> QED
      BY <2>1, <2>2
  <1>19. Sound(r)
    <2>1. Apart(Who(r.ready), Who(r.waiting))
      BY <1>12, <1>13 DEF Joins, Apart
    <2> QED
      BY <1>9, <1>13, <1>16, <1>17, <1>18, <2>1 DEF Sound, Joins, Parts
  <1>20. Folk(r) = Image(h, Folk(q))
    <2>1. Folk(r) = Who(aged) \cup Who(rested)
      BY <1>9, <1>13 DEF Folk, Joins, Parts
    <2>2. Image(h, Folk(q)) = Image(h, Who(q.ready)) \cup Image(h, Who(w))
      BY DEF Image, Folk
    <2> QED
      BY <1>6, <1>7, <2>1, <2>2
  <1>21. Len(r.ready) >= Len(q.ready) /\ \A i \in 1 .. Len(q.ready) : r.ready[i] = h[q.ready[i]]
    <2>1. Len(q.ready) \in Nat /\ Len(woken) \in Nat
      BY <1>1, <1>9, ListFacts DEF Parts
    <2> QED
      BY <1>7, <1>13, <2>1 DEF Joins
  <1> QED
    BY <1>2, <1>19, <1>20, <1>21 DEF Became, r, h

\* The process p, once signal was sent.
Heard(p, signal) == IF p.state = "Waiting" /\ p.event = signal THEN Roused(p) ELSE p

\* What a signal does to a process.
Hears(r, p, signal) ==
    /\ r \in Pcbs /\ r.pid = p.pid /\ r.total = p.total
    /\ r.execute = p.execute /\ r.syscall = p.syscall /\ r.sleep = p.sleep
    /\ IF p.state = "Waiting" /\ p.event = signal THEN r.state = "Ready" /\ r.event = NoEvent
       ELSE r.state = p.state /\ r.event = p.event

LEMMA HeardIs == ASSUME NEW p \in Pcbs, NEW signal PROVE Hears(Heard(p, signal), p, signal)
  <1>1. CASE p.state = "Waiting" /\ p.event = signal
    <2>1. Heard(p, signal) = [p EXCEPT !.state = "Ready", !.event = NoEvent]
      BY <1>1 DEF Heard, Roused
    <2> DEFINE m == [p EXCEPT !.state = "Ready"]
    <2>2. m \in Pcbs /\ m.pid = p.pid /\ m.total = p.total /\ m.execute = p.execute
          /\ m.syscall = p.syscall /\ m.sleep = p.sleep /\ m.state = "Ready"
      BY DEF Pcbs
    <2>3. Heard(p, signal) = [m EXCEPT !.event = NoEvent]
      BY <2>1
    <2> HIDE DEF m
    <2>4. Heard(p, signal) \in Pcbs
      BY <2>2, <2>3 DEF Pcbs
    <2>5. LET r == Heard(p, signal)
          IN  /\ r.pid = p.pid /\ r.total = p.total /\ r.execute = p.execute /\ r.syscall = p.syscall
              /\ r.sleep = p.sleep /\ r.state = "Ready" /\ r.event = NoEvent
      BY <2>2, <2>3 DEF Pcbs
    <2> QED
      BY <1>1, <2>4, <2>5 DEF Hears
  <1>2. CASE ~(p.state = "Waiting" /\ p.event = signal)
    <2>1. Heard(p, signal) = p
      BY <1>2 DEF Heard
    <2> QED
      BY <1>2, <2>1 DEF Hears
  <1> QED
    BY <1>1, <1>2

Signalled(q, signal) == [p \in Folk(q) |-> Heard(p, signal)]

LEMMA SignalledKeepsUse == ASSUME NEW q, Sound(q), NEW signal PROVE KeepsUse(Signalled(q, signal), Folk(q))
  <1>1. \A p \in Folk(q) : p \in Pcbs /\ Hears(Heard(p, signal), p, signal) /\ Signalled(q, signal)[p] = Heard(p, signal)
    BY SoundFolk, HeardIs DEF Signalled
  <1>2. Signalled(q, signal) \in [Folk(q) -> Pcbs]
    BY <1>1 DEF Signalled, Hears
  <1>3. \A p \in Folk(q) : Cost(Signalled(q, signal)[p]) = Cost(p) /\ Signalled(q, signal)[p].pid = p.pid
    BY <1>1 DEF Hears, Cost
  <1>4. \A p, r \in Folk(q) : Signalled(q, signal)[p] = Signalled(q, signal)[r] => p = r
    BY <1>3, SoundFolk
  <1> QED
    BY <1>2, <1>3, <1>4 DEF KeepsUse

LEMMA SignalIsHeard ==
    ASSUME NEW q, Sound(q), NEW signal \in Events
    PROVE  Became(UpdateWaiting(q, signal), q, Signalled(q, signal))
  <1> DEFINE w == q.waiting
             hears == {i \in DOMAIN w : w[i].event = signal}
             woken == Only(w, hears)
             rest == Only(w, DOMAIN w \ hears)
             up == [i \in DOMAIN woken |-> Roused(woken[i])]
             r == UpdateWaiting(q, signal)
             h == Signalled(q, signal)
  <1>0. r = [ready |-> q.ready \o up, waiting |-> rest]
    BY DEF UpdateWaiting
  <1>1. /\ List(q.ready) /\ List(w) /\ Apart(Who(q.ready), Who(w))
        /\ \A p \in Who(q.ready) : Settled(p)
        /\ \A i \in 2 .. Len(q.ready) : IsReady(q.ready[i])
        /\ \A p \in Who(w) : Absent(p)
    BY DEF Sound
  <1>2. KeepsUse(h, Folk(q))
    BY SignalledKeepsUse
  <1>3. \A p \in Folk(q) : p \in Pcbs /\ h[p] = Heard(p, signal) /\ Hears(h[p], p, signal)
    BY SoundFolk, HeardIs DEF Signalled
  <1>4. DOMAIN w = 1 .. Len(w) /\ hears \in SUBSET (1 .. Len(w))
        /\ DOMAIN w \ hears = (1 .. Len(w)) \ hears
    BY <1>1, ListFacts
  <1>5. Parts(woken, rest, w, hears)
    <2>1. rest = Only(w, (1 .. Len(w)) \ hears)
      BY <1>4
    <2> HIDE DEF hears
    <2> QED
      BY <1>1, <1>4, <2>1, Parted
  <1>6. \A p \in Who(woken) : p \in Who(w) /\ p.event = signal /\ p.state = "Waiting"
    BY <1>1, <1>4, <1>5, ListFacts DEF Parts, Absent
  <1>7. \A p \in Who(rest) : p \in Who(w) /\ p.event # signal
    BY <1>1, <1>4, <1>5, ListFacts DEF Parts
  <1> HIDE DEF woken, rest, hears
  <1>8. Maps(up, [p \in Who(woken) |-> h[p]], woken)
    <2>1. \A i \in DOMAIN woken : woken[i] \in Who(woken)
      BY <1>5, ListFacts DEF Parts
    <2>2. \A p \in Who(woken) : h[p] = Roused(p)
      BY <1>3, <1>6 DEF Heard, Folk
    <2>3. \A p \in Who(woken) : h[p] \in Pcbs /\ h[p].pid = p.pid
      BY <1>3, <1>6 DEF Hears, Folk
    <2> DEFINE g == [p \in Who(woken) |-> h[p]]
    <2>4. g \in [Who(woken) -> Pcbs] /\ (\A p \in Who(woken) : g[p].pid = p.pid)
          /\ \A i \in DOMAIN woken : g[woken[i]] = Roused(woken[i])
      BY <2>1, <2>2, <2>3
    <2> HIDE DEF g, h
    <2>5. up = [i \in DOMAIN woken |-> g[woken[i]]]
      BY <2>4
    <2> QED
      BY <2>4, <2>5 DEF Maps, g
  <1> HIDE DEF up, h, r
  <1>9. List(up) /\ Len(up) = Len(woken) /\ Who(up) = Image(h, Who(woken))
    <2>1. List(up) /\ Len(up) = Len(woken) /\ Who(up) = Image([p \in Who(woken) |-> h[p]], Who(woken))
      BY <1>5, <1>8, Mapped DEF Parts
    <2> QED
      BY <2>1 DEF Image
  <1>10. \A p \in Who(woken) : Settled(h[p]) /\ IsReady(h[p])
    <2> SUFFICES ASSUME NEW p \in Who(woken) PROVE Settled(h[p]) /\ IsReady(h[p])
      OBVIOUS
    <2>1. p \in Pcbs /\ Hears(h[p], p, signal) /\ p.event = signal /\ p.state = "Waiting" /\ Absent(p)
      BY <1>1, <1>3, <1>6 DEF Folk
    <2>2. p.sleep \in Nat
      BY <2>1 DEF Pcbs
    <2>3. Proper => ~(p.sleep >= 1)
      BY <2>1 DEF Absent, Proper
    <2> QED
      BY <2>1, <2>2, <2>3 DEF Hears, Settled, IsReady
  <1>11. \A p \in Who(rest) : h[p] = p /\ Absent(p)
    BY <1>1, <1>3, <1>7 DEF Heard, Folk
  <1>12. \A p \in Who(q.ready) : h[p] = p
    BY <1>1, <1>3 DEF Heard, Folk, Settled
  <1>13. Apart(Who(q.ready), Who(up)) /\ Apart(Who(q.ready), Who(rest)) /\ Apart(Who(up), Who(rest))
    <2>1. \A p \in Who(woken) : h[p].pid = p.pid
      BY <1>3, <1>6 DEF Hears, Folk
    <2>2. Apart(Who(woken), Who(rest))
      BY <1>5 DEF Parts
    <2> QED
      BY <1>1, <1>6, <1>7, <1>9, <2>1, <2>2 DEF Apart, Image
  <1>14. Joins(r.ready, q.ready, up) /\ r.waiting = rest /\ r = [ready |-> r.ready, waiting |-> r.waiting]
    <2>1. r.ready = q.ready \o up /\ r.waiting = rest
      BY <1>0
    <2> QED
      BY <1>0, <1>1, <1>9, <1>13, <2>1, Joined
  <1>15. \A p \in Who(r.ready) : Settled(p)
    BY <1>1, <1>9, <1>10, <1>14 DEF Joins, Image
  <1>16. \A p \in Who(r.waiting) : Absent(p)
    BY <1>11, <1>14
  <1>17. \A i \in 2 .. Len(r.ready) : IsReady(r.ready[i])
    <2> SUFFICES ASSUME NEW i \in 2 .. Len(r.ready) PROVE IsReady(r.ready[i])
      OBVIOUS
    <2>0. Len(r.ready) \in Nat /\ Len(q.ready) \in Nat
      BY <1>1, <1>14, ListFacts DEF Joins
    <2>1. CASE i \in 1 .. Len(q.ready)
      <3>1. r.ready[i] = q.ready[i] /\ i \in 2 .. Len(q.ready)
        BY <1>14, <2>0, <2>1 DEF Joins
      <3> QED
        BY <1>1, <3>1
    <2>2. CASE i \notin 1 .. Len(q.ready)
      <3>1. i \in Len(q.ready) + 1 .. Len(r.ready)
        BY <2>0, <2>2
      <3> QED
        BY <1>9, <1>10, <1>14, <3>1 DEF Joins, Image
    <2> QED
      BY <2>1, <2>2
  <1>18. Sound(r)
    <2>1. Apart(Who(r.ready), Who(r.waiting))
      BY <1>13, <1>14 DEF Joins, Apart
    <2> QED
      BY <1>5, <1>14, <1>15, <1>16, <1>17, <2>1 DEF Sound, Joins, Parts
  <1>19. Folk(r) = Image(h, Folk(q))
    <2>1. Who(w) = Who(woken) \cup Who(rest)
      BY <1>5 DEF Parts
    <2>2. Image(h, Folk(q)) = Image(h, Who(q.ready)) \cup Image(h, Who(woken)) \cup Image(h, Who(rest))
      BY <2>1 DEF Image, Folk
    <2>3. Image(h, Who(q.ready)) = Who(q.ready)
      BY <1>12 DEF Image
    <2>4. Image(h, Who(rest)) = Who(rest)
      BY <1>11 DEF Image
    <2>5. Folk(r) = Who(q.ready) \cup Who(up) \cup Who(rest)
      BY <1>14 DEF Folk, Joins
    <2> QED
      BY <1>9, <2>2, <2>3, <2>4, <2>5
  <1>20. Len(r.ready) >= Len(q.ready) /\ \A i \in 1 .. Len(q.ready) : r.ready[i] = h[q.ready[i]]
    <2>1. Len(q.ready) \in Nat /\ Len(up) \in Nat /\ \A i \in 1 .. Len(q.ready) : q.ready[i] \in Who(q.ready)
      BY <1>1, <1>9, ListFacts
    <2> QED
      BY <1>12, <1>14, <2>1 DEF Joins
  <1> QED
    BY <1>2, <1>18, <1>19, <1>20 DEF Became, r, h

\* Nobody in q runs.
Still(q) == Sound(q) /\ \A i \in 1 .. Len(q.ready) : IsReady(q.ready[i])

\* r is q with p as well, in the queue that suits it.
Adds(r, q, p) ==
    /\ Sound(r) /\ Folk(r) = Folk(q) \cup {p}
    /\ \A s \in Folk(q) : s.pid # p.pid

LEMMA HeadTaken ==
    ASSUME NEW q, Sound(q), q.ready # <<>>
    PROVE  /\ Still([q EXCEPT !.ready = Tail(@)])
           /\ Adds(q, [q EXCEPT !.ready = Tail(@)], Head(q.ready))
           /\ Head(q.ready) \in Pcbs /\ Settled(Head(q.ready))
           /\ q.ready[1] = Head(q.ready) /\ Len(q.ready) \in Nat \ {0}
  <1> DEFINE r == [q EXCEPT !.ready = Tail(@)]
             h == Head(q.ready)
  <1>0. q = [ready |-> q.ready, waiting |-> q.waiting]
    BY DEF Sound
  <1>1. r = [ready |-> Tail(q.ready), waiting |-> q.waiting]
    <2> DEFINE f == Tail(q.ready)
    <2>1. r = [q EXCEPT !.ready = f]
      BY Zenon
    <2> HIDE DEF f, r
    <2>2. r = [ready |-> f, waiting |-> q.waiting]
      BY <1>0, <2>1
    <2> QED
      BY <2>2 DEF f
  <1>2. r.ready = Tail(q.ready) /\ r.waiting = q.waiting /\ r = [ready |-> r.ready, waiting |-> r.waiting]
    BY <1>1
  <1> HIDE DEF r
  <1>3. /\ Len(q.ready) \in Nat \ {0} /\ h = q.ready[1] /\ h \in Who(q.ready) /\ h \in Pcbs
        /\ List(r.ready) /\ Who(r.ready) = Who(q.ready) \ {h} /\ Len(r.ready) = Len(q.ready) - 1
        /\ (\A i \in 1 .. Len(r.ready) : r.ready[i] = q.ready[i + 1])
        /\ Apart({h}, Who(r.ready))
    BY <1>2, TailIs DEF Sound
  <1> HIDE DEF h
  <1>4. \A i \in 1 .. Len(r.ready) : IsReady(r.ready[i])
    <2> SUFFICES ASSUME NEW i \in 1 .. Len(r.ready) PROVE IsReady(r.ready[i])
      OBVIOUS
    <2>1. i + 1 \in 2 .. Len(q.ready) /\ r.ready[i] = q.ready[i + 1]
      BY <1>3
    <2> QED
      BY <2>1 DEF Sound
  <1>5. \A i \in 2 .. Len(r.ready) : IsReady(r.ready[i])
    BY <1>4
  <1>6. Sound(r)
    BY <1>2, <1>3, <1>5 DEF Sound, Apart
  <1>7. Folk(q) = Folk(r) \cup {h} /\ \A s \in Folk(r) : s.pid # h.pid
    BY <1>2, <1>3 DEF Folk, Sound, Apart
  <1>8. Settled(h)
    BY <1>3 DEF Sound
  <1> QED
    BY <1>3, <1>4, <1>6, <1>7, <1>8 DEF Still, Adds, r, h

LEMMA PutInFront ==
    ASSUME NEW q, Still(q), NEW p \in Pcbs, Settled(p), \A s \in Folk(q) : s.pid # p.pid
    PROVE  /\ Adds([q EXCEPT !.ready = <<p>> \o @], q, p)
           /\ Len([q EXCEPT !.ready = <<p>> \o @].ready) \in Nat \ {0}
           /\ [q EXCEPT !.ready = <<p>> \o @].ready[1] = p
  <1> DEFINE r == [q EXCEPT !.ready = <<p>> \o @]
  <1>0. q = [ready |-> q.ready, waiting |-> q.waiting]
    BY DEF Still, Sound
  <1>1. r = [ready |-> <<p>> \o q.ready, waiting |-> q.waiting]
    <2> DEFINE f == <<p>> \o q.ready
    <2>1. r = [q EXCEPT !.ready = f]
      BY Zenon
    <2> HIDE DEF f, r
    <2>2. r = [ready |-> f, waiting |-> q.waiting]
      BY <1>0, <2>1
    <2> QED
      BY <2>2 DEF f
  <1>2. r.ready = <<p>> \o q.ready /\ r.waiting = q.waiting /\ r = [ready |-> r.ready, waiting |-> r.waiting]
    BY <1>1
  <1> HIDE DEF r
  <1>3. List(<<p>>) /\ Who(<<p>>) = {p} /\ Len(<<p>>) = 1 /\ <<p>>[1] = p
    BY OneList
  <1>4. Apart({p}, Who(q.ready)) /\ Apart({p}, Who(q.waiting))
    BY DEF Apart, Folk
  <1>5. List(q.ready) /\ List(q.waiting) /\ Apart(Who(q.ready), Who(q.waiting))
    BY DEF Still, Sound
  <1>6. Joins(r.ready, <<p>>, q.ready)
    BY <1>2, <1>3, <1>4, <1>5, Joined
  <1>7. Len(q.ready) \in Nat
    BY <1>5, ListFacts
  <1>8. Len(r.ready) = 1 + Len(q.ready) /\ r.ready[1] = p /\ \A i \in 1 .. Len(q.ready) : r.ready[1 + i] = q.ready[i]
    BY <1>3, <1>6 DEF Joins
  <1>9. \A i \in 2 .. Len(r.ready) : IsReady(r.ready[i])
    <2> SUFFICES ASSUME NEW i \in 2 .. Len(r.ready) PROVE IsReady(r.ready[i])
      OBVIOUS
    <2>1. i - 1 \in 1 .. Len(q.ready) /\ 1 + (i - 1) = i
      BY <1>7, <1>8
    <2>2. r.ready[i] = q.ready[i - 1]
      BY <1>8, <2>1
    <2> QED
      BY <2>1, <2>2 DEF Still
  <1>10. List(r.ready) /\ Who(r.ready) = {p} \cup Who(q.ready)
    BY <1>3, <1>6 DEF Joins
  <1>11. Sound(r)
    BY <1>2, <1>4, <1>5, <1>9, <1>10 DEF Still, Sound, Apart
  <1>12. Folk(r) = Folk(q) \cup {p}
    BY <1>2, <1>10 DEF Folk
  <1>13. Adds(r, q, p) /\ Len(r.ready) \in Nat \ {0} /\ r.ready[1] = p
    BY <1>7, <1>8, <1>11, <1>12 DEF Adds
  <1> QED
    BY <1>13 DEF r

LEMMA PutBehind ==
    ASSUME NEW q, Sound(q), NEW p \in Pcbs, Settled(p), IsReady(p), \A s \in Folk(q) : s.pid # p.pid
    PROVE  /\ Adds([q EXCEPT !.ready = Append(@, p)], q, p)
           /\ Still(q) => Still([q EXCEPT !.ready = Append(@, p)])
           /\ Len([q EXCEPT !.ready = Append(@, p)].ready) = Len(q.ready) + 1
           /\ \A i \in 1 .. Len(q.ready) : [q EXCEPT !.ready = Append(@, p)].ready[i] = q.ready[i]
  <1> DEFINE r == [q EXCEPT !.ready = Append(@, p)]
  <1>1. r = [ready |-> Append(q.ready, p), waiting |-> q.waiting]
    <2> DEFINE f == Append(q.ready, p)
    <2>0. q = [ready |-> q.ready, waiting |-> q.waiting]
      BY DEF Sound
    <2>1. r = [q EXCEPT !.ready = f]
      BY Zenon
    <2> HIDE DEF f, r
    <2>2. r = [ready |-> f, waiting |-> q.waiting]
      BY <2>0, <2>1
    <2> QED
      BY <2>2 DEF f
  <1>2. r.ready = Append(q.ready, p) /\ r.waiting = q.waiting /\ r = [ready |-> r.ready, waiting |-> r.waiting]
    BY <1>1
  <1> HIDE DEF r
  <1>3. List(q.ready) /\ List(q.waiting) /\ Apart(Who(q.ready), Who(q.waiting))
    BY DEF Sound
  <1>4. Apart(Who(q.ready), {p}) /\ Apart({p}, Who(q.waiting))
    BY DEF Apart, Folk
  <1>5. /\ List(r.ready) /\ Who(r.ready) = Who(q.ready) \cup {p} /\ Len(r.ready) = Len(q.ready) + 1
        /\ \A i \in 1 .. Len(q.ready) : r.ready[i] = q.ready[i]
        /\ r.ready[Len(q.ready) + 1] = p
    BY <1>2, <1>3, <1>4, Appended
  <1>6. Len(q.ready) \in Nat
    BY <1>3, ListFacts
  <1>7. \A i \in 1 .. Len(r.ready) : r.ready[i] = p \/ (i \in 1 .. Len(q.ready) /\ r.ready[i] = q.ready[i])
    BY <1>5, <1>6
  <1>8. \A i \in 2 .. Len(r.ready) : IsReady(r.ready[i])
    <2> SUFFICES ASSUME NEW i \in 2 .. Len(r.ready) PROVE IsReady(r.ready[i])
      OBVIOUS
    <2>1. i \in 1 .. Len(r.ready)
      OBVIOUS
    <2> QED
      BY <1>7, <2>1 DEF Sound
  <1>9. Sound(r)
    BY <1>2, <1>3, <1>4, <1>5, <1>8 DEF Sound, Apart
  <1>10. Still(q) => Still(r)
    BY <1>7, <1>9 DEF Still
  <1>11. Folk(r) = Folk(q) \cup {p}
    BY <1>2, <1>5 DEF Folk
  <1> QED
    BY <1>5, <1>9, <1>10, <1>11 DEF Adds, r

LEMMA PutToWait ==
    ASSUME NEW q, Sound(q), NEW p \in Pcbs, Absent(p), \A s \in Folk(q) : s.pid # p.pid
    PROVE  /\ Adds([q EXCEPT !.waiting = Append(@, p)], q, p)
           /\ [q EXCEPT !.waiting = Append(@, p)].ready = q.ready
  <1> DEFINE r == [q EXCEPT !.waiting = Append(@, p)]
  <1>1. r = [ready |-> q.ready, waiting |-> Append(q.waiting, p)]
    <2> DEFINE f == Append(q.waiting, p)
    <2>0. q = [ready |-> q.ready, waiting |-> q.waiting]
      BY DEF Sound
    <2>1. r = [q EXCEPT !.waiting = f]
      BY Zenon
    <2> HIDE DEF f, r
    <2>2. r = [ready |-> q.ready, waiting |-> f]
      BY <2>0, <2>1
    <2> QED
      BY <2>2 DEF f
  <1>2. r.ready = q.ready /\ r.waiting = Append(q.waiting, p) /\ r = [ready |-> r.ready, waiting |-> r.waiting]
    BY <1>1
  <1> HIDE DEF r
  <1>3. List(q.ready) /\ List(q.waiting) /\ Apart(Who(q.ready), Who(q.waiting))
    BY DEF Sound
  <1>4. Apart(Who(q.ready), {p}) /\ Apart(Who(q.waiting), {p})
    BY DEF Apart, Folk
  <1>5. List(r.waiting) /\ Who(r.waiting) = Who(q.waiting) \cup {p}
    BY <1>2, <1>3, <1>4, Appended
  <1>6. Sound(r)
    BY <1>2, <1>3, <1>4, <1>5 DEF Sound, Apart
  <1>7. Folk(r) = Folk(q) \cup {p}
    BY <1>2, <1>5 DEF Folk
  <1> QED
    BY <1>2, <1>6, <1>7 DEF Adds, r

\* The ready processes of q in another order.
Rearranged(r, q) == r = [q EXCEPT !.ready = r.ready] /\ Gathers(r.ready, q.ready, 1 .. Len(q.ready))

LEMMA RearrangedIs ==
    ASSUME NEW q, Still(q), NEW r, Rearranged(r, q)
    PROVE  Still(r) /\ Folk(r) = Folk(q) /\ Len(r.ready) = Len(q.ready)
  <1>1. r = [ready |-> r.ready, waiting |-> q.waiting]
    BY DEF Rearranged, Still, Sound
  <1>2. r.waiting = q.waiting
    BY <1>1
  <1>3. List(r.ready) /\ Len(r.ready) = Cardinality(1 .. Len(q.ready)) /\ Who(r.ready) = Who(q.ready)
    BY DEF Rearranged, Gathers, Who
  <1>4. Len(q.ready) \in Nat
    BY ListFacts DEF Still, Sound
  <1>5. Len(r.ready) = Len(q.ready)
    <2>1. \A n \in Nat : Cardinality(1 .. n) = n
      BY FS_Interval
    <2> QED
      BY <1>3, <1>4, <2>1
  <1>6. \A i \in 1 .. Len(r.ready) : IsReady(r.ready[i])
    <2>1. \A p \in Who(q.ready) : IsReady(p)
      BY DEF Still, Who
    <2> QED
      BY <1>3, <2>1, ListFacts
  <1>7. \A i \in 2 .. Len(r.ready) : IsReady(r.ready[i])
    BY <1>6
  <1>8. Sound(r)
    BY <1>1, <1>2, <1>3, <1>7 DEF Sound, Still
  <1> QED
    BY <1>2, <1>3, <1>5, <1>6, <1>8 DEF Still, Folk

\* The process p, in another state.
Turned(p, state) == [p EXCEPT !.state = state]

LEMMA TurnedIs ==
    ASSUME NEW p \in Pcbs, NEW state \in {"Ready", "Running"}
    PROVE  /\ Turned(p, state) \in Pcbs /\ Turned(p, state).pid = p.pid /\ Turned(p, state).total = p.total
           /\ Turned(p, state).execute = p.execute /\ Turned(p, state).syscall = p.syscall
           /\ Turned(p, state).sleep = p.sleep /\ Turned(p, state).event = p.event
           /\ Turned(p, state).state = state
           /\ Cost(Turned(p, state)) = Cost(p)
           /\ Settled(p) => Settled(Turned(p, state))
  <1>1. /\ Turned(p, state) \in Pcbs /\ Turned(p, state).pid = p.pid /\ Turned(p, state).total = p.total
        /\ Turned(p, state).execute = p.execute /\ Turned(p, state).syscall = p.syscall
        /\ Turned(p, state).sleep = p.sleep /\ Turned(p, state).event = p.event
        /\ Turned(p, state).state = state
    BY DEF Turned, Pcbs
  <1> QED
    BY <1>1 DEF Cost, Settled

\* What q is without its first ready process.
Rest(q) == [q EXCEPT !.ready = Tail(@)]

LEMMA PreemptedIs ==
    ASSUME NEW q, Sound(q), q.ready # <<>>
    PROVE  /\ Still(Preempted(q))
           /\ Adds(Preempted(q), Rest(q), Turned(Head(q.ready), "Ready"))
           /\ Len(Preempted(q).ready) \in Nat \ {0}
  <1> DEFINE h == Head(q.ready)
             p == Turned(h, "Ready")
             m == Rest(q)
             r == [m EXCEPT !.ready = Append(@, p)]
  <1>1. Still(m) /\ Adds(q, m, h) /\ h \in Pcbs /\ Settled(h)
    BY HeadTaken DEF Rest
  <1>2. p \in Pcbs /\ Settled(p) /\ IsReady(p) /\ \A s \in Folk(m) : s.pid # p.pid
    BY <1>1, TurnedIs DEF Adds, IsReady
  <1>3. Preempted(q) = r
    <2>0. q = [ready |-> q.ready, waiting |-> q.waiting]
      BY DEF Sound
    <2>1. m = [ready |-> Tail(q.ready), waiting |-> q.waiting]
      <3> DEFINE f == Tail(q.ready)
      <3>1. m = [q EXCEPT !.ready = f]
        BY Zenon DEF Rest
      <3> HIDE DEF f, h, p, m, r
      <3>2. m = [ready |-> f, waiting |-> q.waiting]
        BY <2>0, <3>1
      <3> QED
        BY <3>2 DEF f
    <2>2. Tail(q.ready) \in Seq(Pcbs)
      BY <1>1, <2>1, ListFacts DEF Still, Sound
    <2>3. Append(Tail(q.ready), p) = Tail(q.ready) \o <<p>>
      BY <1>2, <2>2, AppendIsConcat
    <2> DEFINE a == Tail(q.ready) \o <<p>>
    <2>4. Preempted(q) = [q EXCEPT !.ready = a]
      BY Zenon DEF Preempted, Turned
    <2>5. r = [m EXCEPT !.ready = Append(m.ready, p)]
      BY Zenon
    <2>6. m.ready = Tail(q.ready) /\ m.waiting = q.waiting
      BY <2>1
    <2>7. r = [m EXCEPT !.ready = a]
      BY <2>3, <2>5, <2>6
    <2> HIDE DEF a, r, m
    <2>8. r = [ready |-> a, waiting |-> q.waiting]
      BY <2>1, <2>7
    <2> QED
      BY <2>0, <2>4, <2>8
  <1> HIDE DEF m, p, h
  <1>4. Still(r) /\ Adds(r, m, p) /\ Len(r.ready) = Len(m.ready) + 1
    BY <1>1, <1>2, PutBehind DEF Still
  <1>5. Len(m.ready) \in Nat
    BY <1>1, ListFacts DEF Still, Sound
  <1> HIDE DEF r
  <1>6. Len(r.ready) \in Nat \ {0}
    BY <1>4, <1>5
  <1> QED
    BY <1>3, <1>4, <1>6 DEF m, p, h

\* The first ready process of q runs.
FirstRuns(q) == [q EXCEPT !.ready[1].state = "Running"]

LEMMA FirstRunsIs ==
    ASSUME NEW q, Still(q), q.ready # <<>>
    PROVE  /\ Adds(FirstRuns(q), Rest(q), Turned(Head(q.ready), "Running"))
           /\ Len(FirstRuns(q).ready) \in Nat \ {0}
           /\ FirstRuns(q).ready[1] = Turned(Head(q.ready), "Running")
  <1> DEFINE h == Head(q.ready)
             p == Turned(h, "Running")
             m == Rest(q)
             r == [m EXCEPT !.ready = <<p>> \o @]
  <1>1. Still(m) /\ Adds(q, m, h) /\ h \in Pcbs /\ Settled(h) /\ q.ready[1] = h /\ Len(q.ready) \in Nat \ {0}
    BY HeadTaken DEF Rest, Still
  <1>2. p \in Pcbs /\ Settled(p) /\ \A s \in Folk(m) : s.pid # p.pid
    BY <1>1, TurnedIs DEF Adds
  <1>3. FirstRuns(q) = r
    <2>0. q = [ready |-> q.ready, waiting |-> q.waiting]
      BY DEF Still, Sound
    <2>1. m = [ready |-> Tail(q.ready), waiting |-> q.waiting]
      <3> DEFINE f == Tail(q.ready)
      <3>1. m = [q EXCEPT !.ready = f]
        BY Zenon DEF Rest
      <3> HIDE DEF f, h, p, m, r
      <3>2. m = [ready |-> f, waiting |-> q.waiting]
        BY <2>0, <3>1
      <3> QED
        BY <3>2 DEF f
    <2>2. Tail(q.ready) \in Seq(Pcbs) /\ q.ready \in Seq(Pcbs) /\ 1 \in 1 .. Len(q.ready)
      BY <1>1, <2>1, ListFacts DEF Still, Sound
    <2> DEFINE a == [q.ready EXCEPT ![1] = p]
               b == <<p>> \o Tail(q.ready)
    <2>3. a = b
      <3>1. a \in Seq(Pcbs) /\ Len(a) = Len(q.ready)
            /\ \A j \in 1 .. Len(q.ready) : a[j] = IF j = 1 THEN p ELSE q.ready[j]
        BY <1>2, <2>2, ExceptSeq
      <3>2. Len(Tail(q.ready)) = Len(q.ready) - 1
            /\ \A i \in 1 .. Len(Tail(q.ready)) : Tail(q.ready)[i] = q.ready[i + 1]
        BY <2>2, HeadTailProperties
      <3>3. <<p>> \in Seq(Pcbs) /\ Len(<<p>>) = 1 /\ <<p>>[1] = p
        BY <1>2, OneList DEF List
      <3>4. b \in Seq(Pcbs) /\ Len(b) = Len(<<p>>) + Len(Tail(q.ready))
            /\ \A i \in 1 .. Len(<<p>>) + Len(Tail(q.ready)) :
                   b[i] = IF i <= Len(<<p>>) THEN <<p>>[i] ELSE Tail(q.ready)[i - Len(<<p>>)]
        BY <2>2, <3>3, ConcatProperties
      <3> HIDE DEF a, b
      <3>5. Len(b) = Len(a)
        BY <1>1, <3>1, <3>2, <3>3, <3>4
      <3>6. \A i \in 1 .. Len(a) : a[i] = b[i]
        <4> SUFFICES ASSUME NEW i \in 1 .. Len(a) PROVE a[i] = b[i]
          OBVIOUS
        <4>1. CASE i = 1
          BY <1>1, <3>1, <3>2, <3>3, <3>4, <4>1
        <4>2. CASE i # 1
          <5>1. i - 1 \in 1 .. Len(Tail(q.ready)) /\ ~(i <= 1) /\ (i - 1) + 1 = i
            BY <1>1, <3>1, <3>2, <4>2
          <5>2. b[i] = Tail(q.ready)[i - 1]
            BY <1>1, <3>1, <3>2, <3>3, <3>4, <5>1
          <5>3. Tail(q.ready)[i - 1] = q.ready[i]
            BY <3>2, <5>1
          <5> QED
            BY <3>1, <4>2, <5>2, <5>3
        <4> QED
          BY <4>1, <4>2
      <3> QED
        BY <3>1, <3>4, <3>5, <3>6, SeqEqual
    <2>4. FirstRuns(q) = [q EXCEPT !.ready = a]
      <3>1. FirstRuns(q) = [q EXCEPT !.ready = [q.ready EXCEPT ![1] = [q.ready[1] EXCEPT !.state = "Running"]]]
        BY DEF FirstRuns
      <3> QED
        BY <1>1, <3>1 DEF Turned
    <2>5. r = [m EXCEPT !.ready = <<p>> \o m.ready]
      BY Zenon
    <2>6. m.ready = Tail(q.ready) /\ m.waiting = q.waiting
      BY <2>1
    <2>7. r = [m EXCEPT !.ready = b]
      BY <2>5, <2>6
    <2> HIDE DEF a, b, r, m
    <2>8. r = [ready |-> b, waiting |-> q.waiting]
      BY <2>1, <2>7
    <2>9. FirstRuns(q) = [ready |-> a, waiting |-> q.waiting]
      BY <2>0, <2>4
    <2> QED
      BY <2>3, <2>8, <2>9
  <1> HIDE DEF m, p, h
  <1>4. Adds(r, m, p) /\ Len(r.ready) \in Nat \ {0} /\ r.ready[1] = p
    BY <1>1, <1>2, PutInFront
  <1> QED
    BY <1>3, <1>4 DEF m, p, h

-----------------------------------------------------------------------------
(* The accounts *)

\* The processes of q were created before the n-th, at the times b, and are now as old as that.
Tally(q, now, n, b) ==
    /\ Sound(q)
    /\ \A p \in Folk(q) : p.pid \in 1 .. n - 1 /\ p.total = now - b[p.pid]

UsedBy(q) == TimeUsed(Folk(q))

LEMMA UsedByIsInt == ASSUME NEW q, Sound(q) PROVE UsedBy(q) \in Int
  BY SoundFolk, TimeUsedIsInt DEF UsedBy

LEMMA TallyLater ==
    ASSUME NEW q, NEW now \in Nat, NEW n \in Nat, NEW b \in [Pids -> Nat], n <= MaxPid + 1,
           Tally(q, now, n, b), NEW t \in Nat
    PROVE  /\ Tally(ActualiseTimings(q, t), now + t, n, b)
           /\ UsedBy(ActualiseTimings(q, t)) = UsedBy(q)
  <1> DEFINE r == ActualiseTimings(q, t)
             h == After(q, t)
  <1>1. Became(r, q, h) /\ Folk(q) \in SUBSET Pcbs /\ IsFiniteSet(Folk(q))
    BY TimePasses, SoundFolk DEF Tally
  <1>2. \A p \in Folk(q) : h[p].pid = p.pid /\ h[p].total = p.total + t
    <2>1. \A p \in Folk(q) : h[p] = Elapsed(p, t) /\ Later(Elapsed(p, t), p, t)
      BY <1>1, ElapsedIs DEF After
    <2> QED
      BY <2>1 DEF Later
  <1> HIDE DEF r, h
  <1>3. UsedBy(r) = UsedBy(q)
    BY <1>1, SameUsed DEF Became, UsedBy
  <1>4. ASSUME NEW p \in Folk(q) PROVE h[p].pid \in 1 .. n - 1 /\ h[p].total = (now + t) - b[h[p].pid]
    <2>1. p.pid \in 1 .. n - 1 /\ p.total = now - b[p.pid] /\ h[p].pid = p.pid /\ h[p].total = p.total + t
      BY <1>2 DEF Tally
    <2>2. p.pid \in Pids
      BY <2>1, QueuesAssumption DEF Pids
    <2>3. b[p.pid] \in Nat
      BY <2>2
    <2>4. p.total + t = (now + t) - b[p.pid]
      BY <2>1, <2>3
    <2> QED
      BY <2>1, <2>4
  <1>5. \A p \in Folk(r) : p.pid \in 1 .. n - 1 /\ p.total = (now + t) - b[p.pid]
    BY <1>1, <1>4 DEF Became, Image
  <1> QED
    BY <1>1, <1>3, <1>5 DEF Tally, Became, r

LEMMA TallyHeard ==
    ASSUME NEW q, NEW now, NEW n, NEW b, Tally(q, now, n, b), NEW signal \in Events
    PROVE  /\ Tally(UpdateWaiting(q, signal), now, n, b)
           /\ UsedBy(UpdateWaiting(q, signal)) = UsedBy(q)
  <1> DEFINE r == UpdateWaiting(q, signal)
             h == Signalled(q, signal)
  <1>1. Became(r, q, h) /\ Folk(q) \in SUBSET Pcbs /\ IsFiniteSet(Folk(q))
    BY SignalIsHeard, SoundFolk DEF Tally
  <1>2. \A p \in Folk(q) : h[p].pid = p.pid /\ h[p].total = p.total
    <2>1. \A p \in Folk(q) : h[p] = Heard(p, signal) /\ Hears(Heard(p, signal), p, signal)
      BY <1>1, HeardIs DEF Signalled
    <2> QED
      BY <2>1 DEF Hears
  <1> HIDE DEF r, h
  <1>3. UsedBy(r) = UsedBy(q)
    BY <1>1, SameUsed DEF Became, UsedBy
  <1>4. \A p \in Folk(q) : h[p].pid \in 1 .. n - 1 /\ h[p].total = now - b[h[p].pid]
    BY <1>2 DEF Tally
  <1>5. \A p \in Folk(r) : p.pid \in 1 .. n - 1 /\ p.total = now - b[p.pid]
    BY <1>1, <1>4 DEF Became, Image
  <1> QED
    BY <1>1, <1>3, <1>5 DEF Tally, Became, r

LEMMA TallyOneMore ==
    ASSUME NEW q, NEW now, NEW n, NEW b, Tally(q, now, n, b), NEW p \in Pcbs, NEW r, Adds(r, q, p),
           p.pid \in 1 .. n - 1, p.total = now - b[p.pid]
    PROVE  Tally(r, now, n, b) /\ UsedBy(r) = UsedBy(q) + Cost(p)
  <1>1. Folk(q) \in SUBSET Pcbs /\ IsFiniteSet(Folk(q)) /\ p \notin Folk(q) /\ Folk(r) = Folk(q) \cup {p}
    BY SoundFolk DEF Tally, Adds
  <1>2. UsedBy(r) = UsedBy(q) + Cost(p)
    BY <1>1, OneMoreUsed DEF UsedBy
  <1> QED
    BY <1>1, <1>2 DEF Tally, Adds

Without(q, r, p, now, n, b) ==
    /\ Tally(q, now, n, b) /\ UsedBy(r) = UsedBy(q) + Cost(p)
    /\ p.pid \in 1 .. n - 1 /\ p.total = now - b[p.pid]

LEMMA TallyOneLess ==
    ASSUME NEW q, Sound(q), NEW now, NEW n, NEW b, NEW p \in Pcbs, NEW r, Adds(r, q, p), Tally(r, now, n, b)
    PROVE  Without(q, r, p, now, n, b)
  <1>1. Folk(q) \in SUBSET Pcbs /\ IsFiniteSet(Folk(q)) /\ p \notin Folk(q) /\ Folk(r) = Folk(q) \cup {p}
    BY SoundFolk DEF Adds
  <1>2. UsedBy(r) = UsedBy(q) + Cost(p)
    BY <1>1, OneMoreUsed DEF UsedBy
  <1> QED
    BY <1>1, <1>2 DEF Tally, Without

-----------------------------------------------------------------------------
(* stop() *)

CountersOK ==
    /\ remaining \in 0 .. MaxSlice /\ next_pid \in 1 .. MaxPid + 1
    /\ sleep \in BOOLEAN /\ sleep_time \in Nat
    /\ clock \in Nat /\ idle \in Nat /\ gone \in Nat
    /\ born \in [Pids -> Nat]

Fresh == ready = <<>> /\ waiting = <<>> /\ next_pid = 1 /\ clock = 0 /\ born[1] = 0

\* The inductive invariant.
Inv ==
    /\ CountersOK
    /\ Tally(Queues, clock, next_pid, born)
    /\ clock = idle + gone + UsedBy(Queues)
    /\ decision.kind = "Start" => Fresh
    /\ decision.kind = "Run" => FrontRuns(Queues)

LEMMA NextQueues ==
    ASSUME NEW q, Sound(q), NEW now, Become(q, now)
    PROVE  Queues' = q /\ clock' = now /\ ready' = q.ready /\ waiting' = q.waiting
  <1>1. ready' = q.ready /\ waiting' = q.waiting /\ clock' = now
    BY DEF Become
  <1>2. Queues' = [ready |-> q.ready, waiting |-> q.waiting]
    BY <1>1 DEF Queues
  <1> QED
    BY <1>1, <1>2 DEF Sound

LEMMA StopKeepsInv ==
    ASSUME Inv, NEW q, NEW t \in Nat, NEW left \in 0 .. MaxSlice, Stops(q, t, left),
           next_pid' \in 1 .. MaxPid + 1, born' \in [Pids -> Nat], gone' \in Nat,
           Tally(q, clock + t, next_pid', born'),
           clock + t = idle + gone' + UsedBy(q)
    PROVE  Inv'
  <1>1. Queues' = q /\ clock' = clock + t
    BY NextQueues DEF Stops, Tally
  <1>2. remaining' = left /\ sleep' = sleep /\ sleep_time' = sleep_time /\ idle' = idle
        /\ decision' = Plain("Stopped")
    BY DEF Stops
  <1>3. decision'.kind = "Stopped"
    BY <1>2 DEF Plain
  <1>4. CountersOK'
    <2>1. clock + t \in Nat
      BY DEF Inv, CountersOK
    <2> QED
      BY <1>1, <1>2, <2>1 DEF Inv, CountersOK
  <1>5. Tally(Queues, clock, next_pid, born)'
    BY <1>1
  <1>6. (clock = idle + gone + UsedBy(Queues))'
    BY <1>1, <1>2
  <1> QED
    BY <1>3, <1>4, <1>5, <1>6 DEF Inv

LEMMA RunningIs ==
    ASSUME Inv, Calls
    PROVE  /\ Still(Others) /\ Adds(Queues, Others, Running)
           /\ Running \in Pcbs /\ Settled(Running) /\ Running.state = "Running"
           /\ Tally(Others, clock, next_pid, born)
           /\ UsedBy(Queues) = UsedBy(Others) + Cost(Running)
           /\ Running.pid \in 1 .. next_pid - 1 /\ Running.total = clock - born[Running.pid]
           /\ ready # <<>> /\ ready[1] = Running
  <1>1. FrontRuns(Queues) /\ Sound(Queues)
    BY DEF Inv, Calls, Tally
  <1>2. Queues.ready = ready /\ Queues.waiting = waiting
    BY DEF Queues
  <1>3. ready # <<>> /\ Running.state = "Running"
    BY <1>1, <1>2 DEF FrontRuns, Running
  <1>4. Others = [Queues EXCEPT !.ready = Tail(@)]
    BY <1>2 DEF Others
  <1>5. /\ Still(Others) /\ Adds(Queues, Others, Running) /\ Running \in Pcbs /\ Settled(Running)
        /\ ready[1] = Running
    BY <1>1, <1>2, <1>3, <1>4, HeadTaken DEF Running
  <1>6. /\ Tally(Others, clock, next_pid, born) /\ UsedBy(Queues) = UsedBy(Others) + Cost(Running)
        /\ Running.pid \in 1 .. next_pid - 1 /\ Running.total = clock - born[Running.pid]
    <2>1. Tally(Queues, clock, next_pid, born) /\ Sound(Others)
      BY <1>5 DEF Inv, Still
    <2>2. Running \in Pcbs /\ Adds(Queues, Others, Running)
      BY <1>5
    <2>3. Without(Others, Queues, Running, clock, next_pid, born)
      BY <2>1, <2>2, TallyOneLess
    <2> QED
      BY <2>3 DEF Without
  <1> QED
    BY <1>3, <1>5, <1>6

\* p is the running process, charged for its time.
Billed(p, left) ==
    /\ p \in Pcbs /\ p.pid = Running.pid /\ p.total = Running.total
    /\ p.sleep = Running.sleep /\ p.event = Running.event /\ p.state = Running.state
    /\ Cost(p) = Cost(Running) + Used(left)

\* c is a process just created.
Infant(c) ==
    /\ c \in Pcbs /\ c.pid = next_pid /\ c.total = 0 /\ c.execute = 0 /\ c.syscall = 0
    /\ c.sleep = 0 /\ c.state = "Ready" /\ c.event = NoEvent

\* p is the running process, at the end of its slice.
Expiry(p) ==
    /\ p \in Pcbs /\ p.pid = Running.pid /\ p.total = Running.total + remaining
    /\ p.sleep = Running.sleep /\ p.event = Running.event /\ p.state = "Ready"
    /\ Cost(p) = Cost(Running) + remaining

LEMMA UsedIs ==
    ASSUME Inv, NEW left \in Lefts
    PROVE  Used(left) \in Nat \ {0} /\ left \in 0 .. MaxSlice /\ remaining \in 0 .. MaxSlice /\ left \in Nat
           /\ Used(left) <= remaining
  BY QueuesAssumption DEF Inv, CountersOK, Lefts, Used

\* The running process, charged, is in front while its time passes.
Resumed(p) == [Others EXCEPT !.ready = <<p>> \o @]

LEMMA ResumedIs ==
    ASSUME Inv, Calls, NEW left \in Lefts, NEW p, Billed(p, left)
    PROVE  /\ Sound(Resumed(p)) /\ Folk(Resumed(p)) = Folk(Others) \cup {p}
           /\ Resumed(p).ready[1] = p /\ Len(Resumed(p).ready) \in Nat \ {0}
           /\ \A s \in Folk(Others) : s.pid # p.pid
           /\ Tally(Resumed(p), clock, next_pid, born)
           /\ UsedBy(Resumed(p)) = UsedBy(Queues) + Used(left)
  <1> USE DEF Billed
  <1>1. Settled(p) /\ \A s \in Folk(Others) : s.pid # p.pid
    BY RunningIs DEF Adds, Settled
  <1>2. Adds(Resumed(p), Others, p) /\ Len(Resumed(p).ready) \in Nat \ {0} /\ Resumed(p).ready[1] = p
    BY <1>1, RunningIs, PutInFront DEF Resumed
  <1>3. p.pid \in 1 .. next_pid - 1 /\ p.total = clock - born[p.pid]
    BY RunningIs
  <1>4. Tally(Resumed(p), clock, next_pid, born) /\ UsedBy(Resumed(p)) = UsedBy(Others) + Cost(p)
    BY <1>2, <1>3, RunningIs, TallyOneMore
  <1>5. UsedBy(Resumed(p)) = UsedBy(Queues) + Used(left)
    <2>1. UsedBy(Others) \in Int /\ Cost(Running) \in Int /\ Used(left) \in Int
      BY RunningIs, UsedByIsInt, CostIsInt, UsedIs DEF Still
    <2>2. Cost(p) = Cost(Running) + Used(left) /\ UsedBy(Queues) = UsedBy(Others) + Cost(Running)
      BY RunningIs
    <2> QED
      BY <1>4, <2>1, <2>2
  <1> QED
    BY <1>1, <1>2, <1>4, <1>5 DEF Adds

\* Charged, in front, and older by what it used.
Charge(p, left) == ActualiseTimings(Resumed(p), Used(left))

LEMMA ChargeIs ==
    ASSUME Inv, Calls, NEW left \in Lefts, NEW p, Billed(p, left)
    PROVE  /\ Became(Charge(p, left), Resumed(p), After(Resumed(p), Used(left)))
           /\ Tally(Charge(p, left), clock + Used(left), next_pid, born)
           /\ UsedBy(Charge(p, left)) = UsedBy(Queues) + Used(left)
  <1>1. Tally(Resumed(p), clock, next_pid, born) /\ UsedBy(Resumed(p)) = UsedBy(Queues) + Used(left)
    BY ResumedIs
  <1>2. Used(left) \in Nat /\ clock \in Nat /\ next_pid \in Nat /\ next_pid <= MaxPid + 1 /\ born \in [Pids -> Nat]
    BY UsedIs, QueuesAssumption DEF Inv, CountersOK
  <1>3. Sound(Resumed(p))
    BY <1>1 DEF Tally
  <1> QED
    BY <1>1, <1>2, <1>3, TimePasses, TallyLater DEF Charge

LEMMA TallyBorn ==
    ASSUME NEW q, NEW now \in Nat, NEW n \in Nat, n <= MaxPid, NEW b \in [Pids -> Nat],
           Tally(q, now, n, b)
    PROVE  Tally(q, now, n + 1, [b EXCEPT ![n] = now])
  <1>1. \A p \in Folk(q) : p.pid \in 1 .. (n + 1) - 1 /\ p.total = now - [b EXCEPT ![n] = now][p.pid]
    <2> SUFFICES ASSUME NEW p \in Folk(q)
                 PROVE p.pid \in 1 .. (n + 1) - 1 /\ p.total = now - [b EXCEPT ![n] = now][p.pid]
      OBVIOUS
    <2>1. p.pid \in 1 .. n - 1 /\ p.total = now - b[p.pid]
      BY DEF Tally
    <2>2. p.pid \in Pids /\ p.pid # n /\ p.pid \in 1 .. (n + 1) - 1
      BY <2>1, QueuesAssumption DEF Pids
    <2>3. [b EXCEPT ![n] = now][p.pid] = b[p.pid]
      BY <2>2
    <2> QED
      BY <2>1, <2>2, <2>3
  <1> QED
    BY <1>1 DEF Tally

\* The running process, going to sleep, or to wait.
Sleeper(p, time, used) == [p EXCEPT !.state = "Waiting", !.sleep = time, !.total = @ + used]

Waiter(p, event) == [p EXCEPT !.state = "Waiting", !.event = event]

LEMMA SleeperIs ==
    ASSUME Inv, Calls, NEW left \in Lefts, NEW p, Billed(p, left), NEW time \in SleepTimes, NEW used \in Nat
    PROVE  /\ Sleeper(p, time, used) \in Pcbs /\ Sleeper(p, time, used).pid = Running.pid
           /\ Sleeper(p, time, used).total = Running.total + used
           /\ Cost(Sleeper(p, time, used)) = Cost(p) /\ Sleeper(p, time, used).sleep = time
           /\ Sleeper(p, time, used).state = "Waiting" /\ Sleeper(p, time, used).event = p.event
           /\ Absent(Sleeper(p, time, used))
  <1> DEFINE a == [p EXCEPT !.state = "Waiting"]
             b == [a EXCEPT !.sleep = time]
             s == [b EXCEPT !.total = @ + used]
  <1>0. time \in Nat /\ p \in Pcbs /\ p.total \in Nat /\ p.total + used \in Nat
    BY QueuesAssumption DEF Billed, Pcbs
  <1>1. /\ a \in Pcbs /\ a.pid = p.pid /\ a.total = p.total /\ a.execute = p.execute /\ a.syscall = p.syscall
        /\ a.state = "Waiting" /\ a.event = p.event
    BY <1>0 DEF Pcbs
  <1> HIDE DEF a
  <1>2. /\ b \in Pcbs /\ b.pid = p.pid /\ b.total = p.total /\ b.execute = p.execute /\ b.syscall = p.syscall
        /\ b.state = "Waiting" /\ b.event = p.event /\ b.sleep = time
    BY <1>0, <1>1 DEF Pcbs
  <1> HIDE DEF b
  <1>3. /\ s \in Pcbs /\ s.pid = p.pid /\ s.total = p.total + used /\ s.execute = p.execute
        /\ s.syscall = p.syscall /\ s.state = "Waiting" /\ s.event = p.event /\ s.sleep = time
    BY <1>0, <1>2 DEF Pcbs
  <1>4. s = Sleeper(p, time, used)
    BY DEF a, b, Sleeper
  <1> HIDE DEF s
  <1>5. Absent(s)
    <2>1. Proper => s.event = NoEvent /\ s.sleep >= 1
      BY <1>0, <1>3, RunningIs DEF Proper, Settled, Billed
    <2> QED
      BY <1>3, <2>1 DEF Absent
  <1> QED
    BY <1>3, <1>4, <1>5 DEF Billed, Cost

LEMMA WaiterIs ==
    ASSUME Inv, Calls, NEW left \in Lefts, NEW p, Billed(p, left), NEW event \in Events
    PROVE  /\ Waiter(p, event) \in Pcbs /\ Waiter(p, event).pid = Running.pid
           /\ Waiter(p, event).total = Running.total /\ Cost(Waiter(p, event)) = Cost(p)
           /\ Waiter(p, event).sleep = p.sleep /\ Waiter(p, event).state = "Waiting"
           /\ Waiter(p, event).event = event /\ Absent(Waiter(p, event))
  <1> DEFINE a == [p EXCEPT !.state = "Waiting"]
             w == [a EXCEPT !.event = event]
  <1>0. p \in Pcbs
    BY DEF Billed
  <1>1. /\ a \in Pcbs /\ a.pid = p.pid /\ a.total = p.total /\ a.execute = p.execute /\ a.syscall = p.syscall
        /\ a.state = "Waiting" /\ a.sleep = p.sleep
    BY <1>0 DEF Pcbs
  <1> HIDE DEF a
  <1>2. /\ w \in Pcbs /\ w.pid = p.pid /\ w.total = p.total /\ w.execute = p.execute /\ w.syscall = p.syscall
        /\ w.state = "Waiting" /\ w.event = event /\ w.sleep = p.sleep
    BY <1>0, <1>1 DEF Pcbs
  <1>3. w = Waiter(p, event)
    BY DEF a, Waiter
  <1> HIDE DEF w
  <1>4. Absent(w)
    <2>1. Proper => w.event # NoEvent /\ w.sleep = 0
      BY <1>2, RunningIs DEF Proper, Settled, Billed
    <2> QED
      BY <1>2, <2>1 DEF Absent
  <1> QED
    BY <1>2, <1>3, <1>4 DEF Billed, Cost

\* The other processes, after a while, have other pids than the running one still.
LEMMA OthersAfter ==
    ASSUME Inv, Calls, NEW t \in Nat
    PROVE  \A x \in Folk(ActualiseTimings(Others, t)) : x.pid # Running.pid
  <1>1. Became(ActualiseTimings(Others, t), Others, After(Others, t))
    BY RunningIs, TimePasses DEF Still
  <1>2. \A p \in Folk(Others) : p \in Pcbs /\ p.pid # Running.pid
    BY RunningIs, SoundFolk DEF Adds, Still
  <1>3. \A p \in Folk(Others) : After(Others, t)[p].pid = p.pid
    BY <1>2, ElapsedIs DEF After, Later
  <1> QED
    BY <1>1, <1>2, <1>3 DEF Became, Image

LEMMA BillAddsUp ==
    ASSUME Inv, Calls, NEW left \in Lefts
    PROVE  clock + Used(left) = idle + gone + (UsedBy(Others) + (Cost(Running) + Used(left)))
  <1>1. UsedBy(Others) \in Int /\ Cost(Running) \in Int /\ Used(left) \in Int
    BY RunningIs, UsedByIsInt, CostIsInt, UsedIs DEF Still
  <1>2. clock = idle + gone + UsedBy(Queues) /\ UsedBy(Queues) = UsedBy(Others) + Cost(Running)
    BY RunningIs DEF Inv
  <1>3. idle \in Nat /\ gone \in Nat
    BY DEF Inv, CountersOK
  <1> QED
    BY <1>1, <1>2, <1>3

LEMMA ForkKeepsInv ==
    ASSUME Inv, NEW left \in Lefts, NEW p, Billed(p, left), NEW c, Infant(c), ForkBy(p, left, c)
    PROVE  Inv'
  <1> DEFINE q == Charge(p, left)
             r == [q EXCEPT !.ready = Append(@, c)]
             now == clock + Used(left)
  <1>1. /\ next_pid <= MaxPid /\ Stops(r, Used(left), left)
        /\ next_pid' = next_pid + 1 /\ born' = [born EXCEPT ![next_pid] = clock'] /\ gone' = gone
    BY DEF ForkBy, Charge, Resumed
  <1>2. Calls
    BY <1>1 DEF Stops
  <1>3. Tally(q, now, next_pid, born) /\ UsedBy(q) = UsedBy(Queues) + Used(left)
    BY <1>2, ChargeIs
  <1>4. Used(left) \in Nat /\ left \in 0 .. MaxSlice
    BY UsedIs
  <1>5. /\ now \in Nat /\ next_pid \in Nat \ {0} /\ born \in [Pids -> Nat] /\ next_pid \in Pids
        /\ idle \in Nat /\ gone \in Nat /\ clock \in Nat
    <2> HIDE DEF q, r
    <2>1. /\ next_pid \in Nat \ {0} /\ born \in [Pids -> Nat]
          /\ idle \in Nat /\ gone \in Nat /\ clock \in Nat
      BY DEF Inv, CountersOK
    <2>2. next_pid \in Pids
      BY <1>1, <2>1, QueuesAssumption DEF Pids
    <2>3. now \in Nat
      BY <1>4, <2>1
    <2> QED
      BY <2>1, <2>2, <2>3
  <1> HIDE DEF q, r, now
  <1>6. clock' = now
    BY <1>1, <1>3 DEF Stops, Become, now
  <1>7. Tally(q, now, next_pid + 1, born')
    BY <1>1, <1>3, <1>5, <1>6, TallyBorn
  <1>8. c \in Pcbs /\ Settled(c) /\ IsReady(c) /\ c.pid = next_pid /\ c.total = 0 /\ Cost(c) = 0
    BY DEF Infant, Settled, IsReady, Cost
  <1>9. Adds(r, q, c)
    <2>1. \A s \in Folk(q) : s.pid # c.pid
      BY <1>3, <1>5, <1>8 DEF Tally
    <2>2. Sound(q)
      BY <1>3 DEF Tally
    <2> QED
      BY <1>8, <2>1, <2>2, PutBehind DEF r
  <1>10. c.pid \in 1 .. (next_pid + 1) - 1 /\ c.total = now - born'[c.pid]
    <2>1. born'[next_pid] = now
      BY <1>1, <1>5, <1>6
    <2> QED
      BY <1>5, <1>8, <2>1
  <1>11. Tally(r, now, next_pid + 1, born') /\ UsedBy(r) = UsedBy(q) + Cost(c)
    BY <1>7, <1>8, <1>9, <1>10, TallyOneMore
  <1>12. now = idle + gone + UsedBy(r)
    <2>1. UsedBy(Queues) \in Int /\ clock = idle + gone + UsedBy(Queues)
      BY UsedByIsInt DEF Inv, Tally
    <2>2. UsedBy(r) = UsedBy(Queues) + Used(left)
      BY <1>3, <1>4, <1>8, <1>11, <2>1
    <2> QED
      BY <1>4, <1>5, <2>1, <2>2 DEF now
  <1>13. next_pid' \in 1 .. MaxPid + 1 /\ born' \in [Pids -> Nat] /\ gone' \in Nat
    BY <1>1, <1>5, <1>6, QueuesAssumption
  <1>14. Tally(r, clock + Used(left), next_pid', born') /\ clock + Used(left) = idle + gone' + UsedBy(r)
    BY <1>1, <1>11, <1>12 DEF now
  <1> QED
    BY <1>1, <1>4, <1>13, <1>14, StopKeepsInv

LEMMA SleepKeepsInv ==
    ASSUME Inv, NEW left \in Lefts, NEW p, Billed(p, left), NEW time \in SleepTimes, SleepBy(p, left, time)
    PROVE  Inv'
  <1> DEFINE q == ActualiseTimings(Others, Used(left))
             s == Sleeper(p, time, Used(left))
             r == [q EXCEPT !.waiting = Append(@, s)]
             now == clock + Used(left)
  <1>1. Stops(r, Used(left), remaining) /\ next_pid' = next_pid /\ born' = born /\ gone' = gone
    BY DEF SleepBy, Sleeper
  <1>2. Calls
    BY <1>1 DEF Stops
  <1>3. Used(left) \in Nat /\ remaining \in 0 .. MaxSlice
    BY UsedIs
  <1>4. /\ clock \in Nat /\ next_pid \in Nat /\ next_pid <= MaxPid + 1 /\ born \in [Pids -> Nat]
        /\ idle \in Nat /\ gone \in Nat /\ next_pid \in 1 .. MaxPid + 1
    BY QueuesAssumption DEF Inv, CountersOK
  <1>5. Tally(Others, clock, next_pid, born)
    BY <1>2, RunningIs
  <1>6. Tally(q, now, next_pid, born) /\ UsedBy(q) = UsedBy(Others)
    BY <1>3, <1>4, <1>5, TallyLater
  <1>7. /\ s \in Pcbs /\ s.pid = Running.pid /\ s.total = Running.total + Used(left) /\ Cost(s) = Cost(p)
        /\ Absent(s)
    BY <1>2, <1>3, SleeperIs
  <1> HIDE DEF q, r, s, now
  <1>8. s.pid \in 1 .. next_pid - 1 /\ s.total = now - born[s.pid]
    <2>1. Running.pid \in 1 .. next_pid - 1 /\ Running.total = clock - born[Running.pid] /\ Running.pid \in Pids
      BY <1>2, <1>4, RunningIs, QueuesAssumption DEF Pids
    <2>2. born[Running.pid] \in Nat
      BY <1>4, <2>1
    <2> QED
      BY <1>3, <1>4, <1>7, <2>1, <2>2 DEF now
  <1>9. Adds(r, q, s)
    <2>1. \A x \in Folk(q) : x.pid # s.pid
      BY <1>2, <1>3, <1>7, OthersAfter DEF q
    <2>2. Sound(q)
      BY <1>6 DEF Tally
    <2> QED
      BY <1>7, <2>1, <2>2, PutToWait DEF r
  <1>10. Tally(r, now, next_pid, born) /\ UsedBy(r) = UsedBy(q) + Cost(s)
    BY <1>6, <1>7, <1>8, <1>9, TallyOneMore
  <1>11. now = idle + gone + UsedBy(r)
    <2>1. UsedBy(r) = UsedBy(Others) + (Cost(Running) + Used(left))
      BY <1>6, <1>7, <1>10 DEF Billed
    <2> QED
      BY <1>2, <1>4, <2>1, BillAddsUp DEF now
  <1>12. Tally(r, clock + Used(left), next_pid', born') /\ clock + Used(left) = idle + gone' + UsedBy(r)
    BY <1>1, <1>10, <1>11 DEF now
  <1> QED
    BY <1>1, <1>3, <1>4, <1>12, StopKeepsInv

LEMMA SignalKeepsInv ==
    ASSUME Inv, NEW left \in Lefts, NEW p, Billed(p, left), NEW signal \in Events, SignalBy(p, left, signal)
    PROVE  Inv'
  <1> DEFINE q == Charge(p, left)
             r == UpdateWaiting(q, signal)
             now == clock + Used(left)
  <1>1. Stops(r, Used(left), left) /\ next_pid' = next_pid /\ born' = born /\ gone' = gone
    BY DEF SignalBy, Charge, Resumed
  <1>2. Calls
    BY <1>1 DEF Stops
  <1>3. Used(left) \in Nat /\ left \in 0 .. MaxSlice
    BY UsedIs
  <1>4. Tally(q, now, next_pid, born) /\ UsedBy(q) = UsedBy(Queues) + Used(left)
    BY <1>2, ChargeIs
  <1> HIDE DEF q, now
  <1>5. Tally(r, now, next_pid, born) /\ UsedBy(r) = UsedBy(q)
    BY <1>4, TallyHeard
  <1>6. /\ clock \in Nat /\ born \in [Pids -> Nat] /\ idle \in Nat /\ gone \in Nat /\ next_pid \in 1 .. MaxPid + 1
    BY DEF Inv, CountersOK
  <1>7. clock + Used(left) = idle + gone + UsedBy(r)
    <2>1. UsedBy(Queues) \in Int /\ clock = idle + gone + UsedBy(Queues)
      BY UsedByIsInt DEF Inv, Tally
    <2> QED
      BY <1>3, <1>4, <1>5, <1>6, <2>1
  <1> HIDE DEF r
  <1>8. Tally(r, clock + Used(left), next_pid', born') /\ clock + Used(left) = idle + gone' + UsedBy(r)
    BY <1>1, <1>5, <1>7 DEF now
  <1> QED
    BY <1>1, <1>3, <1>6, <1>8, StopKeepsInv

LEMMA WaitKeepsInv ==
    ASSUME Inv, NEW left \in Lefts, NEW p, Billed(p, left), NEW event \in Events, WaitBy(p, left, event)
    PROVE  Inv'
  <1> DEFINE w == Waiter(p, event)
             q == [Others EXCEPT !.waiting = Append(@, w)]
             r == ActualiseTimings(q, Used(left))
             now == clock + Used(left)
  <1>1. Stops(r, Used(left), left) /\ next_pid' = next_pid /\ born' = born /\ gone' = gone
    BY DEF WaitBy, Waiter
  <1>2. Calls
    BY <1>1 DEF Stops
  <1>3. Used(left) \in Nat /\ left \in 0 .. MaxSlice
    BY UsedIs
  <1>4. /\ clock \in Nat /\ next_pid \in Nat /\ next_pid <= MaxPid + 1 /\ born \in [Pids -> Nat]
        /\ idle \in Nat /\ gone \in Nat /\ next_pid \in 1 .. MaxPid + 1
    BY QueuesAssumption DEF Inv, CountersOK
  <1>5. w \in Pcbs /\ w.pid = Running.pid /\ w.total = Running.total /\ Cost(w) = Cost(p) /\ Absent(w)
    BY <1>2, WaiterIs
  <1> HIDE DEF q, r, w, now
  <1>6. Adds(q, Others, w)
    BY <1>2, <1>5, RunningIs, PutToWait DEF q, Adds, Still
  <1>7. Tally(q, clock, next_pid, born) /\ UsedBy(q) = UsedBy(Others) + Cost(w)
    <2>1. w.pid \in 1 .. next_pid - 1 /\ w.total = clock - born[w.pid]
      BY <1>2, <1>5, RunningIs
    <2> QED
      BY <1>2, <1>5, <1>6, <2>1, RunningIs, TallyOneMore
  <1>8. Tally(r, now, next_pid, born) /\ UsedBy(r) = UsedBy(q)
    BY <1>3, <1>4, <1>7, TallyLater DEF r, now
  <1>9. now = idle + gone + UsedBy(r)
    <2>1. UsedBy(r) = UsedBy(Others) + (Cost(Running) + Used(left))
      BY <1>5, <1>7, <1>8 DEF Billed
    <2> QED
      BY <1>2, <1>4, <2>1, BillAddsUp DEF now
  <1>10. Tally(r, clock + Used(left), next_pid', born') /\ clock + Used(left) = idle + gone' + UsedBy(r)
    BY <1>1, <1>8, <1>9 DEF now
  <1> QED
    BY <1>1, <1>3, <1>4, <1>10, StopKeepsInv

LEMMA ExitKeepsInv == ASSUME Inv, NEW left \in Lefts, ExitBy(left) PROVE Inv'
  <1> DEFINE r == ActualiseTimings(Others, Used(left))
             now == clock + Used(left)
  <1>1. Stops(r, Used(left), left) /\ next_pid' = next_pid /\ born' = born
        /\ gone' = gone + Running.execute + Running.syscall + Used(left)
    BY DEF ExitBy
  <1>2. Calls
    BY <1>1 DEF Stops
  <1>3. Used(left) \in Nat /\ left \in 0 .. MaxSlice
    BY UsedIs
  <1>4. /\ clock \in Nat /\ next_pid \in Nat /\ next_pid <= MaxPid + 1 /\ born \in [Pids -> Nat]
        /\ idle \in Nat /\ gone \in Nat /\ next_pid \in 1 .. MaxPid + 1
    BY QueuesAssumption DEF Inv, CountersOK
  <1>5. Tally(r, now, next_pid, born) /\ UsedBy(r) = UsedBy(Others)
    <2>1. Tally(Others, clock, next_pid, born)
      BY <1>2, RunningIs
    <2> QED
      BY <1>3, <1>4, <2>1, TallyLater
  <1> HIDE DEF r, now
  <1>6. /\ Running.execute \in Nat /\ Running.syscall \in Nat /\ Cost(Running) = Running.execute + Running.syscall
        /\ UsedBy(Others) \in Int
    BY <1>2, RunningIs, UsedByIsInt DEF Pcbs, Cost, Still
  <1>7. gone' \in Nat
    BY <1>1, <1>3, <1>4, <1>6
  <1>8. now = idle + gone' + UsedBy(r)
    <2>1. clock + Used(left) = idle + gone + (UsedBy(Others) + (Cost(Running) + Used(left)))
      BY <1>2, BillAddsUp
    <2> QED
      BY <1>1, <1>3, <1>4, <1>5, <1>6, <2>1 DEF now
  <1>9. Tally(r, clock + Used(left), next_pid', born') /\ clock + Used(left) = idle + gone' + UsedBy(r)
    BY <1>1, <1>5, <1>8 DEF now
  <1> QED
    BY <1>1, <1>3, <1>4, <1>7, <1>9, StopKeepsInv

LEMMA ExpireKeepsInv == ASSUME Inv, NEW p, Expiry(p), ExpireBy(p) PROVE Inv'
  <1> DEFINE q == ActualiseTimings(Others, remaining)
             r == [q EXCEPT !.ready = Append(@, p)]
             now == clock + remaining
  <1>1. Stops(r, remaining, remaining) /\ next_pid' = next_pid /\ born' = born /\ gone' = gone
    BY DEF ExpireBy
  <1>2. Calls
    BY <1>1 DEF Stops
  <1>3. /\ clock \in Nat /\ next_pid \in Nat /\ next_pid <= MaxPid + 1 /\ born \in [Pids -> Nat]
        /\ idle \in Nat /\ gone \in Nat /\ next_pid \in 1 .. MaxPid + 1
        /\ remaining \in Nat /\ remaining \in 0 .. MaxSlice
    BY QueuesAssumption DEF Inv, CountersOK
  <1>4. Tally(q, now, next_pid, born) /\ UsedBy(q) = UsedBy(Others)
    <2>1. Tally(Others, clock, next_pid, born)
      BY <1>2, RunningIs
    <2> QED
      BY <1>3, <2>1, TallyLater
  <1>5. p \in Pcbs /\ Settled(p) /\ IsReady(p) /\ p.pid = Running.pid /\ p.total = Running.total + remaining
    BY <1>2, RunningIs DEF Expiry, Settled, IsReady
  <1> HIDE DEF q, r, now
  <1>6. p.pid \in 1 .. next_pid - 1 /\ p.total = now - born[p.pid]
    <2>1. Running.pid \in 1 .. next_pid - 1 /\ Running.total = clock - born[Running.pid] /\ Running.pid \in Pids
      BY <1>2, <1>3, RunningIs, QueuesAssumption DEF Pids
    <2>2. born[Running.pid] \in Nat
      BY <1>3, <2>1
    <2> QED
      BY <1>3, <1>5, <2>1, <2>2 DEF now
  <1>7. Adds(r, q, p)
    <2>1. \A x \in Folk(q) : x.pid # p.pid
      BY <1>2, <1>3, <1>5, OthersAfter DEF q
    <2>2. Sound(q)
      BY <1>4 DEF Tally
    <2> QED
      BY <1>5, <2>1, <2>2, PutBehind DEF r
  <1>8. Tally(r, now, next_pid, born) /\ UsedBy(r) = UsedBy(q) + Cost(p)
    BY <1>4, <1>5, <1>6, <1>7, TallyOneMore
  <1>9. now = idle + gone + UsedBy(r)
    <2>1. UsedBy(r) = UsedBy(Others) + (Cost(Running) + remaining)
      BY <1>4, <1>8 DEF Expiry
    <2>2. UsedBy(Others) \in Int /\ Cost(Running) \in Int
      BY <1>2, RunningIs, UsedByIsInt, CostIsInt DEF Still
    <2>3. clock = idle + gone + (UsedBy(Others) + Cost(Running))
      BY <1>2, RunningIs DEF Inv
    <2> QED
      BY <1>3, <2>1, <2>2, <2>3 DEF now
  <1>10. Tally(r, clock + remaining, next_pid', born') /\ clock + remaining = idle + gone' + UsedBy(r)
    BY <1>1, <1>8, <1>9 DEF now
  <1> QED
    BY <1>1, <1>3, <1>10, StopKeepsInv

LEMMA EmptyQueues ==
    ASSUME ready = <<>>, waiting = <<>>
    PROVE  Still(Queues) /\ Folk(Queues) = {}
  <1>1. Queues = [ready |-> <<>>, waiting |-> <<>>]
    BY DEF Queues
  <1> DEFINE q == Queues
  <1>2. q.ready = <<>> /\ q.waiting = <<>> /\ q = [ready |-> q.ready, waiting |-> q.waiting]
    BY <1>1
  <1> HIDE DEF q
  <1>3. List(q.ready) /\ List(q.waiting) /\ Who(q.ready) = {} /\ Who(q.waiting) = {} /\ Len(q.ready) = 0
    BY <1>2, EmptyList
  <1>4. Sound(q) /\ Still(q)
    BY <1>2, <1>3 DEF Sound, Still, Apart
  <1>5. Folk(q) = {}
    BY <1>3 DEF Folk
  <1> QED
    BY <1>4, <1>5 DEF q

LEMMA BootKeepsInv == ASSUME Inv, NEW c, next_pid = 1 => Infant(c), BootBy(c) PROVE Inv'
  <1> DEFINE r == [Queues EXCEPT !.ready = <<c>>]
  <1>1. /\ decision.kind = "Start" /\ Become(r, clock) /\ remaining' = 0 /\ next_pid' = 2
        /\ decision' = Plain("Stopped") /\ sleep' = sleep /\ sleep_time' = sleep_time /\ idle' = idle
        /\ gone' = gone /\ born' = born
    BY DEF BootBy
  <1>2. Fresh
    BY <1>1 DEF Inv
  <1>3. Still(Queues) /\ Folk(Queues) = {} /\ Queues = [ready |-> <<>>, waiting |-> <<>>]
    BY <1>2, EmptyQueues DEF Fresh, Queues
  <1>4. c \in Pcbs /\ Settled(c) /\ c.pid = 1 /\ c.total = 0 /\ Cost(c) = 0
    BY <1>2 DEF Infant, Settled, Cost, Fresh
  <1>5. r = [Queues EXCEPT !.ready = <<c>> \o @]
    <2>1. <<c>> \in Seq(Pcbs)
      BY <1>4
    <2>2. <<c>> \o <<>> = <<c>>
      BY <2>1, ConcatEmptySeq
    <2> DEFINE s == <<c>>
    <2>3. Queues.ready = <<>> /\ s \o <<>> = s
      BY <1>3, <2>2
    <2> HIDE DEF s
    <2>4. [Queues EXCEPT !.ready = s \o @] = [Queues EXCEPT !.ready = s]
      BY <2>3
    <2> QED
      BY <2>4 DEF s
  <1> DEFINE m == [Queues EXCEPT !.ready = <<c>> \o @]
  <1>6. Adds(m, Queues, c)
    BY <1>3, <1>4, PutInFront
  <1> HIDE DEF r, m
  <1>7. Adds(r, Queues, c)
    BY <1>5, <1>6 DEF m
  <1>8. Tally(Queues, clock, 2, born) /\ UsedBy(Queues) = 0
    BY <1>3, NoTimeUsed DEF Tally, Still, UsedBy
  <1>9. clock = 0 /\ born[1] = 0 /\ 1 \in 1 .. 2 - 1
    BY <1>2 DEF Fresh
  <1>10. Tally(r, clock, 2, born) /\ UsedBy(r) = UsedBy(Queues) + Cost(c)
    <2>1. c.pid \in 1 .. 2 - 1 /\ c.total = clock - born[c.pid]
      BY <1>4, <1>9
    <2> QED
      BY <1>4, <1>7, <1>8, <2>1, TallyOneMore
  <1>11. UsedBy(r) = 0
    BY <1>4, <1>8, <1>10
  <1>12. Queues' = r /\ clock' = clock
    BY <1>1, <1>7, NextQueues DEF Adds
  <1>13. CountersOK'
    <2>1. 2 \in 1 .. MaxPid + 1 /\ 0 \in 0 .. MaxSlice
      BY QueuesAssumption
    <2> QED
      BY <1>1, <1>12, <2>1 DEF Inv, CountersOK
  <1>14. Tally(Queues, clock, next_pid, born)'
    BY <1>1, <1>10, <1>12
  <1>15. (clock = idle + gone + UsedBy(Queues))'
    BY <1>1, <1>8, <1>11, <1>12 DEF Inv
  <1>16. decision'.kind = "Stopped"
    BY <1>1 DEF Plain
  <1> QED
    BY <1>13, <1>14, <1>15, <1>16 DEF Inv

-----------------------------------------------------------------------------
(* next() *)

LEMMA LeastOfNumbers == ASSUME NEW S \in SUBSET Nat, S # {} PROVE Min(S) \in S /\ \A y \in S : Min(S) <= y
  <1>1. \E x \in S : \A y \in S : x <= y
    BY LeastNumber
  <1> QED
    BY <1>1 DEF Min

LEMMA AwakeIs ==
    ASSUME Inv
    PROVE  /\ Tally(Awake, clock + Slept, next_pid, born) /\ UsedBy(Awake) = UsedBy(Queues)
           /\ Slept \in Nat
  <1>1. /\ clock \in Nat /\ next_pid \in Nat /\ next_pid <= MaxPid + 1 /\ born \in [Pids -> Nat]
        /\ sleep_time \in Nat /\ Tally(Queues, clock, next_pid, born)
    BY QueuesAssumption DEF Inv, CountersOK
  <1>2. CASE sleep
    <2>1. Awake = ActualiseTimings(Queues, sleep_time) /\ Slept = sleep_time
      BY <1>2 DEF Awake, Slept
    <2> QED
      BY <1>1, <2>1, TallyLater
  <1>3. CASE ~sleep
    <2>1. Awake = Queues /\ Slept = 0
      BY <1>3 DEF Awake, Slept
    <2> QED
      BY <1>1, <2>1
  <1> QED
    BY <1>2, <1>3

\* What every decision does, but for sleep and remaining.
Decides(q) ==
    /\ Become(q, clock + Slept) /\ idle' = idle + Slept
    /\ next_pid' = next_pid /\ gone' = gone /\ born' = born

LEMMA DecisionKeepsInv ==
    ASSUME Inv, NEW q, Decides(q), Tally(q, clock + Slept, next_pid, born), UsedBy(q) = UsedBy(Queues),
           remaining' \in 0 .. MaxSlice, sleep' \in BOOLEAN, sleep_time' \in Nat,
           decision'.kind # "Start", decision'.kind = "Run" => FrontRuns(q)
    PROVE  Inv'
  <1>1. Queues' = q /\ clock' = clock + Slept
    BY NextQueues DEF Decides, Tally
  <1>2. idle' = idle + Slept /\ next_pid' = next_pid /\ gone' = gone /\ born' = born
    BY DEF Decides
  <1>3. /\ clock \in Nat /\ idle \in Nat /\ gone \in Nat /\ Slept \in Nat /\ UsedBy(Queues) \in Int
        /\ clock = idle + gone + UsedBy(Queues)
    BY AwakeIs, UsedByIsInt DEF Inv, CountersOK, Tally
  <1>4. CountersOK'
    BY <1>1, <1>2, <1>3 DEF Inv, CountersOK
  <1>5. Tally(Queues, clock, next_pid, born)'
    BY <1>1, <1>2
  <1>6. (clock = idle + gone + UsedBy(Queues))'
    <2>1. clock + Slept = (idle + Slept) + gone + UsedBy(q)
      BY <1>3
    <2> QED
      BY <1>1, <1>2, <2>1
  <1>7. (decision.kind = "Run" => FrontRuns(Queues))'
    BY <1>1 DEF FrontRuns
  <1> QED
    BY <1>4, <1>5, <1>6, <1>7 DEF Inv

LEMMA NobodyKeepsInv == ASSUME Inv, NobodyToRun(Awake) PROVE Inv'
  <1> DEFINE q == Awake
  <1>1. Tally(q, clock + Slept, next_pid, born) /\ UsedBy(q) = UsedBy(Queues)
    BY AwakeIs
  <1>2. remaining \in 0 .. MaxSlice
    BY DEF Inv, CountersOK
  <1> HIDE DEF q
  <1>3. CASE Done(q)
    BY <1>1, <1>2, <1>3, DecisionKeepsInv DEF Done, Decide, Decides, Plain
  <1>4. CASE Panic(q)
    BY <1>1, <1>2, <1>4, DecisionKeepsInv DEF Panic, Decide, Decides, Plain
  <1>5. CASE Deadlock(q)
    BY <1>1, <1>2, <1>5, DecisionKeepsInv DEF Deadlock, Decide, Decides, Plain
  <1>6. CASE Sleep(q)
    <2>1. MinimumSleepTime(q) \in Nat
      <3>1. \A p \in Sleepers(q) : p.sleep \in Nat
        <4>1. List(q.waiting)
          BY <1>1 DEF Tally, Sound
        <4>2. \A p \in Sleepers(q) : p \in Pcbs
          BY <4>1, WhoIsRange, ListFacts DEF Sleepers, List
        <4> QED
          BY <4>2 DEF Pcbs
      <3> DEFINE S == {SleepCap} \cup {p.sleep : p \in Sleepers(q)}
      <3>2. S \in SUBSET Nat /\ S # {}
        BY <3>1, QueuesAssumption
      <3> HIDE DEF S
      <3>3. Min(S) \in Nat
        BY <3>2, LeastOfNumbers
      <3> QED
        BY <3>3 DEF MinimumSleepTime, S
    <2>2. /\ Decides(q) /\ remaining' = remaining /\ sleep' = TRUE /\ sleep_time' = MinimumSleepTime(q)
          /\ decision' = Unwrapped([kind |-> "Sleep", pid |-> 0, timeslice |-> sleep_time'])
      BY <1>6 DEF Sleep, Decides
    <2>3. decision'.kind \in {"Sleep", "Crashed"}
      BY <2>2 DEF Unwrapped, Plain
    <2> QED
      BY <1>1, <1>2, <2>1, <2>2, <2>3, DecisionKeepsInv
  <1> QED
    BY <1>3, <1>4, <1>5, <1>6 DEF NobodyToRun, q

LEMMA KeepRunningKeepsInv ==
    ASSUME Inv, NEW q, Tally(q, clock + Slept, next_pid, born), UsedBy(q) = UsedBy(Queues),
           FrontRuns(q), NEW left \in 0 .. MaxSlice, KeepRunning(q, left)
    PROVE  Inv'
  <1>1. /\ Decides(q) /\ remaining' = left /\ sleep' = FALSE /\ sleep_time' = 0
        /\ decision' = Unwrapped([kind |-> "Run", pid |-> Head(ready').pid, timeslice |-> left])
    BY DEF KeepRunning, Decide, Decides
  <1>2. decision'.kind \in {"Run", "Crashed"}
    BY <1>1 DEF Unwrapped, Plain
  <1> QED
    BY <1>1, <1>2, DecisionKeepsInv

LEMMA TallyFirstRuns ==
    ASSUME NEW q, NEW now, NEW n, NEW b, Tally(q, now, n, b), Still(q), q.ready # <<>>
    PROVE  Tally(FirstRuns(q), now, n, b) /\ UsedBy(FirstRuns(q)) = UsedBy(q) /\ FrontRuns(FirstRuns(q))
  <1> DEFINE h == Head(q.ready)
             p == Turned(h, "Running")
             m == Rest(q)
             r == FirstRuns(q)
  <1>1. Still(m) /\ Adds(q, m, h) /\ h \in Pcbs
    BY HeadTaken DEF Rest, Still
  <1>2. p \in Pcbs /\ p.pid = h.pid /\ p.total = h.total /\ Cost(p) = Cost(h) /\ p.state = "Running"
    BY <1>1, TurnedIs
  <1>3. Adds(r, m, p) /\ Len(r.ready) \in Nat \ {0} /\ r.ready[1] = p
    BY FirstRunsIs
  <1> HIDE DEF h, p, m, r
  <1>4. Without(m, q, h, now, n, b)
    <2>1. Sound(m)
      BY <1>1 DEF Still
    <2> QED
      BY <1>1, <2>1, TallyOneLess
  <1>5. Tally(r, now, n, b) /\ UsedBy(r) = UsedBy(m) + Cost(p)
    BY <1>2, <1>3, <1>4, TallyOneMore DEF Without
  <1>6. FrontRuns(r)
    <2>1. r.ready # <<>> /\ Head(r.ready) = r.ready[1]
      <3>1. List(r.ready)
        BY <1>3 DEF Adds, Sound
      <3>2. r.ready # <<>>
        BY <1>3, EmptyList
      <3> QED
        BY <3>1, <3>2, TailIs
    <2> QED
      BY <1>2, <1>3, <2>1 DEF FrontRuns
  <1> QED
    BY <1>2, <1>4, <1>5, <1>6 DEF Without, r

LEMMA RunFirstKeepsInv ==
    ASSUME Inv, NEW q, Tally(q, clock + Slept, next_pid, born), UsedBy(q) = UsedBy(Queues),
           Still(q), q.ready # <<>>, NEW r, Rearranged(r, q), NEW slice \in 0 .. MaxSlice, RunFirst(r, slice)
    PROVE  Inv'
  <1>1. Still(r) /\ Folk(r) = Folk(q) /\ Len(r.ready) = Len(q.ready)
    BY RearrangedIs
  <1>2. r.ready # <<>>
    <2>1. List(q.ready) /\ List(r.ready)
      BY <1>1 DEF Still, Sound
    <2>2. Len(q.ready) # 0
      BY <2>1, TailIs
    <2> QED
      BY <1>1, <2>2, EmptyList
  <1>3. Tally(r, clock + Slept, next_pid, born) /\ UsedBy(r) = UsedBy(q)
    BY <1>1 DEF Tally, Still, UsedBy
  <1> DEFINE f == FirstRuns(r)
  <1>4. Tally(f, clock + Slept, next_pid, born) /\ UsedBy(f) = UsedBy(r) /\ FrontRuns(f)
    BY <1>1, <1>2, <1>3, TallyFirstRuns
  <1>5. KeepRunning(f, slice)
    BY DEF RunFirst, FirstRuns
  <1> HIDE DEF f
  <1> QED
    BY <1>3, <1>4, <1>5, KeepRunningKeepsInv

LEMMA TallyPreempted ==
    ASSUME NEW q, NEW now, NEW n, NEW b, Tally(q, now, n, b), q.ready # <<>>
    PROVE  /\ Tally(Preempted(q), now, n, b) /\ UsedBy(Preempted(q)) = UsedBy(q)
           /\ Still(Preempted(q)) /\ Preempted(q).ready # <<>>
  <1> DEFINE h == Head(q.ready)
             p == Turned(h, "Ready")
             m == Rest(q)
             r == Preempted(q)
  <1>1. Still(m) /\ Adds(q, m, h) /\ h \in Pcbs
    BY HeadTaken DEF Rest, Tally
  <1>2. p \in Pcbs /\ p.pid = h.pid /\ p.total = h.total /\ Cost(p) = Cost(h)
    BY <1>1, TurnedIs
  <1>3. Still(r) /\ Adds(r, m, p) /\ Len(r.ready) \in Nat \ {0}
    BY PreemptedIs DEF Tally
  <1> HIDE DEF h, p, m, r
  <1>4. Without(m, q, h, now, n, b)
    <2>1. Sound(m)
      BY <1>1 DEF Still
    <2> QED
      BY <1>1, <2>1, TallyOneLess
  <1>5. Tally(r, now, n, b) /\ UsedBy(r) = UsedBy(m) + Cost(p)
    BY <1>2, <1>3, <1>4, TallyOneMore DEF Without
  <1>6. r.ready # <<>>
    BY <1>3, EmptyList
  <1> QED
    BY <1>2, <1>3, <1>4, <1>5, <1>6 DEF Without, r

-----------------------------------------------------------------------------
(* What a step of any policy is. *)

\* There is a time unit for every process, and no slice goes on with nothing left.
Roomy == MaxPid <= MaxSlice /\ MinRemaining >= 1

IsSlice(left) == left \in 0 .. MaxSlice /\ (Roomy => left >= 1)

\* x has no reason to run before p, of whose slice left remains.
Content(p, left, x) ==
    /\ ByPriority => x.priority <= p.priority
    /\ ByUse => p.extra + left <= x.extra + MaxSlice

\* p was charged without making anyone less content than with the running process.
Pays(p, left) == \A x \in Pcbs : Content(Running, remaining, x) => Content(p, left, x)

\* Of the slice that goes on, no more than remains.
Usual == ByUse => MinRemaining >= 1

Continues(left) == IsSlice(left) /\ (Usual => left <= remaining)

\* r is q in the order of the policy, and its first process is about to run for left.
Leads(r, left) == \A i \in 2 .. Len(r.ready) : Content(r.ready[1], left, r.ready[i])

Lines(r, q, left) ==
    /\ IsSlice(left) /\ Rearranged(r, q) /\ Leads(r, left)
    /\ InTurn => r = q

Called ==
    \E left \in Lefts :
        \/ \E p :
            /\ Billed(p, left) /\ Pays(p, left)
            /\ \/ \E c : Infant(c) /\ ForkBy(p, left, c)
               \/ \E time \in SleepTimes : SleepBy(p, left, time)
               \/ \E signal \in Events : SignalBy(p, left, signal) \/ WaitBy(p, left, signal)
        \/ ExitBy(left)

Chose ==
    /\ Asked
    /\ \/ \E left : FrontRuns(Awake) /\ Continues(left) /\ KeepRunning(Awake, left)
       \/ \E r, left : FrontRuns(Awake) /\ Lines(r, Preempted(Awake), left) /\ RunFirst(r, left)
       \/ NobodyToRun(Awake)
       \/ \E r, left : CanStart(Awake) /\ Lines(r, Awake, left) /\ RunFirst(r, left)

AnyStep ==
    \/ \E c : (next_pid = 1 => Infant(c)) /\ BootBy(c)
    \/ Called
    \/ \E p : Expiry(p) /\ ExpireBy(p)
    \/ Chose

LEMMA CallKeepsInv == Inv /\ Called => Inv'
  <1> SUFFICES ASSUME Inv, Called PROVE Inv'
    OBVIOUS
  <1>1. PICK left \in Lefts :
            \/ \E p :
                /\ Billed(p, left) /\ Pays(p, left)
                /\ \/ \E c : Infant(c) /\ ForkBy(p, left, c)
                   \/ \E time \in SleepTimes : SleepBy(p, left, time)
                   \/ \E signal \in Events : SignalBy(p, left, signal) \/ WaitBy(p, left, signal)
            \/ ExitBy(left)
    BY DEF Called
  <1>2. CASE ExitBy(left)
    BY <1>2, ExitKeepsInv
  <1>3. ASSUME NEW p, Billed(p, left), NEW c, Infant(c), ForkBy(p, left, c) PROVE Inv'
    BY <1>3, ForkKeepsInv
  <1>4. ASSUME NEW p, Billed(p, left), NEW time \in SleepTimes, SleepBy(p, left, time) PROVE Inv'
    BY <1>4, SleepKeepsInv
  <1>5. ASSUME NEW p, Billed(p, left), NEW signal \in Events, SignalBy(p, left, signal) PROVE Inv'
    BY <1>5, SignalKeepsInv
  <1>6. ASSUME NEW p, Billed(p, left), NEW signal \in Events, WaitBy(p, left, signal) PROVE Inv'
    BY <1>6, WaitKeepsInv
  <1> QED
    BY <1>1, <1>2, <1>3, <1>4, <1>5, <1>6

LEMMA StillIfIdle ==
    ASSUME NEW q, Sound(q), q.ready # <<>>, ~FrontRuns(q)
    PROVE  Still(q)
  <1>1. q.ready[1] = Head(q.ready) /\ Len(q.ready) \in Nat \ {0} /\ Settled(Head(q.ready))
    BY HeadTaken
  <1>2. IsReady(q.ready[1])
    BY <1>1 DEF FrontRuns, Settled, IsReady
  <1>3. \A i \in 1 .. Len(q.ready) : i = 1 \/ i \in 2 .. Len(q.ready)
    BY <1>1
  <1> QED
    BY <1>2, <1>3 DEF Still, Sound

LEMMA ChoiceKeepsInv == Inv /\ Chose => Inv'
  <1> SUFFICES ASSUME Inv, Chose PROVE Inv'
    OBVIOUS
  <1> DEFINE q == Awake
             p == Preempted(q)
  <1>1. Tally(q, clock + Slept, next_pid, born) /\ UsedBy(q) = UsedBy(Queues) /\ Sound(q)
    BY AwakeIs DEF Tally
  <1>2. CASE NobodyToRun(q)
    BY <1>2, NobodyKeepsInv
  <1> HIDE DEF q
  <1>3. ASSUME NEW left, IsSlice(left), FrontRuns(q), KeepRunning(q, left) PROVE Inv'
    BY <1>1, <1>3, KeepRunningKeepsInv DEF IsSlice
  <1>4. ASSUME NEW r, NEW left, IsSlice(left), CanStart(q), Rearranged(r, q), RunFirst(r, left) PROVE Inv'
    <2>1. Still(q) /\ q.ready # <<>>
      BY <1>1, <1>4, StillIfIdle DEF CanStart
    <2> QED
      BY <1>1, <1>4, <2>1, RunFirstKeepsInv DEF IsSlice
  <1>5. ASSUME NEW r, NEW left, IsSlice(left), FrontRuns(q), Rearranged(r, p), RunFirst(r, left) PROVE Inv'
    <2>1. /\ Tally(p, clock + Slept, next_pid, born) /\ UsedBy(p) = UsedBy(q)
          /\ Still(p) /\ p.ready # <<>>
      BY <1>1, <1>5, TallyPreempted DEF FrontRuns
    <2> HIDE DEF p
    <2> QED
      BY <1>1, <1>5, <2>1, RunFirstKeepsInv DEF IsSlice
  <1> QED
    BY <1>2, <1>3, <1>4, <1>5 DEF Chose, Continues, Lines, q

LEMMA StepKeepsInv == Inv /\ AnyStep => Inv'
  <1>1. ASSUME Inv, NEW c, next_pid = 1 => Infant(c), BootBy(c) PROVE Inv'
    BY <1>1, BootKeepsInv
  <1>2. ASSUME Inv, NEW p, Expiry(p), ExpireBy(p) PROVE Inv'
    BY <1>2, ExpireKeepsInv
  <1> QED
    BY <1>1, <1>2, CallKeepsInv, ChoiceKeepsInv DEF AnyStep

LEMMA StutterKeepsInv == Inv /\ UNCHANGED <<vars, policy>> => Inv'
  <1> SUFFICES ASSUME Inv, UNCHANGED <<vars, policy>> PROVE Inv'
    OBVIOUS
  <1>1. /\ ready' = ready /\ waiting' = waiting /\ remaining' = remaining /\ next_pid' = next_pid
        /\ sleep' = sleep /\ sleep_time' = sleep_time /\ decision' = decision /\ clock' = clock
        /\ idle' = idle /\ gone' = gone /\ born' = born
    BY DEF vars, code, history
  <1>2. Queues' = Queues
    BY <1>1 DEF Queues
  <1> QED
    BY <1>1, <1>2 DEF Inv, CountersOK, Fresh, FrontRuns

LEMMA InitInv == Init => Inv
  <1> SUFFICES ASSUME Init PROVE Inv
    OBVIOUS
  <1>1. Still(Queues) /\ Folk(Queues) = {}
    BY EmptyQueues DEF Init
  <1>2. CountersOK
    <2>1. 0 \in 0 .. MaxSlice /\ 1 \in 1 .. MaxPid + 1
      BY QueuesAssumption
    <2>2. born \in [Pids -> Nat]
      BY DEF Init
    <2> QED
      BY <2>1, <2>2 DEF Init, CountersOK
  <1>3. Tally(Queues, clock, next_pid, born)
    BY <1>1 DEF Tally, Still
  <1>4. UsedBy(Queues) = 0
    BY <1>1, NoTimeUsed DEF UsedBy
  <1>5. Fresh
    BY QueuesAssumption DEF Init, Fresh, Pids
  <1> QED
    BY <1>2, <1>3, <1>4, <1>5 DEF Init, Inv, Plain

LEMMA InvAddsUp == Inv => TimesAddUp
  <1> SUFFICES ASSUME Inv PROVE TimesAddUp
    OBVIOUS
  <1>1. Range(Everyone(Queues)) = Folk(Queues)
    BY SoundFolk DEF Inv, Tally
  <1> QED
    BY <1>1 DEF Inv, Tally, UsedBy, TimesAddUp

-----------------------------------------------------------------------------
(* Charging, choosing and ordering, in general *)

LEMMA ChargedIs == ASSUME Inv, Calls, NEW left \in Lefts PROVE Billed(Charged(left), left)
  <1> DEFINE a == [Running EXCEPT !.syscall = @ + 1]
             p == [a EXCEPT !.execute = @ + Used(left) - 1]
  <1>0. Running \in Pcbs /\ Used(left) \in Nat \ {0}
    BY RunningIs, UsedIs
  <1>1. Running.syscall \in Nat /\ Running.execute \in Nat
    BY <1>0 DEF Pcbs
  <1>2. Running.syscall + 1 \in Nat /\ Running.execute + Used(left) - 1 \in Nat
    BY <1>0, <1>1
  <1>3. /\ a \in Pcbs /\ a.pid = Running.pid /\ a.total = Running.total /\ a.sleep = Running.sleep
        /\ a.event = Running.event /\ a.state = Running.state /\ a.execute = Running.execute
        /\ a.syscall = Running.syscall + 1
    BY <1>0, <1>2 DEF Pcbs
  <1> HIDE DEF a
  <1>4. /\ p \in Pcbs /\ p.pid = Running.pid /\ p.total = Running.total /\ p.sleep = Running.sleep
        /\ p.event = Running.event /\ p.state = Running.state
        /\ p.execute = Running.execute + Used(left) - 1 /\ p.syscall = Running.syscall + 1
    BY <1>2, <1>3 DEF Pcbs
  <1>5. p = Charged(left)
    BY DEF Charged, a
  <1> HIDE DEF p
  <1>6. Cost(p) = Cost(Running) + Used(left)
    BY <1>0, <1>1, <1>4 DEF Cost
  <1> QED
    BY <1>4, <1>5, <1>6 DEF Billed

LEMMA SpentIs == ASSUME Inv, Calls PROVE Expiry(Spent)
  <1> DEFINE a == [Running EXCEPT !.execute = @ + remaining]
             b == [a EXCEPT !.total = @ + remaining]
             p == [b EXCEPT !.state = "Ready"]
  <1>0. Running \in Pcbs /\ remaining \in Nat
    BY RunningIs DEF Inv, CountersOK
  <1>1. Running.syscall \in Nat /\ Running.execute \in Nat /\ Running.total \in Nat
    BY <1>0 DEF Pcbs
  <1>2. Running.total + remaining \in Nat /\ Running.execute + remaining \in Nat
    BY <1>0, <1>1
  <1>3. /\ a \in Pcbs /\ a.pid = Running.pid /\ a.total = Running.total /\ a.sleep = Running.sleep
        /\ a.event = Running.event /\ a.execute = Running.execute + remaining
        /\ a.syscall = Running.syscall
    BY <1>0, <1>2 DEF Pcbs
  <1> HIDE DEF a
  <1>4. /\ b \in Pcbs /\ b.pid = Running.pid /\ b.total = Running.total + remaining /\ b.sleep = Running.sleep
        /\ b.event = Running.event /\ b.execute = Running.execute + remaining
        /\ b.syscall = Running.syscall
    BY <1>2, <1>3 DEF Pcbs
  <1> HIDE DEF b
  <1>5. /\ p \in Pcbs /\ p.pid = Running.pid /\ p.total = Running.total + remaining /\ p.sleep = Running.sleep
        /\ p.event = Running.event /\ p.execute = Running.execute + remaining
        /\ p.syscall = Running.syscall /\ p.state = "Ready"
    BY <1>4 DEF Pcbs
  <1>6. p = Spent
    BY DEF Spent, a, b
  <1> HIDE DEF p
  <1>7. Cost(p) = Cost(Running) + remaining
    BY <1>0, <1>1, <1>5 DEF Cost
  <1> QED
    BY <1>5, <1>6, <1>7 DEF Expiry

LEMMA InfantIs == ASSUME Inv, NEW priority \in Int PROVE Infant(NewPcb(next_pid, priority))
  <1>1. next_pid \in Nat
    BY QueuesAssumption DEF Inv, CountersOK
  <1> QED
    BY <1>1 DEF Infant, NewPcb, Pcbs

LEMMA FirstInfantIs == ASSUME Inv PROVE next_pid = 1 => Infant(NewPcb(1, 0))
  BY InfantIs

LEMMA StopsOnCall ==
    ASSUME NEW p, NEW left, NEW x
    PROVE  /\ ForkBy(p, left, x) => Calls
           /\ SleepBy(p, left, x) => Calls
           /\ SignalBy(p, left, x) => Calls
           /\ WaitBy(p, left, x) => Calls
           /\ ExpireBy(p) => Calls
  BY DEF ForkBy, SleepBy, SignalBy, WaitBy, ExpireBy, Stops

\* Any policy that charges the running process p, and its child c, as it should.
LEMMA CallIs ==
    ASSUME Inv, NEW left \in Lefts, NEW p, Calls => Billed(p, left) /\ Pays(p, left), NEW x,
           \/ Infant(x) /\ ForkBy(p, left, x)
           \/ x \in SleepTimes /\ SleepBy(p, left, x)
           \/ x \in Events /\ (SignalBy(p, left, x) \/ WaitBy(p, left, x))
    PROVE  Called
  <1>1. Billed(p, left) /\ Pays(p, left)
    BY StopsOnCall
  <1> QED
    BY <1>1 DEF Called

\* What a policy may do when it is asked whom to run.
LEMMA RescheduleIs ==
    ASSUME Asked, FrontRuns(Awake), NEW left, Continues(left), KeepRunning(Awake, left) PROVE Chose
  BY DEF Chose

LEMMA PreemptIs ==
    ASSUME Asked, FrontRuns(Awake), NEW r, NEW left, Lines(r, Preempted(Awake), left), RunFirst(r, left)
    PROVE  Chose
  BY DEF Chose

LEMMA StartIs ==
    ASSUME Asked, CanStart(Awake), NEW r, NEW left, Lines(r, Awake, left), RunFirst(r, left)
    PROVE  Chose
  BY DEF Chose

\* The order they are in already.
LEMMA Unmoved == ASSUME NEW q, Still(q) PROVE Rearranged(q, q)
  <1>1. q = [ready |-> q.ready, waiting |-> q.waiting] /\ List(q.ready)
    BY DEF Still, Sound
  <1>2. q = [q EXCEPT !.ready = q.ready]
    BY <1>1
  <1>3. Len(q.ready) \in Nat
    BY <1>1, ListFacts
  <1>4. Cardinality(1 .. Len(q.ready)) = Len(q.ready)
    <2>1. \A n \in Nat : Cardinality(1 .. n) = n
      BY FS_Interval
    <2> QED
      BY <1>3, <2>1
  <1> QED
    BY <1>1, <1>2, <1>4 DEF Rearranged, Gathers, Who

LEMMA AwakeStill ==
    ASSUME Inv
    PROVE  /\ Sound(Awake)
           /\ FrontRuns(Awake) => Still(Preempted(Awake)) /\ Preempted(Awake).ready # <<>>
           /\ CanStart(Awake) => Still(Awake) /\ Awake.ready # <<>>
  <1> DEFINE q == Awake
  <1>1. Tally(q, clock + Slept, next_pid, born) /\ Sound(q)
    BY AwakeIs DEF Tally
  <1> HIDE DEF q
  <1>2. FrontRuns(q) => Still(Preempted(q)) /\ Preempted(q).ready # <<>>
    BY <1>1, TallyPreempted DEF FrontRuns
  <1>3. CanStart(q) => Still(q) /\ q.ready # <<>>
    BY <1>1, StillIfIdle DEF CanStart
  <1> QED
    BY <1>1, <1>2, <1>3 DEF q

LEMMA WholeSlice == IsSlice(MaxSlice)
  BY QueuesAssumption DEF IsSlice

LEMMA RestOfSlice == ASSUME Inv, CheckIfReschedule PROVE IsSlice(remaining) /\ Continues(remaining)
  <1>1. remaining \in 0 .. MaxSlice /\ remaining \in Nat /\ remaining <= remaining
    BY QueuesAssumption DEF Inv, CountersOK
  <1>2. IsSlice(remaining)
    BY <1>1, QueuesAssumption DEF IsSlice, CheckIfReschedule, Roomy
  <1> QED
    BY <1>1, <1>2 DEF Continues

LEMMA NoOrder ==
    ASSUME InTurn, NEW left
    PROVE  (\A p : Pays(p, left)) /\ (\A q : Leads(q, left))
  <1>1. ~ByPriority /\ ~ByUse
    BY Zenon DEF InTurn, ByPriority, ByUse
  <1> QED
    BY <1>1 DEF Pays, Leads, Content

-----------------------------------------------------------------------------
(* Sorting *)

LEMMA SortIs ==
    ASSUME NEW q, Still(q), NEW B, IsBefore(1 .. Len(q.ready), B)
    PROVE  Rearranged([q EXCEPT !.ready = InOrder(@, B)], q)
  <1> DEFINE f == InOrder(q.ready, B)
             r == [q EXCEPT !.ready = f]
  <1>1. r = [q EXCEPT !.ready = InOrder(@, B)]
    BY Zenon
  <1>2. Gathers(f, q.ready, 1 .. Len(q.ready))
    BY InOrderGathers DEF Still, Sound
  <1>3. q = [ready |-> q.ready, waiting |-> q.waiting]
    BY DEF Still, Sound
  <1> HIDE DEF f
  <1>4. r.ready = f
    BY <1>3
  <1> HIDE DEF r
  <1>5. Rearranged(r, q)
    <2>1. r = [q EXCEPT !.ready = r.ready]
      BY <1>4 DEF r
    <2> QED
      BY <1>2, <1>4, <2>1 DEF Rearranged
  <1> QED
    BY <1>1, <1>5

LEMMA ReadySet ==
    ASSUME NEW q, Sound(q), NEW f
    PROVE  [q EXCEPT !.ready = f].ready = f /\ [q EXCEPT !.ready = f].waiting = q.waiting
  <1>1. q = [ready |-> q.ready, waiting |-> q.waiting]
    BY DEF Sound
  <1> QED
    BY <1>1

\* Nobody goes before the first of f, and all of f is of s.
FirstIsFirst(f, s, B) ==
    \E i \in 1 .. Len(s) :
        /\ B[i] = {} /\ f[1] = s[i]
        /\ \A k \in 1 .. Len(f) : \E j \in 1 .. Len(s) : f[k] = s[j]

LEMMA SortFirst ==
    ASSUME NEW s, List(s), s # <<>>, NEW B, IsBefore(1 .. Len(s), B), NEW f, f = InOrder(s, B)
    PROVE  FirstIsFirst(f, s, B)
  <1> DEFINE I == 1 .. Len(s)
             R == Ranks(I, B)
  <1>1. Len(s) \in Nat \ {0} /\ DOMAIN s = I /\ 1 \in I
    BY ListFacts, TailIs
  <1>2. IsFiniteSet(I) /\ Cardinality(I) = Len(s)
    <2>1. \A n \in Nat : IsFiniteSet(1 .. n) /\ Cardinality(1 .. n) = n
      BY FS_Interval
    <2> QED
      BY <1>1, <2>1
  <1>5. \A k \in 1 .. Len(f) : \E j \in I : f[k] = s[j]
    <2>1. Who(f) = {s[j] : j \in I}
      BY InOrderGathers DEF Gathers
    <2>2. \A k \in 1 .. Len(f) : f[k] \in Who(f)
      BY DEF Who
    <2> HIDE DEF I
    <2> QED
      BY <2>1, <2>2
  <1> HIDE DEF I
  <1>6. Numbers(R, I)
    BY <1>2, RanksAreNumbers DEF I
  <1>7. \E i \in I : Cardinality(B[i]) + 1 = 1
    <2>1. 1 \in 1 .. Cardinality(I)
      BY <1>1, <1>2
    <2>2. PICK i \in I : R[i] = 1
      BY <1>6, <2>1 DEF Numbers
    <2> QED
      BY <2>2 DEF Ranks
  <1> DEFINE c == CHOOSE i \in I : Cardinality(B[i]) + 1 = 1
  <1>8. c \in I /\ Cardinality(B[c]) + 1 = 1
    BY <1>7
  <1>9. InOrder(s, B)[1] = s[c]
    BY <1>1 DEF InOrder
  <1> HIDE DEF c
  <1>10. B[c] = {}
    <2>1. B[c] \in SUBSET I
      BY <1>8 DEF IsBefore, I
    <2>2. IsFiniteSet(B[c])
      BY <1>2, <2>1, FS_Subset
    <2>3. Cardinality(B[c]) \in Nat
      BY <2>2, FS_CardinalityType
    <2>4. Cardinality(B[c]) = 0
      BY <1>8, <2>3
    <2> QED
      BY <2>2, <2>4, FS_EmptySet
  <1> QED
    BY <1>5, <1>8, <1>9, <1>10 DEF I, FirstIsFirst

\* j goes before i: by priority, and equals keep their order.
PriorityOrder(s) ==
    [i \in 1 .. Len(s) |-> {j \in 1 .. Len(s) :
        s[j].priority > s[i].priority \/ (j < i /\ ~(s[i].priority > s[j].priority))}]

LEMMA PriorityOrderIs == ASSUME NEW s, List(s) PROVE IsBefore(1 .. Len(s), PriorityOrder(s))
  <1> DEFINE I == 1 .. Len(s)
             B == PriorityOrder(s)
  <1>1. \A i \in I : s[i].priority \in Int
    <2>1. \A i \in I : s[i] \in Pcbs
      BY DEF List
    <2> QED
      BY <2>1 DEF Pcbs
  <1>2. I \subseteq Int
    OBVIOUS
  <1>3. B \in [I -> SUBSET I]
    BY DEF PriorityOrder
  <1>4. \A i, j \in I : j \in B[i] <=> (s[j].priority > s[i].priority \/ (j < i /\ ~(s[i].priority > s[j].priority)))
    BY DEF PriorityOrder
  <1> HIDE DEF I, B
  <1>5. \A i \in I : i \notin B[i]
    BY <1>1, <1>2, <1>4
  <1>6. \A i, j, k \in I : j \in B[i] /\ k \in B[j] => k \in B[i]
    <2> SUFFICES ASSUME NEW i \in I, NEW j \in I, NEW k \in I, j \in B[i], k \in B[j] PROVE k \in B[i]
      OBVIOUS
    <2>1. s[j].priority > s[i].priority \/ (j < i /\ ~(s[i].priority > s[j].priority))
      BY <1>4
    <2>2. s[k].priority > s[j].priority \/ (k < j /\ ~(s[j].priority > s[k].priority))
      BY <1>4
    <2>3. s[i].priority \in Int /\ s[j].priority \in Int /\ s[k].priority \in Int /\ i \in Int /\ j \in Int /\ k \in Int
      BY <1>1, <1>2
    <2>4. s[k].priority > s[i].priority \/ (k < i /\ ~(s[i].priority > s[k].priority))
      BY <2>1, <2>2, <2>3
    <2> QED
      BY <1>4, <2>4
  <1>7. \A i, j \in I : i # j => i \in B[j] \/ j \in B[i]
    <2> SUFFICES ASSUME NEW i \in I, NEW j \in I, i # j PROVE i \in B[j] \/ j \in B[i]
      OBVIOUS
    <2>1. s[i].priority \in Int /\ s[j].priority \in Int /\ i \in Int /\ j \in Int
      BY <1>1, <1>2
    <2>2. \/ s[j].priority > s[i].priority \/ (j < i /\ ~(s[i].priority > s[j].priority))
          \/ s[i].priority > s[j].priority \/ (i < j /\ ~(s[j].priority > s[i].priority))
      BY <2>1
    <2> QED
      BY <1>4, <2>2
  <1>8. \A i, j \in I : j \in B[i] => B[j] \subseteq B[i]
    BY <1>3, <1>6
  <1>9. IsBefore(I, B)
    BY <1>3, <1>5, <1>7, <1>8 DEF IsBefore
  <1> QED
    BY <1>9 DEF I, B

LEMMA ChargedLooks ==
    ASSUME Inv, Calls, NEW left \in Lefts
    PROVE  /\ Charged(left) \in Pcbs
           /\ Charged(left).priority = Running.priority /\ Charged(left).extra = Running.extra
           /\ Running.priority \in Int /\ Running.extra \in Nat
  <1>1. Charged(left) \in Pcbs /\ Running \in Pcbs
    BY ChargedIs, RunningIs DEF Billed
  <1>2. Running = [pid |-> Running.pid, priority |-> Running.priority, actual_priority |-> Running.actual_priority,
                   total |-> Running.total, syscall |-> Running.syscall, execute |-> Running.execute,
                   sleep |-> Running.sleep, state |-> Running.state, event |-> Running.event,
                   extra |-> Running.extra]
    BY <1>1 DEF Pcbs
  <1>3. Charged(left).priority = Running.priority /\ Charged(left).extra = Running.extra
    BY <1>2 DEF Charged
  <1> QED
    BY <1>1, <1>3 DEF Pcbs

\* j goes before i: it used less, or as much and is older.
UsageOrder(s) ==
    [i \in 1 .. Len(s) |-> {j \in 1 .. Len(s) :
        s[j].extra < s[i].extra \/ (s[j].extra = s[i].extra /\ s[j].pid < s[i].pid)}]

LEMMA UsageOrderIs == ASSUME NEW s, List(s) PROVE IsBefore(1 .. Len(s), UsageOrder(s))
  <1> DEFINE I == 1 .. Len(s)
             B == UsageOrder(s)
  <1>1. \A i \in I : s[i].extra \in Int /\ s[i].pid \in Int
    <2>1. \A i \in I : s[i] \in Pcbs
      BY DEF List
    <2> QED
      BY <2>1 DEF Pcbs
  <1>2. \A i, j \in I : s[i].pid = s[j].pid => i = j
    BY DEF List, Distinct
  <1>3. B \in [I -> SUBSET I]
    BY DEF UsageOrder
  <1>4. \A i, j \in I : j \in B[i] <=> (s[j].extra < s[i].extra \/ (s[j].extra = s[i].extra /\ s[j].pid < s[i].pid))
    BY DEF UsageOrder
  <1> HIDE DEF I, B
  <1>5. \A i \in I : i \notin B[i]
    BY <1>1, <1>4
  <1>6. \A i, j, k \in I : j \in B[i] /\ k \in B[j] => k \in B[i]
    <2> SUFFICES ASSUME NEW i \in I, NEW j \in I, NEW k \in I, j \in B[i], k \in B[j] PROVE k \in B[i]
      OBVIOUS
    <2>1. s[j].extra < s[i].extra \/ (s[j].extra = s[i].extra /\ s[j].pid < s[i].pid)
      BY <1>4
    <2>2. s[k].extra < s[j].extra \/ (s[k].extra = s[j].extra /\ s[k].pid < s[j].pid)
      BY <1>4
    <2>3. /\ s[i].extra \in Int /\ s[j].extra \in Int /\ s[k].extra \in Int
          /\ s[i].pid \in Int /\ s[j].pid \in Int /\ s[k].pid \in Int
      BY <1>1
    <2>4. s[k].extra < s[i].extra \/ (s[k].extra = s[i].extra /\ s[k].pid < s[i].pid)
      BY <2>1, <2>2, <2>3
    <2> QED
      BY <1>4, <2>4
  <1>7. \A i, j \in I : i # j => i \in B[j] \/ j \in B[i]
    <2> SUFFICES ASSUME NEW i \in I, NEW j \in I, i # j PROVE i \in B[j] \/ j \in B[i]
      OBVIOUS
    <2>1. /\ s[i].extra \in Int /\ s[j].extra \in Int /\ s[i].pid \in Int /\ s[j].pid \in Int
          /\ s[i].pid # s[j].pid
      BY <1>1, <1>2
    <2>2. \/ s[j].extra < s[i].extra \/ (s[j].extra = s[i].extra /\ s[j].pid < s[i].pid)
          \/ s[i].extra < s[j].extra \/ (s[i].extra = s[j].extra /\ s[i].pid < s[j].pid)
      BY <2>1
    <2> QED
      BY <1>4, <2>2
  <1>8. \A i, j \in I : j \in B[i] => B[j] \subseteq B[i]
    BY <1>3, <1>6
  <1>9. IsBefore(I, B)
    BY <1>3, <1>5, <1>7, <1>8 DEF IsBefore
  <1> QED
    BY <1>9 DEF I, B

LEMMA Divides ==
    ASSUME NEW m \in Nat, NEW n \in Nat, n >= 1
    PROVE  m \div n \in 0 .. m /\ (n <= m => m \div n >= 1)
  <1> DEFINE d == m \div n
             r == m % n
  <1>1. d \in Int /\ r \in Int /\ m = n * d + r /\ 0 <= r /\ r < n
    OBVIOUS
  <1> HIDE DEF d, r
  <1>2. d >= 0
    <2> SUFFICES ASSUME d <= -1 PROVE FALSE
      BY <1>1
    <2>1. n * d <= -n
      BY <1>1
    <2> QED
      BY <1>1, <2>1
  <1>3. d <= m
    <2>1. n * d >= d
      BY <1>1, <1>2
    <2> QED
      BY <1>1, <2>1
  <1>4. n <= m => d >= 1
    <2> SUFFICES ASSUME n <= m, d = 0 PROVE FALSE
      BY <1>1, <1>2
    <2>1. n * d = 0
      BY <1>1
    <2> QED
      BY <1>1, <2>1
  <1> QED
    BY <1>1, <1>2, <1>3, <1>4 DEF d

LEMMA AtMostMaxPid ==
    ASSUME Inv, Awake.ready # <<>> PROVE Len(Awake.ready) \in 1 .. MaxPid
  <1> DEFINE s == Awake.ready
             f == [i \in 1 .. Len(s) |-> s[i].pid]
  <1>1. Tally(Awake, clock + Slept, next_pid, born) /\ Sound(Awake)
    BY AwakeIs DEF Tally
  <1>2. List(s) /\ Len(s) \in Nat /\ \A i \in 1 .. Len(s) : s[i] \in Folk(Awake)
    BY <1>1, ListFacts DEF Sound, Folk
  <1>3. next_pid \in 1 .. MaxPid + 1 /\ MaxPid \in Nat
    BY QueuesAssumption DEF Inv, CountersOK
  <1>4. \A i \in 1 .. Len(s) : s[i].pid \in 1 .. MaxPid
    <2>1. \A i \in 1 .. Len(s) : s[i].pid \in 1 .. next_pid - 1
      BY <1>1, <1>2 DEF Tally
    <2> QED
      BY <1>3, <2>1
  <1>5. Len(s) # 0
    BY <1>2, EmptySeq DEF List
  <1> HIDE DEF s
  <1>6. f \in Injection(1 .. Len(s), 1 .. MaxPid)
    BY <1>2, <1>4 DEF Injection, IsInjective, List, Distinct
  <1>7. \A n \in Nat : IsFiniteSet(1 .. n) /\ Cardinality(1 .. n) = n
    BY FS_Interval
  <1>8. Cardinality(1 .. Len(s)) <= Cardinality(1 .. MaxPid)
    BY <1>3, <1>6, <1>7, FS_Injection
  <1>9. Len(s) \in 1 .. MaxPid
    BY <1>2, <1>3, <1>5, <1>7, <1>8
  <1> QED
    BY <1>9 DEF s

-----------------------------------------------------------------------------
LEMMA MoreUsed ==
    ASSUME NEW p \in Pcbs, NEW n \in Nat
    PROVE  /\ [p EXCEPT !.extra = @ + n] \in Pcbs
           /\ \A left : Billed(p, left) => Billed([p EXCEPT !.extra = @ + n], left)
           /\ Expiry(p) => Expiry([p EXCEPT !.extra = @ + n])
  <1> DEFINE m == p.extra + n
             r == [p EXCEPT !.extra = m]
  <1>1. m \in Nat
    BY DEF Pcbs
  <1>2. r = [p EXCEPT !.extra = @ + n]
    BY Zenon
  <1> HIDE DEF m
  <1>3. /\ r \in Pcbs /\ r.pid = p.pid /\ r.total = p.total /\ r.sleep = p.sleep /\ r.event = p.event
        /\ r.state = p.state /\ r.execute = p.execute /\ r.syscall = p.syscall
    BY <1>1 DEF Pcbs
  <1> HIDE DEF r
  <1>4. Cost(r) = Cost(p)
    BY <1>3 DEF Cost
  <1>5. \A left : Billed(p, left) => Billed(r, left)
    BY <1>3, <1>4 DEF Billed
  <1>6. Expiry(p) => Expiry(r)
    BY <1>3, <1>4 DEF Expiry
  <1> QED
    BY <1>2, <1>3, <1>5, <1>6

\* What the slice loses, the use gains.
LEMMA MoreUsedPays ==
    ASSUME Inv, Calls, ByUse, NEW left \in Lefts
    PROVE  Pays([Charged(left) EXCEPT !.extra = @ + Used(left)], left)
  <1> DEFINE a == Charged(left)
             n == a.extra + Used(left)
             p == [a EXCEPT !.extra = n]
  <1>1. a \in Pcbs /\ a.extra = Running.extra /\ Running.extra \in Nat
    BY ChargedLooks
  <1>2. left \in Nat /\ remaining \in Nat
    BY UsedIs, QueuesAssumption
  <1>3. p = [a EXCEPT !.extra = @ + Used(left)]
    BY Zenon
  <1> HIDE DEF a
  <1>4. n \in Nat /\ n + left = Running.extra + remaining
    BY <1>1, <1>2, UsedIs DEF Used
  <1> HIDE DEF n
  <1>5. p.extra = n
    BY <1>1 DEF Pcbs
  <1> HIDE DEF p
  <1>6. ~ByPriority
    BY Zenon DEF ByPriority, ByUse
  <1>7. Pays(p, left)
    BY <1>4, <1>5, <1>6 DEF Pays, Content
  <1> QED
    BY <1>3, <1>7 DEF a

LEMMA ChildIs ==
    ASSUME Inv, NEW least \in Nat
    PROVE  Infant([NewPcb(next_pid, 0) EXCEPT !.extra = least])
  <1> DEFINE a == NewPcb(next_pid, 0)
             c == [a EXCEPT !.extra = least]
  <1>1. Infant(a)
    BY InfantIs
  <1> HIDE DEF a
  <1>2. /\ c \in Pcbs /\ c.pid = a.pid /\ c.total = a.total /\ c.sleep = a.sleep /\ c.event = a.event
        /\ c.state = a.state /\ c.execute = a.execute /\ c.syscall = a.syscall
    BY <1>1 DEF Infant, Pcbs
  <1> HIDE DEF c
  <1>3. Infant(c)
    BY <1>1, <1>2 DEF Infant
  <1> QED
    BY <1>3 DEF c, a

-----------------------------------------------------------------------------
(* What the others see *)

Alone(is) == Seen(is, 0, NoEvent)

\* What the process p is, at the time now, while nobody runs.
Look(p, now) ==
    IF p.state # "Waiting" THEN Alone("Ready")
    ELSE IF p.event = NoEvent THEN Seen("Asleep", now + p.sleep, NoEvent)
    ELSE Seen("Waiting", 0, p.event)

\* f shows each pid below n as its process in F looks, as gone if it has none.
Shows(f, F, n, now) ==
    /\ f = [pid \in Pids |-> f[pid]]
    /\ \A pid \in Pids : pid >= n => f[pid] = Alone("Unborn")
    /\ \A pid \in Pids : pid < n =>
           \/ \E p \in F : p.pid = pid /\ f[pid] = Look(p, now)
           \/ (\A p \in F : p.pid # pid) /\ f[pid] = Alone("Gone")

\* Distinct pids, all of them given already.
Given(F, n) ==
    /\ F \in SUBSET Pcbs /\ \A p, r \in F : p.pid = r.pid => p = r
    /\ n \in 1 .. MaxPid + 1 /\ \A p \in F : p.pid \in 1 .. n - 1

LEMMA GivenPid ==
    ASSUME NEW F, NEW n, Given(F, n), NEW p \in F
    PROVE  p.pid \in Pids /\ p.pid < n /\ ~(p.pid >= n)
  BY QueuesAssumption DEF Given, Pids

LEMMA ShowsIt ==
    ASSUME NEW f, NEW F, NEW n, NEW now, Given(F, n), Shows(f, F, n, now), NEW p \in F
    PROVE  f[p.pid] = Look(p, now)
  <1>1. p.pid \in Pids /\ p.pid < n
    BY GivenPid
  <1>2. PICK r \in F : r.pid = p.pid /\ f[p.pid] = Look(r, now)
    BY <1>1 DEF Shows
  <1>3. r = p
    BY <1>2 DEF Given
  <1> QED
    BY <1>2, <1>3

LEMMA ShownOnce ==
    ASSUME NEW f, NEW g, NEW F, NEW n, NEW now, Given(F, n), Shows(f, F, n, now), Shows(g, F, n, now)
    PROVE  f = g
  <1>1. ASSUME NEW pid \in Pids PROVE f[pid] = g[pid]
    <2>1. pid >= n \/ pid < n
      BY QueuesAssumption DEF Pids, Given
    <2>2. CASE pid >= n
      BY <2>2 DEF Shows
    <2>3. CASE pid < n
      <3>1. CASE \E p \in F : p.pid = pid
        BY <3>1, ShowsIt
      <3>2. CASE \A p \in F : p.pid # pid
        BY <2>3, <3>2 DEF Shows
      <3> QED
        BY <3>1, <3>2
    <2> QED
      BY <2>1, <2>2, <2>3
  <1>2. f = [pid \in Pids |-> f[pid]] /\ g = [pid \in Pids |-> g[pid]]
    BY DEF Shows
  <1> QED
    BY <1>1, <1>2

\* The queues as the refinement sees them.
SeenIn(q, n, d, now, pid) ==
    IF pid >= n THEN Seen("Unborn", 0, NoEvent)
    ELSE IF d.kind = "Run" /\ d.pid = pid THEN Seen("Running", now + d.timeslice, NoEvent)
    ELSE LET pcbs == {p \in Range(Everyone(q)) : p.pid = pid}
             pcb == CHOOSE p \in pcbs : TRUE
         IN  CASE pcbs = {} -> Seen("Gone", 0, NoEvent)
               [] pcbs # {} /\ pcb.state # "Waiting" -> Seen("Ready", 0, NoEvent)
               [] pcbs # {} /\ pcb.state = "Waiting" ->
                      IF pcb.event = NoEvent THEN Seen("Asleep", now + pcb.sleep, NoEvent)
                      ELSE Seen("Waiting", 0, pcb.event)

Scene(q, n, d, now) == [pid \in Pids |-> SeenIn(q, n, d, now, pid)]

\* The scene when nobody runs.
Pause(q, n, now) == Scene(q, n, Plain("Stopped"), now)

LEMMA SeenLooks ==
    ASSUME NEW q, Sound(q), NEW n, Given(Folk(q), n), NEW d, NEW now, NEW pid \in Pids, pid < n,
           ~(d.kind = "Run" /\ d.pid = pid)
    PROVE  \/ \E p \in Folk(q) : p.pid = pid /\ SeenIn(q, n, d, now, pid) = Look(p, now)
           \/ (\A p \in Folk(q) : p.pid # pid) /\ SeenIn(q, n, d, now, pid) = Alone("Gone")
  <1> DEFINE pcbs == {p \in Range(Everyone(q)) : p.pid = pid}
             pcb == CHOOSE p \in pcbs : TRUE
  <1>1. ~(pid >= n)
    BY QueuesAssumption DEF Pids, Given
  <1>2. Range(Everyone(q)) = Folk(q)
    BY SoundFolk
  <1>3. CASE pcbs = {}
    <2>1. SeenIn(q, n, d, now, pid) = Seen("Gone", 0, NoEvent)
      BY <1>1, <1>3 DEF SeenIn
    <2> QED
      BY <1>2, <1>3, <2>1 DEF Alone
  <1>4. CASE pcbs # {}
    <2>1. pcb \in pcbs
      BY <1>4
    <2>2. pcb \in Folk(q) /\ pcb.pid = pid
      BY <1>2, <2>1
    <2>3. SeenIn(q, n, d, now, pid) = Look(pcb, now)
      <3>1. CASE pcb.state # "Waiting"
        BY <1>1, <1>4, <3>1 DEF SeenIn, Look, Alone
      <3>2. CASE pcb.state = "Waiting"
        BY <1>1, <1>4, <3>2 DEF SeenIn, Look, Alone
      <3> QED
        BY <3>1, <3>2
    <2> QED
      BY <2>2, <2>3
  <1> QED
    BY <1>3, <1>4

LEMMA PauseShows ==
    ASSUME NEW q, Sound(q), NEW n, Given(Folk(q), n), NEW d, d.kind # "Run", NEW now
    PROVE  Shows(Scene(q, n, d, now), Folk(q), n, now)
  <1> DEFINE f == Scene(q, n, d, now)
  <1>1. \A pid \in Pids : f[pid] = SeenIn(q, n, d, now, pid)
    BY DEF Scene
  <1>2. f = [pid \in Pids |-> f[pid]]
    BY DEF Scene
  <1>3. \A pid \in Pids : pid >= n => SeenIn(q, n, d, now, pid) = Alone("Unborn")
    BY DEF SeenIn, Alone
  <1>4. \A pid \in Pids : pid < n =>
           \/ \E p \in Folk(q) : p.pid = pid /\ SeenIn(q, n, d, now, pid) = Look(p, now)
           \/ (\A p \in Folk(q) : p.pid # pid) /\ SeenIn(q, n, d, now, pid) = Alone("Gone")
    BY SeenLooks
  <1> HIDE DEF f
  <1>5. Shows(f, Folk(q), n, now)
    BY <1>1, <1>2, <1>3, <1>4 DEF Shows
  <1> QED
    BY <1>5 DEF f

\* While nobody runs, it does not matter why.
LEMMA PauseIs ==
    ASSUME NEW q, Sound(q), NEW n, Given(Folk(q), n), NEW d, d.kind # "Run", NEW now
    PROVE  Scene(q, n, d, now) = Pause(q, n, now) /\ Shows(Pause(q, n, now), Folk(q), n, now)
  <1>1. Plain("Stopped").kind # "Run"
    BY DEF Plain
  <1>2. Shows(Scene(q, n, d, now), Folk(q), n, now) /\ Shows(Pause(q, n, now), Folk(q), n, now)
    BY <1>1, PauseShows DEF Pause
  <1> QED
    BY <1>2, ShownOnce

LEMMA RunIs ==
    ASSUME NEW q, Sound(q), NEW n, Given(Folk(q), n), NEW d, d.kind = "Run", d.pid \in 1 .. n - 1, NEW now
    PROVE  Scene(q, n, d, now) = [Pause(q, n, now) EXCEPT ![d.pid] = Seen("Running", now + d.timeslice, NoEvent)]
  <1> DEFINE e == Plain("Stopped")
  <1>1. e.kind # "Run"
    BY DEF Plain
  <1>2. d.pid \in Pids /\ ~(d.pid >= n)
    BY QueuesAssumption DEF Pids, Given
  <1> HIDE DEF e
  <1>3. \A pid \in Pids : pid # d.pid => SeenIn(q, n, d, now, pid) = SeenIn(q, n, e, now, pid)
    BY <1>1 DEF SeenIn
  <1>4. SeenIn(q, n, d, now, d.pid) = Seen("Running", now + d.timeslice, NoEvent)
    BY <1>2 DEF SeenIn
  <1>5. Scene(q, n, d, now) = [Scene(q, n, e, now) EXCEPT ![d.pid] = Seen("Running", now + d.timeslice, NoEvent)]
    BY <1>2, <1>3, <1>4 DEF Scene
  <1> QED
    BY <1>5 DEF Pause, e

-----------------------------------------------------------------------------
(* What the helpers do to what is seen *)

LEMMA AbstractStates ==
    /\ \A s : Abstract!State(s) = Alone(s)
    /\ \A t : Abstract!RunsUntil(t) = Seen("Running", t, NoEvent)
    /\ \A t : Abstract!SleepsUntil(t) = Seen("Asleep", t, NoEvent)
    /\ \A e : Abstract!WaitsFor(e) = Seen("Waiting", 0, e)
  BY DEF Abstract!State, Abstract!RunsUntil, Abstract!SleepsUntil, Abstract!WaitsFor, Alone, Seen

LEMMA SeenIs ==
    /\ \A is, until, event : /\ Seen(is, until, event).is = is /\ Seen(is, until, event).until = until
                             /\ Seen(is, until, event).event = event
    /\ \A is : Alone(is).is = is /\ Alone(is).until = 0 /\ Alone(is).event = NoEvent
  BY DEF Seen, Alone

\* Those who wake are those whose time has come.
Wakes(s, now) == s.is = "Asleep" /\ s.until <= now

LEMMA WokenIs ==
    ASSUME NEW f, NEW now
    PROVE  /\ Abstract!Woken(f, now) = [pid \in Pids |-> Abstract!Woken(f, now)[pid]]
           /\ \A pid \in Pids : /\ Wakes(f[pid], now) => Abstract!Woken(f, now)[pid] = Alone("Ready")
                                /\ ~Wakes(f[pid], now) => Abstract!Woken(f, now)[pid] = f[pid]
  <1>1. Abstract!Woken(f, now) = [pid \in Pids |-> IF Wakes(f[pid], now) THEN Alone("Ready") ELSE f[pid]]
    BY AbstractStates DEF Abstract!Woken, Wakes
  <1> QED
    BY <1>1

LEMMA NotAsleep == \A is, now : is # "Asleep" => ~Wakes(Alone(is), now)
  BY SeenIs DEF Wakes

\* What is seen of a process that time passes for.
LEMMA LaterLooks ==
    ASSUME Proper, NEW p \in Pcbs, Settled(p) \/ Absent(p), NEW r, NEW t \in Nat, Later(r, p, t), NEW now \in Nat
    PROVE  /\ Wakes(Look(p, now), now + t) => Look(r, now + t) = Alone("Ready")
           /\ ~Wakes(Look(p, now), now + t) => Look(r, now + t) = Look(p, now)
  <1>0. p.sleep \in Nat
    BY DEF Pcbs
  <1>1. CASE p.state # "Waiting"
    <2>1. Look(p, now) = Alone("Ready") /\ Look(r, now + t) = Alone("Ready")
      BY <1>1 DEF Later, Look
    <2> QED
      BY <2>1
  <1>2. CASE p.state = "Waiting" /\ p.event # NoEvent
    <2>1. p.sleep = 0
      BY <1>0, <1>2 DEF Settled, Absent
    <2>2. r.state = "Waiting" /\ r.event = p.event
      BY <1>2, <2>1 DEF Later
    <2>3. Look(p, now) = Seen("Waiting", 0, p.event) /\ Look(r, now + t) = Seen("Waiting", 0, p.event)
      BY <1>2, <2>2 DEF Look
    <2> QED
      BY <2>3, SeenIs DEF Wakes
  <1>3. CASE p.state = "Waiting" /\ p.event = NoEvent
    <2>1. p.sleep # 0 /\ r.event = NoEvent
      BY <1>0, <1>3 DEF Settled, Absent, Later
    <2>2. Look(p, now) = Seen("Asleep", now + p.sleep, NoEvent)
      BY <1>3 DEF Look
    <2>3. Look(p, now).is = "Asleep" /\ Look(p, now).until = now + p.sleep
      BY <2>2, SeenIs
    <2>4. CASE p.sleep > t
      <3>1. r.state = "Waiting" /\ r.sleep = p.sleep - t
        BY <1>3, <2>4 DEF Later
      <3>2. Look(r, now + t) = Seen("Asleep", now + t + r.sleep, NoEvent)
        BY <2>1, <3>1 DEF Look
      <3>3. now + t + r.sleep = now + p.sleep /\ ~(now + p.sleep <= now + t)
        BY <1>0, <2>4, <3>1
      <3> QED
        BY <2>2, <2>3, <3>2, <3>3 DEF Wakes
    <2>5. CASE ~(p.sleep > t)
      <3>1. r.state = "Ready"
        BY <1>3, <2>1, <2>5 DEF Later
      <3>2. Look(r, now + t) = Alone("Ready")
        BY <3>1 DEF Look
      <3>3. now + p.sleep <= now + t
        BY <1>0, <2>5
      <3> QED
        BY <2>3, <3>2, <3>3 DEF Wakes
    <2> QED
      BY <2>4, <2>5
  <1> QED
    BY <1>1, <1>2, <1>3

LEMMA EachIs == ASSUME NEW q, Sound(q), NEW p \in Folk(q) PROVE p \in Pcbs /\ (Settled(p) \/ Absent(p))
  BY SoundFolk DEF Sound, Folk

\* Time passes for the queues as it does for what is seen of them.
LEMMA TimeShows ==
    ASSUME Proper, NEW q, Sound(q), NEW n, Given(Folk(q), n), NEW now \in Nat, NEW t \in Nat,
           NEW f, Shows(f, Folk(q), n, now)
    PROVE  Shows(Abstract!Woken(f, now + t), Folk(ActualiseTimings(q, t)), n, now + t)
  <1> DEFINE w == Abstract!Woken(f, now + t)
             G == Folk(ActualiseTimings(q, t))
             h == After(q, t)
  <1>1. G = Image(h, Folk(q))
    BY TimePasses DEF Became
  <1>2. \A p \in Folk(q) : h[p] = Elapsed(p, t)
    BY DEF After
  <1>3. \A p \in Folk(q) : Later(h[p], p, t)
    BY <1>2, ElapsedIs, EachIs
  <1>4. w = [pid \in Pids |-> w[pid]]
    BY WokenIs
  <1>5. \A pid \in Pids : (Wakes(f[pid], now + t) => w[pid] = Alone("Ready")) /\ (~Wakes(f[pid], now + t) => w[pid] = f[pid])
    BY WokenIs
  <1> HIDE DEF w, G, h
  <1>6. \A pid \in Pids : pid >= n => w[pid] = Alone("Unborn")
    BY <1>5, NotAsleep DEF Shows
  <1>7. ASSUME NEW pid \in Pids, pid < n
        PROVE  \/ \E r \in G : r.pid = pid /\ w[pid] = Look(r, now + t)
               \/ (\A r \in G : r.pid # pid) /\ w[pid] = Alone("Gone")
    <2>1. CASE \E p \in Folk(q) : p.pid = pid
      <3>1. PICK p \in Folk(q) : p.pid = pid
        BY <2>1
      <3>2. f[pid] = Look(p, now)
        BY <3>1, ShowsIt
      <3>3. h[p] \in G /\ h[p].pid = pid
        BY <1>1, <1>3, <3>1 DEF Image, Later
      <3>4. /\ Wakes(Look(p, now), now + t) => Look(h[p], now + t) = Alone("Ready")
            /\ ~Wakes(Look(p, now), now + t) => Look(h[p], now + t) = Look(p, now)
        BY <1>3, EachIs, LaterLooks
      <3>5. w[pid] = Look(h[p], now + t)
        BY <1>5, <3>2, <3>4
      <3> QED
        BY <3>3, <3>5
    <2>2. CASE \A p \in Folk(q) : p.pid # pid
      <3>1. \A r \in G : r.pid # pid
        BY <1>1, <1>3, <2>2 DEF Image, Later
      <3>2. f[pid] = Alone("Gone")
        BY <1>7, <2>2 DEF Shows
      <3> QED
        BY <1>5, <3>1, <3>2, NotAsleep
    <2> QED
      BY <2>1, <2>2
  <1>8. Shows(w, G, n, now + t)
    BY <1>4, <1>6, <1>7 DEF Shows
  <1> QED
    BY <1>8 DEF w, G

\* A process comes.
LEMMA AddShows ==
    ASSUME NEW q, NEW n \in 1 .. MaxPid + 1, NEW now, NEW f, Shows(f, Folk(q), n, now),
           NEW p, NEW r, Adds(r, q, p), p.pid \in 1 .. n - 1
    PROVE  Shows([f EXCEPT ![p.pid] = Look(p, now)], Folk(r), n, now)
  <1> DEFINE g == [f EXCEPT ![p.pid] = Look(p, now)]
  <1>1. p.pid \in Pids /\ ~(p.pid >= n)
    BY QueuesAssumption DEF Pids
  <1>2. f = [pid \in Pids |-> f[pid]]
    BY DEF Shows
  <1>3. g = [pid \in Pids |-> g[pid]] /\ g[p.pid] = Look(p, now) /\ \A pid \in Pids : pid # p.pid => g[pid] = f[pid]
    BY <1>1, <1>2
  <1> HIDE DEF g
  <1>4. Folk(r) = Folk(q) \cup {p}
    BY DEF Adds
  <1>5. \A pid \in Pids : pid >= n => g[pid] = Alone("Unborn")
    BY <1>1, <1>3 DEF Shows
  <1>6. ASSUME NEW pid \in Pids, pid < n
        PROVE  \/ \E x \in Folk(r) : x.pid = pid /\ g[pid] = Look(x, now)
               \/ (\A x \in Folk(r) : x.pid # pid) /\ g[pid] = Alone("Gone")
    <2>1. CASE pid = p.pid
      BY <1>3, <1>4, <2>1
    <2>2. CASE pid # p.pid
      BY <1>3, <1>4, <1>6, <2>2 DEF Shows
    <2> QED
      BY <2>1, <2>2
  <1>7. Shows(g, Folk(r), n, now)
    BY <1>3, <1>5, <1>6 DEF Shows
  <1> QED
    BY <1>7 DEF g

\* A process goes.
LEMMA RemoveShows ==
    ASSUME NEW q, NEW n \in 1 .. MaxPid + 1, NEW now, NEW p, NEW r, Adds(r, q, p), p.pid \in 1 .. n - 1,
           NEW f, Shows(f, Folk(r), n, now)
    PROVE  Shows([f EXCEPT ![p.pid] = Alone("Gone")], Folk(q), n, now)
  <1> DEFINE g == [f EXCEPT ![p.pid] = Alone("Gone")]
  <1>1. p.pid \in Pids /\ ~(p.pid >= n)
    BY QueuesAssumption DEF Pids
  <1>2. f = [pid \in Pids |-> f[pid]]
    BY DEF Shows
  <1>3. g = [pid \in Pids |-> g[pid]] /\ g[p.pid] = Alone("Gone") /\ \A pid \in Pids : pid # p.pid => g[pid] = f[pid]
    BY <1>1, <1>2
  <1> HIDE DEF g
  <1>4. Folk(r) = Folk(q) \cup {p} /\ \A s \in Folk(q) : s.pid # p.pid
    BY DEF Adds
  <1>5. \A pid \in Pids : pid >= n => g[pid] = Alone("Unborn")
    BY <1>1, <1>3 DEF Shows
  <1>6. ASSUME NEW pid \in Pids, pid < n
        PROVE  \/ \E x \in Folk(q) : x.pid = pid /\ g[pid] = Look(x, now)
               \/ (\A x \in Folk(q) : x.pid # pid) /\ g[pid] = Alone("Gone")
    <2>1. CASE pid = p.pid
      BY <1>3, <1>4, <2>1
    <2>2. CASE pid # p.pid
      BY <1>3, <1>4, <1>6, <2>2 DEF Shows
    <2> QED
      BY <2>1, <2>2
  <1>7. Shows(g, Folk(q), n, now)
    BY <1>3, <1>5, <1>6 DEF Shows
  <1> QED
    BY <1>7 DEF g

\* A process in place of another that looks like it.
LEMMA SwapShows ==
    ASSUME NEW s, NEW q, NEW r, NEW p, NEW x, Adds(q, s, p), Adds(r, s, x), p.pid = x.pid,
           NEW n, NEW now, Look(p, now) = Look(x, now), NEW f, Shows(f, Folk(q), n, now)
    PROVE  Shows(f, Folk(r), n, now)
  <1>1. Folk(q) = Folk(s) \cup {p} /\ Folk(r) = Folk(s) \cup {x}
    BY DEF Adds
  <1> QED
    BY <1>1 DEF Shows

\* A pid is given: the process comes later.
LEMMA BirthShows ==
    ASSUME NEW F, NEW n, Given(F, n), n <= MaxPid, NEW now, NEW f, Shows(f, F, n, now)
    PROVE  Shows([f EXCEPT ![n] = Alone("Gone")], F, n + 1, now) /\ Given(F, n + 1)
  <1> DEFINE g == [f EXCEPT ![n] = Alone("Gone")]
  <1>1. n \in Pids /\ n \in Int
    BY QueuesAssumption DEF Pids, Given
  <1>2. f = [pid \in Pids |-> f[pid]]
    BY DEF Shows
  <1>3. g = [pid \in Pids |-> g[pid]] /\ g[n] = Alone("Gone") /\ \A pid \in Pids : pid # n => g[pid] = f[pid]
    BY <1>1, <1>2
  <1> HIDE DEF g
  <1>4. \A p \in F : p.pid # n
    BY <1>1, GivenPid
  <1>5. \A pid \in Pids : pid >= n + 1 => pid >= n /\ pid # n
    BY <1>1 DEF Pids
  <1>6. \A pid \in Pids : pid < n + 1 => pid < n \/ pid = n
    BY <1>1 DEF Pids
  <1>7. \A pid \in Pids : pid < n => pid # n
    BY <1>1 DEF Pids
  <1>8. Shows(g, F, n + 1, now)
    BY <1>3, <1>4, <1>5, <1>6, <1>7 DEF Shows
  <1>9. Given(F, n + 1)
    BY QueuesAssumption DEF Given
  <1> QED
    BY <1>8, <1>9 DEF g

\* Who hears a signal is ready.
HeardBy(f, signal) == [pid \in Pids |-> IF f[pid] = Seen("Waiting", 0, signal) THEN Alone("Ready") ELSE f[pid]]

LEMMA HearsLooks ==
    ASSUME Proper, NEW p, NEW r, NEW signal \in Events, Hears(r, p, signal), NEW now
    PROVE  Look(r, now) = IF Look(p, now) = Seen("Waiting", 0, signal) THEN Alone("Ready") ELSE Look(p, now)
  <1>1. signal # NoEvent
    BY DEF Proper
  <1>2. CASE p.state = "Waiting" /\ p.event = signal
    <2>1. Look(p, now) = Seen("Waiting", 0, signal)
      BY <1>1, <1>2 DEF Look
    <2>2. r.state = "Ready"
      BY <1>2 DEF Hears
    <2>3. Look(r, now) = Alone("Ready")
      BY <2>2 DEF Look
    <2> QED
      BY <2>1, <2>3
  <1>3. CASE ~(p.state = "Waiting" /\ p.event = signal)
    <2>1. r.state = p.state /\ r.event = p.event /\ r.sleep = p.sleep
      BY <1>3 DEF Hears
    <2>2. Look(r, now) = Look(p, now)
      BY <2>1 DEF Look
    <2>3. Look(p, now) # Seen("Waiting", 0, signal)
      BY <1>1, <1>3, SeenIs DEF Look
    <2> QED
      BY <2>2, <2>3
  <1> QED
    BY <1>2, <1>3

LEMMA SignalShows ==
    ASSUME Proper, NEW q, Sound(q), NEW n, Given(Folk(q), n), NEW now, NEW signal \in Events,
           NEW f, Shows(f, Folk(q), n, now)
    PROVE  Shows(HeardBy(f, signal), Folk(UpdateWaiting(q, signal)), n, now)
  <1> DEFINE w == HeardBy(f, signal)
             G == Folk(UpdateWaiting(q, signal))
             h == Signalled(q, signal)
  <1>1. G = Image(h, Folk(q))
    BY SignalIsHeard DEF Became
  <1>2. \A p \in Folk(q) : h[p] = Heard(p, signal)
    BY DEF Signalled
  <1>3. \A p \in Folk(q) : Hears(h[p], p, signal)
    BY <1>2, HeardIs, EachIs
  <1>4. w = [pid \in Pids |-> w[pid]]
    BY DEF HeardBy
  <1>5. \A pid \in Pids : w[pid] = IF f[pid] = Seen("Waiting", 0, signal) THEN Alone("Ready") ELSE f[pid]
    BY DEF HeardBy
  <1> HIDE DEF w, G, h
  <1>6. \A pid \in Pids : pid >= n => w[pid] = Alone("Unborn")
    BY <1>5, SeenIs DEF Shows
  <1>7. ASSUME NEW pid \in Pids, pid < n
        PROVE  \/ \E r \in G : r.pid = pid /\ w[pid] = Look(r, now)
               \/ (\A r \in G : r.pid # pid) /\ w[pid] = Alone("Gone")
    <2>1. CASE \E p \in Folk(q) : p.pid = pid
      <3>1. PICK p \in Folk(q) : p.pid = pid
        BY <2>1
      <3>2. f[pid] = Look(p, now)
        BY <3>1, ShowsIt
      <3>3. h[p] \in G /\ h[p].pid = pid
        BY <1>1, <1>3, <3>1 DEF Image, Hears
      <3>4. w[pid] = Look(h[p], now)
        BY <1>3, <1>5, <3>2, HearsLooks
      <3> QED
        BY <3>3, <3>4
    <2>2. CASE \A p \in Folk(q) : p.pid # pid
      <3>1. \A r \in G : r.pid # pid
        BY <1>1, <1>3, <2>2 DEF Image, Hears
      <3>2. f[pid] = Alone("Gone")
        BY <1>7, <2>2 DEF Shows
      <3> QED
        BY <1>5, <3>1, <3>2, SeenIs
    <2> QED
      BY <2>1, <2>2
  <1>8. Shows(w, G, n, now)
    BY <1>4, <1>6, <1>7 DEF Shows
  <1> QED
    BY <1>8 DEF w, G

\* Nobody who sleeps is to be awake already.
LEMMA NoneWakesNow ==
    ASSUME Proper, NEW q, Sound(q), NEW n, Given(Folk(q), n), NEW now \in Nat, NEW f, Shows(f, Folk(q), n, now)
    PROVE  Abstract!Woken(f, now) = f
  <1>1. ASSUME NEW pid \in Pids PROVE ~Wakes(f[pid], now)
    <2>1. pid >= n \/ pid < n
      BY QueuesAssumption DEF Pids, Given
    <2>2. CASE \E p \in Folk(q) : f[pid] = Look(p, now)
      <3>1. PICK p \in Folk(q) : f[pid] = Look(p, now)
        BY <2>2
      <3>2. p.sleep \in Nat /\ (Settled(p) \/ Absent(p))
        BY EachIs DEF Pcbs
      <3>3. CASE p.state = "Waiting" /\ p.event = NoEvent
        <4>1. p.sleep >= 1
          BY <3>2, <3>3 DEF Settled, Absent
        <4>2. Look(p, now).until = now + p.sleep
          BY <3>3, SeenIs DEF Look
        <4>3. ~(now + p.sleep <= now)
          BY <3>2, <4>1
        <4> QED
          BY <3>1, <4>2, <4>3 DEF Wakes
      <3>4. CASE ~(p.state = "Waiting" /\ p.event = NoEvent)
        BY <3>1, <3>4, SeenIs DEF Look, Wakes
      <3> QED
        BY <3>3, <3>4
    <2>3. CASE f[pid] = Alone("Unborn") \/ f[pid] = Alone("Gone")
      BY <2>3, NotAsleep
    <2> QED
      BY <2>1, <2>2, <2>3 DEF Shows
  <1>2. \A pid \in Pids : Abstract!Woken(f, now)[pid] = f[pid]
    BY <1>1, WokenIs
  <1>3. f = [pid \in Pids |-> f[pid]] /\ Abstract!Woken(f, now) = [pid \in Pids |-> Abstract!Woken(f, now)[pid]]
    BY WokenIs DEF Shows
  <1> QED
    BY <1>2, <1>3

-----------------------------------------------------------------------------
(* The turns *)

HasFirst(q) == \E p \in Folk(q) : p.pid = 1

\* The processor sleeps, for as long as the first process to wake.
Napping == ready = <<>> /\ Sleepers(Queues) # {} /\ sleep_time = MinimumSleepTime(Queues)

\* What the last decision says of the queues.
Turn ==
    /\ decision.kind \in {"Start", "Stopped", "Run", "Sleep", "Done", "Panic", "Deadlock"}
    /\ decision.kind # "Start" => next_pid >= 2
    /\ sleep = (decision.kind = "Sleep")
    /\ decision.kind = "Run" =>
           decision.pid = Running.pid /\ decision.timeslice = remaining /\ remaining >= 1
    /\ FrontRuns(Queues) => HasFirst(Queues)
    /\ decision.kind = "Sleep" => HasFirst(Queues) /\ Napping

SeenNow == [pid \in Pids |-> SeenAs(pid)]

Verdict == IF decision.kind \in {"Start", "Stopped", "Run", "Sleep"} THEN "none" ELSE decision.kind

LEMMA SceneNow ==
    /\ SeenNow = Scene(Queues, next_pid, decision, clock)
    /\ SeenNow' = Scene(Queues', next_pid', decision', clock')
  BY DEF SeenNow, SeenAs, Scene, SeenIn

LEMMA TallyGiven ==
    ASSUME NEW q, NEW now, NEW n \in 1 .. MaxPid + 1, NEW b, Tally(q, now, n, b)
    PROVE  Sound(q) /\ Given(Folk(q), n)
  BY SoundFolk DEF Tally, Given

LEMMA GivenNow ==
    ASSUME Inv
    PROVE  /\ Sound(Queues) /\ Given(Folk(Queues), next_pid)
           /\ clock \in Nat /\ next_pid \in 1 .. MaxPid + 1 /\ next_pid \in Nat
           /\ Shows(Pause(Queues, next_pid, clock), Folk(Queues), next_pid, clock)
           /\ decision.kind # "Run" => SeenNow = Pause(Queues, next_pid, clock)
  <1>1. clock \in Nat /\ next_pid \in 1 .. MaxPid + 1 /\ next_pid \in Nat
    BY QueuesAssumption DEF Inv, CountersOK
  <1>2. Sound(Queues) /\ Given(Folk(Queues), next_pid)
    BY <1>1, TallyGiven DEF Inv
  <1>3. Plain("Stopped").kind # "Run"
    BY DEF Plain
  <1>4. Shows(Pause(Queues, next_pid, clock), Folk(Queues), next_pid, clock)
    BY <1>2, <1>3, PauseIs
  <1>5. decision.kind # "Run" => SeenNow = Pause(Queues, next_pid, clock)
    BY <1>2, PauseIs, SceneNow
  <1> QED
    BY <1>1, <1>2, <1>4, <1>5

\* What is seen after a step that leaves the queues q, with nobody running.
LEMMA PauseNext ==
    ASSUME NEW q, Sound(q), NEW now, Become(q, now), decision'.kind # "Run", Given(Folk(q), next_pid'),
           NEW f, Shows(f, Folk(q), next_pid', now)
    PROVE  SeenNow' = f /\ clock' = now
  <1>1. Queues' = q /\ clock' = now
    BY NextQueues
  <1>2. /\ Scene(q, next_pid', decision', now) = Pause(q, next_pid', now)
        /\ Shows(Pause(q, next_pid', now), Folk(q), next_pid', now)
    BY PauseIs
  <1>3. Pause(q, next_pid', now) = f
    BY <1>2, ShownOnce
  <1> QED
    BY <1>1, <1>2, <1>3, SceneNow

\* The others, seen while the running process k is taken out.
Aside(k) == [Pause(Queues, next_pid, clock) EXCEPT ![k] = Alone("Gone")]

LEMMA TwiceSet ==
    ASSUME NEW f, f = [pid \in Pids |-> f[pid]], NEW k, NEW x, NEW y
    PROVE  [[f EXCEPT ![k] = x] EXCEPT ![k] = y] = [f EXCEPT ![k] = y]
  OBVIOUS

LEMMA RunningSeen ==
    ASSUME Inv, Turn, Calls
    PROVE  /\ Running.pid \in Pids /\ Running.pid \in 1 .. next_pid - 1
           /\ SeenNow[Running.pid] = Seen("Running", clock + remaining, NoEvent)
           /\ Running.pid \in Abstract!In("Running")
           /\ \A x : [SeenNow EXCEPT ![Running.pid] = x] = [Aside(Running.pid) EXCEPT ![Running.pid] = x]
           /\ Shows(Aside(Running.pid), Folk(Others), next_pid, clock)
           /\ Given(Folk(Others), next_pid)
           /\ SeenNow = [pid \in Pids |-> SeenNow[pid]]
           /\ \A pid \in Pids : pid # Running.pid => SeenNow[pid] = Aside(Running.pid)[pid]
  <1> DEFINE k == Running.pid
             v == Pause(Queues, next_pid, clock)
  <1>1. k \in 1 .. next_pid - 1 /\ Adds(Queues, Others, Running) /\ Tally(Others, clock, next_pid, born)
    BY RunningIs
  <1>2. decision.kind = "Run" /\ decision.pid = k /\ decision.timeslice = remaining
    BY DEF Turn, Calls
  <1>3. Sound(Queues) /\ Given(Folk(Queues), next_pid) /\ next_pid \in 1 .. MaxPid + 1
    BY GivenNow
  <1>4. Scene(Queues, next_pid, decision, clock) =
            [v EXCEPT ![decision.pid] = Seen("Running", clock + decision.timeslice, NoEvent)]
    BY <1>1, <1>2, <1>3, RunIs
  <1>5. Shows(v, Folk(Queues), next_pid, clock)
    BY GivenNow
  <1>6. k \in Pids
    BY <1>1, <1>3, QueuesAssumption DEF Pids
  <1>7. v = [pid \in Pids |-> v[pid]]
    BY <1>5 DEF Shows
  <1> HIDE DEF k, v
  <1>8. SeenNow = [v EXCEPT ![k] = Seen("Running", clock + remaining, NoEvent)]
    BY <1>2, <1>4, SceneNow
  <1>9. Shows([v EXCEPT ![k] = Alone("Gone")], Folk(Others), next_pid, clock)
    BY <1>1, <1>3, <1>5, RemoveShows DEF k
  <1>10. SeenNow[k] = Seen("Running", clock + remaining, NoEvent) /\ SeenNow = [pid \in Pids |-> SeenNow[pid]]
    BY <1>6, <1>7, <1>8
  <1>11. k \in Abstract!In("Running")
    BY <1>6, <1>10, SeenIs DEF Abstract!In, SeenNow
  <1>12. \A x : [SeenNow EXCEPT ![k] = x] = [Aside(k) EXCEPT ![k] = x]
    BY <1>7, <1>8, TwiceSet DEF Aside, v
  <1>13. Given(Folk(Others), next_pid)
    BY <1>1, <1>3, TallyGiven
  <1>14. \A pid \in Pids : pid # k => SeenNow[pid] = Aside(k)[pid]
    BY <1>7, <1>8 DEF Aside, v
  <1> QED
    BY <1>1, <1>6, <1>9, <1>10, <1>11, <1>12, <1>13, <1>14 DEF k, v, Aside

\* The abstract stop of the running process, given what is seen afterwards.
LEMMA StopIsSeen ==
    ASSUME Inv, Turn, Calls, NEW q, NEW t \in 1 .. remaining, NEW left, Stops(q, t, left),
           Sound(q), Given(Folk(q), next_pid'),
           NEW f, Shows(Abstract!Woken(f, clock + t), Folk(q), next_pid', clock + t)
    PROVE  /\ Abstract!Stops(Running.pid, clock + t, f)
           /\ clock + t \in clock + 1 .. SeenNow[Running.pid].until
  <1>1. Become(q, clock + t) /\ decision' = Plain("Stopped")
    BY DEF Stops
  <1>2. decision'.kind = "Stopped" /\ decision.kind = "Run"
    BY <1>1 DEF Plain, Calls
  <1>3. SeenNow' = Abstract!Woken(f, clock + t) /\ clock' = clock + t
    BY <1>1, <1>2, PauseNext
  <1>4. SeenNow[Running.pid] = Seen("Running", clock + remaining, NoEvent)
    BY RunningSeen
  <1>5. SeenNow[Running.pid].is = "Running" /\ SeenNow[Running.pid].until = clock + remaining
    BY <1>4, SeenIs
  <1>6. Verdict' = Verdict
    BY <1>2 DEF Verdict
  <1>7. clock \in Nat /\ remaining \in Nat
    BY DEF Inv, CountersOK
  <1>8. clock + t \in clock + 1 .. clock + remaining
    BY <1>7
  <1> QED
    BY <1>3, <1>5, <1>6, <1>8 DEF Abstract!Stops, SeenNow, Verdict

-----------------------------------------------------------------------------
(* stop() is a step of Scheduling *)

LEMMA NextGiven ==
    ASSUME Inv', NEW q, Sound(q), NEW now, Become(q, now)
    PROVE  Given(Folk(q), next_pid') /\ next_pid' \in 1 .. MaxPid + 1
  <1>1. Queues' = q
    BY NextQueues
  <1>2. next_pid' \in 1 .. MaxPid + 1 /\ Tally(Queues', clock', next_pid', born')
    BY DEF Inv, CountersOK
  <1> QED
    BY <1>1, <1>2, TallyGiven

\* Process 1 stays where it is, unless it exits.
LEMMA FirstStays ==
    /\ \A q, t : Sound(q) /\ t \in Nat /\ HasFirst(q) => HasFirst(ActualiseTimings(q, t))
    /\ \A q, signal : Sound(q) /\ signal \in Events /\ HasFirst(q) => HasFirst(UpdateWaiting(q, signal))
    /\ \A q, r, p : Adds(r, q, p) => (HasFirst(r) <=> HasFirst(q) \/ p.pid = 1)
  <1>1. ASSUME NEW q, NEW t, Sound(q), t \in Nat, HasFirst(q) PROVE HasFirst(ActualiseTimings(q, t))
    <2> DEFINE h == After(q, t)
    <2>1. Folk(ActualiseTimings(q, t)) = Image(h, Folk(q))
      BY <1>1, TimePasses DEF Became
    <2>2. PICK p \in Folk(q) : p.pid = 1
      BY <1>1 DEF HasFirst
    <2>3. h[p] = Elapsed(p, t)
      BY DEF After
    <2>4. h[p].pid = 1
      BY <1>1, <2>2, <2>3, ElapsedIs, EachIs DEF Later
    <2>5. h[p] \in Image(h, Folk(q))
      BY DEF Image
    <2> QED
      BY <2>1, <2>4, <2>5 DEF HasFirst
  <1>2. ASSUME NEW q, NEW signal, Sound(q), signal \in Events, HasFirst(q) PROVE HasFirst(UpdateWaiting(q, signal))
    <2> DEFINE h == Signalled(q, signal)
    <2>1. Folk(UpdateWaiting(q, signal)) = Image(h, Folk(q))
      BY <1>2, SignalIsHeard DEF Became
    <2>2. PICK p \in Folk(q) : p.pid = 1
      BY <1>2 DEF HasFirst
    <2>3. h[p] = Heard(p, signal)
      BY DEF Signalled
    <2>4. h[p].pid = 1
      BY <1>2, <2>2, <2>3, HeardIs, EachIs DEF Hears
    <2>5. h[p] \in Image(h, Folk(q))
      BY DEF Image
    <2> QED
      BY <2>1, <2>4, <2>5 DEF HasFirst
  <1>3. ASSUME NEW q, NEW r, NEW p, Adds(r, q, p) PROVE HasFirst(r) <=> HasFirst(q) \/ p.pid = 1
    BY <1>3 DEF Adds, HasFirst
  <1> QED
    BY <1>1, <1>2, <1>3

LEMMA FirstRunsOn ==
    ASSUME Inv, Turn, Calls
    PROVE  HasFirst(Others) \/ Running.pid = 1
  <1>1. HasFirst(Queues)
    BY DEF Inv, Turn, Calls
  <1> QED
    BY <1>1, RunningIs, FirstStays

LEMMA StopKeepsTurn ==
    ASSUME Inv, Turn, NEW q, NEW t, NEW left, Stops(q, t, left), Sound(q), next_pid' >= next_pid,
           next_pid' \in Nat, FrontRuns(q) => HasFirst(q)
    PROVE  Turn'
  <1>1. Become(q, clock + t) /\ decision' = Plain("Stopped") /\ sleep' = sleep /\ decision.kind = "Run"
    BY DEF Stops, Calls
  <1>2. decision'.kind = "Stopped"
    BY <1>1 DEF Plain
  <1>3. Queues' = q
    BY <1>1, NextQueues
  <1>4. next_pid >= 2 /\ sleep = FALSE
    BY <1>1 DEF Turn
  <1>5. next_pid' >= 2
    BY <1>4, GivenNow
  <1>6. sleep' = (decision'.kind = "Sleep")
    BY <1>1, <1>2, <1>4
  <1>7. FrontRuns(Queues') => HasFirst(Queues')
    BY <1>3
  <1> QED
    BY <1>2, <1>5, <1>6, <1>7 DEF Turn

LEMMA WokenSet ==
    ASSUME NEW f, f = [pid \in Pids |-> f[pid]], NEW k \in Pids, NEW s, NEW now, ~Wakes(s, now)
    PROVE  Abstract!Woken([f EXCEPT ![k] = s], now) = [Abstract!Woken(f, now) EXCEPT ![k] = s]
  <1> DEFINE g == [f EXCEPT ![k] = s]
             w == Abstract!Woken(f, now)
             x == Abstract!Woken(g, now)
             y == [w EXCEPT ![k] = s]
  <1>1. g[k] = s /\ \A pid \in Pids : pid # k => g[pid] = f[pid]
    OBVIOUS
  <1>2. w = [pid \in Pids |-> w[pid]] /\ x = [pid \in Pids |-> x[pid]]
    BY WokenIs
  <1>3. \A pid \in Pids : (Wakes(f[pid], now) => w[pid] = Alone("Ready")) /\ (~Wakes(f[pid], now) => w[pid] = f[pid])
    BY WokenIs
  <1>4. \A pid \in Pids : (Wakes(g[pid], now) => x[pid] = Alone("Ready")) /\ (~Wakes(g[pid], now) => x[pid] = g[pid])
    BY WokenIs
  <1> HIDE DEF g, w, x
  <1>5. y = [pid \in Pids |-> y[pid]] /\ y[k] = s /\ \A pid \in Pids : pid # k => y[pid] = w[pid]
    BY <1>2
  <1> HIDE DEF y
  <1>6. \A pid \in Pids : x[pid] = y[pid]
    BY <1>1, <1>3, <1>4, <1>5
  <1>7. x = y
    BY <1>2, <1>5, <1>6
  <1> QED
    BY <1>7 DEF g, w, x, y

LEMMA CallIsNext ==
    ASSUME NEW k \in Abstract!In("Running"), NEW now \in clock + 1 .. SeenNow[k].until,
           \/ Abstract!Fork(k, now)
           \/ Abstract!Exit(k, now)
           \/ \E d \in SleepTimes : Abstract!Sleep(k, now, d)
           \/ \E e \in Events : Abstract!Wait(k, now, e) \/ Abstract!Signal(k, now, e)
    PROVE  Abstract!SchedNext
  BY DEF Abstract!SchedNext, SeenNow

LEMMA GivenAdds ==
    ASSUME NEW q, NEW n, Given(Folk(q), n), NEW p, NEW r, Adds(r, q, p), p.pid \in 1 .. n - 1
    PROVE  Given(Folk(r), n)
  <1>1. Sound(r) /\ Folk(r) = Folk(q) \cup {p}
    BY DEF Adds
  <1>2. Folk(r) \in SUBSET Pcbs /\ \A x, y \in Folk(r) : x.pid = y.pid => x = y
    BY <1>1, SoundFolk
  <1> QED
    BY <1>1, <1>2 DEF Given

\* The others, while time passes for them.
LEMMA OthersLater ==
    ASSUME Proper, Inv, Turn, Calls, NEW t \in Nat
    PROVE  /\ Shows(Abstract!Woken(Aside(Running.pid), clock + t), Folk(ActualiseTimings(Others, t)), next_pid, clock + t)
           /\ Sound(ActualiseTimings(Others, t))
           /\ HasFirst(ActualiseTimings(Others, t)) \/ Running.pid = 1
           /\ Aside(Running.pid) = [pid \in Pids |-> Aside(Running.pid)[pid]]
           /\ Running.pid \in Pids /\ Running.pid \in 1 .. next_pid - 1
           /\ next_pid \in 1 .. MaxPid + 1
  <1>1. Sound(Others)
    BY RunningIs DEF Still
  <1>2. Shows(Aside(Running.pid), Folk(Others), next_pid, clock) /\ Given(Folk(Others), next_pid)
    BY RunningSeen
  <1>3. Sound(ActualiseTimings(Others, t))
    BY <1>1, TimePasses DEF Became
  <1>4. HasFirst(ActualiseTimings(Others, t)) \/ Running.pid = 1
    BY <1>1, FirstRunsOn, FirstStays
  <1>5. clock \in Nat
    BY GivenNow
  <1>6. Shows(Abstract!Woken(Aside(Running.pid), clock + t), Folk(ActualiseTimings(Others, t)), next_pid, clock + t)
    BY <1>1, <1>2, <1>5, TimeShows
  <1> QED
    BY <1>2, <1>3, <1>4, <1>6, RunningSeen, GivenNow DEF Shows

\* A process that was running is seen as ready.
LEMMA ReadyLooks == \A p, now : p.state # "Waiting" => Look(p, now) = Alone("Ready")
  BY DEF Look

\* The running process, charged and still in front.
LEMMA ChargeShows ==
    ASSUME Proper, Inv, Turn, Calls, NEW left \in Lefts, NEW p, Billed(p, left)
    PROVE  /\ Shows(Abstract!Woken([SeenNow EXCEPT ![Running.pid] = Alone("Ready")], clock + Used(left)),
                    Folk(Charge(p, left)), next_pid, clock + Used(left))
           /\ Sound(Charge(p, left)) /\ HasFirst(Charge(p, left))
           /\ Given(Folk(Charge(p, left)), next_pid)
  <1> DEFINE f == [SeenNow EXCEPT ![Running.pid] = Alone("Ready")]
  <1>1. /\ Sound(Resumed(p)) /\ Folk(Resumed(p)) = Folk(Others) \cup {p}
        /\ \A s \in Folk(Others) : s.pid # p.pid
        /\ Tally(Resumed(p), clock, next_pid, born)
    BY ResumedIs
  <1>2. Adds(Resumed(p), Others, p)
    BY <1>1 DEF Adds
  <1>3. clock \in Nat /\ next_pid \in 1 .. MaxPid + 1
    BY GivenNow
  <1>4. Given(Folk(Resumed(p)), next_pid)
    BY <1>1, <1>3, TallyGiven
  <1>5. p.pid = Running.pid /\ Look(p, clock) = Alone("Ready") /\ p.pid \in 1 .. next_pid - 1
    <2>1. p.pid = Running.pid /\ p.state = "Running"
      BY RunningIs DEF Billed
    <2> QED
      BY <2>1, ReadyLooks, RunningSeen
  <1>6. f = [Aside(Running.pid) EXCEPT ![p.pid] = Look(p, clock)]
    BY <1>5, RunningSeen
  <1> HIDE DEF f
  <1>7. Shows(f, Folk(Resumed(p)), next_pid, clock)
    BY <1>2, <1>3, <1>5, <1>6, RunningSeen, AddShows
  <1>8. Used(left) \in Nat
    BY UsedIs
  <1>9. Shows(Abstract!Woken(f, clock + Used(left)), Folk(Charge(p, left)), next_pid, clock + Used(left))
    BY <1>1, <1>3, <1>4, <1>7, <1>8, TimeShows DEF Charge
  <1>10. HasFirst(Resumed(p))
    BY <1>2, <1>5, FirstRunsOn, FirstStays
  <1>11. HasFirst(Charge(p, left))
    BY <1>1, <1>8, <1>10, FirstStays DEF Charge
  <1>12. Sound(Charge(p, left)) /\ Given(Folk(Charge(p, left)), next_pid)
    BY <1>3, ChargeIs, TallyGiven
  <1> QED
    BY <1>9, <1>11, <1>12 DEF f

\* The time of a call is within the slice.
LEMMA WithinSlice ==
    ASSUME Inv, NEW left \in Lefts
    PROVE  Used(left) \in 1 .. remaining /\ Used(left) \in Nat
  BY UsedIs

LEMMA ForkIsSeen ==
    ASSUME Proper, Inv, Turn, Inv', NEW left \in Lefts, NEW p, Billed(p, left), NEW c, Infant(c), ForkBy(p, left, c)
    PROVE  Abstract!SchedNext /\ Turn'
  <1> DEFINE k == Running.pid
             n == next_pid
             now == clock + Used(left)
             q == Charge(p, left)
             r == [q EXCEPT !.ready = Append(@, c)]
             f == [SeenNow EXCEPT ![k] = Alone("Ready")]
             g == [f EXCEPT ![n] = Alone("Ready")]
             w == Abstract!Woken(f, now)
  <1>1. n <= MaxPid /\ Stops(r, Used(left), left) /\ next_pid' = n + 1
    BY DEF ForkBy, Charge, Resumed
  <1>2. Calls /\ Become(r, now)
    BY <1>1 DEF Stops
  <1>3. Shows(w, Folk(q), n, now) /\ Sound(q) /\ HasFirst(q) /\ Given(Folk(q), n)
    BY <1>2, ChargeShows
  <1>4. n \in Pids /\ n \in Nat /\ n + 1 \in 1 .. MaxPid + 1
    BY <1>1, GivenNow, QueuesAssumption DEF Pids
  <1>5. c \in Pcbs /\ Settled(c) /\ IsReady(c) /\ c.pid = n /\ Look(c, now) = Alone("Ready")
    BY ReadyLooks DEF Infant, Settled, IsReady
  <1>6. SeenNow = [pid \in Pids |-> SeenNow[pid]] /\ k \in Pids /\ k \in 1 .. n - 1
    BY <1>2, RunningSeen
  <1>7. f = [pid \in Pids |-> f[pid]] /\ f[k] = Alone("Ready") /\ \A pid \in Pids : pid # k => f[pid] = SeenNow[pid]
    BY <1>6
  <1> HIDE DEF q, r, w, now
  <1>8. Adds(r, q, c) /\ Sound(r)
    <2>1. \A s \in Folk(q) : s.pid # c.pid
      BY <1>3, <1>4, <1>5, GivenPid
    <2>2. Adds(r, q, c)
      BY <1>3, <1>5, <2>1, PutBehind DEF r
    <2> QED
      BY <2>2 DEF Adds
  <1>9. Shows([w EXCEPT ![n] = Alone("Gone")], Folk(q), n + 1, now)
    BY <1>1, <1>3, BirthShows
  <1>10. Shows([[w EXCEPT ![n] = Alone("Gone")] EXCEPT ![n] = Alone("Ready")], Folk(r), n + 1, now)
    <2>1. c.pid \in 1 .. (n + 1) - 1
      BY <1>4, <1>5, QueuesAssumption DEF Pids
    <2> DEFINE x == [w EXCEPT ![n] = Alone("Gone")]
    <2>2. Shows(x, Folk(q), n + 1, now)
      BY <1>9
    <2> HIDE DEF x
    <2>3. Shows([x EXCEPT ![c.pid] = Look(c, now)], Folk(r), n + 1, now)
      BY <1>4, <1>8, <2>1, <2>2, AddShows
    <2> QED
      BY <1>5, <2>3 DEF x
  <1>11. w = [pid \in Pids |-> w[pid]]
    BY <1>3 DEF Shows
  <1>12. Shows([w EXCEPT ![n] = Alone("Ready")], Folk(r), n + 1, now)
    BY <1>10, <1>11, TwiceSet
  <1>13. Shows(Abstract!Woken(g, now), Folk(r), next_pid', now)
    <2>1. ~Wakes(Alone("Ready"), now)
      BY NotAsleep
    <2> HIDE DEF f
    <2>2. Abstract!Woken(g, now) = [w EXCEPT ![n] = Alone("Ready")]
      BY <1>4, <1>7, <2>1, WokenSet DEF w
    <2> QED
      BY <1>1, <1>12, <2>2
  <1>14. Given(Folk(r), next_pid')
    BY <1>2, <1>8, NextGiven
  <1>15. Used(left) \in 1 .. remaining
    BY WithinSlice
  <1> HIDE DEF f, g
  <1>16. Abstract!Stops(k, now, g) /\ now \in clock + 1 .. SeenNow[k].until
    BY <1>1, <1>2, <1>8, <1>13, <1>14, <1>15, StopIsSeen DEF now
  <1>17. n \in Abstract!In("Unborn") /\ \A pid \in Abstract!In("Unborn") : n <= pid
    <2>1. Shows(Aside(k), Folk(Others), n, clock)
      BY <1>2, RunningSeen
    <2>2. \A pid \in Pids : pid # k => SeenNow[pid] = Aside(k)[pid]
      BY <1>2, RunningSeen
    <2>3. SeenNow[n].is = "Unborn"
      <3>1. n # k /\ n >= n
        BY <1>4, <1>6
      <3>2. Aside(k)[n] = Alone("Unborn")
        BY <1>4, <2>1, <3>1 DEF Shows
      <3> QED
        BY <1>4, <2>2, <3>1, <3>2, SeenIs
    <2>4. \A x : Look(x, clock).is # "Unborn"
      BY SeenIs DEF Look
    <2>5. ASSUME NEW pid \in Pids, SeenNow[pid].is = "Unborn" PROVE n <= pid
      <3>1. SUFFICES ASSUME pid < n PROVE FALSE
        BY <1>4 DEF Pids
      <3>2. CASE pid = k
        <4>1. SeenNow[k].is = "Running"
          BY <1>2, RunningSeen, SeenIs
        <4> QED
          BY <2>5, <3>2, <4>1
      <3>3. CASE pid # k
        <4>1. SeenNow[pid] = Aside(k)[pid]
          BY <2>2, <3>3
        <4>2. (\E x \in Folk(Others) : Aside(k)[pid] = Look(x, clock)) \/ Aside(k)[pid] = Alone("Gone")
          BY <2>1, <3>1 DEF Shows
        <4> QED
          BY <2>4, <2>5, <4>1, <4>2, SeenIs
      <3> QED
        BY <3>2, <3>3
    <2> QED
      BY <1>4, <2>3, <2>5 DEF Abstract!In, SeenNow
  <1>18. g = [SeenNow EXCEPT ![k] = Abstract!State("Ready"), ![n] = Abstract!State("Ready")]
    BY AbstractStates DEF f, g
  <1>19. Abstract!Fork(k, now)
    BY <1>16, <1>17, <1>18 DEF Abstract!Fork, SeenNow
  <1>20. Abstract!SchedNext
    BY <1>2, <1>16, <1>19, RunningSeen, CallIsNext
  <1>21. HasFirst(r) /\ next_pid' >= next_pid /\ next_pid' \in Nat
    BY <1>1, <1>3, <1>4, <1>8, FirstStays
  <1>22. Turn'
    BY <1>1, <1>8, <1>21, StopKeepsTurn
  <1> QED
    BY <1>20, <1>22

LEMMA SignalIsSeen ==
    ASSUME Proper, Inv, Turn, Inv', NEW left \in Lefts, NEW p, Billed(p, left), NEW signal \in Events,
           SignalBy(p, left, signal)
    PROVE  Abstract!SchedNext /\ Turn'
  <1> DEFINE k == Running.pid
             n == next_pid
             now == clock + Used(left)
             q == Charge(p, left)
             r == UpdateWaiting(q, signal)
             f == [SeenNow EXCEPT ![k] = Alone("Ready")]
             g == [pid \in Pids |-> IF pid = k \/ SeenNow[pid] = Abstract!WaitsFor(signal)
                                    THEN Abstract!State("Ready") ELSE SeenNow[pid]]
             w == Abstract!Woken(f, now)
             x == Abstract!Woken(g, now)
             y == HeardBy(w, signal)
  <1>1. Stops(r, Used(left), left) /\ next_pid' = n
    BY DEF SignalBy, Charge, Resumed
  <1>2. Calls /\ Become(r, now)
    BY <1>1 DEF Stops
  <1>3. Shows(w, Folk(q), n, now) /\ Sound(q) /\ HasFirst(q) /\ Given(Folk(q), n)
    BY <1>2, ChargeShows
  <1>4. SeenNow = [pid \in Pids |-> SeenNow[pid]] /\ k \in Pids
    BY <1>2, RunningSeen
  <1>5. f[k] = Alone("Ready") /\ \A pid \in Pids : pid # k => f[pid] = SeenNow[pid]
    BY <1>4
  <1>6. \A pid \in Pids : g[pid] = IF pid = k \/ SeenNow[pid] = Seen("Waiting", 0, signal) THEN Alone("Ready") ELSE SeenNow[pid]
    BY AbstractStates
  <1>7. \A pid \in Pids : (Wakes(f[pid], now) => w[pid] = Alone("Ready")) /\ (~Wakes(f[pid], now) => w[pid] = f[pid])
    BY WokenIs
  <1>8. \A pid \in Pids : (Wakes(g[pid], now) => x[pid] = Alone("Ready")) /\ (~Wakes(g[pid], now) => x[pid] = g[pid])
    BY WokenIs
  <1>9. \A pid \in Pids : y[pid] = IF w[pid] = Seen("Waiting", 0, signal) THEN Alone("Ready") ELSE w[pid]
    BY DEF HeardBy
  <1>10. x = [pid \in Pids |-> x[pid]] /\ y = [pid \in Pids |-> y[pid]]
    BY WokenIs DEF HeardBy
  <1> HIDE DEF q, r, w, now, f, g, x, y
  <1>11. ~Wakes(Alone("Ready"), now) /\ ~Wakes(Seen("Waiting", 0, signal), now) /\ Alone("Ready") # Seen("Waiting", 0, signal)
    <2>1. Alone("Ready").is = "Ready" /\ Seen("Waiting", 0, signal).is = "Waiting"
      BY SeenIs
    <2> QED
      BY <2>1 DEF Wakes
  <1>12. \A pid \in Pids : x[pid] = y[pid]
    BY <1>5, <1>6, <1>7, <1>8, <1>9, <1>11
  <1>13. x = y
    BY <1>10, <1>12
  <1>14. Shows(y, Folk(r), n, now)
    BY <1>3, SignalShows DEF r, y
  <1>15. Sound(r)
    BY <1>3, SignalIsHeard DEF r, Became
  <1>16. Given(Folk(r), next_pid')
    BY <1>2, <1>15, NextGiven
  <1>17. Used(left) \in 1 .. remaining
    BY WithinSlice
  <1>18. Shows(Abstract!Woken(g, now), Folk(r), next_pid', now)
    BY <1>1, <1>13, <1>14 DEF x
  <1>19. Abstract!Stops(k, now, g) /\ now \in clock + 1 .. SeenNow[k].until
    BY <1>1, <1>2, <1>15, <1>16, <1>17, <1>18, StopIsSeen DEF now
  <1>20. Abstract!Signal(k, now, signal)
    BY <1>19 DEF Abstract!Signal, SeenNow, g
  <1>21. Abstract!SchedNext
    BY <1>2, <1>19, <1>20, RunningSeen, CallIsNext
  <1>22. HasFirst(r) /\ next_pid' >= next_pid /\ next_pid' \in Nat
    BY <1>1, <1>3, FirstStays, GivenNow DEF r
  <1>23. Turn'
    BY <1>1, <1>15, <1>22, StopKeepsTurn
  <1> QED
    BY <1>21, <1>23

LEMMA ExitIsSeen ==
    ASSUME Proper, Inv, Turn, Inv', NEW left \in Lefts, ExitBy(left)
    PROVE  Abstract!SchedNext /\ Turn'
  <1> DEFINE k == Running.pid
             now == clock + Used(left)
             r == ActualiseTimings(Others, Used(left))
             g == [SeenNow EXCEPT ![k] = Alone("Gone")]
  <1>1. Stops(r, Used(left), left) /\ next_pid' = next_pid
    BY DEF ExitBy
  <1>2. Calls /\ Become(r, now)
    BY <1>1 DEF Stops
  <1>3. Used(left) \in 1 .. remaining /\ Used(left) \in Nat
    BY WithinSlice
  <1>4. Shows(Abstract!Woken(Aside(k), now), Folk(r), next_pid, now) /\ Sound(r)
    BY <1>2, <1>3, OthersLater
  <1>5. g = Aside(k)
    <2>1. g = [Aside(k) EXCEPT ![k] = Alone("Gone")]
      BY <1>2, RunningSeen
    <2>2. Pause(Queues, next_pid, clock) = [pid \in Pids |-> Pause(Queues, next_pid, clock)[pid]]
      BY GivenNow DEF Shows
    <2> QED
      BY <2>1, <2>2, TwiceSet DEF Aside
  <1> HIDE DEF g, now, r
  <1>6. Given(Folk(r), next_pid')
    BY <1>2, <1>4, NextGiven
  <1>7. Abstract!Stops(k, now, g) /\ now \in clock + 1 .. SeenNow[k].until
    BY <1>1, <1>2, <1>3, <1>4, <1>5, <1>6, StopIsSeen DEF now
  <1>8. Abstract!Exit(k, now)
    BY <1>7, AbstractStates DEF Abstract!Exit, SeenNow, g
  <1>9. Abstract!SchedNext
    BY <1>2, <1>7, <1>8, RunningSeen, CallIsNext
  <1>10. ~FrontRuns(r)
    <2> SUFFICES ASSUME FrontRuns(r) PROVE FALSE
      OBVIOUS
    <2> DEFINE h == After(Others, Used(left))
    <2>1. r.ready # <<>> /\ Head(r.ready).state = "Running"
      BY DEF FrontRuns
    <2>2. Head(r.ready) \in Who(r.ready)
      <3>1. r.ready \in Seq(Pcbs)
        BY <1>4 DEF Sound, List
      <3>2. Len(r.ready) \in Nat \ {0} /\ Head(r.ready) = r.ready[1]
        BY <2>1, <3>1
      <3> QED
        BY <3>2 DEF Who
    <2>3. Folk(r) = Image(h, Folk(Others))
      BY <1>2, <1>3, RunningIs, TimePasses DEF Became, r, Still
    <2>4. PICK p \in Folk(Others) : Head(r.ready) = h[p]
      BY <2>2, <2>3 DEF Image, Folk
    <2>5. Later(Head(r.ready), p, Used(left))
      BY <1>2, <1>3, <2>4, RunningIs, EachIs, ElapsedIs DEF After, Still
    <2>6. p.state = "Running"
      BY <2>1, <2>5 DEF Later
    <2>7. p.state = "Ready" \/ p.state = "Waiting"
      <3>1. CASE p \in Who(Others.ready)
        BY <1>2, <3>1, RunningIs DEF Still, Who, IsReady
      <3>2. CASE p \in Who(Others.waiting)
        BY <1>2, <3>2, RunningIs DEF Still, Sound, Absent
      <3> QED
        BY <3>1, <3>2 DEF Folk
    <2> QED
      BY <2>6, <2>7
  <1>11. Turn'
    BY <1>1, <1>4, <1>10, StopKeepsTurn, GivenNow
  <1> QED
    BY <1>9, <1>11

LEMMA SleepIsSeen ==
    ASSUME Proper, Inv, Turn, Inv', NEW left \in Lefts, NEW p, Billed(p, left), NEW time \in SleepTimes,
           SleepBy(p, left, time)
    PROVE  Abstract!SchedNext /\ Turn'
  <1> DEFINE k == Running.pid
             n == next_pid
             now == clock + Used(left)
             q == ActualiseTimings(Others, Used(left))
             s == Sleeper(p, time, Used(left))
             r == [q EXCEPT !.waiting = Append(@, s)]
             z == Seen("Asleep", now + time, NoEvent)
             g == [SeenNow EXCEPT ![k] = z]
             w == Abstract!Woken(Aside(k), now)
  <1>1. Stops(r, Used(left), remaining) /\ next_pid' = n
    BY DEF SleepBy, Sleeper
  <1>2. Calls /\ Become(r, now)
    BY <1>1 DEF Stops
  <1>3. Used(left) \in 1 .. remaining /\ Used(left) \in Nat /\ clock \in Nat /\ now \in Nat
    BY WithinSlice, GivenNow
  <1>4. /\ Shows(w, Folk(q), n, now) /\ Sound(q) /\ (HasFirst(q) \/ k = 1)
        /\ Aside(k) = [pid \in Pids |-> Aside(k)[pid]] /\ k \in Pids /\ k \in 1 .. n - 1 /\ n \in 1 .. MaxPid + 1
    BY <1>2, <1>3, OthersLater
  <1>5. s \in Pcbs /\ s.pid = k /\ s.sleep = time /\ s.state = "Waiting" /\ s.event = p.event /\ Absent(s)
    BY <1>2, <1>3, SleeperIs
  <1>6. time \in Nat /\ time >= 1
    BY QueuesAssumption DEF Proper
  <1>7. s.event = NoEvent
    BY <1>2, <1>5, RunningIs DEF Billed, Settled
  <1>8. \A x \in Folk(q) : x.pid # s.pid
    BY <1>2, <1>3, <1>5, OthersAfter
  <1> HIDE DEF q, s, r, now
  <1>9. Adds(r, q, s) /\ Sound(r)
    BY <1>4, <1>5, <1>8, PutToWait DEF r, Adds
  <1>10. Look(s, now) = z
    BY <1>5, <1>7 DEF Look
  <1>11. Shows([w EXCEPT ![s.pid] = Look(s, now)], Folk(r), n, now)
    <2> HIDE DEF w
    <2> QED
      BY <1>4, <1>5, <1>9, AddShows
  <1>12. ~Wakes(z, now)
    <2>1. z.until = now + time /\ ~(now + time <= now)
      BY <1>3, <1>6, SeenIs
    <2> QED
      BY <2>1 DEF Wakes
  <1> HIDE DEF z
  <1>13. g = [Aside(k) EXCEPT ![k] = z]
    BY <1>2, RunningSeen
  <1>14. Abstract!Woken([Aside(k) EXCEPT ![k] = z], now) = [w EXCEPT ![k] = z]
    BY <1>4, <1>12, WokenSet
  <1> HIDE DEF g, w
  <1>15. Shows(Abstract!Woken(g, now), Folk(r), next_pid', now)
    BY <1>1, <1>5, <1>10, <1>11, <1>13, <1>14
  <1>16. Given(Folk(r), next_pid')
    BY <1>2, <1>9, NextGiven
  <1>17. Abstract!Stops(k, now, g) /\ now \in clock + 1 .. SeenNow[k].until
    BY <1>1, <1>2, <1>3, <1>9, <1>15, <1>16, StopIsSeen DEF now
  <1>18. Abstract!Sleep(k, now, time)
    BY <1>17, AbstractStates DEF Abstract!Sleep, SeenNow, g, z
  <1>19. Abstract!SchedNext
    BY <1>2, <1>17, <1>18, RunningSeen, CallIsNext
  <1>20. HasFirst(r) /\ next_pid' >= next_pid /\ next_pid' \in Nat
    BY <1>1, <1>4, <1>5, <1>9, FirstStays, GivenNow
  <1>21. Turn'
    BY <1>1, <1>9, <1>20, StopKeepsTurn
  <1> QED
    BY <1>19, <1>21

LEMMA WaitIsSeen ==
    ASSUME Proper, Inv, Turn, Inv', NEW left \in Lefts, NEW p, Billed(p, left), NEW event \in Events,
           WaitBy(p, left, event)
    PROVE  Abstract!SchedNext /\ Turn'
  <1> DEFINE k == Running.pid
             n == next_pid
             now == clock + Used(left)
             s == Waiter(p, event)
             q == [Others EXCEPT !.waiting = Append(@, s)]
             r == ActualiseTimings(q, Used(left))
             z == Seen("Waiting", 0, event)
             g == [SeenNow EXCEPT ![k] = z]
  <1>1. Stops(r, Used(left), left) /\ next_pid' = n
    BY DEF WaitBy, Waiter
  <1>2. Calls /\ Become(r, now)
    BY <1>1 DEF Stops
  <1>3. Used(left) \in 1 .. remaining /\ Used(left) \in Nat /\ clock \in Nat /\ n \in 1 .. MaxPid + 1
    BY WithinSlice, GivenNow
  <1>4. s \in Pcbs /\ s.pid = k /\ s.state = "Waiting" /\ s.event = event /\ Absent(s)
    BY <1>2, WaiterIs
  <1>5. /\ k \in 1 .. n - 1 /\ Shows(Aside(k), Folk(Others), n, clock) /\ Given(Folk(Others), n)
        /\ g = [Aside(k) EXCEPT ![k] = z]
    BY <1>2, RunningSeen
  <1> HIDE DEF q, s, r, now, g
  <1>6. Adds(q, Others, s) /\ Sound(q)
    <2>1. Adds(q, Others, s)
      BY <1>2, <1>4, RunningIs, PutToWait DEF q, Adds, Still
    <2> QED
      BY <2>1 DEF Adds
  <1>7. Look(s, clock) = z
    BY <1>4 DEF Look, Proper
  <1> HIDE DEF z
  <1>8. Shows([Aside(k) EXCEPT ![s.pid] = Look(s, clock)], Folk(q), n, clock)
    BY <1>3, <1>4, <1>5, <1>6, AddShows
  <1>9. Shows(g, Folk(q), n, clock)
    BY <1>4, <1>5, <1>7, <1>8
  <1>10. Given(Folk(q), n)
    BY <1>4, <1>5, <1>6, GivenAdds
  <1>11. Shows(Abstract!Woken(g, now), Folk(r), next_pid', now)
    BY <1>1, <1>3, <1>6, <1>9, <1>10, TimeShows DEF r, now
  <1>12. Sound(r)
    BY <1>3, <1>6, TimePasses DEF r, Became
  <1>13. Given(Folk(r), next_pid')
    BY <1>2, <1>12, NextGiven
  <1>14. Abstract!Stops(k, now, g) /\ now \in clock + 1 .. SeenNow[k].until
    BY <1>1, <1>2, <1>3, <1>11, <1>12, <1>13, StopIsSeen DEF now
  <1>15. Abstract!Wait(k, now, event)
    BY <1>14, AbstractStates DEF Abstract!Wait, SeenNow, g, z
  <1>16. Abstract!SchedNext
    BY <1>2, <1>14, <1>15, RunningSeen, CallIsNext
  <1>17. HasFirst(q)
    BY <1>2, <1>4, <1>6, FirstRunsOn, FirstStays
  <1>18. HasFirst(r) /\ next_pid' >= next_pid /\ next_pid' \in Nat
    BY <1>1, <1>3, <1>6, <1>17, FirstStays, GivenNow DEF r
  <1>19. Turn'
    BY <1>1, <1>12, <1>18, StopKeepsTurn
  <1> QED
    BY <1>16, <1>19

LEMMA ExpireIsSeen ==
    ASSUME Proper, Inv, Turn, Inv', NEW p, Expiry(p), ExpireBy(p)
    PROVE  Abstract!SchedNext /\ Turn'
  <1> DEFINE k == Running.pid
             n == next_pid
             now == clock + remaining
             q == ActualiseTimings(Others, remaining)
             r == [q EXCEPT !.ready = Append(@, p)]
             z == Alone("Ready")
             g == [SeenNow EXCEPT ![k] = z]
             w == Abstract!Woken(Aside(k), now)
  <1>1. Stops(r, remaining, remaining) /\ next_pid' = n
    BY DEF ExpireBy
  <1>2. Calls /\ Become(r, now)
    BY <1>1 DEF Stops
  <1>3. remaining \in 1 .. remaining /\ remaining \in Nat
    BY <1>2 DEF Turn, Calls, Inv, CountersOK
  <1>4. /\ Shows(w, Folk(q), n, now) /\ Sound(q) /\ (HasFirst(q) \/ k = 1)
        /\ Aside(k) = [pid \in Pids |-> Aside(k)[pid]] /\ k \in Pids /\ k \in 1 .. n - 1 /\ n \in 1 .. MaxPid + 1
    BY <1>2, <1>3, OthersLater
  <1>5. p \in Pcbs /\ p.pid = k /\ p.state = "Ready" /\ Settled(p) /\ IsReady(p)
    BY <1>2, RunningIs DEF Expiry, Settled, IsReady
  <1>6. \A x \in Folk(q) : x.pid # p.pid
    BY <1>2, <1>3, <1>5, OthersAfter
  <1> HIDE DEF q, r, now
  <1>7. Adds(r, q, p) /\ Sound(r)
    BY <1>4, <1>5, <1>6, PutBehind DEF r, Adds
  <1>8. Look(p, now) = z
    BY <1>5, ReadyLooks
  <1>9. Shows([w EXCEPT ![p.pid] = Look(p, now)], Folk(r), n, now)
    <2> HIDE DEF w
    <2> QED
      BY <1>4, <1>5, <1>7, AddShows
  <1>10. ~Wakes(z, now)
    BY NotAsleep
  <1> HIDE DEF z
  <1>11. g = [Aside(k) EXCEPT ![k] = z]
    BY <1>2, RunningSeen
  <1>12. Abstract!Woken([Aside(k) EXCEPT ![k] = z], now) = [w EXCEPT ![k] = z]
    BY <1>4, <1>10, WokenSet
  <1> HIDE DEF g, w
  <1>13. Shows(Abstract!Woken(g, now), Folk(r), next_pid', now)
    BY <1>1, <1>5, <1>8, <1>9, <1>11, <1>12
  <1>14. Given(Folk(r), next_pid')
    BY <1>2, <1>7, NextGiven
  <1>15. Abstract!Stops(k, now, g) /\ now \in clock + 1 .. SeenNow[k].until
    BY <1>1, <1>2, <1>3, <1>7, <1>13, <1>14, StopIsSeen DEF now
  <1>16. SeenNow[k].until = now
    BY <1>2, RunningSeen, SeenIs DEF now
  <1>17. Abstract!Expire(k)
    BY <1>15, <1>16, AbstractStates DEF Abstract!Expire, SeenNow, g, z
  <1>18. Abstract!SchedNext
    BY <1>2, <1>17, RunningSeen DEF Abstract!SchedNext
  <1>19. HasFirst(r) /\ next_pid' >= next_pid /\ next_pid' \in Nat
    BY <1>1, <1>4, <1>5, <1>7, FirstStays, GivenNow
  <1>20. Turn'
    BY <1>1, <1>7, <1>19, StopKeepsTurn
  <1> QED
    BY <1>18, <1>20

LEMMA BootIsSeen ==
    ASSUME Proper, Inv, Turn, Inv', NEW c, next_pid = 1 => Infant(c), BootBy(c)
    PROVE  Abstract!SchedNext /\ Turn'
  <1> DEFINE r == [Queues EXCEPT !.ready = <<c>>]
             m == [Queues EXCEPT !.ready = Append(@, c)]
             v == Pause(Queues, 1, clock)
             g == [SeenNow EXCEPT ![1] = Alone("Ready")]
  <1>1. decision.kind = "Start" /\ Become(r, clock) /\ decision' = Plain("Stopped") /\ next_pid' = 2 /\ sleep' = sleep
    BY DEF BootBy
  <1>2. ready = <<>> /\ waiting = <<>> /\ next_pid = 1
    BY <1>1 DEF Inv, Fresh
  <1>3. Still(Queues) /\ Folk(Queues) = {}
    BY <1>2, EmptyQueues
  <1>4. c \in Pcbs /\ Settled(c) /\ IsReady(c) /\ c.pid = 1 /\ Look(c, clock) = Alone("Ready")
    BY <1>2, ReadyLooks DEF Infant, Settled, IsReady
  <1>5. r = m
    BY <1>2 DEF Queues
  <1>6. decision'.kind = "Stopped"
    BY <1>1 DEF Plain
  <1>7. /\ Shows(v, Folk(Queues), 1, clock) /\ SeenNow = v /\ Given(Folk(Queues), 1) /\ clock \in Nat
    BY <1>1, <1>2, GivenNow
  <1> HIDE DEF r, m, v
  <1>8. Adds(m, Queues, c) /\ Sound(r)
    BY <1>3, <1>4, <1>5, PutBehind DEF m, Adds, Still
  <1>9. 1 \in Pids /\ 1 <= MaxPid /\ 1 + 1 = 2 /\ 2 \in 1 .. MaxPid + 1 /\ 1 \in 1 .. 2 - 1
    BY QueuesAssumption DEF Pids
  <1>10. Shows([v EXCEPT ![1] = Alone("Gone")], Folk(Queues), 2, clock)
    BY <1>7, <1>9, BirthShows
  <1>11. Shows([[v EXCEPT ![1] = Alone("Gone")] EXCEPT ![1] = Alone("Ready")], Folk(r), 2, clock)
    <2> DEFINE x == [v EXCEPT ![1] = Alone("Gone")]
    <2>1. Shows(x, Folk(Queues), 2, clock)
      BY <1>10
    <2> HIDE DEF x
    <2>2. Shows([x EXCEPT ![c.pid] = Look(c, clock)], Folk(m), 2, clock)
      BY <1>4, <1>8, <1>9, <2>1, AddShows
    <2> QED
      BY <1>4, <1>5, <2>2 DEF x
  <1>12. v = [pid \in Pids |-> v[pid]]
    BY <1>7 DEF Shows
  <1>13. Shows(g, Folk(r), 2, clock)
    BY <1>7, <1>11, <1>12, TwiceSet
  <1>14. Given(Folk(r), 2)
    BY <1>1, <1>8, NextGiven
  <1> HIDE DEF g
  <1>15. SeenNow' = g /\ clock' = clock
    BY <1>1, <1>6, <1>8, <1>13, <1>14, PauseNext
  <1>16. \A pid \in Pids : SeenNow[pid].is = "Unborn"
    <2>1. \A pid \in Pids : pid >= 1
      BY DEF Pids
    <2>2. \A pid \in Pids : SeenNow[pid] = Alone("Unborn")
      BY <1>7, <2>1 DEF Shows
    <2> QED
      BY <2>2, SeenIs
  <1>17. Abstract!In("Unborn") = Pids
    BY <1>16 DEF Abstract!In, SeenNow
  <1>18. Verdict' = Verdict
    BY <1>1, <1>6 DEF Verdict
  <1>19. Abstract!Boot
    BY <1>15, <1>17, <1>18, AbstractStates DEF Abstract!Boot, SeenNow, Verdict, g
  <1>20. Abstract!SchedNext
    BY <1>19 DEF Abstract!SchedNext
  <1>21. HasFirst(r)
    BY <1>4, <1>5, <1>8, FirstStays
  <1>22. Queues' = r
    BY <1>1, <1>8, NextQueues
  <1>23. sleep' = (decision'.kind = "Sleep")
    BY <1>1, <1>6 DEF Turn
  <1>24. Turn'
    BY <1>1, <1>6, <1>21, <1>22, <1>23 DEF Turn
  <1> QED
    BY <1>20, <1>24

-----------------------------------------------------------------------------
(* next() is a step of Scheduling, or is not seen *)

\* Sleepers are seen asleep, until their time.
LEMMA SleepersIs ==
    ASSUME NEW q, Sound(q)
    PROVE  /\ Sleepers(q) = {p \in Who(q.waiting) : p.event = NoEvent}
           /\ \A p \in Sleepers(q) : p \in Folk(q) /\ p.state = "Waiting" /\ p.event = NoEvent /\ p.sleep \in Nat
           /\ FirstProcessExists(q) <=> HasFirst(q)
  <1>1. Range(q.waiting) = Who(q.waiting)
    BY WhoIsRange DEF Sound, List
  <1>2. Sleepers(q) = {p \in Who(q.waiting) : p.event = NoEvent}
    BY <1>1 DEF Sleepers
  <1>3. \A p \in Who(q.waiting) : p \in Folk(q) /\ p.state = "Waiting"
    BY DEF Sound, Absent, Folk
  <1>4. \A p \in Folk(q) : p.sleep \in Nat
    BY SoundFolk DEF Pcbs
  <1>5. Range(Everyone(q)) = Folk(q)
    BY SoundFolk
  <1> QED
    BY <1>2, <1>3, <1>4, <1>5 DEF FirstProcessExists, HasFirst

LEMMA NapTime ==
    ASSUME Proper, NEW q, Sound(q)
    PROVE  /\ MinimumSleepTime(q) \in Nat /\ MinimumSleepTime(q) >= 1
           /\ \A p \in Sleepers(q) : MinimumSleepTime(q) <= p.sleep
  <1> DEFINE S == {SleepCap} \cup {p.sleep : p \in Sleepers(q)}
  <1>1. \A p \in Sleepers(q) : p.sleep \in Nat /\ p.sleep >= 1
    <2> SUFFICES ASSUME NEW p \in Sleepers(q) PROVE p.sleep \in Nat /\ p.sleep >= 1
      OBVIOUS
    <2>1. p \in Who(q.waiting) /\ p.event = NoEvent /\ p.sleep \in Nat
      BY SleepersIs
    <2>2. Absent(p)
      BY <2>1 DEF Sound
    <2> QED
      BY <2>1, <2>2 DEF Absent
  <1>2. S \in SUBSET Nat /\ S # {} /\ \A x \in S : x >= 1
    BY <1>1, QueuesAssumption
  <1>3. \A p \in Sleepers(q) : p.sleep \in S
    OBVIOUS
  <1>4. MinimumSleepTime(q) = Min(S)
    BY DEF MinimumSleepTime
  <1> HIDE DEF S
  <1>5. Min(S) \in S /\ \A y \in S : Min(S) <= y
    BY <1>2, LeastOfNumbers
  <1> QED
    BY <1>2, <1>3, <1>4, <1>5

\* Who looks ready, and who looks asleep.
LEMMA LookIs ==
    ASSUME NEW q, Sound(q), NEW p \in Folk(q), NEW now
    PROVE  /\ Look(p, now).is \in {"Ready", "Asleep", "Waiting"}
           /\ Look(p, now).is = "Ready" <=> p \in Who(q.ready)
           /\ Look(p, now).is = "Asleep" <=> p \in Sleepers(q)
           /\ p \in Sleepers(q) => Look(p, now).until = now + p.sleep
  <1>1. CASE p \in Who(q.ready)
    <2>1. p.state # "Waiting"
      BY <1>1 DEF Sound, Settled
    <2>2. Look(p, now) = Alone("Ready")
      BY <2>1, ReadyLooks
    <2>3. p \notin Sleepers(q)
      BY <2>1, SleepersIs
    <2> QED
      BY <1>1, <2>2, <2>3, SeenIs
  <1>2. CASE p \notin Who(q.ready)
    <2>1. p \in Who(q.waiting) /\ p.state = "Waiting"
      BY <1>2 DEF Folk, Sound, Absent
    <2>2. p \in Sleepers(q) <=> p.event = NoEvent
      BY <2>1, SleepersIs
    <2> QED
      BY <1>2, <2>1, <2>2, SeenIs DEF Look
  <1> QED
    BY <1>1, <1>2

\* Whoever is seen neither unborn nor gone has a process.
LEMMA SeenHas ==
    ASSUME NEW q, NEW n, Given(Folk(q), n), NEW now, NEW f, Shows(f, Folk(q), n, now), NEW pid \in Pids
    PROVE  \/ f[pid] = Alone("Unborn") /\ pid >= n
           \/ f[pid] = Alone("Gone") /\ pid < n /\ \A p \in Folk(q) : p.pid # pid
           \/ pid < n /\ \E p \in Folk(q) : p.pid = pid /\ f[pid] = Look(p, now)
  <1>1. pid >= n \/ pid < n
    BY QueuesAssumption DEF Pids, Given
  <1> QED
    BY <1>1 DEF Shows

LEMMA AwakeSeen ==
    ASSUME Proper, Inv, Turn, Asked
    PROVE  /\ Shows(SeenNow, Folk(Queues), next_pid, clock) /\ Sound(Queues) /\ Given(Folk(Queues), next_pid)
           /\ Shows(Abstract!Woken(SeenNow, clock + Slept), Folk(Awake), next_pid, clock + Slept)
           /\ Sound(Awake) /\ Given(Folk(Awake), next_pid)
           /\ clock \in Nat /\ Slept \in Nat /\ next_pid \in 2 .. MaxPid + 1
           /\ ~sleep => Awake = Queues /\ Slept = 0 /\ clock + Slept = clock
                        /\ Abstract!Woken(SeenNow, clock + Slept) = SeenNow
           /\ HasFirst(Queues) => HasFirst(Awake)
  <1>1. decision.kind # "Run" /\ decision.kind # "Start"
    BY DEF Asked
  <1>2. /\ Sound(Queues) /\ Given(Folk(Queues), next_pid) /\ clock \in Nat /\ next_pid \in 1 .. MaxPid + 1
        /\ Shows(SeenNow, Folk(Queues), next_pid, clock)
    BY <1>1, GivenNow
  <1>3. next_pid \in 2 .. MaxPid + 1
    BY <1>1, <1>2, QueuesAssumption DEF Turn
  <1>4. CASE sleep
    <2>1. Awake = ActualiseTimings(Queues, sleep_time) /\ Slept = sleep_time /\ sleep_time \in Nat
      BY <1>4 DEF Awake, Slept, Inv, CountersOK
    <2>2. Sound(Awake)
      BY AwakeIs DEF Tally
    <2>3. Given(Folk(Awake), next_pid)
      BY <1>2, AwakeIs, TallyGiven
    <2>4. Shows(Abstract!Woken(SeenNow, clock + Slept), Folk(Awake), next_pid, clock + Slept)
      BY <1>2, <2>1, TimeShows
    <2>5. HasFirst(Queues) => HasFirst(Awake)
      BY <1>2, <2>1, FirstStays
    <2> QED
      BY <1>2, <1>3, <1>4, <2>1, <2>2, <2>3, <2>4, <2>5
  <1>5. CASE ~sleep
    <2>1. Awake = Queues /\ Slept = 0
      BY <1>5 DEF Awake, Slept
    <2>2. clock + Slept = clock
      BY <1>2, <2>1
    <2>3. Abstract!Woken(SeenNow, clock + Slept) = SeenNow
      BY <1>2, <2>2, NoneWakesNow
    <2> QED
      BY <1>2, <1>3, <1>5, <2>1, <2>2, <2>3
  <1> QED
    BY <1>4, <1>5

LEMMA DecidingNow ==
    ASSUME Proper, Inv, Turn, Asked
    PROVE  Abstract!Deciding
  <1>1. \A pid \in Pids : SeenNow[pid].is # "Running"
    <2> SUFFICES ASSUME NEW pid \in Pids PROVE SeenNow[pid].is # "Running"
      OBVIOUS
    <2>1. SeenNow[pid] = Alone("Unborn") \/ SeenNow[pid] = Alone("Gone")
          \/ \E p \in Folk(Queues) : SeenNow[pid] = Look(p, clock)
      BY AwakeSeen, SeenHas
    <2> QED
      BY <2>1, AwakeSeen, LookIs, SeenIs
  <1>2. 1 \in Pids /\ SeenNow[1].is # "Unborn"
    <2>1. 1 \in Pids /\ ~(1 >= next_pid)
      BY AwakeSeen, QueuesAssumption DEF Pids
    <2>2. SeenNow[1] = Alone("Gone") \/ \E p \in Folk(Queues) : SeenNow[1] = Look(p, clock)
      BY <2>1, AwakeSeen, SeenHas
    <2> QED
      BY <2>1, <2>2, AwakeSeen, LookIs, SeenIs
  <1>3. Verdict = "none"
    BY DEF Verdict, Asked
  <1> QED
    BY <1>1, <1>2, <1>3 DEF Abstract!Deciding, Abstract!In, SeenNow, Verdict

\* Whoever is seen asleep is a sleeper.
LEMMA AsleepIs ==
    ASSUME Proper, Inv, Turn, Asked, NEW pid \in Pids, SeenNow[pid].is = "Asleep"
    PROVE  \E p \in Sleepers(Queues) : p.pid = pid /\ SeenNow[pid].until = clock + p.sleep /\ p.sleep \in Nat
  <1>1. PICK p \in Folk(Queues) : p.pid = pid /\ SeenNow[pid] = Look(p, clock)
    BY AwakeSeen, SeenHas, SeenIs
  <1>2. p \in Sleepers(Queues) /\ Look(p, clock).until = clock + p.sleep
    BY <1>1, AwakeSeen, LookIs
  <1> QED
    BY <1>1, <1>2, AwakeSeen, SleepersIs

\* While the processor sleeps, nobody is ready, and nobody wakes before its sleep is over.
LEMMA NapSeen ==
    ASSUME Proper, Inv, Turn, Asked, sleep
    PROVE  /\ \A pid \in Pids : SeenNow[pid].is # "Ready"
           /\ Slept >= 1 /\ HasFirst(Awake)
           /\ \A pid \in Pids : SeenNow[pid].is = "Asleep" =>
                  SeenNow[pid].until \in Nat /\ clock + Slept <= SeenNow[pid].until
           /\ \E s \in Pids : Abstract!WakesNext(s)
  <1>1. /\ ready = <<>> /\ Sleepers(Queues) # {} /\ Slept = MinimumSleepTime(Queues) /\ HasFirst(Queues)
    BY DEF Turn, Napping, Slept
  <1>2. Slept \in Nat /\ Slept >= 1 /\ \A p \in Sleepers(Queues) : Slept <= p.sleep
    BY <1>1, AwakeSeen, NapTime
  <1>3. ASSUME NEW pid \in Pids PROVE SeenNow[pid].is # "Ready"
    <2>1. SUFFICES ASSUME SeenNow[pid].is = "Ready" PROVE FALSE
      OBVIOUS
    <2>2. PICK p \in Folk(Queues) : SeenNow[pid] = Look(p, clock)
      BY <2>1, AwakeSeen, SeenHas, SeenIs
    <2>3. p \in Who(Queues.ready)
      BY <2>1, <2>2, AwakeSeen, LookIs
    <2>4. Queues.ready = <<>>
      BY <1>1 DEF Queues
    <2> QED
      BY <2>3, <2>4, EmptyList
  <1>4. ASSUME NEW pid \in Pids, SeenNow[pid].is = "Asleep"
        PROVE  SeenNow[pid].until \in Nat /\ clock + Slept <= SeenNow[pid].until
    <2>1. PICK p \in Sleepers(Queues) : SeenNow[pid].until = clock + p.sleep /\ p.sleep \in Nat
      BY <1>4, AsleepIs
    <2> QED
      BY <1>2, <2>1, AwakeSeen
  <1>5. \E s \in Pids : Abstract!WakesNext(s)
    <2> DEFINE S == {pid \in Pids : SeenNow[pid].is = "Asleep"}
               U == {SeenNow[pid].until : pid \in S}
    <2>1. U \in SUBSET Nat
      BY <1>4
    <2>2. S # {}
      <3>1. PICK p \in Sleepers(Queues) : TRUE
        BY <1>1
      <3>2. p \in Folk(Queues)
        BY AwakeSeen, SleepersIs
      <3>3. p.pid \in Pids /\ SeenNow[p.pid] = Look(p, clock)
        BY <3>2, AwakeSeen, ShowsIt, GivenPid
      <3>4. SeenNow[p.pid].is = "Asleep"
        BY <3>1, <3>2, <3>3, AwakeSeen, LookIs
      <3> QED
        BY <3>3, <3>4
    <2>3. PICK x \in U : \A y \in U : x <= y
      <3>1. U # {}
        BY <2>2
      <3> HIDE DEF U
      <3> QED
        BY <2>1, <3>1, LeastNumber
    <2>4. PICK s \in S : x = SeenNow[s].until
      BY <2>3
    <2>5. \A pid \in S : SeenNow[s].until <= SeenNow[pid].until
      BY <2>3, <2>4
    <2>6. Abstract!In("Asleep") = S /\ Abstract!In("Ready") = {}
      BY <1>3 DEF Abstract!In, SeenNow
    <2>7. Abstract!WakesNext(s)
      BY <2>4, <2>5, <2>6 DEF Abstract!WakesNext, SeenNow
    <2> QED
      BY <2>4, <2>7
  <1> QED
    BY <1>1, <1>2, <1>3, <1>4, <1>5, AwakeSeen

\* The step is one of Scheduling, or changes nothing that is seen.
SeenStep == Abstract!SchedNext \/ (SeenNow' = SeenNow /\ clock' = clock /\ Verdict' = Verdict)

\* The first process of r runs.
LEMMA RunIsSeen ==
    ASSUME Proper, Inv, Turn, Inv', Asked, NEW r, Sound(r), FrontRuns(r), HasFirst(r),
           Shows(Abstract!Woken(SeenNow, clock + Slept), Folk(r), next_pid, clock + Slept),
           NEW slice \in 1 .. MaxSlice, KeepRunning(r, slice)
    PROVE  Abstract!SchedNext /\ Turn'
  <1> DEFINE now == clock + Slept
             n == next_pid
             w == Abstract!Woken(SeenNow, now)
             x == Head(r.ready)
             d == [kind |-> "Run", pid |-> x.pid, timeslice |-> slice]
             z == Seen("Running", now + slice, NoEvent)
  <1>1. /\ Become(r, now) /\ remaining' = slice /\ sleep' = FALSE /\ next_pid' = n
        /\ decision' = Unwrapped([kind |-> "Run", pid |-> Head(ready').pid, timeslice |-> slice])
    BY DEF KeepRunning, Decide
  <1>2. slice \in Nat /\ slice >= 1 /\ slice # 0
    BY QueuesAssumption
  <1>3. Queues' = r /\ clock' = now /\ ready' = r.ready
    BY <1>1, NextQueues
  <1>4. decision' = d
    BY <1>1, <1>2, <1>3 DEF Unwrapped
  <1>5. d.kind = "Run" /\ d.pid = x.pid /\ d.timeslice = slice
    OBVIOUS
  <1>6. x \in Folk(r) /\ x.state = "Running"
    <2>1. r.ready # <<>> /\ r.ready \in Seq(Pcbs) /\ x.state = "Running"
      BY DEF FrontRuns, Sound, List
    <2>2. Len(r.ready) \in Nat \ {0} /\ x = r.ready[1]
      BY <2>1
    <2> QED
      BY <2>1, <2>2 DEF Folk, Who
  <1>7. Given(Folk(r), n)
    BY <1>1, NextGiven
  <1>8. x.pid \in Pids /\ x.pid \in 1 .. n - 1
    BY <1>6, <1>7, GivenPid DEF Given
  <1> HIDE DEF now, w, x, d
  <1>9. Shows(w, Folk(r), n, now)
    BY DEF w, now
  <1>10. Pause(r, n, now) = w
    <2>1. Plain("Stopped").kind # "Run"
      BY DEF Plain
    <2> QED
      BY <1>7, <1>9, <2>1, PauseIs, ShownOnce
  <1>11. SeenNow' = [w EXCEPT ![x.pid] = z]
    <2>1. Scene(r, n, d, now) = [Pause(r, n, now) EXCEPT ![d.pid] = Seen("Running", now + d.timeslice, NoEvent)]
      BY <1>5, <1>7, <1>8, RunIs
    <2> QED
      BY <1>1, <1>3, <1>4, <1>5, <1>10, <2>1, SceneNow
  <1>12. w[x.pid] = Alone("Ready") /\ w[x.pid].is = "Ready"
    <2>1. w[x.pid] = Look(x, now)
      BY <1>6, <1>7, <1>9, ShowsIt
    <2> QED
      BY <1>6, <2>1, ReadyLooks, SeenIs
  <1>13. \A pid \in Pids : /\ Wakes(SeenNow[pid], now) => w[pid] = Alone("Ready")
                           /\ ~Wakes(SeenNow[pid], now) => w[pid] = SeenNow[pid]
    BY WokenIs DEF w
  <1>14. 1 \in Abstract!Live
    <2>1. PICK p \in Folk(r) : p.pid = 1
      BY DEF HasFirst
    <2>2. 1 \in Pids /\ w[1] = Look(p, now)
      BY <1>7, <1>9, <2>1, ShowsIt, GivenPid
    <2>3. w[1].is # "Unborn" /\ w[1].is # "Gone"
      BY <2>1, <2>2, LookIs
    <2>4. SeenNow[1].is # "Unborn" /\ SeenNow[1].is # "Gone"
      <3>1. CASE Wakes(SeenNow[1], now)
        BY <3>1 DEF Wakes
      <3>2. CASE ~Wakes(SeenNow[1], now)
        BY <1>13, <2>2, <2>3, <3>2
      <3> QED
        BY <3>1, <3>2
    <2> QED
      BY <2>2, <2>4 DEF Abstract!Live, Abstract!In, SeenNow
  <1>15. ASSUME sleep
         PROVE  \E s \in Pids : Abstract!WakesNext(s) /\ now = SeenNow[s].until /\ now \in clock .. SeenNow[s].until
    <2>1. SeenNow[x.pid].is = "Asleep" /\ SeenNow[x.pid].until <= now
      <3>1. SeenNow[x.pid].is # "Ready"
        BY <1>8, <1>15, NapSeen
      <3>2. Wakes(SeenNow[x.pid], now)
        BY <1>8, <1>12, <1>13, <3>1
      <3> QED
        BY <3>2 DEF Wakes
    <2>2. PICK s \in Pids : Abstract!WakesNext(s)
      BY <1>15, NapSeen
    <2>3. SeenNow[s].is = "Asleep" /\ SeenNow[s].until <= SeenNow[x.pid].until
      BY <1>8, <2>1, <2>2 DEF Abstract!WakesNext, Abstract!In, SeenNow
    <2>4. now <= SeenNow[s].until /\ SeenNow[s].until \in Nat /\ SeenNow[x.pid].until \in Nat
      BY <1>8, <1>15, <2>1, <2>3, NapSeen DEF now
    <2>5. now \in Nat /\ clock \in Nat /\ clock <= now
      BY AwakeSeen DEF now
    <2>6. now = SeenNow[s].until
      BY <2>1, <2>3, <2>4, <2>5
    <2>7. now \in clock .. SeenNow[s].until
      BY <2>5, <2>6
    <2> QED
      BY <2>2, <2>6, <2>7
  <1>16. ASSUME ~sleep PROVE Abstract!In("Ready") # {} /\ now = clock
    <2>1. w = SeenNow /\ now = clock
      BY <1>16, AwakeSeen DEF w, now
    <2>2. x.pid \in Abstract!In("Ready")
      BY <1>8, <1>12, <2>1 DEF Abstract!In, SeenNow
    <2> QED
      BY <2>1, <2>2
  <1>17. Verdict' = Verdict
    BY <1>4, <1>5 DEF Verdict, Asked
  <1>18. Abstract!RunsUntil(now + slice) = z
    BY AbstractStates
  <1> HIDE DEF z
  <1>19. Abstract!Dispatch(x.pid, now, slice)
    <2>1. \/ Abstract!In("Ready") # {} /\ now = clock
          \/ \E s \in Pids : Abstract!WakesNext(s) /\ now = SeenNow[s].until
      BY <1>15, <1>16
    <2> QED
      BY <1>3, <1>11, <1>12, <1>14, <1>17, <1>18, <2>1 DEF Abstract!Dispatch, SeenNow, Verdict, w
  <1>20. now \in {clock} \cup UNION {clock .. SeenNow[p].until : p \in Pids}
    BY <1>15, <1>16
  <1>21. Abstract!SchedNext
    BY <1>8, <1>19, <1>20, DecidingNow DEF Abstract!SchedNext, SeenNow
  <1>22. Running' = x
    BY <1>3 DEF Running, x
  <1>23. sleep' = (decision'.kind = "Sleep")
    BY <1>1, <1>4, <1>5
  <1>24. next_pid' >= 2
    BY <1>1, AwakeSeen
  <1>25. Turn'
    BY <1>1, <1>2, <1>3, <1>4, <1>5, <1>22, <1>23, <1>24 DEF Turn
  <1> QED
    BY <1>21, <1>25

\* The queues that are seen alike when a process changes its state between ready and running.
LEMMA TurnedShows ==
    ASSUME NEW s, NEW q, NEW r, NEW p \in Pcbs, Settled(p), NEW state \in {"Ready", "Running"},
           Adds(q, s, p), Adds(r, s, Turned(p, state)), NEW n, NEW now, NEW f, Shows(f, Folk(q), n, now)
    PROVE  Shows(f, Folk(r), n, now) /\ (HasFirst(q) => HasFirst(r))
  <1>1. Turned(p, state).pid = p.pid /\ Turned(p, state).state = state
    BY TurnedIs
  <1>2. Look(p, now) = Look(Turned(p, state), now)
    BY <1>1, ReadyLooks DEF Settled
  <1> QED
    BY <1>1, <1>2, SwapShows, FirstStays

\* The first of q runs, once q is rearranged.
LEMMA FirstIsSeen ==
    ASSUME Proper, Roomy, Inv, Turn, Inv', Asked, NEW q, Still(q), q.ready # <<>>, HasFirst(q),
           Shows(Abstract!Woken(SeenNow, clock + Slept), Folk(q), next_pid, clock + Slept),
           NEW r, Rearranged(r, q), NEW slice, IsSlice(slice), RunFirst(r, slice)
    PROVE  Abstract!SchedNext /\ Turn'
  <1>1. Still(r) /\ Folk(r) = Folk(q) /\ Len(r.ready) = Len(q.ready)
    BY RearrangedIs
  <1>2. r.ready # <<>>
    <2>1. q.ready \in Seq(Pcbs) /\ r.ready \in Seq(Pcbs)
      BY <1>1 DEF Still, Sound, List
    <2> QED
      BY <1>1, <2>1
  <1>3. HasFirst(r) /\ Shows(Abstract!Woken(SeenNow, clock + Slept), Folk(r), next_pid, clock + Slept)
    BY <1>1 DEF HasFirst
  <1>4. Adds(r, Rest(r), Head(r.ready)) /\ Head(r.ready) \in Pcbs /\ Settled(Head(r.ready))
    BY <1>1, <1>2, HeadTaken DEF Rest, Still
  <1>5. /\ Adds(FirstRuns(r), Rest(r), Turned(Head(r.ready), "Running"))
        /\ Len(FirstRuns(r).ready) \in Nat \ {0}
        /\ FirstRuns(r).ready[1] = Turned(Head(r.ready), "Running")
    BY <1>1, <1>2, FirstRunsIs
  <1>6. /\ HasFirst(FirstRuns(r))
        /\ Shows(Abstract!Woken(SeenNow, clock + Slept), Folk(FirstRuns(r)), next_pid, clock + Slept)
    BY <1>3, <1>4, <1>5, TurnedShows
  <1>7. Sound(FirstRuns(r))
    BY <1>5 DEF Adds
  <1>8. FrontRuns(FirstRuns(r))
    <2>1. FirstRuns(r).ready \in Seq(Pcbs)
      BY <1>7 DEF Sound, List
    <2>2. FirstRuns(r).ready # <<>> /\ Head(FirstRuns(r).ready) = FirstRuns(r).ready[1]
      BY <1>5, <2>1
    <2>3. Turned(Head(r.ready), "Running").state = "Running"
      BY <1>4, TurnedIs
    <2> QED
      BY <1>5, <2>2, <2>3 DEF FrontRuns
  <1>9. slice \in 1 .. MaxSlice
    BY QueuesAssumption DEF IsSlice
  <1>10. KeepRunning(FirstRuns(r), slice)
    BY DEF RunFirst, FirstRuns
  <1> QED
    BY <1>6, <1>7, <1>8, <1>9, <1>10, RunIsSeen

LEMMA PreemptIsSeen ==
    ASSUME Proper, Roomy, Inv, Turn, Inv', Asked, FrontRuns(Awake), HasFirst(Awake),
           NEW r, Rearranged(r, Preempted(Awake)), NEW slice, IsSlice(slice), RunFirst(r, slice)
    PROVE  Abstract!SchedNext /\ Turn'
  <1> DEFINE q == Awake
             m == Preempted(q)
  <1>1. Sound(q) /\ Shows(Abstract!Woken(SeenNow, clock + Slept), Folk(q), next_pid, clock + Slept)
    BY AwakeSeen
  <1>2. q.ready # <<>>
    BY DEF FrontRuns
  <1>3. Still(m) /\ m.ready # <<>>
    BY AwakeStill
  <1> HIDE DEF q
  <1>4. Adds(q, Rest(q), Head(q.ready)) /\ Head(q.ready) \in Pcbs /\ Settled(Head(q.ready))
    BY <1>1, <1>2, HeadTaken DEF Rest
  <1>5. Adds(m, Rest(q), Turned(Head(q.ready), "Ready"))
    BY <1>1, <1>2, PreemptedIs
  <1> HIDE DEF m
  <1>6. HasFirst(m) /\ Shows(Abstract!Woken(SeenNow, clock + Slept), Folk(m), next_pid, clock + Slept)
    BY <1>1, <1>4, <1>5, TurnedShows DEF q
  <1> QED
    BY <1>3, <1>6, FirstIsSeen DEF q, m

\* The processor is told to sleep: again, or for the first time.
LEMMA SleepAgainIsSeen ==
    ASSUME Proper, Inv, Turn, Inv', Asked, Sleep(Awake)
    PROVE  SeenStep /\ Turn'
  <1> DEFINE q == Awake
             n == next_pid
             now == clock + Slept
             w == Abstract!Woken(SeenNow, now)
  <1>1. /\ Become(q, now) /\ sleep' = TRUE /\ sleep_time' = MinimumSleepTime(q) /\ next_pid' = n
        /\ decision' = Unwrapped([kind |-> "Sleep", pid |-> 0, timeslice |-> sleep_time'])
        /\ FirstProcessExists(q) /\ q.ready = <<>> /\ ~AllAwaitSignal(q)
    BY DEF Sleep
  <1>2. Sound(q) /\ Given(Folk(q), n) /\ Shows(w, Folk(q), n, now) /\ clock \in Nat /\ Slept \in Nat
    BY AwakeSeen
  <1> HIDE DEF q, w, now
  <1>3. MinimumSleepTime(q) \in Nat /\ MinimumSleepTime(q) # 0
    BY <1>2, NapTime
  <1>4. decision'.kind = "Sleep"
    BY <1>1, <1>3 DEF Unwrapped
  <1>5. SeenNow' = w /\ clock' = now
    BY <1>1, <1>2, <1>4, PauseNext
  <1>6. Verdict' = Verdict
    BY <1>4 DEF Verdict, Asked
  <1>7. Queues' = q /\ ready' = q.ready
    BY <1>1, <1>2, NextQueues
  <1>8. HasFirst(q) /\ Sleepers(q) # {}
    BY <1>1, <1>2, SleepersIs DEF AllAwaitSignal
  <1>9. Turn'
    <2>1. ~FrontRuns(q)
      BY <1>1 DEF FrontRuns
    <2>2. Napping'
      BY <1>1, <1>7, <1>8 DEF Napping
    <2>3. sleep' = (decision'.kind = "Sleep")
      BY <1>1, <1>4
    <2>4. next_pid' >= 2
      BY <1>1, AwakeSeen
    <2> QED
      BY <1>4, <1>7, <1>8, <2>1, <2>2, <2>3, <2>4 DEF Turn
  <1>10. CASE ~sleep
    <2>1. w = SeenNow /\ now = clock
      BY <1>10, AwakeSeen DEF w, now
    <2> QED
      BY <1>5, <1>6, <1>9, <2>1 DEF SeenStep
  <1>11. CASE sleep
    <2>1. \A pid \in Pids : w[pid].is # "Ready"
      <3> SUFFICES ASSUME NEW pid \in Pids, w[pid].is = "Ready" PROVE FALSE
        OBVIOUS
      <3>1. PICK p \in Folk(q) : w[pid] = Look(p, now)
        BY <1>2, SeenHas, SeenIs
      <3>2. p \in Who(q.ready)
        BY <1>2, <3>1, LookIs
      <3> QED
        BY <1>1, <3>2, EmptyList
    <2>2. \A pid \in Pids : /\ Wakes(SeenNow[pid], now) => w[pid] = Alone("Ready")
                            /\ ~Wakes(SeenNow[pid], now) => w[pid] = SeenNow[pid]
      BY WokenIs DEF w
    <2>3. \A pid \in Pids : ~Wakes(SeenNow[pid], now)
      BY <2>1, <2>2, SeenIs
    <2>4. w = SeenNow
      <3>1. SeenNow = [pid \in Pids |-> SeenNow[pid]] /\ w = [pid \in Pids |-> w[pid]]
        BY WokenIs DEF SeenNow, w
      <3>2. \A pid \in Pids : w[pid] = SeenNow[pid]
        BY <2>2, <2>3
      <3> HIDE DEF w
      <3> QED
        BY <3>1, <3>2
    <2>5. PICK s \in Pids : Abstract!WakesNext(s)
      BY <1>11, NapSeen
    <2>6. SeenNow[s].is = "Asleep"
      BY <2>5 DEF Abstract!WakesNext, Abstract!In, SeenNow
    <2>7. SeenNow[s].until \in Nat /\ ~(SeenNow[s].until <= now)
      BY <1>11, <2>3, <2>6, NapSeen DEF Wakes
    <2>8. now \in Nat /\ now > clock /\ Slept >= 1
      BY <1>2, <1>11, NapSeen DEF now
    <2>9. now < SeenNow[s].until /\ now \in clock .. SeenNow[s].until
      BY <1>2, <2>7, <2>8
    <2>10. Abstract!Doze(now)
      BY <1>5, <1>6, <2>4, <2>5, <2>8, <2>9 DEF Abstract!Doze, SeenNow, Verdict
    <2>11. now \in {clock} \cup UNION {clock .. SeenNow[p].until : p \in Pids}
      BY <2>9
    <2>12. Abstract!SchedNext
      BY <2>10, <2>11, DecidingNow DEF Abstract!SchedNext, SeenNow
    <2> QED
      BY <1>9, <2>12 DEF SeenStep
  <1> QED
    BY <1>10, <1>11

\* The scheduler gives up.
LEMMA GiveUpIsSeen ==
    ASSUME Proper, Inv, Turn, Inv', Asked, ~sleep, NEW v \in {"Done", "Panic", "Deadlock"},
           Decide(Awake, remaining, Plain(v)), Abstract!Justified(v)
    PROVE  Abstract!SchedNext /\ Turn'
  <1>1. /\ Become(Awake, clock + Slept) /\ decision' = Plain(v) /\ sleep' = FALSE /\ next_pid' = next_pid
    BY DEF Decide
  <1>2. decision'.kind = v
    BY <1>1 DEF Plain
  <1>3. Awake = Queues /\ clock + Slept = clock
    BY AwakeSeen
  <1>4. Become(Queues, clock)
    BY <1>1, <1>3
  <1>5. Sound(Queues) /\ Given(Folk(Queues), next_pid) /\ Shows(SeenNow, Folk(Queues), next_pid, clock)
    BY AwakeSeen
  <1>6. SeenNow' = SeenNow /\ clock' = clock
    BY <1>1, <1>2, <1>4, <1>5, PauseNext
  <1>7. Verdict' = v
    BY <1>2 DEF Verdict
  <1>8. Abstract!GiveUp(v)
    BY <1>6, <1>7 DEF Abstract!GiveUp, SeenNow, Verdict
  <1>9. Abstract!SchedNext
    BY <1>8, DecidingNow DEF Abstract!SchedNext
  <1>10. Queues' = Queues
    BY <1>4, <1>5, NextQueues
  <1>11. v # "Sleep" /\ sleep' = (decision'.kind = "Sleep")
    BY <1>1, <1>2
  <1>12. next_pid' >= 2
    BY <1>1, AwakeSeen
  <1>13. FrontRuns(Queues') => HasFirst(Queues')
    BY <1>10 DEF Turn
  <1>14. Turn'
    BY <1>2, <1>11, <1>12, <1>13 DEF Turn
  <1> QED
    BY <1>9, <1>14

\* Who is alive has a process.
LEMMA LiveIs ==
    ASSUME Proper, Inv, Turn, Asked, NEW pid \in Pids
    PROVE  pid \in Abstract!Live <=> \E p \in Folk(Queues) : p.pid = pid /\ SeenNow[pid] = Look(p, clock)
  <1>1. pid \in Abstract!Live <=> SeenNow[pid].is # "Unborn" /\ SeenNow[pid].is # "Gone"
    BY DEF Abstract!Live, Abstract!In, SeenNow
  <1>2. \A p \in Folk(Queues) : Look(p, clock).is # "Unborn" /\ Look(p, clock).is # "Gone"
    BY AwakeSeen, LookIs
  <1> QED
    BY <1>1, <1>2, AwakeSeen, SeenHas, SeenIs

\* It gives up only when it may.
LEMMA NobodyIsSeen ==
    ASSUME Proper, Inv, Turn, Inv', Asked, NobodyToRun(Awake)
    PROVE  SeenStep /\ Turn'
  <1> DEFINE q == Awake
  <1>1. CASE Sleep(q)
    BY <1>1, SleepAgainIsSeen
  <1>2. Sound(q) /\ Range(Everyone(q)) = Folk(q) /\ (FirstProcessExists(q) <=> HasFirst(q))
    BY AwakeSeen, SoundFolk, SleepersIs
  <1>3. Everyone(q) = <<>> <=> Folk(q) = {}
    <2>1. q.ready \in Seq(Pcbs) /\ q.waiting \in Seq(Pcbs)
      BY <1>2 DEF Sound, List
    <2>2. Everyone(q) \in Seq(Pcbs)
      BY <2>1 DEF Everyone
    <2>3. Range(Everyone(q)) = {Everyone(q)[i] : i \in 1 .. Len(Everyone(q))}
      BY <2>2 DEF Range
    <2>4. Everyone(q) = <<>> <=> Len(Everyone(q)) = 0
      BY <2>2
    <2>5. Len(Everyone(q)) \in Nat
      BY <2>2
    <2> HIDE DEF q
    <2>6. Len(Everyone(q)) = 0 => Range(Everyone(q)) = {}
      BY <2>3
    <2>7. Len(Everyone(q)) # 0 => Everyone(q)[1] \in Range(Everyone(q))
      BY <2>3, <2>5
    <2> QED
      BY <1>2, <2>4, <2>6, <2>7
  <1>4. ~sleep => q = Queues /\ Shows(SeenNow, Folk(q), next_pid, clock) /\ Given(Folk(q), next_pid)
    BY AwakeSeen
  <1> HIDE DEF q
  <1>5. ASSUME Done(q) PROVE SeenStep /\ Turn'
    <2>1. Folk(q) = {} /\ Decide(q, remaining, Plain("Done"))
      BY <1>3, <1>5 DEF Done
    <2>2. ~sleep
      BY <2>1, NapSeen DEF HasFirst, q
    <2>3. Abstract!Live = {}
      <3>1. \A pid \in Pids : pid \notin Abstract!Live
        BY <1>4, <2>1, <2>2, LiveIs
      <3> QED
        BY <3>1 DEF Abstract!Live
    <2>4. Abstract!Justified("Done")
      BY <2>3 DEF Abstract!Justified
    <2> QED
      BY <2>1, <2>2, <2>4, GiveUpIsSeen DEF q, SeenStep
  <1>6. ASSUME Panic(q) PROVE SeenStep /\ Turn'
    <2>1. Folk(q) # {} /\ ~HasFirst(q) /\ Decide(q, remaining, Plain("Panic"))
      BY <1>2, <1>3, <1>6 DEF Panic
    <2>2. ~sleep
      BY <2>1, NapSeen DEF q
    <2>3. Abstract!Live # {}
      <3>1. PICK p \in Folk(q) : TRUE
        BY <2>1
      <3>2. p.pid \in Pids /\ SeenNow[p.pid] = Look(p, clock)
        BY <1>4, <2>2, GivenPid, ShowsIt
      <3>3. p.pid \in Abstract!Live
        BY <1>4, <2>2, <3>2, LiveIs
      <3> QED
        BY <3>3
    <2>4. 1 \notin Abstract!Live
      <3>1. 1 \in Pids
        BY QueuesAssumption DEF Pids
      <3> QED
        BY <1>4, <2>1, <2>2, <3>1, LiveIs DEF HasFirst
    <2>5. Abstract!Justified("Panic")
      BY <2>3, <2>4 DEF Abstract!Justified
    <2> QED
      BY <2>1, <2>2, <2>5, GiveUpIsSeen DEF q, SeenStep
  <1>7. ASSUME Deadlock(q) PROVE SeenStep /\ Turn'
    <2>1. HasFirst(q) /\ q.ready = <<>> /\ Sleepers(q) = {} /\ Decide(q, remaining, Plain("Deadlock"))
      BY <1>2, <1>7 DEF Deadlock, AllAwaitSignal
    <2>2. \A now : \A p \in Folk(q) : Look(p, now).is = "Waiting"
      <3>1. \A p \in Folk(q) : p \notin Who(q.ready) /\ p \notin Sleepers(q)
        BY <2>1, EmptyList
      <3> QED
        BY <1>2, <3>1, LookIs
    <2>3. ~sleep
      <3> SUFFICES ASSUME sleep PROVE FALSE
        OBVIOUS
      <3> DEFINE w == Abstract!Woken(SeenNow, clock + Slept)
      <3>1. PICK s \in Pids : Abstract!WakesNext(s)
        BY NapSeen
      <3>2. SeenNow[s].is = "Asleep"
        BY <3>1 DEF Abstract!WakesNext, Abstract!In, SeenNow
      <3>3. w[s].is = "Asleep" \/ w[s].is = "Ready"
        BY <3>2, WokenIs, SeenIs
      <3>4. Shows(w, Folk(q), next_pid, clock + Slept) /\ Given(Folk(q), next_pid)
        BY AwakeSeen DEF q
      <3> HIDE DEF w
      <3>5. \E p \in Folk(q) : w[s] = Look(p, clock + Slept)
        BY <3>3, <3>4, SeenHas, SeenIs
      <3> QED
        BY <2>2, <3>3, <3>5
    <2>4. 1 \in Abstract!Live
      <3>1. PICK p \in Folk(q) : p.pid = 1
        BY <2>1 DEF HasFirst
      <3>2. 1 \in Pids /\ SeenNow[1] = Look(p, clock)
        BY <1>4, <2>3, <3>1, GivenPid, ShowsIt
      <3> QED
        BY <1>4, <2>3, <3>1, <3>2, LiveIs
    <2>5. Abstract!Live \subseteq Abstract!In("Waiting")
      <3>1. ASSUME NEW pid \in Pids, pid \in Abstract!Live PROVE SeenNow[pid].is = "Waiting"
        BY <1>4, <2>2, <2>3, <3>1, LiveIs
      <3> QED
        BY <3>1 DEF Abstract!Live, Abstract!In, SeenNow
    <2>6. Abstract!Justified("Deadlock")
      BY <2>4, <2>5 DEF Abstract!Justified
    <2> QED
      BY <2>1, <2>3, <2>6, GiveUpIsSeen DEF q, SeenStep
  <1> QED
    BY <1>1, <1>5, <1>6, <1>7 DEF NobodyToRun, q

LEMMA ChoiceIsSeen ==
    ASSUME Proper, Roomy, Inv, Turn, Chose
    PROVE  SeenStep /\ Turn'
  <1> DEFINE q == Awake
  <1>1. Asked /\ Inv'
    BY ChoiceKeepsInv DEF Chose
  <1>2. CASE NobodyToRun(q)
    BY <1>1, <1>2, NobodyIsSeen
  <1>3. Sound(q) /\ Shows(Abstract!Woken(SeenNow, clock + Slept), Folk(q), next_pid, clock + Slept)
    BY <1>1, AwakeSeen
  <1>4. FrontRuns(q) => HasFirst(q)
    <2>1. CASE sleep
      BY <1>1, <2>1, NapSeen
    <2>2. CASE ~sleep
      BY <1>1, <2>2, AwakeSeen DEF Turn
    <2> QED
      BY <2>1, <2>2
  <1>5. ASSUME NEW left, IsSlice(left), FrontRuns(q), KeepRunning(q, left) PROVE SeenStep /\ Turn'
    <2>1. left \in 1 .. MaxSlice
      BY <1>5, QueuesAssumption DEF IsSlice
    <2> HIDE DEF q
    <2>2. Abstract!SchedNext /\ Turn'
      BY <1>1, <1>3, <1>4, <1>5, <2>1, RunIsSeen
    <2> QED
      BY <2>2 DEF SeenStep
  <1>6. ASSUME NEW r, NEW left, IsSlice(left), FrontRuns(q), Rearranged(r, Preempted(q)), RunFirst(r, left)
        PROVE  SeenStep /\ Turn'
    BY <1>1, <1>4, <1>6, PreemptIsSeen DEF SeenStep
  <1>7. ASSUME NEW r, NEW left, IsSlice(left), CanStart(q), Rearranged(r, q), RunFirst(r, left)
        PROVE  SeenStep /\ Turn'
    <2>1. Still(q) /\ q.ready # <<>> /\ HasFirst(q)
      BY <1>3, <1>7, AwakeStill, SleepersIs DEF CanStart
    <2> HIDE DEF q
    <2>2. Abstract!SchedNext /\ Turn'
      BY <1>1, <1>3, <1>7, <2>1, FirstIsSeen
    <2> QED
      BY <2>2 DEF SeenStep
  <1> QED
    BY <1>2, <1>5, <1>6, <1>7 DEF Chose, Continues, Lines

-----------------------------------------------------------------------------
LEMMA CallIsSeen ==
    ASSUME Proper, Inv, Turn, Called
    PROVE  Abstract!SchedNext /\ Turn'
  <1>1. Inv'
    BY CallKeepsInv
  <1> QED
    BY <1>1, ForkIsSeen, SleepIsSeen, SignalIsSeen, WaitIsSeen, ExitIsSeen DEF Called

LEMMA StepIsSeen ==
    ASSUME Proper, Roomy, Inv, Turn, AnyStep
    PROVE  SeenStep /\ Turn'
  <1>1. Inv'
    BY StepKeepsInv
  <1>2. ASSUME NEW c, next_pid = 1 => Infant(c), BootBy(c) PROVE SeenStep /\ Turn'
    BY <1>1, <1>2, BootIsSeen DEF SeenStep
  <1>3. CASE Called
    BY <1>3, CallIsSeen DEF SeenStep
  <1>4. ASSUME NEW p, Expiry(p), ExpireBy(p) PROVE SeenStep /\ Turn'
    BY <1>1, <1>4, ExpireIsSeen DEF SeenStep
  <1>5. CASE Chose
    BY <1>5, ChoiceIsSeen
  <1> QED
    BY <1>2, <1>3, <1>4, <1>5 DEF AnyStep

LEMMA InitIsSeen == Init => Turn /\ Abstract!SchedInit
  <1> SUFFICES ASSUME Init PROVE Turn /\ Abstract!SchedInit
    OBVIOUS
  <1>1. ready = <<>> /\ next_pid = 1 /\ sleep = FALSE /\ decision = Plain("Start") /\ clock = 0
    BY DEF Init
  <1>2. decision.kind = "Start"
    BY <1>1 DEF Plain
  <1>3. ~FrontRuns(Queues)
    BY <1>1 DEF FrontRuns, Queues
  <1>4. sleep = (decision.kind = "Sleep")
    BY <1>1, <1>2
  <1>5. Turn
    BY <1>2, <1>3, <1>4 DEF Turn
  <1>6. \A pid \in Pids : SeenAs(pid) = Alone("Unborn")
    BY <1>1 DEF Pids, SeenAs, Alone
  <1>7. SeenNow = [pid \in Pids |-> Alone("Unborn")]
    BY <1>6 DEF SeenNow
  <1>8. Verdict = "none"
    BY <1>2 DEF Verdict
  <1>9. Abstract!SchedInit
    BY <1>1, <1>7, <1>8, AbstractStates DEF Abstract!SchedInit, SeenNow, Verdict
  <1> QED
    BY <1>5, <1>9

LEMMA StutterIsSeen == Turn /\ UNCHANGED <<vars, policy>> => SeenStep /\ Turn'
  <1> SUFFICES ASSUME Turn, UNCHANGED <<vars, policy>> PROVE SeenStep /\ Turn'
    OBVIOUS
  <1>1. /\ ready' = ready /\ waiting' = waiting /\ remaining' = remaining /\ next_pid' = next_pid /\ sleep' = sleep
        /\ sleep_time' = sleep_time /\ decision' = decision /\ clock' = clock
    BY DEF vars, code, history
  <1>2. Queues' = Queues /\ Running' = Running
    BY <1>1 DEF Queues, Running
  <1>3. SeenNow' = SeenNow
    BY <1>1, <1>2, SceneNow
  <1>4. Verdict' = Verdict
    BY <1>1 DEF Verdict
  <1>5. Turn'
    BY <1>1, <1>2 DEF Turn, Napping
  <1> QED
    BY <1>1, <1>3, <1>4, <1>5 DEF SeenStep

-----------------------------------------------------------------------------
(* The line of ready processes *)

Standing == {x.pid : x \in {y \in Range(ready) : IsReady(y)}}

Like(x, y) == IsReady(y) /\ x.pid = y.pid /\ x.priority = y.priority /\ x.extra = y.extra

\* The ready processes of s were d places further back before, or nowhere.
Moved(s, d) ==
    \A k \in 1 .. Len(s) : IsReady(s[k]) =>
        \/ s[k].pid \notin Standing
        \/ k + d \in 1 .. Len(ready) /\ Like(s[k], ready[k + d])

Moves(q, d) == Sound(q) /\ Moved(q.ready, d) /\ \A x \in Who(q.waiting) : x.pid \notin Standing

LEMMA StandingIs ==
    ASSUME Inv
    PROVE  /\ Sound(Queues) /\ List(ready) /\ Len(ready) \in Nat /\ Queues.ready = ready /\ Queues.waiting = waiting
           /\ \A pid : pid \in Standing <=> \E i \in 1 .. Len(ready) : ready[i].pid = pid /\ IsReady(ready[i])
           /\ \A i \in 1 .. Len(ready) : ready[i].pid \in Standing => IsReady(ready[i])
           /\ \A x \in Who(waiting) : x.pid \notin Standing
  <1>1. Sound(Queues) /\ Queues.ready = ready /\ Queues.waiting = waiting
    BY DEF Inv, Tally, Queues
  <1>2. List(ready) /\ Apart(Who(ready), Who(waiting))
    BY <1>1 DEF Sound
  <1>3. Len(ready) \in Nat /\ Range(ready) = Who(ready)
    BY <1>2, ListFacts, WhoIsRange
  <1>4. \A pid : pid \in Standing <=> \E i \in 1 .. Len(ready) : ready[i].pid = pid /\ IsReady(ready[i])
    BY <1>3 DEF Standing, Who
  <1>5. \A i \in 1 .. Len(ready) : ready[i].pid \in Standing => IsReady(ready[i])
    BY <1>2, <1>4 DEF List, Distinct
  <1>6. \A x \in Who(waiting) : x.pid \notin Standing
    <2>1. \A i \in 1 .. Len(ready) : ready[i] \in Who(ready)
      BY DEF Who
    <2> QED
      BY <1>2, <1>4, <2>1 DEF Apart
  <1> QED
    BY <1>1, <1>2, <1>3, <1>4, <1>5, <1>6

LEMMA MovesNow == ASSUME Inv PROVE Moves(Queues, 0)
  <1>1. \A k \in 1 .. Len(ready) : k + 0 \in 1 .. Len(ready) /\ k + 0 = k
    BY StandingIs
  <1>2. Moved(ready, 0)
    BY <1>1 DEF Moved, Like
  <1> QED
    BY <1>2, StandingIs DEF Moves

LEMMA MovesOthers ==
    ASSUME Inv, Calls
    PROVE  Moves(Others, 1) /\ Running.pid \notin Standing /\ Others.ready = Tail(ready) /\ Others.waiting = waiting
  <1>1. Sound(Queues) /\ List(ready) /\ Queues.ready = ready /\ Queues.waiting = waiting
    BY StandingIs
  <1>2. Still(Others) /\ ready # <<>> /\ ready[1] = Running /\ Running.state = "Running"
    BY RunningIs
  <1>3. Others.ready = Tail(ready) /\ Others.waiting = waiting
    BY <1>1, ReadySet DEF Others
  <1>4. /\ Len(ready) \in Nat \ {0} /\ Len(Tail(ready)) = Len(ready) - 1
        /\ \A i \in 1 .. Len(Tail(ready)) : Tail(ready)[i] = ready[i + 1]
    BY <1>1, <1>2, TailIs
  <1>5. Moved(Tail(ready), 1)
    <2>1. \A k \in 1 .. Len(Tail(ready)) : k + 1 \in 1 .. Len(ready)
      BY <1>4
    <2> QED
      BY <1>4, <2>1 DEF Moved, Like
  <1>6. Running.pid \notin Standing
    <2>1. 1 \in 1 .. Len(ready) /\ ~IsReady(ready[1])
      BY <1>2, <1>4 DEF IsReady
    <2> QED
      BY <1>2, <2>1, StandingIs
  <1> QED
    BY <1>2, <1>3, <1>5, <1>6, StandingIs DEF Moves, Still

\* A process that is not ready in front.
LEMMA MovesFront ==
    ASSUME Inv, Calls, NEW left \in Lefts, NEW p, Billed(p, left)
    PROVE  Moves(Resumed(p), 0)
  <1>1. Sound(Resumed(p)) /\ p \in Pcbs /\ p.state = "Running"
    BY ResumedIs, RunningIs DEF Billed
  <1>2. Moves(Others, 1) /\ Sound(Others) /\ Others.ready = Tail(ready) /\ Others.waiting = waiting
    BY MovesOthers DEF Moves
  <1>3. Resumed(p).ready = <<p>> \o Tail(ready) /\ Resumed(p).waiting = waiting
    <2> DEFINE f == <<p>> \o Others.ready
    <2>1. Resumed(p) = [Others EXCEPT !.ready = f]
      BY Zenon DEF Resumed
    <2> HIDE DEF f
    <2>2. Resumed(p).ready = f /\ Resumed(p).waiting = Others.waiting
      BY <1>2, <2>1, ReadySet
    <2> QED
      BY <1>2, <2>2 DEF f
  <1> DEFINE s == Tail(ready)
             a == <<p>>
             r == a \o s
  <1>4. List(ready) /\ ready # <<>>
    BY StandingIs, RunningIs
  <1>5. /\ Len(ready) \in Nat \ {0} /\ Len(s) = Len(ready) - 1 /\ s \in Seq(Pcbs)
        /\ \A i \in 1 .. Len(s) : s[i] = ready[i + 1]
    BY <1>4, TailIs DEF List
  <1>6. a \in Seq(Pcbs) /\ Len(a) = 1 /\ a[1] = p
    BY <1>1, OneList DEF List
  <1> HIDE DEF s, a
  <1>7. /\ Len(r) = Len(a) + Len(s)
        /\ \A i \in 1 .. Len(a) + Len(s) : r[i] = IF i <= Len(a) THEN a[i] ELSE s[i - Len(a)]
    BY <1>5, <1>6, ConcatProperties
  <1> HIDE DEF r
  <1>8. Moved(r, 0)
    <2> SUFFICES ASSUME NEW k \in 1 .. Len(r), IsReady(r[k])
                 PROVE  k + 0 \in 1 .. Len(ready) /\ Like(r[k], ready[k + 0])
      BY DEF Moved
    <2>1. k \in 1 .. Len(ready) /\ k + 0 = k
      BY <1>5, <1>6, <1>7
    <2>2. k # 1
      BY <1>1, <1>5, <1>6, <1>7 DEF IsReady
    <2>3. ~(k <= Len(a)) /\ k - Len(a) = k - 1 /\ k - 1 \in 1 .. Len(s) /\ (k - 1) + 1 = k
      BY <1>5, <1>6, <2>1, <2>2
    <2>4. r[k] = s[k - 1]
      BY <1>5, <1>6, <1>7, <2>1, <2>3
    <2>5. r[k] = ready[k]
      BY <1>5, <2>3, <2>4
    <2> QED
      BY <2>1, <2>5 DEF Like
  <1> QED
    BY <1>1, <1>3, <1>8, StandingIs DEF Moves, r, a, s

\* Whoever comes behind was not in the line.
LEMMA MovesAppend ==
    ASSUME NEW q, NEW d, Moves(q, d), NEW p \in Pcbs, p.pid \notin Standing,
           NEW r, r.ready = Append(q.ready, p)
    PROVE  Moved(r.ready, d)
  <1>1. q.ready \in Seq(Pcbs) /\ Len(q.ready) \in Nat
    BY ListFacts DEF Moves, Sound
  <1>2. /\ Len(r.ready) = Len(q.ready) + 1
        /\ \A i \in 1 .. Len(q.ready) : r.ready[i] = q.ready[i]
        /\ r.ready[Len(q.ready) + 1] = p
    BY <1>1, AppendProperties
  <1>3. \A k \in 1 .. Len(r.ready) : k \in 1 .. Len(q.ready) \/ k = Len(q.ready) + 1
    BY <1>1, <1>2
  <1> QED
    BY <1>2, <1>3 DEF Moves, Moved

LEMMA MovesAway ==
    ASSUME NEW q, NEW d, Moves(q, d), NEW p, p.pid \notin Standing,
           NEW r, Sound(r), Folk(r) = Folk(q) \cup {p}, r.ready = q.ready
    PROVE  Moves(r, d)
  <1>1. \A x \in Who(r.waiting) : x \in Who(q.waiting) \/ x = p
    <2> SUFFICES ASSUME NEW x \in Who(r.waiting) PROVE x \in Who(q.waiting) \/ x = p
      OBVIOUS
    <2>1. x \notin Who(q.ready)
      BY DEF Sound, Apart
    <2>2. x \in Folk(q) \cup {p}
      BY DEF Folk
    <2> QED
      BY <2>1, <2>2 DEF Folk
  <1> QED
    BY <1>1 DEF Moves

\* The processes that were ready look the same, and those that were not come behind.
LEMMA MovesBecome ==
    ASSUME NEW q, NEW d, Moves(q, d), NEW h, NEW r, Became(r, q, h),
           \A x \in Folk(q) : h[x].pid = x.pid,
           \A x \in Who(q.ready) :
               h[x].state = x.state /\ h[x].priority = x.priority /\ h[x].extra = x.extra
    PROVE  Moves(r, d)
  <1>1. List(q.ready) /\ List(r.ready) /\ Len(q.ready) \in Nat /\ Len(r.ready) \in Nat
    BY ListFacts DEF Moves, Became, Sound
  <1>2. \A x \in Folk(r) : (\E i \in 1 .. Len(q.ready) : x = r.ready[i]) \/ x.pid \notin Standing
    <2> SUFFICES ASSUME NEW y \in Folk(q)
                 PROVE  (\E i \in 1 .. Len(q.ready) : h[y] = r.ready[i]) \/ h[y].pid \notin Standing
      BY DEF Became, Image
    <2>1. CASE y \in Who(q.ready)
      <3>1. PICK i \in 1 .. Len(q.ready) : y = q.ready[i]
        BY <2>1 DEF Who
      <3> QED
        BY <3>1 DEF Became
    <2>2. CASE y \in Who(q.waiting)
      BY <2>2 DEF Moves
    <2> QED
      BY <2>1, <2>2 DEF Folk
  <1>3. \A i \in 1 .. Len(q.ready) : i \in 1 .. Len(r.ready) /\ r.ready[i] \in Who(r.ready)
    <2>1. \A i \in 1 .. Len(q.ready) : i \in 1 .. Len(r.ready)
      BY <1>1 DEF Became
    <2> QED
      BY <2>1 DEF Who
  <1>4. \A x \in Who(r.waiting) : x.pid \notin Standing
    <2> SUFFICES ASSUME NEW x \in Who(r.waiting) PROVE x.pid \notin Standing
      OBVIOUS
    <2>1. x \in Folk(r)
      BY DEF Folk
    <2>2. ~\E i \in 1 .. Len(q.ready) : x = r.ready[i]
      BY <1>3 DEF Became, Sound, Apart
    <2> QED
      BY <1>2, <2>1, <2>2
  <1>5. \A k \in 1 .. Len(r.ready) : k \in 1 .. Len(q.ready) \/ r.ready[k].pid \notin Standing
    <2> SUFFICES ASSUME NEW k \in 1 .. Len(r.ready), k \notin 1 .. Len(q.ready) PROVE r.ready[k].pid \notin Standing
      OBVIOUS
    <2>1. r.ready[k] \in Folk(r)
      BY DEF Folk, Who
    <2>2. ~\E i \in 1 .. Len(q.ready) : r.ready[k] = r.ready[i]
      BY <1>1, <1>3 DEF List, Distinct
    <2> QED
      BY <1>2, <2>1, <2>2
  <1>6. \A k \in 1 .. Len(q.ready) :
            /\ r.ready[k].pid = q.ready[k].pid /\ r.ready[k].state = q.ready[k].state
            /\ r.ready[k].priority = q.ready[k].priority /\ r.ready[k].extra = q.ready[k].extra
    <2>1. \A k \in 1 .. Len(q.ready) : q.ready[k] \in Folk(q) /\ q.ready[k] \in Who(q.ready)
      BY DEF Folk, Who
    <2> QED
      BY <2>1 DEF Became
  <1>7. Moved(r.ready, d)
    <2> SUFFICES ASSUME NEW k \in 1 .. Len(r.ready), IsReady(r.ready[k]), r.ready[k].pid \in Standing
                 PROVE  k + d \in 1 .. Len(ready) /\ Like(r.ready[k], ready[k + d])
      BY DEF Moved
    <2>1. k \in 1 .. Len(q.ready)
      BY <1>5
    <2>2. IsReady(q.ready[k]) /\ q.ready[k].pid \in Standing
      BY <1>6, <2>1 DEF IsReady
    <2>3. k + d \in 1 .. Len(ready) /\ Like(q.ready[k], ready[k + d])
      BY <2>1, <2>2 DEF Moves, Moved
    <2> QED
      BY <1>6, <2>1, <2>3 DEF Like
  <1> QED
    BY <1>4, <1>7 DEF Moves, Became

LEMMA MovesLater ==
    ASSUME NEW q, NEW d, Moves(q, d), NEW t \in Nat PROVE Moves(ActualiseTimings(q, t), d)
  <1> DEFINE h == After(q, t)
             r == ActualiseTimings(q, t)
  <1>1. Became(r, q, h) /\ Folk(q) \in SUBSET Pcbs /\ Sound(q)
    BY TimePasses, SoundFolk DEF Moves
  <1>2. \A x \in Folk(q) : h[x] = Elapsed(x, t) /\ h[x].pid = x.pid
    <2>1. \A x \in Folk(q) : h[x] = Elapsed(x, t) /\ Later(Elapsed(x, t), x, t)
      BY <1>1, ElapsedIs DEF After
    <2> QED
      BY <2>1 DEF Later
  <1> HIDE DEF h, r
  <1>3. ASSUME NEW x \in Who(q.ready)
        PROVE  h[x].state = x.state /\ h[x].priority = x.priority /\ h[x].extra = x.extra
    <2>1. x \in Folk(q) /\ x \in Pcbs /\ x.state # "Waiting"
      BY <1>1 DEF Folk, Sound, Settled
    <2>2. h[x] = Older(x, t)
      BY <1>2, <2>1 DEF Elapsed
    <2> QED
      BY <2>1, <2>2 DEF Older, Pcbs
  <1>4. Moves(r, d)
    BY <1>1, <1>2, <1>3, MovesBecome
  <1> QED
    BY <1>4 DEF r

LEMMA MovesHeard ==
    ASSUME NEW q, NEW d, Moves(q, d), NEW signal \in Events PROVE Moves(UpdateWaiting(q, signal), d)
  <1> DEFINE h == Signalled(q, signal)
             r == UpdateWaiting(q, signal)
  <1>1. Became(r, q, h) /\ Folk(q) \in SUBSET Pcbs /\ Sound(q)
    BY SignalIsHeard, SoundFolk DEF Moves
  <1>2. \A x \in Folk(q) : h[x] = Heard(x, signal) /\ h[x].pid = x.pid
    <2>1. \A x \in Folk(q) : h[x] = Heard(x, signal) /\ Hears(Heard(x, signal), x, signal)
      BY <1>1, HeardIs DEF Signalled
    <2> QED
      BY <2>1 DEF Hears
  <1> HIDE DEF h, r
  <1>3. ASSUME NEW x \in Who(q.ready) PROVE h[x] = x
    <2>1. x \in Folk(q) /\ x.state # "Waiting"
      BY <1>1 DEF Folk, Sound, Settled
    <2> QED
      BY <1>2, <2>1 DEF Heard
  <1>4. Moves(r, d)
    BY <1>1, <1>2, <1>3, MovesBecome
  <1> QED
    BY <1>4 DEF r

\* The front process goes to the back, and everyone else a place forward.
LEMMA MovesPreempted ==
    ASSUME Inv, FrontRuns(Queues)
    PROVE  Moved(Preempted(Queues).ready, 1)
  <1>1. Sound(Queues) /\ List(ready) /\ Queues.ready = ready /\ ready # <<>> /\ ~IsReady(Head(ready))
    BY StandingIs DEF FrontRuns, IsReady
  <1> DEFINE h == Head(ready)
             p == [h EXCEPT !.state = "Ready"]
             s == Tail(ready)
             a == <<p>>
             r == s \o a
  <1>2. /\ Len(ready) \in Nat \ {0} /\ Len(s) = Len(ready) - 1 /\ s \in Seq(Pcbs) /\ h = ready[1] /\ h \in Pcbs
        /\ \A i \in 1 .. Len(s) : s[i] = ready[i + 1]
    BY <1>1, TailIs DEF List
  <1>3. p \in Pcbs /\ p.pid = h.pid
    BY <1>2, TurnedIs DEF Turned
  <1>4. p.pid \notin Standing
    <2>1. 1 \in 1 .. Len(ready)
      BY <1>2
    <2> QED
      BY <1>1, <1>2, <1>3, <2>1, StandingIs
  <1>5. Preempted(Queues).ready = r
    <2>1. Preempted(Queues) = [Queues EXCEPT !.ready = Tail(Queues.ready) \o <<[Head(Queues.ready) EXCEPT !.state = "Ready"]>>]
      BY Zenon DEF Preempted
    <2>2. Preempted(Queues) = [Queues EXCEPT !.ready = r]
      BY <1>1, <2>1
    <2> HIDE DEF r
    <2> QED
      BY <1>1, <2>2, ReadySet
  <1> HIDE DEF p
  <1>6. a \in Seq(Pcbs) /\ Len(a) = 1 /\ a[1] = p
    BY <1>3, OneList DEF List
  <1> HIDE DEF s, a, h
  <1>7. /\ Len(r) = Len(s) + Len(a)
        /\ \A i \in 1 .. Len(s) + Len(a) : r[i] = IF i <= Len(s) THEN s[i] ELSE a[i - Len(s)]
    BY <1>2, <1>6, ConcatProperties
  <1> HIDE DEF r
  <1>8. Moved(r, 1)
    <2> SUFFICES ASSUME NEW k \in 1 .. Len(r), r[k].pid \in Standing, IsReady(r[k])
                 PROVE  k + 1 \in 1 .. Len(ready) /\ Like(r[k], ready[k + 1])
      BY DEF Moved
    <2>1. k \in 1 .. Len(s) + 1
      BY <1>6, <1>7
    <2>2. k # Len(s) + 1
      <3>1. ASSUME k = Len(s) + 1 PROVE FALSE
        <4>1. ~(k <= Len(s)) /\ k - Len(s) = 1 /\ k \in 1 .. Len(s) + Len(a)
          BY <1>2, <1>6, <2>1, <3>1
        <4>2. r[k] = p
          BY <1>6, <1>7, <4>1
        <4> QED
          BY <1>4, <4>2
      <3> QED
        BY <3>1
    <2>3. k <= Len(s) /\ k \in 1 .. Len(s) /\ k + 1 \in 1 .. Len(ready) /\ k \in 1 .. Len(s) + Len(a)
      BY <1>2, <1>6, <2>1, <2>2
    <2>4. r[k] = ready[k + 1]
      BY <1>2, <1>7, <2>3
    <2> QED
      BY <2>3, <2>4 DEF Like
  <1> QED
    BY <1>5, <1>8

\* The first of r, no longer ready, and the others as they were.
LEMMA FirstRunsOthers ==
    ASSUME NEW r, Still(r), r.ready # <<>>
    PROVE  /\ Len(FirstRuns(r).ready) = Len(r.ready) /\ Len(r.ready) \in Nat \ {0}
           /\ FirstRuns(r).ready[1] = Turned(r.ready[1], "Running")
           /\ r.ready[1] \in Pcbs
           /\ \A k \in 2 .. Len(r.ready) : FirstRuns(r).ready[k] = r.ready[k]
  <1> DEFINE s == r.ready
             p == Turned(s[1], "Running")
             f == [s EXCEPT ![1] = p]
  <1>1. s \in Seq(Pcbs) /\ Len(s) \in Nat \ {0} /\ 1 \in 1 .. Len(s) /\ s[1] \in Pcbs
    BY HeadTaken, ListFacts DEF Still, Sound
  <1>2. p \in Pcbs
    BY <1>1, TurnedIs
  <1>3. FirstRuns(r) = [r EXCEPT !.ready = f]
    <2>1. FirstRuns(r) = [r EXCEPT !.ready = [r.ready EXCEPT ![1] = [r.ready[1] EXCEPT !.state = "Running"]]]
      BY DEF FirstRuns
    <2> QED
      BY <2>1 DEF Turned
  <1> HIDE DEF p, s
  <1>4. Len(f) = Len(s) /\ \A j \in 1 .. Len(s) : f[j] = IF j = 1 THEN p ELSE s[j]
    BY <1>1, <1>2, ExceptSeq
  <1> HIDE DEF f
  <1>5. FirstRuns(r).ready = f
    BY <1>3, ReadySet DEF Still
  <1>6. f[1] = p /\ \A k \in 2 .. Len(s) : f[k] = s[k]
    BY <1>1, <1>4
  <1> QED
    BY <1>1, <1>4, <1>5, <1>6 DEF s, p

LEMMA MovesFirst ==
    ASSUME NEW r, Still(r), r.ready # <<>>, NEW d, Moved(r.ready, d)
    PROVE  Moved(FirstRuns(r).ready, d)
  <1> DEFINE f == FirstRuns(r).ready
  <1>1. /\ Len(f) = Len(r.ready) /\ Len(r.ready) \in Nat \ {0} /\ f[1] = Turned(r.ready[1], "Running")
        /\ r.ready[1] \in Pcbs
        /\ \A k \in 2 .. Len(r.ready) : f[k] = r.ready[k]
    BY FirstRunsOthers
  <1>2. ~IsReady(f[1])
    BY <1>1, TurnedIs DEF IsReady
  <1> HIDE DEF f
  <1>3. \A k \in 1 .. Len(f) : IsReady(f[k]) => k \in 1 .. Len(r.ready) /\ f[k] = r.ready[k]
    <2>1. \A k \in 1 .. Len(f) : k = 1 \/ k \in 2 .. Len(r.ready)
      BY <1>1
    <2> QED
      BY <1>1, <1>2, <2>1
  <1> QED
    BY <1>3 DEF Moved, f

-----------------------------------------------------------------------------
(* Who entered the line when, and behind how many *)

Entries == [Pids -> [at : Int, ahead : Int]]

\* The history of the line s, that is there from now on.
Enters(s, now) ==
    /\ entered' \in Entries
    /\ \A k \in 1 .. Len(s) : IsReady(s[k]) =>
           /\ s[k].pid \in Pids
           /\ s[k].pid \in Standing => entered'[s[k].pid] = entered[s[k].pid]
           /\ s[k].pid \notin Standing => entered'[s[k].pid] = [at |-> now, ahead |-> k - 1]

LEMMA EnteredIs ==
    ASSUME Inv, Inv', entered \in Entries, NEW q, Sound(q), NEW now \in Int, Become(q, now)
    PROVE  Enters(q.ready, now)
  <1> DEFINE s == q.ready
             At(pid) == CHOOSE i \in DOMAIN s : s[i].pid = pid
             New(pid) == \E p \in Range(s) : p.pid = pid /\ IsReady(p) /\ pid \notin Standing
  <1>1. List(s) /\ Len(s) \in Nat /\ DOMAIN s = 1 .. Len(s) /\ Range(s) = Who(s)
    BY ListFacts, WhoIsRange DEF Sound
  <1>2. entered' = [pid \in Pids |-> IF New(pid) THEN [at |-> now, ahead |-> At(pid) - 1] ELSE entered[pid]]
    <2>1. ready' = s
      BY DEF Become
    <2>2. entered' = [pid \in Pids |->
              IF \E p \in Range(ready') : p.pid = pid /\ IsReady(p) /\ pid \notin Standing
              THEN [at |-> now, ahead |-> (CHOOSE i \in DOMAIN ready' : ready'[i].pid = pid) - 1]
              ELSE entered[pid]]
      BY DEF Become, Standing
    <2> HIDE DEF s
    <2> QED
      BY <2>1, <2>2
  <1>3. \A k \in 1 .. Len(s) : s[k].pid \in Pids
    <2>1. Given(Folk(q), next_pid') /\ next_pid' \in 1 .. MaxPid + 1
      BY NextGiven
    <2>2. \A k \in 1 .. Len(s) : s[k] \in Folk(q)
      BY DEF Folk, Who
    <2> QED
      BY <2>1, <2>2, GivenPid
  <1> HIDE DEF s
  <1>4. \A k \in 1 .. Len(s) : At(s[k].pid) = k
    <2> SUFFICES ASSUME NEW k \in 1 .. Len(s) PROVE At(s[k].pid) = k
      OBVIOUS
    <2>1. \A i \in DOMAIN s : s[i].pid = s[k].pid <=> i = k
      BY <1>1 DEF List, Distinct
    <2> QED
      BY <1>1, <2>1
  <1>5. \A pid : New(pid) <=> pid \notin Standing /\ \E k \in 1 .. Len(s) : s[k].pid = pid /\ IsReady(s[k])
    BY <1>1 DEF Who
  <1> HIDE DEF At, New
  <1>6. ASSUME NEW pid \in Pids PROVE entered'[pid] \in [at : Int, ahead : Int]
    <2>1. CASE New(pid)
      <3>1. At(pid) \in Int
        BY <1>1, <1>4, <1>5, <2>1
      <3>2. entered'[pid] = [at |-> now, ahead |-> At(pid) - 1]
        BY <1>2, <2>1
      <3> QED
        BY <3>1, <3>2
    <2>2. CASE ~New(pid)
      <3>1. entered'[pid] = entered[pid]
        BY <1>2, <2>2
      <3> QED
        BY <3>1 DEF Entries
    <2> QED
      BY <2>1, <2>2
  <1>7. entered' \in Entries
    BY <1>2, <1>6 DEF Entries
  <1>8. ASSUME NEW k \in 1 .. Len(s), IsReady(s[k])
        PROVE  /\ s[k].pid \in Standing => entered'[s[k].pid] = entered[s[k].pid]
               /\ s[k].pid \notin Standing => entered'[s[k].pid] = [at |-> now, ahead |-> k - 1]
    BY <1>2, <1>3, <1>4, <1>5, <1>8
  <1> QED
    BY <1>3, <1>7, <1>8 DEF Enters, s

\* A ready process has been so for at most a slice for each of those that were
\* before it and are no more, and for what the running one used of its own.
InLine(s, now, held, e) ==
    \A k \in 1 .. Len(s) : IsReady(s[k]) =>
        now - e[s[k].pid].at <= (e[s[k].pid].ahead - (k - 1)) * MaxSlice + held

LEMMA OneSliceMore == \A a \in Int, m \in Int : (a + 1) * m = a * m + m /\ a * m \in Int
  OBVIOUS

LEMMA LineMoves ==
    ASSUME Inv, entered \in Entries, NEW s, NEW t \in Nat, Enters(s, clock + t), Len(s) \in Nat,
           NEW d \in {0, 1}, Moved(s, d),
           NEW held \in Int, InLine(ready, clock, held, entered),
           NEW later \in Nat, ready # <<>> => later + d * MaxSlice >= held + t
    PROVE  InLine(s, clock + t, later, entered')
  <1> SUFFICES ASSUME NEW k \in 1 .. Len(s), IsReady(s[k])
               PROVE  (clock + t) - entered'[s[k].pid].at <= (entered'[s[k].pid].ahead - (k - 1)) * MaxSlice + later
    BY DEF InLine
  <1>1. clock \in Nat /\ MaxSlice \in Nat
    BY QueuesAssumption DEF Inv, CountersOK
  <1>2. CASE s[k].pid \notin Standing
    <2>1. entered'[s[k].pid] = [at |-> clock + t, ahead |-> k - 1]
      BY <1>2 DEF Enters
    <2>2. entered'[s[k].pid].at = clock + t /\ entered'[s[k].pid].ahead = k - 1
      BY <2>1
    <2>3. ((k - 1) - (k - 1)) * MaxSlice = 0
      BY <1>1
    <2> QED
      BY <1>1, <2>2, <2>3
  <1>3. CASE s[k].pid \in Standing
    <2> DEFINE e == entered[s[k].pid]
               j == k + d
    <2>1. entered'[s[k].pid] = e /\ e.at \in Int /\ e.ahead \in Int
      BY <1>3 DEF Enters, Entries
    <2>2. j \in 1 .. Len(ready) /\ IsReady(ready[j]) /\ ready[j].pid = s[k].pid
      BY <1>3 DEF Moved, Like
    <2>3. clock - e.at <= (e.ahead - (j - 1)) * MaxSlice + held
      BY <2>2 DEF InLine
    <2>4. ready # <<>>
      <3>1. Len(ready) # 0
        BY <2>2, StandingIs
      <3> QED
        BY <3>1
    <2> HIDE DEF e
    <2>5. CASE d = 0
      <3>1. j - 1 = k - 1 /\ d * MaxSlice = 0
        BY <1>1, <2>5
      <3> DEFINE m == (e.ahead - (k - 1)) * MaxSlice
      <3>2. clock - e.at <= m + held /\ m \in Int
        BY <1>1, <2>1, <2>3, <3>1
      <3> HIDE DEF m
      <3>3. later >= held + t
        BY <1>1, <2>4, <3>1
      <3>4. (clock + t) - e.at <= m + later
        BY <1>1, <2>1, <3>2, <3>3
      <3> QED
        BY <2>1, <3>4 DEF m
    <2>6. CASE d = 1
      <3> DEFINE a == e.ahead - k
                 m == a * MaxSlice
      <3>1. j - 1 = k /\ d * MaxSlice = MaxSlice /\ a \in Int /\ e.ahead - (k - 1) = a + 1
        BY <1>1, <2>1, <2>6
      <3>2. (a + 1) * MaxSlice = m + MaxSlice /\ m \in Int
        BY <1>1, <3>1, OneSliceMore
      <3>3. clock - e.at <= m + held
        BY <2>3, <3>1
      <3> HIDE DEF m
      <3>4. later + MaxSlice >= held + t
        BY <2>4, <3>1
      <3>5. (clock + t) - e.at <= (m + MaxSlice) + later
        BY <1>1, <2>1, <3>2, <3>3, <3>4
      <3> QED
        BY <2>1, <3>1, <3>2, <3>5
    <2> QED
      BY <2>5, <2>6
  <1> QED
    BY <1>2, <1>3

-----------------------------------------------------------------------------
(* Why nobody waits long *)

\* x became ready in the slice that goes on.
Recent(x) == clock - entered[x.pid].at <= MaxSlice - remaining

AllBear == \A i \in 2 .. Len(ready) : Recent(ready[i]) \/ Content(Running, remaining, ready[i])

Held == IF FrontRuns(Queues) THEN MaxSlice - remaining ELSE 0

\* The inductive invariant, with Inv: while a process runs, the others are content
\* or have just come, and the line moves a place forward with each slice.
Patience ==
    /\ entered \in Entries
    /\ sleep => ready = <<>> /\ decision.kind \notin {"Start", "Run"}
    /\ decision.kind = "Run" => remaining >= 1
    /\ FrontRuns(Queues) /\ Usual => AllBear
    /\ InTurn => InLine(ready, clock, Held, entered)

LEMMA HeldIs ==
    ASSUME Inv
    PROVE  /\ Held \in 0 .. MaxSlice /\ remaining \in 0 .. MaxSlice /\ remaining \in Nat /\ MaxSlice \in Nat
           /\ clock \in Nat
           /\ FrontRuns(Queues) => Held = MaxSlice - remaining
           /\ ~FrontRuns(Queues) => Held = 0
  BY QueuesAssumption DEF Inv, CountersOK, Held

\* The slice goes on with the process p.
LEMMA FrontMoves ==
    ASSUME Inv, entered \in Entries, AllBear, NEW q, Sound(q), q.ready # <<>>, NEW t \in Nat,
           Enters(q.ready, clock + t), Moved(q.ready, 0),
           ready' = q.ready, clock' = clock + t, policy' = policy, remaining' \in Nat, remaining' + t <= remaining,
           NEW p, Pays(p, remaining'), q.ready[1].priority = p.priority, q.ready[1].extra = p.extra
    PROVE  AllBear'
  <1>1. remaining \in Nat /\ MaxSlice \in Nat /\ clock \in Nat
    BY HeldIs
  <1>2. Len(q.ready) \in Nat \ {0} /\ Head(q.ready) = q.ready[1]
    BY HeadTaken
  <1>3. Running' = q.ready[1]
    BY <1>2 DEF Running
  <1> SUFFICES ASSUME NEW i \in 2 .. Len(q.ready) PROVE Recent(q.ready[i])' \/ Content(q.ready[1], remaining, q.ready[i])'
    BY <1>3 DEF AllBear
  <1> DEFINE x == q.ready[i]
  <1>4. i \in 1 .. Len(q.ready) /\ i + 0 = i /\ IsReady(x)
    BY <1>2 DEF Sound
  <1>5. CASE x.pid \notin Standing
    <2>1. entered'[x.pid] = [at |-> clock + t, ahead |-> i - 1]
      BY <1>4, <1>5 DEF Enters
    <2>2. entered'[x.pid].at = clock + t
      BY <2>1
    <2>3. clock' - entered'[x.pid].at <= MaxSlice - remaining'
      <3>1. remaining <= MaxSlice
        BY HeldIs
      <3> QED
        BY <1>1, <2>2, <3>1
    <2> QED
      BY <2>3 DEF Recent
  <1>6. CASE x.pid \in Standing
    <2>1. i \in 1 .. Len(ready) /\ Like(x, ready[i])
      BY <1>4, <1>6 DEF Moved
    <2>2. entered'[x.pid] = entered[x.pid] /\ entered[x.pid].at \in Int
      BY <1>4, <1>6 DEF Enters, Entries
    <2>3. x.pid = ready[i].pid /\ x.priority = ready[i].priority /\ x.extra = ready[i].extra /\ ready[i] \in Pcbs
      BY <2>1, StandingIs, ListFacts DEF Like
    <2>4. i \in 2 .. Len(ready)
      BY <2>1, StandingIs
    <2> DEFINE y == ready[i]
    <2>5. CASE Recent(y)
      <3>1. clock - entered[x.pid].at <= MaxSlice - remaining
        BY <2>3, <2>5 DEF Recent
      <3> DEFINE n == entered[x.pid].at
                 m == remaining'
      <3>2. n \in Int /\ m \in Nat /\ m + t <= remaining /\ clock - n <= MaxSlice - remaining
        BY <2>2, <3>1
      <3> HIDE DEF n, m
      <3>3. (clock + t) - n <= MaxSlice - m
        BY <1>1, <3>2
      <3>4. clock' - entered'[x.pid].at <= MaxSlice - remaining'
        BY <2>2, <3>3 DEF n, m
      <3> QED
        BY <3>4 DEF Recent
    <2>6. CASE Content(Running, remaining, y)
      <3>1. Content(p, remaining', y)
        BY <2>3, <2>6 DEF Pays
      <3>2. Content(q.ready[1], remaining, x)'
        BY <2>3, <3>1 DEF Content, ByPriority, ByUse
      <3> QED
        BY <3>2
    <2> QED
      BY <2>4, <2>5, <2>6 DEF AllBear
  <1> QED
    BY <1>5, <1>6

LEMMA SamePolicy ==
    ASSUME policy' = policy PROVE (InTurn' <=> InTurn) /\ (Usual' <=> Usual) /\ (InTurn => Usual)
  BY Zenon DEF InTurn, Usual, ByUse

\* stop() ends the slice, or charges the front process and lets it go on.
LEMMA StopPatience ==
    ASSUME Inv, Inv', Patience, policy' = policy, NEW q, Sound(q), NEW t \in Nat, t <= remaining,
           NEW left, Stops(q, t, left),
           \/ Moved(q.ready, 1) /\ ~FrontRuns(q)
           \/ /\ Moved(q.ready, 0) /\ FrontRuns(q) /\ left + t <= remaining
              /\ \E p : Pays(p, left) /\ q.ready[1].priority = p.priority /\ q.ready[1].extra = p.extra
    PROVE  Patience'
  <1>1. Become(q, clock + t) /\ remaining' = left /\ sleep' = sleep /\ decision' = Plain("Stopped") /\ Calls
    BY DEF Stops
  <1>2. Queues' = q /\ clock' = clock + t /\ ready' = q.ready
    BY <1>1, NextQueues
  <1>3. /\ decision.kind = "Run" /\ FrontRuns(Queues) /\ ~sleep /\ entered \in Entries /\ ready # <<>>
        /\ decision'.kind = "Stopped"
    BY <1>1 DEF Calls, Inv, Patience, Plain, FrontRuns, Queues
  <1>4. /\ Held = MaxSlice - remaining /\ remaining \in Nat /\ MaxSlice \in Nat /\ clock \in Nat
        /\ remaining <= MaxSlice
    BY <1>3, HeldIs
  <1>5. left \in Nat /\ left <= MaxSlice
    <2>1. remaining' \in 0 .. MaxSlice
      BY DEF Inv, CountersOK
    <2> QED
      BY <1>1, <1>4, <2>1
  <1>6. Enters(q.ready, clock + t) /\ Len(q.ready) \in Nat
    <2>1. clock + t \in Int
      BY <1>4
    <2>2. Enters(q.ready, clock + t)
      BY <1>1, <1>3, <2>1, EnteredIs
    <2>3. List(q.ready)
      BY DEF Sound
    <2> QED
      BY <2>2, <2>3, ListFacts
  <1>7. FrontRuns(Queues)' <=> FrontRuns(q)
    BY <1>2 DEF FrontRuns
  <1>8. CASE Moved(q.ready, 1) /\ ~FrontRuns(q)
    <2>1. ~FrontRuns(Queues)' /\ Held' = 0
      BY <1>7, <1>8 DEF Held
    <2>2. 0 + 1 * MaxSlice >= Held + t
      BY <1>4
    <2>3. InTurn => InLine(q.ready, clock + t, 0, entered')
      <3> SUFFICES ASSUME InTurn PROVE InLine(q.ready, clock + t, 0, entered')
        OBVIOUS
      <3>1. InLine(ready, clock, Held, entered) /\ Held \in Int
        BY <1>4 DEF Patience
      <3> HIDE DEF Held, Patience
      <3> QED
        BY <1>3, <1>6, <1>8, <2>2, <3>1, LineMoves
    <2>4. (InTurn => InLine(ready, clock, Held, entered))'
      BY <1>2, <2>1, <2>3, SamePolicy
    <2> QED
      BY <1>1, <1>3, <1>6, <2>1, <2>4 DEF Patience, Enters
  <1>9. CASE /\ Moved(q.ready, 0) /\ FrontRuns(q) /\ left + t <= remaining
             /\ \E p : Pays(p, left) /\ q.ready[1].priority = p.priority /\ q.ready[1].extra = p.extra
    <2>1. FrontRuns(Queues)' /\ Held' = MaxSlice - left
      BY <1>1, <1>7, <1>9 DEF Held
    <2>2. (MaxSlice - left) + 0 * MaxSlice >= Held + t /\ MaxSlice - left \in Nat
      BY <1>4, <1>5, <1>9
    <2>3. InTurn => InLine(q.ready, clock + t, MaxSlice - left, entered')
      <3> SUFFICES ASSUME InTurn PROVE InLine(q.ready, clock + t, MaxSlice - left, entered')
        OBVIOUS
      <3>1. InLine(ready, clock, Held, entered) /\ Held \in Int
        BY <1>4 DEF Patience
      <3> QED
        BY <1>3, <1>6, <1>9, <2>2, <3>1, LineMoves
    <2>4. (InTurn => InLine(ready, clock, Held, entered))'
      BY <1>2, <2>1, <2>3, SamePolicy
    <2>5. Usual => AllBear'
      <3> SUFFICES ASSUME Usual PROVE AllBear'
        OBVIOUS
      <3>1. AllBear /\ q.ready # <<>>
        BY <1>3, <1>9 DEF Patience, FrontRuns
      <3>2. PICK p : Pays(p, left) /\ q.ready[1].priority = p.priority /\ q.ready[1].extra = p.extra
        BY <1>9
      <3> QED
        BY <1>1, <1>2, <1>3, <1>5, <1>6, <1>9, <3>1, <3>2, FrontMoves
    <2> QED
      BY <1>1, <1>3, <1>6, <2>4, <2>5, SamePolicy DEF Patience, Enters
  <1> QED
    BY <1>8, <1>9

LEMMA UsedFits ==
    ASSUME Inv, NEW left \in Lefts
    PROVE  Used(left) \in Nat /\ Used(left) <= remaining /\ left + Used(left) <= remaining
  <1>1. left \in Nat /\ remaining \in Nat /\ Used(left) \in Nat /\ Used(left) <= remaining
    BY UsedIs, HeldIs
  <1>2. left + (remaining - left) <= remaining
    BY <1>1
  <1> QED
    BY <1>1, <1>2 DEF Used

\* q is the line as it was, with the running process, charged as p was, in front.
LedBy(q, p) ==
    /\ Moves(q, 0) /\ Len(q.ready) \in Nat \ {0}
    /\ q.ready[1].state = "Running" /\ q.ready[1].priority = p.priority /\ q.ready[1].extra = p.extra

LEMMA FrontIs == ASSUME NEW q, NEW p, LedBy(q, p) PROVE FrontRuns(q) /\ Sound(q) /\ Moved(q.ready, 0)
  <1>1. Sound(q) /\ List(q.ready) /\ Moved(q.ready, 0)
    BY DEF LedBy, Moves, Sound
  <1>2. q.ready # <<>>
    BY EmptyList DEF LedBy
  <1>3. Head(q.ready) = q.ready[1]
    BY <1>1, <1>2, TailIs
  <1> QED
    BY <1>1, <1>2, <1>3 DEF FrontRuns, LedBy

LEMMA ChargeLeads ==
    ASSUME Inv, Calls, NEW left \in Lefts, NEW p, Billed(p, left)
    PROVE  LedBy(Charge(p, left), p)
  <1> DEFINE q == Resumed(p)
             r == Charge(p, left)
             t == Used(left)
  <1>1. Moves(q, 0) /\ t \in Nat
    BY MovesFront, UsedIs
  <1>2. Moves(r, 0)
    BY <1>1, MovesLater DEF Charge
  <1>3. Became(r, q, After(q, t)) /\ Sound(q) /\ q.ready[1] = p /\ Len(q.ready) \in Nat \ {0}
    BY ChargeIs, ResumedIs
  <1>4. p \in Pcbs /\ p.state = "Running"
    BY RunningIs DEF Billed
  <1> HIDE DEF q, r, t
  <1>5. 1 \in 1 .. Len(q.ready) /\ p \in Folk(q) /\ Len(r.ready) \in Nat \ {0}
    <2>1. 1 \in 1 .. Len(q.ready)
      BY <1>3
    <2>2. List(r.ready)
      BY <1>3 DEF Became, Sound
    <2>3. Len(r.ready) \in Nat /\ Len(r.ready) >= Len(q.ready)
      BY <1>3, <2>2, ListFacts DEF Became
    <2> QED
      BY <1>3, <2>1, <2>3 DEF Folk, Who
  <1>6. r.ready[1] = Older(p, t)
    BY <1>3, <1>4, <1>5 DEF Became, After, Elapsed
  <1>7. Older(p, t).state = "Running" /\ Older(p, t).priority = p.priority /\ Older(p, t).extra = p.extra
    BY <1>4 DEF Older, Pcbs
  <1> QED
    BY <1>2, <1>5, <1>6, <1>7 DEF LedBy, r

LEMMA ForkPatience ==
    ASSUME Inv, Inv', Patience, policy' = policy, NEW left \in Lefts, NEW p, Billed(p, left), Pays(p, left),
           NEW c, Infant(c), ForkBy(p, left, c)
    PROVE  Patience'
  <1> DEFINE q == Charge(p, left)
             r == [q EXCEPT !.ready = Append(@, c)]
             now == clock + Used(left)
  <1>1. Stops(r, Used(left), left)
    BY DEF ForkBy, Charge, Resumed
  <1>2. Calls /\ Used(left) \in Nat /\ Used(left) <= remaining /\ left + Used(left) <= remaining
    BY <1>1, UsedFits DEF Stops
  <1>3. Tally(q, now, next_pid, born) /\ LedBy(q, p)
    BY <1>2, ChargeIs, ChargeLeads
  <1>4. c \in Pcbs /\ Settled(c) /\ IsReady(c) /\ c.pid = next_pid
    BY DEF Infant, Settled, IsReady
  <1>5. next_pid \in Nat
    BY QueuesAssumption DEF Inv, CountersOK
  <1>6. c.pid \notin Standing
    <2>1. \A i \in 1 .. Len(ready) : ready[i] \in Folk(Queues)
      BY StandingIs DEF Folk, Who
    <2>2. \A x \in Folk(Queues) : x.pid \in 1 .. next_pid - 1
      BY DEF Inv, Tally
    <2>3. next_pid \notin 1 .. next_pid - 1
      BY <1>5
    <2> QED
      BY <1>4, <2>1, <2>2, <2>3, StandingIs
  <1> HIDE DEF q, now
  <1>7. Sound(q) /\ Moves(q, 0)
    BY <1>3 DEF LedBy, Moves
  <1>8. Adds(r, q, c) /\ Len(r.ready) = Len(q.ready) + 1 /\ \A i \in 1 .. Len(q.ready) : r.ready[i] = q.ready[i]
    <2>1. \A s \in Folk(q) : s.pid # c.pid
      <3>1. next_pid \notin 1 .. next_pid - 1
        BY <1>5
      <3> QED
        BY <1>3, <1>4, <3>1 DEF Tally
    <2> QED
      BY <1>4, <1>7, <2>1, PutBehind
  <1>9. r.ready = Append(q.ready, c)
    <2> DEFINE f == Append(q.ready, c)
    <2>1. r = [q EXCEPT !.ready = f]
      BY Zenon
    <2> HIDE DEF f, r
    <2> QED
      BY <1>7, <2>1, ReadySet DEF f
  <1> HIDE DEF r
  <1>10. Moved(r.ready, 0) /\ Sound(r)
    BY <1>4, <1>6, <1>7, <1>8, <1>9, MovesAppend DEF Adds
  <1>11. r.ready[1] = q.ready[1] /\ Len(r.ready) \in Nat \ {0}
    BY <1>3, <1>8 DEF LedBy
  <1>12. FrontRuns(r)
    <2>1. List(r.ready) /\ r.ready # <<>>
      BY <1>10, <1>11, EmptyList DEF Sound
    <2>2. Head(r.ready) = r.ready[1]
      BY <2>1, TailIs
    <2> QED
      BY <1>3, <1>11, <2>1, <2>2 DEF FrontRuns, LedBy
  <1>13. r.ready[1].priority = p.priority /\ r.ready[1].extra = p.extra
    BY <1>3, <1>11 DEF LedBy
  <1> QED
    BY <1>1, <1>2, <1>10, <1>12, <1>13, StopPatience

LEMMA SignalPatience ==
    ASSUME Inv, Inv', Patience, policy' = policy, NEW left \in Lefts, NEW p, Billed(p, left), Pays(p, left),
           NEW signal \in Events, SignalBy(p, left, signal)
    PROVE  Patience'
  <1> DEFINE q == Charge(p, left)
             r == UpdateWaiting(q, signal)
  <1>1. Stops(r, Used(left), left)
    BY DEF SignalBy, Charge, Resumed
  <1>2. Calls /\ Used(left) \in Nat /\ Used(left) <= remaining /\ left + Used(left) <= remaining
    BY <1>1, UsedFits DEF Stops
  <1>3. LedBy(q, p)
    BY <1>2, ChargeLeads
  <1> HIDE DEF q
  <1>4. Sound(q) /\ Moves(q, 0) /\ Moves(r, 0)
    BY <1>3, MovesHeard DEF LedBy, Moves
  <1>5. Became(r, q, Signalled(q, signal))
    BY <1>4, SignalIsHeard
  <1> HIDE DEF r
  <1>6. 1 \in 1 .. Len(q.ready) /\ q.ready[1] \in Folk(q) /\ Len(r.ready) \in Nat \ {0}
    <2>1. 1 \in 1 .. Len(q.ready)
      BY <1>3 DEF LedBy
    <2>2. List(r.ready)
      BY <1>5 DEF Became, Sound
    <2>3. Len(r.ready) \in Nat /\ Len(r.ready) >= Len(q.ready)
      BY <1>5, <2>2, ListFacts DEF Became
    <2> QED
      BY <1>3, <2>1, <2>3 DEF Folk, Who, LedBy
  <1>7. r.ready[1] = q.ready[1]
    BY <1>3, <1>5, <1>6 DEF Became, Signalled, Heard, LedBy
  <1>8. LedBy(r, p)
    BY <1>3, <1>4, <1>6, <1>7 DEF LedBy
  <1>9. FrontRuns(r) /\ Sound(r) /\ Moved(r.ready, 0) /\ r.ready[1].priority = p.priority /\ r.ready[1].extra = p.extra
    BY <1>8, FrontIs DEF LedBy
  <1> QED
    BY <1>1, <1>2, <1>9, StopPatience

Idle(q) == \A x \in Folk(q) : x.state # "Running"

LEMMA IdleFront == ASSUME NEW q, Sound(q), Idle(q) PROVE ~FrontRuns(q)
  <1> SUFFICES ASSUME q.ready # <<>> PROVE Head(q.ready).state # "Running"
    BY DEF FrontRuns
  <1>1. List(q.ready)
    BY DEF Sound
  <1>2. Head(q.ready) \in Folk(q)
    BY <1>1, TailIs DEF Folk
  <1> QED
    BY <1>2 DEF Idle

LEMMA IdleLater == ASSUME NEW q, Sound(q), Idle(q), NEW t \in Nat PROVE Idle(ActualiseTimings(q, t))
  <1> DEFINE r == ActualiseTimings(q, t)
             h == After(q, t)
  <1>1. Became(r, q, h)
    BY TimePasses
  <1>2. \A x \in Folk(q) : x \in Pcbs /\ h[x] = Elapsed(x, t)
    BY SoundFolk DEF After
  <1> HIDE DEF r, h
  <1>3. ASSUME NEW x \in Folk(q) PROVE h[x].state # "Running"
    <2>1. x \in Pcbs /\ x.state \in {"Ready", "Running", "Waiting"} /\ Later(h[x], x, t)
      BY <1>2, ElapsedIs DEF Pcbs
    <2>2. x.sleep \in Nat /\ x.state # "Running"
      BY <2>1 DEF Pcbs, Idle
    <2> QED
      BY <2>1, <2>2 DEF Later
  <1>4. Idle(r)
    BY <1>1, <1>3 DEF Became, Image, Idle
  <1> QED
    BY <1>4 DEF r

LEMMA OthersIdle == ASSUME Inv, Calls PROVE Idle(Others) /\ Sound(Others) /\ Moves(Others, 1)
  <1>1. Still(Others) /\ Moves(Others, 1)
    BY RunningIs, MovesOthers
  <1>2. \A x \in Folk(Others) : x.state # "Running"
    BY <1>1 DEF Still, Sound, Folk, Who, IsReady, Absent
  <1> QED
    BY <1>1, <1>2 DEF Still, Idle

LEMMA SleepPatience ==
    ASSUME Inv, Inv', Patience, policy' = policy, NEW left \in Lefts, NEW p, Billed(p, left),
           NEW time \in SleepTimes, SleepBy(p, left, time)
    PROVE  Patience'
  <1> DEFINE q == ActualiseTimings(Others, Used(left))
             s == Sleeper(p, time, Used(left))
             r == [q EXCEPT !.waiting = Append(@, s)]
  <1>1. Stops(r, Used(left), remaining)
    BY DEF SleepBy, Sleeper
  <1>2. Calls /\ Used(left) \in Nat /\ Used(left) <= remaining
    BY <1>1, UsedFits DEF Stops
  <1>3. s \in Pcbs /\ s.pid = Running.pid /\ Absent(s)
    BY <1>2, SleeperIs
  <1>4. Moves(q, 1) /\ Sound(q) /\ Idle(q)
    BY <1>2, OthersIdle, IdleLater, MovesLater DEF Moves
  <1>5. \A x \in Folk(q) : x.pid # s.pid
    BY <1>2, <1>3, OthersAfter
  <1> HIDE DEF q, s
  <1>6. Adds(r, q, s) /\ r.ready = q.ready
    BY <1>3, <1>4, <1>5, PutToWait
  <1> HIDE DEF r
  <1>7. Sound(r) /\ Moved(r.ready, 1) /\ ~FrontRuns(r)
    BY <1>4, <1>6, IdleFront DEF Adds, Moves, FrontRuns
  <1> QED
    BY <1>1, <1>2, <1>7, StopPatience

LEMMA WaitPatience ==
    ASSUME Inv, Inv', Patience, policy' = policy, NEW left \in Lefts, NEW p, Billed(p, left),
           NEW event \in Events, WaitBy(p, left, event)
    PROVE  Patience'
  <1> DEFINE w == Waiter(p, event)
             q == [Others EXCEPT !.waiting = Append(@, w)]
             r == ActualiseTimings(q, Used(left))
  <1>1. Stops(r, Used(left), left)
    BY DEF WaitBy, Waiter
  <1>2. Calls /\ Used(left) \in Nat /\ Used(left) <= remaining
    BY <1>1, UsedFits DEF Stops
  <1>3. w \in Pcbs /\ w.pid = Running.pid /\ Absent(w) /\ w.state = "Waiting"
    BY <1>2, WaiterIs
  <1>4. Moves(Others, 1) /\ Sound(Others) /\ Idle(Others)
    BY <1>2, OthersIdle
  <1> HIDE DEF w
  <1>5. Adds(q, Others, w) /\ q.ready = Others.ready
    <2>1. \A x \in Folk(Others) : x.pid # w.pid
      BY <1>2, <1>3, RunningIs DEF Adds
    <2> QED
      BY <1>3, <1>4, <2>1, PutToWait
  <1> HIDE DEF q
  <1>6. w.pid \notin Standing
    BY <1>2, <1>3, MovesOthers
  <1>7. Moves(q, 1) /\ Idle(q) /\ Sound(q)
    <2>1. Sound(q) /\ Folk(q) = Folk(Others) \cup {w}
      BY <1>5 DEF Adds
    <2>2. Idle(q)
      BY <1>3, <1>4, <2>1 DEF Idle
    <2> QED
      BY <1>4, <1>5, <1>6, <2>1, <2>2, MovesAway
  <1>8. Moves(r, 1) /\ Idle(r)
    BY <1>2, <1>7, MovesLater, IdleLater
  <1> HIDE DEF r
  <1>9. Sound(r) /\ Moved(r.ready, 1) /\ ~FrontRuns(r)
    BY <1>8, IdleFront DEF Moves
  <1> QED
    BY <1>1, <1>2, <1>9, StopPatience

LEMMA ExitPatience ==
    ASSUME Inv, Inv', Patience, policy' = policy, NEW left \in Lefts, ExitBy(left)
    PROVE  Patience'
  <1> DEFINE r == ActualiseTimings(Others, Used(left))
  <1>1. Stops(r, Used(left), left)
    BY DEF ExitBy
  <1>2. Calls /\ Used(left) \in Nat /\ Used(left) <= remaining
    BY <1>1, UsedFits DEF Stops
  <1>3. Moves(r, 1) /\ Idle(r)
    BY <1>2, OthersIdle, IdleLater, MovesLater
  <1> HIDE DEF r
  <1>4. Sound(r) /\ Moved(r.ready, 1) /\ ~FrontRuns(r)
    BY <1>3, IdleFront DEF Moves
  <1> QED
    BY <1>1, <1>2, <1>4, StopPatience

LEMMA ExpirePatience ==
    ASSUME Inv, Inv', Patience, policy' = policy, NEW p, Expiry(p), ExpireBy(p)
    PROVE  Patience'
  <1> DEFINE q == ActualiseTimings(Others, remaining)
             r == [q EXCEPT !.ready = Append(@, p)]
  <1>1. Stops(r, remaining, remaining)
    BY DEF ExpireBy
  <1>2. Calls /\ remaining \in Nat /\ remaining <= remaining
    BY <1>1, HeldIs DEF Stops
  <1>3. p \in Pcbs /\ Settled(p) /\ IsReady(p) /\ p.pid = Running.pid
    BY <1>2, RunningIs DEF Expiry, Settled, IsReady
  <1>4. Moves(q, 1) /\ Sound(q) /\ Idle(q)
    BY <1>2, OthersIdle, IdleLater, MovesLater DEF Moves
  <1>5. (\A x \in Folk(q) : x.pid # p.pid) /\ p.pid \notin Standing
    BY <1>2, <1>3, OthersAfter, MovesOthers
  <1> HIDE DEF q
  <1>6. Adds(r, q, p)
    BY <1>3, <1>4, <1>5, PutBehind
  <1>7. r.ready = Append(q.ready, p)
    <2> DEFINE f == Append(q.ready, p)
    <2>1. r = [q EXCEPT !.ready = f]
      BY Zenon
    <2> HIDE DEF f, r
    <2> QED
      BY <1>4, <2>1, ReadySet DEF f
  <1> HIDE DEF r
  <1>8. Moved(r.ready, 1) /\ Sound(r)
    BY <1>3, <1>4, <1>5, <1>6, <1>7, MovesAppend DEF Adds
  <1>9. ~FrontRuns(r)
    <2>1. Idle(r)
      BY <1>3, <1>4, <1>6 DEF Adds, Idle, IsReady
    <2> QED
      BY <1>8, <2>1, IdleFront
  <1> QED
    BY <1>1, <1>2, <1>8, <1>9, StopPatience

LEMMA BootPatience ==
    ASSUME Inv, Inv', Patience, policy' = policy, NEW c, next_pid = 1 => Infant(c), BootBy(c)
    PROVE  Patience'
  <1> DEFINE s == <<c>>
             r == [Queues EXCEPT !.ready = s]
  <1>1. /\ decision.kind = "Start" /\ Become(r, clock) /\ remaining' = 0 /\ sleep' = sleep
        /\ decision' = Plain("Stopped")
    BY DEF BootBy
  <1>2. ready = <<>> /\ next_pid = 1 /\ ~sleep /\ entered \in Entries
    BY <1>1 DEF Inv, Fresh, Patience
  <1>3. c \in Pcbs /\ c.state = "Ready" /\ List(s) /\ Len(s) = 1 /\ s[1] = c
    BY <1>2, OneList DEF Infant
  <1> HIDE DEF s
  <1>4. Sound(Queues) /\ Sound(Queues)'
    BY DEF Inv, Tally
  <1>5. r.ready = s /\ r = [ready |-> r.ready, waiting |-> r.waiting]
    BY <1>4, ReadySet DEF Queues
  <1> HIDE DEF r
  <1>6. ready' = s /\ clock' = clock /\ Queues' = r
    BY <1>1, <1>5 DEF Become, Queues
  <1>7. Sound(r)
    BY <1>4, <1>6 DEF Sound
  <1>8. clock \in Nat /\ MaxSlice \in Nat /\ Held \in Int
    BY HeldIs
  <1>9. Enters(s, clock)
    <2>1. clock \in Int
      BY <1>8
    <2> QED
      BY <1>1, <1>2, <1>5, <1>7, <2>1, EnteredIs
  <1>10. ~FrontRuns(Queues)' /\ Held' = 0
    <2>1. Head(s).state = "Ready"
      <3>1. s # <<>>
        BY <1>3, EmptyList
      <3> QED
        BY <1>3, <3>1, TailIs
    <2> QED
      BY <1>5, <1>6, <2>1 DEF FrontRuns, Held
  <1>11. InTurn => InLine(s, clock, 0, entered')
    <2> SUFFICES ASSUME InTurn PROVE InLine(s, clock, 0, entered')
      OBVIOUS
    <2>1. InLine(ready, clock, Held, entered)
      BY DEF Patience
    <2>2. Moved(s, 0)
      <3>1. \A pid : pid \notin Standing
        <4>1. Len(ready) = 0
          BY <1>2, EmptyList
        <4> QED
          BY <4>1, StandingIs
      <3> QED
        BY <3>1 DEF Moved
    <2>3. Enters(s, clock + 0) /\ clock + 0 = clock /\ Len(s) \in Nat
      BY <1>3, <1>8, <1>9
    <2>4. ready # <<>> => 0 + 0 * MaxSlice >= Held + 0
      BY <1>2
    <2>5. InLine(s, clock + 0, 0, entered')
      BY <1>2, <1>8, <2>1, <2>2, <2>3, <2>4, LineMoves
    <2> QED
      BY <2>3, <2>5
  <1>12. (InTurn => InLine(ready, clock, Held, entered))'
    BY <1>6, <1>10, <1>11, SamePolicy
  <1> QED
    BY <1>1, <1>2, <1>9, <1>10, <1>12 DEF Patience, Plain, Enters

LEMMA CallPatience ==
    ASSUME Inv, Inv', Patience, policy' = policy, Called
    PROVE  Patience'
  BY ForkPatience, SleepPatience, SignalPatience, WaitPatience, ExitPatience DEF Called

LEMMA AwakeMoves ==
    ASSUME Inv, Patience
    PROVE  /\ Moves(Awake, 0) /\ Sound(Awake) /\ Slept \in Nat
           /\ ready # <<>> => Slept = 0
           /\ FrontRuns(Awake) => Awake = Queues /\ Slept = 0 /\ FrontRuns(Queues) /\ ~sleep
           /\ ~FrontRuns(Awake) => ~FrontRuns(Queues) /\ Held = 0
  <1>1. Moves(Queues, 0) /\ Sound(Queues) /\ Queues.ready = ready /\ Slept \in Nat
    BY MovesNow, StandingIs, AwakeIs
  <1>2. CASE ~sleep
    <2>1. Awake = Queues /\ Slept = 0
      BY <1>2 DEF Awake, Slept
    <2> QED
      BY <1>1, <1>2, <2>1 DEF Held
  <1>3. CASE sleep
    <2>1. Awake = ActualiseTimings(Queues, sleep_time) /\ sleep_time \in Nat /\ ready = <<>>
      BY <1>3 DEF Awake, Inv, CountersOK, Patience
    <2>2. ~FrontRuns(Queues) /\ Held = 0
      BY <1>1, <2>1 DEF FrontRuns, Held
    <2>3. Idle(Queues)
      <3>1. Who(ready) = {}
        BY <2>1, EmptyList
      <3>2. \A x \in Folk(Queues) : x.state = "Waiting"
        BY <1>1, <3>1 DEF Folk, Sound, Absent
      <3> QED
        BY <3>2 DEF Idle
    <2>4. Moves(Awake, 0) /\ Idle(Awake)
      BY <1>1, <2>1, <2>3, MovesLater, IdleLater
    <2>5. Sound(Awake)
      BY <2>4 DEF Moves
    <2> QED
      BY <1>1, <2>1, <2>2, <2>4, <2>5, IdleFront
  <1> QED
    BY <1>2, <1>3

LEMMA DecisionPatience ==
    ASSUME Inv, Inv', Patience, policy' = policy, NEW q, Sound(q), Become(q, clock + Slept),
           sleep' => q.ready = <<>> /\ decision'.kind \notin {"Start", "Run"},
           decision'.kind = "Run" => remaining' >= 1,
           FrontRuns(q) /\ Usual => AllBear',
           NEW held \in Nat, Held' = held,
           InTurn => \E d \in {0, 1} : Moved(q.ready, d) /\ (ready # <<>> => held + d * MaxSlice >= Held)
    PROVE  Patience'
  <1>1. Queues' = q /\ clock' = clock + Slept /\ ready' = q.ready
    BY NextQueues
  <1>2. Held \in Nat /\ clock \in Nat /\ Slept \in Nat /\ (ready # <<>> => Slept = 0) /\ entered \in Entries
    BY AwakeMoves, HeldIs DEF Patience
  <1>3. Enters(q.ready, clock + Slept) /\ Len(q.ready) \in Nat
    <2>1. clock + Slept \in Int
      BY <1>2
    <2>2. List(q.ready)
      BY DEF Sound
    <2> QED
      BY <1>2, <2>1, <2>2, EnteredIs, ListFacts
  <1>4. FrontRuns(Queues)' <=> FrontRuns(q)
    BY <1>1 DEF FrontRuns
  <1>5. InTurn => InLine(q.ready, clock + Slept, held, entered')
    <2> SUFFICES ASSUME InTurn PROVE InLine(q.ready, clock + Slept, held, entered')
      OBVIOUS
    <2>1. PICK d \in {0, 1} : Moved(q.ready, d) /\ (ready # <<>> => held + d * MaxSlice >= Held)
      OBVIOUS
    <2>2. (ready # <<>> => held + d * MaxSlice >= Held + Slept) /\ Held \in Int
      BY <1>2, <2>1
    <2>3. InLine(ready, clock, Held, entered)
      BY DEF Patience
    <2> QED
      BY <1>2, <1>3, <2>1, <2>2, <2>3, LineMoves
  <1>6. (InTurn => InLine(ready, clock, Held, entered))'
    BY <1>1, <1>5, SamePolicy
  <1>7. (FrontRuns(Queues) /\ Usual => AllBear)'
    BY <1>4, SamePolicy
  <1>8. (sleep => ready = <<>> /\ decision.kind \notin {"Start", "Run"})'
    BY <1>1
  <1>9. entered' \in Entries
    BY <1>3 DEF Enters
  <1> QED
    BY <1>6, <1>7, <1>8, <1>9 DEF Patience

LEMMA NobodyPatience ==
    ASSUME Inv, Inv', Patience, policy' = policy, NobodyToRun(Awake)
    PROVE  Patience'
  <1> DEFINE q == Awake
  <1>1. Moves(q, 0) /\ Sound(q) /\ (~FrontRuns(q) => Held = 0)
    BY AwakeMoves
  <1> HIDE DEF q
  <1>2. List(q.ready) /\ Range(Everyone(q)) = Folk(q)
    BY <1>1, SoundFolk DEF Sound
  <1>3. Everyone(q) = <<>> => q.ready = <<>>
    <2> SUFFICES ASSUME Everyone(q) = <<>>, q.ready # <<>> PROVE FALSE
      OBVIOUS
    <2>1. Head(q.ready) \in Folk(q)
      BY <1>2, TailIs DEF Folk
    <2>2. Range(<<>>) = {}
      BY EmptyList, WhoIsRange DEF List
    <2> QED
      BY <1>2, <2>1, <2>2
  <1>4. ~FrontRuns(q) /\ Become(q, clock + Slept)
        /\ (sleep' => q.ready = <<>> /\ decision'.kind \notin {"Start", "Run"}) /\ decision'.kind # "Run"
    <2>1. CASE Done(q)
      BY <1>3, <2>1 DEF Done, Decide, Plain, FrontRuns
    <2>2. CASE Panic(q)
      BY <2>2 DEF Panic, Decide, Plain
    <2>3. CASE Deadlock(q)
      BY <2>3 DEF Deadlock, AllAwaitSignal, Decide, Plain, FrontRuns
    <2>4. CASE Sleep(q)
      BY <2>4 DEF Sleep, Unwrapped, Plain, FrontRuns
    <2> QED
      BY <2>1, <2>2, <2>3, <2>4 DEF NobodyToRun, q
  <1>5. Held' = 0
    <2>1. Queues' = q
      BY <1>1, <1>4, NextQueues
    <2> QED
      BY <1>4, <2>1 DEF Held, FrontRuns
  <1>6. Moved(q.ready, 0) /\ 0 + 0 * MaxSlice >= Held
    <2>1. MaxSlice \in Nat /\ Held = 0
      BY <1>1, <1>4, HeldIs
    <2> QED
      BY <1>1, <2>1 DEF Moves
  <1> QED
    BY <1>1, <1>4, <1>5, <1>6, DecisionPatience

\* What is left when a process goes on, or starts.
LEMMA RunsFor ==
    ASSUME Inv, NEW q, Sound(q), FrontRuns(q), NEW left, IsSlice(left), KeepRunning(q, left)
    PROVE  /\ Become(q, clock + Slept) /\ remaining' = left /\ left \in Nat /\ left <= MaxSlice /\ ~sleep'
           /\ decision'.kind = "Run" => remaining' >= 1
           /\ Held' = MaxSlice - left /\ MaxSlice - left \in Nat
           /\ ready' = q.ready /\ clock' = clock + Slept
  <1>1. Become(q, clock + Slept) /\ remaining' = left /\ ~sleep'
        /\ decision' = Unwrapped([kind |-> "Run", pid |-> Head(ready').pid, timeslice |-> left])
    BY DEF KeepRunning, Decide
  <1>2. left \in 0 .. MaxSlice /\ MaxSlice \in Nat /\ left \in Nat /\ left <= MaxSlice
    BY HeldIs DEF IsSlice
  <1>3. decision'.kind = "Run" => left # 0
    BY <1>1 DEF Unwrapped, Plain
  <1>4. Queues' = q /\ ready' = q.ready /\ clock' = clock + Slept
    BY <1>1, NextQueues
  <1>5. Held' = MaxSlice - left
    BY <1>1, <1>4 DEF Held, FrontRuns
  <1> QED
    BY <1>1, <1>2, <1>3, <1>4, <1>5

LEMMA GoOnPatience ==
    ASSUME Inv, Inv', Patience, policy' = policy, FrontRuns(Awake),
           NEW left, Continues(left), KeepRunning(Awake, left)
    PROVE  Patience'
  <1> DEFINE q == Queues
             held == MaxSlice - left
  <1>1. Awake = q /\ Slept = 0 /\ FrontRuns(q) /\ Sound(q) /\ Moved(q.ready, 0) /\ q.ready = ready
    BY AwakeMoves, MovesNow, StandingIs DEF Moves
  <1>2. IsSlice(left) /\ KeepRunning(q, left) /\ (Usual => left <= remaining)
    BY <1>1 DEF Continues
  <1>3. /\ Become(q, clock + Slept) /\ remaining' = left /\ left \in Nat /\ left <= MaxSlice /\ ~sleep'
        /\ decision'.kind = "Run" => remaining' >= 1
        /\ Held' = held /\ held \in Nat
        /\ ready' = q.ready /\ clock' = clock + Slept
    BY <1>1, <1>2, RunsFor
  <1>4. /\ Held = MaxSlice - remaining /\ remaining \in Nat /\ MaxSlice \in Nat /\ clock \in Nat
        /\ Held \in Nat /\ entered \in Entries
    BY <1>1, HeldIs DEF Patience
  <1>5. InTurn => Moved(q.ready, 0) /\ (ready # <<>> => held + 0 * MaxSlice >= Held)
    BY <1>1, <1>2, <1>3, <1>4, SamePolicy
  <1>6. Usual => AllBear'
    <2> SUFFICES ASSUME Usual PROVE AllBear'
      OBVIOUS
    <2>1. AllBear /\ q.ready # <<>>
      BY <1>1 DEF Patience, FrontRuns
    <2>2. clock + Slept \in Int /\ clock + Slept = clock + 0 /\ remaining' + 0 <= remaining
      BY <1>1, <1>2, <1>3, <1>4
    <2>3. Enters(q.ready, clock + 0)
      BY <1>1, <1>3, <1>4, <2>2, EnteredIs
    <2>4. Running \in Pcbs /\ Running = q.ready[1]
      BY <1>1, <2>1, StandingIs, TailIs DEF Running
    <2>5. Pays(Running, remaining')
      <3> SUFFICES ASSUME NEW x \in Pcbs, Content(Running, remaining, x) PROVE Content(Running, left, x)
        BY <1>3 DEF Pays
      <3>1. x.extra \in Nat /\ Running.extra \in Nat
        BY <2>4 DEF Pcbs
      <3>2. Running.extra + remaining <= x.extra + MaxSlice => Running.extra + left <= x.extra + MaxSlice
        BY <1>2, <1>3, <1>4, <3>1
      <3> QED
        BY <3>2 DEF Content
    <2> HIDE DEF q
    <2>6. clock' = clock + 0 /\ remaining' \in Nat
      BY <1>3, <2>2
    <2> QED
      BY <1>1, <1>3, <1>4, <2>1, <2>2, <2>3, <2>4, <2>5, <2>6, FrontMoves
  <1> QED
    BY <1>1, <1>3, <1>5, <1>6, DecisionPatience

LEMMA FirstPatience ==
    ASSUME Inv, Inv', Patience, policy' = policy, NEW q, Still(q), q.ready # <<>>,
           NEW r, NEW left, Lines(r, q, left), RunFirst(r, left),
           InTurn => \E d \in {0, 1} : Moved(q.ready, d) /\ (ready # <<>> => d * MaxSlice >= Held)
    PROVE  Patience'
  <1> DEFINE f == FirstRuns(r)
             held == MaxSlice - left
  <1>1. IsSlice(left) /\ Rearranged(r, q) /\ Leads(r, left) /\ (InTurn => r = q)
    BY DEF Lines
  <1>2. Still(r) /\ r.ready # <<>>
    <2>1. Still(r) /\ Len(r.ready) = Len(q.ready)
      BY <1>1, RearrangedIs
    <2>2. Len(q.ready) # 0
      BY HeadTaken DEF Still
    <2> QED
      BY <2>1, <2>2, EmptyList
  <1>3. /\ Len(f.ready) = Len(r.ready) /\ Len(r.ready) \in Nat \ {0} /\ f.ready[1] = Turned(r.ready[1], "Running")
        /\ r.ready[1] \in Pcbs
        /\ \A k \in 2 .. Len(r.ready) : f.ready[k] = r.ready[k]
    BY <1>2, FirstRunsOthers
  <1>4. KeepRunning(f, left) /\ Sound(f)
    BY <1>2, FirstRunsIs DEF RunFirst, FirstRuns, Adds
  <1>5. InTurn => \E d \in {0, 1} : Moved(f.ready, d) /\ (ready # <<>> => d * MaxSlice >= Held)
    BY <1>1, <1>2, MovesFirst
  <1> HIDE DEF f
  <1>6. f.ready[1].state = "Running" /\ f.ready[1].priority = r.ready[1].priority /\ f.ready[1].extra = r.ready[1].extra
    BY <1>3 DEF Turned, Pcbs
  <1>7. FrontRuns(f) /\ Head(f.ready) = f.ready[1]
    <2>1. List(f.ready) /\ f.ready # <<>>
      BY <1>3, <1>4, EmptyList DEF Sound
    <2>2. Head(f.ready) = f.ready[1]
      BY <2>1, TailIs
    <2> QED
      BY <1>6, <2>1, <2>2 DEF FrontRuns
  <1>8. /\ Become(f, clock + Slept) /\ remaining' = left /\ left \in Nat /\ left <= MaxSlice /\ ~sleep'
        /\ decision'.kind = "Run" => remaining' >= 1
        /\ Held' = held /\ held \in Nat
        /\ ready' = f.ready
    BY <1>1, <1>4, <1>7, RunsFor
  <1>9. AllBear'
    <2>1. Running' = f.ready[1] /\ Len(ready') = Len(r.ready)
      BY <1>3, <1>7, <1>8 DEF Running
    <2>2. ASSUME NEW i \in 2 .. Len(r.ready) PROVE Content(f.ready[1], remaining, f.ready[i])'
      <3>1. Content(r.ready[1], left, r.ready[i])
        BY <1>1 DEF Leads
      <3>2. f.ready[i] = r.ready[i]
        BY <1>3
      <3> QED
        BY <1>6, <1>8, <3>1, <3>2 DEF Content, ByPriority, ByUse
    <2> QED
      BY <1>8, <2>1, <2>2 DEF AllBear
  <1>10. InTurn => \E d \in {0, 1} : Moved(f.ready, d) /\ (ready # <<>> => held + d * MaxSlice >= Held)
    <2> SUFFICES ASSUME InTurn
                 PROVE  \E d \in {0, 1} : Moved(f.ready, d) /\ (ready # <<>> => held + d * MaxSlice >= Held)
      OBVIOUS
    <2>1. PICK d \in {0, 1} : Moved(f.ready, d) /\ (ready # <<>> => d * MaxSlice >= Held)
      BY <1>5
    <2>2. MaxSlice \in Nat /\ Held \in Nat
      BY HeldIs
    <2>3. d * MaxSlice \in Nat
      BY <2>2
    <2> QED
      BY <1>8, <2>1, <2>2, <2>3
  <1> QED
    BY <1>4, <1>8, <1>9, <1>10, DecisionPatience

LEMMA ChoicePatience ==
    ASSUME Inv, Inv', Patience, policy' = policy, Chose
    PROVE  Patience'
  <1>1. \/ NobodyToRun(Awake)
        \/ \E left : FrontRuns(Awake) /\ Continues(left) /\ KeepRunning(Awake, left)
        \/ \E r, left : FrontRuns(Awake) /\ Lines(r, Preempted(Awake), left) /\ RunFirst(r, left)
        \/ \E r, left : CanStart(Awake) /\ Lines(r, Awake, left) /\ RunFirst(r, left)
    BY DEF Chose
  <1>2. MaxSlice \in Nat /\ Held \in 0 .. MaxSlice
    BY HeldIs
  <1>3. ASSUME FrontRuns(Awake), NEW r, NEW left, Lines(r, Preempted(Awake), left), RunFirst(r, left)
        PROVE  Patience'
    <2>1. Awake = Queues /\ FrontRuns(Queues) /\ Still(Preempted(Awake)) /\ Preempted(Awake).ready # <<>>
      BY <1>3, AwakeMoves, AwakeStill
    <2>2. Moved(Preempted(Awake).ready, 1) /\ 1 * MaxSlice >= Held
      BY <1>2, <2>1, MovesPreempted
    <2> QED
      BY <1>3, <2>1, <2>2, FirstPatience
  <1>4. ASSUME CanStart(Awake), NEW r, NEW left, Lines(r, Awake, left), RunFirst(r, left)
        PROVE  Patience'
    <2>1. Still(Awake) /\ Awake.ready # <<>> /\ ~FrontRuns(Awake)
      BY <1>4, AwakeStill DEF CanStart
    <2>2. Moved(Awake.ready, 0) /\ Held = 0
      BY <2>1, AwakeMoves DEF Moves
    <2>3. 0 * MaxSlice >= Held
      BY <1>2, <2>2
    <2> QED
      BY <1>4, <2>1, <2>2, <2>3, FirstPatience
  <1> QED
    BY <1>1, <1>3, <1>4, NobodyPatience, GoOnPatience

LEMMA StepPatience ==
    ASSUME Inv, Patience, AnyStep, policy' = policy
    PROVE  Inv' /\ Patience'
  <1>1. Inv'
    BY StepKeepsInv
  <1> QED
    BY <1>1, BootPatience, CallPatience, ExpirePatience, ChoicePatience DEF AnyStep

LEMMA StutterPatience == Patience /\ UNCHANGED <<vars, policy>> => Patience'
  <1> SUFFICES ASSUME Patience, UNCHANGED <<vars, policy>> PROVE Patience'
    OBVIOUS
  <1>1. /\ ready' = ready /\ waiting' = waiting /\ remaining' = remaining /\ sleep' = sleep
        /\ decision' = decision /\ clock' = clock /\ entered' = entered /\ policy' = policy
    BY DEF vars, code, history
  <1>2. Queues' = Queues /\ Running' = Running
    BY <1>1 DEF Queues, Running
  <1>3. (FrontRuns(Queues) <=> FrontRuns(Queues)') /\ Held' = Held
    BY <1>1, <1>2 DEF FrontRuns, Held
  <1>4. AllBear => AllBear'
    BY <1>1, <1>2, SamePolicy DEF AllBear, Recent, Content, ByPriority, ByUse
  <1>5. (InTurn => InLine(ready, clock, Held, entered))'
    BY <1>1, <1>3, SamePolicy DEF Patience
  <1> QED
    BY <1>1, <1>3, <1>4, <1>5, SamePolicy DEF Patience

LEMMA InitPatience == Init => Patience
  <1> SUFFICES ASSUME Init PROVE Patience
    OBVIOUS
  <1>1. ready = <<>> /\ sleep = FALSE /\ decision = Plain("Start") /\ entered = [p \in Pids |-> [at |-> 0, ahead |-> 0]]
    BY DEF Init
  <1>2. decision.kind = "Start"
    BY <1>1 DEF Plain
  <1>3. entered \in Entries
    BY <1>1 DEF Entries
  <1>4. ~FrontRuns(Queues)
    BY <1>1 DEF FrontRuns, Queues
  <1>5. InLine(ready, clock, Held, entered)
    BY <1>1, EmptyList DEF InLine
  <1> QED
    BY <1>1, <1>2, <1>3, <1>4, <1>5 DEF Patience

LEMMA Products ==
    /\ \A a, b, m \in Int : (a - b) * m = a * m - b * m /\ a * m \in Int /\ b * m \in Int
    /\ \A b, m \in Nat : b >= 1 => b * m >= m
  OBVIOUS

LEMMA TurnsCome ==
    ASSUME Inv, Patience, InTurn, NEW k \in 1 .. Len(ready), IsReady(ready[k])
    PROVE  clock - entered[ready[k].pid].at <= entered[ready[k].pid].ahead * MaxSlice
  <1> DEFINE e == entered[ready[k].pid]
             m == e.ahead * MaxSlice
             n == (k - 1) * MaxSlice
  <1>1. clock \in Nat /\ MaxSlice \in Nat /\ Held \in 0 .. MaxSlice /\ k \in Nat \ {0}
    BY HeldIs, StandingIs
  <1>2. e.at \in Int /\ e.ahead \in Int
    <2>1. Given(Folk(Queues), next_pid) /\ next_pid \in 1 .. MaxPid + 1
      BY TallyGiven DEF Inv, CountersOK
    <2>2. ready[k] \in Folk(Queues)
      BY StandingIs DEF Folk, Who
    <2>3. ready[k].pid \in Pids
      BY <2>1, <2>2, GivenPid
    <2> QED
      BY <2>3 DEF Patience, Entries
  <1>3. clock - e.at <= (e.ahead - (k - 1)) * MaxSlice + Held
    BY DEF Patience, InLine
  <1> HIDE DEF e
  <1>4. (e.ahead - (k - 1)) * MaxSlice = m - n /\ m \in Int /\ n \in Int
    BY <1>1, <1>2, Products
  <1>5. n >= Held
    <2>1. CASE k = 1
      <3>1. Head(ready) = ready[1] /\ ready[1].state = "Ready"
        <4>1. ready # <<>>
          BY EmptyList
        <4> QED
          BY <2>1, <4>1, StandingIs, TailIs DEF IsReady
      <3>2. Held = 0
        BY <3>1, HeldIs, StandingIs DEF FrontRuns
      <3> QED
        BY <1>1, <2>1, <3>2
    <2>2. CASE k # 1
      <3>1. k - 1 \in Nat /\ k - 1 >= 1
        BY <1>1, <2>2
      <3>2. n >= MaxSlice
        BY <1>1, <3>1, Products
      <3> HIDE DEF n
      <3> QED
        BY <1>1, <1>4, <3>2
    <2> QED
      BY <2>1, <2>2
  <1> HIDE DEF m, n
  <1>6. clock - e.at <= m
    BY <1>1, <1>2, <1>3, <1>4, <1>5
  <1> QED
    BY <1>6 DEF e, m

\* While a process runs, another became ready within the slice, or is content.
LEMMA OthersBear ==
    ASSUME Inv, Patience, Usual, decision.kind = "Run", NEW x \in Range(Tail(ready))
    PROVE  /\ clock - entered[x.pid].at < MaxSlice \/ Content(Running, remaining, x)
           /\ x \in Pcbs /\ Running \in Pcbs /\ remaining \in Nat /\ remaining >= 1 /\ MaxSlice \in Nat
  <1>1. FrontRuns(Queues) /\ remaining >= 1 /\ AllBear /\ entered \in Entries
    BY DEF Inv, Patience
  <1>2. List(ready) /\ ready # <<>> /\ remaining \in Nat /\ MaxSlice \in Nat /\ clock \in Nat
    BY <1>1, StandingIs, HeldIs DEF FrontRuns
  <1>3. /\ List(Tail(ready)) /\ Len(Tail(ready)) = Len(ready) - 1 /\ Len(ready) \in Nat \ {0} /\ Running \in Pcbs
        /\ \A i \in 1 .. Len(Tail(ready)) : Tail(ready)[i] = ready[i + 1]
    BY <1>2, TailIs DEF Running
  <1>4. x \in Who(Tail(ready))
    BY <1>3, WhoIsRange DEF List
  <1>5. PICK i \in 1 .. Len(Tail(ready)) : x = Tail(ready)[i]
    BY <1>4 DEF Who
  <1>6. i + 1 \in 2 .. Len(ready) /\ x = ready[i + 1]
    BY <1>3, <1>5
  <1>7. x \in Pcbs
    BY <1>3, <1>4, ListFacts
  <1>8. Recent(x) \/ Content(Running, remaining, x)
    BY <1>1, <1>6 DEF AllBear
  <1>9. entered[x.pid].at \in Int
    <2>1. Given(Folk(Queues), next_pid) /\ next_pid \in 1 .. MaxPid + 1
      BY TallyGiven DEF Inv, CountersOK
    <2>2. i + 1 \in 1 .. Len(ready)
      BY <1>3, <1>5
    <2>3. x \in Folk(Queues)
      BY <1>6, <2>2, StandingIs DEF Folk, Who
    <2>4. x.pid \in Pids
      BY <2>1, <2>3, GivenPid
    <2> QED
      BY <1>1, <2>4 DEF Entries
  <1>10. Recent(x) => clock - entered[x.pid].at < MaxSlice
    BY <1>1, <1>2, <1>9 DEF Recent
  <1> QED
    BY <1>1, <1>2, <1>3, <1>7, <1>8, <1>10

=============================================================================
