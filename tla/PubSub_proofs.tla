--------------------------- MODULE PubSub_proofs ---------------------------
(***************************************************************************)
(* For any number of clients, connections and topics, and any order of     *)
(* connections, requests, messages and disconnections: the tables of the   *)
(* server, its descriptors and the sockets behind them agree; check_topics *)
(* takes patterns for what they mean; and the server is a Broker.          *)
(***************************************************************************)
EXTENDS PubSub, FiniteSetTheorems, SequenceTheorems, WellFoundedInduction, TLAPS

Standing == {STDIN_FILENO, socket_udp, socket_tcp}

TablesTypeOK ==
    /\ fds \in Seq(Nat)
    /\ DOMAIN sock \subseteq Nat /\ sock \in [DOMAIN sock -> Conns]
    /\ IsFiniteSet(DOMAIN sock) /\ \A fd \in DOMAIN sock : fd >= FirstFree
    /\ online \in [DOMAIN online -> Nat]
    /\ newcomer \in Nat \cup {None}
    /\ backlog \in Seq(Conns)

\* Connections wait once, and one that poll has reported still does.
WaitOnce ==
    /\ IsInjective(backlog) /\ Standing \subseteq Range(fds)
    /\ socket_tcp \in ready => backlog # <<>>

Agree ==
    /\ DOMAIN online \subseteq DOMAIN clients
    /\ IsInjective(online) /\ IsInjective(sock) /\ IsInjective(fds)
    /\ Range(online) = Range(fds) \ Standing
    /\ DOMAIN sock = Range(online) \cup ({newcomer} \ {None})
    /\ newcomer \notin Range(online)
    /\ ready \subseteq Range(fds)
    /\ \A c \in Range(backlog) : c \notin Range(sock)

UpInv == TablesTypeOK /\ WaitOnce /\ Agree

IInv == server # "down" => UpInv

-----------------------------------------------------------------------------
\* A set of numbers has a least one: Below is well-founded.
LEMMA LeastNumber == ASSUME NEW I \in SUBSET Nat, I # {} PROVE \E x \in I : \A y \in I : x <= y
<1>1. IsWellFoundedOn(OpToRel(<, Nat), Nat)
  BY NatLessThanWellFounded
<1> DEFINE Below == {p \in Nat \X Nat : p[1] < p[2]}
<1>2. OpToRel(<, Nat) = Below
  BY DEF OpToRel
<1>3. IsWellFoundedOn(Below, Nat)
  BY <1>1, <1>2
<1>4. \E x \in I : \A y \in I : <<y, x>> \notin Below
  <2> HIDE DEF Below
  <2> QED BY <1>3, WFMin
<1>5. \A x, y \in I : <<y, x>> \notin Below => x <= y
  OBVIOUS
<1> HIDE DEF Below
<1> QED
  BY <1>4, <1>5

LEMMA LeastIsThere == ASSUME NEW I \in SUBSET Nat, I # {} PROVE Min(I) \in I
BY LeastNumber DEF Min

\* Induction, over a set of numbers.
LEMMA AllNumbers == ASSUME NEW I \in SUBSET Nat, 0 \in I, \A n \in I : n + 1 \in I PROVE I = Nat
<1> DEFINE J == Nat \ I
<1>1. SUFFICES ASSUME J # {} PROVE FALSE
  OBVIOUS
<1>2. J \in SUBSET Nat
  OBVIOUS
<1>3. PICK m \in J : \A n \in J : m <= n
  <2> HIDE DEF J
  <2> QED BY <1>1, <1>2, LeastNumber
<1> QED
  BY <1>3

\* There is a free descriptor, and the lowest is free.
LEMMA LowestFree ==
    ASSUME NEW S \in SUBSET Nat, IsFiniteSet(S)
    PROVE  LET fd == Min({n \in FirstFree .. FirstFree + Cardinality(S) : n \notin S})
           IN  fd \in Nat /\ fd >= FirstFree /\ fd \notin S
<1> DEFINE range == FirstFree .. FirstFree + Cardinality(S)
           free == {n \in range : n \notin S}
<1>1. Cardinality(S) \in Nat
  BY FS_CardinalityType
<1>2. IsFiniteSet(range) /\ Cardinality(range) = Cardinality(S) + 1
  <2> DEFINE a == FirstFree
             b == FirstFree + Cardinality(S)
  <2>1. a \in Int /\ b \in Int /\ a <= b /\ b - a + 1 = Cardinality(S) + 1
    BY <1>1 DEF FirstFree
  <2>2. range = a .. b
    OBVIOUS
  <2> HIDE DEF a, b, range
  <2>3. IsFiniteSet(a .. b) /\ Cardinality(a .. b) = b - a + 1
    BY <2>1, FS_Interval
  <2> QED
    BY <2>1, <2>2, <2>3
<1>3. ~(range \subseteq S)
  <2> HIDE DEF range
  <2>1. SUFFICES ASSUME range \subseteq S PROVE FALSE
    OBVIOUS
  <2>2. Cardinality(range) <= Cardinality(S)
    BY <2>1, FS_Subset
  <2> QED
    BY <1>1, <1>2, <2>2
<1>4. free # {} /\ free \in SUBSET Nat
  BY <1>1, <1>3 DEF FirstFree
<1>5. Min(free) \in free
  <2> HIDE DEF free
  <2> QED BY <1>4, LeastIsThere
<1> QED
  BY <1>1, <1>5 DEF FirstFree

\* What is polled when a descriptor joins the end of the list, or leaves it.
LEMMA PolledAppend ==
    ASSUME NEW list \in Seq(Nat), IsInjective(list), NEW fd \in Nat, fd \notin Range(list)
    PROVE  /\ Append(list, fd) \in Seq(Nat) /\ IsInjective(Append(list, fd))
           /\ Range(Append(list, fd)) = Range(list) \cup {fd}
<1> DEFINE longer == Append(list, fd)
<1>1. /\ longer \in Seq(Nat) /\ DOMAIN longer = 1..Len(list) + 1 /\ DOMAIN list = 1..Len(list)
      /\ \A i \in 1..Len(list) : longer[i] = list[i]
      /\ longer[Len(list) + 1] = fd /\ Len(list) \in Nat
  OBVIOUS
<1> HIDE DEF longer
<1>2. IsInjective(longer)
  <2>1. \A i \in 1..Len(list) : list[i] # fd
    BY <1>1 DEF Range
  <2>2. SUFFICES ASSUME NEW a \in 1..Len(list) + 1, NEW b \in 1..Len(list) + 1, longer[a] = longer[b]
                 PROVE  a = b
    BY <1>1 DEF IsInjective
  <2>3. CASE a \in 1..Len(list) /\ b \in 1..Len(list)
    BY <1>1, <2>2, <2>3 DEF IsInjective
  <2> QED
    BY <1>1, <2>1, <2>2, <2>3
<1>3. Range(longer) = Range(list) \cup {fd}
  BY <1>1 DEF Range
<1> QED
  BY <1>1, <1>2, <1>3 DEF longer

LEMMA PolledRemove ==
    ASSUME NEW list \in Seq(Nat), IsInjective(list), NEW fd \in Range(list)
    PROVE  /\ RemoveFirst(list, fd) \in Seq(Nat) /\ IsInjective(RemoveFirst(list, fd))
           /\ Range(RemoveFirst(list, fd)) = Range(list) \ {fd}
<1> DEFINE I == {i \in 1..Len(list) : list[i] = fd}
           k == SelectInSeq(list, LAMBDA f : f = fd)
           shorter == RemoveAt(list, k)
<1>1. I # {} /\ I \subseteq Nat /\ \A i \in I : i \in 1..Len(list) /\ list[i] = fd
  BY DEF Range
<1>2. k = Min(I)
  BY <1>1 DEF SelectInSeq
<1>3. k \in 1..Len(list) /\ list[k] = fd
  <2> HIDE DEF I, k
  <2> QED BY <1>1, <1>2, LeastIsThere
<1>4. RemoveFirst(list, fd) = shorter
  BY <1>3 DEF RemoveFirst
<1> HIDE DEF k, I
<1>5. /\ shorter \in Seq(Nat) /\ Len(shorter) = Len(list) - 1 /\ Len(list) \in Nat
      /\ \A i \in 1..Len(list) - 1 : shorter[i] = IF i < k THEN list[i] ELSE list[i + 1]
  <2> DEFINE before == SubSeq(list, 1, k - 1)
             after == SubSeq(list, k + 1, Len(list))
  <2>1. before \in Seq(Nat) /\ Len(before) = k - 1 /\ \A i \in 1..k - 1 : before[i] = list[i]
    BY <1>3
  <2>2. /\ after \in Seq(Nat) /\ Len(after) = Len(list) - k
        /\ \A i \in 1..Len(list) - k : after[i] = list[i + k]
    BY <1>3
  <2>3. shorter = before \o after
    BY DEF RemoveAt
  <2> HIDE DEF before, after, shorter
  <2>4. Len(list) \in Nat /\ k \in Nat
    BY <1>3
  <2>5. /\ shorter \in Seq(Nat) /\ Len(shorter) = (k - 1) + (Len(list) - k)
        /\ \A i \in 1..Len(shorter) :
               shorter[i] = IF i <= k - 1 THEN before[i] ELSE after[i - (k - 1)]
    <3>1. /\ before \o after \in Seq(Nat) /\ Len(before \o after) = Len(before) + Len(after)
          /\ \A i \in 1..Len(before) + Len(after) : (before \o after)[i] =
                 IF i <= Len(before) THEN before[i] ELSE after[i - Len(before)]
      BY <2>1, <2>2, ConcatProperties
    <3> QED
      BY <2>1, <2>2, <2>3, <3>1
  <2>6. ASSUME NEW i \in 1..Len(list) - 1
        PROVE  shorter[i] = IF i < k THEN list[i] ELSE list[i + 1]
    <3>1. i \in 1..Len(shorter)
      BY <2>4, <2>5
    <3>2. CASE i < k
      <4>1. i \in 1..k - 1 /\ i <= k - 1
        BY <2>4, <3>2
      <4> QED
        BY <2>1, <2>5, <3>1, <3>2, <4>1
    <3>3. CASE ~(i < k)
      <4>1. i - (k - 1) \in 1..Len(list) - k /\ i - (k - 1) + k = i + 1
        BY <1>3, <2>4, <3>3
      <4>2. shorter[i] = after[i - (k - 1)]
        BY <2>4, <2>5, <3>1, <3>3
      <4> QED
        BY <2>2, <3>3, <4>1, <4>2
    <3> QED
      BY <3>2, <3>3
  <2> QED
    BY <2>4, <2>5, <2>6
<1> HIDE DEF shorter
<1> DEFINE old(i) == IF i < k THEN i ELSE i + 1
<1> DEFINE N == Len(list)
<1>6. N \in Nat /\ k \in Nat /\ 1 <= k /\ k <= N /\ DOMAIN list = 1..N
  BY <1>3
<1>7. shorter \in Seq(Nat) /\ Len(shorter) = N - 1 /\ DOMAIN shorter = 1..N - 1
  BY <1>5
<1>8. \A i \in 1..N - 1 : shorter[i] = IF i < k THEN list[i] ELSE list[i + 1]
  BY <1>5
<1> HIDE DEF N
<1>9. \A i \in 1..N - 1 : old(i) \in 1..N /\ old(i) # k
  BY <1>6
<1>10. /\ DOMAIN shorter = 1..N - 1 /\ DOMAIN list = 1..N
      /\ \A i \in 1..N - 1 : shorter[i] = list[old(i)] /\ old(i) \in 1..N /\ old(i) # k
  <2>1. \A i \in 1..N - 1 : shorter[i] = list[old(i)]
    BY <1>8
  <2> HIDE DEF old
  <2> QED
    BY <1>6, <1>7, <1>9, <2>1
<1>11. \A i, j \in 1..N - 1 : old(i) = old(j) => i = j
  BY <1>6
<1>12. IsInjective(shorter)
  <2> HIDE DEF old
  <2> QED BY <1>10, <1>11 DEF IsInjective
<1>13. Range(shorter) \subseteq Range(list) \ {fd}
  <2> HIDE DEF old
  <2>1. ASSUME NEW i \in DOMAIN shorter PROVE shorter[i] \in Range(list) /\ shorter[i] # fd
    <3>1. shorter[i] = list[old(i)] /\ old(i) \in DOMAIN list /\ old(i) # k
      BY <1>10
    <3>2. k \in DOMAIN list
      BY <1>6
    <3> QED
      BY <1>3, <3>1, <3>2 DEF IsInjective, Range
  <2> QED
    BY <2>1 DEF Range
<1>14. ASSUME NEW x \in Range(list) \ {fd} PROVE x \in Range(shorter)
  <2>1. PICK i \in 1..N : list[i] = x /\ i # k
    BY <1>3, <1>6 DEF Range
  <2>2. i < k \/ i > k
    BY <1>6, <2>1
  <2>3. CASE i < k
    <3>1. i \in 1..N - 1
      BY <1>6, <2>1, <2>3
    <3>2. shorter[i] = x
      BY <1>8, <2>1, <2>3, <3>1
    <3> QED BY <1>7, <3>1, <3>2 DEF Range
  <2>4. CASE i > k
    <3>1. i - 1 \in 1..N - 1 /\ ~(i - 1 < k) /\ i - 1 + 1 = i
      BY <1>6, <2>1, <2>4
    <3>2. shorter[i - 1] = x
      BY <1>8, <2>1, <3>1
    <3> QED BY <1>7, <3>1, <3>2 DEF Range
  <2> QED
    BY <2>2, <2>3, <2>4
<1> QED
  BY <1>4, <1>5, <1>12, <1>13, <1>14

-----------------------------------------------------------------------------
LEMMA InitInv == Init => IInv
<1> SUFFICES ASSUME Init PROVE UpInv
  BY DEF IInv
<1> USE DEF Init, STDIN_FILENO, socket_udp, socket_tcp, FirstFree, Standing
<1>1. DOMAIN fds = 1..3 /\ fds[1] = 0 /\ fds[2] = 4 /\ fds[3] = 3 /\ fds \in Seq(Nat)
  OBVIOUS
<1>2. DOMAIN sock = {} /\ DOMAIN online = {} /\ DOMAIN clients = {} /\ DOMAIN backlog = {}
  OBVIOUS
<1>3. IsFiniteSet(DOMAIN sock)
  BY <1>2, FS_EmptySet
<1>4. Range(fds) = Standing
  BY <1>1 DEF Range
<1>5. IsInjective(fds)
  BY <1>1 DEF IsInjective
<1>6. TablesTypeOK
  BY <1>1, <1>2, <1>3 DEF TablesTypeOK
<1>7. WaitOnce
  BY <1>2, <1>4 DEF WaitOnce, IsInjective
<1>8. /\ Range(online) = {} /\ Range(backlog) = {}
      /\ IsInjective(online) /\ IsInjective(sock)
  BY <1>2 DEF Range, IsInjective
<1>9. Agree
  BY <1>2, <1>4, <1>5, <1>8, PubSubAssumption DEF Agree
<1> QED
  BY <1>6, <1>7, <1>9 DEF UpInv

\* Nothing but ready changes, and it holds polled descriptors only.
LEMMA OnlyReady ==
    ASSUME UpInv, UNCHANGED <<fds, newcomer, DOMAIN clients, online, sock, backlog>>,
           ready' \subseteq Range(fds), socket_tcp \in ready' => backlog # <<>>
    PROVE  UpInv'
BY DEF UpInv, TablesTypeOK, WaitOnce, Agree

LEMMA ClientsInv == ASSUME IInv, Clients PROVE IInv'
<1>1. ASSUME NEW c \in Conns, NEW id \in Ids, ClientConnects(c, id) PROVE IInv'
  <2>1. SUFFICES ASSUME server # "down" PROVE UpInv'
    BY <1>1 DEF IInv, ClientConnects
  <2>2. UpInv
    BY <2>1 DEF IInv
  <2>3. /\ c \notin Range(sock) /\ c \notin Range(backlog) /\ backlog' = Append(backlog, c)
        /\ UNCHANGED <<server, fds, ready, newcomer, clients, online, sock>>
    BY <1>1 DEF ClientConnects, ServersPart, InUse
  <2>4. backlog' \in Seq(Conns) /\ IsInjective(backlog') /\ Range(backlog') = Range(backlog) \cup {c}
    <3>1. /\ backlog' \in Seq(Conns) /\ DOMAIN backlog' = 1..Len(backlog) + 1
          /\ DOMAIN backlog = 1..Len(backlog) /\ backlog'[Len(backlog) + 1] = c
          /\ \A i \in 1..Len(backlog) : backlog'[i] = backlog[i]
          /\ Len(backlog) \in Nat
      BY <2>2, <2>3 DEF UpInv, TablesTypeOK
    <3>2. Range(backlog') = Range(backlog) \cup {c}
      BY <3>1 DEF Range
    <3>3. \A i \in 1..Len(backlog) : backlog[i] # c
      BY <2>3, <3>1 DEF Range
    <3>4. ASSUME NEW a \in DOMAIN backlog', NEW b \in DOMAIN backlog', backlog'[a] = backlog'[b]
          PROVE  a = b
      <4>1. CASE a \in 1..Len(backlog) /\ b \in 1..Len(backlog)
        BY <2>2, <3>1, <3>4, <4>1 DEF UpInv, WaitOnce, IsInjective
      <4> QED
        BY <3>1, <3>3, <3>4, <4>1
    <3> QED
      BY <3>1, <3>2, <3>4 DEF IsInjective
  <2> QED
    BY <2>2, <2>3, <2>4 DEF UpInv, TablesTypeOK, WaitOnce, Agree
<1>2. ASSUME UNCHANGED <<ServersPart, backlog>> PROVE IInv'
  BY <1>2 DEF ServersPart, IInv, UpInv, TablesTypeOK, WaitOnce, Agree
<1>3. ASSUME NEW c \in Conns, ClientSendsId(c) \/ ClientReads(c) \/ ClientLeaves(c) PROVE IInv'
  BY <1>2, <1>3 DEF ClientSendsId, ClientReads, ClientLeaves
<1>4. ASSUME NEW c \in Conns, NEW type, NEW p, ClientAsks(c, type, p) PROVE IInv'
  BY <1>2, <1>4 DEF ClientAsks
<1>5. ASSUME NEW t, DatagramArrives(t) PROVE IInv'
  BY <1>2, <1>5 DEF DatagramArrives
<1> QED
  BY <1>1, <1>3, <1>4, <1>5 DEF Clients

\* The oldest connection leaves the backlog.
LEMMA BacklogTail ==
    ASSUME NEW list \in Seq(Conns), IsInjective(list), list # <<>>
    PROVE  /\ Tail(list) \in Seq(Conns) /\ IsInjective(Tail(list))
           /\ Head(list) \in Range(list) /\ Head(list) \in Conns
           /\ Range(Tail(list)) \subseteq Range(list) \ {Head(list)}
<1> DEFINE tail == Tail(list)
<1>1. /\ tail \in Seq(Conns) /\ Len(list) \in Nat \ {0} /\ DOMAIN tail = 1..Len(list) - 1
      /\ DOMAIN list = 1..Len(list) /\ \A i \in 1..Len(list) - 1 : tail[i] = list[i + 1]
      /\ Head(list) = list[1] /\ Head(list) \in Conns
  OBVIOUS
<1> HIDE DEF tail
<1>2. Head(list) \in Range(list)
  BY <1>1 DEF Range
<1>3. \A i \in 1..Len(list) - 1 : i + 1 \in DOMAIN list /\ i + 1 # 1
  BY <1>1
<1>4. ASSUME NEW i \in DOMAIN tail PROVE tail[i] \in Range(list) /\ tail[i] # Head(list)
  <2>1. tail[i] = list[i + 1] /\ i + 1 \in DOMAIN list /\ i + 1 # 1 /\ 1 \in DOMAIN list
    BY <1>1, <1>3
  <2> QED
    BY <1>1, <2>1 DEF Range, IsInjective
<1>5. ASSUME NEW a \in DOMAIN tail, NEW b \in DOMAIN tail, tail[a] = tail[b] PROVE a = b
  <2>1. list[a + 1] = list[b + 1] /\ a + 1 \in DOMAIN list /\ b + 1 \in DOMAIN list
    BY <1>1, <1>3, <1>5
  <2>2. a + 1 = b + 1
    BY <2>1 DEF IsInjective
  <2> QED
    BY <1>1, <2>2
<1>6. IsInjective(tail) /\ Range(tail) \subseteq Range(list) \ {Head(list)}
  BY <1>4, <1>5 DEF IsInjective, Range
<1> QED
  BY <1>1, <1>2, <1>6 DEF tail

\* A function that gains a value it did not have.
Grows(f, x, y, g) ==
    /\ DOMAIN g = DOMAIN f \cup {x} /\ g[x] = y /\ \A z \in DOMAIN f : g[z] = f[z]
    /\ IsInjective(g) /\ Range(g) = Range(f) \cup {y}

LEMMA Extended ==
    ASSUME NEW f, IsInjective(f), NEW x, x \notin DOMAIN f, NEW y, y \notin Range(f)
    PROVE  Grows(f, x, y, Insert(f, x, y))
<1> DEFINE g == Insert(f, x, y)
<1>1. DOMAIN g = DOMAIN f \cup {x} /\ g[x] = y /\ \A z \in DOMAIN f : g[z] = f[z]
  BY DEF Insert
<1> HIDE DEF g
<1>2. Range(g) = Range(f) \cup {y}
  BY <1>1 DEF Range
<1>3. \A z \in DOMAIN f : f[z] # y
  BY DEF Range
<1>4. ASSUME NEW a \in DOMAIN g, NEW b \in DOMAIN g, g[a] = g[b] PROVE a = b
  BY <1>1, <1>3, <1>4 DEF IsInjective
<1>5. Grows(f, x, y, g)
  BY <1>1, <1>2, <1>4 DEF IsInjective, Grows
<1> QED
  BY <1>5 DEF g

LEMMA AcceptInv == ASSUME UpInv, Accept PROVE UpInv'
<1> DEFINE fd == Min({n \in FirstFree .. FirstFree + Cardinality(DOMAIN sock) : n \notin DOMAIN sock})
           c == Head(backlog)
<1>1. fd \in Nat /\ fd >= FirstFree /\ fd \notin DOMAIN sock
  BY LowestFree DEF UpInv, TablesTypeOK
<1>2. /\ socket_tcp \in ready /\ newcomer = None
      /\ sock' = Insert(sock, fd, c) /\ backlog' = Tail(backlog)
      /\ newcomer' = fd /\ ready' = ready \ {socket_tcp}
      /\ UNCHANGED <<server, fds, clients, online>>
  BY DEF Accept, Turn, Rest
<1> HIDE DEF fd, c
<1>3. /\ backlog' \in Seq(Conns) /\ IsInjective(backlog') /\ c \in Range(backlog) /\ c \in Conns
      /\ Range(backlog') \subseteq Range(backlog) \ {c}
  BY <1>2, BacklogTail DEF UpInv, TablesTypeOK, WaitOnce, c
<1>4. c \notin Range(sock)
  BY <1>3 DEF UpInv, Agree
<1>5. /\ DOMAIN sock' = DOMAIN sock \cup {fd} /\ sock'[fd] = c
      /\ \A z \in DOMAIN sock : sock'[z] = sock[z]
      /\ IsInjective(sock') /\ Range(sock') = Range(sock) \cup {c}
  <2>1. IsInjective(sock) /\ fd \notin DOMAIN sock /\ c \notin Range(sock)
    BY <1>1, <1>4 DEF UpInv, Agree
  <2>2. Grows(sock, fd, c, Insert(sock, fd, c))
    BY <2>1, Extended
  <2> QED
    BY <1>2, <2>2 DEF Grows
<1>6. sock' \in [DOMAIN sock' -> Conns]
  BY <1>2, <1>3 DEF UpInv, TablesTypeOK, Insert
<1>7. IsFiniteSet(DOMAIN sock')
  <2>1. IsFiniteSet(DOMAIN sock \cup {fd})
    BY FS_AddElement DEF UpInv, TablesTypeOK
  <2> QED
    BY <1>5, <2>1
<1>8. TablesTypeOK'
  BY <1>1, <1>2, <1>3, <1>5, <1>6, <1>7 DEF UpInv, TablesTypeOK
<1>9. WaitOnce'
  BY <1>2, <1>3 DEF UpInv, WaitOnce
<1>10. fd # None /\ fd \notin Range(online)
  BY <1>1, PubSubAssumption DEF UpInv, Agree
<1>11. Agree'
  BY <1>2, <1>3, <1>4, <1>5, <1>10 DEF UpInv, Agree
<1> QED
  BY <1>8, <1>9, <1>11 DEF UpInv

\* A client that is told apart by its id comes online.
LEMMA RegisterInv ==
    ASSUME UpInv, NEW c \in Conns, NEW id \in Ids, Register(c, id) PROVE UpInv'
<1>1. /\ newcomer # None /\ id \notin DOMAIN online
      /\ clients' = Registered(id) /\ online' = Insert(online, id, newcomer)
      /\ fds' = Append(fds, newcomer) /\ newcomer' = None
      /\ UNCHANGED <<server, ready, sock, backlog>>
  BY DEF Register, Received
<1>2. newcomer \in Nat /\ newcomer \in DOMAIN sock /\ newcomer >= FirstFree
  BY <1>1 DEF UpInv, TablesTypeOK, Agree
<1>3. newcomer \notin Standing /\ newcomer \notin Range(online) /\ newcomer \notin Range(fds)
  BY <1>2 DEF UpInv, Agree, Standing, STDIN_FILENO, socket_udp, socket_tcp, FirstFree
<1>4. fds' \in Seq(Nat) /\ IsInjective(fds') /\ Range(fds') = Range(fds) \cup {newcomer}
  BY <1>1, <1>2, <1>3, PolledAppend DEF UpInv, TablesTypeOK, Agree
<1>5. /\ DOMAIN online' = DOMAIN online \cup {id} /\ online'[id] = newcomer
      /\ \A z \in DOMAIN online : online'[z] = online[z]
      /\ IsInjective(online') /\ Range(online') = Range(online) \cup {newcomer}
  <2>1. IsInjective(online) /\ id \notin DOMAIN online /\ newcomer \notin Range(online)
    BY <1>1, <1>3 DEF UpInv, Agree
  <2>2. Grows(online, id, newcomer, Insert(online, id, newcomer))
    BY <2>1, Extended
  <2> QED
    BY <1>1, <2>2 DEF Grows
<1>6. online' \in [DOMAIN online' -> Nat]
  BY <1>1, <1>2 DEF UpInv, TablesTypeOK, Insert
<1>7. DOMAIN clients \cup {id} \subseteq DOMAIN clients'
  BY <1>1 DEF Registered, Insert
<1>8. TablesTypeOK'
  BY <1>1, <1>4, <1>6 DEF UpInv, TablesTypeOK
<1>9. WaitOnce'
  BY <1>1, <1>4 DEF UpInv, WaitOnce
<1>10. Agree'
  <2>1. DOMAIN online' \subseteq DOMAIN clients'
    BY <1>5, <1>7 DEF UpInv, Agree
  <2>2. /\ IsInjective(online') /\ IsInjective(sock') /\ IsInjective(fds')
        /\ ready' \subseteq Range(fds') /\ \A z \in Range(backlog') : z \notin Range(sock')
    BY <1>1, <1>4, <1>5 DEF UpInv, Agree
  <2>3. Range(online') = Range(fds') \ Standing
    BY <1>3, <1>4, <1>5 DEF UpInv, Agree
  <2>4. None \notin Range(online')
    BY <1>6, PubSubAssumption DEF Range
  <2>5. DOMAIN sock' = Range(online') \cup ({newcomer'} \ {None})
    BY <1>1, <1>5 DEF UpInv, Agree
  <2> QED
    BY <1>1, <2>1, <2>2, <2>3, <2>4, <2>5 DEF Agree, Standing
<1> QED
  BY <1>8, <1>9, <1>10 DEF UpInv

\* A descriptor is closed.
LEMMA Closed ==
    ASSUME UpInv, NEW fd \in DOMAIN sock, Close(fd)
    PROVE  /\ DOMAIN sock' = DOMAIN sock \ {fd} /\ \A z \in DOMAIN sock' : sock'[z] = sock[z]
           /\ sock' \in [DOMAIN sock' -> Conns] /\ IsFiniteSet(DOMAIN sock')
           /\ IsInjective(sock') /\ Range(sock') \subseteq Range(sock)
<1>1. sock' = [z \in DOMAIN sock \ {fd} |-> sock[z]]
  BY DEF Close, Restrict
<1>2. IsFiniteSet(DOMAIN sock')
  BY <1>1, FS_RemoveElement DEF UpInv, TablesTypeOK
<1>3. sock' \in [DOMAIN sock' -> Conns]
  BY <1>1 DEF UpInv, TablesTypeOK
<1>4. IsInjective(sock') /\ Range(sock') \subseteq Range(sock)
  BY <1>1 DEF UpInv, Agree, IsInjective, Range
<1> QED
  BY <1>1, <1>2, <1>3, <1>4

LEMMA RefuseInv ==
    ASSUME UpInv, NEW c \in Conns, NEW id \in Ids, AlreadyConnected(c, id) PROVE UpInv'
<1>1. /\ newcomer # None /\ Close(newcomer) /\ newcomer' = None
      /\ UNCHANGED <<server, fds, ready, clients, online, backlog>>
  BY DEF AlreadyConnected, Received
<1>2. newcomer \in DOMAIN sock
  BY <1>1 DEF UpInv, Agree
<1>3. /\ DOMAIN sock' = DOMAIN sock \ {newcomer}
      /\ sock' \in [DOMAIN sock' -> Conns] /\ IsFiniteSet(DOMAIN sock')
      /\ IsInjective(sock') /\ Range(sock') \subseteq Range(sock)
  BY <1>1, <1>2, Closed
<1>4. TablesTypeOK'
  BY <1>1, <1>3 DEF UpInv, TablesTypeOK
<1>5. WaitOnce'
  BY <1>1 DEF UpInv, WaitOnce
<1>6. None \notin Range(online)
  BY PubSubAssumption DEF UpInv, TablesTypeOK, Range
<1>7. Agree'
  BY <1>1, <1>3, <1>6 DEF UpInv, Agree
<1> QED
  BY <1>4, <1>5, <1>7 DEF UpInv

\* A client has left: its descriptor goes from every table at once.
LEMMA DisconnectInv ==
    ASSUME UpInv, NEW fd \in DOMAIN sock, Disconnect(fd) PROVE UpInv'
<1>1. /\ newcomer = None /\ Close(fd) /\ online' = Offline(fd)
      /\ fds' = RemoveFirst(fds, fd) /\ ready' = {}
      /\ UNCHANGED <<server, newcomer, clients, backlog>>
  BY DEF Disconnect, Turn
<1>2. fd \in Range(online) /\ fd \in Range(fds) /\ fd \in Nat /\ fd \notin Standing
  BY <1>1 DEF UpInv, Agree, TablesTypeOK
<1>3. fds' \in Seq(Nat) /\ IsInjective(fds') /\ Range(fds') = Range(fds) \ {fd}
  BY <1>1, <1>2, PolledRemove DEF UpInv, TablesTypeOK, Agree
<1>4. online' = [id \in {i \in DOMAIN online : online[i] # fd} |-> online[id]]
  BY <1>1 DEF Offline, Restrict
<1>5. /\ online' \in [DOMAIN online' -> Nat] /\ IsInjective(online')
      /\ DOMAIN online' \subseteq DOMAIN online /\ Range(online') = Range(online) \ {fd}
  <2>1. online' \in [DOMAIN online' -> Nat] /\ DOMAIN online' \subseteq DOMAIN online
    BY <1>4 DEF UpInv, TablesTypeOK
  <2>2. IsInjective(online')
    BY <1>4 DEF UpInv, Agree, IsInjective
  <2>3. Range(online') = Range(online) \ {fd}
    BY <1>4 DEF Range
  <2> QED
    BY <2>1, <2>2, <2>3
<1>6. /\ DOMAIN sock' = DOMAIN sock \ {fd}
      /\ sock' \in [DOMAIN sock' -> Conns] /\ IsFiniteSet(DOMAIN sock')
      /\ IsInjective(sock') /\ Range(sock') \subseteq Range(sock)
  BY <1>1, Closed
<1>7. TablesTypeOK'
  BY <1>1, <1>3, <1>5, <1>6 DEF UpInv, TablesTypeOK
<1>8. WaitOnce'
  BY <1>1, <1>2, <1>3 DEF UpInv, WaitOnce
<1>9. None \notin Range(online)
  BY PubSubAssumption DEF UpInv, TablesTypeOK, Range
<1>10. Agree'
  BY <1>1, <1>2, <1>3, <1>5, <1>6, <1>9 DEF UpInv, Agree
<1> QED
  BY <1>7, <1>8, <1>10 DEF UpInv

LEMMA ServesInv == ASSUME UpInv, Serves PROVE IInv'
<1>1. CASE Poll
  <2>1. ready' \subseteq Range(fds) /\ (socket_tcp \in ready' => backlog # <<>>)
    <3>1. socket_tcp \notin DOMAIN sock /\ socket_tcp # socket_udp
      BY DEF UpInv, TablesTypeOK, socket_tcp, socket_udp, FirstFree
    <3> QED
      BY <1>1, <3>1 DEF Poll, Readable
  <2> QED
    BY <1>1, <2>1, OnlyReady DEF Poll, IInv
<1>2. CASE ReceiveInvalidMessage \/ ReceiveMessage
  BY <1>2, OnlyReady
     DEF ReceiveInvalidMessage, ReceiveMessage, Rest, IInv, UpInv, Agree, WaitOnce
<1>3. CASE KilledByReset
  BY <1>3 DEF KilledByReset, GoesDown, IInv
<1>4. CASE Accept
  BY <1>4, AcceptInv DEF IInv
<1>5. ASSUME NEW c \in Conns, NEW id \in Ids, Register(c, id) \/ AlreadyConnected(c, id)
      PROVE  IInv'
  BY <1>5, RegisterInv, RefuseInv DEF IInv
<1>6. ASSUME NEW fd \in DOMAIN sock, Disconnect(fd) PROVE IInv'
  BY <1>6, DisconnectInv DEF IInv
<1>7. ASSUME NEW fd \in DOMAIN sock, NEW id \in DOMAIN online, Request(fd, id) PROVE IInv'
  <2>1. /\ DOMAIN clients' = DOMAIN clients /\ ready' = ready \ {fd}
        /\ UNCHANGED <<fds, newcomer, online, sock, backlog>>
    BY <1>7 DEF Request, Rest
  <2> QED
    BY <2>1, OnlyReady DEF IInv, UpInv, Agree, WaitOnce
<1> QED
  BY <1>1, <1>2, <1>3, <1>4, <1>5, <1>6, <1>7 DEF Serves

LEMMA NextInv == ASSUME IInv, [Next]_vars PROVE IInv'
<1>1. CASE Clients
  BY <1>1, ClientsInv
<1>2. CASE server # "down" /\ Serves
  BY <1>2, ServesInv DEF IInv
<1>3. CASE server = "down" /\ Serves
  <2>1. ~Poll /\ ~ReceiveInvalidMessage /\ ~ReceiveMessage /\ ~KilledByReset /\ ~Accept
    BY <1>3 DEF Poll, ReceiveInvalidMessage, ReceiveMessage, KilledByReset, Accept, Turn
  <2>2. ASSUME NEW c \in Conns, NEW id \in Ids, Register(c, id) \/ AlreadyConnected(c, id)
        PROVE  server' = "down"
    BY <1>3, <2>2 DEF Register, AlreadyConnected
  <2>3. \A fd \in DOMAIN sock : ~Disconnect(fd) /\ \A id \in DOMAIN online : ~Request(fd, id)
    BY <1>3 DEF Disconnect, Request, Turn
  <2> QED
    BY <1>3, <2>1, <2>2, <2>3 DEF Serves, IInv
<1>4. ASSUME NEW fd \in DOMAIN sock, NEW id \in DOMAIN online, RequestHangs(fd, id) PROVE IInv'
  BY <1>4 DEF RequestHangs, Turn, IInv, UpInv, TablesTypeOK, WaitOnce, Agree
<1>5. CASE Exit
  BY <1>5 DEF Exit, GoesDown, IInv
<1>6. CASE UNCHANGED vars
  BY <1>6 DEF vars, table, IInv, UpInv, TablesTypeOK, WaitOnce, Agree
<1> QED
  BY <1>1, <1>2, <1>3, <1>4, <1>5, <1>6 DEF Next

\* After any order of connections, requests, messages and disconnections, with any
\* number of clients: each client online has a descriptor of its own that is open,
\* polled exactly once, and in no stale entry; every other open descriptor is the
\* newcomer's (server.cpp:322-390).
THEOREM TablesAgree == Spec => []OnlineIsPolled
<1>1. Init => IInv
  BY InitInv
<1>2. IInv /\ [Next]_vars => IInv'
  BY NextInv
<1>3. IInv => OnlineIsPolled
  BY DEF IInv, UpInv, Agree, OnlineIsPolled, Standing
<1> QED
  BY <1>1, <1>2, <1>3, PTL DEF Spec

-----------------------------------------------------------------------------
(* check_topics *)

\* A function whose values go back from its last one: there is one.
GoesBack(f, N, S, step, last) ==
    f = [j \in 1 .. N |-> IF j = N THEN last ELSE step[j][f[j + 1]]]

LEMMA Backwards ==
    ASSUME NEW N \in Nat, NEW S, NEW last \in S, NEW step \in [1 .. N -> [S -> S]]
    PROVE  \E f \in [1 .. N -> S] : GoesBack(f, N, S, step, last)
<1> DEFINE From(f, n) == \A j \in 1 .. N : N - n <= j =>
                             f[j] = IF j = N THEN last ELSE step[j][f[j + 1]]
           I == {n \in Nat : \E f \in [1 .. N -> S] : From(f, n)}
<1>1. 0 \in I
  <2> DEFINE f == [j \in 1 .. N |-> last]
  <2>1. f \in [1 .. N -> S] /\ From(f, 0)
    OBVIOUS
  <2> QED
    BY <2>1
<1>2. ASSUME NEW n \in I PROVE n + 1 \in I
  <2>1. PICK f \in [1 .. N -> S] : From(f, n)
    OBVIOUS
  <2> DEFINE k == N - (n + 1)
  <2>2. CASE k \notin 1 .. N - 1
    <3>1. From(f, n + 1)
      BY <2>1, <2>2
    <3> QED
      BY <3>1
  <2>3. CASE k \in 1 .. N - 1
    <3> DEFINE g == [f EXCEPT ![k] = step[k][f[k + 1]]]
    <3>1. f[k + 1] \in S /\ step[k] \in [S -> S]
      BY <2>3
    <3>2. g \in [1 .. N -> S]
      BY <3>1
    <3>3. ASSUME NEW j \in 1 .. N, N - (n + 1) <= j
          PROVE  g[j] = IF j = N THEN last ELSE step[j][g[j + 1]]
      <4>1. CASE j = k
        <5>1. g[j] = step[k][f[k + 1]] /\ j # N /\ g[j + 1] = f[k + 1]
          BY <2>3, <4>1
        <5> QED
          BY <4>1, <5>1
      <4>2. CASE j # k
        <5>1. g[j] = f[j] /\ N - n <= j /\ j + 1 # k
          BY <3>3, <4>2
        <5>2. j # N => g[j + 1] = f[j + 1]
          BY <5>1
        <5> QED
          BY <2>1, <5>1, <5>2
      <4> QED
        BY <4>1, <4>2
    <3>4. From(g, n + 1)
      BY <3>3
    <3>5. n + 1 \in Nat
      OBVIOUS
    <3> HIDE DEF From, g
    <3> QED
      BY <3>2, <3>4, <3>5
  <2> QED
    BY <2>2, <2>3
<1>3. I = Nat
  <2>1. I \in SUBSET Nat
    OBVIOUS
  <2> HIDE DEF I
  <2> QED BY <1>1, <1>2, <2>1, AllNumbers
<1>4. PICK f \in [1 .. N -> S] : From(f, N)
  BY <1>3
<1>5. GoesBack(f, N, S, step, last)
  BY <1>4 DEF GoesBack
<1> QED
  BY <1>5

\* What the loop comes to at level j, given v, what it comes to at the next.
StartsAt(t1, t2, v, j) ==
    LET GoesOn(i) == \/ BothEnd(t1, t2, i, j + 1)
                     \/ i <= Len(t1) /\ j < Len(t2) /\ i \in v
        found(i) == FirstEqual(t1, i, t2[j + 1])
    IN  {i \in 1 .. Len(t1) :
            CASE t2[j] = "*" /\ j = Len(t2) -> TRUE
              [] t2[j] = "*" /\ j < Len(t2) ->
                     GoesOn(IF found(i) = 0 THEN Len(t1) + 1 ELSE found(i))
              [] OTHER -> t2[j] \in {"+", t1[i]} /\ GoesOn(i + 1)}

EndsAt(t, p, v, j) ==
    {i \in 1 .. Len(t) + 1 :
        CASE j > Len(p) -> i > Len(t)
          [] j <= Len(p) /\ p[j] = "*" ->
                 IF j = Len(p) THEN i <= Len(t) ELSE \E i2 \in i .. Len(t) + 1 : i2 \in v
          [] OTHER -> i <= Len(t) /\ p[j] \in {"+", t[i]} /\ i + 1 \in v}

\* check_topics is what its recursion says that it is, and so is Matches.
Comes(f, t, p) ==
    /\ f \in [1 .. Len(p) -> SUBSET (1 .. Len(t))]
    /\ \A j \in 1 .. Len(p) : f[j] = StartsAt(t, p, f[j + 1], j)
    /\ check_topics(t, p) <=> 1 \in f[1]

LEMMA CheckRecurs ==
    ASSUME NEW L, NEW t \in Seq(L), NEW p \in Seq(L), t # <<>>, p # <<>>
    PROVE  \E f : Comes(f, t, p)
<1> DEFINE N == Len(p)
           S == SUBSET (1 .. Len(t))
           last == StartsAt(t, p, {}, N)
           step == [j \in 1 .. N |-> [v \in S |-> StartsAt(t, p, v, j)]]
<1>1. N \in Nat \ {0}
  OBVIOUS
<1>2. \A v, j : StartsAt(t, p, v, j) \in S
  BY DEF StartsAt
<1>3. \A v : StartsAt(t, p, v, N) = last
  BY <1>1 DEF StartsAt
<1>4. last \in S /\ step \in [1 .. N -> [S -> S]]
  BY <1>2
<1>5. PICK f \in [1 .. N -> S] : GoesBack(f, N, S, step, last)
  <2> HIDE DEF last, step, S, N
  <2> QED BY <1>1, <1>4, Backwards
<1>6. f = [j \in 1 .. N |-> StartsAt(t, p, f[j + 1], j)]
  <2>1. ASSUME NEW j \in 1 .. N
        PROVE  StartsAt(t, p, f[j + 1], j) = IF j = N THEN last ELSE step[j][f[j + 1]]
    <3>1. CASE j = N
      BY <1>3, <3>1
    <3>2. CASE j # N
      <4>1. j + 1 \in 1 .. N
        BY <1>1, <3>2
      <4>2. f[j + 1] \in S
        BY <1>5, <4>1
      <4> QED
        BY <3>2, <4>2
    <3> QED
      BY <3>1, <3>2
  <2>2. f = [j \in 1 .. N |-> IF j = N THEN last ELSE step[j][f[j + 1]]]
    BY <1>5 DEF GoesBack
  <2> HIDE DEF last, step
  <2> QED
    BY <2>1, <2>2
<1> DEFINE g == CHOOSE g : g = [j \in 1 .. N |-> StartsAt(t, p, g[j + 1], j)]
<1>7. g = [j \in 1 .. N |-> StartsAt(t, p, g[j + 1], j)]
  BY <1>6
<1>8. check_topics(t, p) <=> 1 \in g[1]
  BY DEF check_topics, StartsAt, g
<1> HIDE DEF g
<1>9. g \in [1 .. N -> S] /\ \A j \in 1 .. N : g[j] = StartsAt(t, p, g[j + 1], j)
  <2> DEFINE body == [j \in 1 .. N |-> StartsAt(t, p, g[j + 1], j)]
  <2>1. g = body
    BY <1>7
  <2>2. body \in [1 .. N -> S] /\ \A j \in 1 .. N : body[j] = StartsAt(t, p, g[j + 1], j)
    BY <1>2
  <2> HIDE DEF body
  <2> QED
    BY <2>1, <2>2
<1>10. Comes(g, t, p)
  BY <1>8, <1>9 DEF Comes
<1> QED
  BY <1>10

Ends(f, t, p) ==
    /\ f \in [1 .. Len(p) + 1 -> SUBSET (1 .. Len(t) + 1)]
    /\ \A j \in 1 .. Len(p) + 1 : f[j] = EndsAt(t, p, f[j + 1], j)
    /\ Matches(t, p) <=> 1 \in f[1]

LEMMA MatchRecurs ==
    ASSUME NEW L, NEW t \in Seq(L), NEW p \in Seq(L)
    PROVE  \E f : Ends(f, t, p)
<1> DEFINE N == Len(p) + 1
           S == SUBSET (1 .. Len(t) + 1)
           last == EndsAt(t, p, {}, N)
           step == [j \in 1 .. N |-> [v \in S |-> EndsAt(t, p, v, j)]]
<1>1. N \in Nat \ {0}
  OBVIOUS
<1>2. \A v, j : EndsAt(t, p, v, j) \in S
  BY DEF EndsAt
<1>3. \A v : EndsAt(t, p, v, N) = last
  BY DEF EndsAt
<1>4. last \in S /\ step \in [1 .. N -> [S -> S]]
  BY <1>2
<1>5. PICK f \in [1 .. N -> S] : GoesBack(f, N, S, step, last)
  <2> HIDE DEF last, step, S, N
  <2> QED BY <1>1, <1>4, Backwards
<1>6. f = [j \in 1 .. N |-> EndsAt(t, p, f[j + 1], j)]
  <2>1. ASSUME NEW j \in 1 .. N
        PROVE  EndsAt(t, p, f[j + 1], j) = IF j = N THEN last ELSE step[j][f[j + 1]]
    <3>1. CASE j = N
      BY <1>3, <3>1
    <3>2. CASE j # N
      <4>1. j + 1 \in 1 .. N
        BY <1>1, <3>2
      <4>2. f[j + 1] \in S
        BY <1>5, <4>1
      <4> QED
        BY <3>2, <4>2
    <3> QED
      BY <3>1, <3>2
  <2>2. f = [j \in 1 .. N |-> IF j = N THEN last ELSE step[j][f[j + 1]]]
    BY <1>5 DEF GoesBack
  <2> HIDE DEF last, step
  <2> QED
    BY <2>1, <2>2
<1> DEFINE g == CHOOSE g : g = [j \in 1 .. N |-> EndsAt(t, p, g[j + 1], j)]
<1>7. g = [j \in 1 .. N |-> EndsAt(t, p, g[j + 1], j)]
  BY <1>6
<1>8. Matches(t, p) <=> 1 \in g[1]
  BY DEF Matches, EndsAt, g
<1> HIDE DEF g
<1>9. g \in [1 .. N -> S] /\ \A j \in 1 .. N : g[j] = EndsAt(t, p, g[j + 1], j)
  <2> DEFINE body == [j \in 1 .. N |-> EndsAt(t, p, g[j + 1], j)]
  <2>1. g = body
    BY <1>7
  <2>2. body \in [1 .. N -> S] /\ \A j \in 1 .. N : body[j] = EndsAt(t, p, g[j + 1], j)
    BY <1>2
  <2> HIDE DEF body
  <2> QED
    BY <2>1, <2>2
<1>10. Ends(g, t, p)
  BY <1>8, <1>9 DEF Ends
<1> QED
  BY <1>10

\* The first level that equals x, from level i on.
LEMMA FirstIsThere ==
    ASSUME NEW L, NEW t \in Seq(L), NEW i \in 1 .. Len(t), NEW x
    PROVE  FirstEqual(t, i, x) = 0 \/ FirstEqual(t, i, x) \in i .. Len(t)
<1> DEFINE I == {k \in i .. Len(t) : t[k] = x}
<1>1. I \in SUBSET Nat
  OBVIOUS
<1>2. I # {} => Min(I) \in I
  <2> HIDE DEF I
  <2> QED BY <1>1, LeastIsThere
<1>3. FirstEqual(t, i, x) = IF I # {} THEN Min(I) ELSE 0
  BY DEF FirstEqual, SelectInSubSeq
<1> QED
  BY <1>2, <1>3

\* A pattern whose "*" comes last, if at all.
StarLast(p) == \A j \in 1 .. Len(p) - 1 : p[j] # "*"

\* check_topics matches no topic wrongly, and misses none when "*" comes last only.
THEOREM ChecksRightly ==
    ASSUME NEW L, NEW t \in Seq(L), NEW p \in Seq(L), t # <<>>, p # <<>>
    PROVE  /\ check_topics(t, p) => Matches(t, p)
           /\ StarLast(p) => (Matches(t, p) => check_topics(t, p))
<1>1. PICK f : Comes(f, t, p)
  BY CheckRecurs
<1>2. PICK g : Ends(g, t, p)
  BY MatchRecurs
<1> DEFINE N == Len(p)
           M == Len(t)
<1>3. N \in Nat \ {0} /\ M \in Nat \ {0}
  OBVIOUS
<1> DEFINE Right(j) == /\ f[j] \subseteq g[j]
                       /\ StarLast(p) => g[j] \cap (1 .. M) \subseteq f[j]
           I == {n \in Nat : n < N => Right(N - n)}
<1>a. g[N + 1] = {M + 1}
  <2>1. g[N + 1] = EndsAt(t, p, g[N + 1 + 1], N + 1)
    BY <1>2, <1>3 DEF Ends
  <2> QED
    BY <2>1, <1>3 DEF EndsAt
<1>4. ASSUME NEW j \in 1 .. N, j < N => Right(j + 1) PROVE Right(j)
  <2>1. f[j] = StartsAt(t, p, f[j + 1], j) /\ g[j] = EndsAt(t, p, g[j + 1], j)
    BY <1>1, <1>2 DEF Comes, Ends
  <2>2. j < N => f[j + 1] \subseteq g[j + 1] /\ f[j + 1] \subseteq 1 .. M
    <3>1. j < N => j + 1 \in 1 .. N
      BY <1>3
    <3>2. \A k \in 1 .. N : f[k] \subseteq 1 .. M
      BY <1>1 DEF Comes
    <3> QED
      BY <1>4, <3>1, <3>2
  <2>3. j < N => g[j + 1] \subseteq 1 .. M + 1
    BY <1>2 DEF Ends
  <2>4. ASSUME NEW i \in f[j] PROVE i \in g[j]
    <3>1. i \in 1 .. M
      BY <1>1 DEF Comes
    <3>2. CASE p[j] = "*" /\ j = N
      BY <1>3, <2>1, <3>1, <3>2 DEF EndsAt
    <3>3. CASE p[j] = "*" /\ j < N
      <4> DEFINE first == FirstEqual(t, i, p[j + 1])
      <4>1. first = 0 \/ first \in i .. M
        BY <3>1, FirstIsThere
      <4>2. first # 0 /\ first \in f[j + 1]
        <5>1. LET k == IF first = 0 THEN M + 1 ELSE first
              IN  BothEnd(t, p, k, j + 1) \/ (k <= M /\ j < N /\ k \in f[j + 1])
          BY <2>1, <2>4, <3>3 DEF StartsAt, first
        <5>2. ~(j + 1 > N)
          BY <1>3, <3>3
        <5> HIDE DEF first
        <5> QED
          BY <1>3, <4>1, <5>1, <5>2 DEF BothEnd
      <4> HIDE DEF first
      <4>3. first \in g[j + 1] /\ first \in i .. M + 1
        BY <1>3, <2>2, <3>1, <3>3, <4>1, <4>2
      <4> QED
        BY <1>3, <2>1, <3>1, <3>3, <4>3 DEF EndsAt
    <3>4. CASE p[j] # "*"
      <4>1. p[j] \in {"+", t[i]} /\ (BothEnd(t, p, i + 1, j + 1) \/ (i + 1 <= M /\ j < N /\ i + 1 \in f[j + 1]))
        BY <2>1, <2>4, <3>4 DEF StartsAt
      <4>2. i + 1 \in g[j + 1]
        <5>1. CASE BothEnd(t, p, i + 1, j + 1)
          <6>1. i + 1 = M + 1 /\ j + 1 = N + 1
            BY <1>3, <3>1, <5>1 DEF BothEnd
          <6> QED
            BY <1>a, <6>1
        <5>2. CASE j < N /\ i + 1 \in f[j + 1]
          BY <2>2, <5>2
        <5> QED
          BY <4>1, <5>1, <5>2
      <4> QED
        BY <1>3, <2>1, <3>1, <3>4, <4>1, <4>2 DEF EndsAt
    <3> QED
      BY <1>3, <3>2, <3>3, <3>4
  <2>5. ASSUME StarLast(p), NEW i \in g[j], i \in 1 .. M PROVE i \in f[j]
    <3>1. CASE p[j] = "*"
      <4>1. j = N
        BY <1>3, <2>5, <3>1 DEF StarLast
      <4> QED
        BY <2>1, <2>5, <3>1, <4>1 DEF StartsAt
    <3>2. CASE p[j] # "*"
      <4>1. p[j] \in {"+", t[i]} /\ i + 1 \in g[j + 1]
        BY <1>3, <2>1, <2>5, <3>2 DEF EndsAt
      <4>2. BothEnd(t, p, i + 1, j + 1) \/ (i + 1 <= M /\ j < N /\ i + 1 \in f[j + 1])
        <5>1. CASE j = N
          <6>1. i + 1 = M + 1 /\ j + 1 = N + 1
            BY <1>3, <1>a, <2>5, <4>1, <5>1
          <6> QED
            BY <1>3, <6>1 DEF BothEnd
        <5>2. CASE j < N
          <6>1. i + 1 \in 1 .. M
            <7>1. g[j + 1] = EndsAt(t, p, g[j + 1 + 1], j + 1)
              BY <1>2, <1>3, <5>2 DEF Ends
            <7>2. ~(j + 1 > N) /\ j + 1 <= N
              BY <1>3, <5>2
            <7>3. p[j + 1] = "*" => j + 1 = N
              BY <1>3, <2>5, <5>2 DEF StarLast
            <7>4. i + 1 <= M
              BY <1>3, <2>5, <4>1, <7>1, <7>2, <7>3 DEF EndsAt
            <7> QED
              BY <2>5, <7>4
          <6>2. i + 1 \in f[j + 1]
            BY <1>4, <2>5, <4>1, <5>2, <6>1
          <6> QED
            BY <5>2, <6>1, <6>2
        <5> QED
          BY <1>3, <5>1, <5>2
      <4> QED
        BY <2>1, <2>5, <3>2, <4>1, <4>2 DEF StartsAt
    <3> QED
      BY <3>1, <3>2
  <2> QED
    BY <2>4, <2>5
<1>5. 0 \in I
  <2>1. N \in 1 .. N /\ N - 0 = N /\ ~(N < N)
    BY <1>3
  <2> HIDE DEF Right
  <2>2. Right(N)
    BY <1>4, <2>1
  <2> QED
    BY <2>1, <2>2
<1>6. ASSUME NEW n \in I PROVE n + 1 \in I
  <2>1. CASE n + 1 < N
    <3>1. N - (n + 1) \in 1 .. N /\ N - (n + 1) + 1 = N - n
      BY <1>3, <2>1
    <3>2. Right(N - n)
      BY <2>1
    <3> HIDE DEF Right
    <3>3. Right(N - (n + 1))
      BY <1>4, <3>1, <3>2
    <3> QED
      BY <3>3
  <2> QED
    BY <2>1
<1>7. I = Nat
  <2>1. I \in SUBSET Nat
    OBVIOUS
  <2> HIDE DEF I
  <2> QED BY <1>5, <1>6, <2>1, AllNumbers
<1>8. Right(1)
  <2>1. N - 1 \in Nat /\ N - 1 < N /\ N - (N - 1) = 1
    BY <1>3
  <2>2. N - 1 \in I
    BY <1>7, <2>1
  <2> HIDE DEF Right
  <2> QED
    BY <2>1, <2>2
<1> QED
  BY <1>1, <1>2, <1>3, <1>8 DEF Comes, Ends

\* The same for the topics and patterns that a run compares.
THEOREM TopicsAgree == Spec => []TopicsMatch
<1>1. TopicsMatch
  <2>1. SUFFICES ASSUME NEW n \in 1 .. 3, NEW m \in 1 .. 3,
                        NEW t \in [1 .. n -> {"x", "y"}], NEW p \in [1 .. m -> {"x", "y", "+", "*"}]
                 PROVE  /\ check_topics(t, p) => Matches(t, p)
                        /\ (\A j \in 1 .. m - 1 : p[j] # "*") => (Matches(t, p) => check_topics(t, p))
    BY DEF TopicsMatch
  <2> DEFINE L == {"x", "y", "+", "*"}
  <2>2. t \in Seq(L) /\ p \in Seq(L) /\ t # <<>> /\ p # <<>> /\ Len(p) = m
    <3>1. t \in [1 .. n -> L] /\ n \in Nat /\ m \in Nat
      OBVIOUS
    <3>2. t \in Seq(L) /\ p \in Seq(L) /\ Len(t) = n /\ Len(p) = m
      BY <3>1
    <3> QED
      BY <3>2
  <2> HIDE DEF L
  <2> QED
    BY <2>2, ChecksRightly DEF StarLast
<1> QED
  BY <1>1, PTL DEF Spec
-----------------------------------------------------------------------------
(* The broker *)

Asks == {"SUB", "UNSUB"} \X Patterns
Messages == ({"ID"} \X Ids) \cup Asks

Connections ==
    [id : Ids, phase : {"left", "connected", "named"}, toServer : Seq(Messages),
     toClient : Seq(TopicSet), closed : BOOLEAN]

\* The connections that the server has to do with, and those that are of a client online.
Used == Range(sock) \cup Range(backlog)
Served == IF server = "down" THEN {} ELSE {sock[online[id]] : id \in DOMAIN online}

ClientsTypeOK ==
    /\ conn \in [Conns -> Connections]
    /\ clients \in [DOMAIN clients -> Seq(Patterns)] /\ DOMAIN clients \subseteq Ids
    /\ datagram \in TopicSet \cup {None}

\* A client says first who it is, once, and the server takes that before it takes anything
\* else; what a connection still carries is what the server has not given up.
Sound(r, used, served) ==
    /\ served => r.toServer \in Seq(Asks) /\ r.phase # "connected"
    /\ ~served => \/ r.toServer = <<>>
                  \/ Head(r.toServer) = <<"ID", r.id>> /\ Tail(r.toServer) \in Seq(Asks)
    /\ r.phase = "connected" => r.toServer = <<>>
    /\ r.phase = "left" => r.toClient = <<>>
    /\ ~used => r.toServer = <<>> /\ (r.phase # "left" => r.closed)
    /\ used /\ ~served /\ r.phase = "named" => r.toServer # <<>>

EachSound == \A c \in Conns : Sound(conn[c], c \in Used, c \in Served)

\* What poll has reported is still there when its turn comes.
Reported ==
    /\ socket_udp \in ready => datagram # None
    /\ \A fd \in ready \cap DOMAIN sock : HasInput(sock[fd])

Down == newcomer = None /\ sock = <<>> /\ backlog = <<>>

\* What makes the server a broker, added to what its tables have to agree on.
Dealings ==
    /\ ClientsTypeOK /\ EachSound
    /\ server # "down" => Reported
    /\ server = "down" => Down

\* What is asked among what was sent.
AskedOf(s) == IF s # <<>> /\ Head(s)[1] = "ID" THEN Tail(s) ELSE s

LEMMA SequenceFacts ==
    ASSUME NEW S, NEW s \in Seq(S), NEW x \in S
    PROVE  /\ Append(s, x) \in Seq(S) /\ Append(s, x) # <<>>
           /\ s = <<>> => Append(s, x) = <<x>> /\ Head(Append(s, x)) = x /\ Tail(Append(s, x)) = <<>>
           /\ s # <<>> => /\ Head(Append(s, x)) = Head(s) /\ Tail(Append(s, x)) = Append(Tail(s), x)
                          /\ Head(s) \in S /\ Tail(s) \in Seq(S)
           /\ <<x>> \in Seq(S) /\ Head(<<x>>) = x /\ Tail(<<x>>) = <<>> /\ <<>> \in Seq(S)
<1>1. s # <<>> => Tail(Append(s, x)) = Append(Tail(s), x)
  OBVIOUS
<1>2. s = <<>> => Append(s, x) = <<x>> /\ Head(Append(s, x)) = x /\ Tail(Append(s, x)) = <<>>
  OBVIOUS
<1>3. Append(s, x) \in Seq(S) /\ Append(s, x) # <<>>
  <2>1. Append(s, x) \in Seq(S) /\ Len(Append(s, x)) = Len(s) + 1 /\ Len(s) \in Nat
    OBVIOUS
  <2>2. Append(s, x) = <<>> => Len(Append(s, x)) = 0
    OBVIOUS
  <2> QED
    BY <2>1, <2>2
<1>4. <<x>> \in Seq(S) /\ Head(<<x>>) = x /\ Tail(<<x>>) = <<>> /\ <<>> \in Seq(S)
  <2> DEFINE none == <<>>
  <2>1. none \in Seq(S) /\ Append(none, x) = <<x>>
    OBVIOUS
  <2>2. Append(none, x) \in Seq(S) /\ Head(Append(none, x)) = x /\ Tail(Append(none, x)) = none
    OBVIOUS
  <2> QED
    BY <2>1, <2>2
<1>5. s # <<>> => Head(Append(s, x)) = Head(s) /\ Head(s) \in S /\ Tail(s) \in Seq(S)
  OBVIOUS
<1> QED
  BY <1>1, <1>2, <1>3, <1>4, <1>5

LEMMA AskedFacts ==
    ASSUME NEW s \in Seq(Messages)
    PROVE  /\ s \in Seq(Asks) => AskedOf(s) = s
           /\ \A id : s # <<>> /\ Head(s) = <<"ID", id>> => AskedOf(s) = Tail(s)
           /\ \A m \in Asks : AskedOf(Append(s, m)) = Append(AskedOf(s), m)
           /\ \A id \in Ids : AskedOf(<< <<"ID", id>> >>) = <<>>
<1>1. \A m \in Asks : m[1] # "ID" /\ m \in Messages
  BY DEF Asks, Messages
<1>2. s \in Seq(Asks) => AskedOf(s) = s
  <2>1. s \in Seq(Asks) /\ s # <<>> => Head(s) \in Asks
    OBVIOUS
  <2> QED
    BY <1>1, <2>1 DEF AskedOf
<1>3. \A id : s # <<>> /\ Head(s) = <<"ID", id>> => AskedOf(s) = Tail(s)
  BY DEF AskedOf
<1>4. ASSUME NEW m \in Asks PROVE AskedOf(Append(s, m)) = Append(AskedOf(s), m)
  <2>1. CASE s = <<>>
    <3>1. Append(s, m) # <<>> /\ Head(Append(s, m)) = m
      BY <1>1, <2>1, SequenceFacts
    <3> QED
      BY <1>1, <2>1, <3>1 DEF AskedOf
  <2>2. CASE s # <<>>
    <3>1. Append(s, m) # <<>> /\ Head(Append(s, m)) = Head(s) /\ Tail(Append(s, m)) = Append(Tail(s), m)
      BY <1>1, <2>2, SequenceFacts
    <3> QED
      BY <2>2, <3>1 DEF AskedOf
  <2> QED
    BY <2>1, <2>2
<1>5. ASSUME NEW id \in Ids PROVE AskedOf(<< <<"ID", id>> >>) = <<>>
  BY DEF AskedOf
<1> QED
  BY <1>2, <1>3, <1>4, <1>5

LEMMA RangeOfAppend ==
    ASSUME NEW S, NEW s \in Seq(S), NEW x \in S
    PROVE  Append(s, x) \in Seq(S) /\ Range(Append(s, x)) = Range(s) \cup {x}
<1> DEFINE longer == Append(s, x)
<1>1. /\ longer \in Seq(S) /\ DOMAIN longer = 1 .. Len(s) + 1
      /\ DOMAIN s = 1 .. Len(s) /\ Len(s) \in Nat
      /\ \A i \in 1 .. Len(s) : longer[i] = s[i]
      /\ longer[Len(s) + 1] = x
  OBVIOUS
<1> HIDE DEF longer
<1>2. Range(longer) = Range(s) \cup {x}
  BY <1>1 DEF Range
<1> QED
  BY <1>1, <1>2 DEF longer

\* What is left of a list when a topic is erased.
LEMMA ErasedIs ==
    ASSUME NEW S, NEW topics \in Seq(S), NEW topic
    PROVE  /\ Erased(topics, topic) \in Seq(S)
           /\ Range(Erased(topics, topic)) = Range(topics) \ {topic}
<1> DEFINE N == Len(topics)
           Next1(f, i) == IF i = 0 THEN <<>>
                          ELSE IF topics[i] = topic THEN f[i - 1] ELSE Append(f[i - 1], topics[i])
           From(f, n) == \A i \in 0 .. N : i <= n => f[i] = Next1(f, i)
           I == {n \in Nat : \E f \in [0 .. N -> Seq(S)] : From(f, n)}
<1>1. N \in Nat /\ \A i \in 1 .. N : topics[i] \in S
  OBVIOUS
<1>2. 0 \in I
  <2> DEFINE f == [i \in 0 .. N |-> <<>>]
  <2>1. f \in [0 .. N -> Seq(S)] /\ From(f, 0)
    BY <1>1
  <2> QED
    BY <2>1
<1>3. ASSUME NEW n \in I PROVE n + 1 \in I
  <2>1. PICK f \in [0 .. N -> Seq(S)] : From(f, n)
    OBVIOUS
  <2>2. CASE n + 1 > N
    <3> HIDE DEF Next1
    <3>1. From(f, n + 1)
      BY <1>1, <2>1, <2>2
    <3> QED
      BY <3>1
  <2>3. CASE n + 1 <= N
    <3> DEFINE v == Next1(f, n + 1)
               g == [f EXCEPT ![n + 1] = v]
    <3>1. n + 1 \in 1 .. N /\ f[n] \in Seq(S) /\ topics[n + 1] \in S /\ n + 1 - 1 = n
      BY <1>1, <2>3
    <3>2. v \in Seq(S)
      BY <3>1
    <3>3. g \in [0 .. N -> Seq(S)]
      <4> HIDE DEF v
      <4> QED BY <3>2
    <3>4. ASSUME NEW i \in 0 .. N, i <= n + 1 PROVE g[i] = Next1(g, i)
      <4>1. CASE i = n + 1
        <5>1. g[i] = v /\ g[n] = f[n]
          BY <3>1, <4>1
        <5> QED
          BY <3>1, <4>1, <5>1
      <4>2. CASE i # n + 1
        <5>1. g[i] = f[i] /\ i <= n /\ i - 1 # n + 1
          BY <3>1, <3>4, <4>2
        <5>2. i # 0 => g[i - 1] = f[i - 1]
          BY <5>1
        <5> QED
          BY <2>1, <5>1, <5>2
      <4> QED
        BY <4>1, <4>2
    <3>5. From(g, n + 1) /\ n + 1 \in Nat
      BY <3>4
    <3> HIDE DEF From, g
    <3> QED
      BY <3>3, <3>5
  <2> QED
    BY <2>2, <2>3
<1>4. I = Nat
  <2>1. I \in SUBSET Nat
    OBVIOUS
  <2> HIDE DEF I
  <2> QED BY <1>2, <1>3, <2>1, AllNumbers
<1>5. PICK f \in [0 .. N -> Seq(S)] : From(f, N)
  BY <1>1, <1>4
<1>6. f = [i \in 0 .. N |-> Next1(f, i)]
  BY <1>1, <1>5
<1> DEFINE kept == CHOOSE kept : kept = [i \in 0 .. N |-> Next1(kept, i)]
<1>7. kept = [i \in 0 .. N |-> Next1(kept, i)]
  BY <1>6
<1>8. Erased(topics, topic) = kept[N]
  BY DEF Erased
<1>9. \A i \in 0 .. N : kept[i] = Next1(kept, i)
  <2> DEFINE body == [i \in 0 .. N |-> Next1(kept, i)]
  <2>1. \A i \in 0 .. N : body[i] = Next1(kept, i)
    OBVIOUS
  <2>2. kept = body
    BY <1>7
  <2> HIDE DEF body
  <2> QED BY <2>1, <2>2
<1> HIDE DEF kept
<1> DEFINE Left(i) == {topics[k] : k \in 1 .. i} \ {topic}
           Right(i) == kept[i] \in Seq(S) /\ Range(kept[i]) = Left(i)
           J == {n \in Nat : n <= N => Right(n)}
<1>10. 0 \in J
  <2>1. kept[0] = <<>>
    BY <1>1, <1>9
  <2>2. Range(kept[0]) = {} /\ kept[0] \in Seq(S)
    BY <2>1 DEF Range
  <2> QED
    BY <2>2
<1>11. ASSUME NEW n \in J PROVE n + 1 \in J
  <2>1. SUFFICES ASSUME n + 1 <= N PROVE Right(n + 1)
    OBVIOUS
  <2>2. n + 1 \in 0 .. N /\ n + 1 # 0 /\ n + 1 - 1 = n /\ n <= N /\ topics[n + 1] \in S
    BY <1>1, <2>1
  <2>3. kept[n] \in Seq(S) /\ Range(kept[n]) = Left(n)
    BY <2>2
  <2>4. kept[n + 1] = IF topics[n + 1] = topic THEN kept[n] ELSE Append(kept[n], topics[n + 1])
    BY <1>9, <2>2
  <2>5. Left(n + 1) = Left(n) \cup ({topics[n + 1]} \ {topic})
    <3>1. 1 .. n + 1 = (1 .. n) \cup {n + 1}
      BY <2>2
    <3> QED
      BY <3>1
  <2>6. CASE topics[n + 1] = topic
    BY <2>3, <2>4, <2>5, <2>6
  <2>7. CASE topics[n + 1] # topic
    <3>1. kept[n + 1] \in Seq(S) /\ Range(kept[n + 1]) = Range(kept[n]) \cup {topics[n + 1]}
      BY <2>2, <2>3, <2>4, <2>7, RangeOfAppend
    <3> QED
      BY <2>3, <2>5, <2>7, <3>1
  <2> QED
    BY <2>6, <2>7
<1>12. J = Nat
  <2>1. J \in SUBSET Nat
    OBVIOUS
  <2> HIDE DEF J
  <2> QED BY <1>10, <1>11, <2>1, AllNumbers
<1>13. Right(N)
  <2>1. N \in J /\ N <= N
    <3> HIDE DEF J
    <3> QED
      BY <1>1, <1>12
  <2> HIDE DEF Right
  <2> QED
    BY <2>1
<1>14. Left(N) = Range(topics) \ {topic}
  <2>1. DOMAIN topics = 1 .. N
    OBVIOUS
  <2> QED
    BY <2>1 DEF Range
<1> QED
  BY <1>8, <1>13, <1>14

\* What a request does to the topics of a client.
LEMMA Decoded ==
    ASSUME NEW topics \in Seq(Patterns), NEW m \in Asks
    PROVE  /\ decode_client_request(topics, m) \in Seq(Patterns)
           /\ Range(decode_client_request(topics, m)) =
                  IF m[1] = "SUB" THEN Range(topics) \cup {m[2]} ELSE Range(topics) \ {m[2]}
<1>1. m[2] \in Patterns
  BY DEF Asks
<1>2. /\ Append(topics, m[2]) \in Seq(Patterns)
      /\ Range(Append(topics, m[2])) = Range(topics) \cup {m[2]}
  BY <1>1, RangeOfAppend
<1> QED
  BY <1>2, ErasedIs DEF decode_client_request

-----------------------------------------------------------------------------
(* Each step of the program is one of the broker, or none it can see *)

LEMMA FreeIs == ASSUME NEW id \in Ids PROVE Free(id) \in Connections
<1>1. <<>> \in Seq(Messages) /\ <<>> \in Seq(TopicSet)
  OBVIOUS
<1> QED
  BY <1>1 DEF Free, Connections

LEMMA InitDealings == Init => Dealings
<1> SUFFICES ASSUME Init PROVE Dealings
  OBVIOUS
<1>1. PICK id \in Ids : conn = [c \in Conns |-> Free(id)]
  BY DEF Init
<1>2. /\ server = "running" /\ clients = <<>> /\ online = <<>> /\ sock = <<>> /\ backlog = <<>>
      /\ datagram = None /\ ready = {}
  BY DEF Init
<1>3. Free(id) \in Connections
  BY FreeIs
<1>4. ClientsTypeOK
  BY <1>1, <1>2, <1>3 DEF ClientsTypeOK
<1>5. Used = {} /\ Served = {}
  BY <1>2 DEF Used, Served, Range
<1>6. ASSUME NEW c \in Conns PROVE Sound(conn[c], c \in Used, c \in Served)
  <2>1. /\ conn[c].toServer = <<>> /\ conn[c].toClient = <<>> /\ conn[c].phase = "left"
    BY <1>1 DEF Free
  <2> QED
    BY <1>5, <2>1 DEF Sound
<1>7. EachSound
  BY <1>6 DEF EachSound
<1> QED
  BY <1>2, <1>4, <1>7 DEF Dealings, Reported

\* The connections of the clients online are open.
LEMMA ServedAreOpen ==
    ASSUME IInv, Dealings
    PROVE  /\ Served \subseteq Range(sock) /\ Range(sock) \subseteq Used
           /\ server # "down" => /\ \A id \in DOMAIN online : online[id] \in DOMAIN sock
                                 /\ \A fd \in DOMAIN sock : sock[fd] \in Conns
BY DEF IInv, UpInv, Agree, TablesTypeOK, Served, Used, Range

\* The mapped state, in the words of the invariant.
LEMMA SessionIs == \A c : B!InSession(c) <=> c \in Served
<1>1. CASE server = "down"
  <2>1. DOMAIN <<>> = {}
    OBVIOUS
  <2> QED
    BY <1>1, <2>1 DEF B!InSession, Served
<1>2. CASE server # "down"
  BY <1>2 DEF B!InSession, Served
<1> QED
  BY <1>1, <1>2

LEMMA InterestedAre ==
    ASSUME IInv, Dealings, server # "down", NEW t
    PROVE  B!Interested(t) =
               {sock[online[id]] : id \in {i \in DOMAIN online : \E p \in Range(clients[i]) : Matches(t, p)}}
<1>1. \A i \in DOMAIN online : i \in DOMAIN clients /\ i \in Ids
  BY DEF IInv, UpInv, Agree, Dealings, ClientsTypeOK
<1> QED
  BY <1>1 DEF B!Interested

\* One connection changes; what the invariant says of the others stays.
LEMMA OneChanges ==
    ASSUME EachSound, ClientsTypeOK, NEW c \in Conns, NEW r \in Connections,
           conn' = [conn EXCEPT ![c] = r],
           \A d \in Conns \ {c} : (d \in Used' <=> d \in Used) /\ (d \in Served' <=> d \in Served),
           Sound(r, c \in Used', c \in Served')
    PROVE  EachSound' /\ conn' \in [Conns -> Connections]
<1>1. conn' \in [Conns -> Connections] /\ conn'[c] = r /\ \A d \in Conns \ {c} : conn'[d] = conn[d]
  BY DEF ClientsTypeOK
<1>2. ASSUME NEW d \in Conns PROVE Sound(conn'[d], d \in Used', d \in Served')
  <2>1. CASE d = c
    BY <1>1, <2>1
  <2>2. CASE d # c
    BY <1>1, <2>2 DEF EachSound, Sound
  <2> QED
    BY <2>1, <2>2
<1> QED
  BY <1>1, <1>2 DEF EachSound

\* What the clients do.
LEMMA ConnectDealings ==
    ASSUME IInv, Dealings, NEW c \in Conns, NEW id \in Ids, ClientConnects(c, id)
    PROVE  Dealings' /\ B!Connect(c, id)
<1> DEFINE r == [Free(id) EXCEPT !.phase = "connected"]
<1>1. /\ server # "down" /\ conn[c].phase = "left" /\ c \notin Used
      /\ conn' = [conn EXCEPT ![c] = r] /\ backlog' = Append(backlog, c)
      /\ UNCHANGED <<server, fds, ready, newcomer, clients, online, sock, datagram>>
  BY DEF ClientConnects, InUse, Used, ServersPart
<1>2. /\ r.id = id /\ r.phase = "connected" /\ r.toServer = <<>> /\ r.toClient = <<>>
      /\ r.closed = FALSE /\ r \in Connections
  <2>1. Free(id) \in Connections /\ "connected" \in {"left", "connected", "named"}
    BY FreeIs
  <2>2. r \in Connections
    BY <2>1 DEF Connections
  <2>3. /\ r.id = id /\ r.phase = "connected" /\ r.toServer = <<>> /\ r.toClient = <<>>
        /\ r.closed = FALSE
    BY DEF Free
  <2> QED
    BY <2>2, <2>3
<1> HIDE DEF r
<1>3. Range(backlog') = Range(backlog) \cup {c}
  BY <1>1, RangeOfAppend DEF IInv, UpInv, TablesTypeOK
<1>4. Used' = Used \cup {c} /\ Served' = Served /\ c \notin Served
  BY <1>1, <1>3, ServedAreOpen DEF Used, Served
<1>5. Sound(r, c \in Used', c \in Served')
  BY <1>2, <1>4 DEF Sound
<1>6. EachSound' /\ conn' \in [Conns -> Connections]
  BY <1>1, <1>2, <1>4, <1>5, OneChanges DEF Dealings
<1>7. /\ conn'[c] = r /\ \A d \in Conns \ {c} : conn'[d] = conn[d]
      /\ conn \in [Conns -> Connections]
  BY <1>1 DEF Dealings, ClientsTypeOK
<1>8. Reported'
  <2>1. ASSUME NEW fd \in ready \cap DOMAIN sock PROVE HasInput(sock[fd])'
    <3>1. sock[fd] \in Range(sock) /\ sock[fd] \in Conns /\ sock[fd] # c
      BY <1>1, ServedAreOpen DEF Used, Range
    <3>2. HasInput(sock[fd])
      BY <1>1 DEF Dealings, Reported
    <3> QED
      BY <1>1, <1>7, <3>1, <3>2 DEF HasInput
  <2> QED
    BY <1>1, <2>1 DEF Dealings, Reported
<1>9. Dealings'
  BY <1>1, <1>6, <1>8 DEF Dealings, ClientsTypeOK
<1>10. conn[c].toClient = <<>>
  BY <1>1 DEF Dealings, EachSound, Sound
<1>11. B!Connect(c, id)
  <2>1. ~B!InSession(c)
    BY <1>4, SessionIs
  <2>2. \A d \in Conns : Asked(d)' = IF d = c THEN <<>> ELSE Asked(d)
    BY <1>2, <1>7 DEF Asked
  <2> QED
    BY <1>1, <1>2, <1>7, <1>10, <2>1, <2>2 DEF B!Connect
<1> QED
  BY <1>9, <1>11

\* A step of one client, which changes nothing but its own connection.
OneClient(c, r) ==
    conn' = [conn EXCEPT ![c] = r] /\ UNCHANGED <<ServersPart, backlog, datagram>>

LEMMA ClientDealings ==
    ASSUME IInv, Dealings, NEW c \in Conns, NEW r \in Connections, OneClient(c, r),
           Sound(r, c \in Used, c \in Served),
           HasInput(c) => r.toServer # <<>> \/ r.phase = "left"
    PROVE  /\ Dealings' /\ conn'[c] = r /\ conn \in [Conns -> Connections]
           /\ \A d \in Conns \ {c} : conn'[d] = conn[d]
<1>1. UNCHANGED <<server, fds, ready, newcomer, clients, online, sock, backlog, datagram>>
  BY DEF OneClient, ServersPart
<1>2. Used' = Used /\ Served' = Served /\ conn' = [conn EXCEPT ![c] = r]
  BY <1>1 DEF Used, Served, OneClient
<1>3. EachSound' /\ conn' \in [Conns -> Connections]
  BY <1>2, OneChanges DEF Dealings
<1>4. /\ conn'[c] = r /\ \A d \in Conns \ {c} : conn'[d] = conn[d]
      /\ conn \in [Conns -> Connections]
  BY <1>2 DEF Dealings, ClientsTypeOK
<1>5. server # "down" => Reported'
  <2>1. ASSUME server # "down", NEW fd \in ready \cap DOMAIN sock PROVE HasInput(sock[fd])'
    <3>1. sock[fd] \in Conns /\ HasInput(sock[fd])
      BY <2>1, ServedAreOpen DEF Dealings, Reported
    <3> QED
      BY <1>1, <1>4, <3>1 DEF HasInput
  <2> QED
    BY <1>1, <2>1 DEF Dealings, Reported
<1>6. Dealings'
  BY <1>1, <1>3, <1>5 DEF Dealings, ClientsTypeOK, Down
<1> QED
  BY <1>4, <1>6

LEMMA IdDealings ==
    ASSUME IInv, Dealings, NEW c \in Conns, ClientSendsId(c)
    PROVE  Dealings' /\ UNCHANGED B!vars
<1> DEFINE m == <<"ID", conn[c].id>>
           r == [conn[c] EXCEPT !.toServer = <<m>>, !.phase = "named"]
<1>1. conn[c] \in Connections /\ Sound(conn[c], c \in Used, c \in Served)
  BY DEF Dealings, ClientsTypeOK, EachSound
<1>2. /\ conn[c].phase = "connected" /\ ~conn[c].closed
      /\ conn' = [conn EXCEPT ![c].toServer = Append(@, m), ![c].phase = "named"]
      /\ UNCHANGED <<ServersPart, backlog, datagram>>
  BY DEF ClientSendsId, Send
<1>3. conn[c].toServer = <<>> /\ c \notin Served /\ c \in Used
  BY <1>1, <1>2 DEF Sound
<1>4. m \in Messages /\ <<m>> \in Seq(Messages)
  BY <1>1 DEF Connections, Messages
<1>5. OneClient(c, r)
  <2>1. Append(conn[c].toServer, m) = <<m>>
    BY <1>3
  <2> HIDE DEF m
  <2> QED
    BY <1>2, <2>1 DEF OneClient, Dealings, ClientsTypeOK
<1>6. r \in Connections /\ r.toServer = <<m>> /\ r.phase = "named" /\ r.id = conn[c].id
      /\ r.toClient = conn[c].toClient
  <2>1. r \in Connections
    BY <1>1, <1>4 DEF Connections
  <2> QED
    BY <1>1, <2>1 DEF Connections
<1> HIDE DEF r
<1>7. Sound(r, c \in Used, c \in Served)
  <2>1. Head(<<m>>) = m /\ Tail(<<m>>) = <<>> /\ <<>> \in Seq(Asks) /\ <<m>> # <<>>
    OBVIOUS
  <2> QED
    BY <1>3, <1>6, <2>1 DEF Sound
<1>8. r.toServer # <<>>
  BY <1>6
<1>9. /\ Dealings' /\ conn'[c] = r /\ conn \in [Conns -> Connections]
      /\ \A d \in Conns \ {c} : conn'[d] = conn[d]
  BY <1>5, <1>6, <1>7, <1>8, ClientDealings
<1>10. /\ \A d \in Conns : Asked(d)' = Asked(d) /\ conn'[d].id = conn[d].id
                           /\ conn'[d].toClient = conn[d].toClient
                           /\ (conn'[d].phase # "left" <=> conn[d].phase # "left")
  <2>1. Asked(c)' = AskedOf(<<m>>) /\ Asked(c) = AskedOf(<<>>)
    BY <1>3, <1>6, <1>9 DEF Asked, AskedOf
  <2>2. Asked(c)' = Asked(c)
    BY <1>1, <2>1 DEF AskedOf, Connections
  <2>3. conn[c].phase = "connected"
    BY <1>2
  <2> QED
    BY <1>6, <1>9, <2>2, <2>3 DEF Asked
<1>11. UNCHANGED <<server, clients, online, sock>>
  BY <1>2 DEF ServersPart
<1> QED
  BY <1>9, <1>10, <1>11 DEF B!vars

LEMMA AskDealings ==
    ASSUME IInv, Dealings, NEW c \in Conns, NEW type \in {"SUB", "UNSUB"}, NEW p \in Patterns,
           ClientAsks(c, type, p)
    PROVE  Dealings' /\ B!Ask(c, <<type, p>>)
<1> DEFINE m == <<type, p>>
           s == conn[c].toServer
           r == [conn[c] EXCEPT !.toServer = Append(s, m), !.phase = "named"]
<1>1. conn[c] \in Connections /\ Sound(conn[c], c \in Used, c \in Served) /\ s \in Seq(Messages)
  BY DEF Dealings, ClientsTypeOK, EachSound, Connections
<1>2. /\ conn[c].phase = "named" /\ ~conn[c].closed
      /\ conn' = [conn EXCEPT ![c].toServer = Append(@, m), ![c].phase = "named"]
      /\ UNCHANGED <<ServersPart, backlog, datagram>>
  BY DEF ClientAsks, Send
<1>3. c \in Used /\ (c \notin Served => s # <<>>)
  BY <1>1, <1>2 DEF Sound
<1>4. m \in Asks /\ m \in Messages
  BY DEF Messages, Asks
<1>5. OneClient(c, r)
  BY <1>2, <1>3 DEF OneClient, Dealings, ClientsTypeOK
<1>6. Append(s, m) \in Seq(Messages) /\ Append(s, m) # <<>>
  <2> HIDE DEF m, s
  <2> QED BY <1>1, <1>4, SequenceFacts
<1>7. r \in Connections /\ r.toServer = Append(s, m) /\ r.phase = "named" /\ r.id = conn[c].id
      /\ r.toClient = conn[c].toClient
  <2>1. r \in Connections
    <3> HIDE DEF m, s
    <3> QED BY <1>1, <1>6 DEF Connections
  <2> QED
    BY <1>1, <2>1 DEF Connections
<1> HIDE DEF r, m, s
<1>8. Sound(r, c \in Used, c \in Served)
  <2>1. CASE c \in Served
    <3>1. s \in Seq(Asks)
      BY <1>1, <2>1 DEF Sound, s
    <3>2. Append(s, m) \in Seq(Asks)
      BY <1>4, <3>1, SequenceFacts
    <3> QED
      BY <1>3, <1>7, <2>1, <3>2 DEF Sound
  <2>2. CASE c \notin Served
    <3>1. s # <<>> /\ Head(s) = <<"ID", conn[c].id>> /\ Tail(s) \in Seq(Asks)
      BY <1>1, <1>3, <2>2 DEF Sound, s
    <3>2. Head(Append(s, m)) = Head(s) /\ Tail(Append(s, m)) = Append(Tail(s), m)
      BY <1>1, <1>4, <3>1, SequenceFacts
    <3>3. Append(Tail(s), m) \in Seq(Asks)
      BY <1>4, <3>1, SequenceFacts
    <3> QED
      BY <1>3, <1>6, <1>7, <2>2, <3>1, <3>2, <3>3 DEF Sound
  <2> QED
    BY <2>1, <2>2
<1>9. /\ Dealings' /\ conn'[c] = r /\ conn \in [Conns -> Connections]
      /\ \A d \in Conns \ {c} : conn'[d] = conn[d]
  BY <1>5, <1>6, <1>7, <1>8, ClientDealings
<1>10. /\ \A d \in Conns : /\ Asked(d)' = IF d = c THEN Append(Asked(c), m) ELSE Asked(d)
                           /\ conn'[d].id = conn[d].id /\ conn'[d].toClient = conn[d].toClient
                           /\ (conn'[d].phase # "left" <=> conn[d].phase # "left")
  <2>1. Asked(c)' = AskedOf(Append(s, m)) /\ Asked(c) = AskedOf(s)
    BY <1>7, <1>9 DEF Asked, AskedOf, s
  <2>2. Asked(c)' = Append(Asked(c), m)
    BY <1>1, <1>4, <2>1, AskedFacts
  <2> QED
    BY <1>2, <1>7, <1>9, <2>2 DEF Asked
<1>11. UNCHANGED <<server, clients, online, sock>>
  BY <1>2 DEF ServersPart
<1>12. B!Ask(c, m)
  BY <1>2, <1>9, <1>10, <1>11 DEF B!Ask
<1> QED
  BY <1>9, <1>12 DEF m

LEMMA ReadDealings ==
    ASSUME IInv, Dealings, NEW c \in Conns, ClientReads(c)
    PROVE  Dealings' /\ B!Read(c)
<1> DEFINE r == [conn[c] EXCEPT !.toClient = Tail(@)]
<1>1. conn[c] \in Connections /\ Sound(conn[c], c \in Used, c \in Served)
  BY DEF Dealings, ClientsTypeOK, EachSound
<1>2. conn[c].toClient # <<>> /\ OneClient(c, r)
  BY <1>1 DEF ClientReads, OneClient, Dealings, ClientsTypeOK
<1>3. /\ r \in Connections /\ r.toServer = conn[c].toServer /\ r.phase = conn[c].phase
      /\ r.id = conn[c].id /\ r.toClient = Tail(conn[c].toClient) /\ r.closed = conn[c].closed
  <2>1. Tail(conn[c].toClient) \in Seq(TopicSet)
    BY <1>1, <1>2 DEF Connections
  <2>2. r \in Connections
    BY <1>1, <2>1 DEF Connections
  <2> QED
    BY <1>1, <2>2 DEF Connections
<1> HIDE DEF r
<1>4. conn[c].phase # "left"
  BY <1>1, <1>2 DEF Sound
<1>5. Sound(r, c \in Used, c \in Served)
  BY <1>1, <1>3, <1>4 DEF Sound
<1>6. HasInput(c) => r.toServer # <<>> \/ r.phase = "left"
  BY <1>3 DEF HasInput
<1>7. /\ Dealings' /\ conn'[c] = r /\ conn \in [Conns -> Connections]
      /\ \A d \in Conns \ {c} : conn'[d] = conn[d]
  BY <1>2, <1>3, <1>5, <1>6, ClientDealings
<1>8. \A d \in Conns : /\ Asked(d)' = Asked(d) /\ conn'[d].id = conn[d].id
                       /\ conn'[d].phase = conn[d].phase
                       /\ conn'[d].toClient = IF d = c THEN Tail(conn[c].toClient) ELSE conn[d].toClient
  BY <1>3, <1>7 DEF Asked
<1>9. UNCHANGED <<server, clients, online, sock>>
  BY <1>2 DEF OneClient, ServersPart
<1> QED
  BY <1>2, <1>7, <1>8, <1>9 DEF B!Read

LEMMA LeaveDealings ==
    ASSUME IInv, Dealings, NEW c \in Conns, ClientLeaves(c)
    PROVE  Dealings' /\ B!Quit(c)
<1> DEFINE r == [conn[c] EXCEPT !.phase = "left", !.toClient = <<>>]
<1>1. conn[c] \in Connections /\ Sound(conn[c], c \in Used, c \in Served)
  BY DEF Dealings, ClientsTypeOK, EachSound
<1>2. OneClient(c, r)
  BY <1>1 DEF ClientLeaves, OneClient, Dealings, ClientsTypeOK
<1>3. /\ r \in Connections /\ r.toServer = conn[c].toServer /\ r.phase = "left"
      /\ r.id = conn[c].id /\ r.toClient = <<>> /\ r.closed = conn[c].closed
  <2>1. <<>> \in Seq(TopicSet)
    OBVIOUS
  <2>2. r \in Connections
    BY <1>1, <2>1 DEF Connections
  <2> QED
    BY <1>1, <2>2 DEF Connections
<1> HIDE DEF r
<1>5. Sound(r, c \in Used, c \in Served)
  BY <1>1, <1>3 DEF Sound
<1>7. /\ Dealings' /\ conn'[c] = r /\ conn \in [Conns -> Connections]
      /\ \A d \in Conns \ {c} : conn'[d] = conn[d]
  BY <1>2, <1>3, <1>5, ClientDealings
<1>8. \A d \in Conns : /\ Asked(d)' = Asked(d) /\ conn'[d].id = conn[d].id
                       /\ conn'[d].phase = IF d = c THEN "left" ELSE conn[d].phase
                       /\ conn'[d].toClient = IF d = c THEN <<>> ELSE conn[d].toClient
  BY <1>3, <1>7 DEF Asked
<1>9. UNCHANGED <<server, clients, online, sock>>
  BY <1>2 DEF OneClient, ServersPart
<1> QED
  BY <1>7, <1>8, <1>9 DEF B!Quit

\* What only the server and its tables see.
LEMMA SameDealings ==
    ASSUME Dealings, server # "down", server' # "down",
           UNCHANGED <<conn, clients, online, Used>>,
           \A id \in DOMAIN online : sock'[online[id]] = sock[online[id]],
           Reported', datagram' \in TopicSet \cup {None}
    PROVE  Dealings' /\ UNCHANGED B!vars
<1>1. Served' = Served
  BY DEF Served
<1>2. ClientsTypeOK'
  BY DEF Dealings, ClientsTypeOK
<1>3. EachSound'
  BY <1>1 DEF Dealings, EachSound
<1>4. \A d : Asked(d)' = Asked(d)
  BY DEF Asked
<1> QED
  BY <1>2, <1>3, <1>4 DEF Dealings, B!vars

LEMMA DatagramDealings ==
    ASSUME IInv, Dealings, NEW t \in TopicSet, DatagramArrives(t)
    PROVE  Dealings' /\ UNCHANGED B!vars
<1>1. /\ server # "down" /\ datagram' = t
      /\ UNCHANGED <<server, ready, clients, online, sock, backlog, conn>>
  BY DEF DatagramArrives, ServersPart
<1>2. t # None
  BY PubSubAssumption
<1>3. Reported'
  BY <1>1, <1>2 DEF Dealings, Reported, HasInput
<1> QED
  BY <1>1, <1>3, SameDealings DEF Used

LEMMA PollDealings == ASSUME IInv, Dealings, Poll PROVE Dealings' /\ UNCHANGED B!vars
<1>1. /\ server # "down" /\ ready' = Readable
      /\ UNCHANGED <<server, clients, online, sock, backlog, conn, datagram>>
  BY DEF Poll
<1>2. \A fd \in DOMAIN sock : fd # socket_udp /\ fd # socket_tcp
  BY <1>1 DEF IInv, UpInv, TablesTypeOK, socket_tcp, socket_udp, FirstFree
<1>3. socket_tcp # socket_udp
  BY DEF socket_tcp, socket_udp
<1>4. Reported'
  BY <1>1, <1>2, <1>3 DEF Reported, Readable, HasInput
<1> QED
  BY <1>1, <1>4, SameDealings DEF Used, Dealings, ClientsTypeOK

LEMMA InvalidDealings ==
    ASSUME IInv, Dealings, ReceiveInvalidMessage PROVE Dealings' /\ UNCHANGED B!vars
<1>1. /\ server # "down" /\ ready' = ready \ {socket_udp} /\ datagram' = None
      /\ UNCHANGED <<server, clients, online, sock, backlog, conn>>
  BY DEF ReceiveInvalidMessage, Turn, Rest
<1>2. Reported'
  BY <1>1 DEF Dealings, Reported, HasInput
<1> QED
  BY <1>1, <1>2, SameDealings DEF Used

LEMMA HangDealings ==
    ASSUME IInv, Dealings, NEW fd, NEW first, RequestHangs(fd, first)
    PROVE  Dealings' /\ UNCHANGED B!vars
<1>1. /\ server = "running" /\ server' = "hung"
      /\ UNCHANGED <<ready, clients, online, sock, backlog, conn, datagram>>
  BY DEF RequestHangs, Turn
<1>2. Reported'
  BY <1>1 DEF Dealings, Reported, HasInput
<1> QED
  BY <1>1, <1>2, SameDealings DEF Used, Dealings, ClientsTypeOK

\* A connection is accepted, which nobody sees yet.
LEMMA HeadAndTail ==
    ASSUME NEW list \in Seq(Conns), list # <<>>
    PROVE  Range(list) = Range(Tail(list)) \cup {Head(list)}
<1> DEFINE tail == Tail(list)
<1>1. /\ Len(list) \in Nat \ {0} /\ DOMAIN tail = 1..Len(list) - 1
      /\ DOMAIN list = 1..Len(list) /\ \A i \in 1..Len(list) - 1 : tail[i] = list[i + 1]
      /\ Head(list) = list[1]
  OBVIOUS
<1> HIDE DEF tail
<1>2. ASSUME NEW i \in DOMAIN list PROVE list[i] \in Range(tail) \cup {Head(list)}
  <2>1. CASE i = 1
    BY <1>1, <2>1
  <2>2. CASE i # 1
    <3>1. i - 1 \in DOMAIN tail /\ tail[i - 1] = list[i]
      BY <1>1, <2>2
    <3> QED
      BY <3>1 DEF Range
  <2> QED
    BY <2>1, <2>2
<1>3. ASSUME NEW i \in DOMAIN tail PROVE tail[i] \in Range(list)
  <2>1. tail[i] = list[i + 1] /\ i + 1 \in DOMAIN list
    BY <1>1
  <2> QED
    BY <2>1 DEF Range
<1>4. Head(list) \in Range(list)
  BY <1>1 DEF Range
<1> QED
  BY <1>2, <1>3, <1>4 DEF Range, tail

LEMMA AcceptDealings == ASSUME IInv, Dealings, Accept PROVE Dealings' /\ UNCHANGED B!vars
<1> DEFINE fd == Min({n \in FirstFree .. FirstFree + Cardinality(DOMAIN sock) : n \notin DOMAIN sock})
           c == Head(backlog)
<1>1. /\ server # "down" /\ socket_tcp \in ready
      /\ sock' = Insert(sock, fd, c) /\ backlog' = Tail(backlog) /\ ready' = ready \ {socket_tcp}
      /\ UNCHANGED <<server, clients, online, conn, datagram>>
  BY DEF Accept, Turn, Rest
<1>2. UpInv
  BY <1>1 DEF IInv
<1>3. fd \in Nat /\ fd >= FirstFree /\ fd \notin DOMAIN sock
  BY <1>2, LowestFree DEF UpInv, TablesTypeOK
<1> HIDE DEF fd
<1>4. DOMAIN sock' = DOMAIN sock \cup {fd} /\ sock'[fd] = c /\ \A z \in DOMAIN sock : sock'[z] = sock[z]
  BY <1>1, <1>3 DEF Insert
<1>5. Range(sock') = Range(sock) \cup {c}
  BY <1>3, <1>4 DEF Range
<1>6. Range(backlog) = Range(backlog') \cup {c}
  BY <1>1, <1>2, HeadAndTail DEF UpInv, TablesTypeOK, WaitOnce
<1>7. Used' = Used
  BY <1>5, <1>6 DEF Used
<1>8. \A id \in DOMAIN online : sock'[online[id]] = sock[online[id]]
  BY <1>1, <1>4, ServedAreOpen
<1>9. fd \notin ready
  <2>1. fd \notin Standing
    BY <1>3 DEF Standing, STDIN_FILENO, socket_udp, socket_tcp, FirstFree
  <2> QED
    BY <1>2, <1>3, <2>1 DEF UpInv, Agree
<1>10. Reported'
  <2>1. ASSUME NEW f \in ready' \cap DOMAIN sock' PROVE HasInput(sock[f]) /\ sock'[f] = sock[f]
    BY <1>1, <1>4, <1>9 DEF Dealings, Reported
  <2> QED
    BY <1>1, <2>1 DEF Dealings, Reported, HasInput
<1> QED
  BY <1>1, <1>7, <1>8, <1>10, SameDealings DEF Dealings, ClientsTypeOK

\* The server goes down, by itself or while it sends the message t.
LEMMA DownDealings ==
    ASSUME IInv, Dealings, server # "down", NEW reached, NEW t \in TopicSet,
           \A c \in reached : conn[c].phase # "left",
           GoesDown(reached, t) \/ (reached = {} /\ GoesDown({}, None)),
           reached \subseteq B!Interested(t)
    PROVE  Dealings' /\ B!Stop
<1>1. /\ server' = "down" /\ newcomer' = None /\ sock' = <<>> /\ backlog' = <<>> /\ datagram' = None
      /\ UNCHANGED <<clients, online>>
  BY DEF GoesDown, table
<1> DEFINE r(c) == [conn[c] EXCEPT !.closed = InUse(c) \/ @, !.toServer = <<>>,
                                   !.toClient = IF c \in reached THEN Append(@, t) ELSE @]
<1>2. conn' = [c \in Conns |-> r(c)]
  BY DEF GoesDown
<1>3. ASSUME NEW c \in Conns
      PROVE  /\ r(c) \in Connections /\ r(c).toServer = <<>> /\ r(c).phase = conn[c].phase
             /\ r(c).id = conn[c].id /\ (r(c).closed <=> c \in Used \/ conn[c].closed)
             /\ r(c).toClient = IF c \in reached THEN Append(conn[c].toClient, t) ELSE conn[c].toClient
  <2>1. conn[c] \in Connections
    BY DEF Dealings, ClientsTypeOK
  <2>2. <<>> \in Seq(Messages) /\ Append(conn[c].toClient, t) \in Seq(TopicSet)
    BY <2>1 DEF Connections
  <2>3. (InUse(c) \/ conn[c].closed) \in BOOLEAN
    BY <2>1 DEF InUse, Connections
  <2>4. r(c) \in Connections
    BY <2>1, <2>2, <2>3 DEF Connections
  <2> QED
    BY <2>1, <2>4 DEF Connections, InUse, Used
<1> HIDE DEF r
<1>4. Used' = {} /\ Served' = {}
  BY <1>1 DEF Used, Served, Range
<1>5. ASSUME NEW c \in Conns PROVE Sound(r(c), c \in Used', c \in Served')
  <2>1. Sound(conn[c], c \in Used, c \in Served)
    BY DEF Dealings, EachSound
  <2> QED
    BY <1>3, <1>4, <2>1 DEF Sound
<1>6. EachSound' /\ conn' \in [Conns -> Connections]
  BY <1>2, <1>3, <1>5 DEF EachSound
<1>7. Dealings'
  BY <1>1, <1>6 DEF Dealings, ClientsTypeOK, Down
<1>8. \A c \in Conns : /\ Asked(c)' = <<>> /\ conn'[c].id = conn[c].id /\ conn'[c].phase = conn[c].phase
                       /\ conn'[c].toClient = IF c \in reached THEN Append(conn[c].toClient, t)
                                              ELSE conn[c].toClient
  BY <1>2, <1>3 DEF Asked
<1>9. B!Stop
  <2> DEFINE present == {c \in Conns : conn[c].phase # "left"}
  <2>1. reached \subseteq Conns
    <3>1. B!Interested(t) \subseteq Conns
      BY InterestedAre, ServedAreOpen
    <3> QED
      BY <3>1
  <2>2. reached \in SUBSET (B!Interested(t) \cap present)
    BY <2>1
  <2> HIDE DEF present
  <2> QED
    BY <1>1, <1>8, <2>2 DEF B!Stop, B!Empty, present
<1> QED
  BY <1>7, <1>9

\* check_topics takes the topics and patterns there are for what they mean.
ChecksMatch == \A t \in TopicSet, p \in Patterns : check_topics(t, p) <=> Matches(t, p)

LEMMA SubscribersAre ==
    ASSUME IInv, Dealings, ChecksMatch, server # "down", NEW t \in TopicSet
    PROVE  {sock[fd] : fd \in Subscribers(t)} = B!Interested(t)
<1>1. ASSUME NEW i \in DOMAIN online
      PROVE  (\E k \in DOMAIN clients[i] : check_topics(t, clients[i][k]))
                 <=> (\E p \in Range(clients[i]) : Matches(t, p))
  <2>1. clients[i] \in Seq(Patterns)
    BY DEF IInv, UpInv, Agree, Dealings, ClientsTypeOK
  <2>2. \A k \in DOMAIN clients[i] : clients[i][k] \in Patterns
    BY <2>1
  <2> QED
    BY <2>2 DEF ChecksMatch, Range
<1>2. Subscribers(t) = {online[id] : id \in {i \in DOMAIN online : \E p \in Range(clients[i]) : Matches(t, p)}}
  BY <1>1 DEF Subscribers
<1>3. B!Interested(t) =
          {sock[online[id]] : id \in {i \in DOMAIN online : \E p \in Range(clients[i]) : Matches(t, p)}}
  BY InterestedAre
<1> QED
  BY <1>2, <1>3

\* Everyone who is connected and subscribed has the message, or may.
LEMMA MessageDealings ==
    ASSUME IInv, Dealings, ChecksMatch, ReceiveMessage
    PROVE  Dealings' /\ \E t \in TopicSet : B!Publish(t)
<1>0. PICK t : t = datagram
  OBVIOUS
<1> DEFINE to == {sock[fd] : fd \in Subscribers(t)}
           r(c) == IF c \in to /\ HasRoom(c) THEN [conn[c] EXCEPT !.toClient = Append(@, t)] ELSE conn[c]
<1>1. /\ server # "down" /\ socket_udp \in ready
      /\ \A c \in to : HasRoom(c) \/ conn[c].phase = "left"
      /\ conn' = [c \in Conns |-> r(c)]
      /\ datagram' = None /\ ready' = ready \ {socket_udp}
      /\ UNCHANGED <<server, clients, online, sock, backlog>>
  BY <1>0 DEF ReceiveMessage, Turn, Rest
<1>2. t \in TopicSet
  BY <1>0, <1>1 DEF Dealings, Reported, ClientsTypeOK
<1>3. to = B!Interested(t)
  BY <1>1, <1>2, SubscribersAre
<1> HIDE DEF to
<1>4. ASSUME NEW c \in Conns
      PROVE  /\ r(c) \in Connections /\ r(c).toServer = conn[c].toServer /\ r(c).phase = conn[c].phase
             /\ r(c).id = conn[c].id /\ r(c).closed = conn[c].closed
             /\ r(c).toClient = IF c \in to /\ conn[c].phase # "left"
                                THEN Append(conn[c].toClient, t) ELSE conn[c].toClient
             /\ conn[c].phase = "left" => r(c) = conn[c]
  <2>1. conn[c] \in Connections
    BY DEF Dealings, ClientsTypeOK
  <2>2. Append(conn[c].toClient, t) \in Seq(TopicSet)
    BY <1>2, <2>1 DEF Connections
  <2>3. r(c) \in Connections
    BY <2>1, <2>2 DEF Connections
  <2>4. c \in to => (HasRoom(c) <=> conn[c].phase # "left")
    BY <1>1 DEF HasRoom
  <2>5. conn[c].phase = "left" => r(c) = conn[c]
    BY DEF HasRoom
  <2> QED
    BY <2>1, <2>3, <2>4, <2>5 DEF Connections
<1> HIDE DEF r
<1>5. Used' = Used /\ Served' = Served
  BY <1>1 DEF Used, Served
<1>6. ASSUME NEW c \in Conns PROVE Sound(r(c), c \in Used', c \in Served')
  <2>1. Sound(conn[c], c \in Used, c \in Served)
    BY DEF Dealings, EachSound
  <2> QED
    BY <1>4, <1>5, <2>1 DEF Sound
<1>7. EachSound' /\ conn' \in [Conns -> Connections]
  BY <1>1, <1>4, <1>6 DEF EachSound
<1>8. Reported'
  <2>1. ASSUME NEW fd \in ready' \cap DOMAIN sock PROVE HasInput(sock[fd])'
    <3>1. HasInput(sock[fd]) /\ sock[fd] \in Conns
      BY <1>1, ServedAreOpen DEF Dealings, Reported
    <3>2. conn'[sock[fd]] = r(sock[fd])
      BY <1>1, <3>1
    <3> QED
      BY <1>1, <1>4, <3>1, <3>2 DEF HasInput
  <2> QED
    BY <1>1, <2>1 DEF Reported
<1>9. Dealings'
  BY <1>1, <1>7, <1>8 DEF Dealings, ClientsTypeOK
<1>10. \A c \in Conns : /\ Asked(c)' = Asked(c) /\ conn'[c].id = conn[c].id /\ conn'[c].phase = conn[c].phase
                        /\ conn'[c].toClient = IF c \in to /\ conn[c].phase # "left"
                                               THEN Append(conn[c].toClient, t) ELSE conn[c].toClient
  BY <1>1, <1>4 DEF Asked
<1>11. B!Publish(t)
  <2> DEFINE I == B!Interested(t)
  <2>1. \A c \in Conns : c \in I \cap {d \in Conns : conn[d].phase # "left"} <=> c \in to /\ conn[c].phase # "left"
    BY <1>3
  <2>2. [c \in Conns |-> conn'[c].toClient] =
            [c \in Conns |-> IF c \in I \cap {d \in Conns : conn[d].phase # "left"}
                             THEN Append([d \in Conns |-> conn[d].toClient][c], t)
                             ELSE [d \in Conns |-> conn[d].toClient][c]]
    <3> HIDE DEF I
    <3> QED BY <1>10, <2>1
  <2> QED
    BY <1>1, <1>10, <2>2 DEF B!Publish
<1> QED
  BY <1>2, <1>9, <1>11

LEMMA KilledDealings ==
    ASSUME IInv, Dealings, ChecksMatch, KilledByReset PROVE Dealings' /\ B!Stop
<1> DEFINE to == {sock[fd] : fd \in Subscribers(datagram)}
<1>1. server # "down" /\ socket_udp \in ready
  BY DEF KilledByReset, Turn
<1>2. datagram \in TopicSet
  BY <1>1 DEF Dealings, Reported, ClientsTypeOK
<1>3. PICK reached \in SUBSET {c \in to : HasRoom(c)} : GoesDown(reached, datagram)
  BY DEF KilledByReset
<1>4. to = B!Interested(datagram)
  BY <1>1, <1>2, SubscribersAre
<1>5. reached \subseteq B!Interested(datagram) /\ \A c \in reached : conn[c].phase # "left"
  BY <1>4 DEF HasRoom
<1> HIDE DEF to
<1> QED
  BY <1>1, <1>2, <1>3, <1>5, DownDealings

LEMMA ExitDealings ==
    ASSUME IInv, Dealings, TopicSet # {}, Exit PROVE Dealings' /\ B!Stop
<1>1. PICK t \in TopicSet : TRUE
  OBVIOUS
<1>2. server # "down" /\ GoesDown({}, None)
  BY DEF Exit
<1> DEFINE reached == {}
<1>3. /\ reached = {} /\ \A c \in reached : conn[c].phase # "left"
      /\ reached \subseteq B!Interested(t)
  OBVIOUS
<1> HIDE DEF reached
<1> QED
  BY <1>1, <1>2, <1>3, DownDealings

\* The connection of the newcomer, whose id the server waits for.
LEMMA NewcomerIs ==
    ASSUME IInv, Dealings, NEW c \in Conns, NEW id \in Ids, Received(c, id)
    PROVE  /\ server # "down" /\ UpInv /\ newcomer # None /\ newcomer \in DOMAIN sock
           /\ newcomer \notin ready /\ c = sock[newcomer] /\ c \in Used /\ c \notin Served
           /\ conn[c].toServer # <<>> => /\ Head(conn[c].toServer) = <<"ID", conn[c].id>>
                                         /\ Tail(conn[c].toServer) \in Seq(Asks) /\ id = conn[c].id
           /\ conn[c].toServer = <<>> => conn[c].phase = "left"
           /\ Asked(c) = IF conn[c].toServer = <<>> THEN <<>> ELSE Tail(conn[c].toServer)
<1>1. newcomer # None /\ c = sock[newcomer] /\ HasInput(c)
      /\ (conn[c].toServer # <<>> => id = conn[c].toServer[1][2])
  BY DEF Received
<1>2. server # "down" /\ UpInv
  BY <1>1 DEF Dealings, Down, IInv
<1>3. newcomer \in DOMAIN sock /\ newcomer \notin Range(online) /\ newcomer \in Nat /\ newcomer >= FirstFree
  BY <1>1, <1>2 DEF UpInv, Agree, TablesTypeOK
<1>4. newcomer \notin ready
  <2>1. newcomer \notin Standing
    BY <1>3 DEF Standing, STDIN_FILENO, socket_udp, socket_tcp, FirstFree
  <2> QED
    BY <1>2, <1>3, <2>1 DEF UpInv, Agree
<1>5. c \in Used
  BY <1>1, <1>3 DEF Used, Range
<1>6. c \notin Served
  <2>1. ASSUME NEW i \in DOMAIN online PROVE sock[online[i]] # c
    <3>1. online[i] \in DOMAIN sock /\ online[i] # newcomer
      BY <1>2, <1>3, ServedAreOpen DEF Range
    <3> QED
      BY <1>1, <1>2, <1>3, <3>1 DEF UpInv, Agree, IsInjective
  <2> QED
    BY <1>2, <2>1 DEF Served
<1> DEFINE s == conn[c].toServer
<1>7. s \in Seq(Messages)
  BY DEF Dealings, ClientsTypeOK, Connections
<1>8. s # <<>> => Head(s) = <<"ID", conn[c].id>> /\ Tail(s) \in Seq(Asks)
  BY <1>6 DEF Dealings, EachSound, Sound
<1>9. s # <<>> => id = conn[c].id
  <2>1. s # <<>> => s[1] = Head(s)
    BY <1>7
  <2> HIDE DEF s
  <2>2. <<"ID", conn[c].id>>[2] = conn[c].id
    OBVIOUS
  <2> QED
    BY <1>1, <1>8, <2>1, <2>2 DEF s
<1>10. s = <<>> => conn[c].phase = "left"
  BY <1>1 DEF HasInput
<1>11. Asked(c) = IF s = <<>> THEN <<>> ELSE Tail(s)
  <2>1. Asked(c) = AskedOf(s)
    BY DEF Asked, AskedOf
  <2> HIDE DEF s
  <2> QED
    BY <1>8, <2>1 DEF AskedOf
<1> QED
  BY <1>1, <1>2, <1>3, <1>4, <1>5, <1>6, <1>8, <1>9, <1>10, <1>11

\* The head of what a client has sent is taken.
LEMMA Consumed ==
    ASSUME Dealings, NEW c \in Conns
    PROVE  LET r == Consume(c)
               s == conn[c].toServer
           IN  /\ r \in Connections /\ r.id = conn[c].id /\ r.phase = conn[c].phase
               /\ r.closed = conn[c].closed /\ r.toClient = conn[c].toClient
               /\ r.toServer = IF s = <<>> THEN <<>> ELSE Tail(s)
<1> DEFINE s == conn[c].toServer
           r == [conn[c] EXCEPT !.toServer = Tail(@)]
<1>1. conn[c] \in Connections /\ s \in Seq(Messages)
  BY DEF Dealings, ClientsTypeOK, Connections
<1>2. CASE s = <<>>
  BY <1>1, <1>2 DEF Consume
<1>3. CASE s # <<>>
  <2>1. Tail(s) \in Seq(Messages)
    BY <1>1, <1>3
  <2>2. r \in Connections
    BY <1>1, <2>1 DEF Connections
  <2>3. /\ r.id = conn[c].id /\ r.phase = conn[c].phase /\ r.closed = conn[c].closed
        /\ r.toClient = conn[c].toClient /\ r.toServer = Tail(s)
    BY <1>1 DEF Connections
  <2> HIDE DEF r
  <2>4. Consume(c) = r
    BY <1>3 DEF Consume, r
  <2> QED
    BY <1>3, <2>2, <2>3, <2>4
<1> QED
  BY <1>2, <1>3

\* The newcomer is registered, or refused: its id is online already.
LEMMA RegisterDealings ==
    ASSUME IInv, Dealings, NEW c \in Conns, NEW id \in Ids, Register(c, id)
    PROVE  Dealings' /\ B!Join(c, id)
<1> DEFINE r == Consume(c)
           s == conn[c].toServer
<1>1. /\ Received(c, id) /\ id \notin DOMAIN online
      /\ clients' = Registered(id) /\ online' = Insert(online, id, newcomer)
      /\ conn' = [conn EXCEPT ![c] = r]
      /\ UNCHANGED <<server, ready, sock, backlog, datagram>>
  BY DEF Register
<1>2. /\ server # "down" /\ UpInv /\ newcomer # None /\ newcomer \in DOMAIN sock
      /\ newcomer \notin ready /\ c = sock[newcomer] /\ c \in Used /\ c \notin Served
      /\ s # <<>> => /\ Head(s) = <<"ID", conn[c].id>>
                     /\ Tail(s) \in Seq(Asks) /\ id = conn[c].id
      /\ s = <<>> => conn[c].phase = "left"
      /\ Asked(c) = IF s = <<>> THEN <<>> ELSE Tail(s)
  BY <1>1, NewcomerIs
<1>3. /\ r \in Connections /\ r.id = conn[c].id /\ r.phase = conn[c].phase
      /\ r.closed = conn[c].closed /\ r.toClient = conn[c].toClient
      /\ r.toServer = IF s = <<>> THEN <<>> ELSE Tail(s)
  BY Consumed
<1>4. Sound(conn[c], c \in Used, c \in Served)
  BY DEF Dealings, EachSound
<1> HIDE DEF r, s
<1>5. /\ DOMAIN online' = DOMAIN online \cup {id} /\ online'[id] = newcomer
      /\ \A i \in DOMAIN online : online'[i] = online[i]
  BY <1>1 DEF Insert
<1>6. Used' = Used /\ Served' = Served \cup {c}
  BY <1>1, <1>2, <1>5 DEF Used, Served
<1>7. r.toServer \in Seq(Asks)
  BY <1>2, <1>3
<1>8. Sound(r, c \in Used', c \in Served')
  <2>1. r.phase # "connected"
    BY <1>2, <1>3, <1>4 DEF Sound, s
  <2> QED
    BY <1>2, <1>3, <1>4, <1>6, <1>7, <2>1 DEF Sound
<1>9. EachSound' /\ conn' \in [Conns -> Connections]
  BY <1>1, <1>3, <1>6, <1>8, OneChanges DEF Dealings
<1>10. /\ conn'[c] = r /\ \A d \in Conns \ {c} : conn'[d] = conn[d]
       /\ conn \in [Conns -> Connections]
  BY <1>1 DEF Dealings, ClientsTypeOK
<1>11. /\ clients' \in [DOMAIN clients' -> Seq(Patterns)] /\ DOMAIN clients' = DOMAIN clients \cup {id}
       /\ \A i \in DOMAIN clients : clients'[i] = clients[i]
       /\ id \notin DOMAIN clients => clients'[id] = <<>>
  <2>1. <<>> \in Seq(Patterns) /\ clients \in [DOMAIN clients -> Seq(Patterns)]
    BY DEF Dealings, ClientsTypeOK
  <2> QED
    BY <1>1, <2>1 DEF Registered, Insert
<1>12. Reported'
  <2>1. ASSUME NEW fd \in ready \cap DOMAIN sock PROVE HasInput(sock[fd])'
    <3>1. sock[fd] \in Conns /\ sock[fd] # c /\ HasInput(sock[fd])
      BY <1>2, ServedAreOpen DEF Dealings, Reported, UpInv, Agree, IsInjective
    <3> QED
      BY <1>1, <1>10, <3>1 DEF HasInput
  <2> QED
    BY <1>1, <1>2, <2>1 DEF Dealings, Reported
<1>13. Dealings'
  BY <1>1, <1>2, <1>9, <1>11, <1>12 DEF Dealings, ClientsTypeOK
<1>14. \A d \in Conns : /\ Asked(d)' = Asked(d) /\ conn'[d].id = conn[d].id /\ conn'[d].phase = conn[d].phase
                        /\ conn'[d].toClient = conn[d].toClient
  <2>1. Asked(c)' = Asked(c)
    <3>1. Asked(c)' = AskedOf(r.toServer)
      BY <1>10 DEF Asked, AskedOf
    <3>2. AskedOf(r.toServer) = r.toServer
      <4>1. r.toServer \in Seq(Messages)
        BY <1>3 DEF Connections
      <4> QED
        BY <1>7, <4>1, AskedFacts
    <3> QED
      BY <1>2, <1>3, <3>1, <3>2
  <2> QED
    BY <1>3, <1>10, <2>1 DEF Asked
<1>15. \A i \in Ids : (IF i \in DOMAIN clients' THEN Range(clients'[i]) ELSE {})
                          = IF i \in DOMAIN clients THEN Range(clients[i]) ELSE {}
  <2>1. Range(<<>>) = {}
    BY DEF Range
  <2> QED
    BY <1>11, <2>1
<1>16. B!Join(c, id)
  <2>1. ~B!InSession(c)
    BY <1>2, SessionIs
  <2>2. c \in {d \in Conns : conn[d].phase # "left"} \/ Asked(c) # <<>> => id = conn[c].id
    BY <1>2
  <2>3. [i \in DOMAIN online' |-> sock'[online'[i]]] =
            [i \in DOMAIN online \cup {id} |-> IF i = id THEN c ELSE sock[online[i]]]
    BY <1>1, <1>2, <1>5
  <2> QED
    BY <1>1, <1>2, <1>14, <1>15, <2>1, <2>2, <2>3 DEF B!Join
<1> QED
  BY <1>13, <1>16

\* A connection that the server closes.
LEMMA CloseIs ==
    ASSUME IInv, Dealings, server # "down", NEW fd \in DOMAIN sock, Close(fd),
           UNCHANGED <<backlog>>
    PROVE  LET c == sock[fd]
               r == [conn[c] EXCEPT !.closed = TRUE, !.toServer = <<>>]
           IN  /\ c \in Conns /\ conn' = [conn EXCEPT ![c] = r]
               /\ r \in Connections /\ r.id = conn[c].id /\ r.phase = conn[c].phase
               /\ r.closed = TRUE /\ r.toServer = <<>> /\ r.toClient = conn[c].toClient
               /\ Used' = Used \ {c}
               /\ DOMAIN sock' = DOMAIN sock \ {fd} /\ \A z \in DOMAIN sock' : sock'[z] = sock[z] /\ sock[z] # c
<1> DEFINE c == sock[fd]
           r == [conn[c] EXCEPT !.closed = TRUE, !.toServer = <<>>]
<1>1. UpInv
  BY DEF IInv
<1>2. c \in Conns /\ conn[c] \in Connections
  BY ServedAreOpen DEF Dealings, ClientsTypeOK
<1>3. r \in Connections
  <2>1. <<>> \in Seq(Messages)
    OBVIOUS
  <2> QED
    BY <1>2, <2>1 DEF Connections
<1>4. /\ r.id = conn[c].id /\ r.phase = conn[c].phase /\ r.closed = TRUE /\ r.toServer = <<>>
      /\ r.toClient = conn[c].toClient
  BY <1>2 DEF Connections
<1>5. conn' = [conn EXCEPT ![c] = r]
  BY <1>2 DEF Close, Dealings, ClientsTypeOK
<1>6. sock' = [z \in DOMAIN sock \ {fd} |-> sock[z]]
  BY DEF Close, Restrict
<1>7. DOMAIN sock' = DOMAIN sock \ {fd} /\ \A z \in DOMAIN sock' : sock'[z] = sock[z] /\ sock[z] # c
  BY <1>1, <1>6 DEF UpInv, Agree, IsInjective
<1>8. Range(sock') = Range(sock) \ {c}
  BY <1>6, <1>7 DEF Range
<1>9. c \notin Range(backlog)
  BY <1>1 DEF UpInv, Agree, Range
<1>10. Used' = Used \ {c}
  BY <1>8, <1>9 DEF Used
<1> QED
  BY <1>2, <1>3, <1>4, <1>5, <1>7, <1>10

LEMMA RefuseDealings ==
    ASSUME IInv, Dealings, NEW c \in Conns, NEW id \in Ids, AlreadyConnected(c, id)
    PROVE  Dealings' /\ B!Refuse(c, id)
<1> DEFINE r == [conn[c] EXCEPT !.closed = TRUE, !.toServer = <<>>]
           s == conn[c].toServer
<1>1. /\ Received(c, id) /\ id \in DOMAIN online /\ Close(newcomer)
      /\ UNCHANGED <<server, ready, clients, online, backlog, datagram>>
  BY DEF AlreadyConnected
<1>2. /\ server # "down" /\ newcomer \in DOMAIN sock
      /\ newcomer \notin ready /\ c = sock[newcomer] /\ c \in Used /\ c \notin Served
      /\ s # <<>> => id = conn[c].id
      /\ s = <<>> => conn[c].phase = "left"
      /\ Asked(c) = IF s = <<>> THEN <<>> ELSE Tail(s)
  BY <1>1, NewcomerIs
<1>3. /\ conn' = [conn EXCEPT ![c] = r]
      /\ r \in Connections /\ r.id = conn[c].id /\ r.phase = conn[c].phase
      /\ r.closed = TRUE /\ r.toServer = <<>> /\ r.toClient = conn[c].toClient
      /\ Used' = Used \ {c}
      /\ DOMAIN sock' = DOMAIN sock \ {newcomer}
      /\ \A z \in DOMAIN sock' : sock'[z] = sock[z] /\ sock[z] # c
  BY <1>1, <1>2, CloseIs
<1>4. Sound(conn[c], c \in Used, c \in Served)
  BY DEF Dealings, EachSound
<1> HIDE DEF r, s
<1>5. \A i \in DOMAIN online : sock'[online[i]] = sock[online[i]] /\ sock[online[i]] # c
  <2>1. ASSUME NEW i \in DOMAIN online PROVE online[i] \in DOMAIN sock'
    <3>1. online[i] \in DOMAIN sock
      BY <1>2, ServedAreOpen
    <3>2. online[i] # newcomer
      BY <1>2 DEF Served
    <3> QED
      BY <1>3, <3>1, <3>2
  <2> QED
    BY <1>3, <2>1
<1>6. Served' = Served
  BY <1>1, <1>2, <1>5 DEF Served
<1>7. Sound(r, c \in Used', c \in Served')
  BY <1>2, <1>3, <1>4, <1>6 DEF Sound
<1>8. EachSound' /\ conn' \in [Conns -> Connections]
  BY <1>3, <1>6, <1>7, OneChanges DEF Dealings
<1>9. /\ conn'[c] = r /\ \A d \in Conns \ {c} : conn'[d] = conn[d]
      /\ conn \in [Conns -> Connections]
  BY <1>3 DEF Dealings, ClientsTypeOK
<1>10. Reported'
  <2>1. ASSUME NEW fd \in ready \cap DOMAIN sock' PROVE HasInput(sock[fd]) /\ sock[fd] \in Conns
    BY <1>2, <1>3, ServedAreOpen DEF Dealings, Reported
  <2> QED
    BY <1>1, <1>2, <1>3, <1>9, <2>1 DEF Dealings, Reported, HasInput
<1>11. Dealings'
  BY <1>1, <1>2, <1>8, <1>10 DEF Dealings, ClientsTypeOK
<1>12. \A d \in Conns : /\ Asked(d)' = IF d = c THEN <<>> ELSE Asked(d)
                        /\ conn'[d].id = conn[d].id /\ conn'[d].phase = conn[d].phase
                        /\ conn'[d].toClient = conn[d].toClient
  BY <1>3, <1>9 DEF Asked
<1>13. B!Refuse(c, id)
  <2> DEFINE requests == [d \in Conns |-> Asked(d)]
             session == [i \in DOMAIN online |-> sock[online[i]]]
             shape == <<server # "down", [d \in Conns |-> conn[d].id],
                        {d \in Conns : conn[d].phase # "left"},
                        IF server = "down" THEN <<>> ELSE session,
                        [i \in Ids |-> IF i \in DOMAIN clients THEN Range(clients[i]) ELSE {}],
                        [d \in Conns |-> conn[d].toClient]>>
  <2>1. ~B!InSession(c)
    BY <1>2, SessionIs
  <2>2. c \in {d \in Conns : conn[d].phase # "left"} \/ requests[c] # <<>>
            => id = [d \in Conns |-> conn[d].id][c]
    BY <1>2
  <2>3. session' = session
    BY <1>1, <1>5
  <2>4. id \in DOMAIN (IF server = "down" THEN <<>> ELSE session)
    BY <1>1, <1>2
  <2>5. requests' = [requests EXCEPT ![c] = <<>>]
    BY <1>12
  <2>6. shape' = shape
    <3> HIDE DEF session
    <3> QED BY <1>1, <1>12, <2>3
  <2> HIDE DEF requests
  <2>7. B!Refuse(c, id) <=>
            /\ c \in {d \in Conns : conn[d].phase # "left"} \/ requests[c] # <<>>
                   => id = [d \in Conns |-> conn[d].id][c]
            /\ id \in DOMAIN (IF server = "down" THEN <<>> ELSE session) /\ ~B!InSession(c)
            /\ requests' = [requests EXCEPT ![c] = <<>>]
            /\ shape' = shape
    BY DEF B!Refuse, requests
  <2> HIDE DEF shape, session
  <2> QED
    BY <2>1, <2>2, <2>4, <2>5, <2>6, <2>7
<1> QED
  BY <1>11, <1>13

\* A request of the first client of online is done.
LEMMA RequestDealings ==
    ASSUME IInv, Dealings, NEW fd \in DOMAIN sock, NEW first \in DOMAIN online, Request(fd, first)
    PROVE  Dealings' /\ B!Apply(first) /\ server # "down"
<1> DEFINE c == sock[fd]
           s == conn[c].toServer
           m == s[1]
           r == Consume(c)
<1>1. /\ server # "down" /\ s # <<>> /\ online[first] = fd
      /\ clients' = [clients EXCEPT ![first] = decode_client_request(@, m)]
      /\ conn' = [conn EXCEPT ![c] = r] /\ ready' = ready \ {fd}
      /\ UNCHANGED <<server, online, sock, backlog, datagram>>
  BY DEF Request, Turn, Rest
<1>2. c \in Conns /\ c \in Served /\ UpInv
  BY <1>1, ServedAreOpen DEF Served, IInv
<1>3. /\ r \in Connections /\ r.id = conn[c].id /\ r.phase = conn[c].phase
      /\ r.closed = conn[c].closed /\ r.toClient = conn[c].toClient
      /\ r.toServer = Tail(s)
  BY <1>1, <1>2, Consumed
<1>4. Sound(conn[c], c \in Used, c \in Served) /\ s \in Seq(Messages)
  BY <1>2 DEF Dealings, EachSound, ClientsTypeOK, Connections
<1>5. s \in Seq(Asks)
  BY <1>2, <1>4 DEF Sound
<1>6. m = Head(s) /\ m \in Asks /\ Tail(s) \in Seq(Asks)
  <2> HIDE DEF s
  <2> QED BY <1>1, <1>5
<1> HIDE DEF r, s, m, c
<1>7. Used' = Used /\ Served' = Served
  BY <1>1 DEF Used, Served
<1>8. Sound(r, c \in Used', c \in Served')
  BY <1>2, <1>3, <1>4, <1>6, <1>7, ServedAreOpen DEF Sound
<1>9. EachSound' /\ conn' \in [Conns -> Connections]
  BY <1>1, <1>2, <1>3, <1>7, <1>8, OneChanges DEF Dealings
<1>10. /\ conn'[c] = r /\ \A d \in Conns \ {c} : conn'[d] = conn[d]
       /\ conn \in [Conns -> Connections]
  BY <1>1, <1>2 DEF Dealings, ClientsTypeOK
<1>11. first \in DOMAIN clients /\ first \in Ids /\ clients[first] \in Seq(Patterns)
  BY <1>2 DEF UpInv, Agree, Dealings, ClientsTypeOK
<1> DEFINE topics == decode_client_request(clients[first], m)
<1>12. /\ topics \in Seq(Patterns)
       /\ Range(topics) = IF m[1] = "SUB" THEN Range(clients[first]) \cup {m[2]}
                          ELSE Range(clients[first]) \ {m[2]}
  BY <1>6, <1>11, Decoded
<1> HIDE DEF topics
<1>13. /\ clients' \in [DOMAIN clients' -> Seq(Patterns)] /\ DOMAIN clients' = DOMAIN clients
       /\ clients'[first] = topics /\ \A i \in DOMAIN clients \ {first} : clients'[i] = clients[i]
  BY <1>1, <1>11, <1>12 DEF Dealings, ClientsTypeOK, topics
<1>14. Reported'
  <2>1. ASSUME NEW f \in ready' \cap DOMAIN sock PROVE HasInput(sock[f])'
    <3>1. sock[f] \in Conns /\ sock[f] # c /\ HasInput(sock[f])
      BY <1>1, <1>2, ServedAreOpen DEF Dealings, Reported, UpInv, Agree, IsInjective, c
    <3> QED
      BY <1>1, <1>10, <3>1 DEF HasInput
  <2> QED
    BY <1>1, <2>1 DEF Dealings, Reported
<1>15. Dealings'
  BY <1>1, <1>9, <1>13, <1>14 DEF Dealings, ClientsTypeOK
<1>16. ASSUME NEW d \in Conns, d = c PROVE Asked(d) = s /\ Asked(d)' = Tail(s)
  <2>1. Asked(d) = AskedOf(s)
    BY <1>16 DEF Asked, AskedOf, s
  <2>2. conn'[d] = r
    BY <1>10, <1>16
  <2>3. Asked(d)' = AskedOf(Tail(s))
    BY <1>3, <2>2 DEF Asked, AskedOf
  <2>4. Tail(s) \in Seq(Messages)
    BY <1>1, <1>4
  <2> QED
    BY <1>4, <1>5, <1>6, <2>1, <2>3, <2>4, AskedFacts
<1>17. ASSUME NEW d \in Conns
       PROVE  /\ Asked(d)' = IF d = c THEN Tail(Asked(d)) ELSE Asked(d)
              /\ conn'[d].id = conn[d].id /\ conn'[d].phase = conn[d].phase
              /\ conn'[d].toClient = conn[d].toClient
  <2>1. CASE d = c
    BY <1>3, <1>10, <1>16, <2>1
  <2>2. CASE d # c
    BY <1>10, <2>2 DEF Asked
  <2> QED
    BY <2>1, <2>2
<1>18. \A i \in Ids : (IF i \in DOMAIN clients' THEN Range(clients'[i]) ELSE {}) =
          IF i = first
          THEN IF m[1] = "SUB" THEN (IF first \in DOMAIN clients THEN Range(clients[first]) ELSE {}) \cup {m[2]}
               ELSE (IF first \in DOMAIN clients THEN Range(clients[first]) ELSE {}) \ {m[2]}
          ELSE IF i \in DOMAIN clients THEN Range(clients[i]) ELSE {}
  BY <1>11, <1>12, <1>13
<1>19. B!Apply(first)
  <2>1. (IF server = "down" THEN <<>> ELSE [i \in DOMAIN online |-> sock[online[i]]])[first] = c
    BY <1>1 DEF c
  <2>2. s # <<>> /\ Head(s) = m /\ [d \in Conns |-> Asked(d)][c] = s
    BY <1>1, <1>2, <1>6, <1>16 DEF s, c
  <2>3. [d \in Conns |-> Asked(d)'] = [[d \in Conns |-> Asked(d)] EXCEPT ![c] = Tail(@)]
    BY <1>2, <1>17
  <2> DEFINE subscribed == [i \in Ids |-> IF i \in DOMAIN clients THEN Range(clients[i]) ELSE {}]
  <2>4. subscribed' = [subscribed EXCEPT
                           ![first] = IF m[1] = "SUB" THEN @ \cup {m[2]} ELSE @ \ {m[2]}]
    BY <1>11, <1>18
  <2>5. UNCHANGED <<server # "down", [d \in Conns |-> conn[d].id],
                    {d \in Conns : conn[d].phase # "left"},
                    IF server = "down" THEN <<>> ELSE [i \in DOMAIN online |-> sock[online[i]]],
                    [d \in Conns |-> conn[d].toClient]>>
    BY <1>1, <1>17
  <2> QED
    BY <2>1, <2>2, <2>3, <2>4, <2>5 DEF B!Apply
<1> QED
  BY <1>1, <1>15, <1>19

\* A client has left and everything it asked for is done: its session ends.
LEMMA DisconnectDealings ==
    ASSUME IInv, Dealings, NEW fd \in DOMAIN sock, Disconnect(fd)
    PROVE  Dealings' /\ \E id \in DOMAIN online : B!Leave(id) /\ server # "down"
<1> DEFINE c == sock[fd]
           r == [conn[c] EXCEPT !.closed = TRUE, !.toServer = <<>>]
<1>1. /\ server # "down" /\ newcomer = None /\ fd \in ready /\ conn[c].toServer = <<>>
      /\ online' = Offline(fd) /\ Close(fd) /\ ready' = {}
      /\ UNCHANGED <<server, clients, backlog, datagram>>
  BY DEF Disconnect, Turn
<1>2. UpInv
  BY <1>1 DEF IInv
<1>3. PICK id \in DOMAIN online : online[id] = fd
  BY <1>1, <1>2 DEF UpInv, Agree, Range
<1>4. conn[c].phase = "left"
  BY <1>1 DEF Dealings, Reported, HasInput
<1>5. /\ c \in Conns /\ conn' = [conn EXCEPT ![c] = r]
      /\ r \in Connections /\ r.id = conn[c].id /\ r.phase = conn[c].phase
      /\ r.closed = TRUE /\ r.toServer = <<>> /\ r.toClient = conn[c].toClient
      /\ Used' = Used \ {c}
      /\ DOMAIN sock' = DOMAIN sock \ {fd}
      /\ \A z \in DOMAIN sock' : sock'[z] = sock[z] /\ sock[z] # c
  BY <1>1, CloseIs
<1>6. Sound(conn[c], c \in Used, c \in Served) /\ conn \in [Conns -> Connections]
  BY <1>5 DEF Dealings, EachSound, ClientsTypeOK
<1>7. Asked(c) = <<>>
  BY <1>1 DEF Asked
<1> HIDE DEF r, c
<1>8. \A i \in DOMAIN online : online[i] = fd <=> i = id
  BY <1>2, <1>3 DEF UpInv, Agree, IsInjective
<1>9. DOMAIN online' = DOMAIN online \ {id} /\ \A i \in DOMAIN online' : online'[i] = online[i]
  BY <1>1, <1>8 DEF Offline, Restrict
<1>10. \A i \in DOMAIN online' : sock'[online'[i]] = sock[online[i]] /\ sock[online[i]] # c
  <2>1. ASSUME NEW i \in DOMAIN online' PROVE online[i] \in DOMAIN sock'
    BY <1>1, <1>5, <1>8, <1>9, ServedAreOpen
  <2> QED
    BY <1>5, <1>9, <2>1
<1>11. sock[online[id]] = c
  BY <1>3 DEF c
<1>12. Served' = Served \ {c}
  BY <1>1, <1>9, <1>10, <1>11 DEF Served
<1>13. Sound(r, c \in Used', c \in Served')
  BY <1>4, <1>5, <1>6, <1>12 DEF Sound
<1>14. EachSound' /\ conn' \in [Conns -> Connections]
  BY <1>5, <1>12, <1>13, OneChanges DEF Dealings
<1>15. Dealings'
  BY <1>1, <1>14 DEF Dealings, ClientsTypeOK, Reported
<1>16. conn'[c] = r /\ \A d \in Conns \ {c} : conn'[d] = conn[d]
  BY <1>5, <1>6
<1>17. \A d \in Conns : /\ Asked(d)' = Asked(d)
                        /\ conn'[d].id = conn[d].id /\ conn'[d].phase = conn[d].phase
                        /\ conn'[d].toClient = conn[d].toClient
  <2>1. ASSUME NEW d \in Conns, d = c PROVE Asked(d)' = Asked(d)
    <3>1. conn'[d] = r /\ Asked(d) = <<>>
      BY <1>7, <1>16, <2>1
    <3> QED
      BY <1>5, <3>1 DEF Asked
  <2>2. ASSUME NEW d \in Conns, d # c PROVE Asked(d)' = Asked(d)
    BY <1>16, <2>2 DEF Asked
  <2> QED
    BY <1>5, <1>16, <2>1, <2>2
<1>18. B!Leave(id)
  <2> DEFINE session == IF server = "down" THEN <<>> ELSE [i \in DOMAIN online |-> sock[online[i]]]
             present == {d \in Conns : conn[d].phase # "left"}
             requests == [d \in Conns |-> Asked(d)]
  <2>1. session[id] = c /\ c \notin present /\ requests[c] = <<>>
    BY <1>1, <1>4, <1>5, <1>7, <1>11
  <2>2. session' = Restrict(session, DOMAIN session \ {id})
    BY <1>1, <1>9, <1>10 DEF Restrict
  <2>3. UNCHANGED <<server # "down", [d \in Conns |-> conn[d].id], present, requests,
                    [i \in Ids |-> IF i \in DOMAIN clients THEN Range(clients[i]) ELSE {}],
                    [d \in Conns |-> conn[d].toClient]>>
    BY <1>1, <1>17
  <2> HIDE DEF session, present, requests
  <2>4. B!Leave(id) <=>
            /\ session[id] \notin present /\ requests[session[id]] = <<>>
            /\ session' = Restrict(session, DOMAIN session \ {id})
            /\ UNCHANGED <<server # "down", [d \in Conns |-> conn[d].id], present, requests,
                    [i \in Ids |-> IF i \in DOMAIN clients THEN Range(clients[i]) ELSE {}],
                    [d \in Conns |-> conn[d].toClient]>>
    BY DEF B!Leave, B!Restrict, Restrict, session, present, requests
  <2> QED
    BY <2>1, <2>2, <2>3, <2>4
<1> QED
  BY <1>1, <1>15, <1>18

LEMMA InitMaps == Init => B!Init
<1> SUFFICES ASSUME Init PROVE B!Init
  OBVIOUS
<1>1. PICK id \in Ids : conn = [c \in Conns |-> Free(id)]
  BY DEF Init
<1>2. server = "running" /\ clients = <<>> /\ online = <<>>
  BY DEF Init
<1> QED
  BY <1>1, <1>2 DEF B!Init, B!Empty, Free, Asked

LEMMA NextDealings ==
    ASSUME IInv, Dealings, ChecksMatch, TopicSet # {}, [Next]_vars
    PROVE  Dealings' /\ [B!Next]_(B!vars)
<1>1. ASSUME NEW c \in Conns, NEW id \in Ids, ClientConnects(c, id) PROVE Dealings' /\ B!Next
  BY <1>1, ConnectDealings DEF B!Next
<1>2. ASSUME NEW c \in Conns, ClientSendsId(c) PROVE Dealings' /\ UNCHANGED B!vars
  BY <1>2, IdDealings
<1>3. ASSUME NEW c \in Conns, ClientReads(c) PROVE Dealings' /\ B!Next
  BY <1>3, ReadDealings DEF B!Next
<1>4. ASSUME NEW c \in Conns, ClientLeaves(c) PROVE Dealings' /\ B!Next
  BY <1>4, LeaveDealings DEF B!Next
<1>5. ASSUME NEW c \in Conns, NEW type \in {"SUB", "UNSUB"}, NEW p \in Patterns, ClientAsks(c, type, p)
      PROVE  Dealings' /\ B!Next
  <2>1. <<type, p>> \in B!Requests
    BY DEF B!Requests
  <2> QED
    BY <1>5, <2>1, AskDealings DEF B!Next
<1>6. ASSUME NEW t \in TopicSet, DatagramArrives(t) PROVE Dealings' /\ UNCHANGED B!vars
  BY <1>6, DatagramDealings
<1>7. ASSUME Poll \/ ReceiveInvalidMessage \/ Accept PROVE Dealings' /\ UNCHANGED B!vars
  BY <1>7, PollDealings, InvalidDealings, AcceptDealings
<1>8. ASSUME ReceiveMessage PROVE Dealings' /\ B!Next
  BY <1>8, MessageDealings DEF B!Next
<1>9. ASSUME KilledByReset \/ Exit PROVE Dealings' /\ B!Next
  BY <1>9, KilledDealings, ExitDealings DEF B!Next
<1>10. ASSUME NEW c \in Conns, NEW id \in Ids, Register(c, id) \/ AlreadyConnected(c, id)
       PROVE  Dealings' /\ B!Next
  BY <1>10, RegisterDealings, RefuseDealings DEF B!Next
<1>11. server # "down" => DOMAIN (IF server = "down" THEN <<>> ELSE [id \in DOMAIN online |-> sock[online[id]]])
                             = DOMAIN online
  OBVIOUS
<1>12. ASSUME NEW fd \in DOMAIN sock, Disconnect(fd) PROVE Dealings' /\ B!Next
  BY <1>11, <1>12, DisconnectDealings DEF B!Next
<1>13. ASSUME NEW fd \in DOMAIN sock, NEW first \in DOMAIN online, Request(fd, first)
       PROVE  Dealings' /\ B!Next
  BY <1>11, <1>13, RequestDealings DEF B!Next
<1>14. ASSUME NEW fd, NEW first, RequestHangs(fd, first) PROVE Dealings' /\ UNCHANGED B!vars
  BY <1>14, HangDealings
<1>15. ASSUME UNCHANGED vars PROVE Dealings' /\ UNCHANGED B!vars
  <2>1. UNCHANGED <<server, ready, newcomer, clients, online, sock, backlog, conn, datagram>>
    BY <1>15 DEF vars
  <2>2. \A c : Asked(c)' = Asked(c)
    BY <2>1 DEF Asked
  <2> QED
    BY <2>1, <2>2 DEF Dealings, ClientsTypeOK, EachSound, Used, Served, Reported, HasInput, Down, B!vars
<1> QED
  BY <1>1, <1>2, <1>3, <1>4, <1>5, <1>6, <1>7, <1>8, <1>9, <1>10, <1>12, <1>13, <1>14, <1>15
     DEF Next, Clients, Serves

\* The server with its sockets, its poll and its tables does what Broker promises:
\* a session for one connection of an id at a time, requests in the order they were
\* sent, subscriptions that outlive a connection, and a message once to each who is
\* connected and subscribed (server.cpp:178-397).  Patterns with a "*" in front of
\* something else are left out, since check_topics takes those otherwise.
THEOREM ServerIsABroker ==
    ASSUME NEW Levels, TopicSet \in SUBSET Seq(Levels), Patterns \in SUBSET Seq(Levels),
           TopicSet # {}, \A p \in Patterns : StarLast(p)
    PROVE  Spec => ImplementsBroker
<1>1. ChecksMatch
  <2>1. ASSUME NEW t \in TopicSet, NEW p \in Patterns PROVE check_topics(t, p) <=> Matches(t, p)
    <3>1. t \in Seq(Levels) /\ p \in Seq(Levels) /\ Len(t) > 0 /\ Len(p) > 0 /\ StarLast(p)
      BY PubSubAssumption
    <3> QED
      BY <3>1, ChecksRightly
  <2> QED
    BY <2>1 DEF ChecksMatch
<1>2. Init => B!Init /\ IInv /\ Dealings
  BY InitInv, InitDealings, InitMaps
<1>3. IInv /\ Dealings /\ [Next]_vars => IInv' /\ Dealings' /\ [B!Next]_(B!vars)
  BY <1>1, NextInv, NextDealings
<1> QED
  BY <1>2, <1>3, PTL DEF Spec, ImplementsBroker, B!Spec
=============================================================================
