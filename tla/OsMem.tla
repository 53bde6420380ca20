------------------------------- MODULE OsMem --------------------------------
(***************************************************************************)
(* The allocator of SO-memory-allocator (osmem.c): a doubly linked list of *)
(* blocks that covers the heap from heap_start to the program break, and   *)
(* blocks of their own behind mmap.  An operation of the library is an     *)
(* operator from the memory before the call to the memory after it and the *)
(* pointer it returns; an action is one call by the program, which then    *)
(* fills the bytes it has gained.                                          *)
(*                                                                         *)
(* A memory m is a record:                                                 *)
(*   m.start   heap_start                                                  *)
(*   m.brk     the program break, sbrk(0)                                  *)
(*   m.block   the block_meta at each address that holds one               *)
(*   m.data    the byte at each address that holds what the program wrote  *)
(* Sizes and addresses are in bytes; only their order matters, so the      *)
(* constants of osmem.c are parameters.                                    *)
(***************************************************************************)
EXTENDS Integers, FiniteSets, FiniteSetsExt, Functions

CONSTANTS
    ALIGNMENT, METADATA_SIZE, MMAP_THRESHOLD, PAGE_SIZE,
    HeapBase,       \* the break before the first sbrk
    HeapLimits,     \* where sbrk may start to fail
    MapAddresses,   \* where mmap may put a mapping; no more: mmap fails
    Sizes,          \* the sizes the program asks for
    MaxLive,        \* how many blocks the program holds at once
    MovesStale      \* does the program let os_realloc move to a mapping a
                    \* block whose recorded size an earlier call left behind

NULL == 0
FAULT == -1         \* returned by an operation that dereferences a bad pointer

ALIGN(size) == ((size + ALIGNMENT - 1) \div ALIGNMENT) * ALIGNMENT

ASSUME OsMemAssumption ==
    /\ {ALIGNMENT, METADATA_SIZE, MMAP_THRESHOLD, PAGE_SIZE} \subseteq Nat \ {0}
    /\ \A n \in {HeapBase, METADATA_SIZE, MMAP_THRESHOLD} : ALIGN(n) = n
    /\ MMAP_THRESHOLD >= METADATA_SIZE
    /\ {HeapBase} \cup HeapLimits \cup MapAddresses \cup Sizes \subseteq Nat \ {0}
    /\ \A l \in HeapLimits : HeapBase <= l /\ \A a \in MapAddresses : l < a
    /\ \A a, b \in MapAddresses, size \in Sizes : a < b => a + METADATA_SIZE + size <= b

VARIABLES
    mem,        \* the memory, as above
    limit,      \* the break cannot go beyond it
    live,       \* the program's blocks: the size of each pointer it holds
    surprised,  \* a call has returned a block without the contents it should have
    faulted     \* a call has dereferenced a bad pointer

vars == <<mem, limit, live, surprised, faulted>>

-----------------------------------------------------------------------------
(* Memory *)

Block(status, size, prev, next) ==
    [status |-> status, size |-> size, prev |-> prev, next |-> next]

Put(f, S, v) == [x \in DOMAIN f \cup S |-> IF x \in S THEN v ELSE f[x]]

\* Where the block after a begins, or would begin.
EndOf(m, next) == IF next = NULL THEN m.brk ELSE next
Gap(m, a, next) == EndOf(m, next) - a - METADATA_SIZE

get_block_size(m, a) == Gap(m, a, m.block[a].next)

Bytes(a, n) == a .. (a + n - 1)

\* Nothing is known any more of the bytes of what the program wrote here.
Wipe(m, a, n) == [m EXCEPT !.data = Restrict(@, DOMAIN @ \ Bytes(a, n))]

\* Writing a block_meta wipes out what the program had at the same bytes.
PutBlock(m, a, b) == Wipe([m EXCEPT !.block = Put(@, {a}, b)], a, METADATA_SIZE)

DropBlocks(m, as) == [m EXCEPT !.block = Restrict(@, DOMAIN @ \ as)]

SetPrev(m, a, prev) == IF a = NULL THEN m ELSE [m EXCEPT !.block[a].prev = prev]

SetSize(m, a, size) == [m EXCEPT !.block[a].size = size]

\* Block a reaches to the block next now, and is as large as that makes it.
LinkTo(m, a, next) == [m EXCEPT !.block[a] = Block(@.status, Gap(m, a, next), @.prev, next)]

InUse(m, a, size) == [m EXCEPT !.block[a] = Block("ALLOC", size, @.prev, @.next)]

memcpy(m, to, from, n) ==
    LET kept == DOMAIN m.data \ Bytes(to, n)
        copied == {a \in Bytes(to, n) : a - to + from \in DOMAIN m.data}
    IN  [m EXCEPT !.data = [a \in kept \cup copied |->
                               m.data[IF a \in kept THEN a ELSE a - to + from]]]

memset(m, a, byte, n) == [m EXCEPT !.data = Put(@, Bytes(a, n), byte)]

CanGrow(m, n) == m.brk + n <= limit

sbrk(m, n) == [m EXCEPT !.brk = @ + n]

HeapBlocks(m) == {a \in DOMAIN m.block : m.block[a].status # "MAPPED"}

-----------------------------------------------------------------------------
(* Merging and splitting *)

FirstNotFree(m, a) ==
    LET skip[b \in HeapBlocks(m) \cup {NULL}] ==
            IF b # NULL /\ m.block[b].status = "FREE" THEN skip[m.block[b].next] ELSE b
    IN  skip[a]

\* The loop takes the free blocks after a, up to the first that is not.
merge_next_block(m, a) ==
    LET end == FirstNotFree(m, m.block[a].next)
        merged == {b \in HeapBlocks(m) : a < b /\ b < EndOf(m, end)}
    IN  IF end = m.block[a].next THEN m
        ELSE DropBlocks(SetPrev(LinkTo(m, a, end), end, a), merged)

\* The first of the free blocks before a, or a itself.
FirstOfFree(m, a) ==
    LET back[b \in HeapBlocks(m)] ==
            LET p == m.block[b].prev
            IN  IF p # NULL /\ m.block[p].status = "FREE" THEN back[p] ELSE b
    IN  back[a]

\* A bug: the block after the merged ones still points back to the last of them.
merge_prev_block_OneWay(m, a) ==
    LET p == m.block[a].prev
        next == m.block[a].next
    IN  IF p = NULL \/ m.block[p].status # "FREE" THEN m
        ELSE DropBlocks(LinkTo(m, p, next), {a})

merge_prev_block(m, a) ==
    LET first == FirstOfFree(m, a)
        next == m.block[a].next
        merged == {b \in HeapBlocks(m) : first < b /\ b <= a}
    IN  IF first = a THEN m
        ELSE DropBlocks(SetPrev(LinkTo(m, first, next), next, first), merged)

split_block(m, a, size) ==
    LET new == a + ALIGN(size) + METADATA_SIZE
        next == m.block[a].next
        linked == SetPrev(PutBlock(m, new, Block("FREE", 0, a, next)), next, new)
        merged == merge_next_block(linked, new)
    IN  SetSize([merged EXCEPT !.block[a] = Block("ALLOC", size, @.prev, new)],
                new, get_block_size(merged, new))

CanSplit(total, size) == total >= ALIGN(size) + METADATA_SIZE + ALIGN(1)

-----------------------------------------------------------------------------
(* Allocation.  An operation returns the memory, the pointer, and whether    *)
(* the program has what it asked for (os_realloc also returns the pointer    *)
(* when it fails).                                                           *)

Done(m, a) == [m |-> m, ptr |-> a + METADATA_SIZE, granted |-> TRUE]
Failed(m) == [m |-> m, ptr |-> NULL, granted |-> FALSE]
Unchanged(m, ptr) == [m |-> m, ptr |-> ptr, granted |-> FALSE]
Fault(m) == [m |-> m, ptr |-> FAULT, granted |-> FALSE]

\* heap_start is set even if sbrk then fails.
preallocate_heap(m) ==
    LET started == [m EXCEPT !.start = m.brk]
    IN  IF CanGrow(m, MMAP_THRESHOLD)
        THEN PutBlock(sbrk(started, MMAP_THRESHOLD), m.brk,
                      Block("FREE", MMAP_THRESHOLD - METADATA_SIZE, NULL, NULL))
        ELSE started

alloc_via_mmap(m, size) ==
    LET unused == MapAddresses \ DOMAIN m.block
    IN  IF unused = {} THEN Failed(m)
        ELSE Done(PutBlock(m, Min(unused), Block("MAPPED", size, NULL, NULL)), Min(unused))

\* The smallest of the free blocks that are large enough, the first of equals.
BestFits(m, size) ==
    LET fits == {a \in HeapBlocks(m) :
                    m.block[a].status = "FREE" /\ get_block_size(m, a) >= size}
    IN  {a \in fits : \A b \in fits :
            \/ get_block_size(m, a) < get_block_size(m, b)
            \/ get_block_size(m, a) = get_block_size(m, b) /\ a <= b}

get_last_block(m) == CHOOSE a \in HeapBlocks(m) : m.block[a].next = NULL

\* No block fits: the last one grows, if it is free, or a new one follows it.
ExtendHeap(m, size) ==
    LET last == get_last_block(m)
        additional_size == ALIGN(size - m.block[last].size)
        new_block_size == METADATA_SIZE + ALIGN(size)
    IN  IF m.block[last].status = "FREE"
        THEN IF ~CanGrow(m, additional_size) THEN Failed(m)
             ELSE Done(InUse(sbrk(m, additional_size), last, size), last)
        ELSE IF ~CanGrow(m, new_block_size) THEN Failed(m)
             ELSE Done(PutBlock([sbrk(m, new_block_size) EXCEPT !.block[last].next = m.brk],
                                m.brk, Block("ALLOC", size, last, NULL)), m.brk)

get_best_fit(m, size) ==
    IF m.start \notin DOMAIN m.block THEN Fault(m)
    ELSE IF BestFits(m, size) = {} THEN ExtendHeap(m, size)
    ELSE LET best_fit == CHOOSE a \in BestFits(m, size) : TRUE
         IN  Done(IF CanSplit(get_block_size(m, best_fit), size)
                  THEN split_block(m, best_fit, size)
                  ELSE InUse(m, best_fit, size), best_fit)

MustMap(size) == METADATA_SIZE + ALIGN(size) > MMAP_THRESHOLD

\* The part os_malloc, os_calloc and os_realloc share.
OnHeap(m, size) ==
    IF m.start # NULL THEN get_best_fit(m, size)
    ELSE LET p == preallocate_heap(m)
         IN  IF CanGrow(m, MMAP_THRESHOLD) THEN get_best_fit(p, size) ELSE Failed(p)

os_malloc(m, size) ==
    IF MustMap(size)
    THEN alloc_via_mmap(m, size)
    ELSE OnHeap(m, size)

\* size is nmemb * size, which is taken not to overflow.
os_calloc(m, size) ==
    LET r == IF ALIGN(size) + METADATA_SIZE > PAGE_SIZE
             THEN alloc_via_mmap(m, size)
             ELSE OnHeap(m, size)
    IN  IF ~r.granted THEN r
        ELSE [r EXCEPT !.m = memset(@, r.ptr, 0, @.block[r.ptr - METADATA_SIZE].size)]

os_free(m, ptr) ==
    LET a == ptr - METADATA_SIZE
        merged == merge_prev_block(merge_next_block([m EXCEPT !.block[a].status = "FREE"], a), a)
    IN  CASE m.block[a].status = "MAPPED" -> DropBlocks(m, {a})
          [] m.block[a].status = "ALLOC" /\ a \in DOMAIN merged.block ->
                 SetSize(merged, a, get_block_size(merged, a))
          [] m.block[a].status = "ALLOC" /\ a \notin DOMAIN merged.block -> merged
          [] m.block[a].status = "FREE" -> SetSize(m, a, get_block_size(m, a))

-----------------------------------------------------------------------------
(* Reallocation *)

\* A bug: the old block is not given back.
MoveTo_Leaks(r, ptr, n) ==
    IF r.ptr \in {NULL, FAULT} THEN Fault(r.m) ELSE [r EXCEPT !.m = memcpy(@, r.ptr, ptr, n)]

\* A new block r, n bytes of the old one, and the old one given back.
MoveTo(r, ptr, n) ==
    IF r.ptr \in {NULL, FAULT} THEN Fault(r.m)
    ELSE [r EXCEPT !.m = os_free(memcpy(@, r.ptr, ptr, n), ptr)]

\* A bug: the branches are exchanged.
Smaller_Larger(m, a, size) == IF m.block[a].size > size THEN m.block[a].size ELSE size

Smaller(m, a, size) == IF m.block[a].size > size THEN size ELSE m.block[a].size

ReallocMapped(m, a, size) ==
    LET ptr == a + METADATA_SIZE
    IN  IF MustMap(size)
        THEN MoveTo(alloc_via_mmap(m, size), ptr, Smaller(m, a, size))
        ELSE IF m.start = NULL /\ ~CanGrow(m, MMAP_THRESHOLD)
        THEN Unchanged(preallocate_heap(m), ptr)
        ELSE MoveTo(OnHeap(m, size), ptr, Smaller(m, a, size))

\* The block is the last one: the break moves.
GrowLast(m, a, size) ==
    LET additional_size == ALIGN(size) - ALIGN(m.block[a].size)
    IN  IF ~CanGrow(m, additional_size) THEN Unchanged(m, a + METADATA_SIZE)
        ELSE Done(SetSize(sbrk(m, additional_size), a, size), a)

\* The free block after it is taken in; what is too much is split off again.
\* Without a split the recorded size stays what it was.
Absorb(m, a, size) ==
    LET absorbed == m.block[a].next
        next == m.block[absorbed].next
        joined == DropBlocks(SetPrev([m EXCEPT !.block[a].next = next], next, a), {absorbed})
    IN  Done(IF CanSplit(get_block_size(joined, a), size)
             THEN split_block(joined, a, size)
             ELSE joined, a)

\* A block elsewhere, to which `size` bytes are copied; the old pointer if
\* there is none.
Relocate(m, a, size) ==
    LET r == get_best_fit(m, size)
        ptr == a + METADATA_SIZE
    IN  IF r.ptr = NULL THEN Unchanged(m, ptr) ELSE MoveTo(r, ptr, size)

ReallocAlloc(m, a, size) ==
    LET total == get_block_size(m, a)
        next == m.block[a].next
        merged == merge_next_block(m, next)
    IN  CASE MustMap(size) ->
                 MoveTo(alloc_via_mmap(m, size), a + METADATA_SIZE, Smaller(m, a, size))
          [] ~MustMap(size) /\ CanSplit(total, size) ->
                 Done(split_block(m, a, size), a)
          [] ~MustMap(size) /\ ~CanSplit(total, size) /\ total >= ALIGN(size) ->
                 Done(SetSize(m, a, size), a)
          [] OTHER ->
                 IF next = NULL THEN GrowLast(m, a, size)
                 ELSE IF m.block[next].status # "FREE" THEN Relocate(m, a, size)
                 ELSE IF get_block_size(merged, next) + METADATA_SIZE >= ALIGN(size) - total
                 THEN Absorb(merged, a, size)
                 ELSE Relocate(merged, a, size)

\* ptr and size are not both 0; os_realloc(ptr, 0) is the action Free.
os_realloc(m, ptr, size) ==
    LET a == ptr - METADATA_SIZE
    IN  IF ptr = NULL THEN os_malloc(m, size)
        ELSE CASE m.block[a].status = "MAPPED" -> ReallocMapped(m, a, size)
               [] m.block[a].status = "ALLOC" -> ReallocAlloc(m, a, size)
               [] OTHER -> Failed(m)

-----------------------------------------------------------------------------
(* The program *)

Start(ptr) == ptr - METADATA_SIZE

\* The program writes to each byte of a block the block's own pointer.
Fill(m, ptr, size) == memset(m, ptr, ptr, size)

\* A call returns r, of `size` bytes if it was granted, and the program now has
\* the blocks `others` besides.  The first `kept` bytes should each be `byte`.
Returns(r, size, others, kept, byte) ==
    /\ faulted' = (r.ptr = FAULT)
    /\ live' = IF r.granted THEN Put(others, {r.ptr}, size) ELSE live
    /\ mem' = IF r.granted THEN Fill(r.m, r.ptr, size) ELSE r.m
    /\ surprised' = \/ surprised
                    \/ r.granted /\ \E a \in Bytes(r.ptr, kept) :
                           a \notin DOMAIN r.m.data \/ r.m.data[a] # byte
    /\ UNCHANGED limit

Malloc(size) ==
    /\ Cardinality(DOMAIN live) < MaxLive
    /\ Returns(os_malloc(mem, size), size, live, 0, 0)

Calloc(size) ==
    /\ Cardinality(DOMAIN live) < MaxLive
    /\ Returns(os_calloc(mem, size), size, live, size, 0)

\* Has the allocator on record the size the program last asked for?
SizeIsRecorded(ptr) == mem.block[Start(ptr)].size = live[ptr]

Others(ptr) == Restrict(live, DOMAIN live \ {ptr})

Realloc(ptr, size) ==
    LET r == os_realloc(mem, ptr, size)
        moved == r.granted /\ r.ptr # ptr
        kept == IF live[ptr] <= size THEN live[ptr] ELSE size
    IN  /\ MustMap(size) => SizeIsRecorded(ptr) \/ MovesStale
        /\ Returns(IF moved THEN [r EXCEPT !.m = Wipe(@, ptr, live[ptr])] ELSE r,
                   size, Others(ptr), kept, ptr)

Free(ptr) ==
    /\ mem' = Wipe(os_free(mem, ptr), ptr, live[ptr])
    /\ live' = Others(ptr)
    /\ UNCHANGED <<limit, surprised, faulted>>

Init ==
    /\ mem = [start |-> NULL, brk |-> HeapBase, block |-> <<>>, data |-> <<>>]
    /\ limit \in HeapLimits
    /\ live = <<>>
    /\ surprised = FALSE
    /\ faulted = FALSE

Next ==
    /\ ~faulted
    /\ \/ \E size \in Sizes : Malloc(size) \/ Calloc(size)
       \/ \E ptr \in DOMAIN live, size \in Sizes : Realloc(ptr, size)
       \/ \E ptr \in DOMAIN live : Free(ptr)

Spec == Init /\ [][Next]_vars

-----------------------------------------------------------------------------
(* Properties *)

\* After any sequence of calls the list runs through the heap's blocks from
\* heap_start to the break in the order of their addresses, forwards and
\* backwards; what it records of a free block is its whole size, of one in use
\* no more than that; and two free blocks are never neighbours.
BlocksPartitionHeap ==
    LET heap == HeapBlocks(mem)
        Follows(a, b) == b > a /\ ~\E c \in heap : a < c /\ c < b
    IN  heap # {} =>
          /\ mem.start \in heap /\ mem.block[mem.start].prev = NULL
          /\ \A a \in heap :
                LET b == mem.block[a].next IN
                /\ IF b = NULL THEN a = Max(heap)
                   ELSE b \in heap /\ Follows(a, b) /\ mem.block[b].prev = a
                /\ a # mem.start => mem.block[a].prev # NULL
                /\ IF mem.block[a].status = "FREE"
                   THEN /\ mem.block[a].size = get_block_size(mem, a)
                        /\ b # NULL => mem.block[b].status # "FREE"
                   ELSE mem.block[a].size <= get_block_size(mem, a)

\* The blocks in use are those the program holds - none leaks when a call moves
\* it, fails or joins its neighbours - and each has room for what was asked.
BlocksInUseAreHeld ==
    /\ {a + METADATA_SIZE : a \in {b \in DOMAIN mem.block : mem.block[b].status # "FREE"}}
           = DOMAIN live
    /\ \A p \in DOMAIN live :
           mem.block[Start(p)].status = "ALLOC" =>
               get_block_size(mem, Start(p)) >= live[p]

\* No call changes a byte of a block the program holds - not a split, a merge or
\* the metadata of a new neighbour - os_realloc takes the contents along, and
\* os_calloc's blocks are zero.
ContentsKept ==
    /\ ~surprised
    /\ \A p \in DOMAIN live : \A a \in Bytes(p, live[p]) :
           a \in DOMAIN mem.data /\ mem.data[a] = p
=============================================================================
