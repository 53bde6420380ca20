------------------------------ MODULE MemList ------------------------------
(***************************************************************************)
(* malloc of SO-mini-libc.  Every block is a mapping of its own, and the   *)
(* library remembers it in an item of a circular doubly linked list whose  *)
(* head is static; every item is a mapping of its own too.  Lengths are in *)
(* pages.  fault is set where the program is undefined from then on.       *)
(***************************************************************************)
EXTENDS Integers, Sequences, FiniteSets

CONSTANTS
    MaxPages,        \* bound: pages of the address space
    MaxLen           \* bound: pages of a block

VARIABLES
    mapped,          \* the pages that mmap has given out
    next, prev,      \* the links of the items, an item being known by its page
    start, len,      \* what an item says of its block
    live,            \* the blocks the program holds: their lengths, by first page
    phase,           \* "main", "cleanup", "exited"
    iter, tmp,       \* the loop of mem_list_cleanup
    fault

lists == <<next, prev, start, len>>
vars == <<mapped, next, prev, start, len, live, phase, iter, tmp, fault>>

ListHead == 0
Pages == 1..MaxPages
Items == {ListHead} \cup Pages
PagesOf(first, size) == first..(first + size - 1)

\* mem_list_init
Init ==
    /\ mapped = {} /\ live = [p \in {} |-> 0]
    /\ next = [i \in Items |-> ListHead] /\ prev = [i \in Items |-> ListHead]
    /\ start = [i \in Items |-> 0] /\ len = [i \in Items |-> 0]
    /\ phase = "main" /\ iter = ListHead /\ tmp = ListHead /\ fault = FALSE

-----------------------------------------------------------------------------
\* The list, as a record of its four fields, so that calls can follow each other.
Lists == [next |-> next, prev |-> prev, start |-> start, len |-> len]
Become(l) == next' = l.next /\ prev' = l.prev /\ start' = l.start /\ len' = l.len

mem_list_add(l, item, first, size) ==
    LET tail == l.prev[ListHead]
    IN  [next |-> [l.next EXCEPT ![item] = ListHead, ![tail] = item],
         prev |-> [l.prev EXCEPT ![item] = tail, ![ListHead] = item],
         start |-> [l.start EXCEPT ![item] = first],
         len |-> [l.len EXCEPT ![item] = size]]

\* The items of the list in order; the first whose block starts at first is
\* found, if there is one.
Order(l) ==
    LET after[i \in Items, n \in 0..MaxPages] ==
            IF n = 0 \/ l.next[i] = ListHead THEN <<>>
            ELSE <<l.next[i]>> \o after[l.next[i], n - 1]
    IN  after[ListHead, MaxPages]
mem_list_find(l, first) ==
    LET order == Order(l)
        found == {k \in DOMAIN order : l.start[order[k]] = first}
    IN  IF found = {} THEN ListHead ELSE order[CHOOSE k \in found : \A j \in found : k <= j]

\* mem_list_extract and mem_list_free: the neighbours of the item are linked to
\* each other, and the fields of the item go with its page.
Removed(l, item) ==
    [next |-> [l.next EXCEPT ![l.prev[item]] = l.next[item], ![item] = ListHead],
     prev |-> [l.prev EXCEPT ![l.next[item]] = l.prev[item], ![item] = ListHead],
     start |-> [l.start EXCEPT ![item] = 0], len |-> [l.len EXCEPT ![item] = 0]]

-----------------------------------------------------------------------------
\* mmap: any free pages in a row; it fails for no page, and may fail for more.
Runs(used, size) == {first \in Pages : PagesOf(first, size) \subseteq Pages \ used}

Undefined == fault' = TRUE /\ UNCHANGED <<mapped, lists, live>>
Fails == UNCHANGED <<mapped, lists, live, fault>>

\* What malloc(size) may obtain: the block, the list with a new item, and the pages
\* that are then mapped.
Obtained(size) ==
    UNION {LET used == mapped \cup PagesOf(first, size)
           IN  {[first |-> first, lists |-> mem_list_add(Lists, item, first, size),
                 used |-> used \cup {item}] : item \in Pages \ used} :
           first \in IF size > 0 THEN Runs(mapped, size) ELSE {}}

\* The block has been mapped and there is no page for the item: MAP_FAILED is not
\* NULL, and mem_list_add writes there.
NoItem(size) == size > 0 /\ Runs(mapped, size) # {} /\ Undefined

malloc(size) ==
    \/ Fails \/ NoItem(size)
    \/ \E got \in Obtained(size) :
        /\ Become(got.lists) /\ mapped' = got.used /\ fault' = fault
        /\ live' = [p \in DOMAIN live \cup {got.first} |-> IF p = got.first THEN size ELSE live[p]]

Freed_ItemStays(l, used, first) ==
    LET item == mem_list_find(l, first)
    IN  [lists |-> Removed(l, item), used |-> used \ PagesOf(first, l.len[item])]
\* free: the block and its item are unmapped.
Freed(l, used, first) ==
    LET item == mem_list_find(l, first)
    IN  [lists |-> Removed(l, item),
         used |-> (used \ PagesOf(first, l.len[item])) \ {item}]

\* Of a pointer that was not handed out there is no item, and its len is read.
free(first) ==
    IF mem_list_find(Lists, first) = ListHead
    THEN Undefined
    ELSE LET after == Freed(Lists, mapped, first)
         IN  /\ Become(after.lists) /\ mapped' = after.used /\ fault' = fault
             /\ live' = [p \in DOMAIN live \ {first} |-> live[p]]

\* realloc: a new block, the old length copied into it, and the old one freed;
\* a new block that is shorter is written past its end.
realloc(first, size) ==
    \/ Fails \/ NoItem(size)
    \/ \E got \in Obtained(size) :
        LET item == mem_list_find(got.lists, first)
            after == Freed(got.lists, got.used, first)
        IN  IF item = ListHead \/ got.lists.len[item] > size
            THEN Undefined
            ELSE /\ Become(after.lists) /\ mapped' = after.used /\ fault' = fault
                 /\ live' = [p \in (DOMAIN live \ {first}) \cup {got.first} |->
                                IF p = got.first THEN size ELSE live[p]]

Main ==
    /\ phase = "main"
    /\ \/ \E size \in 0..MaxLen : malloc(size)
       \/ \E first \in DOMAIN live \cup {0} : free(first)
       \/ \E first \in DOMAIN live \cup {0}, size \in 0..MaxLen : realloc(first, size)
    /\ UNCHANGED <<phase, iter, tmp>>

-----------------------------------------------------------------------------
\* main returns: mem_list_cleanup removes the items one by one.
Return ==
    /\ phase = "main" /\ phase' = "cleanup"
    /\ iter' = next[ListHead] /\ tmp' = next[next[ListHead]]
    /\ UNCHANGED <<mapped, lists, live, fault>>

mem_list_cleanup ==
    /\ phase = "cleanup" /\ iter # ListHead
    /\ Become(Removed(Lists, iter)) /\ mapped' = mapped \ {iter}
    /\ iter' = tmp /\ tmp' = next'[tmp]
    /\ fault' = (tmp \notin mapped' \cup {ListHead})
    /\ UNCHANGED <<live, phase>>

Exit ==
    /\ phase = "cleanup" /\ iter = ListHead /\ phase' = "exited"
    /\ UNCHANGED <<mapped, lists, live, iter, tmp, fault>>

Next == ~fault /\ (Main \/ Return \/ mem_list_cleanup \/ Exit)

Spec == Init /\ [][Next]_vars

-----------------------------------------------------------------------------
\* No page is lost and none is used twice: what is mapped is the blocks the
\* program holds and the items that are listed, each page once; an item tells of
\* the block it was added for, and the cleanup reads none that it has unmapped.
NoPageLost ==
    /\ phase # "main" => ~fault
    /\ ~fault =>
         LET order == Order(Lists)
             items == {order[k] : k \in DOMAIN order}
             BlockPages == UNION {PagesOf(p, live[p]) : p \in DOMAIN live}
         IN  /\ mapped = items \cup BlockPages /\ items \cap BlockPages = {}
             /\ \A p, r \in DOMAIN live : p # r => PagesOf(p, live[p]) \cap PagesOf(r, live[r]) = {}
             /\ phase = "main" =>
                  {<<start[k], len[k]>> : k \in items} = {<<p, live[p]>> : p \in DOMAIN live}
=============================================================================
