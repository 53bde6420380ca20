------------------------------- MODULE Router -------------------------------
(***************************************************************************)
(* The router of PCom-dataplane-router (router.c): it forwards IPv4        *)
(* packets along a static routing table, answers echo and ARP requests,    *)
(* reports errors to the sender, and asks for the address of a next hop    *)
(* that it does not know, while a queue holds the packets that wait.       *)
(*                                                                         *)
(* main handles one frame at a time; each action is one frame.  Frames     *)
(* that are too short, of another type or for someone else change nothing  *)
(* and are left out.  The address that a neighbour answers with is the     *)
(* neighbour itself.                                                       *)
(***************************************************************************)
EXTENDS Integers, Sequences, SequencesExt, RouteTrie, Checksum

CONSTANTS
    rtable,         \* the routing table
    Own,            \* the router's address
    Destinations, TTLs,
    ARP_TABLE_SIZE,
    MaxQueue        \* packets are not sent here while as many wait

ASSUME RouterAssumption ==
    /\ Own \in Address /\ Destinations \subseteq Address
    /\ TTLs \subseteq Nat
    /\ {ARP_TABLE_SIZE, MaxQueue} \subseteq Nat

\* NULL is no entry of either table.
ASSUME TableAssumption ==
    /\ Bits \in Nat
    /\ rtable \in Seq(ToSet(rtable))
    /\ \A entry \in ToSet(rtable) :
        /\ entry.prefix \in Address /\ entry.len \in 0 .. Bits
        /\ NULL \notin {entry, [ip |-> entry.next_hop, mac |-> entry.next_hop]}

VARIABLES
    orderly,    \* every ARP request is answered once, and in the order they were sent
    requests,   \* the next hops whose ARP requests are still to be answered
    arp_table,
    q,          \* the packets that wait, each with its best_route
    out,        \* the last frame sent for the last one received, NULL if none
    crashed     \* the process has used a bad pointer

vars == <<orderly, requests, arp_table, q, out, crashed>>

trie_tree == TrieTree(rtable)
Hops == {rtable[i].next_hop : i \in DOMAIN rtable}

Packets == [dst : Destinations \cup {Own}, ttl : TTLs, echo : BOOLEAN, intact : BOOLEAN]

Init ==
    /\ orderly \in BOOLEAN
    /\ requests = <<>> /\ arp_table = <<>> /\ q = <<>>
    /\ out = NULL
    /\ crashed = FALSE

-----------------------------------------------------------------------------
Frame(kind, what, to) == [kind |-> kind, what |-> what, to |-> to]

Answers(kind, what) ==
    /\ out' = Frame(kind, what, "sender")
    /\ UNCHANGED <<requests, arp_table, q>>

Drops ==
    /\ out' = NULL
    /\ UNCHANGED <<requests, arp_table, q>>

\* The first entry counts.
get_arp_entry(table, ip) ==
    LET i == SelectInSeq(table, LAMBDA e : e.ip = ip)
    IN  IF i = 0 THEN NULL ELSE table[i]

Sent(packet, route, destination) ==
    Frame("ip", packet, [mac |-> destination.mac, interface |-> route.interface])

\* A bug: no second request for a next hop that is already waited for.
Request_Once(next_hop) ==
    requests' = IF next_hop \in {requests[i] : i \in DOMAIN requests} THEN requests
                ELSE Append(requests, next_hop)

send_arp_request(next_hop) == requests' = Append(requests, next_hop)

\* A bug: the packet goes to the front of the queue.
queue_enq_Front(data) == q' = <<data>> \o q

queue_enq(data) == q' = Append(q, data)

Enqueue(packet, route) ==
    /\ send_arp_request(route.next_hop)
    /\ queue_enq([packet |-> packet, best_route |-> route])
    /\ out' = NULL
    /\ UNCHANGED arp_table

Forward(packet, route) ==
    LET destination == get_arp_entry(arp_table, route.next_hop)
    IN  IF destination = NULL THEN Enqueue(packet, route)
        ELSE /\ out' = Sent(packet, route, destination)
             /\ UNCHANGED <<requests, arp_table, q>>

ipv4_protocol(p) ==
    LET route == get_best_route(trie_tree, p.dst)
        aged == [p EXCEPT !.ttl = @ - 1]
    IN  IF p.echo /\ p.dst = Own THEN Answers("echo reply", p)
        ELSE IF ~p.intact THEN Drops
        ELSE IF p.ttl \in {0, 1} THEN Answers("time exceeded", p)
        ELSE IF route = NULL THEN Answers("unreachable", aged)
        ELSE Forward(aged, route)

\* A bug: the packet goes to whoever sent the reply.
Released_ToReplier(table, route) == Last(table)

\* The entry that a packet is released to.
Released(table, route) == get_arp_entry(table, route.next_hop)

\* The entry is added whoever sent the reply; the first packet in the queue is
\* sent, to an entry that may not exist.
parse_arp_reply(ip) ==
    LET table == Append(arp_table, [ip |-> ip, mac |-> ip])
        data == Head(q)
        destination == Released(table, data.best_route)
    IN  IF Len(arp_table) = ARP_TABLE_SIZE
        THEN crashed' = TRUE /\ UNCHANGED <<arp_table, q, out>>
        ELSE /\ arp_table' = table
             /\ IF q = <<>> THEN UNCHANGED q /\ out' = NULL /\ UNCHANGED crashed
                ELSE /\ q' = Tail(q)
                     /\ crashed' = (destination = NULL)
                     /\ out' = IF destination = NULL THEN NULL
                               ELSE Sent(data.packet, data.best_route, destination)

-----------------------------------------------------------------------------
ReceivePacket(p) ==
    /\ Len(q) < MaxQueue
    /\ ipv4_protocol(p)
    /\ UNCHANGED <<orderly, crashed>>

ParseArpRequest ==
    /\ Answers("arp reply", NULL)
    /\ UNCHANGED <<orderly, crashed>>

\* The neighbour of the i-th request answers.
ArpReply(i) ==
    /\ orderly => i = 1
    /\ requests' = RemoveAt(requests, i)
    /\ parse_arp_reply(requests[i])
    /\ UNCHANGED orderly

\* A neighbour announces itself.
UnaskedReply(ip) ==
    /\ ~orderly
    /\ parse_arp_reply(ip)
    /\ UNCHANGED <<orderly, requests>>

LostReply(i) ==
    /\ ~orderly
    /\ requests' = RemoveAt(requests, i)
    /\ UNCHANGED <<orderly, arp_table, q, out, crashed>>

Next ==
    /\ ~crashed
    /\ \/ \E p \in Packets : ReceivePacket(p)
       \/ ParseArpRequest
       \/ \E i \in DOMAIN requests : ArpReply(i) \/ LostReply(i)
       \/ \E ip \in Hops : UnaskedReply(ip)

\* A neighbour answers in the end.
Spec == Init /\ [][Next]_vars /\ WF_vars(~crashed /\ \E i \in DOMAIN requests : ArpReply(i))

-----------------------------------------------------------------------------
(* Properties *)

\* A packet that leaves the router, at once or after a wait of any length, leaves
\* along the route with the longest prefix, and to that route's next hop.
ForwardedToBestHop ==
    out # NULL /\ out.kind = "ip" =>
        LET route == LongestPrefix(rtable, out.what.dst)
        IN  out.to = [mac |-> route.next_hop, interface |-> route.interface]

\* Nothing ties a reply to the packet it releases but this: while the replies come
\* as they should, the queue's packets wait for the hops of the requests that are
\* under way, one each and in the same order - and no reply can bring the router
\* down.
RequestsMatchQueue ==
    orderly => /\ requests = [i \in DOMAIN q |-> q[i].best_route.next_hop]
               /\ ~crashed

\* Then no packet waits for ever, however many arrive.
QueueDrains == orderly /\ q # <<>> ~> q = <<>>

\* Nothing has happened yet: what holds of the functions alone is checked once.
AtStart == requests = <<>> /\ arp_table = <<>> /\ q = <<>> /\ out = NULL

\* The trie finds the longest prefix of any address in any small table, whatever
\* the order of its entries, duplicates included.
TrieFindsLongestPrefix ==
    AtStart => \A table \in UNION {[1 .. n -> Address \X (0 .. Bits)] : n \in 0 .. 3} :
        LET entries == [i \in DOMAIN table |-> Entry(table[i][1], table[i][2], i, i)]
        IN  \A ip \in Address :
                get_best_route(TrieTree(entries), ip) = LongestPrefix(entries, ip)

\* A header whose checksum was right still adds up after the router has updated
\* ttl and checksum, whatever the rest of it adds up to.
ChecksumVerifies ==
    AtStart => \A rest \in 0 .. Word - 1, ttl \in {2, 255} :
        LET old == checksum(<<rest, ttl * 256, 0>>)
        IN  checksum(<<rest, (ttl - 1) * 256, UpdatedCheck(old, ttl - 1)>>) = 0

\* "If the queue is not empty, it takes out the packet, updates its destination
\* address and sends it" (README.md:24): a reply never brings the router down.
RouterStaysUp == ~crashed
=============================================================================
