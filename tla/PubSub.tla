------------------------------- MODULE PubSub -------------------------------
(***************************************************************************)
(* The publish/subscribe server of PCom-client-server-app (server.cpp) and *)
(* its subscribers (subscriber.cpp): one process that polls its sockets    *)
(* and serves those that were ready in the order of its vector fds.        *)
(*                                                                         *)
(* A connection is what the kernel keeps of a TCP connection, its two      *)
(* streams included; a descriptor is the server's number for it, the       *)
(* lowest that is free, and given again once it is closed.  What one       *)
(* send_all writes is received as a whole.                                 *)
(***************************************************************************)
EXTENDS Integers, Sequences, FiniteSets, SequencesExt, Functions, Topics

CONSTANTS
    Ids, Conns, TopicSet, Patterns,
    MaxRequests, MaxUnread,   \* what a connection holds in either direction
    None

ASSUME PubSubAssumption ==
    /\ {MaxRequests, MaxUnread} \subseteq Nat \ {0}
    /\ None \notin TopicSet \cup Nat
    /\ \A p \in Patterns, t \in TopicSet : Len(p) > 0 /\ Len(t) > 0

\* The descriptors the server always has.
STDIN_FILENO == 0
socket_tcp == 3
socket_udp == 4
FirstFree == 5

VARIABLES
    server,     \* "running", "hung" for ever in get_client_id, or "down"
    fds,        \* the descriptors it polls, in order
    ready,      \* those among them that poll reported and that wait for their turn
    newcomer,   \* the descriptor whose id receive_new_connection_tcp waits for
    clients,    \* id |-> its topics, for every id ever seen
    online,     \* id |-> its descriptor
    sock,       \* the connection behind each open descriptor of a client
    backlog,    \* the connections that wait to be accepted
    conn,       \* each connection, seen from the client
    datagram    \* the UDP message that waits, if any

table == <<clients, online>>
vars == <<server, fds, ready, newcomer, clients, online, sock, backlog, conn, datagram>>

Free(id) == [id |-> id, phase |-> "left", toServer |-> <<>>, toClient |-> <<>>, closed |-> FALSE]

Init ==
    /\ server = "running"
    /\ fds = <<STDIN_FILENO, socket_udp, socket_tcp>>
    /\ ready = {}
    /\ newcomer = None
    /\ clients = <<>>
    /\ online = <<>>
    /\ sock = <<>>
    /\ backlog = <<>>
    /\ \E id \in Ids : conn = [c \in Conns |-> Free(id)]
    /\ datagram = None

\* A table with one more entry.
Insert(f, x, y) == [z \in DOMAIN f \cup {x} |-> IF z = x THEN y ELSE f[z]]

-----------------------------------------------------------------------------
(* The subscribers *)

ServersPart == <<server, fds, ready, newcomer, clients, online, sock>>

InUse(c) == c \in Range(sock) \cup Range(backlog)

ClientConnects(c, id) ==
    /\ server # "down"
    /\ conn[c].phase = "left" /\ ~InUse(c)
    /\ conn' = [conn EXCEPT ![c] = [Free(id) EXCEPT !.phase = "connected"]]
    /\ backlog' = Append(backlog, c)
    /\ UNCHANGED <<ServersPart, datagram>>

Send(c, m) == conn' = [conn EXCEPT ![c].toServer = Append(@, m), ![c].phase = "named"]

ClientSendsId(c) ==
    /\ conn[c].phase = "connected" /\ ~conn[c].closed
    /\ Send(c, <<"ID", conn[c].id>>)
    /\ UNCHANGED <<ServersPart, backlog, datagram>>

ClientAsks(c, type, topic) ==
    /\ conn[c].phase = "named" /\ ~conn[c].closed
    /\ Len(conn[c].toServer) < MaxRequests
    /\ Send(c, <<type, topic>>)
    /\ UNCHANGED <<ServersPart, backlog, datagram>>

ClientReads(c) ==
    /\ conn[c].toClient # <<>>
    /\ conn' = [conn EXCEPT ![c].toClient = Tail(@)]
    /\ UNCHANGED <<ServersPart, backlog, datagram>>

\* exit, the end of the stream, or the end of the process: at any time.
ClientLeaves(c) ==
    /\ conn[c].phase # "left"
    /\ conn' = [conn EXCEPT ![c].phase = "left", ![c].toClient = <<>>]
    /\ UNCHANGED <<ServersPart, backlog, datagram>>

DatagramArrives(t) ==
    /\ server # "down" /\ datagram = None
    /\ datagram' = t
    /\ UNCHANGED <<ServersPart, backlog, conn>>

-----------------------------------------------------------------------------
(* The server *)

HasInput(c) == conn[c].toServer # <<>> \/ conn[c].phase = "left"

Readable ==
    {fd \in Range(fds) :
        \/ fd = socket_udp /\ datagram # None
        \/ fd = socket_tcp /\ backlog # <<>>
        \/ fd \in DOMAIN sock /\ HasInput(sock[fd])}

Poll ==
    /\ server = "running" /\ ready = {} /\ newcomer = None
    /\ Readable # {}
    /\ ready' = Readable
    /\ UNCHANGED <<server, fds, newcomer, clients, online, sock, backlog, conn, datagram>>

\* A bug: the loop over fds ends after one descriptor.
Rest_Break(fd) == {}

\* What is left for the loop over fds after fd.
Rest(fd) == ready \ {fd}

\* It is fd's turn in the loop over fds; what that appends has not been polled.
Turn(fd) ==
    /\ server = "running" /\ newcomer = None
    /\ fd \in ready
    /\ fd = fds[SelectInSeq(fds, LAMBDA f : f \in ready)]

\* The process ends, and the kernel closes its sockets; the message t has reached
\* the connections `reached`.
GoesDown(reached, t) ==
    /\ server' = "down"
    /\ fds' = <<>> /\ ready' = {} /\ sock' = <<>> /\ backlog' = <<>>
    /\ newcomer' = None
    /\ conn' = [c \in Conns |->
                   [conn[c] EXCEPT !.closed = InUse(c) \/ @, !.toServer = <<>>,
                                   !.toClient = IF c \in reached THEN Append(@, t) ELSE @]]
    /\ datagram' = None
    /\ UNCHANGED table

\* The standard input is the first of a poll's descriptors.
Exit ==
    /\ server = "running" /\ ready = {} /\ newcomer = None
    /\ GoesDown({}, None)

\* The descriptors send_subscribers writes to.
Subscribers(t) ==
    {online[id] : id \in {i \in DOMAIN online :
                             \E k \in DOMAIN clients[i] : check_topics(t, clients[i][k])}}

\* decode_message refuses a message of unknown type.
ReceiveInvalidMessage ==
    /\ Turn(socket_udp)
    /\ datagram' = None
    /\ ready' = Rest(socket_udp)
    /\ UNCHANGED <<server, fds, newcomer, clients, online, sock, backlog, conn>>

HasRoom(c) == conn[c].phase # "left" /\ Len(conn[c].toClient) < MaxUnread

\* What is sent to a connection that its client has closed is lost.
ReceiveMessage ==
    LET to == {sock[fd] : fd \in Subscribers(datagram)}
    IN  /\ Turn(socket_udp)
        /\ \A c \in to : HasRoom(c) \/ conn[c].phase = "left"
        /\ conn' = [c \in Conns |->
                       IF c \in to /\ HasRoom(c)
                       THEN [conn[c] EXCEPT !.toClient = Append(@, datagram)] ELSE conn[c]]
        /\ datagram' = None
        /\ ready' = Rest(socket_udp)
        /\ UNCHANGED <<server, fds, newcomer, clients, online, sock, backlog>>

\* It may be worse: the header reaches such a connection, the kernel answers with
\* a reset, and sending the payload ends the server with SIGPIPE.
KilledByReset ==
    LET to == {sock[fd] : fd \in Subscribers(datagram)}
    IN  /\ Turn(socket_udp)
        /\ \E c \in to : conn[c].phase = "left"
        /\ \E reached \in SUBSET {c \in to : HasRoom(c)} : GoesDown(reached, datagram)

Accept ==
    LET fd == Min({n \in FirstFree .. FirstFree + Cardinality(DOMAIN sock) : n \notin DOMAIN sock})
    IN  /\ Turn(socket_tcp)
        /\ sock' = Insert(sock, fd, Head(backlog))
        /\ backlog' = Tail(backlog)
        /\ newcomer' = fd
        /\ ready' = Rest(socket_tcp)
        /\ UNCHANGED <<server, fds, clients, online, conn, datagram>>

\* The id is what the client sent or, if it sent nothing and left, what the
\* uninitialized buffer holds.
Received(c, id) ==
    /\ newcomer # None /\ c = sock[newcomer] /\ HasInput(c)
    /\ conn[c].toServer # <<>> => id = conn[c].toServer[1][2]

Consume(c) == IF conn[c].toServer = <<>> THEN conn[c]
              ELSE [conn[c] EXCEPT !.toServer = Tail(@)]

\* A bug: a client that comes back loses its topics.
Registered_Afresh(id) == Insert(clients, id, <<>>)

Registered(id) == IF id \in DOMAIN clients THEN clients ELSE Insert(clients, id, <<>>)

Register(c, id) ==
    /\ Received(c, id)
    /\ id \notin DOMAIN online
    /\ clients' = Registered(id)
    /\ online' = Insert(online, id, newcomer)
    /\ fds' = Append(fds, newcomer)
    /\ newcomer' = None
    /\ conn' = [conn EXCEPT ![c] = Consume(c)]
    /\ UNCHANGED <<server, ready, sock, backlog, datagram>>

Close(fd) ==
    /\ sock' = Restrict(sock, DOMAIN sock \ {fd})
    /\ conn' = [conn EXCEPT ![sock[fd]].closed = TRUE, ![sock[fd]].toServer = <<>>]

AlreadyConnected(c, id) ==
    /\ Received(c, id)
    /\ id \in DOMAIN online
    /\ Close(newcomer)
    /\ newcomer' = None
    /\ UNCHANGED <<server, fds, ready, clients, online, backlog, datagram>>

\* The loop of UNSUB, which erases what equals the topic.
Erased(topics, topic) ==
    LET kept[i \in 0 .. Len(topics)] ==
            IF i = 0 THEN <<>>
            ELSE IF topics[i] = topic THEN kept[i - 1] ELSE Append(kept[i - 1], topics[i])
    IN  kept[Len(topics)]

decode_client_request(topics, m) ==
    IF m[1] = "SUB" THEN IF m[2] \in Range(topics) THEN topics ELSE Append(topics, m[2])
    ELSE Erased(topics, m[2])

\* get_client_id finds the client only if it is the first of online, whose
\* order is not specified.
Request(fd, first) ==
    LET c == sock[fd]
    IN  /\ Turn(fd)
        /\ conn[c].toServer # <<>>
        /\ online[first] = fd
        /\ clients' = [clients EXCEPT ![first] = decode_client_request(@, conn[c].toServer[1])]
        /\ conn' = [conn EXCEPT ![c] = Consume(c)]
        /\ ready' = Rest(fd)
        /\ UNCHANGED <<server, fds, newcomer, online, sock, backlog, datagram>>

\* Otherwise its iterator stays where it is, and the loop never ends.
RequestHangs(fd, first) ==
    /\ Turn(fd)
    /\ conn[sock[fd]].toServer # <<>>
    /\ online[first] # fd
    /\ server' = "hung"
    /\ UNCHANGED <<fds, ready, newcomer, clients, online, sock, backlog, conn, datagram>>

\* A bug: a client that leaves stays online.
Offline_Stale(fd) == online

Offline(fd) == Restrict(online, {id \in DOMAIN online : online[id] # fd})

\* The descriptor leaves all tables, and the loop over fds is left as well.
Disconnect(fd) ==
    /\ Turn(fd)
    /\ conn[sock[fd]].toServer = <<>>
    /\ online' = Offline(fd)
    /\ Close(fd)
    /\ fds' = RemoveFirst(fds, fd)
    /\ ready' = {}
    /\ UNCHANGED <<server, newcomer, clients, backlog, datagram>>

Clients ==
    \/ \E c \in Conns, id \in Ids : ClientConnects(c, id)
    \/ \E c \in Conns : ClientSendsId(c) \/ ClientReads(c) \/ ClientLeaves(c)
    \/ \E c \in Conns, type \in {"SUB", "UNSUB"}, p \in Patterns : ClientAsks(c, type, p)
    \/ \E t \in TopicSet : DatagramArrives(t)

Serves ==
    \/ Poll
    \/ ReceiveInvalidMessage \/ ReceiveMessage \/ KilledByReset
    \/ Accept
    \/ \E c \in Conns, id \in Ids : Register(c, id) \/ AlreadyConnected(c, id)
    \/ \E fd \in DOMAIN sock : Disconnect(fd) \/ \E id \in DOMAIN online : Request(fd, id)

Next ==
    \/ Clients
    \/ Serves
    \/ \E fd \in DOMAIN sock, id \in DOMAIN online : RequestHangs(fd, id)
    \/ Exit

\* The server runs whenever it can, a subscriber sends its id as soon as it is
\* connected, and reads what it is sent.
Fairness ==
    /\ WF_vars(Serves)
    /\ \A c \in Conns : WF_vars(ClientSendsId(c)) /\ WF_vars(ClientReads(c))

Spec == Init /\ [][Next]_vars
FairSpec == Spec /\ Fairness

-----------------------------------------------------------------------------
(* Properties *)

\* The tables, the descriptors and the kernel agree whatever the order of
\* connections, requests and disconnections: each client online has a descriptor
\* of its own that is open, polled exactly once and that no stale entry names,
\* and every other open descriptor is the newcomer's.
OnlineIsPolled ==
    server # "down" =>
        /\ DOMAIN online \subseteq DOMAIN clients
        /\ IsInjective(online) /\ IsInjective(sock) /\ IsInjective(fds)
        /\ Range(online) = Range(fds) \ {STDIN_FILENO, socket_udp, socket_tcp}
        /\ DOMAIN sock = Range(online) \cup ({newcomer} \ {None})
        /\ newcomer \notin Range(online)
        /\ ready \subseteq Range(fds)
        /\ \A c \in Range(backlog) : c \notin Range(sock)

\* Nothing has happened yet: what holds of the functions alone is checked once.
AtStart == clients = <<>> /\ sock = <<>> /\ backlog = <<>> /\ datagram = None

\* No pattern without a "*" in front of something else is matched otherwise than
\* its wildcards say, and no pattern ever matches too much.
TopicsMatch ==
    AtStart => \A n \in 1 .. 3, m \in 1 .. 3 :
        \A t \in [1 .. n -> {"x", "y"}], p \in [1 .. m -> {"x", "y", "+", "*"}] :
            /\ check_topics(t, p) => Matches(t, p)
            /\ (\A j \in 1 .. m - 1 : p[j] # "*") => (Matches(t, p) => check_topics(t, p))

\* What the client of c has asked for, its id not counted.
Asked(c) ==
    LET sent == conn[c].toServer
    IN  IF sent # <<>> /\ Head(sent)[1] = "ID" THEN Tail(sent) ELSE sent

\* The server is a broker: what its clients see of subscriptions, sessions and
\* messages is what Broker promises.
B == INSTANCE Broker WITH
    Topics <- TopicSet,
    running <- server # "down",
    name <- [c \in Conns |-> conn[c].id],
    present <- {c \in Conns : conn[c].phase # "left"},
    requests <- [c \in Conns |-> Asked(c)],
    session <- IF server = "down" THEN <<>> ELSE [id \in DOMAIN online |-> sock[online[id]]],
    subscribed <- [id \in Ids |-> IF id \in DOMAIN clients THEN Range(clients[id]) ELSE {}],
    inbox <- [c \in Conns |-> conn[c].toClient]

ImplementsBroker == B!Spec

\* Whatever the others do - connect, leave, publish, ask - a client that has
\* requests under way sees them served one after the other, unless the server has
\* gone down or hangs.
ServesOne(c) == Len(conn'[c].toServer) < Len(conn[c].toServer)

RequestsAreServed ==
    \A c \in Conns :
        <>[](conn[c].toServer # <<>> /\ server = "running") => []<><<ServesOne(c)>>_vars
=============================================================================
