------------------------------- MODULE Broker -------------------------------
(***************************************************************************)
(* What the publish/subscribe server promises, without sockets, poll or    *)
(* descriptors: subscriptions belong to an id and outlive its connections, *)
(* an id has one session at a time, requests take effect in the order they *)
(* were sent, and a message reaches at once everyone who is connected and  *)
(* subscribed, once, and nobody else.                                      *)
(***************************************************************************)
EXTENDS Sequences, Functions

CONSTANTS
    Ids,            \* the clients' ids
    Conns,          \* connections
    Topics,
    Patterns,       \* what a client may subscribe to
    Matches(_, _)   \* does a topic match a pattern

VARIABLES
    running,
    name,       \* the id of the client at the other end of a connection
    present,    \* the connections whose client has not left
    requests,   \* connection |-> what its client has asked for and not yet got
    session,    \* id |-> its connection, for the ids that have one
    subscribed, \* id |-> the patterns it is subscribed to
    inbox       \* connection |-> what its client has still to read

vars == <<running, name, present, requests, session, subscribed, inbox>>

Requests == {"SUB", "UNSUB"} \X Patterns
Empty == [c \in Conns |-> <<>>]

InSession(c) == \E id \in DOMAIN session : session[id] = c

Interested(t) ==
    {session[id] : id \in {i \in DOMAIN session : \E p \in subscribed[i] : Matches(t, p)}}

Init ==
    /\ running = TRUE
    /\ name \in [Conns -> Ids]
    /\ present = {}
    /\ requests = Empty
    /\ session = <<>>
    /\ subscribed = [id \in Ids |-> {}]
    /\ inbox = Empty

Connect(c, id) ==
    /\ c \notin present /\ ~InSession(c)
    /\ name' = [name EXCEPT ![c] = id]
    /\ present' = present \cup {c}
    /\ requests' = [requests EXCEPT ![c] = <<>>]
    /\ UNCHANGED <<running, session, subscribed, inbox>>

Ask(c, r) ==
    /\ c \in present
    /\ requests' = [requests EXCEPT ![c] = Append(@, r)]
    /\ UNCHANGED <<running, name, present, session, subscribed, inbox>>

\* A client that has left before it said who it was may be taken for anyone.
Join(c, id) ==
    /\ running
    /\ c \in present \/ requests[c] # <<>> => id = name[c]
    /\ id \notin DOMAIN session /\ ~InSession(c)
    /\ session' = [i \in DOMAIN session \cup {id} |-> IF i = id THEN c ELSE session[i]]
    /\ UNCHANGED <<running, name, present, requests, subscribed, inbox>>

\* Only an id that has a session is refused another.
Refuse(c, id) ==
    /\ c \in present \/ requests[c] # <<>> => id = name[c]
    /\ id \in DOMAIN session /\ ~InSession(c)
    /\ requests' = [requests EXCEPT ![c] = <<>>]
    /\ UNCHANGED <<running, name, present, session, subscribed, inbox>>

Apply(id) ==
    LET c == session[id]
        type == Head(requests[c])[1]
        pattern == Head(requests[c])[2]
    IN  /\ requests[c] # <<>>
        /\ requests' = [requests EXCEPT ![c] = Tail(@)]
        /\ subscribed' = [subscribed EXCEPT
                             ![id] = IF type = "SUB" THEN @ \cup {pattern} ELSE @ \ {pattern}]
        /\ UNCHANGED <<running, name, present, session, inbox>>

Publish(t) ==
    /\ running
    /\ inbox' = [c \in Conns |-> IF c \in Interested(t) \cap present
                                 THEN Append(inbox[c], t) ELSE inbox[c]]
    /\ UNCHANGED <<running, name, present, requests, session, subscribed>>

Read(c) ==
    /\ inbox[c] # <<>>
    /\ inbox' = [inbox EXCEPT ![c] = Tail(@)]
    /\ UNCHANGED <<running, name, present, requests, session, subscribed>>

Quit(c) ==
    /\ present' = present \ {c}
    /\ inbox' = [inbox EXCEPT ![c] = <<>>]
    /\ UNCHANGED <<running, name, requests, session, subscribed>>

\* What the client had asked for before it left has been done.
Leave(id) ==
    /\ session[id] \notin present /\ requests[session[id]] = <<>>
    /\ session' = Restrict(session, DOMAIN session \ {id})
    /\ UNCHANGED <<running, name, present, requests, subscribed, inbox>>

\* A server that goes down while it sends a message has reached some.
Stop ==
    /\ running' = FALSE
    /\ session' = <<>>
    /\ requests' = Empty
    /\ \E t \in Topics : \E reached \in SUBSET (Interested(t) \cap present) :
           inbox' = [c \in Conns |-> IF c \in reached THEN Append(inbox[c], t) ELSE inbox[c]]
    /\ UNCHANGED <<name, present, subscribed>>

Next ==
    \/ \E c \in Conns, id \in Ids : Connect(c, id) \/ Join(c, id) \/ Refuse(c, id)
    \/ \E c \in Conns, r \in Requests : Ask(c, r)
    \/ \E c \in Conns : Read(c) \/ Quit(c)
    \/ \E id \in DOMAIN session : Apply(id) \/ Leave(id)
    \/ \E t \in Topics : Publish(t)
    \/ Stop

Spec == Init /\ [][Next]_vars
=============================================================================
