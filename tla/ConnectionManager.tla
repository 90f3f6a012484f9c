------------------------- MODULE ConnectionManager -------------------------
(***************************************************************************)
(* The connection managers of the nodes                                    *)
(* (executor/src/network/connection_manager.rs) and the QUIC connections   *)
(* between them.  Every call of a function on another node makes a         *)
(* connection of its own and opens one stream on it, so connections and    *)
(* streams are known by their call.  A manager is one task that waits for  *)
(* a message of its mailbox, an incoming connection, or a message on any   *)
(* of its connections; datagrams, which nobody sends, are left out.        *)
(***************************************************************************)
EXTENDS Naturals, Sequences, Functions, TLC

CONSTANTS Node, Call

VARIABLES
    running,        \* the nodes whose manager has not been stopped
    connections,    \* of each node its open connections, by ConnectionID
    next_connection_id,
    to_disconnect,  \* the connections get_next_message has found dead
    incoming,       \* the connections the endpoint of each node has not handed out
    link,           \* of each connection its nodes and whether it is open
    stream,         \* of each stream the request and the reply written to it
    notifications   \* ReqRepReceived notifications that the node has not processed

networkVars == <<running, connections, next_connection_id, to_disconnect, incoming, link,
                 stream, notifications>>

NoNode == "none"
NoData == "none"
NoReply == [of |-> NoData]
EndOfStream == [of |-> "end"]

OpenConnection(k) ==
    [link |-> k, just_received |-> <<>>, pending_reads |-> <<>>, pending_writes |-> <<>>,
     next_request_id |-> 0]

NetworkInit ==
    /\ running = Node
    /\ connections = [n \in Node |-> <<>>]
    /\ next_connection_id = [n \in Node |-> 0]
    /\ to_disconnect = [n \in Node |-> {}]
    /\ incoming = [n \in Node |-> {}]
    /\ link = [k \in Call |-> [client |-> NoNode, server |-> NoNode, open |-> FALSE]]
    /\ stream = [k \in Call |-> [state |-> "none", data |-> NoData, reply |-> NoReply]]
    /\ notifications = [n \in Node |-> <<>>]

Without(f, S) == Restrict(f, DOMAIN f \ S)

\* Another branch of the main loop was taken: get_next_message starts anew.
Again(n) == to_disconnect' = [to_disconnect EXCEPT ![n] = {}]

\* A slip: the smallest identifier that is free.
NextConnectionID_free(n) ==
    CHOOSE id \in 0..next_connection_id[n] :
        /\ id \notin DOMAIN connections[n]
        /\ \A i \in 0..(id - 1) : i \in DOMAIN connections[n]

\* get_and_increment
NextConnectionID(n) == next_connection_id[n]

Insert(n, k) ==
    /\ connections' = [connections EXCEPT ![n] = @ @@ (NextConnectionID(n) :> OpenConnection(k))]
    /\ next_connection_id' = [next_connection_id EXCEPT ![n] = @ + 1]

Closed(K) == [k \in Call |-> IF k \in K THEN [link[k] EXCEPT !.open = FALSE] ELSE link[k]]
-----------------------------------------------------------------------------
(* Messages of the mailbox.                                                *)

connect(n, k, server) ==
    /\ n \in running /\ server \in running
    /\ link' = [link EXCEPT ![k] = [client |-> n, server |-> server, open |-> TRUE]]
    /\ incoming' = [incoming EXCEPT ![server] = @ \cup {k}]
    /\ Insert(n, k) /\ Again(n)
    /\ UNCHANGED <<running, stream, notifications>>

\* The connection cannot be made, or the message gets no further than the mailbox.
Refuse(n) ==
    /\ IF n \in running THEN Again(n) ELSE UNCHANGED to_disconnect
    /\ UNCHANGED <<running, connections, next_connection_id, incoming, link, stream, notifications>>

\* A stream can be opened on a connection that is known and open.
CanOpen(n, id) ==
    /\ n \in running /\ id \in DOMAIN connections[n]
    /\ link[connections[n][id].link].open

\* send_req_rep opens a stream; a task of its own writes to it.
send_req_rep(n, id) ==
    /\ CanOpen(n, id) /\ Again(n)
    /\ stream' = [stream EXCEPT ![connections[n][id].link].state = "open"]
    /\ UNCHANGED <<running, connections, next_connection_id, incoming, link, notifications>>

\* The reply is written if the connection and the request are still there; the
\* channel is dropped, and its stream ended, whether that succeeds or not.
send_reply(n, id, req_id, reply) ==
    /\ n \in running /\ Again(n)
    /\ \/ /\ id \in DOMAIN connections[n] /\ req_id \in DOMAIN connections[n][id].pending_writes
          /\ LET c == connections[n][id]
                 k == c.pending_writes[req_id]
             IN  /\ \E r \in (IF link[k].open THEN {reply, EndOfStream} ELSE {stream[k].reply}) :
                        stream' = [stream EXCEPT ![k].reply = r]
                 /\ connections' = [connections EXCEPT
                        ![n][id].pending_writes = Without(@, {req_id})]
       \/ /\ ~(id \in DOMAIN connections[n] /\ req_id \in DOMAIN connections[n][id].pending_writes)
          /\ UNCHANGED <<connections, stream>>
    /\ UNCHANGED <<running, next_connection_id, incoming, link, notifications>>

LinksOf(n, ids) == {connections[n][id].link : id \in ids}

\* Connections that are dropped are closed.
Drop(n, ids) ==
    /\ connections' = [connections EXCEPT ![n] = Without(@, ids)]
    /\ link' = Closed(LinksOf(n, ids))

disconnect(n, id) ==
    /\ n \in running /\ Again(n)
    /\ Drop(n, {id} \cap DOMAIN connections[n])
    /\ UNCHANGED <<running, next_connection_id, incoming, stream, notifications>>

\* The main loop ends; connections not handed out go with the endpoint.
stop(n) ==
    /\ n \in running /\ running' = running \ {n}
    /\ connections' = [connections EXCEPT ![n] = <<>>]
    /\ link' = Closed(LinksOf(n, DOMAIN connections[n]) \cup incoming[n])
    /\ incoming' = [incoming EXCEPT ![n] = {}]
    /\ Again(n)
    /\ UNCHANGED <<next_connection_id, stream, notifications>>
-----------------------------------------------------------------------------
(* Incoming connections and messages.                                      *)

process_incoming(n, k) ==
    /\ n \in running /\ k \in incoming[n]
    /\ incoming' = [incoming EXCEPT ![n] = @ \ {k}]
    /\ Again(n)
    /\ \/ Insert(n, k)
       \/ ~link[k].open /\ UNCHANGED <<connections, next_connection_id>>
    /\ UNCHANGED <<running, link, stream, notifications>>

\* The connections get_next_message waits for.
Polls(n, id) ==
    n \in running /\ id \in DOMAIN connections[n] /\ id \notin to_disconnect[n]

\* Channels of just_received are given a RequestID when the connection is polled.
Drained(c) ==
    [c EXCEPT !.just_received = <<>>,
              !.pending_reads = @ @@ [i \in {c.next_request_id + j - 1 : j \in DOMAIN c.just_received} |->
                                         c.just_received[i - c.next_request_id + 1]],
              !.next_request_id = @ + Len(c.just_received)]

\* A stream shows up with its first data, or with its end.
AcceptStream(n, id) ==
    LET c == connections[n][id] IN
    /\ Polls(n, id)
    /\ link[c.link].server = n /\ link[c.link].open
    /\ stream[c.link].state \in {"written", "ended"}
    /\ c.just_received = <<>> /\ c.next_request_id = 0
    /\ connections' = [connections EXCEPT ![n][id] = [Drained(c) EXCEPT !.just_received = <<c.link>>]]
    /\ UNCHANGED <<running, next_connection_id, to_disconnect, incoming, link, stream, notifications>>

\* A request is read: the connections found dead meanwhile are dropped, and
\* process_message moves the channel and raises the notification.
ReceiveRequest(n, id) ==
    /\ Polls(n, id)
    /\ LET c == Drained(connections[n][id]) IN
       \E req_id \in DOMAIN c.pending_reads :
        LET k == c.pending_reads[req_id] IN
        /\ link[k].open /\ stream[k].state = "written"
        /\ connections' = [connections EXCEPT ![n] =
               Without([@ EXCEPT ![id] = [c EXCEPT !.pending_reads = Without(@, {req_id}),
                                                   !.pending_writes = @ @@ (req_id :> k)]],
                       to_disconnect[n])]
        /\ link' = Closed(LinksOf(n, to_disconnect[n]))
        /\ notifications' = [notifications EXCEPT ![n] =
               Append(@, [id |-> id, req_id |-> req_id, data |-> stream[k].data])]
    /\ Again(n)
    /\ UNCHANGED <<running, next_connection_id, incoming, stream>>

\* Reading from a connection fails: it is closed, or a stream on it ends
\* without a request.
Failing(n, id) ==
    LET c == Drained(connections[n][id]) IN
    \/ ~link[c.link].open
    \/ \E req_id \in DOMAIN c.pending_reads : stream[c.pending_reads[req_id]].state = "ended"

\* A slip: the loop waits for another connection when none is left.
ConnectionFails_waits(n, id) ==
    /\ Polls(n, id) /\ Failing(n, id)
    /\ to_disconnect' = [to_disconnect EXCEPT ![n] = @ \cup {id}]
    /\ UNCHANGED <<running, connections, next_connection_id, incoming, link, stream, notifications>>

\* Dead connections are dropped when there is no other to wait for, and kept
\* until another has a message otherwise.
ConnectionFails(n, id) ==
    LET dead == to_disconnect[n] \cup {id} IN
    /\ Polls(n, id) /\ Failing(n, id)
    /\ \/ /\ dead = DOMAIN connections[n]
          /\ Drop(n, dead) /\ Again(n)
       \/ /\ dead # DOMAIN connections[n]
          /\ to_disconnect' = [to_disconnect EXCEPT ![n] = dead]
          /\ UNCHANGED <<connections, link>>
    /\ UNCHANGED <<running, next_connection_id, incoming, stream, notifications>>

ManagerStep(n) ==
    \/ \E k \in Call : process_incoming(n, k)
    \/ \E id \in DOMAIN connections[n] :
        AcceptStream(n, id) \/ ReceiveRequest(n, id) \/ ConnectionFails(n, id)
-----------------------------------------------------------------------------
\* A connection is lost: a node is gone, or nothing was sent on it for as long
\* as the QUIC endpoints allow.
ConnectionIsLost(k) ==
    /\ link[k].open
    /\ link' = Closed({k})
    /\ UNCHANGED <<running, connections, next_connection_id, to_disconnect, incoming, stream,
                   notifications>>
=============================================================================
