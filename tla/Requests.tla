------------------------------ MODULE Requests ------------------------------
(***************************************************************************)
(* A request to a gateway, from its arrival to the response: the gateway   *)
(* finds the function, route_request (executor/src/request_routing.rs)     *)
(* the node, and if that is another one the request is sent to it          *)
(* (executor/src/network/rpc_handler.rs) on a connection of its own.  What *)
(* the scheduler answers is left open, and so is what the runtime does.    *)
(***************************************************************************)
EXTENDS Gateway, ConnectionManager

CONSTANTS
    origin,         \* the node each request is made to
    gateway, method, path

VARIABLES
    call,           \* the request
    handler         \* its execution by the node it was sent to

vars == <<gateways, deploys, networkVars, call, handler>>
gatewayVars == <<gateways, deploys>>

NoResult == [kind |-> "none"]
NotFoundResponse == [kind |-> "NotFound"]
InternalError == [kind |-> "InternalError"]
Response(reply) == [kind |-> "Response", reply |-> reply]

Idle == [state |-> "none", node |-> NoNode, id |-> 0, req_id |-> 0, reply |-> NoReply]

Init ==
    /\ Init_gateways /\ NetworkInit
    /\ call = [k \in Call |-> [pc |-> "idle", function |-> "none", params |-> <<>>,
                               target |-> NoNode, id |-> 0, result |-> NoResult]]
    /\ handler = [k \in Call |-> Idle]

At(k, pc) == call[k].pc = pc

Goto(k, pc) == call' = [call EXCEPT ![k].pc = pc]

Ends(k, pc, result) == call' = [call EXCEPT ![k].pc = pc, ![k].result = result]
-----------------------------------------------------------------------------
(* The node that got the request.                                          *)

Gateways ==
    /\ \/ \E g \in GatewayID, endpoints \in Definitions : deploy_gateways(g, endpoints)
       \/ \E G \in (SUBSET GatewayID) \ {{}} : delete_gateways(G)
    /\ UNCHANGED <<networkVars, call, handler>>

handle_request(k) ==
    /\ At(k, "idle")
    /\ \E t \in Targets(gateways[gateway[k]], method[k], path[k]) :
        \/ /\ t.found
           /\ call' = [call EXCEPT ![k].pc = "routing", ![k].function = t.function,
                                   ![k].params = t.params]
        \/ ~t.found /\ Ends(k, "done", NotFoundResponse)
    /\ UNCHANGED <<gatewayVars, networkVars, handler>>

\* route_request: the stack is deployed here, on another node, or there is no
\* route.  The function and the parameters, which go with the request unchanged,
\* are not kept from here on.
get_route(k) ==
    LET Routed(pc, n, result) ==
            call' = [call EXCEPT ![k].pc = pc, ![k].target = n, ![k].result = result,
                                 ![k].function = "none", ![k].params = <<>>]
    IN
    /\ At(k, "routing")
    /\ \/ Routed("done", NoNode, InternalError)
       \/ Routed("local", origin[k], NoResult)
       \/ \E n \in Node \ {origin[k]} : Routed("connecting", n, NoResult)
    /\ UNCHANGED <<gatewayVars, networkVars, handler>>

Invoked(k, n, ok) == [of |-> k, by |-> n, ok |-> ok]

\* A reply as route_request gives it to the gateway.
ResultOf(reply) == IF reply.ok THEN Response(reply) ELSE InternalError

InvokeLocally(k) ==
    /\ At(k, "local")
    /\ \E ok \in BOOLEAN : Ends(k, "done", ResultOf(Invoked(k, origin[k], ok)))
    /\ UNCHANGED <<gatewayVars, networkVars, handler>>

Connect(k) ==
    /\ At(k, "connecting")
    /\ \/ /\ connect(origin[k], k, call[k].target)
          /\ call' = [call EXCEPT ![k].pc = "sending", ![k].id = NextConnectionID(origin[k])]
       \/ Refuse(origin[k]) /\ Ends(k, "done", InternalError)
    /\ UNCHANGED <<gatewayVars, handler>>

Send(k) ==
    /\ At(k, "sending")
    /\ \/ send_req_rep(origin[k], call[k].id) /\ Goto(k, "waiting")
       \/ /\ ~CanOpen(origin[k], call[k].id) /\ Refuse(origin[k])
          /\ Ends(k, "disconnecting", InternalError)
    /\ UNCHANGED <<gatewayVars, handler>>

\* The response has come, or will not; the connection is disconnected.
Disconnect(k) ==
    /\ At(k, "disconnecting")
    /\ \/ disconnect(origin[k], call[k].id)
       \/ origin[k] \notin running /\ Refuse(origin[k])
    /\ call' = [call EXCEPT ![k].pc = "done", ![k].id = 0]
    /\ UNCHANGED <<gatewayVars, handler>>
-----------------------------------------------------------------------------
(* The task send_req_rep spawns.                                           *)

TaskStep(k) ==
    /\ At(k, "waiting")
    /\ UNCHANGED <<gatewayVars, handler, running, connections, next_connection_id, to_disconnect,
                   incoming, link, notifications>>

WriteRequest(k) ==
    /\ TaskStep(k)
    /\ stream[k].state = "open" /\ link[k].open
    /\ stream' = [stream EXCEPT ![k].state = "written", ![k].data = k]
    /\ UNCHANGED call

\* The request is too long, or the connection is closed.
WriteRequestFails(k) ==
    /\ TaskStep(k)
    /\ stream[k].state = "open"
    /\ stream' = [stream EXCEPT ![k].state = "ended"]
    /\ Ends(k, "disconnecting", InternalError)

\* A slip: the end of the stream is not taken for an answer.
ReadReply_skips_end(k) ==
    /\ TaskStep(k)
    /\ stream[k].reply \notin {NoReply, EndOfStream}
    /\ Ends(k, "disconnecting", ResultOf(stream[k].reply))
    /\ UNCHANGED stream

ReadReply(k) ==
    /\ TaskStep(k)
    /\ stream[k].state = "written"
    /\ \/ /\ stream[k].reply \notin {NoReply, EndOfStream}
          /\ Ends(k, "disconnecting", ResultOf(stream[k].reply))
       \/ /\ stream[k].reply = EndOfStream \/ ~link[k].open
          /\ Ends(k, "disconnecting", InternalError)
    /\ UNCHANGED stream
-----------------------------------------------------------------------------
(* The node the request was sent to.                                       *)

\* request_received: a request that can be read is handled in a task of its
\* own, and one that cannot is only logged.
request_received(n) ==
    LET r == Head(notifications[n]) IN
    /\ notifications[n] # <<>>
    /\ notifications' = [notifications EXCEPT ![n] = Tail(@)]
    /\ \/ handler' = [handler EXCEPT ![r.data] = [state |-> "running", node |-> n, id |-> r.id,
                                                  req_id |-> r.req_id, reply |-> NoReply]]
       \/ UNCHANGED handler
    /\ UNCHANGED <<gatewayVars, running, connections, next_connection_id, to_disconnect, incoming,
                   link, stream, call>>

HandlerInvokes(k) ==
    /\ handler[k].state = "running"
    /\ \E ok \in BOOLEAN :
        handler' = [handler EXCEPT ![k].state = "answering",
                                   ![k].reply = Invoked(k, handler[k].node, ok)]
    /\ UNCHANGED <<gatewayVars, networkVars, call>>

send_execute_function_reply(k) ==
    LET h == handler[k] IN
    /\ h.state = "answering"
    /\ \/ send_reply(h.node, h.id, h.req_id, h.reply)
       \/ h.node \notin running /\ Refuse(h.node)
    /\ handler' = [handler EXCEPT ![k] = Idle]
    /\ UNCHANGED <<gatewayVars, call>>
-----------------------------------------------------------------------------
CallStep(k) ==
    \/ get_route(k) \/ InvokeLocally(k) \/ Connect(k) \/ Send(k) \/ Disconnect(k)
    \/ WriteRequest(k) \/ WriteRequestFails(k) \/ ReadReply(k)

HandlerStep(k) == send_execute_function_reply(k)

Network(A) == A /\ UNCHANGED <<gatewayVars, call, handler>>

Next ==
    \/ Gateways
    \/ \E k \in Call :
        \/ handle_request(k) \/ CallStep(k)
        \/ HandlerInvokes(k) \/ HandlerStep(k)
        \/ Network(ConnectionIsLost(k))
    \/ \E n \in Node : Network(ManagerStep(n)) \/ request_received(n) \/ Network(stop(n))

\* Tasks are scheduled and managers serve every ready branch.  A function on
\* another node need never end: a connection on which nothing is sent is lost.
\* Every request makes finitely many steps, so it is enough that some step is
\* taken as long as there is one.
Progress ==
    \/ \E k \in Call : CallStep(k) \/ HandlerStep(k) \/ Network(ConnectionIsLost(k))
    \/ \E n \in Node : Network(ManagerStep(n))

Fairness == WF_vars(Progress)

Spec == Init /\ [][Next]_vars /\ Fairness
-----------------------------------------------------------------------------
\* A response is the one a node the request was routed to computed for this
\* request, never that of another request: not when replies come after their
\* connection is gone, either (connection_manager.rs:421-437, 697-701).
ResponsesAreTheirOwn ==
    \A k \in Call :
        call[k].result.kind = "Response" =>
            /\ call[k].result.reply.of = k
            /\ call[k].result.reply.by = call[k].target

\* A request is given to a function of its gateway whose path stands for its
\* own, with the parameters that make it so, and to none that names less of it
\* than another does; it is not found only when there is no such path, or no
\* function for its method at one that names most (gateway/src/lib.rs:450-476).
RequestsReachTheirEndpoint ==
    [][\A k \in Call :
          call[k].pc = "idle" /\ call'[k].pc # "idle" =>
            LET endpoints == gateways[gateway[k]]
                candidates == {p \in DOMAIN endpoints : StandsFor(p, path[k])}
                best == {p \in candidates :
                            \A q \in candidates : Named(q, path[k]) <= Named(p, path[k])}
            IN  IF call'[k].pc = "routing"
                THEN \E p \in best :
                        /\ method[k] \in DOMAIN endpoints[p]
                        /\ endpoints[p][method[k]] = call'[k].function
                        /\ Instantiate(p, call'[k].params) = path[k]
                ELSE best = {} \/ \E p \in best : method[k] \notin DOMAIN endpoints[p]]_vars

\* Every request that arrives is responded to, whatever becomes of the
\* connection, the other node and the function on it (request_routing.rs:94-122).
EveryRequestIsResponded == <>[](\A k \in Call : call[k].pc \in {"idle", "done"})

\* Every connection is given up in the end by both nodes, also when one of them
\* only learns from the connection itself that it is gone
\* (connection_manager.rs:502-556).
ConnectionsAreReleased == <>[](\A n \in Node : DOMAIN connections[n] = {})
=============================================================================
