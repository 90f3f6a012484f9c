------------------------------ MODULE Gateway ------------------------------
(***************************************************************************)
(* The HTTP gateways of stacks (rust-libs/gateway/src/lib.rs): their       *)
(* deployment, and the choice of the function that serves a request.  A    *)
(* path is the sequence of its segments between slashes; a segment is a    *)
(* name, or a parameter such as {id}, known by its name.                   *)
(***************************************************************************)
EXTENDS Naturals, Sequences, FiniteSetsExt, TLC

CONSTANTS
    GatewayID,      \* a stack and the name of one of its gateways
    Param,          \* the segments of endpoints that are parameters
    len,            \* the length of each segment
    Definitions,    \* the endpoints gateways may be deployed with
    MaxDeploys

VARIABLES
    gateways,       \* of each gateway its endpoints: a function per path and method
    deploys

NoEndpoints == <<>>
Empty == ""

Init_gateways == gateways = [g \in GatewayID |-> NoEndpoints] /\ deploys = 0
-----------------------------------------------------------------------------
\* The path without its leading slash.
strip_prefix(path) ==
    IF Len(path) > 1 /\ Head(path) = Empty THEN Tail(path) ELSE path

\* Paths that differ only in that slash are one path: either may win.
Stripped(endpoints) ==
    {e \in [{strip_prefix(p) : p \in DOMAIN endpoints} -> {endpoints[p] : p \in DOMAIN endpoints}] :
        \A q \in DOMAIN e : \E p \in DOMAIN endpoints : strip_prefix(p) = q /\ e[q] = endpoints[p]}

Deploys == deploys < MaxDeploys /\ deploys' = deploys + 1

deploy_gateways(g, endpoints) ==
    /\ Deploys
    /\ \E e \in Stripped(endpoints) : gateways' = [gateways EXCEPT ![g] = e]

\* delete_gateways, and delete_all_gateways for all gateways of a stack.
delete_gateways(G) ==
    /\ Deploys
    /\ gateways' = [g \in GatewayID |-> IF g \in G THEN NoEndpoints ELSE gateways[g]]
-----------------------------------------------------------------------------
NoMatch == [matches |-> FALSE]

\* A slip: the rest of the longer path is not looked at.
match_path_prefix(request, endpoint) ==
    LET Loop[i \in 1..Len(request) + Len(endpoint) + 1] ==
            IF i > Len(request) \/ i > Len(endpoint)
            THEN [matches |-> TRUE, score |-> 0, params |-> <<>>]
            ELSE IF ~Loop[i + 1].matches THEN NoMatch
            ELSE IF request[i] = endpoint[i]
            THEN [Loop[i + 1] EXCEPT !.score = @ + len[request[i]]]
            ELSE IF endpoint[i] \in Param
            THEN [Loop[i + 1] EXCEPT !.params = @ @@ (endpoint[i] :> request[i])]
            ELSE NoMatch
    IN  Loop[1]

\* match_path_and_extract_path_params, segment by segment: a parameter takes
\* any segment, and the later of two parameters with a name wins.
match_path(request, endpoint) ==
    LET Loop[i \in 1..Len(request) + Len(endpoint) + 1] ==
            IF i > Len(request) /\ i > Len(endpoint)
            THEN [matches |-> TRUE, score |-> 0, params |-> <<>>]
            ELSE IF i > Len(request) \/ i > Len(endpoint) THEN NoMatch
            ELSE IF ~Loop[i + 1].matches THEN NoMatch
            ELSE IF request[i] = endpoint[i]
            THEN [Loop[i + 1] EXCEPT !.score = @ + len[request[i]]]
            ELSE IF endpoint[i] \in Param
            THEN [Loop[i + 1] EXCEPT !.params = @ @@ (endpoint[i] :> request[i])]
            ELSE NoMatch
    IN  Loop[1]

Matching(endpoints, request) ==
    {p \in DOMAIN endpoints : match_path(request, p).matches}

\* The matching paths that may come last when sorted by score.
Winners(endpoints, request) ==
    {p \in Matching(endpoints, request) :
        \A q \in Matching(endpoints, request) :
            match_path(request, q).score <= match_path(request, p).score}

\* What a request may be given to: the function under its method of a winning
\* path, with the parameters; none where there is none.
NotFound == [found |-> FALSE]

Targets(endpoints, method, request) ==
    IF Winners(endpoints, request) = {} THEN {NotFound}
    ELSE {IF method \in DOMAIN endpoints[p]
          THEN [found |-> TRUE, function |-> endpoints[p][method],
                params |-> match_path(request, p).params]
          ELSE NotFound : p \in Winners(endpoints, request)}
-----------------------------------------------------------------------------
(* What matching is meant to be.                                           *)

\* The path that an endpoint stands for, given its parameters.
Instantiate(endpoint, params) ==
    [i \in DOMAIN endpoint |-> IF endpoint[i] \in DOMAIN params THEN params[endpoint[i]]
                               ELSE endpoint[i]]

StandsFor(endpoint, request) ==
    /\ Len(endpoint) = Len(request)
    /\ \A i \in DOMAIN endpoint : endpoint[i] = request[i] \/ endpoint[i] \in Param

\* How much of the request an endpoint names.
Named(endpoint, request) ==
    MapThenSumSet(LAMBDA i : len[request[i]], {i \in DOMAIN endpoint : endpoint[i] = request[i]})
=============================================================================
