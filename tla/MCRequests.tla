----------------------------- MODULE MCRequests -----------------------------
(* Two requests to one node, which may send them to the other.              *)
EXTENDS Requests

CONSTANTS a, b, k1, k2

MCNode == {a, b}
MCCall == {k1, k2}
MCorigin == [k \in MCCall |-> a]
MCgateway == [k \in MCCall |-> 1]
MCmethod == [k \in MCCall |-> IF k = k1 THEN "Get" ELSE "Put"]
MCpath == [k \in MCCall |-> IF k = k1 THEN <<"user", "x">> ELSE <<"user", "">>]
MClen == [s \in {"", "x", "user", "{id}", "{kind}"} |->
            CASE s = "" -> 0 [] s = "x" -> 1 [] OTHER -> 4]
MCDefinitions ==
    {<<"", "user", "{id}">> :> ("Get" :> "f" @@ "Put" :> "h") @@ <<"user", "{id}">> :> ("Get" :> "f")
        @@ <<"{kind}", "x">> :> ("Get" :> "g") @@ <<"user">> :> ("Get" :> "g" @@ "Put" :> "g")}
=============================================================================
