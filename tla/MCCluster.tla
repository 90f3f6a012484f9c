----------------------------- MODULE MCCluster -----------------------------
EXTENDS Cluster

CONSTANTS near, far, s1

\* The node at address near may be restarted.
MCRestart == {<<near, 1>>, <<near, 2>>, <<far, 1>>}
\* Two nodes that are started once.
MCPair == {<<near, 1>>, <<far, 1>>}

MCDistance ==
    [s \in Stack |-> [n \in Node |-> n[2] + IF n[1] = near THEN 0 ELSE 10]]
=============================================================================
