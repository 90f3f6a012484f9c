---------------------------- MODULE MCMembership ----------------------------
EXTENDS Membership

CONSTANTS a, b

\* The executor at address a is restarted, the one at b watches.
MCStarted == {<<a, 1>>, <<a, 2>>, <<b, 1>>}

MCMaxWrites == [n \in MCStarted |-> IF n = <<a, 1>> THEN 2 ELSE 1]
=============================================================================
