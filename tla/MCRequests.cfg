SPECIFICATION Spec
CONSTANTS
    a = a
    b = b
    k1 = k1
    k2 = k2
    Node <- MCNode
    Call <- MCCall
    GatewayID = {1}
    Param = {"{id}", "{kind}"}
    len <- MClen
    Definitions <- MCDefinitions
    MaxDeploys = 1
    origin <- MCorigin
    gateway <- MCgateway
    method <- MCmethod
    path <- MCpath
INVARIANT ResponsesAreTheirOwn
 
PROPERTY EveryRequestIsResponded
PROPERTY ConnectionsAreReleased
CHECK_DEADLOCK FALSE
