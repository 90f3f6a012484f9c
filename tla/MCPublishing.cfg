SPECIFICATION Spec
CONSTANTS
    r1 = r1
    r2 = r2
    a = a
    b = b
    c = c
    Run = {r1, r2}
    Seed = {1}
    Project <- MCProject
    MinEscrowBalance = 0
    MaxBalance = 1
    MaxRevision = 2
    MaxChanges = 1
    MaxFaults = 1
 
PROPERTIES
    FlagsAreObeyed
    FreshProjectsAreDeployed
CHECK_DEADLOCK FALSE
