SPECIFICATION Spec
CONSTANTS
    r1 = r1
    r2 = r2
    s1 = s1
    s2 = s2
    Request = {r1, r2}
    Stack = {s1, s2}
    StackOf <- MCStackOf
INVARIANT
    UsageIsAccountedFor
PROPERTIES
    UsageIsCharged
    
CHECK_DEADLOCK FALSE
