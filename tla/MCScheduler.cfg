CONSTANTS
    me = me
    near = near
    far = far
    s1 = s1
    s2 = s2
    Node = {me, near, far}
    Me = me
    Stack = {s1}
    Distance <- MCDistance
    MaxRevision = 2
SPECIFICATION Spec
INVARIANTS
    LocalDeploymentIsServed
    NothingLeftBehind
    CandidateIsLiveAndCloser
    RoutableStackHasTarget
    OpenWorkIsScheduled
PROPERTY
    ConflictIsResolved
