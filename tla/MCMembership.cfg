SPECIFICATION Spec
CONSTANTS
    a = a
    b = b
    Address = {a, b}
    MaxGeneration = 2
    Stack = {s1}
    Started <- MCStarted
    AssumeDeadAfter = 1
    MaxTime = 1
    MaxWrites <- MCMaxWrites
CHECK_DEADLOCK FALSE
INVARIANTS
    ListenerAgreesOnLiveness
    NoPhantomDeployment
PROPERTY
    GenerationNeverRegresses
