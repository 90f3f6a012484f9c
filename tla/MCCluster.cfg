SPECIFICATION Spec
CONSTANTS
    near = near
    far = far
    s1 = s1
    Address = {near, far}
    MaxGeneration = 2
    Stack = {s1}
    Started <- MCRestart
    Distance <- MCDistance
    MaxCrashes = 1
    MaxMissed = 1
INVARIANTS
    SchedulerCatchesUp
    AdvertisementCatchesUp

    
