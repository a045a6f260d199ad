CONSTANTS
    c1 = c1
    c2 = c2
    c3 = c3
    t1 = t1
    t2 = t2
    Clients <- ThreeClients
    Threads <- TwoThreads
    MaxRequests = 2
    Window = 2
    MaxClients = 2
    MaxClock = 3
SPECIFICATION Spec
SYMMETRY Symmetry
INVARIANTS TypeOK LiveWindowBound BoundedMemory
PROPERTIES RetryAfterHonoured ForgetsLeastRecent ExactDecision
