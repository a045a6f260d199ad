CONSTANTS
    c1 = c1
    c2 = c2
    c3 = c3
    t1 = t1
    t2 = t2
    Clients <- OneClient
    Threads <- TwoThreads
    MaxRequests = 2
    Window = 2
    MaxClients = 1
    MaxClock = 5
SPECIFICATION Spec
INVARIANTS ExactWindow
