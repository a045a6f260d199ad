CONSTANTS
    t1 = t1
    t2 = t2
    m1 = m1
    m2 = m2
    Main = Main
    NoName = NoName
    Missing = Missing
    Torn = Torn
    NotLoaded = NotLoaded
    Threads <- TwoThreads
    Embedders <- TwoEmbedders
    MaxRows = 2
    Cases = 2
SPECIFICATION Spec
CHECK_DEADLOCK FALSE
INVARIANTS TypeOK UpIsSound NobodyLoadsLate HealthTruthful ExitTellsErrors
PROPERTIES Settles
