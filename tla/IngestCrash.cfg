CONSTANTS
    m1 = m1
    m2 = m2
    w1 = w1
    w2 = w2
    Missing = Missing
    Torn = Torn
    NoName = NoName
    NotLoaded = NotLoaded
    NoTranscript = NoTranscript
    NoRun = NoRun
    Episodes <- TwoEpisodes
    Embedders <- OneEmbedder
    Transcribers <- OneTranscriber
    Dim <- SameDim
    Slug <- OwnSlug
    MaxChunks = 2
    MaxFaults = 0
    MaxRuns = 3
    MaxCrashes = 2
SPECIFICATION IndexSpec
CHECK_DEADLOCK FALSE
INVARIANTS TypeOK ServedAligned OnlyCurrentAtRisk
PROPERTIES ShowsWhole
