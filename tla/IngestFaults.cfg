CONSTANTS
    m1 = m1
    m2 = m2
    w1 = w1
    w2 = w2
    Missing = Missing
    Torn = Torn
    NoName = NoName
    NotLoaded = NotLoaded
    NoTranscript = NoTranscript
    NoRun = NoRun
    Episodes <- TwoEpisodes
    Embedders <- TwoEmbedders
    Transcribers <- TwoTranscribers
    Dim <- OwnDim
    Slug <- OwnSlug
    MaxChunks = 2
    MaxFaults = 1
    MaxRuns = 2
    MaxCrashes = 1
SPECIFICATION Spec
CHECK_DEADLOCK FALSE
INVARIANTS ReportedIsStored IndexedAfresh
PROPERTIES FinishedIsSaved
