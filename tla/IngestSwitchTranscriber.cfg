CONSTANTS
    m1 = m1
    m2 = m2
    w1 = w1
    w2 = w2
    Missing = Missing
    Torn = Torn
    NoName = NoName
    NotLoaded = NotLoaded
    NoTranscript = NoTranscript
    NoRun = NoRun
    Episodes <- TwoEpisodes
    Embedders <- OneEmbedder
    Transcribers <- TwoTranscribers
    Dim <- SameDim
    Slug <- OwnSlug
    MaxChunks = 1
    MaxFaults = 0
    MaxRuns = 2
    MaxCrashes = 0
SPECIFICATION Spec
CHECK_DEADLOCK FALSE
INVARIANTS OneVocabulary
