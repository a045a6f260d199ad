CONSTANTS
    x1 = x1
    x2 = x2
    said = said
    RefusalText = RefusalText
    NoAnswer = NoAnswer
    Forever = Forever
    NoEntry = NoEntry
    Workers <- TwoWorkers
    Questions <- FourQuestions
    Weak <- OtherWording
    Texts <- TwoTexts
    CacheKeys <- ThreeKeys
    Values <- Answers
    MaxEntries = 2
    TTL = 1
    MaxClock = 2
    MaxLookups = 4
SPECIFICATION Spec
CHECK_DEADLOCK FALSE
SYMMETRY Symmetry
INVARIANTS TypeOK KeepsRecent OwnAnswer OnlyGenerated
PROPERTIES Remembers HitIsLatest RepeatIsFree
