CONSTANTS
    Transcripts <- ShortTranscripts
    MaxTokens = 4
    OverlapTokens = 2
    BatchSize = 2
    MaxBatch = 2
    MaxRuns = 2
SPECIFICATION IngestSpec
CHECK_DEADLOCK FALSE
INVARIANTS TypeOK PiecesTile ChunksAdvance WithinBudget OverlapIsLongest
    EmbeddedBeforeDelete NeverMixed WholeUnlessHalfway
