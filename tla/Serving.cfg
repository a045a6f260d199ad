CONSTANTS
    Requests = {r1, r2, r3}
    Workers = {w1, w2}
    None = None
    Retries <- OneRetry
    Replies <- SomeReplies
    Second = 1
    Cushion = 1
    MaxBackoff = 2
SPECIFICATION Spec
INVARIANTS TypeOK OnePlace CostBounded GivesUpWhenSpent HintHonoured
PROPERTIES AllAnswered
CHECK_DEADLOCK FALSE
