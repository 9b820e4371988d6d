\* Two calls a response, two rounds, two calls in all, one rewrite, one takeover.
CONSTANTS
    Limits <- WriterTools
    CallIds = {i1, i2}
    None = None
    MaxToolRounds = 2
    MaxTotalCalls = 2
    MaxPerResponse = 2
    MaxAttempts = 2
    MaxFailures = 1
    MaxTakeovers = 1
SPECIFICATION Spec
SYMMETRY LoopSymmetry
CHECK_DEADLOCK FALSE
INVARIANTS
    ConversationIsSound
    ChapterBudgetHolds
    RefusalsAreExplained
    EvidenceIsRecorded
