\* One block with two tool calls, drops and timeouts, fair scheduling.
CONSTANTS
    NBlocks = 1
    NSessions = 2
    Scenarios <- LostOrLate
SPECIFICATION FairSpec
INVARIANTS
    WakesToStop
PROPERTIES
    AtMostOnceTruthful
    EveryBlockReturns
    BlockedCodeWakes
