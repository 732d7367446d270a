\* Two blocks of one turn, the first of which may be cancelled.
CONSTANTS
    NBlocks = 2
    NSessions = 4
    Scenarios <- CancelOnly
SPECIFICATION Spec
INVARIANTS
    NeverDesyncs
