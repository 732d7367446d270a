\* Two blocks of one turn: connections may drop while each makes a tool call, or the
\* blocks may be stopped, cancelled or leave a thread behind.
CONSTANTS
    NBlocks = 2
    NSessions = 4
    Scenarios <- TwoKinds
SPECIFICATION Spec
INVARIANTS
    TypeOK
    OwnOutput
    RunsAtMostOnce
    NoProtocolError
