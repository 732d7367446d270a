\* Two calls of one invocation and one of another, every fault, two sessions, fair.
CONSTANTS
    c1 = c1
    c2 = c2
    c3 = c3
    x1 = x1
    x2 = x2
    i1 = i1
    i2 = i2
    Calls = {c1, c2, c3}
    Contexts = {x1, x2}
    Invocations = {i1, i2}
    Sessions = {s1, s2}
    CtxOf <- TwoInvocationsCtx
    InvOf <- TwoInvocationsInv
    Faults = {"escape", "cancel"}
    NoCall = NoCall
    NoTurn = NoTurn
SPECIFICATION FairSpec
INVARIANTS
    TypeOK
    RegisteredIsOpen
    NoOrphan
    ReaperSparesUsed
    OneContainerPerTurn
    OnlyReconnectsStrand
PROPERTIES
    Reclaimed
    SwitchOnlyFromClosed
