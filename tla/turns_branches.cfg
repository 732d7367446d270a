\* Two calls of one invocation in two contexts, no faults.
CONSTANTS
    c1 = c1
    c2 = c2
    c3 = c3
    x1 = x1
    x2 = x2
    i1 = i1
    i2 = i2
    Calls = {c1, c2}
    Contexts = {x1, x2}
    Invocations = {i1}
    Sessions = {s1, s2, s3, s4}
    CtxOf <- BranchesCtx
    InvOf <- BranchesInv
    Faults = {}
    NoCall = NoCall
    NoTurn = NoTurn
SPECIFICATION Spec
INVARIANTS
    OneContainerPerTurn
