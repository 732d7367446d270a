\* One call in one context whose reconnected attempt may escape.
CONSTANTS
    c1 = c1
    c2 = c2
    c3 = c3
    x1 = x1
    x2 = x2
    i1 = i1
    i2 = i2
    Calls = {c1}
    Contexts = {x1}
    Invocations = {i1}
    Sessions = {s1, s2}
    CtxOf <- OneInvocationCtx
    InvOf <- OneInvocationInv
    Faults = {"escape"}
    NoCall = NoCall
    NoTurn = NoTurn
SPECIFICATION FairSpec
PROPERTIES
    AlwaysReclaimed
