\* An authorized host and one without the token, two attempts each, a client that sends
\* an ordinary request, two containers, fair.
CONSTANTS
    Hosts = {h1, h2}
    Probes = {p1}
    Authorized = {h1}
    Containers = {k1, k2}
    MaxAttempts = 2
    Nowhere = Nowhere
SPECIFICATION FairSpec
INVARIANTS
    TypeOK
    SingleUse
PROPERTIES
    DisconnectExits
    StartEnds
