\* Two frames and the ShutdownFrame through a socket that holds two pieces, fair.
CONSTANTS
    Frames = {m1, m2}
    Shutdown = shutdown
    Capacity = 2
SPECIFICATION FairSpec
INVARIANTS
    OwnSocket
    WholeFrames
PROPERTIES
    StartEnds
    Reclaimed
