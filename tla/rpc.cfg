\* The main thread and two helpers, one call each, two other frames, fair.
CONSTANTS
    Main = main
    Threads = {main, t1, t2}
    MaxCalls = 1
    MaxFrames = 2
    HostFrame = HostFrame
SPECIFICATION FairSpec
INVARIANTS
    TypeOK
    NoLostWakeup
    RepliesWanted
    ReplyBeatsClose
    FramesInOrder
PROPERTIES
    EveryCallEnds
