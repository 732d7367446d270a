\* Three blocks, each told to stop at most once, readers that may lag.
CONSTANTS
    NBlocks = 3
SPECIFICATION Spec
INVARIANTS
    OnlyStrikesStray
