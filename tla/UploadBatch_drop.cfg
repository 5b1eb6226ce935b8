SPECIFICATION DropFairSpec
CONSTANTS
    N = 3
    MaxParallel = 2
    Buffer = 1
INVARIANTS MkdirFirst NothingLeftOut
PROPERTIES DropEnds
CHECK_DEADLOCK FALSE
