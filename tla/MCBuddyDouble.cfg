CONSTANTS
    FramesNumber = 4
    BUDDY_MAXLEVEL = 2
    BlockSize <- MCBlockSize
    MaxRequest = 2
SPECIFICATION Spec
INVARIANTS
    HandedOutIsFresh
