CONSTANTS
    FramesNumber = 6
    BUDDY_MAXLEVEL = 3
    BlockSize <- MCBlockSize
    MaxRequest = 5
SPECIFICATION Spec
CONSTRAINT Uncorrupted
INVARIANTS
    TypeOK
    FreshUntilCorrupted
    TableConsistent
    FramesConserved
    NoSpuriousFailure
PROPERTIES
    ImplementsFrameAllocator
