CONSTANTS
    Pages = {p1, p2, p3}
    NULL = NULL
    NoPage = NoPage
    SliceCount = 3
    NumOfAlloc = 2
    MaxManagers = 2
    LinkedMode = TRUE
SYMMETRY Symmetric
SPECIFICATION Spec
INVARIANTS
    InsidePages
