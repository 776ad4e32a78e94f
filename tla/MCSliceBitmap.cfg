CONSTANTS
    Pages = {p1, p2, p3, p4}
    NULL = NULL
    NoPage = NoPage
    SliceCount = 3
    NumOfAlloc = 3
    MaxManagers = 2
    LinkedMode = FALSE
SYMMETRY Symmetric
SPECIFICATION Spec
INVARIANTS
    InsidePages
    NoUseAfterFree
    BitmapExact
    ListsMatchUse
PROPERTIES
    NoWaste
