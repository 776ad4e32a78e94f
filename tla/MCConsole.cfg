CONSTANTS
    Threads = {t1, t2}
    Chars <- MCChars
    Formats <- MCFormats
    Calls = 1
    Yres = 5
    FontHeight = 2
    Cols = 3
    HexWidth = 2
    INT_MAX = 9
    WordSize = 20
SPECIFICATION Spec
CHECK_DEADLOCK FALSE
CONSTRAINT UntilBroken
INVARIANTS
    ScreenIsTail
    TextsWhole
    PrintfExact
    ReturnsLength
PROPERTIES
    ShownAtLast
