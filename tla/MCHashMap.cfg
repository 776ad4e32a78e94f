CONSTANTS
    Keys = {0, 1, 2, 5, 10}
    Values = {v1, v2}
    Absent = Absent
    primes <- MCprimes
    FirstLevel = 2
    LastLevel = 3
    WordSize = 256
    UniqueKeys = TRUE
SPECIFICATION Spec
INVARIANTS
    NoNestedRehash
    OnlyMissesSpin
    FindsContents
PROPERTIES
    ImplementsMap
