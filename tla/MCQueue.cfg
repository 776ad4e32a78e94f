CONSTANTS
    p1 = p1
    p2 = p2
    Producers = {p1, p2}
    Consumers = {c1, c2}
    Size = 2
    ItemsEach <- MCItemsEach
    MaxTaken = 4
    WordSize = 16
    Garbage = Garbage
SPECIFICATION FairSpec
CHECK_DEADLOCK FALSE
CONSTRAINT RacesOfTwo
INVARIANTS
    InOrder
    CountExact
    NobodyForgotten
PROPERTIES
    AllDelivered
