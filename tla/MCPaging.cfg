CONSTANTS
    PgdSize = 5
    PteSize = 2
    OffsetDir = 1
    ZoneDirs = 2
    Memory = {2, 3}
    ClientPages <- MCClientPages
    ClientFrames = {6, 7}
    Wild = 9
    TlbSize = 2
SPECIFICATION Spec
INVARIANTS
    BootMapped
    ZoneLinear
    MappingExact
    TlbCoherent
    TablesPrivate
