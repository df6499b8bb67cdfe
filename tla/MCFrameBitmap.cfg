SPECIFICATION Spec
CONSTANTS
    PagesPerBlock = 3
    TotalPages = 11
    LowPages = 2
    U8 = 8
    SizeMod = 16
    Requests <- MCRequestsFit
    MemoryMaps <- MCMaps
INVARIANTS
    PagesOwned
    Accounting
    RefusedOnlyWhenFull
PROPERTIES
    ImplementsFrameAllocator
