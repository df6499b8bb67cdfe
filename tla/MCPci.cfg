SPECIFICATION PciSpec
CONSTANTS
    Slots = 1
    Sizes = {4}
    PageSize = 15
    HeaderSize = 2
    LinkSize = 2
    HeapPages = 1
    Devs = 2
    Fns = 3
    DevSize = 4
    InitialCapacity = 2
    MaxDepth = 4
INVARIANTS
    ListSound
    StopsExplained
    DriverRight
PROPERTIES
    ScanEnds
