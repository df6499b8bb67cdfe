SPECIFICATION Spec
CONSTANTS
    Capacity = 22
    Requests = {3, 6, 23}
    Chunks = 1
    SlabObjects = 3
INVARIANTS
    BlocksIntact
    ListCoalesced
    NothingElseLost
