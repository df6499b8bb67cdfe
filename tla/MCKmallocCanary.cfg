SPECIFICATION Spec
CONSTANTS
    Capacity = 26
    Requests = {3, 6}
    Chunks = 1
    SlabObjects = 1
INVARIANT
    FreeListCanaries
