SPECIFICATION Spec
CONSTANTS
    Slots = 3
    Sizes = {4, 5, 6}
    PageSize = 15
    HeaderSize = 2
    LinkSize = 2
    HeapPages = 2
INVARIANTS
    ObjectsSound
    RefusedOnlyWhenFull
    OneSlabPerSize
