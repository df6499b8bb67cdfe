SPECIFICATION Spec
CONSTANTS
    W = 1
    H = 4
    Lines = 1
    LineLen = 2
    Dots = 2
    Keys = 2
    Capacity = 2
    StrayVectors = {32, 48}
    MaxOdd = 1
INVARIANTS
    KeysInOrder
    DrawsInside
    LineShown
PROPERTIES
    KeysRead
    MainFinishes
    FaultIsFinal
