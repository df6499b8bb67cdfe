SPECIFICATION Spec
CONSTANTS
    Lbas = {l1, l2}
    Bad = {l2}
    Values = {a, b}
    QueueSizes = {0, 2, 4}
    IdxMod = 4
INVARIANTS
    RingSound
    NoLateDma
PROPERTIES
    RwReturns
    ImplementsBlockDevice
