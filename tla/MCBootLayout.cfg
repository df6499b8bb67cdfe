SPECIFICATION Spec
CONSTANTS
    Machines <- MCMachines
    Entries = 8
    PageBytes = 4
    WordBits = 8
    DescPerPage = 4
    BootStatePages = 1
    StackPages = 2
    LowPages = 2
INVARIANTS
    MappedExactly
    FramesReserved
    BitmapSound
    ImageWhole
PROPERTIES
    Boots
