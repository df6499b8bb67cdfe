SPECIFICATION Spec
CONSTANTS
    NumFrames = 9
    BootFrames = {0, 1}
    Entries = 3
    Dirs = 3
    HeapBase = 2
    HeapPages = 6
    IntFrames = 16
    HeapRequests = {2, 3}
    Segments <- MCOnePage
    MaxProcesses = 1
INVARIANTS
    FramesExclusive
    KernelImageMapped
    NoLeakWithoutFailure
    SegmentsLoaded
    VerifyPanicExplained
