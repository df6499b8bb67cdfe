SPECIFICATION ApSpec
CONSTANTS
    Cpus = 4
    PageWords = 8
    Accesses = 3
INVARIANTS
    OwnStack
    FindsItsWay
    UnmappedAfterReports
PROPERTIES
    StartUpEnds
