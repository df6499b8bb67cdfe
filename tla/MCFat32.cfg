SPECIFICATION Spec
CONSTANTS
    Volumes <- MCVolumes
    Names = {"F", "D", "G", "E", "X", "DOT", "DOTDOT", "TEXT"}
    ShortName <- MCShortName
    Paths <- MCPaths
    Junk <- MCJunk
    Words = 4
    Mod32 = 16000
    Mod28 = 1000
    Eoc = 900
    Limits = {0, 2, 9}
    HeapBuffers = 5
INVARIANTS
    AnswersRight
PROPERTIES
    Returns
