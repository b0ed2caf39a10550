SPECIFICATION Spec
CONSTANTS
    FullNames = {"A.TXT", "B.TXT", "C.TXT"}
    PlainNames = {}
    LongNames = {}
    Paths <- FlatPaths
    DirPaths <- NoPaths
    RootSlots = 4
    SlotsPerSector = 1
    SectorsPerCluster = 2
    LastCluster = 4
    DirLimit = 4
    Data = {"x"}
    MaxWrite = 2
    MaxFd = 6
    MaxOffset = 4
    Uses = {"past_end"}
INVARIANT
    SizeFits
CHECK_DEADLOCK FALSE
