SPECIFICATION Spec
CONSTANTS
    FullNames = {"A.TXT"}
    PlainNames = {"D"}
    LongNames = {}
    Paths <- TreePaths
    DirPaths <- SubPaths
    RootSlots = 4
    SlotsPerSector = 1
    SectorsPerCluster = 2
    LastCluster = 5
    DirLimit = 5
    Data = {"x"}
    MaxWrite = 2
    MaxFd = 4
    MaxOffset = 2
    Uses = {}
INVARIANTS
    TypeOK
    ChainsDisjoint
    SizeFits
    OpenMatchesDisk
    ReadsContents
    UnlinkRemoves
PROPERTY
    ImplementsFiles
CHECK_DEADLOCK FALSE
