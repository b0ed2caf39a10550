SPECIFICATION Spec
CONSTANTS
    Procs = {p1, p2, p3}
    Commands <- MCCommands
    Paths <- MCPaths
    Initial <- MCInitial
    Plain <- MCPlain
    Ends = {2, 3}
INVARIANTS
    AloneAsDocumented
    AppendsKept
    OwnWordsOnly
SYMMETRY Symmetry
CHECK_DEADLOCK FALSE
