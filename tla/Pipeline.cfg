SPECIFICATION PipelineSpec
CONSTANTS
    Procs = {2, 3, 4, 5}
    Content = {0, 1, 2}
    NoContent = 0
    MaxSent = 3
    MaxQueued = 3
    Stages = 2
    First = 1
    Mortal = {3, 5}
INVARIANTS
    Conserved
PROPERTIES
    Delivered
