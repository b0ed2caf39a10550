SPECIFICATION Spec
CONSTANTS
    Users = {u1, u2}
    Sizes = {1, 3}
    HeapTop = 5
    MaxBlocks = 3
INVARIANTS
    NoOverlap
CHECK_DEADLOCK FALSE
