SPECIFICATION Spec
CONSTANTS
    Procs = {a, b}
    Content = {x, y}
    NoContent = x
    MaxSent = 2
    MaxQueued = 3
INVARIANTS
    TypeOK
PROPERTIES
    InOrder
    ImplementsMailboxes
