SPECIFICATION Spec
CONSTANTS
    BlockNum = 2
    BlockLen = 2
    ImageLen = 1
    Addresses = {0, 1, 2}
    Radix = 2
    FifoDepth = 2
    RETRY = 3
    MaxRefusals = 2
INVARIANT
    InStep
PROPERTIES
    ImplementsBlockDevice
    Returns
CHECK_DEADLOCK FALSE
