SPECIFICATION Spec
CONSTANTS
    Bits = 8
    Cap = 7
    MaxArgs = 2
    Chars = {32, 33, 38, 94}
    PrintRoom = 4
    MaxText = 4
INVARIANTS
    ParsedAsWords
    NumbersKept
PROPERTY
    ImplementsTextLine
