SPECIFICATION BufferSpec
CONSTANTS
    Lengths = {1, 2, 3, 5, 9}
    DefaultAlloc = 4
    MaxSize = 20
INVARIANTS
    WithinBlock
    NoUndefinedBehaviour
    NothingLost
CHECK_DEADLOCK FALSE
