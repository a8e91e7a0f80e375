SPECIFICATION Spec
CONSTANTS
    Cells = {c1, c2, c3, c4}
    NULL = NULL
INVARIANTS
    RingsWellFormed
PROPERTIES
    RemoveEntryAnswer
    ImplementsRings
