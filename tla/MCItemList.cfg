SPECIFICATION Spec
CONSTANTS
    Nodes = {n1, n2, n3}
    NULL = NULL
    References = {a, b}
    Copies = {c}
    HasDestroy = TRUE
    AddsAfterLast = FALSE
    CallbackAdds = {"remove"}
    KeepsCursor = FALSE
INVARIANTS
    NoUndefinedBehaviour
    NothingLost
    HandleConsistent
PROPERTIES
    ImplementsQueue
    CallsReturn
