SPECIFICATION Spec
CONSTANTS
    Nodes = {n1, n2, n3}
    NULL = NULL
    References = {a, b, c}
    Copies = {}
    HasDestroy = TRUE
    AddsAfterLast = TRUE
    CallbackAdds = {}
    KeepsCursor = FALSE
PROPERTIES
    AddSetsTailToEnd
