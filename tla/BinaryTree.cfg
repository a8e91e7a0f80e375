SPECIFICATION Spec
CONSTANTS
    Keys = {1, 2, 3, 4, 5, 6}
    NULL = NULL
CHECK_DEADLOCK FALSE
INVARIANTS
    LinksAgree
    HoldsWhatIsPresent
