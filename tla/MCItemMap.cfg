SPECIFICATION Spec
CONSTANTS
    k1 = k1
    k2 = k2
    k3 = k3
    s1 = s1
    s2 = s2
    Keys <- MCKeys
    Slots <- MCSlots
    SlotOf <- MCSlotOf
    Values = {v, w}
    NULL = NULL
    MaxItems = 4
INVARIANTS
    Accounting
PROPERTIES
    ImplementsDictionary
    RemoveReturnsFromPureChain
