SPECIFICATION ClientsSpec
CONSTANTS
    Ptrs = {p1, p2}
    Sizes = {1}
    SizeMod = 16
    MaxCount = 3
    MaxRecords = 3
    Switches = {"deinit"}
    Targets = {t1}
    Lengths = {0, 2}
    InfoSize = 2
    Bytes = {2}
    MaxFile = 2
    Companies <- MCCompanies
SYMMETRY MCAlike
INVARIANTS
    TotalIsMemoryUsed
    MaximumIsPeak
    InUseIsTracked
    EveryBlockHasItsOwner
PROPERTIES
    LengthThenRead
    AppendKeeps
