SPECIFICATION Spec
CONSTANTS
    Token = {t1, t2}
    MaxLen = 3
    ChunkSize = 2
    None = None
    NoLimit = NoLimit
    Limits = {NoLimit, 3, 5}
    PageSize = 2
    RowSize = 3
    CachePages = 3
    Inputs <- MCInputs
    Configs <- MCConfigs
INVARIANTS
    DiskLimitEnforced
    FailureLeavesNoTrace
PROPERTIES
    Implements
CHECK_DEADLOCK FALSE
