SPECIFICATION Spec
CONSTANTS
    MaxLen = 3
    ChunkSize = 2
    None = None
    NoLimit = NoLimit
    Limits = {NoLimit, 1}
    Inputs <- MCInputs
    Configs <- MCConfigs
INVARIANT DiskLimitEnforced
CHECK_DEADLOCK FALSE
