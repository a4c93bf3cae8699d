SPECIFICATION FairSpec
CONSTANTS
    Token = {t1, t2}
    MaxLen = 3
    PartitionCount = 2
    ChunkSize = 2
    None = None
    NoLimit = NoLimit
    Limits = {NoLimit, 1}
    Inputs <- MCInputs
    Configs <- MCConfigs
INVARIANTS
    DiskLimitEnforced
    FailureLeavesNoTrace
PROPERTIES
    Implements
    Terminates
CHECK_DEADLOCK FALSE
