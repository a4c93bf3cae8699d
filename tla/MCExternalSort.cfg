SPECIFICATION FairSpec
CONSTANTS
    MaxLen = 3
    ChunkSize = 2
    None = None
    NoLimit = NoLimit
    Limits = {NoLimit, 1}
    Inputs <- MCInputs
    Configs <- MCConfigs
INVARIANTS
    GroupsAreWhole
    LimitErrorIsJust
    FailureLeavesNoTrace
PROPERTIES
    Implements
    Terminates
CHECK_DEADLOCK FALSE
