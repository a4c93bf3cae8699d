SPECIFICATION FairSpec
CONSTANTS
    MaxLen = 3
    Unorderable = Unorderable
    None = None
    Inputs <- MCInputs
    Configs <- MCConfigs
INVARIANTS
    UnsortedIsRefused
    RowsHoldForWhatWasRead
    HoldsOneGroup
PROPERTIES
    Implements
    WriterTerminates
CHECK_DEADLOCK FALSE
