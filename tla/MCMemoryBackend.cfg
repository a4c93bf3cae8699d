SPECIFICATION Spec
CONSTANTS
    Token = {t1, t2, t3}
    MaxLen = 3
    None = None
    Inputs <- MCInputs
    Configs <- MCConfigs
INVARIANTS
    TypeOK
    IndexIsExact
PROPERTIES
    Implements
CHECK_DEADLOCK FALSE
