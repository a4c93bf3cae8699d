SPECIFICATION Spec
CONSTANTS
    MaxLen = 3
    None = None
    Null = Null
    Text = Text
    Field = {"a", "b"}
    Calls <- MCCalls
    Normal <- MCNormal
INVARIANTS
    MatchingKeysAreCompared
CHECK_DEADLOCK FALSE
