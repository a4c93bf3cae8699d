SPECIFICATION Spec
CONSTANTS
    MaxLen = 3
    None = None
    Unreadable = Unreadable
    Bad = Bad
    SqliteItemLimit = 1
    HashPartitionItemLimit = 2
    BufferSize = 2
    HeaderSize = 2
    Item = {i1, i2}
    Bit = {1, 2}
    Score = {0, 50, 90, 100}
    CommandCalls <- MCCommandCalls
    EventCalls <- MCEventCalls
    SchemaCalls <- MCSchemaCalls
    Files <- MCFiles
    BloomInputs <- MCBloomInputs
    Matrices <- MCMatrices
    Writer <- MCWriter
    Kind <- MCKind
    Content <- MCContent
INVARIANT ModesAgree
CHECK_DEADLOCK FALSE
