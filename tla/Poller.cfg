SPECIFICATION FairSpec
CONSTANTS
    None = None
    MaxBlock = 4
    BufferSize = 2
    LastLog <- MCLastLog
INVARIANTS
    TypeOK
    CursorExact
PROPERTIES
    ImplementsCursor
    DeliversAll
    PollerEnds
CHECK_DEADLOCK FALSE
