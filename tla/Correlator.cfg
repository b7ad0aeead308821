SPECIFICATION FairSpec
CONSTANTS
    approval = approval
    deposit = deposit
    other = other
    v1 = v1
    v2 = v2
    Unparsable = Unparsable
    None = None
    Correlations <- MCCorrelations
    EventTypes <- MCMoreEventTypes
    FieldNames <- MCFieldNames
    FieldValues <- MCFieldValues
    DefaultWindowTTL = 3
    MaxDuration = 10
    MaxWindowSize = 2
    MaxEvents = 3
    MaxTime = 3
INVARIANTS
    TypeOK
    WindowBound
    WindowOrdered
    NoDoubleUse
    SignalJustified
    Drained
    NoSilentLoss
PROPERTIES
    ExpiredPruned
CHECK_DEADLOCK FALSE
