SPECIFICATION Spec
CONSTANTS
    approval = approval
    deposit = deposit
    other = other
    v1 = v1
    v2 = v2
    Unparsable = Unparsable
    None = None
    Correlations <- MCCorrelations
    EventTypes <- MCEventTypes
    FieldNames <- MCFieldNames
    FieldValues <- MCFieldValues
    DefaultWindowTTL = 3
    MaxDuration = 10
    MaxWindowSize = 2
    MaxEvents = 4
    MaxTime = 3
INVARIANTS
    WithinOwnWindow
SYMMETRY MCSymmetry
CHECK_DEADLOCK FALSE
