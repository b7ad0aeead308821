SPECIFICATION FairSpec
CONSTANTS
    quick = quick
    slow = slow
    a = a
    b = b
    None = None
    Names <- MCNames
    Subscribers <- MCSubscribers
    Prompt <- MCPrompt
    SignalKinds <- MCSignalKinds
    Filters <- MCFewFilters
    BufferSize = 1
    MaxSignals = 2
PROPERTIES
    SlowDelayNobody
    GoneRemoved
CHECK_DEADLOCK FALSE
