SPECIFICATION Spec
CONSTANTS
    quick = quick
    slow = slow
    a = a
    b = b
    None = None
    Names <- MCNames
    Subscribers <- MCSubscribers
    Prompt <- MCPrompt
    SignalKinds <- MCSignalKinds
    Filters <- MCFilters
    BufferSize = 2
    MaxSignals = 3
INVARIANTS
    TypeOK
    CountersAgree
    FirstSignalsTaken
PROPERTIES
    ImplementsStream
SYMMETRY MCSymmetry
CHECK_DEADLOCK FALSE
