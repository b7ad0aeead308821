SPECIFICATION FairSpec
CONSTANTS
    w1 = w1
    w2 = w2
    Workers <- MCWorkers
    Capacity <- MCCapacity
    Malformed <- MCMalformed
    SignalCount <- MCSignalCount
    Wirings <- MCBothWirings
    MaxLogs = 3
    MaxSubscribers = 1
INVARIANTS
    TypeOK
    NoSendOnClosed
    SourceOrder
    SignalsTogether
    ExactlyOnce
PROPERTIES
    DrainsAfterAdapter
    PipelineTerminates
    ShutdownWithoutSubscribers
CHECK_DEADLOCK FALSE
