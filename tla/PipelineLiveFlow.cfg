SPECIFICATION FairSpec
CONSTANTS
    w1 = w1
    w2 = w2
    Workers <- MCWorkers
    Capacity <- MCCapacity
    Malformed <- MCMalformed
    SignalCount <- MCSignalCount
    Wirings <- MCMainWiring
    MaxLogs = 3
    MaxSubscribers = 1
PROPERTIES
    LiveFlow
CHECK_DEADLOCK FALSE
