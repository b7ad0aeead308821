SPECIFICATION FairSpec
CONSTANTS
    Backoffs <- MCBackoffs
    CacheSize = 1
    EventBuffer = 1
    MaxBlock = 3
    MaxLogs = 3
INVARIANTS
    TypeOK
    CacheWindow
    EventStamped
    NothingSkipped
    RetryDiscipline
    TrackerAgrees
PROPERTIES
    AdapterEnds
CHECK_DEADLOCK FALSE
