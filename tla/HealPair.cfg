SPECIFICATION Spec
CONSTANTS
    Threads = {h1, h2, s1}
    Healers = {h1, h2}
    Searchers = {s1}
    NumNodes = 8
    PoolSize = 7
    Links <- IngestLinks
    Coordinates = {1}
    MaxM = 4
    MaxCalls = 3
INVARIANT TypeOK
INVARIANT Exclusion
INVARIANT HealersNeverDeadlock
INVARIANT RepairsIsolated
INVARIANT ErasedSevered
INVARIANT LiveConnected
INVARIANT SearchSkipsErased
PROPERTY WritesLocked
CHECK_DEADLOCK FALSE
