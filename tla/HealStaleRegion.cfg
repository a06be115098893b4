SPECIFICATION Spec
CONSTANTS
    Threads = {h1, h2}
    Healers = {h1, h2}
    Searchers = {}
    NumNodes = 8
    PoolSize = 8
    Links <- IngestLinks
    Coordinates = {1}
    MaxM = 7
    MaxCalls = 3
PROPERTY HealsUnderLocks
CHECK_DEADLOCK FALSE
