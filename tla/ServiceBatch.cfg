SPECIFICATION Spec
CONSTANTS
    a = a
    b = b
    Ids = {a, b}
    NoId = NoId
    NumLabels = 3
    PolicyModes = {"always", "never", "coalesce"}
    EveryN = 2
    Engines = {"hnswlib", "faiss", "client"}
    AdapterFaults = {"mirror", "rebuild", "capacity", "remove"}
    DropMappings = TRUE
    AdaptiveSettings = {TRUE, FALSE}
    FailClosed = TRUE
    MaxBatch = 2
    MaxCalls = 4
SYMMETRY IdSymmetry
INVARIANT TypeOK
INVARIANT MappingsAgree
INVARIANT ResidueTracked
INVARIANT CompleteIsErased
PROPERTY ChromaFailsClosed
PROPERTY OthersStaySearchable
CHECK_DEADLOCK FALSE
