SPECIFICATION FairSpec
CONSTANTS
    c1 = c1
    Clients = {c1}
    Recovery = Recovery
    Nobody = Nobody
    NumLabels = 1
    Faults = {"contention", "io", "dirsync"}
    MaxRequests = 2
    MaxGen = 1
    MaxCrashes = 2
PROPERTY EventuallyServes
CHECK_DEADLOCK FALSE
