SPECIFICATION Spec
CONSTANTS
    c1 = c1
    Clients = {c1}
    Recovery = Recovery
    Nobody = Nobody
    NumLabels = 2
    Faults = {"range"}
    MaxRequests = 1
    MaxGen = 1
    MaxCrashes = 1
INVARIANT PendingReplayable
CHECK_DEADLOCK FALSE
