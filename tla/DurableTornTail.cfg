SPECIFICATION Spec
CONSTANTS
    c1 = c1
    Clients = {c1}
    Recovery = Recovery
    Nobody = Nobody
    NumLabels = 1
    Faults = {"torn"}
    MaxRequests = 1
    MaxGen = 1
    MaxCrashes = 1
INVARIANT TornTailIgnored
CHECK_DEADLOCK FALSE
