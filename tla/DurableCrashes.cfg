SPECIFICATION Spec
CONSTANTS
    c1 = c1
    c2 = c2
    Clients = {c1, c2}
    Recovery = Recovery
    Nobody = Nobody
    NumLabels = 1
    Faults = {"contention", "io", "torn", "range"}
    MaxRequests = 2
    MaxGen = 2
    MaxCrashes = 2
SYMMETRY ClientSymmetry
INVARIANT TypeOK
INVARIANT CommittedErased
INVARIANT NoResurrection
PROPERTY BootRetiresAll
PROPERTY KeepsContract
CHECK_DEADLOCK FALSE
