SPECIFICATION Spec
CONSTANTS
    e1 = e1
    e2 = e2
    t1 = t1
    t2 = t2
    Entities = {e1, e2}
    Threads = {t1, t2}
    Backends = {"memory", "file", "file_master", "cloud"}
    KeyFaults = {"persist", "remote", "torn"}
    MaxKeys = 3
    MaxRestarts = 2
    MaxShreds = 2
SYMMETRY KeySymmetry
INVARIANT TypeOK
INVARIANT ShredHolds
INVARIANT NoLateDecrypt
INVARIANT OneKeyPerEntity
CHECK_DEADLOCK FALSE
