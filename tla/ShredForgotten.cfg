SPECIFICATION Spec
CONSTANTS
    e1 = e1
    t1 = t1
    Entities = {e1}
    Threads = {t1}
    Backends = {"cloud"}
    KeyFaults = {}
    MaxKeys = 1
    MaxRestarts = 1
    MaxShreds = 1
INVARIANT ShredIsForever
CHECK_DEADLOCK FALSE
