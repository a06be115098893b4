SPECIFICATION Spec
CONSTANTS
    p1 = p1
    p2 = p2
    r1 = r1
    w1 = w1
    Replicas = {p1, p2}
    Quorum = 2
    Workers = {w1}
    Requests = {r1}
    MaxEnvelopes = 1
    MaxIntents <- OneIntent
    MaxAttempts = 5
    Transports = {"http"}
    Carriers = {"outbox"}
    FanoutFaults = {"lost"}
    DeliveryFaults = {}
    MaxRestores = 0
    MaxCrashes = 0
    MaxRequeues = 0
INVARIANT ErasedIntentSucceeds
CHECK_DEADLOCK FALSE
