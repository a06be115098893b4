SPECIFICATION FairSpec
CONSTANTS
    p1 = p1
    p2 = p2
    r1 = r1
    w1 = w1
    w2 = w2
    Replicas = {p1, p2}
    Quorum = 2
    Workers = {w1, w2}
    Requests = {r1}
    MaxEnvelopes = 2
    MaxIntents <- Limits
    MaxAttempts = 2
    Transports = {"inprocess", "http"}
    Carriers = {"outbox", "file", "redis", "sqs"}
    FanoutFaults = {"contention", "lost", "late", "broken", "local"}
    DeliveryFaults = {"torn"}
    MaxRestores = 1
    MaxCrashes = 1
    MaxRequeues = 1
INVARIANT TypeOK
INVARIANT DeliveredIsErased
INVARIANT SeenIsErased
INVARIANT ClaimedOnce
PROPERTY OutboxSettles
CHECK_DEADLOCK FALSE
