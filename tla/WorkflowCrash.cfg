SPECIFICATION FairSpec
CONSTANTS
    a = a
    b = b
    r1 = r1
    r2 = r2
    Ids = {a, b}
    NumLabels = 2
    Requests = {r1, r2}
    IdsOf <- TwoTickets
    NeedsReplica = {r1}
    NeedsWebhook = {r2}
    FlowFaults = {"contention", "hook", "save", "log"}
    MaxEnvelopes = 2
    MaxAttempts = 2
    MaxIngests = 2
    MaxCalls = 3
    MaxCrashes = 1
INVARIANT TypeOK
INVARIANT CompleteMeansErased
INVARIANT CompleteHasEvidence
 
PROPERTY IntentsSettle
CHECK_DEADLOCK FALSE
