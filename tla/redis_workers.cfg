SPECIFICATION FairSpec
CONSTANTS
    Events = {e1, e2}
    Payloads <- TillRedriven
    Workers = {w1, w2}
    MaxAttempts = 2
    CountLimit = 3
    MaxFaults = 1
    MaxCalls = 1
INVARIANTS TypeOK LostOnlyByFault
PROPERTIES FollowsLifecycle RecoverableSettle
