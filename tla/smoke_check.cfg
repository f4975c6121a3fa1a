SPECIFICATION FairSmokeSpec
CONSTANTS
    Accepted = e1
    Retryable = e2
    Events = {e1, e2}
    Payloads <- SmokePayloads
    Workers = {w1}
    Redrive = o1
    Operators = {o1}
    MaxAttempts = 3
    Limits = {10}
    MaxFaults = 2
    MaxCalls = 1
INVARIANTS OkIsEvidence
PROPERTIES SmokePasses
