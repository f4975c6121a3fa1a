SPECIFICATION FairSpec
CONSTANTS
    Events = {e1}
    Payloads <- TillRedriven
    Workers = {w1}
    Operators = {o1, o2}
    MaxAttempts = 2
    Limits = {1, 2}
    MaxFaults = 2
    MaxCalls = 2
INVARIANTS SuccessIsKept FailedHasError DeadLetteredIsFailed
PROPERTIES ImplementsLifecycle ReasonIsLostOnlyToReset EventsSettle
