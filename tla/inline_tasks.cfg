SPECIFICATION FairSpec
CONSTANTS
    Events = {e1, e2}
    Payloads <- TillRedriven
    Tasks = {t1, t2, t3}
    MaxFaults = 1
    MaxCalls = 2
INVARIANTS PendingIsUnattempted FailedHasError
PROPERTIES AcceptedIsAttempted
