SPECIFICATION Spec
CONSTANTS
    Events = {e1}
    Payloads <- FlakyOnly
    Workers = {w1, w2}
    Operators = {o1}
    MaxAttempts = 1
    Limits = {1}
    MaxFaults = 0
    MaxCalls = 3
PROPERTIES ProcessedCannotBeRetried
