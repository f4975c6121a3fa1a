SPECIFICATION Spec
CONSTANTS
    Events = {e1}
    Payloads <- AllPayloads
    Workers = {w1, w2}
    Operators = {o1, o2}
    MaxAttempts = 2
    Limits = {1}
    MaxFaults = 2
    MaxCalls = 2
SYMMETRY Symmetry
INVARIANTS TypeOK AtLeastOnce NoDanglingMessage DeadLetterWhenExhausted OrphansAccounted DuplicatesAccounted
