SPECIFICATION Spec
CONSTANTS
    d1 = d1
    d2 = d2
    Requests = {r1, r2}
    DeliveryIds = {d1, d2}
    NoId = NoId
    EmptyId = EmptyId
    Headers <- OneDelivery
    ApiKeySet = FALSE
    SecretSet = FALSE
    Tolerance = 1
    MaxFaults = 0
INVARIANTS DuplicateIsAnswered
