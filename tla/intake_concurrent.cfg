SPECIFICATION FairServiceSpec
CONSTANTS
    d1 = d1
    d2 = d2
    Requests = {r1, r2}
    DeliveryIds = {d1, d2}
    NoId = NoId
    EmptyId = EmptyId
    Headers <- AllHeaders
    ApiKeySet = TRUE
    SecretSet = TRUE
    Tolerance = 1
    MaxFaults = 2
    Payloads <- FlakyOnly
    Workers = {w1}
    Operators = {o1}
    MaxAttempts = 1
    Limits = {1}
    MaxDeliveryFaults = 2
    MaxCalls = 1
INVARIANTS TypeOK OnlyVerifiedIsStored OneEventPerDelivery AnswerIsTrue StrandedIsReported
    OneEventProcessedPerDelivery NoEventIsForgotten
PROPERTIES AcceptedSettles
