SPECIFICATION PaymentsSpec
CONSTANTS
    d1 = d1
    d2 = d2
    d3 = d3
    d4 = d4
    r1 = r1
    r2 = r2
    Deliveries = {d1, d2, d3, d4}
    Replicas = {r1, r2}
    EventOf <- MCEventOf
    At <- MCAt
    Bucket <- MCBucket
    Durable = TRUE
    Faults = {"crash", "insert", "release", "response"}
    MaxCalls = 2
    MaxTickets = 2
    Inputs <- MCInputs
    Price = 2
    Part = 1
    Amounts = {0, 10045, 10050, 10049, 9999, 20000, 12345, 12355}
    MaxSafe = 20000
INVARIANTS
    TypeOK
    OneDispatchPerEvent
    HandledIsFinal
    ClaimAccounted
    DuplicateOfSameEvent
    PaymentsKept
PROPERTY EveryDeliveryAnswered
CHECK_DEADLOCK FALSE
