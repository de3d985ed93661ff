SPECIFICATION MemSpec
CONSTANTS
    d1 = d1
    d2 = d2
    d3 = d3
    d4 = d4
    r1 = r1
    None = None
    Deliveries = {d1, d2, d3, d4}
    Replicas = {r1}
    EventOf <- MCEventOf
    At <- MCAt
    Bucket <- MCBucket
    Durable = FALSE
    Faults = {"crash"}
INVARIANTS
    MemoryKept
PROPERTIES
    ImplementsAtomicStore
    EveryCallerAnswered
CHECK_DEADLOCK FALSE
