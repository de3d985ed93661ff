SPECIFICATION Spec
CONSTANTS
    d1 = d1
    d2 = d2
    d3 = d3
    d4 = d4
    r1 = r1
    r2 = r2
    Deliveries = {d1, d2}
    Replicas = {r1, r2}
    EventOf <- MCEventOf
    At <- MCAt
    Bucket <- MCBucket
    Durable = TRUE
    Faults = {}
INVARIANT AckedEventHandled
CHECK_DEADLOCK FALSE
