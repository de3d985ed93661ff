SPECIFICATION AwaitingSpec
CONSTANTS
    k1 = k1
    k2 = k2
    k3 = k3
    k4 = k4
    Calls = {k1, k2, k3, k4}
    Overlapping = FALSE
    MaxRegs = 2
    MaxSubs = 3
    MaxTasks = 3
    c1 = c1
    l1 = l1
    l2 = l2
    u1 = u1
    u2 = u2
    a1 = a1
    Members = {c1}
    Listeners = {l1, l2}
    Updates = {u1, u2}
    Awareness = {a1}
    MaxStates = 2
    MaxInits = 2
INVARIANTS
    DocumentOwned
    NoApplyAfterDestroy
    ListenersConverge
    SerialInvocations
    LifecycleKept
    DeactivatedIsDrained
PROPERTIES
    EverythingSettles
    EmptyRoomCollected
CHECK_DEADLOCK FALSE
