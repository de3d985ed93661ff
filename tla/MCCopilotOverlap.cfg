SPECIFICATION Spec
CONSTANTS
    k1 = k1
    k2 = k2
    k3 = k3
    k4 = k4
    Calls = {k1, k2, k3, k4}
    Overlapping = TRUE
    MaxRegs = 2
    MaxSubs = 3
    MaxTasks = 3
INVARIANT SerialInvocations
CHECK_DEADLOCK FALSE
