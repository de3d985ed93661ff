SPECIFICATION Spec
CONSTANTS
    h1 = h1
    h2 = h2
    h3 = h3
    c1 = c1
    c2 = c2
    Handles = {h1, h2, h3}
    Conns = {c1, c2}
    ConnOf <- MCConnOf
    MaxQueued = 2
    MaxFrames = 2
    NoHandle = NoHandle
INVARIANTS
    TypeOK
    NoGhostPresence
    RoomAccounted
    NoSilentLoss
PROPERTY AbortedIsReleased
CHECK_DEADLOCK FALSE
