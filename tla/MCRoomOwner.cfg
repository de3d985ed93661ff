SPECIFICATION Spec
CONSTANTS
    h1 = h1
    h2 = h2
    h3 = h3
    c1 = c1
    c2 = c2
    Handles = {h1, h2}
    Conns = {c1}
    ConnOf <- MCConnOf
    MaxQueued = 2
    MaxFrames = 2
    NoHandle = NoHandle
INVARIANT OwnerIsPresent
CHECK_DEADLOCK FALSE
