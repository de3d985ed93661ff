SPECIFICATION Spec
CONSTANTS
    p1 = p1
    p2 = p2
    q = q
    a = a
    b = b
    Ids = {a, b}
    Requests = {p1, p2, q}
    Published = {p1, p2}
    Versions = {1, 3}
    NoRow = NoRow
    NoPointer = NoPointer
INVARIANT OptimisticIsReplaced
SYMMETRY Symmetry
CHECK_DEADLOCK FALSE
