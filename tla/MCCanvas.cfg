SPECIFICATION CanvasSpec
CONSTANTS
    p1 = p1
    p2 = p2
    q = q
    a = a
    b = b
    Ids = {a, b}
    Requests = {p1, p2, q}
    Published = {p1, p2}
    Versions = {1, 3}
    NoRow = NoRow
    NoPointer = NoPointer
    Viewers = {a, b}
    Conversations = {"c1"}
    Candidates <- MCCandidates
    AllowedKinds <- MCKinds
    Pieces = {"mermaid", "svg", "fenced svg"}
    MaxPublishes = 2
    MaxPieces = 2
INVARIANTS
    NoSharedVersion
    NewerThanSeen
    PanelKept
    ToolKept
PROPERTY ImplementsTable
SYMMETRY Symmetry
CHECK_DEADLOCK FALSE
