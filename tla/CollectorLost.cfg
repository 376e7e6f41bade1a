CONSTANTS
    Nodes = {a, b}
    Arena = {}
    Regs = {r1}
    None = None
    MaxRoots = 1
    MaxEdges = 2
SPECIFICATION GCSpec
INVARIANTS
    NothingLost
CHECK_DEADLOCK FALSE
