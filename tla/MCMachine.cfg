SPECIFICATION MCSpec
CONSTANTS
    VMs = {f1, f2}
    Evidence = {s1, s2}
    Times = {1, 2}
    Granted <- MCGranted
    Attempts = 2
    MaxRevision = 2
    MaxTokens = 3
    MaxEpoch = 3
    ReactiveRoots = {a, b}
    Derived = {f1, f2}
    Places = {s1, s2}
    Suspended = {}
    NoNode = NoNode
    MaxVmRevision = 1
    Nodes = {a, b}
    Arena = {b}
    Regs = {r1}
    MaxRoots = 1
    MaxEdges = 2
    None = None
    Asyncs = {f1, f2}
    Composites = {s1, s2}
    Steps = {"await", "run"}
    MaxSteps = 1
    MaxFrames = 4
    MaxWaits = 2
    MaxRuns = 3
SYMMETRY Interchangeable
INVARIANTS
    OneEvidencePerTime
    ReplayComplete
    SnapshotTrue
    GarbageGone
    FullSweepsOnlyGarbage
    HistoryAgrees
    NobodyLeftAsleep
PROPERTIES
    OnlyWithAuthority
    ImplementsHistory
CHECK_DEADLOCK FALSE
