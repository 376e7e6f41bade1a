SPECIFICATION MCSpec
CONSTANTS
    Ids = {1, 2, 3}
    Specs = {s1, s2}
    MaxPending = 2
    MaxMessageRevisions = 6
    Plans = {p1, p2}
    MaxCommits = 7
    MaxPosts = 2
    Keys = {k1, k2}
    Values = {v1}
    Absent = Absent
    Untouched = Untouched
    MaxRevision = 3
    MaxBatch = 1
    Retentions = {0}
    Sources = {"s", "t"}
    Rows = {"x"}
    Queries = {"u"}
    Inputs <- MCInputs
    BatchIds = {"b1", "b2"}
    Programs = {"p1", "p2"}
    Calculations = {1, 2}
    MaxDatasetRevisions = 5
    Tasks = {"t"}
    Examples = {"x", "y", "z"}
    Payloads = {1}
    MaxVersions = 3
    MaxTaskRevisions = 3
    Events = {1, 2}
    Decisions = {"d"}
    Outcomes = {1, 2}
    Attempts = {"a"}
    MaxRecordRevisions = 3
    Names = {"r", "q", "d"}
    Roots = {"r", "q"}
    Depends <- MCDepends
    Sizes = {1, 2}
    MaxQueueBytes = 3
    MaxAccepted = 4
SYMMETRY KeySymmetry
VIEW MCView
INVARIANTS
    HandleShowsDisk
    Durability
    RefusalsExplained
    NoSubstitution
    OneRecordPerId
    ReceiptsExact
    AtMostOnce
    ReceiptsTruthful
    SnapshotsFresh
    BatchesOnce
    HoldoutHeldOut
    ActiveValidated
    RecordsKept
    EffectAtMostOnce
    ObservationsInOrder
    FailedShowsCurrent
PROPERTIES
    RefinesRevisionedStore
    NeverBack
    ReceiptsSettle
