SPECIFICATION Spec
CONSTANTS
    Keys = {k1, k2}
    Values = {v1}
    Absent = Absent
    Untouched = Untouched
    MaxRevision = 3
    MaxBatch = 1
    Retentions = {0, 1}
SYMMETRY KeySymmetry
VIEW LiveState
INVARIANT CommitSurvivesPowerLoss
