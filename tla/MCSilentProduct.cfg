SPECIFICATION MCSpec
CONSTANTS
    Supports <- MCSupports
    Laws <- MCLaws
    Constants = {2, 4}
    MaxBuilt = 2
    MaxValues = 7
    MaxAlternatives = 3
    Names = {1, 2, 3}
    Outcomes = {0, 1}
    Tables <- MCTables
    Marginals <- MCMarginals
    Shapes <- MCShapes
    Chance <- MCChance
    Unit = 4
    MaxKernels = 2
    MaxOperations = 5
    Points = {s1, s2}
    BatchSizes = {2}
    Epochs = {1, 2}
    MaxPoints = 3
    MaxSteps = 3
    MaxResults = 3
SYMMETRY Interchangeable
PROPERTY NoSilentProduct
CHECK_DEADLOCK FALSE
