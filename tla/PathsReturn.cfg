SPECIFICATION PASpec
CONSTANTS
    Conditions = {"p", "q"}
    PathLimit = 2
    MayReturn = TRUE
INVARIANT PathsFaithful
CHECK_DEADLOCK FALSE
