SPECIFICATION Spec
CONSTANTS
    Main = main
    Workers = {w1}
    TaskLimit = 1
    MaxTasks = 1
    MaxGroups = 0
    MaxRevision = 0
PROPERTY ShutdownEnds
CHECK_DEADLOCK FALSE
