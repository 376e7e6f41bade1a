SPECIFICATION MCSpec
CONSTANTS
    Main = main
    Workers = {w1}
    TaskLimit = 2
    MaxTasks = 3
    MaxGroups = 1
    MaxRevision = 1
    VMs = {v1, v2}
    Evidence = {a}
INVARIANTS
    RunsOnce
    SlotsCounted
    AllToldToStop
    GroupsFinish
PROPERTIES
    NoJoinDeadlocks
    NoWakeUpLost
CHECK_DEADLOCK FALSE
