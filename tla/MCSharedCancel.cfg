SPECIFICATION Spec
CONSTANTS
    VMs = {v1, v2}
    Times = {1}
    Evidence = {a}
    Granted <- MCGranted
    Attempts = 2
    MaxRevision = 1
    MaxTokens = 3
    MaxEpoch = 3
PROPERTY CancelledPublishesNothing
CHECK_DEADLOCK FALSE
