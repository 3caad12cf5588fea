CONSTANTS
    MaxIds = 2
    MaxEdits = 2
    MaxFailures = 0
SPECIFICATION Spec
INVARIANT ScaleSetCleanedUp
CHECK_DEADLOCK FALSE
