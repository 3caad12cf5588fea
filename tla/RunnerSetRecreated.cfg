CONSTANTS
    RunnerSets = {rs1}
    Keys = {k1}
    Listeners = {l1, l2}
    NoListener = NoListener
    MaxIds = 2
    MaxEdits = 1
    MaxFailures = 0
SPECIFICATION Spec
PROPERTY ListenerRestarts
CHECK_DEADLOCK FALSE
