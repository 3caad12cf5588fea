CONSTANTS
    RunnerSets = {rs1}
    Keys = {k1}
    Listeners = {l1, l2}
    NoListener = NoListener
    MaxIds = 1
    MaxEdits = 1
    MaxFailures = 0
SPECIFICATION Spec
PROPERTY RunnerSetServed
CHECK_DEADLOCK FALSE
