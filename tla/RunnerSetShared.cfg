CONSTANTS
    RunnerSets = {rs1, rs2}
    Keys = {k1}
    Listeners = {l1, l2}
    NoListener = NoListener
    MaxIds = 1
    MaxEdits = 0
    MaxFailures = 0
SPECIFICATION Spec
INVARIANT ServingIsRegistered
PROPERTIES LastOneStops CurrentSpecServed
CHECK_DEADLOCK FALSE
