CONSTANTS
    RunnerSets = {rs1}
    Keys = {k1, k2}
    Listeners = {l1}
    NoListener = NoListener
    MaxIds = 1
    MaxEdits = 1
    MaxFailures = 1
SPECIFICATION Spec
INVARIANTS TypeOK NeverForgotten
PROPERTIES CurrentSpecServed EditRolledOut EditsKept
CHECK_DEADLOCK FALSE
