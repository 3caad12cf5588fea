CONSTANTS
    Runners = {r1, r2, r3}
    MinRunners = 0
    MaxRunners = 1
    Limit = 2
    MaxJobs = 2
    MaxBusy = 0
    MaxStale = 1
    MaxStuck = 1
    MaxRolled = 0
    MaxFailures = 1
SPECIFICATION Spec
SYMMETRY Symmetry
INVARIANTS TypeOK MaxRunnersRespected DeregisteredAfterDeletion
