CONSTANTS
    Runners = {r1, r2}
    MinRunners = 0
    MaxRunners = 2
    Limit = 2
    MaxJobs = 1
    MaxBusy = 2
    MaxStale = 1
    MaxStuck = 0
    MaxRolled = 1
    MaxFailures = 0
SPECIFICATION Spec
INVARIANTS LeakNeedsFailure FewBusyPicked
PROPERTIES FinishedPodDeleted
