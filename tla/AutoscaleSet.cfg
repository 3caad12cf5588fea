CONSTANTS
    MaxIds = 2
    MaxEdits = 3
    MaxFailures = 2
SPECIFICATION Spec
INVARIANTS TypeOK RestsWhenDone
PROPERTIES CreatedUnderFinalizer RecordedIsDeleted LabelsConverge FollowsLifecycle
CHECK_DEADLOCK FALSE
