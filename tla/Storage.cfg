CONSTANTS
    StateWriter = raft
    SnapshotWriters = {compact, install}
    MaxOps = 4
    MaxCrashes = 2
SPECIFICATION Spec
INVARIANT MarkerNeverInvented
PROPERTIES
    StateFileIsRegister
    SnapshotFileIsRegister
    AckedRecordsSurvive
CHECK_DEADLOCK FALSE
