\* A state file may grow past the largest record that can be read back.
CONSTANTS
    StateWriter = raft
    SnapshotWriters = {compact, install}
    MaxOps = 2
    MaxCrashes = 1
SPECIFICATION Spec
PROPERTY AckedStateLoads
CHECK_DEADLOCK FALSE
