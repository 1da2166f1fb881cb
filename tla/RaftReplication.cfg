\* Two leaders, logs of up to three commands and no-ops, no restarts.
CONSTANTS
    NoOp = NoOp
    Nil = Nil
    Server = {s1, s2, s3}
    Command = {c1}
    MaxTerm = 2
    MaxLog = 3
    MaxMsgs = 2
    MaxStops = 0
    MarkerFaults = FALSE
SPECIFICATION Spec
SYMMETRY ServerSymmetry
VIEW LiveState
INVARIANTS
    TypeOK
    LogMatching
    StateMachineSafety
    AckedEntriesDurable
PROPERTIES
    CommitMonotonic
    LeaderAppendOnly
CHECK_DEADLOCK FALSE
