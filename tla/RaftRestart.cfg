\* Two leaders, one stop or crash with a restart from disk, and applied markers
\* that may fail to be saved.
CONSTANTS
    NoOp = NoOp
    Nil = Nil
    Server = {s1, s2, s3}
    Command = {c1}
    MaxTerm = 2
    MaxLog = 1
    MaxMsgs = 2
    MaxStops = 1
    MarkerFaults = TRUE
SPECIFICATION Spec
SYMMETRY ServerSymmetry
VIEW LiveState
CONSTRAINT OneMarkerBehind
INVARIANTS
    ElectionSafety
    StateMachineSafety
    AckedEntriesDurable
    RestartReplaysCommitted
    AppliedExactlyOnce
PROPERTIES
    DurableVoteStands
CHECK_DEADLOCK FALSE
