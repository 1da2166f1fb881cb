\* Three terms of elections and no-ops, or two terms of elections and commands,
\* logs of two entries, no restarts.
CONSTANTS
    NoOp = NoOp
    Nil = Nil
    Server = {s1, s2, s3}
    Command = {c1}
    MaxTerm = 3
    MaxLog = 2
    MaxMsgs = 2
    MaxStops = 0
    MarkerFaults = FALSE
SPECIFICATION Spec
SYMMETRY ServerSymmetry
VIEW LiveState
CONSTRAINT TermsOrCommands
INVARIANTS
    TypeOK
    LogMatching
    LeaderCompleteness
    StateMachineSafety
    AckedEntriesDurable
CHECK_DEADLOCK FALSE
