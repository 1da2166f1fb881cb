CONSTANTS
    Server = {s1, s2, s3, s4}
    Initial = {s1, s2, s3}
    Nil = Nil
    MaxTerm = 2
    MaxLog = 3
    MaxChanges = 2
SPECIFICATION Spec
SYMMETRY InitialSymmetry
CONSTRAINTS ReadsExplored ReadsSettled OutsidersQuiet
INVARIANTS
    ElectionSafety
    RemovedLeaderStepsDown
    SettledReadsAreCurrent
CHECK_DEADLOCK FALSE
