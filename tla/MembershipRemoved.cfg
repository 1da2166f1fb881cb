\* A server that its own configuration leaves out keeps its timers, as in the code.
CONSTANTS
    Server = {s1, s2, s3, s4}
    Initial = {s1, s2, s3}
    Nil = Nil
    MaxTerm = 2
    MaxLog = 3
    MaxChanges = 2
SPECIFICATION Spec
SYMMETRY InitialSymmetry
CONSTRAINT ReadsExplored
INVARIANT ElectionSafety
CHECK_DEADLOCK FALSE
