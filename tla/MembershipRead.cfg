\* A read may start before the leader has committed an entry of its term, as in the code.
CONSTANTS
    Server = {s1, s2, s3, s4}
    Initial = {s1, s2, s3}
    Nil = Nil
    MaxTerm = 2
    MaxLog = 3
    MaxChanges = 2
SPECIFICATION Spec
SYMMETRY InitialSymmetry
CONSTRAINTS ReadsExplored OutsidersQuiet
INVARIANT ReadsAreCurrent
CHECK_DEADLOCK FALSE
