\* Four members: a change is proposed before the leader has committed an entry of its term.
CONSTANTS
    Server = {s1, s2, s3, s4}
    Initial = {s1, s2, s3, s4}
    Nil = Nil
    MaxTerm = 3
    MaxLog = 3
    MaxChanges = 2
SPECIFICATION Spec
SYMMETRY InitialSymmetry
CONSTRAINTS ReadsExplored OutsidersQuiet
INVARIANT LeaderCompleteness
CHECK_DEADLOCK FALSE
