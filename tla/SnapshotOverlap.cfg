\* A snapshot may be installed while an older one is being saved, as in the code.
CONSTANTS
    L = L
    F = F
    Nil = Nil
    c1 = c1
    c2 = c2
    Campaigns <- TwoElections
    Threshold = 1
    MaxIndex = 2
    MaxMsgs = 1
    MaxCrashes = 1
SPECIFICATION Spec
INVARIANTS
    TypeOK
    StateMachineIsPrefix
    AckedSurvivesCrash
    AppliedSurvivesCrash
    OneVotePerTerm
    SnapshotCoversBase
CHECK_DEADLOCK FALSE
