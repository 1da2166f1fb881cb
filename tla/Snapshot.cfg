CONSTANTS
    L = L
    F = F
    Nil = Nil
    c1 = c1
    c2 = c2
    Campaigns <- TwoElections
    Threshold = 1
    MaxIndex = 2
    MaxMsgs = 2
    MaxCrashes = 2
SPECIFICATION Spec
CONSTRAINTS InstallsDoNotOverlap OneAtATime SecondCrash
INVARIANTS
    StateMachineIsPrefix
    AckedSurvivesCrash
    AppliedSurvivesCrash
    OneVotePerTerm
CHECK_DEADLOCK FALSE
