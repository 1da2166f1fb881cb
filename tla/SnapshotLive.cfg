CONSTANTS
    L = L
    F = F
    Nil = Nil
    c1 = c1
    c2 = c2
    Campaigns <- OneElection
    Threshold = 1
    MaxIndex = 2
    MaxMsgs = 1
    MaxCrashes = 1
SPECIFICATION FairSpec
CONSTRAINT InstallsDoNotOverlap
INVARIANTS
    TypeOK
    SnapshotCoversBase
PROPERTY FollowerCatchesUp
CHECK_DEADLOCK FALSE
