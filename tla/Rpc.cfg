CONSTANTS
    Caller = {a, b}
    Nobody = Nobody
    MaxConns = 3
SPECIFICATION FairSpec
CONSTRAINT ThirdBeforeClose
INVARIANTS
    ClosedMeansQuiet
    NoConnectionLeaks
PROPERTIES
    CallsEnd
    CloseEnds
CHECK_DEADLOCK FALSE
