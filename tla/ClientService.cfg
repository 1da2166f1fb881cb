CONSTANTS
    k1 = k1
    k2 = k2
    Node = {n1, n2}
    Handler = {h1, h2}
    Command <- KeysUnique
    Leaving = {n1}
    MaxInFlight = 1
    Burst = 1
    MaxAttempts = 3
    MaxElections = 1
    Nil = Nil
SPECIFICATION Spec
SYMMETRY RequestSymmetry
INVARIANTS
    SlotsAddUp
    OkMeansExecuted
    DefiniteMeansNotProposed
CHECK_DEADLOCK FALSE
