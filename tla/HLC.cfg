CONSTANTS
    Node = {n1, n2, n3}
    MaxWall = 2
    MaxLogical = 2
    MaxEvents = 6
SPECIFICATION Spec
SYMMETRY NodeSymmetry
INVARIANTS
    Causality
    NoDrift
PROPERTY ReadingsAdvance
CHECK_DEADLOCK FALSE
