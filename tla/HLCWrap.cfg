\* A counter that is bumped at its largest value sets the clock back.
CONSTANTS
    Node = {n1, n2, n3}
    MaxWall = 2
    MaxLogical = 1
    MaxEvents = 6
SPECIFICATION Spec
SYMMETRY NodeSymmetry
PROPERTY NeverGoesBack
CHECK_DEADLOCK FALSE
