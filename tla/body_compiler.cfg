SPECIFICATION Spec
CONSTANTS
    LineShapes <- MCLines
    MaxLines = 5
    MaxBroken = 4
INVARIANT ReadAsMeant
CHECK_DEADLOCK FALSE
