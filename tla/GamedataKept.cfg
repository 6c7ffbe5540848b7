SPECIFICATION Spec
CONSTANTS
    Conns = {"c1", "c2"}
    MaxMoves = 2
    MaxFaults = 0
CHECK_DEADLOCK FALSE
PROPERTY
    DocumentNeverGoesBack
