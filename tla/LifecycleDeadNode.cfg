SPECIFICATION Spec
CONSTANTS
    Sessions <- TwoSessions
    Clis = {p, q}
    Daemon = daemon
    None = none
    Dead = dead
    Limit = 1
    AttemptLimit = 2
    NodesMayDie = TRUE
    MaxOps = 4
INVARIANTS
    CapRespected
SYMMETRY Symmetry
CHECK_DEADLOCK FALSE
