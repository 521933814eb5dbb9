SPECIFICATION Spec
CONSTANTS
    Sessions <- TwoSessions
    Clis = {p, q}
    Daemon = daemon
    None = none
    Dead = dead
    Limit = 1
    AttemptLimit = 2
    NodesMayDie = FALSE
    MaxOps = 5
PROPERTIES
    CompletionKept
SYMMETRY Symmetry
CHECK_DEADLOCK FALSE
