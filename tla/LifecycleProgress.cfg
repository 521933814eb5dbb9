SPECIFICATION FairSpec
CONSTANTS
    Sessions <- TwoSessions
    Clis = {p, q}
    Daemon = daemon
    None = none
    Dead = dead
    Limit = 1
    AttemptLimit = 2
    NodesMayDie = TRUE
    MaxOps = 4
PROPERTIES
    NoIdleCapacity
CHECK_DEADLOCK FALSE
