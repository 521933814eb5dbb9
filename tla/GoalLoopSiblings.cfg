CONSTANTS
    Children = {c, d}
    Clis = {}
    Judged = FALSE
    Budget = 2
    MaxRev = 1
    MaxEscs = 0
    MaxMoves = 2
SPECIFICATION Spec
INVARIANT DoneAnnounced
CHECK_DEADLOCK FALSE
