CONSTANTS
    Children = {c}
    Clis = {p}
    Judged = TRUE
    Budget = 2
    MaxRev = 2
    MaxEscs = 2
    MaxMoves = 3
SPECIFICATION FairSpec
INVARIANTS TypeOK DoneAnnounced EscalationsHeard
     FinalizesWhatItSaw
PROPERTIES DoneReported UnmetTold Escalates
CHECK_DEADLOCK FALSE
