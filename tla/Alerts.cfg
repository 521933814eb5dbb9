CONSTANTS
    child = child
    parent = parent
    None = None
    Sweep = Sweep
    Sessions = {child, parent}
    Parent <- MCParent
    MaxMoves = 3
    MaxFaults = 1
SPECIFICATION FairSpec
INVARIANTS TypeOK NotifiedHeard
PROPERTIES  Told
CHECK_DEADLOCK FALSE
