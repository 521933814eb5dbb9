CONSTANTS
    one = one
    two = two
    sweep = sweep
    cli = cli
    Sessions = {one, two}
    Sweep = sweep
    Clis = {cli}
    Limit = 1
    MaxMoves = 2
SPECIFICATION FairSpec
INVARIANTS TypeOK BudgetKept StoppedNotRepaired
PROPERTIES Surfaces BudgetRestored
CHECK_DEADLOCK FALSE
