\* Two resources at a cap of one session; two failures suspend a member.
SPECIFICATION FairSpec
CONSTANTS
    N = 2
    Cap = 1
    Limit = 2
    Policies <- AllPolicies
    MaxMoves = 4
INVARIANTS TypeOK Budget
PROPERTIES Admitted AbsentGone
CHECK_DEADLOCK FALSE
