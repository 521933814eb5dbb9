\* One resource; a death or a failed up before the session is stored.
SPECIFICATION FairSpec
CONSTANTS
    N = 1
    Cap = 1
    Limit = 2
    Policies <- PollOnly
    MaxMoves = 4
PROPERTIES OwnedAbsentGone
CHECK_DEADLOCK FALSE
