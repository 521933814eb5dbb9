SPECIFICATION FairSpec
CONSTANTS
    Channels <- TwoChannels
    Relays <- SecondChannel
    Fragile <- FirstChannel
    Slots <- TwoSlots
    MaxInc = 2
    MaxEvents = 2
    MaxMoves = 2
INVARIANTS
    TypeOK
    NothingSkipped
    ReplaysBounded
    OneUncancelled
PROPERTIES
    ImplementsQueue
    Delivered
CHECK_DEADLOCK FALSE
