CONSTANTS
    Slots <- MCSlots
    MaxInc = 1
    MaxEvents = 2
    MaxMoves = 4
    Window = 1
SPECIFICATION FairSpec
INVARIANTS TypeOK Exclusive RelayedOnce
PROPERTIES  EventsHandled
CHECK_DEADLOCK FALSE
