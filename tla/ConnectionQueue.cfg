SPECIFICATION FairSpec
CONSTANTS
    MaxTickets = 3
    Priorities = {0, 2}
    Limits = {0, 2}
    NoTicket = NoTicket
INVARIANTS
    CheckInvariant
    TimerGuards
    NoLostWakeup
    FreeSlotIsOffered
PROPERTIES
    ImplementsContract
    Drains
CHECK_DEADLOCK FALSE
