SPECIFICATION ApartSpec
CONSTANTS
    Slot = {s}
    Control = {c, d}
    Profile <- Profiles
    QueueSize = 2
    RingSize = 2
    PumpSize = 2
    Word = 10
    Late = 2
    Sends = 3
    InboxSize = 3
INVARIANTS
    TypeOK
    Accounted
PROPERTIES
    OnTime
    KeepsLatest
CHECK_DEADLOCK FALSE
