SPECIFICATION SpecUnread
CONSTANTS
    None = None
    Client = {c1}
    Capacity = 1
    Room = 1
    MaxOutgoing = 1
    MaxFrames = 1
    MaxDamaged = 0
    MaxAnnounced = 2
    MaxEvents = 9
CHECK_DEADLOCK FALSE
PROPERTY
    StopReturns
