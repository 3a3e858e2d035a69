SPECIFICATION Spec
CONSTANTS
    None = None
    Client = {c1}
    Capacity = 1
    Room = 1
    MaxOutgoing = 1
    MaxFrames = 3
    MaxDamaged = 1
    MaxAnnounced = 2
    MaxEvents = 3
CHECK_DEADLOCK FALSE
INVARIANTS
    TypeOK
    HandledInOrder
    LateAtMostOnce
    ClearedStaysClear
PROPERTIES
    EveryFrameHandled
    ShutdownCompletes
