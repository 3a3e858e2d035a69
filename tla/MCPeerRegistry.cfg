SPECIFICATION Spec
CONSTANTS
    p1 = p1
    p2 = p2
    p3 = p3
    t1 = t1
    t2 = t2
    Peer = {p1, p2, p3}
    Task = {t1, t2}
    RateLimit = 1
    StaleThreshold = 1
    OfflineThreshold = 2
    MaxPeers = 2
    MaxTime = 3
SYMMETRY Interchangeable
INVARIANTS
    TypeOK
    BlockedUntilUnblocked
    WithinMaxPeers
PROPERTIES
    ForgottenOnlyWhenOffline
    ObservationsSpaced
