SPECIFICATION Spec
CONSTANTS
    us = us
    them = them
    e1 = e1
    e2 = e2
    Node = {us, them}
    Id = {e1, e2}
    None = None
    Self = us
    Made <- MCMade
    HopFields <- MCHopFields
    MaxHops = 2
    SeenTtl = 5
    MaxAge = 10
    MaxSkew = 1
    MaxTime = 16
INVARIANTS
    TypeOK
    CacheIsTheHistory
    ReplayBound
PROPERTY
    ImplementsReplayFilter
