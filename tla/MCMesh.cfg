SPECIFICATION Spec
CONSTANTS
    a = a
    b = b
    c = c
    d = d
    Node = {a, b, c, d}
    i1 = i1
    Id = {i1}
    None = None
    InRange <- MCInRange
    Distance <- MCDistance
    Apps = {a}
    CliUsers = {c}
    MaxHops = 3
    SeenTtl = 5
    MaxAge = 10
    MaxSkew = 1
    MaxLosses = 1
    MaxRepeats = 2
    MaxRestarts = 1
INVARIANTS
    TypeOK
    OncePerLife
    HopsAddUp
PROPERTY
    FloodingReachesAll
CHECK_DEADLOCK FALSE
