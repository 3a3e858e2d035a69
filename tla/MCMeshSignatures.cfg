SPECIFICATION Spec
CONSTANTS
    a = a
    b = b
    c = c
    d = d
    Node = {a, b, c, d}
    i1 = i1
    Id = {i1}
    None = None
    InRange <- MCInRange
    Distance <- MCDistance
    Apps = {a}
    CliUsers = {c}
    MaxHops = 3
    SeenTtl = 5
    MaxAge = 10
    MaxSkew = 1
    MaxLosses = 0
    MaxRepeats = 0
    MaxRestarts = 0
INVARIANT
    SignaturesSurviveRelay
CHECK_DEADLOCK FALSE
