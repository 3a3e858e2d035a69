SPECIFICATION Spec
CONSTANTS
    Alice = Alice
    Bob = Bob
    s1 = s1
    s2 = s2
    SignedPrekey = {s1, s2}
    OneTimePrekey = {o1}
    e1 = e1
    e2 = e2
    e3 = e3
    Ephemeral = {e1, e2, e3}
    Garbled = Garbled
    None = None
    CounterSpan = 2
    MaxLives = 2
    MaxSent = 3
    MaxCalls = 2
SYMMETRY Symmetry
CHECK_DEADLOCK FALSE
INVARIANT
    NothingAcceptedTwice
