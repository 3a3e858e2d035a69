SPECIFICATION Spec
CONSTANTS
    k1 = k1
    k2 = k2
    j1 = j1
    j2 = j2
    i1 = i1
    i2 = i2
    Key = {k1, k2}
    Job = {j1, j2}
    Identity = {i1, i2}
    EnvelopeId = {m1}
    Name <- Names
    Inode = {1, 2, 3, 4, 5}
    None = None
    Absent = Absent
    Blank = Blank
    Torn = Torn
    MaxCommands = 6
SYMMETRY Symmetry
CHECK_DEADLOCK FALSE
INVARIANT
    OkMeansStored
