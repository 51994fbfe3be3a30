SPECIFICATION Spec
CONSTANTS
    a1 = a1
    a2 = a2
    a3 = a3
    k1 = k1
    k2 = k2
    x = x
    y = y
    Keys = {k1}
    Wanted = {}
    Files = {f1, f2}
    Dirs = {d1}
    Attempts = {a1}
    KeyOf <- TwoKeys
    DirOf <- SharedDir
    Product <- Products2
    None = none
    MaxFaults = 1
INVARIANTS ManifestMarksCompletion
CHECK_DEADLOCK FALSE
