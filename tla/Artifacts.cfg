SPECIFICATION Spec
CONSTANTS
    a1 = a1
    a2 = a2
    a3 = a3
    k1 = k1
    k2 = k2
    x = x
    y = y
    Keys = {k1, k2}
    Wanted = {k1}
    Files = {f1, f2}
    Dirs = {d1}
    Attempts = {a1, a2, a3}
    KeyOf <- TwoKeys
    DirOf <- SharedDir
    Product <- Products2
    None = none
    MaxFaults = 1
SYMMETRY Symmetry
INVARIANTS TypeOK ManifestIsLast ReaderUsesWhatItChecked OneAttemptsWork
PROPERTIES ImplementsArtifacts
CHECK_DEADLOCK FALSE
