\* Two goroutines at a time, and a cleanup pass that overlaps their calls.
SPECIFICATION Spec
CONSTANTS
    p1 = p1
    p2 = p2
    Keys = {k1, k2}
    Values = {v1}
    Procs = {p1, p2}
    Clearers <- Owner
    Closers <- Owner
    TTLs = {0, 1}
    MaxItems = 1
    Fraction = 1
    Overlap = TRUE
    MaxTime = 1
    MaxDrift = 1
    NoItem = NoItem
INVARIANTS Accounted
PROPERTIES OldestEvicted
