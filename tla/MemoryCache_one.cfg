\* One goroutine, one key more than the limit, items that expire, Close at any time.
SPECIFICATION FairSpec
CONSTANTS
    p1 = p1
    p2 = p2
    Keys = {k1, k2, k3}
    Values = {v1}
    Procs = {p1}
    Clearers <- Owner
    Closers <- Owner
    TTLs = {0, 1, 2}
    MaxItems = 2
    Fraction = 1
    Overlap = FALSE
    MaxTime = 2
    MaxDrift = 0
    NoItem = NoItem
INVARIANTS ExactAlone
PROPERTIES ImplementsTTLMap CloseReturns
