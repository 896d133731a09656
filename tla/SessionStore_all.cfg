\* Requests of every kind that overlap, or that one goroutine serves one after the
\* other, with caches that expire at any time and a database call that fails.
SPECIFICATION MCSpec
CONSTANTS
    p1 = p1
    p2 = p2
    Procs = {p1, p2}
    Requests <- Everything
    RefreshTokens = {r1, r2}
    PATs = {t1}
    CacheDrops = TRUE
    MaxRequests = 4
    MaxErrors = 1
    NoRow = NoRow
    Miss = Miss
INVARIANTS Consistent SessionsKept NothingRaced
PROPERTIES RevokedIsRejected StaleCopiesGo
CHECK_DEADLOCK FALSE
