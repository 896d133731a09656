\* Any database, releases that come and go, processes that stop anywhere;
\* or requests of any kind, two at a time, one of which may fail.
INIT Init
NEXT Next
CONSTANTS
    AllFiles <- MCFiles
    Releases = {23, 24, 30}
    Repeatable <- MCRepeatable
    Minimum <- V22
    w1 = w1
    w2 = w2
    m1 = m1
    m2 = m2
    a1 = a1
    a2 = a2
    Workers = {w1, w2}
    MemoIds = {m1, m2}
    AttachmentIds = {a1}
    Paths <- OnePath
    ListLimit = 2
    MaxRequests = 4
    MaxErrors = 1
    None = None
INVARIANTS SchemaServed RelationsAreTrue FilesMatchRows
CHECK_DEADLOCK FALSE
SYMMETRY Symmetry
