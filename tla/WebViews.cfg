\* Each view by itself, and short texts: a few clicks, with one mishap.
INIT Init
NEXT Next
CONSTANTS
    Parts = {"library", "account", "insert", "text", "media", "memo", "layout"}
    Uploads <- MCUploads
    PageSize = 2
    ChunkSize = 1
    MaxElsewhere = 1
    MaxSnags = 1
    MaxTurns = 2
    MaxPicks = 2
    MaxOddities = 1
    MaxTouches = 5
    MaxGlitches = 1
    MaxLetters = 6
    MaxLines = 4
    MaxLength = 2
    MaxPokes = 5
    MaxUpsets = 1
    MaxPresses = 2
    MaxBlunders = 1
    Todays <- MCTodays
    Posts <- MCPosts
    MinYear = 2023
    MaxFlips = 4
    MaxBlocks = 3
INVARIANTS LibraryIsTrue AccountIsKept InsertIsMeant TextIsRead MediaIsShown LayoutIsWhole
PROPERTY MemoPageIsTrue
CHECK_DEADLOCK FALSE
