\* Each part of a page by itself: what a user can do in a short visit, with one mishap or two.
INIT Init
NEXT Next
CONSTANTS
    Parts = {"editor", "queries", "settings", "oauth", "lists", "filters", "player"}
    MaxTexts = 2
    MaxFiles = 2
    MaxEntries = 3
    MaxMishaps = 1
    MaxChanges = 2
    MaxFaults = 1
    MaxEdits = 5
    MaxRefusals = 2
    MaxTries = 3
    MaxTroubles = 3
    MaxRows = 3
    MaxForms = 2
    MaxSends = 3
    MaxBreaks = 1
    MaxClicks = 3
    MaxReloads = 1
    MaxActs = 3
    MaxSessions = 3
    MaxHitches = 1
INVARIANTS
    EditorIsKept CacheSettles SettingsKept AnswerIsUsed ListsAreKept PageIsAddressed HeardIsShown
CHECK_DEADLOCK FALSE
