\* The player on its own: loaded once, with what the last visit stored.
INIT Init
NEXT Next
CONSTANTS
    Parts = {"player"}
    MaxTexts = 0
    MaxFiles = 0
    MaxEntries = 0
    MaxMishaps = 0
    MaxChanges = 0
    MaxFaults = 0
    MaxEdits = 0
    MaxRefusals = 0
    MaxTries = 0
    MaxTroubles = 0
    MaxRows = 1
    MaxForms = 0
    MaxSends = 0
    MaxBreaks = 0
    MaxClicks = 0
    MaxReloads = 0
    MaxActs = 3
    MaxSessions = 2
    MaxHitches = 1
INVARIANTS PlayerRestored
CHECK_DEADLOCK FALSE
