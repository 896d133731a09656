\* Two tabs of a browser; skewed clocks; three things that users, clocks and the network do.
SPECIFICATION FairSpec
CONSTANTS
    t1 = t1
    t2 = t2
    Start <- OneOfEach
    Tabs = {t1, t2}
    Skews = {0, 1}
    MaxEvents = 3
INVARIANTS SignOutSticks
PROPERTIES NoNeedlessLogout NoGuestRead RequestsEnd
CHECK_DEADLOCK FALSE
