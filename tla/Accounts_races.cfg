\* Two requests of any kind at a time, with clients that go away.
SPECIFICATION Spec
CONSTANTS
    w1 = w1
    w2 = w2
    alice = alice
    bob = bob
    Workers = {w1, w2}
    MaxUsers = 3
    Providers = {"idp"}
    Subjects = {alice, bob}
    MaxRequests = 5
    MaxErrors = 1
    Nobody = Nobody
INVARIANTS OneSetupAdmin LinkedLogins RaceIsResolved
CHECK_DEADLOCK FALSE
SYMMETRY Symmetry
