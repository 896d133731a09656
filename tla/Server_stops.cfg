\* One stream, two goroutines that serve requests, two events: shutting down.
SPECIFICATION FairSpec
CONSTANTS
    c1 = c1
    c2 = c2
    u1 = u1
    u2 = u2
    Clients = {c1}
    Broadcasters = {b1, b2}
    Users = {u1, u2}
    Audiences <- ForEverybody
    Owner <- OneSubscriber
    Admins = {}
    Stallers <- Sleepy
    Buffer = 1
    MaxEvents = 2
    NoEvent = NoEvent
    Scripts = {b1}
INVARIANTS InOrder
PROPERTIES ShutdownCompletes StreamsEnd
CHECK_DEADLOCK FALSE
