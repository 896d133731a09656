\* Two streams, of a user who may stop reading and of an administrator, and a
\* goroutine that serves requests; the requests and the administrator's stream
\* are authenticated by personal access tokens.
SPECIFICATION Spec
CONSTANTS
    c1 = c1
    c2 = c2
    u1 = u1
    u2 = u2
    Clients = {c1, c2}
    Broadcasters = {b1}
    Users = {u1, u2}
    Audiences <- OnePrivate
    Owner <- Subscribers
    Admins <- Administrators
    Stallers <- Sleepy
    Buffer = 1
    MaxEvents = 2
    NoEvent = NoEvent
    Scripts = {b1, c2}
INVARIANTS NoPanic Delivery StoreClosedLast
CHECK_DEADLOCK FALSE
