---------------------------- MODULE MCSessionStore ----------------------------
(* SessionStore for TLC: two goroutines whose requests overlap, or one of them alone. *)
EXTENDS SessionStore

CONSTANTS p1, p2

VARIABLE solo  \* all requests are served by p1

\* One goroutine that serves everything, and one that signs in and out of another
\* browser, or a copy of its cookie, while the user may be archived.
Everything == [p \in {p1, p2} |-> IF p = p1 THEN RequestKinds ELSE {"SignIn", "RefreshToken", "UpdateUser"}]

MCInit == Init /\ solo \in BOOLEAN

\* A database error takes the place of a request that may write.
MCNext ==
    /\ Next /\ UNCHANGED solo
    /\ solo => phase'[p2] = "idle"
    /\ requests' + errors' <= MaxRequests

MCSpec == MCInit /\ [][MCNext]_<<vars, solo>> /\ Fairness

\* Requests served one after the other get nothing wrong: no write and no cache
\* fill works with a reading that is outdated, however the database fails and
\* whenever entries expire.
NothingRaced == solo => raced = {}

===============================================================================
