------------------------------- MODULE MCServer -------------------------------
(* Instances of Server for TLC: Server_all.cfg has two streams, Server_stops.cfg *)
(* one whose client may stop reading.                                            *)
EXTENDS Server, TLC

CONSTANTS c1, c2, u1, u2

\* An ordinary user and an administrator.
Subscribers == c1 :> u1 @@ c2 :> u2
Administrators == {c2}
Sleepy == {c1}
OneSubscriber == c1 :> u1
ForEverybody == {<<"PUBLIC", u1>>}
OnePrivate == {<<"PRIVATE", u2>>, <<"PUBLIC", u1>>}

===============================================================================
