------------------------------ MODULE WebPlayer -------------------------------
(***************************************************************************)
(* The music player in the navigation of the web client: a queue of        *)
(* tracks, the audio element, and an account of the NetEase music service  *)
(* that is reached through the server.  Tracks of the service have to be   *)
(* resolved to an address before they play; requests are answered late,    *)
(* in any order, or with the news that the session has expired.            *)
(*                                                                         *)
(* A session of the service is a number, 0 none.  An event, the render     *)
(* after it and its effects are one step (Turn).  The service, the         *)
(* server's file of the cookie and the audio element are external.         *)
(***************************************************************************)
EXTENDS Naturals, Sequences

CONSTANTS
    MaxActs,     \* bound on what the user does
    MaxSessions, \* bound on sessions of the service
    MaxHitches   \* bound on expiries, failures, endings and reloads

ASSUME WebPlayerConstants == MaxActs \in Nat /\ MaxSessions \in Nat \ {0} /\ MaxHitches \in Nat

VARIABLES
    queue, at,    \* playlist and currentTrackIndex, which counts from 1 here
    playing, mode,
    resolved,     \* resolvedUrl: the track it is of, or "none"
    going,        \* the audio element plays
    neteaseCookie,       \* neteaseCookie
    lists,        \* the session whose playlists can be chosen
    login,        \* the dialog with the code: open, key, status, polls in flight
    wire,         \* requests in flight
    booted,       \* initPlayer is done
    record,       \* memos_player_state in local storage
    storedCookie, held, \* the cookie in local storage and in the server's file
    issued, lapsed, \* keys of the code dialog handed out, and those no longer valid
    scanned,      \* the keys the user has confirmed in the service's application
    ended,      \* sessions the service has ended
    sessions, acts, hitches,
    touched,      \* the user has done something since the page was loaded
    before,         \* what the record was when the page was loaded
    stuck         \* the audio element has stopped by itself

playerVars == <<queue, at, playing, mode, resolved, going, neteaseCookie, lists, login, wire, booted, record, storedCookie,
                held, issued, lapsed, scanned, ended, sessions, acts, hitches, touched, before, stuck>>

Albums == {<<"song1", "song2">>, <<"song3">>}
Link == "link"
Songs == {"song1", "song2", "song3"}
Current(q, i) == IF i \in 1 .. Len(q) THEN q[i] ELSE "none"
Empty == [queue |-> <<>>, at |-> 0]
NoLogin == [open |-> FALSE, key |-> 0, status |-> "none"]

\* A record as a session before may have left it; the effect that saves writes over it at once.
PlayerInit ==
    /\ before = [queue |-> <<Link>>, at |-> 1] /\ record = Empty
    /\ queue = <<>> /\ at = 0 /\ playing = FALSE /\ mode = "list" /\ resolved = "none" /\ going = FALSE
    /\ neteaseCookie = 0 /\ lists = 0 /\ login = NoLogin /\ wire = {[what |-> "cookie"]} /\ booted = FALSE
    /\ storedCookie = 1 /\ held = 1 /\ issued = 0 /\ lapsed = {} /\ scanned = {} /\ ended = {} /\ sessions = 1
    /\ acts = 0 /\ hitches = 0 /\ touched = FALSE /\ stuck = FALSE

Act == acts < MaxActs /\ acts' = acts + 1
Hitch == hitches < MaxHitches /\ hitches' = hitches + 1

-----------------------------------------------------------------------------
(* A render and its effects *)

Lookup(track, c) == [what |-> "song", track |-> track, by |-> c]

\* Mutant: a resolution effect without a cleanup.
OutlivedNot(asked) == asked

\* Cleanup of the effect: isCurrent is FALSE for what was asked before.
Outlived(asked) == {IF w.what = "song" THEN [w EXCEPT !.track = "none"] ELSE w : w \in asked}

\* Track URL resolution for a queue, an index and a cookie, given playing and the address so far;
\* without a session nothing is resolved and the player stops.
Resolve(q, i, c, p, r, asked) ==
    LET track == Current(q, i) IN
    /\ resolved' = IF track = Link THEN Link ELSE IF track = "none" \/ c = 0 THEN "none" ELSE r
    /\ playing' = (p /\ track # "none" /\ (track = Link \/ c # 0))
    /\ wire' = Outlived(asked) \cup (IF track \in Songs /\ c # 0 THEN {Lookup(track, c)} ELSE {})

\* The element plays or pauses when isPlaying or the address has changed, and only then.
Sound ==
    IF <<playing', resolved'>> = <<playing, resolved>> THEN UNCHANGED <<going, stuck>>
    ELSE going' = (playing' /\ resolved' # "none") /\ stuck' = FALSE

\* The state is saved when it changes.
Turn(q, i, c, p, r) ==
    /\ queue' = q /\ at' = i /\ neteaseCookie' = c
    /\ IF <<q, i, c>> = <<queue, at, neteaseCookie>> THEN playing' = p /\ resolved' = r /\ UNCHANGED wire
       ELSE Resolve(q, i, c, p, r, wire)
    /\ Sound
    /\ record' = [queue |-> q, at |-> i]
    /\ touched' = (touched \/ acts' # acts)

-----------------------------------------------------------------------------
(* Controls *)

Rest == UNCHANGED <<lists, login, booted, storedCookie, held, issued, lapsed, scanned, ended, sessions, before>>
Player == UNCHANGED <<queue, at, playing, mode, resolved, going, neteaseCookie, record, touched, stuck>>

PlayPause ==
    /\ Act /\ queue # <<>>
    /\ Turn(queue, at, neteaseCookie, ~playing, resolved)
    /\ UNCHANGED <<mode, hitches>> /\ Rest

\* handleNext and handlePrev: the neighbour, around the end, or any track in shuffle mode.
Neighbours(step) ==
    IF mode = "shuffle" THEN 1 .. Len(queue)
    ELSE IF step = "next" THEN {(at % Len(queue)) + 1}
    ELSE {((at + Len(queue) - 2) % Len(queue)) + 1}

Skip(step) ==
    /\ Act /\ queue # <<>>
    /\ \E i \in Neighbours(step) : Turn(queue, i, neteaseCookie, TRUE, resolved)
    /\ UNCHANGED <<mode, hitches>> /\ Rest

PickTrack ==
    /\ Act /\ \E i \in 1 .. Len(queue) : Turn(queue, i, neteaseCookie, TRUE, resolved)
    /\ UNCHANGED <<mode, hitches>> /\ Rest

ClearAll ==
    /\ Act /\ queue # <<>>
    /\ Turn(<<>>, 0, neteaseCookie, FALSE, resolved)
    /\ UNCHANGED <<mode, hitches>> /\ Rest

\* handlePlayCustomUrl: the link becomes the whole queue.
PlayLink ==
    /\ Act /\ Turn(<<Link>>, 1, neteaseCookie, TRUE, resolved)
    /\ UNCHANGED <<mode, hitches>> /\ Rest

NextMode ==
    /\ Act
    /\ mode' = CASE mode = "list" -> "single" [] mode = "single" -> "shuffle" [] OTHER -> "list"
    /\ UNCHANGED <<queue, at, playing, resolved, going, neteaseCookie, wire, record, hitches, touched, stuck>> /\ Rest

\* handleEnded: the track starts again, or the next one plays.  If that is the same track, nothing
\* changes, no effect runs, and the element stays at its end.
Ended ==
    /\ Hitch /\ going /\ UNCHANGED acts
    /\ IF mode = "single" THEN UNCHANGED <<queue, at, neteaseCookie, playing, resolved, wire, going, stuck, record, touched>>
       ELSE \E i \in Neighbours("next") :
                IF i = at THEN /\ going' = FALSE /\ stuck' = TRUE
                               /\ UNCHANGED <<queue, at, neteaseCookie, playing, resolved, wire, record, touched>>
                ELSE Turn(queue, i, neteaseCookie, TRUE, resolved)
    /\ UNCHANGED mode /\ Rest

\* The browser does not let it play (NotAllowedError): the button says so.
PlayRefused ==
    /\ Hitch /\ going
    /\ UNCHANGED acts /\ Turn(queue, at, neteaseCookie, FALSE, resolved)
    /\ UNCHANGED mode /\ Rest

-----------------------------------------------------------------------------
(* Requests of the service *)

\* handleLogoutNetease: everything is emptied, the server is told.
SignsOut ==
    /\ queue' = <<>> /\ at' = 0 /\ neteaseCookie' = 0 /\ playing' = FALSE /\ resolved' = "none"
    /\ wire' = Outlived(wire) \cup {[what |-> "logout"]}
    /\ Sound /\ record' = Empty
    /\ lists' = 0 /\ storedCookie' = 0
    /\ UNCHANGED <<mode, login, booted, held, issued, lapsed, scanned, ended, sessions, before, touched>>

SignOutOfService == Act /\ neteaseCookie # 0 /\ SignsOut /\ UNCHANGED hitches

\* The server removes its file.
LogoutArrives ==
    /\ [what |-> "logout"] \in wire /\ wire' = wire \ {[what |-> "logout"]}
    /\ held' = 0
    /\ Player
    /\ UNCHANGED <<lists, login, booted, storedCookie, issued, lapsed, scanned, ended, sessions, acts, hitches, before>>

SessionEnds ==
    /\ Hitch /\ \E c \in 1 .. sessions : ended' = ended \cup {c} /\ c \notin ended
    /\ Player
    /\ UNCHANGED <<lists, login, wire, booted, storedCookie, held, issued, lapsed, scanned, sessions, acts, before>>

\* fetchNetease: any answer that says so signs out, also one for a session left long ago, or for a
\* track nobody waits for.
SessionExpired ==
    /\ \E w \in wire : w.what \in {"song", "tracks", "lists"} /\ w.by \in ended
    /\ SignsOut /\ UNCHANGED <<acts, hitches>>

\* The server's cookie, or if there is none or the request fails, that of local storage; its
\* playlists; then what local storage has of the player.
InitPlayer ==
    /\ [what |-> "cookie"] \in wire /\ booted' = TRUE /\ UNCHANGED acts
    /\ \E c \in {held, storedCookie} :
        /\ IF c = held /\ held # 0 THEN UNCHANGED hitches
           ELSE IF held # 0 THEN Hitch ELSE c = storedCookie /\ UNCHANGED hitches
        /\ storedCookie' = IF c = held /\ c # 0 THEN c ELSE storedCookie
        /\ queue' = record.queue /\ at' = record.at /\ neteaseCookie' = IF c = 0 THEN neteaseCookie ELSE c
        /\ Resolve(queue', at', neteaseCookie', playing, resolved,
                   (wire \ {[what |-> "cookie"]}) \cup (IF c = 0 THEN {} ELSE {[what |-> "lists", by |-> c]}))
    /\ Sound
    /\ UNCHANGED <<mode, record, touched, lists, login, held, issued, lapsed, scanned, ended, sessions, before>>

\* loadNeteasePlaylists.
ListsArrive ==
    /\ \E w \in wire : w.what = "lists" /\ w.by \notin ended /\ lists' = w.by /\ wire' = wire \ {w}
    /\ Player
    /\ UNCHANGED <<login, booted, storedCookie, held, issued, lapsed, scanned, ended, sessions, acts, hitches, before>>

ChoosePlaylist ==
    /\ Act /\ lists # 0 /\ neteaseCookie # 0
    /\ \E a \in Albums : wire' = wire \cup {[what |-> "tracks", album |-> a, by |-> neteaseCookie]}
    /\ touched' = TRUE
    /\ UNCHANGED <<queue, at, playing, mode, resolved, going, neteaseCookie, record, stuck, hitches>> /\ Rest

\* loadPlaylistTracks: the tracks become the queue and the first one plays, whatever the user has
\* done in between.
TracksArrive ==
    /\ UNCHANGED <<acts, hitches>>
    /\ \E w \in wire :
        /\ w.what = "tracks" /\ w.by \notin ended
        /\ queue' = w.album /\ at' = 1
        /\ Resolve(w.album, 1, neteaseCookie, TRUE, resolved, wire \ {w})
    /\ Sound /\ record' = [queue |-> queue', at |-> 1]
    /\ UNCHANGED <<mode, neteaseCookie, touched>> /\ Rest

\* resolveNeteaseUrl for the track the effect still waits for.
SongArrives ==
    /\ UNCHANGED acts
    /\ \E w \in wire :
        /\ w.what = "song" /\ w.by \notin ended /\ w.track # "none"
        /\ wire' = wire \ {w}
        /\ \/ resolved' = w.track /\ UNCHANGED <<playing, hitches>>
           \/ Hitch /\ resolved' = "none" /\ playing' = FALSE
    /\ Sound
    /\ UNCHANGED <<queue, at, neteaseCookie, mode, record, touched>> /\ Rest

\* An answer nobody waits for, or a request that fails.
Unanswered ==
    /\ \E w \in wire :
        /\ \/ w.what = "song" /\ w.track = "none" /\ w.by \notin ended /\ UNCHANGED hitches
           \/ w.what \in {"lists", "tracks", "logout", "key", "poll"} /\ Hitch
        /\ wire' = wire \ {w}
    /\ Player /\ UNCHANGED acts /\ Rest

-----------------------------------------------------------------------------
(* Signing in with a code *)

Dialog == UNCHANGED <<queue, at, playing, mode, resolved, going, record, stuck>>

\* startQrLogin, from the button that opens the dialog and from the one that renews the code.
StartQrLogin ==
    /\ Act /\ (neteaseCookie = 0 \/ login.open)
    /\ login' = [NoLogin EXCEPT !.open = TRUE]
    /\ wire' = wire \cup {[what |-> "key"]} /\ touched' = TRUE
    /\ Dialog
    /\ UNCHANGED <<neteaseCookie, lists, booted, storedCookie, held, issued, lapsed, scanned, ended, sessions, hitches, before>>

KeyArrives ==
    /\ [what |-> "key"] \in wire /\ wire' = wire \ {[what |-> "key"]}
    /\ issued' = issued + 1
    /\ login' = [login EXCEPT !.key = issued', !.status = "waiting"]
    /\ Dialog
    /\ UNCHANGED <<neteaseCookie, touched, lists, booted, storedCookie, held, lapsed, scanned, ended, sessions, acts, hitches, before>>

CancelLogin ==
    /\ login.open /\ login' = [login EXCEPT !.open = FALSE]
    /\ Dialog
    /\ UNCHANGED <<neteaseCookie, touched, lists, wire, booted, storedCookie, held, issued, lapsed, scanned, ended, sessions, acts, hitches, before>>

\* The timer of the effect: no poll once the code is known to be used or lapsed.
Poll ==
    /\ login.open /\ login.key # 0 /\ login.status = "waiting"
    /\ wire' = wire \cup {[what |-> "poll", key |-> login.key]}
    /\ Dialog
    /\ UNCHANGED <<neteaseCookie, touched, lists, login, booted, storedCookie, held, issued, lapsed, scanned, ended, sessions, acts, hitches, before>>

\* The user confirms in the application of the service, or takes too long.
Scan ==
    /\ login.open /\ login.key # 0 /\ sessions < MaxSessions
    /\ login.key \notin lapsed \cup scanned
    /\ \/ scanned' = scanned \cup {login.key} /\ UNCHANGED <<lapsed, hitches>>
       \/ Hitch /\ lapsed' = lapsed \cup {login.key} /\ UNCHANGED scanned
    /\ Dialog
    /\ UNCHANGED <<neteaseCookie, touched, lists, login, wire, booted, storedCookie, held, issued, ended, sessions, acts, before>>

\* checkQrStatus: the service opens a session, the server keeps its cookie, the player goes on as
\* signed in, even if the dialog has been closed.  A code that was used or took too long has lapsed,
\* and so the dialog says, whichever code it shows.
PollArrives ==
    /\ UNCHANGED <<acts, hitches>>
    /\ \E w \in wire :
        /\ w.what = "poll"
        /\ IF w.key \in scanned \ lapsed
           THEN /\ sessions < MaxSessions /\ sessions' = sessions + 1
                /\ lapsed' = lapsed \cup {w.key}
                /\ held' = sessions' /\ storedCookie' = sessions'
                /\ login' = [login EXCEPT !.open = FALSE, !.status = "done"]
                /\ queue' = queue /\ at' = at /\ neteaseCookie' = sessions'
                /\ Resolve(queue, at, sessions', playing, resolved,
                           (wire \ {w}) \cup {[what |-> "lists", by |-> sessions']})
           ELSE /\ login' = IF w.key \in lapsed THEN [login EXCEPT !.status = "lapsed"] ELSE login
                /\ wire' = wire \ {w}
                /\ UNCHANGED <<queue, at, neteaseCookie, resolved, playing, sessions, lapsed, held, storedCookie>>
    /\ Sound
    /\ UNCHANGED <<mode, record, touched, lists, booted, issued, scanned, ended, before>>

\* The page is loaded again.
ReloadPlayer ==
    /\ Hitch
    /\ before' = record /\ record' = Empty
    /\ queue' = <<>> /\ at' = 0 /\ playing' = FALSE /\ mode' = "list" /\ resolved' = "none" /\ going' = FALSE
    /\ neteaseCookie' = 0 /\ lists' = 0 /\ login' = NoLogin /\ booted' = FALSE /\ touched' = FALSE /\ stuck' = FALSE
    /\ wire' = {[what |-> "cookie"]}
    /\ UNCHANGED <<storedCookie, held, issued, lapsed, scanned, ended, sessions, acts>>

PlayerNext ==
    \/ PlayPause \/ Skip("next") \/ Skip("prev") \/ PickTrack \/ ClearAll \/ PlayLink \/ NextMode
    \/ Ended \/ PlayRefused \/ SignOutOfService \/ LogoutArrives \/ SessionEnds \/ SessionExpired
    \/ InitPlayer \/ ListsArrive \/ ChoosePlaylist \/ TracksArrive \/ SongArrives \/ Unanswered
    \/ StartQrLogin \/ KeyArrives \/ CancelLogin \/ Poll \/ Scan \/ PollArrives \/ ReloadPlayer

PlayerSpec == PlayerInit /\ [][PlayerNext]_playerVars

-----------------------------------------------------------------------------

\* What is heard is the track that is shown, once it is resolved; the button tells whether something
\* is heard, unless the element has come to its end by itself; and without a session nothing of the
\* service is.
HeardIsShown ==
    /\ going => playing
    /\ playing /\ resolved # "none" => going \/ stuck
    /\ going => \/ resolved = Current(queue, at)
                \/ neteaseCookie # 0 /\ Lookup(Current(queue, at), neteaseCookie) \in wire
    /\ neteaseCookie = 0 => resolved \in {"none", Link}

\* "Load player state on mount" (EmbeddedMusicPlayer.tsx:87): once initPlayer is done, and if the
\* user has done nothing, the queue is the one that was left.
PlayerRestored == booted /\ ~touched => [queue |-> queue, at |-> at] = before

=============================================================================
