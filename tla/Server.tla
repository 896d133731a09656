-------------------------------- MODULE Server --------------------------------
(***************************************************************************)
(* The life of the process: cmd/memos/main.go starts the server of         *)
(* server/server.go, which serves API requests and live refresh streams    *)
(* (SSEHub) and runs the S3 presign runner in the background; a signal     *)
(* makes one goroutine shut it all down within shutdownTimeout.            *)
(*                                                                         *)
(* A request works with the store and may then broadcast an event.  Only   *)
(* that it is using the store matters here.  net/http is external.         *)
(***************************************************************************)
EXTENDS SSEHub

CONSTANT Scripts  \* who authenticates with a personal access token

VARIABLES
    stage,      \* how far main and the shutdown goroutine are
    signalled,  \* a SIGINT or SIGTERM arrived
    expired,    \* the shutdown deadline passed
    http,       \* http.Server: "off", "serving", "draining" or "closed"
    req,        \* per goroutine: "idle", "working" (with the store) or "sending"
    touching,   \* whose requests left the write of a token's last use behind
    runner,     \* the presign runner: "off", "waiting", "working" or "done"
    cancelled,  \* its context was cancelled
    store       \* the database connection: "open" or "closed"

life == <<stage, signalled, expired, http, req, touching, runner, cancelled, store>>
vars == <<hubvars, life>>

Init ==
    /\ HubInit
    /\ stage = "start" /\ signalled = FALSE /\ expired = FALSE
    /\ http = "off"
    /\ req = [b \in Broadcasters |-> "idle"]
    /\ touching = {}
    /\ runner = "off" /\ cancelled = FALSE
    /\ store = "open"

-----------------------------------------------------------------------------
(* Start *)

\* net.Listen, or os.Chmod of the socket, fails: main returns.
StartFails ==
    /\ stage = "start"
    /\ stage' = "exited"
    /\ UNCHANGED <<hubvars, signalled, expired, http, req, touching, runner, cancelled, store>>

\* Requests are served from here on, while RunOnce presigns in the main
\* goroutine under a context that nobody cancels.
Listen ==
    /\ stage = "start"
    /\ stage' = "presign"
    /\ http' = "serving"
    /\ UNCHANGED <<hubvars, signalled, expired, req, touching, runner, cancelled, store>>

\* RunOnce is over: the runner gets its goroutine, and one waits for the signal.
StartRunner ==
    /\ stage = "presign"
    /\ stage' = "running"
    /\ runner' = "waiting"
    /\ UNCHANGED <<hubvars, signalled, expired, http, req, touching, cancelled, store>>

\* Buffered in a channel of one; signal.Notify came before Start.
Signal ==
    /\ stage # "exited" /\ ~signalled
    /\ signalled' = TRUE
    /\ UNCHANGED <<hubvars, stage, expired, http, req, touching, runner, cancelled, store>>

-----------------------------------------------------------------------------
(* Shutdown *)

\* stopBackgroundRunners
StopRunners ==
    /\ stage = "running" /\ signalled
    /\ stage' = "closeHub"
    /\ cancelled' = TRUE
    /\ UNCHANGED <<hubvars, signalled, expired, http, req, touching, runner, store>>

\* context.WithTimeout runs out.
Expire ==
    /\ stage \in {"closeHub", "drain", "hangUp", "waitRunners", "closeStore"}
    /\ ~expired
    /\ expired' = TRUE
    /\ UNCHANGED <<hubvars, stage, signalled, http, req, touching, runner, cancelled, store>>

\* closeLongLivedConnections; then http.Server.Shutdown takes no new request.
CloseHub ==
    /\ stage = "closeHub"
    /\ Close
    /\ stage' = "drain"
    /\ http' = "draining"
    /\ UNCHANGED <<signalled, expired, req, touching, runner, cancelled, store>>

\* Every connection is idle or gone.
Drained ==
    /\ \A c \in Clients : handler[c] \in {"none", "done"}
    /\ \A b \in Broadcasters : req[b] = "idle"

\* Mutant: no deadline is given to http.Server.Shutdown.
DrainForever ==
    /\ stage = "drain"
    /\ Drained /\ stage' = "waitRunners"
    /\ UNCHANGED <<hubvars, signalled, expired, http, req, touching, runner, cancelled, store>>

\* http.Server.Shutdown returns: no request is left, or the deadline passed.
Drain ==
    /\ stage = "drain"
    /\ \/ Drained /\ stage' = "waitRunners"
       \/ expired /\ ~Drained /\ stage' = "hangUp"
    /\ UNCHANGED <<hubvars, signalled, expired, http, req, touching, runner, cancelled, store>>

\* http.Server.Close: the connections are cut, the handlers are not waited for.
HangUp ==
    /\ stage = "hangUp"
    /\ stage' = "waitRunners"
    /\ http' = "closed"
    /\ PeersGone(Clients)
    /\ UNCHANGED <<signalled, expired, req, touching, runner, cancelled, store>>

\* Mutant: the runners are not waited for.
WaitRunnersSkipped ==
    /\ stage = "waitRunners"
    /\ stage' = "closeStore"
    /\ UNCHANGED <<hubvars, signalled, expired, http, req, touching, runner, cancelled, store>>

\* waitBackgroundRunners
WaitRunners ==
    /\ stage = "waitRunners"
    /\ runner = "done" \/ expired
    /\ stage' = "closeStore"
    /\ UNCHANGED <<hubvars, signalled, expired, http, req, touching, runner, cancelled, store>>

CloseStore ==
    /\ stage = "closeStore"
    /\ stage' = "cancel"
    /\ store' = "closed"
    /\ UNCHANGED <<hubvars, signalled, expired, http, req, touching, runner, cancelled>>

\* cancel(): main returns, and the process with every goroutine is gone.
Exit ==
    /\ stage = "cancel"
    /\ stage' = "exited"
    /\ UNCHANGED <<hubvars, signalled, expired, http, req, touching, runner, cancelled, store>>

-----------------------------------------------------------------------------
(* Requests, streams and the runner *)

\* Authenticate: a personal access token makes x start a goroutine that notes
\* when the token was used.  Its context is not the request's.
Authenticated(x) == touching' = touching \cup ({x} \cap Scripts)

\* UpdatePATLastUsed returns: it wrote the token, or logged an error, as it
\* does when the store is closed.
Touched(x) ==
    /\ x \in touching
    /\ touching' = touching \ {x}
    /\ UNCHANGED <<hubvars, stage, signalled, expired, http, req, runner, cancelled, store>>

Request(b) ==
    /\ http = "serving" /\ req[b] = "idle"
    /\ req' = [req EXCEPT ![b] = "working"]
    /\ Authenticated(b)
    /\ UNCHANGED <<hubvars, stage, signalled, expired, http, runner, cancelled, store>>

\* It changed nothing that others want to hear of, or it failed.
Respond(b) ==
    /\ req[b] = "working"
    /\ req' = [req EXCEPT ![b] = "idle"]
    /\ UNCHANGED <<hubvars, stage, signalled, expired, http, touching, runner, cancelled, store>>

Announce(b) ==
    /\ req[b] = "working"
    /\ \E a \in Audiences : BroadcastBegin(b, a)
    /\ req' = [req EXCEPT ![b] = "sending"]
    /\ UNCHANGED <<stage, signalled, expired, http, touching, runner, cancelled, store>>

Announcing(b) ==
    /\ BroadcastStep(b)
    /\ req' = [req EXCEPT ![b] = IF event'[b] = NoEvent THEN "idle" ELSE "sending"]
    /\ UNCHANGED <<stage, signalled, expired, http, touching, runner, cancelled, store>>

\* GET /api/v1/sse: the handler authenticates with the store.
Stream(c) ==
    /\ http = "serving"
    /\ Connect(c)
    /\ Authenticated(c)
    /\ UNCHANGED <<stage, signalled, expired, http, req, runner, cancelled, store>>

Streaming(c) == HandlerStep(c) /\ UNCHANGED life

ClientChanges(c) == (PeerStalls(c) \/ PeersGone({c})) /\ UNCHANGED life

\* The ticker: every twelve hours.  When ctx is done as well select may take either.
RunnerTick ==
    /\ runner = "waiting"
    /\ runner' = "working"
    /\ UNCHANGED <<hubvars, stage, signalled, expired, http, req, touching, cancelled, store>>

\* CheckAndPresign is through, or its context made a database call fail.
RunnerBack ==
    /\ runner = "working"
    /\ runner' = "waiting"
    /\ UNCHANGED <<hubvars, stage, signalled, expired, http, req, touching, cancelled, store>>

RunnerStops ==
    /\ runner = "waiting" /\ cancelled
    /\ runner' = "done"
    /\ UNCHANGED <<hubvars, stage, signalled, expired, http, req, touching, cancelled, store>>

-----------------------------------------------------------------------------

Lifecycle ==
    \/ StartFails \/ Listen \/ StartRunner \/ Signal
    \/ StopRunners \/ Expire \/ CloseHub \/ Drain \/ HangUp \/ WaitRunners
    \/ CloseStore \/ Exit

Work ==
    /\ stage # "exited"
    /\ \/ \E b \in Broadcasters : Request(b) \/ Respond(b) \/ Announce(b) \/ Announcing(b)
       \/ \E c \in Clients : Stream(c) \/ Streaming(c) \/ ClientChanges(c)
       \/ \E x \in Broadcasters \cup Clients : Touched(x)
       \/ RunnerTick \/ RunnerBack \/ RunnerStops

Next == Lifecycle \/ Work

Spec == Init /\ [][Next]_vars

Alive == stage # "exited"

\* The start-up pass over the attachments ends, and the goroutines of the
\* shutdown, of a broadcast and of a stream keep running; select serves a ready
\* case sooner or later, and so does the lock.  A request may take as long as it
\* likes, the runner may work forever, and a client may never read again.
FairSpec ==
    /\ Spec
    /\ WF_vars(StartRunner) /\ WF_vars(Listen)
    /\ WF_vars(StopRunners) /\ SF_vars(CloseHub) /\ WF_vars(Drain) /\ WF_vars(HangUp)
    /\ WF_vars(WaitRunners) /\ WF_vars(CloseStore) /\ WF_vars(Exit)
    /\ \A b \in Broadcasters : WF_vars(Alive /\ Announcing(b))
    /\ \A c \in Clients :
        /\ SF_vars(Alive /\ Subscribe(c) /\ UNCHANGED life)
        /\ SF_vars(Alive /\ Receive(c) /\ UNCHANGED life)
        /\ SF_vars(Alive /\ ContextDone(c) /\ UNCHANGED life)
        /\ WF_vars(Alive /\ Write(c) /\ UNCHANGED life)
        /\ SF_vars(Alive /\ Unsubscribe(c) /\ UNCHANGED life)

-----------------------------------------------------------------------------
(* Properties *)

TypeOK ==
    /\ HubTypeOK
    /\ stage \in {"start", "presign", "running", "closeHub", "drain", "hangUp",
                  "waitRunners", "closeStore", "cancel", "exited"}
    /\ signalled \in BOOLEAN /\ expired \in BOOLEAN /\ cancelled \in BOOLEAN
    /\ http \in {"off", "serving", "draining", "closed"}
    /\ req \in [Broadcasters -> {"idle", "working", "sending"}]
    /\ \A b \in Broadcasters : req[b] = "sending" <=> event[b] # NoEvent
    /\ touching \subseteq Broadcasters \cup Clients
    /\ runner \in {"off", "waiting", "working", "done"}
    /\ store \in {"open", "closed"}

\* Shutdown closes the database after everybody it waits for: unless the
\* deadline passed no request, no stream and no runner is left that would use
\* it.  Not so the writes of tokens' last use (touching), for which nobody
\* waits: they may meet a closed database, and then only log it.
StoreClosedLast ==
    store = "closed" /\ ~expired =>
        /\ \A b \in Broadcasters : req[b] = "idle"
        /\ \A c \in Clients : handler[c] \in {"none", "done"}
        /\ runner = "done"

\* Once the process was told to stop it does, whatever requests, streams and
\* the runner are doing, because the deadline of Shutdown passes.
ShutdownCompletes == WF_vars(Expire) => (signalled ~> stage = "exited")

\* "Long-lived SSE requests do not finish on their own during
\* http.Server.Shutdown": closing the hub ends every stream, also one that was
\* being opened at that moment, so that nobody waits for the deadline unless a
\* client has stopped reading.
StreamsEnd ==
    \A c \in Clients :
        closed /\ handler[c] \notin {"none", "done"}
            ~> handler[c] = "done" \/ peer[c] = "stalled" \/ stage = "exited" \/ expired

-----------------------------------------------------------------------------
(* Why StoreClosedLast holds: what each stage of Shutdown leaves behind. *)

StagesInOrder ==
    /\ http = "serving" => stage \in {"presign", "running", "closeHub"}
    /\ stage = "hangUp" => expired
    /\ stage \in {"waitRunners", "closeStore", "cancel"} /\ ~expired => Drained
    /\ stage \in {"closeStore", "cancel"} /\ ~expired => runner = "done"
    /\ store = "closed" => stage \in {"cancel", "exited"}

=============================================================================
