-------------------------------- MODULE SSEHub --------------------------------
(***************************************************************************)
(* Live refresh: the hub of server/router/api/v1/sse_hub.go and the        *)
(* handlers of sse_handler.go that stream its events, one per connection.  *)
(*                                                                         *)
(* Subscribe, Unsubscribe and Close hold the hub's write lock from start   *)
(* to end and are one step each.  Broadcast holds the read lock while it   *)
(* visits the clients one by one; other broadcasts and the handlers'       *)
(* receives, which take no lock, run in between.                           *)
(*                                                                         *)
(* An event is its number, the visibility and the creator that decide who  *)
(* may see it.  Its text, and the headers of the stream, are left out.     *)
(***************************************************************************)
EXTENDS Naturals, Sequences

CONSTANTS
    Clients,       \* connections
    Broadcasters,  \* goroutines serving API requests
    Users,
    Audiences,     \* who the events broadcast are meant for
    Owner,         \* [Clients -> Users]: SSEClient.userID
    Admins,        \* the clients that subscribed with RoleAdmin
    Stallers,      \* the clients that may stop reading without hanging up
    Buffer,        \* capacity of SSEClient.events; 32 in the code
    MaxEvents,     \* bound on the events broadcast
    NoEvent        \* no broadcast under way

\* Anything but the first three is an unknown visibility.
Visibilities == {"PRIVATE", "PROTECTED", "PUBLIC", "ARCHIVED"}

\* The visibility and the creator decide who may see it; after is history: the
\* events whose broadcasts were over when its own began.
Event == [id : Nat, vis : Visibilities, creator : Users, after : SUBSET Nat]

ASSUME HubConstants ==
    /\ Owner \in [Clients -> Users]
    /\ Admins \subseteq Clients /\ Stallers \subseteq Clients
    /\ Buffer \in Nat \ {0}
    /\ MaxEvents \in Nat
    /\ Audiences \subseteq Visibilities \X Users
    /\ NoEvent \notin Event

VARIABLES
    clients,    \* SSEHub.clients
    closed,     \* SSEHub.closed
    channel,    \* SSEClient.events: "nil", "open" or "closed"
    buf,        \* what it holds
    handler,    \* where each connection's handleSSE is
    peer,       \* the other end: "reads", "stalled" or "gone"
    event,      \* what each broadcaster is broadcasting
    todo,       \* the clients Broadcast has not visited yet
    published,  \* events broadcast so far
    finished,   \* those whose broadcast is over
    since,      \* how many were out when a client was registered
    sent,       \* the events sent to a client's channel, in their order
    dropped,    \* events a client missed because its buffer was full
    panicked    \* a send on, or a close of, a closed channel

casts == <<event, todo, published, finished>>
history == <<since, sent, dropped>>
hubvars == <<clients, closed, channel, buf, handler, peer, casts, history, panicked>>

HubInit ==
    /\ clients = {} /\ closed = FALSE
    /\ channel = [c \in Clients |-> "nil"]
    /\ buf = [c \in Clients |-> <<>>]
    /\ handler = [c \in Clients |-> "none"]
    /\ peer = [c \in Clients |-> "reads"]
    /\ event = [b \in Broadcasters |-> NoEvent]
    /\ todo = [b \in Broadcasters |-> {}]
    /\ published = 0 /\ finished = {}
    /\ since = [c \in Clients |-> 0]
    /\ sent = [c \in Clients |-> <<>>]
    /\ dropped = [c \in Clients |-> {}]
    /\ panicked = FALSE

\* h.mu.Lock(): nobody holds the read lock.
Locked == \A b \in Broadcasters : event[b] = NoEvent

-----------------------------------------------------------------------------
(* The handler of a connection *)

\* Authentication succeeded; the handler has not subscribed yet.
Connect(c) ==
    /\ handler[c] = "none"
    /\ handler' = [handler EXCEPT ![c] = "subscribe"]
    /\ UNCHANGED <<clients, closed, channel, buf, peer, casts, history, panicked>>

\* Mutant: a closed hub still takes clients.
SubscribeAlways(c) ==
    /\ handler[c] = "subscribe" /\ Locked
    /\ channel' = [channel EXCEPT ![c] = "open"]
    /\ clients' = clients \cup {c}
    /\ since' = [since EXCEPT ![c] = published]
    /\ handler' = [handler EXCEPT ![c] = "write"]
    /\ UNCHANGED <<closed, buf, peer, casts, sent, dropped, panicked>>

\* A hub that is closed hands out a closed channel.  The greeting is written next.
Subscribe(c) ==
    /\ handler[c] = "subscribe" /\ Locked
    /\ channel' = [channel EXCEPT ![c] = IF closed THEN "closed" ELSE "open"]
    /\ clients' = IF closed THEN clients ELSE clients \cup {c}
    /\ since' = [since EXCEPT ![c] = published]
    /\ handler' = [handler EXCEPT ![c] = "write"]
    /\ UNCHANGED <<closed, buf, peer, casts, sent, dropped, panicked>>

Goto(c, label) == handler' = [handler EXCEPT ![c] = label]

\* A closed channel still yields what it holds.
Receive(c) ==
    /\ handler[c] = "select"
    /\ \/ /\ buf[c] # <<>>
          /\ Goto(c, "write")
          /\ buf' = [buf EXCEPT ![c] = Tail(@)]
       \/ /\ buf[c] = <<>> /\ channel[c] = "closed"
          /\ Goto(c, "unsubscribe")
          /\ UNCHANGED buf
    /\ UNCHANGED <<clients, closed, channel, peer, casts, history, panicked>>

Heartbeat(c) ==
    /\ handler[c] = "select"
    /\ Goto(c, "write")
    /\ UNCHANGED <<clients, closed, channel, buf, peer, casts, history, panicked>>

\* ctx.Done(): the server noticed that the client hung up.
ContextDone(c) ==
    /\ handler[c] = "select" /\ peer[c] = "gone"
    /\ Goto(c, "unsubscribe")
    /\ UNCHANGED <<clients, closed, channel, buf, peer, casts, history, panicked>>

\* A write returns once the client reads, with an error when it is gone.
Write(c) ==
    /\ handler[c] = "write" /\ peer[c] # "stalled"
    /\ Goto(c, IF peer[c] = "gone" THEN "unsubscribe" ELSE "select")
    /\ UNCHANGED <<clients, closed, channel, buf, peer, casts, history, panicked>>

\* Mutant: the channel is closed whether or not Close had closed it.
UnsubscribeUnchecked(c) ==
    /\ handler[c] = "unsubscribe" /\ Locked
    /\ handler' = [handler EXCEPT ![c] = "done"]
    /\ clients' = clients \ {c}
    /\ channel' = [channel EXCEPT ![c] = "closed"]
    /\ panicked' = (panicked \/ channel[c] = "closed")
    /\ UNCHANGED <<closed, buf, peer, casts, history>>

\* The deferred Unsubscribe: only a client still registered has its channel closed.
Unsubscribe(c) ==
    /\ handler[c] = "unsubscribe" /\ Locked
    /\ handler' = [handler EXCEPT ![c] = "done"]
    /\ \/ /\ c \in clients
          /\ clients' = clients \ {c}
          /\ channel' = [channel EXCEPT ![c] = "closed"]
          /\ panicked' = (panicked \/ channel[c] = "closed")
       \/ c \notin clients /\ UNCHANGED <<clients, channel, panicked>>
    /\ UNCHANGED <<closed, buf, peer, casts, history>>

\* The client stops reading.
PeerStalls(c) ==
    /\ peer[c] = "reads" /\ c \in Stallers
    /\ peer' = [peer EXCEPT ![c] = "stalled"]
    /\ UNCHANGED <<clients, closed, channel, buf, handler, casts, history, panicked>>

\* Clients hang up, or the server cuts their connections.
PeersGone(S) ==
    /\ peer' = [c \in Clients |-> IF c \in S THEN "gone" ELSE peer[c]]
    /\ UNCHANGED <<clients, closed, channel, buf, handler, casts, history, panicked>>

-----------------------------------------------------------------------------
(* Close and Broadcast *)

Close ==
    /\ Locked
    /\ closed' = TRUE
    /\ clients' = {}
    /\ channel' = [c \in Clients |-> IF c \in clients THEN "closed" ELSE channel[c]]
    /\ panicked' = (panicked \/ \E c \in clients : channel[c] = "closed")
    /\ UNCHANGED <<buf, handler, peer, casts, history>>

BroadcastBegin(b, audience) ==
    /\ event[b] = NoEvent
    /\ published < MaxEvents
    /\ event' = [event EXCEPT ![b] = [id |-> published + 1, vis |-> audience[1], creator |-> audience[2],
                                      after |-> {e.id : e \in finished}]]
    /\ todo' = [todo EXCEPT ![b] = clients]
    /\ published' = published + 1
    /\ UNCHANGED <<clients, closed, channel, buf, handler, peer, finished, history, panicked>>

\* Mutant: nobody looks at the visibility.
CanReceiveAny(c, e) == TRUE

\* The code also names "" like PUBLIC and PROTECTED; an unknown visibility is denied.
CanReceive(c, e) ==
    \/ e.vis = "PRIVATE" /\ (Owner[c] = e.creator \/ c \in Admins)
    \/ e.vis \in {"PUBLIC", "PROTECTED"}

\* Mutant: the loop ends at the first client that may not see the event.
BroadcastVisitBreaks(b, c) ==
    /\ event[b] # NoEvent /\ c \in todo[b]
    /\ todo' = [todo EXCEPT ![b] = IF CanReceive(c, event[b]) THEN @ \ {c} ELSE {}]
    /\ \/ /\ CanReceive(c, event[b]) /\ Len(buf[c]) < Buffer
          /\ buf' = [buf EXCEPT ![c] = Append(@, event[b])]
          /\ sent' = [sent EXCEPT ![c] = Append(@, event[b])]
          /\ UNCHANGED dropped
       \/ /\ CanReceive(c, event[b]) /\ Len(buf[c]) >= Buffer
          /\ dropped' = [dropped EXCEPT ![c] = @ \cup {event[b]}]
          /\ UNCHANGED <<buf, sent>>
       \/ ~CanReceive(c, event[b]) /\ UNCHANGED <<buf, sent, dropped>>
    /\ UNCHANGED <<clients, closed, channel, handler, peer, event, published, finished, since, panicked>>

\* Mutant: the client visited stays among those to visit.
BroadcastVisitAgain(b, c) ==
    /\ event[b] # NoEvent /\ c \in todo[b]
    /\ CanReceive(c, event[b]) /\ Len(buf[c]) < Buffer
    /\ buf' = [buf EXCEPT ![c] = Append(@, event[b])]
    /\ sent' = [sent EXCEPT ![c] = Append(@, event[b])]
    /\ panicked' = (panicked \/ channel[c] = "closed")
    /\ UNCHANGED <<clients, closed, channel, handler, peer, event, todo, published, finished, since, dropped>>

\* The next client in map order: the send never blocks.
BroadcastVisit(b, c) ==
    /\ event[b] # NoEvent /\ c \in todo[b]
    /\ todo' = [todo EXCEPT ![b] = @ \ {c}]
    /\ \/ /\ CanReceive(c, event[b]) /\ Len(buf[c]) < Buffer
          /\ buf' = [buf EXCEPT ![c] = Append(@, event[b])]
          /\ sent' = [sent EXCEPT ![c] = Append(@, event[b])]
          /\ panicked' = (panicked \/ channel[c] = "closed")
          /\ UNCHANGED dropped
       \/ /\ CanReceive(c, event[b]) /\ Len(buf[c]) >= Buffer
          /\ dropped' = [dropped EXCEPT ![c] = @ \cup {event[b]}]
          /\ panicked' = (panicked \/ channel[c] = "closed")
          /\ UNCHANGED <<buf, sent>>
       \/ ~CanReceive(c, event[b]) /\ UNCHANGED <<buf, sent, dropped, panicked>>
    /\ UNCHANGED <<clients, closed, channel, handler, peer, event, published, finished, since>>

BroadcastEnd(b) ==
    /\ event[b] # NoEvent /\ todo[b] = {}
    /\ event' = [event EXCEPT ![b] = NoEvent]
    /\ finished' = finished \cup {event[b]}
    /\ UNCHANGED <<clients, closed, channel, buf, handler, peer, todo, published, history, panicked>>

-----------------------------------------------------------------------------

HandlerStep(c) ==
    \/ Subscribe(c) \/ Receive(c) \/ Heartbeat(c) \/ ContextDone(c)
    \/ Write(c) \/ Unsubscribe(c)

BroadcastStep(b) == (\E c \in Clients : BroadcastVisit(b, c)) \/ BroadcastEnd(b)

HubNext ==
    \/ \E c \in Clients : Connect(c) \/ HandlerStep(c) \/ PeerStalls(c)
    \/ \E S \in SUBSET Clients : PeersGone(S)
    \/ \E b \in Broadcasters :
        \/ \E a \in Audiences : BroadcastBegin(b, a)
        \/ BroadcastStep(b)
    \/ Close

HubSpec == HubInit /\ [][HubNext]_hubvars

-----------------------------------------------------------------------------
(* Properties *)

HubTypeOK ==
    /\ clients \subseteq Clients
    /\ closed \in BOOLEAN
    /\ channel \in [Clients -> {"nil", "open", "closed"}]
    /\ buf \in [Clients -> Seq(Event)]
    /\ handler \in [Clients -> {"none", "subscribe", "select", "write", "unsubscribe", "done"}]
    /\ peer \in [Clients -> {"reads", "stalled", "gone"}]
    /\ event \in [Broadcasters -> Event \cup {NoEvent}]
    /\ todo \in [Broadcasters -> SUBSET Clients]
    /\ published \in Nat
    /\ finished \subseteq Event
    /\ since \in [Clients -> Nat]
    /\ sent \in [Clients -> Seq(Event)]
    /\ dropped \in [Clients -> SUBSET Event]
    /\ panicked \in BOOLEAN

\* "It is safe for concurrent use": whatever the order in which handlers come
\* and go, broadcasts run and the hub is closed, nobody sends on a closed
\* channel and no channel is closed twice, either of which ends the process.
NoPanic == ~panicked

Got(c) == {sent[c][i] : i \in 1..Len(sent[c])} \cup dropped[c]

\* An event reaches exactly those it is meant for: of the broadcasts that began
\* after a client was registered and are over while it still is, it was sent
\* the events it may see, or its buffer was full, and no others.
Delivery ==
    \A c \in clients, e \in finished :
        e.id > since[c] => (e \in Got(c) <=> CanReceive(c, e))

\* A client is sent no event twice, and never an event whose broadcast was over
\* before the broadcast of an event it has already been sent began: the events
\* of one request, or of one request after the other, arrive in their order,
\* whatever a full buffer drops.  Only broadcasts that overlap may arrive in
\* different orders at different clients.
InOrder ==
    \A c \in Clients : \A j \in 1..Len(sent[c]) : \A i \in 1..(j - 1) :
        /\ sent[c][j].id # sent[c][i].id
        /\ sent[c][j].id \notin sent[c][i].after

-----------------------------------------------------------------------------
(* Why they hold: the inductive invariants behind NoPanic, Delivery and InOrder. *)

\* Registered clients have open channels, a closed hub has none, and a broadcast, which holds the
\* read lock, has only registered clients left to visit.
ChannelsOpen ==
    /\ \A c \in clients : channel[c] = "open"
    /\ closed => clients = {}
    /\ \A b \in Broadcasters : event[b] # NoEvent => todo[b] \subseteq clients

\* What was sent or dropped was meant for the client, no event is ahead of the
\* count, and a broadcast under way owes its event only to clients in todo.
Owed ==
    /\ \A c \in Clients : \A e \in Got(c) : CanReceive(c, e)
    /\ \A e \in finished : e.id <= published
    /\ \A b \in Broadcasters : event[b] # NoEvent =>
        /\ event[b].id <= published
        /\ \A c \in clients :
            event[b].id > since[c] /\ CanReceive(c, event[b]) =>
                c \in todo[b] \/ event[b] \in Got(c)

\* Broadcasts have different numbers, those under way are not among the
\* finished ones, which are all that an event is after, and a client still to
\* be visited was not sent the event.
Numbered ==
    /\ \A e \in finished : e.id <= published
    /\ \A c \in Clients : \A i \in 1..Len(sent[c]) :
        /\ sent[c][i].id <= published
        /\ sent[c][i].after \subseteq {e.id : e \in finished}
    /\ \A b \in Broadcasters : event[b] # NoEvent =>
        /\ event[b].id <= published
        /\ event[b].after \subseteq {e.id : e \in finished}
        /\ \A e \in finished : e.id # event[b].id
        /\ \A d \in Broadcasters : event[d] # NoEvent /\ d # b => event[d].id # event[b].id
        /\ \A c \in todo[b] : \A i \in 1..Len(sent[c]) : sent[c][i].id # event[b].id

=============================================================================
