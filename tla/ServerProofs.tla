----------------------------- MODULE ServerProofs -----------------------------
(***************************************************************************)
(* What SSEHub guarantees for any set of clients and broadcasters, any     *)
(* buffer and any number of events: types, NoPanic, Delivery and InOrder.  *)
(* The server uses the hub as SSEHub allows, so that this holds of the     *)
(* running server; and Shutdown closes the store when nobody it waits for  *)
(* uses it any more.                                                       *)
(***************************************************************************)
EXTENDS Server, TLAPS

-----------------------------------------------------------------------------
(* Type correctness *)

\* Every step of the hub, its handlers and its broadcasters respects the types.
THEOREM HubTypes == HubSpec => []HubTypeOK
<1> USE DEF history, casts, hubvars, HubTypeOK
<1>1. HubInit => HubTypeOK
  <2> SUFFICES ASSUME HubInit PROVE HubTypeOK
    OBVIOUS
  <2>1. buf \in [Clients -> Seq(Event)]
    BY <<>> \in Seq(Event) DEF HubInit
  <2>2. /\ event \in [Broadcasters -> Event \cup {NoEvent}]
        /\ todo \in [Broadcasters -> SUBSET Clients]
        /\ clients \subseteq Clients
        /\ published \in Nat /\ finished \subseteq Event
    BY DEF HubInit
  <2>3. sent \in [Clients -> Seq(Event)] /\ dropped \in [Clients -> SUBSET Event]
    BY <<>> \in Seq(Event) DEF HubInit
  <2> QED
    BY <2>1, <2>2, <2>3 DEF HubInit
<1>2. HubTypeOK /\ [HubNext]_hubvars => HubTypeOK'
  <2> SUFFICES ASSUME HubTypeOK, [HubNext]_hubvars PROVE HubTypeOK'
    OBVIOUS
  <2>1. ASSUME NEW c \in Clients, Connect(c) PROVE HubTypeOK'
    BY <2>1 DEF Connect
  <2>2. ASSUME NEW c \in Clients, HandlerStep(c) PROVE HubTypeOK'
    <3>1. CASE Subscribe(c)
      BY <3>1 DEF Subscribe
    <3>2. CASE Receive(c)
      <4>1. buf[c] # <<>> => Tail(buf[c]) \in Seq(Event)
        OBVIOUS
      <4>2. buf' \in [Clients -> Seq(Event)]
        BY <3>2, <4>1 DEF Receive
      <4> QED
        BY <3>2, <4>2 DEF Receive, Goto
    <3>3. CASE Heartbeat(c) \/ ContextDone(c) \/ Write(c)
      BY <3>3 DEF Heartbeat, ContextDone, Write, Goto
    <3>4. CASE Unsubscribe(c)
      BY <3>4 DEF Unsubscribe
    <3> QED
      BY <2>2, <3>1, <3>2, <3>3, <3>4 DEF HandlerStep
  <2>3. ASSUME NEW c \in Clients, PeerStalls(c) PROVE HubTypeOK'
    BY <2>3 DEF PeerStalls
  <2>9. ASSUME NEW S \in SUBSET Clients, PeersGone(S) PROVE HubTypeOK'
    BY <2>9 DEF PeersGone
  <2>4. ASSUME NEW b \in Broadcasters, NEW a \in Audiences, BroadcastBegin(b, a)
        PROVE HubTypeOK'
    <3>1. a[1] \in Visibilities /\ a[2] \in Users
      BY HubConstants DEF HubConstants
    <3>2. [id |-> published + 1, vis |-> a[1], creator |-> a[2],
           after |-> {e.id : e \in finished}] \in Event
      BY <3>1 DEF Event
    <3> QED
      BY <2>4, <3>2 DEF BroadcastBegin
  <2>5. ASSUME NEW b \in Broadcasters, NEW c \in Clients, BroadcastVisit(b, c)
        PROVE HubTypeOK'
    <3>1. event[b] \in Event
      BY <2>5 DEF BroadcastVisit
    <3>2. todo' \in [Broadcasters -> SUBSET Clients]
      BY <2>5 DEF BroadcastVisit
    <3>3. buf' \in [Clients -> Seq(Event)]
      <4>1. Append(buf[c], event[b]) \in Seq(Event)
        BY <3>1
      <4> QED
        BY <2>5, <4>1 DEF BroadcastVisit
    <3>4. sent' \in [Clients -> Seq(Event)] /\ dropped' \in [Clients -> SUBSET Event]
      <4>1. \A S \in SUBSET Event : S \cup {event[b]} \in SUBSET Event
        BY <3>1
      <4>2. sent' \in [Clients -> Seq(Event)]
        <5>1. sent' = sent \/ sent' = [sent EXCEPT ![c] = Append(sent[c], event[b])]
          BY <2>5 DEF BroadcastVisit
        <5>2. Append(sent[c], event[b]) \in Seq(Event)
          BY <3>1
        <5> QED
          BY <5>1, <5>2
      <4>3. dropped' \in [Clients -> SUBSET Event]
        <5>1. dropped' = dropped \/ dropped' = [dropped EXCEPT ![c] = dropped[c] \cup {event[b]}]
          BY <2>5 DEF BroadcastVisit
        <5>2. dropped[c] \cup {event[b]} \in SUBSET Event
          BY <4>1
        <5> QED
          BY <5>1, <5>2
      <4> QED
        BY <4>2, <4>3
    <3>5. panicked' \in BOOLEAN
      BY <2>5 DEF BroadcastVisit
    <3> QED
      BY <2>5, <3>2, <3>3, <3>4, <3>5 DEF BroadcastVisit
  <2>6. ASSUME NEW b \in Broadcasters, BroadcastEnd(b) PROVE HubTypeOK'
    BY <2>6 DEF BroadcastEnd
  <2>7. CASE Close
    BY <2>7 DEF Close
  <2>8. CASE UNCHANGED hubvars
    BY <2>8
  <2> QED
    BY <2>1, <2>2, <2>3, <2>4, <2>5, <2>6, <2>7, <2>8, <2>9 DEF HubNext, BroadcastStep
<1> QED
  BY <1>1, <1>2, PTL DEF HubSpec

-----------------------------------------------------------------------------
(* No panic *)

\* A step that is none of the six that matter below leaves the registry, the
\* channels, the broadcasts and the history alone.
Core == <<clients, closed, channel, casts, history, panicked>>

LEMMA CoreSteps ==
    ASSUME [HubNext]_hubvars
    PROVE  \/ UNCHANGED Core
           \/ \E c \in Clients : Subscribe(c) \/ Unsubscribe(c)
           \/ Close
           \/ \E b \in Broadcasters :
                \/ \E a \in Audiences : BroadcastBegin(b, a)
                \/ \E c \in Clients : BroadcastVisit(b, c)
                \/ BroadcastEnd(b)
<1> USE DEF Core, casts, history, hubvars
<1>1. ASSUME NEW c \in Clients, Connect(c) \/ HandlerStep(c) \/ PeerStalls(c)
      PROVE  UNCHANGED Core \/ Subscribe(c) \/ Unsubscribe(c)
  BY <1>1 DEF Connect, HandlerStep, Receive, Heartbeat, ContextDone, Write, PeerStalls
<1>2. ASSUME NEW S \in SUBSET Clients, PeersGone(S) PROVE UNCHANGED Core
  BY <1>2 DEF PeersGone
<1> QED
  BY <1>1, <1>2 DEF HubNext, BroadcastStep

\* A channel is open as long as its client is registered, and the lock keeps
\* the clients a broadcast has still to visit registered.
LEMMA ChannelsStep ==
    ASSUME HubTypeOK, ChannelsOpen, NoPanic, [HubNext]_hubvars
    PROVE  ChannelsOpen' /\ NoPanic'
<1> USE DEF HubTypeOK, ChannelsOpen, NoPanic, casts, history
<1>1. CASE UNCHANGED Core
  BY <1>1 DEF Core
<1>2. ASSUME NEW c \in Clients, Subscribe(c) PROVE ChannelsOpen' /\ NoPanic'
  BY <1>2 DEF Subscribe, Locked
<1>3. ASSUME NEW c \in Clients, Unsubscribe(c) PROVE ChannelsOpen' /\ NoPanic'
  BY <1>3 DEF Unsubscribe, Locked
<1>4. CASE Close
  <2>1. ~ \E c \in clients : channel[c] = "closed"
    OBVIOUS
  <2>2. NoPanic'
    BY <1>4, <2>1 DEF Close
  <2>3. ChannelsOpen'
    BY <1>4 DEF Close, Locked
  <2> QED
    BY <2>2, <2>3
<1>5. ASSUME NEW b \in Broadcasters, NEW a \in Audiences, BroadcastBegin(b, a)
      PROVE  ChannelsOpen' /\ NoPanic'
  BY <1>5 DEF BroadcastBegin
<1>6. ASSUME NEW b \in Broadcasters, NEW c \in Clients, BroadcastVisit(b, c)
      PROVE  ChannelsOpen' /\ NoPanic'
  <2>1. channel[c] = "open"
    BY <1>6 DEF BroadcastVisit
  <2>2. NoPanic'
    BY <1>6, <2>1 DEF BroadcastVisit
  <2>3. ChannelsOpen'
    BY <1>6 DEF BroadcastVisit
  <2> QED
    BY <2>2, <2>3
<1>7. ASSUME NEW b \in Broadcasters, BroadcastEnd(b) PROVE ChannelsOpen' /\ NoPanic'
  BY <1>7 DEF BroadcastEnd
<1> QED
  BY CoreSteps, <1>1, <1>2, <1>3, <1>4, <1>5, <1>6, <1>7

\* Nobody ever sends on, or closes, a channel that is closed.
THEOREM HubNoPanic == HubSpec => [](ChannelsOpen /\ NoPanic)
<1>1. HubInit => ChannelsOpen /\ NoPanic
  BY DEF HubInit, ChannelsOpen, NoPanic
<1>2. HubTypeOK /\ (ChannelsOpen /\ NoPanic) /\ [HubNext]_hubvars => (ChannelsOpen /\ NoPanic)'
  BY ChannelsStep
<1> QED
  BY <1>1, <1>2, HubTypes, PTL DEF HubSpec

-----------------------------------------------------------------------------
(* Delivery *)

\* What Append(s, x) holds.
LEMMA AppendHas ==
    ASSUME NEW S, NEW s \in Seq(S), NEW x \in S, NEW e
    PROVE  (\E i \in 1..Len(Append(s, x)) : e = Append(s, x)[i])
               <=> (\E i \in 1..Len(s) : e = s[i]) \/ e = x
<1>1. /\ Len(Append(s, x)) = Len(s) + 1 /\ Len(s) \in Nat
      /\ Append(s, x)[Len(s) + 1] = x
      /\ \A i \in 1..Len(s) : Append(s, x)[i] = s[i]
  OBVIOUS
<1> QED
  BY <1>1

\* One step neither sends an event to the wrong client nor forgets a right one.
LEMMA DeliveryStep ==
    ASSUME HubTypeOK, Owed, Delivery, [HubNext]_hubvars
    PROVE  Owed' /\ Delivery'
<1> USE DEF casts, history
<1>1. CASE UNCHANGED Core
  BY <1>1 DEF Core, Owed, Delivery, CanReceive, Got
<1>2. ASSUME NEW c \in Clients, Subscribe(c) PROVE Owed' /\ Delivery'
  <2>1. Owed'
    BY <1>2 DEF Subscribe, Locked, Owed, CanReceive, Got
  <2>2. \A e \in finished : ~ e.id > since'[c]
    BY <1>2 DEF Subscribe, Owed, HubTypeOK, Event
  <2>3. Delivery'
    <3>1. \A d \in Clients : d # c => since'[d] = since[d]
      BY <1>2 DEF Subscribe, HubTypeOK
    <3>2. /\ UNCHANGED <<finished, sent, dropped>>
          /\ clients' \subseteq clients \cup {c} /\ clients \subseteq Clients
      BY <1>2 DEF Subscribe, HubTypeOK
    <3>3. ASSUME NEW d \in clients', NEW e \in finished', e.id > since'[d]
          PROVE  e \in Got(d)' <=> CanReceive(d, e)
      <4>1. d # c /\ d \in clients /\ e \in finished /\ e.id > since[d]
        BY <2>2, <3>1, <3>2, <3>3
      <4> QED
        BY <4>1, <3>2 DEF Delivery, Got
    <3> QED
      BY <3>3 DEF Delivery, CanReceive
  <2> QED
    BY <2>1, <2>3
<1>3. ASSUME NEW c \in Clients, Unsubscribe(c) PROVE Owed' /\ Delivery'
  BY <1>3 DEF Unsubscribe, Locked, Owed, Delivery, CanReceive, Got
<1>4. CASE Close
  BY <1>4 DEF Close, Locked, Owed, Delivery, CanReceive, Got
<1>5. ASSUME NEW b \in Broadcasters, NEW a \in Audiences, BroadcastBegin(b, a)
      PROVE  Owed' /\ Delivery'
  <2>1. Delivery'
    BY <1>5 DEF BroadcastBegin, Delivery, CanReceive, Got
  <2>2. event'[b].id = published' /\ published' = published + 1
    BY <1>5 DEF BroadcastBegin, HubTypeOK
  <2>3. Owed'
    BY <1>5, <2>2 DEF BroadcastBegin, Owed, CanReceive, Got, HubTypeOK, Event
  <2> QED
    BY <2>1, <2>3
<1>6. ASSUME NEW b \in Broadcasters, NEW c \in Clients, BroadcastVisit(b, c)
      PROVE  Owed' /\ Delivery'
  <2>1. /\ UNCHANGED <<clients, event, published, finished, since>>
        /\ \A d \in Clients : d # c => sent'[d] = sent[d] /\ dropped'[d] = dropped[d]
        /\ \A x \in Broadcasters : todo'[x] = IF x = b THEN todo[b] \ {c} ELSE todo[x]
    BY <1>6 DEF BroadcastVisit, HubTypeOK
  <2>2. \A e : e \in Got(c)' <=>
            e \in Got(c) \/ (e = event[b] /\ CanReceive(c, event[b]))
    <3>1. sent \in [Clients -> Seq(Event)] /\ dropped \in [Clients -> SUBSET Event]
      BY DEF HubTypeOK
    <3>2. \/ /\ CanReceive(c, event[b]) /\ dropped' = dropped
             /\ sent' = [sent EXCEPT ![c] = Append(@, event[b])]
          \/ /\ CanReceive(c, event[b]) /\ sent' = sent
             /\ dropped' = [dropped EXCEPT ![c] = @ \cup {event[b]}]
          \/ ~ CanReceive(c, event[b]) /\ sent' = sent /\ dropped' = dropped
      BY <1>6 DEF BroadcastVisit
    <3>3. \/ /\ CanReceive(c, event[b]) /\ dropped'[c] = dropped[c]
             /\ sent'[c] = Append(sent[c], event[b])
          \/ /\ CanReceive(c, event[b]) /\ sent'[c] = sent[c]
             /\ dropped'[c] = dropped[c] \cup {event[b]}
          \/ ~ CanReceive(c, event[b]) /\ sent'[c] = sent[c] /\ dropped'[c] = dropped[c]
      BY <3>1, <3>2
    <3>4. event[b] \in Event /\ sent[c] \in Seq(Event)
      BY <1>6, <3>1 DEF BroadcastVisit, HubTypeOK
    <3>5. \A e : (\E i \in 1..Len(Append(sent[c], event[b])) : e = Append(sent[c], event[b])[i])
               <=> (\E i \in 1..Len(sent[c]) : e = sent[c][i]) \/ e = event[b]
      BY <3>4, AppendHas
    <3> QED
      BY <3>3, <3>5 DEF Got
  <2>3. \A d \in Clients : d # c => \A e :
            (e \in Got(d)' <=> e \in Got(d))
    BY <2>1 DEF Got
  <2>4. ASSUME NEW d \in clients, NEW e \in finished, e.id > since[d]
        PROVE  e \in Got(d)' <=> CanReceive(d, e)
    <3>1. d \in Clients
      BY DEF HubTypeOK
    <3>2. e \in Got(d) <=> CanReceive(d, e)
      BY <2>4 DEF Delivery
    <3>3. CASE d = c
      BY <2>2, <3>2, <3>3
    <3>4. CASE d # c
      BY <2>3, <3>1, <3>2, <3>4
    <3> QED
      BY <3>3, <3>4
  <2>5. Owed'
    <3>1. \A d \in Clients : \A e \in Got(d)' : CanReceive(d, e)
      BY <2>2, <2>3 DEF Owed
    <3>2. ASSUME NEW x \in Broadcasters, event[x] # NoEvent, NEW d \in clients,
                 event[x].id > since[d], CanReceive(d, event[x])
          PROVE  d \in todo'[x] \/ event[x] \in Got(d)'
      <4>1. d \in Clients
        BY DEF HubTypeOK
      <4>2. d \in todo[x] \/ event[x] \in Got(d)
        BY <3>2 DEF Owed
      <4>3. event[x] \in Got(d) => event[x] \in Got(d)'
        BY <4>1, <2>2, <2>3
      <4>4. CASE d \in todo[x]
        <5>1. CASE d = c /\ x = b
          BY <3>2, <5>1, <2>2
        <5>2. CASE ~ (d = c /\ x = b)
          BY <2>1, <4>4, <5>2
        <5> QED
          BY <5>1, <5>2
      <4> QED
        BY <4>2, <4>3, <4>4
    <3> QED
      BY <3>1, <3>2, <2>1 DEF Owed, CanReceive
  <2>6. Delivery'
    BY <2>1, <2>4 DEF Delivery, CanReceive
  <2> QED
    BY <2>5, <2>6
<1>7. ASSUME NEW b \in Broadcasters, BroadcastEnd(b) PROVE Owed' /\ Delivery'
  <2>1. Owed'
    BY <1>7 DEF BroadcastEnd, Owed, CanReceive, Got, HubTypeOK
  <2>2. \A c \in clients : event[b].id > since[c] =>
            (event[b] \in Got(c) <=> CanReceive(c, event[b]))
    BY <1>7 DEF BroadcastEnd, Owed, HubTypeOK
  <2>3. Delivery'
    BY <1>7, <2>2 DEF BroadcastEnd, Delivery, CanReceive, Got
  <2> QED
    BY <2>1, <2>3
<1> QED
  BY CoreSteps, <1>1, <1>2, <1>3, <1>4, <1>5, <1>6, <1>7

\* Every event reaches exactly the clients it is meant for, up to full buffers.
THEOREM HubDelivery == HubSpec => [](Owed /\ Delivery)
<1>1. HubInit => Owed /\ Delivery
  <2> SUFFICES ASSUME HubInit PROVE Owed /\ Delivery
    OBVIOUS
  <2>1. \A c \in Clients : Got(c) = {}
    <3>1. Len(<<>>) = 0 /\ 1..0 = {}
      OBVIOUS
    <3> QED
      BY <3>1 DEF HubInit, Got
  <2> QED
    BY <2>1 DEF HubInit, Owed, Delivery
<1>2. HubTypeOK /\ (Owed /\ Delivery) /\ [HubNext]_hubvars => (Owed /\ Delivery)'
  BY DeliveryStep
<1> QED
  BY <1>1, <1>2, HubTypes, PTL DEF HubSpec

\* One step numbers a new broadcast afresh, and sends no event twice or after
\* one whose broadcast began when its own was over.
LEMMA OrderStep ==
    ASSUME HubTypeOK, Numbered, InOrder, [HubNext]_hubvars
    PROVE  Numbered' /\ InOrder'
<1> USE DEF casts, history
<1>1. CASE UNCHANGED Core
  BY <1>1 DEF Core, Numbered, InOrder
<1>2. ASSUME NEW c \in Clients, Subscribe(c) \/ Unsubscribe(c) PROVE Numbered' /\ InOrder'
  BY <1>2 DEF Subscribe, Unsubscribe, Locked, Numbered, InOrder
<1>4. CASE Close
  BY <1>4 DEF Close, Locked, Numbered, InOrder
<1>5. ASSUME NEW b \in Broadcasters, NEW a \in Audiences, BroadcastBegin(b, a)
      PROVE  Numbered' /\ InOrder'
  <2>1. InOrder'
    BY <1>5 DEF BroadcastBegin, InOrder
  <2>2. /\ event'[b].id = published' /\ published' = published + 1 /\ published \in Nat
        /\ event'[b].after = {e.id : e \in finished}
        /\ \A d \in Broadcasters : d # b => event'[d] = event[d] /\ todo'[d] = todo[d]
        /\ todo'[b] = clients
        /\ UNCHANGED <<finished, sent>>
    BY <1>5 DEF BroadcastBegin, HubTypeOK
  <2>3. /\ \A e \in finished : e.id \in Nat /\ e.id <= published
        /\ \A d \in Broadcasters : event[d] # NoEvent => event[d].id \in Nat /\ event[d].id <= published
        /\ \A c \in Clients : \A i \in 1..Len(sent[c]) :
              sent[c][i].id \in Nat /\ sent[c][i].id <= published
    <3>1. \A e \in Event : e.id \in Nat
      BY DEF Event
    <3>2. finished \subseteq Event /\ event \in [Broadcasters -> Event \cup {NoEvent}]
      BY DEF HubTypeOK
    <3>3. \A c \in Clients : \A i \in 1..Len(sent[c]) : sent[c][i] \in Event
      BY DEF HubTypeOK
    <3> QED
      BY <3>1, <3>2, <3>3 DEF Numbered
  <2>4. clients \subseteq Clients
    BY DEF HubTypeOK
  <2>5. Numbered'
    <3>1. \A e \in finished' : e.id <= published'
      BY <2>2, <2>3
    <3>2. \A c \in Clients : \A i \in 1..Len(sent'[c]) :
             /\ sent'[c][i].id <= published'
             /\ sent'[c][i].after \subseteq {e.id : e \in finished'}
      BY <2>2, <2>3 DEF Numbered
    <3>3. ASSUME NEW x \in Broadcasters, event'[x] # NoEvent
          PROVE  /\ event'[x].id <= published'
                 /\ event'[x].after \subseteq {e.id : e \in finished'}
                 /\ \A e \in finished' : e.id # event'[x].id
                 /\ \A d \in Broadcasters : event'[d] # NoEvent /\ d # x => event'[d].id # event'[x].id
                 /\ \A c \in todo'[x] : \A i \in 1..Len(sent'[c]) : sent'[c][i].id # event'[x].id
      <4>1. CASE x = b
        BY <4>1, <2>2, <2>3, <2>4
      <4>2. CASE x # b
        BY <4>2, <3>3, <2>2, <2>3 DEF Numbered
      <4> QED
        BY <4>1, <4>2
    <3> QED
      BY <3>1, <3>2, <3>3 DEF Numbered
  <2> QED
    BY <2>1, <2>5
<1>6. ASSUME NEW b \in Broadcasters, NEW c \in Clients, BroadcastVisit(b, c)
      PROVE  Numbered' /\ InOrder'
  <2>1. /\ UNCHANGED <<clients, event, published, finished>>
        /\ \A x \in Broadcasters : todo'[x] = IF x = b THEN todo[b] \ {c} ELSE todo[x]
        /\ event[b] # NoEvent /\ c \in todo[b]
    BY <1>6 DEF BroadcastVisit, HubTypeOK
  <2>2. CASE sent' = sent
    <3>1. InOrder'
      BY <2>2 DEF InOrder
    <3>2. Numbered'
      BY <2>1, <2>2 DEF Numbered
    <3> QED
      BY <3>1, <3>2
  <2>3. CASE sent' = [sent EXCEPT ![c] = Append(sent[c], event[b])]
    <3> DEFINE n == Len(sent[c])
    <3>1. sent \in [Clients -> Seq(Event)] /\ sent[c] \in Seq(Event) /\ event[b] \in Event /\ n \in Nat
      BY <2>1 DEF HubTypeOK
    <3>2. /\ \A d \in Clients : d # c => sent'[d] = sent[d]
          /\ Len(sent'[c]) = n + 1 /\ sent'[c][n + 1] = event[b]
          /\ \A i \in 1..n : sent'[c][i] = sent[c][i]
      BY <2>3, <3>1
    <3> HIDE DEF n
    <3>3. \A i \in 1..n : sent[c][i].id # event[b].id /\ event[b].id \notin sent[c][i].after
      <4>1. \A i \in 1..n : sent[c][i].id # event[b].id
        BY <2>1 DEF Numbered, n
      <4>2. event[b].id \notin {e.id : e \in finished}
        BY <2>1 DEF Numbered
      <4>3. \A i \in 1..n : sent[c][i].after \subseteq {e.id : e \in finished}
        BY DEF Numbered, n
      <4> QED
        BY <4>1, <4>2, <4>3
    <3>4. InOrder'
      <4>1. ASSUME NEW j \in 1..Len(sent'[c]), NEW i \in 1..(j - 1)
            PROVE  sent'[c][j].id # sent'[c][i].id /\ sent'[c][j].id \notin sent'[c][i].after
        <5>1. j \in 1..(n + 1) /\ i \in 1..n
          BY <3>1, <3>2
        <5>2. CASE j = n + 1
          BY <5>1, <5>2, <3>2, <3>3
        <5>3. CASE j # n + 1
          <6>1. j \in 1..n
            BY <5>1, <5>3, <3>1
          <6> QED
            BY <6>1, <5>1, <3>2 DEF InOrder, n
        <5> QED
          BY <5>2, <5>3
      <4>2. \A d \in Clients : d # c => \A j \in 1..Len(sent'[d]) : \A i \in 1..(j - 1) :
                sent'[d][j].id # sent'[d][i].id /\ sent'[d][j].id \notin sent'[d][i].after
        BY <3>2 DEF InOrder
      <4> QED
        BY <4>1, <4>2 DEF InOrder
    <3>5. Numbered'
      <4>1. ASSUME NEW d \in Clients, NEW i \in 1..Len(sent'[d])
            PROVE  /\ sent'[d][i].id <= published'
                   /\ sent'[d][i].after \subseteq {e.id : e \in finished'}
        <5>1. CASE d = c /\ i = n + 1
          BY <5>1, <2>1, <3>2 DEF Numbered
        <5>2. CASE ~ (d = c /\ i = n + 1)
          <6>1. i \in 1..Len(sent[d]) /\ sent'[d][i] = sent[d][i]
            BY <5>2, <3>1, <3>2 DEF n
          <6> QED
            BY <6>1, <2>1 DEF Numbered
        <5> QED
          BY <5>1, <5>2
      <4>2. ASSUME NEW x \in Broadcasters, event'[x] # NoEvent,
                   NEW d \in todo'[x], NEW i \in 1..Len(sent'[d])
            PROVE  sent'[d][i].id # event'[x].id
        <5>0. d \in Clients /\ d \in todo[x] /\ event'[x] = event[x]
          BY <4>2, <2>1 DEF HubTypeOK
        <5>1. CASE d = c /\ i = n + 1
          <6>1. x # b
            BY <5>1, <4>2, <2>1
          <6> QED
            BY <6>1, <5>0, <5>1, <4>2, <3>2, <2>1 DEF Numbered
        <5>2. CASE ~ (d = c /\ i = n + 1)
          <6>1. i \in 1..Len(sent[d]) /\ sent'[d][i] = sent[d][i]
            BY <5>0, <5>2, <3>1, <3>2 DEF n
          <6> QED
            BY <6>1, <5>0, <4>2 DEF Numbered
        <5> QED
          BY <5>1, <5>2
      <4>3. /\ \A e \in finished' : e.id <= published'
            /\ \A x \in Broadcasters : event'[x] # NoEvent =>
                /\ event'[x].id <= published'
                /\ event'[x].after \subseteq {e.id : e \in finished'}
                /\ \A e \in finished' : e.id # event'[x].id
                /\ \A d \in Broadcasters : event'[d] # NoEvent /\ d # x => event'[d].id # event'[x].id
        BY <2>1 DEF Numbered
      <4> QED
        BY <4>1, <4>2, <4>3 DEF Numbered
    <3> QED
      BY <3>4, <3>5
  <2> QED
    BY <1>6, <2>2, <2>3 DEF BroadcastVisit
<1>7. ASSUME NEW b \in Broadcasters, BroadcastEnd(b) PROVE Numbered' /\ InOrder'
  <2>1. /\ event[b] # NoEvent /\ finished' = finished \cup {event[b]}
        /\ UNCHANGED <<sent, todo, published>> /\ event'[b] = NoEvent
        /\ \A d \in Broadcasters : d # b => event'[d] = event[d]
    BY <1>7 DEF BroadcastEnd, HubTypeOK
  <2>2. {e.id : e \in finished} \subseteq {e.id : e \in finished'}
    BY <2>1
  <2>3. InOrder'
    BY <2>1 DEF InOrder
  <2>4. Numbered'
    <3>1. \A e \in finished' : e.id <= published'
      BY <2>1 DEF Numbered
    <3>2. \A c \in Clients : \A i \in 1..Len(sent'[c]) :
             /\ sent'[c][i].id <= published'
             /\ sent'[c][i].after \subseteq {e.id : e \in finished'}
      BY <2>1, <2>2 DEF Numbered
    <3>3. ASSUME NEW x \in Broadcasters, event'[x] # NoEvent
          PROVE  /\ event'[x].id <= published'
                 /\ event'[x].after \subseteq {e.id : e \in finished'}
                 /\ \A e \in finished' : e.id # event'[x].id
                 /\ \A d \in Broadcasters : event'[d] # NoEvent /\ d # x => event'[d].id # event'[x].id
                 /\ \A c \in todo'[x] : \A i \in 1..Len(sent'[c]) : sent'[c][i].id # event'[x].id
      <4>1. x # b /\ event'[x] = event[x]
        BY <3>3, <2>1
      <4> QED
        BY <4>1, <3>3, <2>1, <2>2 DEF Numbered
    <3> QED
      BY <3>1, <3>2, <3>3 DEF Numbered
  <2> QED
    BY <2>3, <2>4
<1> QED
  BY CoreSteps, <1>1, <1>2, <1>4, <1>5, <1>6, <1>7

\* Events arrive once, and in the order of broadcasts that do not overlap.
THEOREM HubInOrder == HubSpec => []InOrder
<1>1. HubInit => Numbered /\ InOrder
  BY DEF HubInit, Numbered, InOrder
<1>2. HubTypeOK /\ (Numbered /\ InOrder) /\ [HubNext]_hubvars => (Numbered /\ InOrder)'
  BY OrderStep
<1> QED
  BY <1>1, <1>2, HubTypes, PTL DEF HubSpec

-----------------------------------------------------------------------------
(* The server implements the hub's specification *)

\* One step of the server is a step of the hub or none.
LEMMA ServerHubStep == [Next]_vars => [HubNext]_hubvars
<1> SUFFICES ASSUME [Next]_vars PROVE [HubNext]_hubvars
  OBVIOUS
<1> USE DEF vars
<1>1. CASE Lifecycle
  <2>1. CASE CloseHub
    BY <2>1 DEF CloseHub, HubNext
  <2>2. CASE HangUp
    BY <2>2, Clients \in SUBSET Clients DEF HangUp, HubNext
  <2> QED
    BY <1>1, <2>1, <2>2 DEF Lifecycle, StartFails, Listen, StartRunner, Signal,
         StopRunners, Expire, Drain, WaitRunners, CloseStore, Exit
<1>2. ASSUME NEW b \in Broadcasters, Request(b) \/ Respond(b) \/ Announce(b) \/ Announcing(b)
      PROVE  [HubNext]_hubvars
  BY <1>2 DEF Request, Respond, Announce, Announcing, HubNext
<1>3. ASSUME NEW c \in Clients, Stream(c) \/ Streaming(c) \/ ClientChanges(c)
      PROVE  [HubNext]_hubvars
  BY <1>3, {c} \in SUBSET Clients DEF Stream, Streaming, ClientChanges, HubNext
<1>4. CASE RunnerTick \/ RunnerBack \/ RunnerStops
  BY <1>4 DEF RunnerTick, RunnerBack, RunnerStops
<1>5. ASSUME NEW x \in Broadcasters \cup Clients, Touched(x) PROVE [HubNext]_hubvars
  BY <1>5 DEF Touched
<1> QED
  BY <1>1, <1>2, <1>3, <1>4, <1>5 DEF Next, Work

\* The running server drives its hub the way SSEHub specifies.
THEOREM ServerImplementsHub == Spec => HubSpec
<1>1. Init => HubInit
  BY DEF Init
<1> QED
  BY <1>1, ServerHubStep, PTL DEF Spec, HubSpec

\* No request, stream or shutdown ever sends on a closed channel or closes one twice.
THEOREM ServerNoPanic == Spec => []NoPanic
BY ServerImplementsHub, HubNoPanic, PTL

\* Events reach exactly the streams they are meant for, shutdown or not.
THEOREM ServerDelivery == Spec => []Delivery
BY ServerImplementsHub, HubDelivery, PTL

\* Every stream carries its events once and in order.
THEOREM ServerInOrder == Spec => []InOrder
BY ServerImplementsHub, HubInOrder, PTL

-----------------------------------------------------------------------------
(* Type correctness of the server *)

\* Every stage of the process respects the types, and a request is sending
\* exactly while its broadcast is under way.
THEOREM ServerTypes == Spec => []TypeOK
<1> USE DEF TypeOK, vars, life
<1>1. Init /\ HubTypeOK => TypeOK
  <2> SUFFICES ASSUME Init, HubTypeOK PROVE TypeOK
    OBVIOUS
  <2>1. \A b \in Broadcasters : req[b] = "idle" /\ event[b] = NoEvent
    BY DEF Init, HubInit
  <2>2. req \in [Broadcasters -> {"idle", "working", "sending"}]
    BY DEF Init
  <2> QED
    BY <2>1, <2>2 DEF Init
<1>2. TypeOK /\ HubTypeOK' /\ [Next]_vars => TypeOK'
  <2> SUFFICES ASSUME TypeOK, HubTypeOK', [Next]_vars PROVE TypeOK'
    OBVIOUS
  <2>1. CASE Lifecycle
    <3>1. UNCHANGED <<event, req, touching>>
      BY <2>1 DEF Lifecycle, StartFails, Listen, StartRunner, Signal, StopRunners, Expire,
           CloseHub, Close, Drain, HangUp, PeersGone, WaitRunners, CloseStore, Exit,
           hubvars, casts
    <3>2. /\ stage' \in {"start", "presign", "running", "closeHub", "drain", "hangUp",
                        "waitRunners", "closeStore", "cancel", "exited"}
          /\ http' \in {"off", "serving", "draining", "closed"}
          /\ runner' \in {"off", "waiting", "working", "done"}
          /\ store' \in {"open", "closed"}
      BY <2>1 DEF Lifecycle, StartFails, Listen, StartRunner, Signal, StopRunners,
           Expire, CloseHub, Drain, HangUp, WaitRunners, CloseStore, Exit
    <3>3. signalled' \in BOOLEAN /\ expired' \in BOOLEAN /\ cancelled' \in BOOLEAN
      BY <2>1 DEF Lifecycle, StartFails, Listen, StartRunner, Signal, StopRunners,
           Expire, CloseHub, Drain, HangUp, WaitRunners, CloseStore, Exit
    <3> QED
      BY <3>1, <3>2, <3>3
  <2>2. ASSUME NEW b \in Broadcasters, Request(b) \/ Respond(b) PROVE TypeOK'
    <3>1. UNCHANGED <<event, stage, signalled, expired, http, runner, cancelled, store>>
      BY <2>2 DEF Request, Respond, hubvars, casts
    <3>2. \E s \in {"idle", "working"} : req' = [req EXCEPT ![b] = s]
      BY <2>2 DEF Request, Respond
    <3>3. event[b] = NoEvent
      BY <2>2 DEF Request, Respond
    <3>4. touching' \subseteq Broadcasters \cup Clients
      BY <2>2 DEF Request, Respond, Authenticated
    <3> QED
      BY <3>1, <3>2, <3>3, <3>4
  <2>3. ASSUME NEW b \in Broadcasters, Announce(b) PROVE TypeOK'
    <3>1. PICK a \in Audiences : BroadcastBegin(b, a)
      BY <2>3 DEF Announce
    <3>2. event'[b] # NoEvent /\ \A d \in Broadcasters : d # b => event'[d] = event[d]
      <4>1. a[1] \in Visibilities /\ a[2] \in Users
        BY HubConstants DEF HubConstants
      <4>2. [id |-> published + 1, vis |-> a[1], creator |-> a[2],
             after |-> {e.id : e \in finished}] \in Event
        BY <4>1 DEF Event, HubTypeOK
      <4>3. NoEvent \notin Event
        BY HubConstants DEF HubConstants
      <4> QED
        BY <3>1, <4>2, <4>3 DEF BroadcastBegin, HubTypeOK
    <3> QED
      BY <2>3, <3>2 DEF Announce
  <2>4. ASSUME NEW b \in Broadcasters, Announcing(b) PROVE TypeOK'
    <3>1. event[b] # NoEvent /\ \A d \in Broadcasters : d # b => event'[d] = event[d]
      BY <2>4 DEF Announcing, BroadcastStep, BroadcastVisit, BroadcastEnd, HubTypeOK
    <3> QED
      BY <2>4, <3>1 DEF Announcing
  <2>5. ASSUME NEW c \in Clients, Stream(c) \/ Streaming(c) \/ ClientChanges(c)
        PROVE  TypeOK'
    <3>1. UNCHANGED event
      BY <2>5 DEF Stream, Connect, Streaming, HandlerStep, Subscribe, Receive, Heartbeat,
           ContextDone, Write, Unsubscribe, ClientChanges, PeerStalls, PeersGone, casts
    <3>2. touching' \subseteq Broadcasters \cup Clients
      BY <2>5 DEF Stream, Streaming, ClientChanges, Authenticated
    <3> QED
      BY <2>5, <3>1, <3>2 DEF Stream, Streaming, ClientChanges
  <2>6. CASE RunnerTick \/ RunnerBack \/ RunnerStops \/ UNCHANGED vars
    BY <2>6 DEF RunnerTick, RunnerBack, RunnerStops, hubvars, casts
  <2>7. ASSUME NEW x \in Broadcasters \cup Clients, Touched(x) PROVE TypeOK'
    BY <2>7 DEF Touched, hubvars, casts
  <2> QED
    BY <2>1, <2>2, <2>3, <2>4, <2>5, <2>6, <2>7 DEF Next, Work
<1> QED
  BY <1>1, <1>2, ServerImplementsHub, HubTypes, PTL DEF Spec

-----------------------------------------------------------------------------
(* The store is closed last *)

\* Once the listener is closed, a drained server stays drained: what is left
\* to run starts no request and no stream.
LEMMA StaysDrained ==
    ASSUME TypeOK, Work, http # "serving", Drained
    PROVE  Drained'
<1> USE DEF TypeOK, HubTypeOK, Drained
<1>1. ASSUME NEW b \in Broadcasters, Request(b) \/ Respond(b) \/ Announce(b) \/ Announcing(b)
      PROVE  FALSE
  <2>1. req[b] = "idle" /\ event[b] = NoEvent
    OBVIOUS
  <2> QED
    BY <1>1, <2>1 DEF Request, Respond, Announce, Announcing, BroadcastStep,
         BroadcastVisit, BroadcastEnd
<1>2. ASSUME NEW c \in Clients, Stream(c) \/ Streaming(c) PROVE FALSE
  <2>1. handler[c] \in {"none", "done"}
    OBVIOUS
  <2> QED
    BY <1>2, <2>1 DEF Stream, Streaming, HandlerStep, Subscribe, Receive, Heartbeat,
         ContextDone, Write, Unsubscribe
<1>3. ASSUME NEW c \in Clients, ClientChanges(c) PROVE Drained'
  BY <1>3 DEF ClientChanges, PeerStalls, PeersGone, life
<1>4. CASE RunnerTick \/ RunnerBack \/ RunnerStops
  BY <1>4 DEF RunnerTick, RunnerBack, RunnerStops, hubvars
<1>5. ASSUME NEW x \in Broadcasters \cup Clients, Touched(x) PROVE Drained'
  BY <1>5 DEF Touched, hubvars
<1> QED
  BY <1>1, <1>2, <1>3, <1>4, <1>5 DEF Work

\* The work that goes on changes neither the stage nor the listener, the
\* deadline nor the store, and does not bring a stopped runner back.
LEMMA WorkFrame ==
    ASSUME Work
    PROVE  /\ UNCHANGED <<stage, http, expired, store>>
           /\ runner = "done" => runner' = "done"
<1> USE DEF life
<1>1. ASSUME NEW b \in Broadcasters, Request(b) \/ Respond(b) \/ Announce(b) \/ Announcing(b)
      PROVE  UNCHANGED <<stage, http, expired, store, runner>>
  BY <1>1 DEF Request, Respond, Announce, Announcing
<1>2. ASSUME NEW c \in Clients, Stream(c) \/ Streaming(c) \/ ClientChanges(c)
      PROVE  UNCHANGED <<stage, http, expired, store, runner>>
  BY <1>2 DEF Stream, Streaming, ClientChanges
<1>3. ASSUME NEW x \in Broadcasters \cup Clients, Touched(x)
      PROVE  UNCHANGED <<stage, http, expired, store, runner>>
  BY <1>3 DEF Touched
<1> QED
  BY <1>1, <1>2, <1>3 DEF Work, RunnerTick, RunnerBack, RunnerStops

\* A stage of the shutdown touches the runner, the streams and the requests
\* only where it says so.
LEMMA LifecycleFrame ==
    ASSUME Lifecycle
    PROVE  /\ UNCHANGED <<handler, req>>
           /\ runner = "done" /\ stage # "presign" => runner' = "done"
BY DEF Lifecycle, StartFails, Listen, StartRunner, Signal, StopRunners, Expire, CloseHub,
    Close, Drain, HangUp, PeersGone, WaitRunners, CloseStore, Exit, hubvars

\* What Shutdown waited for is still so when it closes the store.
LEMMA StagesStep ==
    ASSUME TypeOK, StagesInOrder, StoreClosedLast, [Next]_vars
    PROVE  StagesInOrder' /\ StoreClosedLast'
<1> USE DEF StagesInOrder, StoreClosedLast
<1>1. CASE Work
  <2>1. Drained /\ http # "serving" => Drained'
    BY <1>1, StaysDrained
  <2> QED
    BY <1>1, <2>1, WorkFrame DEF Drained, Work
<1>2. CASE Lifecycle
  <2>1. Drained' <=> Drained
    BY <1>2, LifecycleFrame DEF Drained
  <2>2. StagesInOrder'
    <3>1. CASE StartFails \/ Listen \/ StartRunner \/ Signal
      BY <3>1, <2>1, LifecycleFrame, <1>2 DEF StartFails, Listen, StartRunner, Signal
    <3>2. CASE StopRunners \/ Expire \/ CloseHub
      BY <3>2, <2>1, LifecycleFrame, <1>2 DEF StopRunners, Expire, CloseHub
    <3>3. CASE Drain \/ HangUp
      BY <3>3, <2>1, LifecycleFrame, <1>2 DEF Drain, HangUp
    <3>4. CASE WaitRunners \/ CloseStore \/ Exit
      BY <3>4, <2>1, LifecycleFrame, <1>2 DEF WaitRunners, CloseStore, Exit
    <3> QED
      BY <1>2, <3>1, <3>2, <3>3, <3>4 DEF Lifecycle
  <2>3. StoreClosedLast'
    BY <1>2, <2>1, LifecycleFrame DEF Drained, Lifecycle, StartFails, Listen, StartRunner,
         Signal, StopRunners, Expire, CloseHub, Drain, HangUp, WaitRunners, CloseStore, Exit
  <2> QED
    BY <2>2, <2>3
<1>3. CASE UNCHANGED vars
  BY <1>3 DEF vars, life, hubvars, Drained
<1> QED
  BY <1>1, <1>2, <1>3 DEF Next

\* Unless the deadline passed, the database is closed when no request, no
\* stream and no runner is left that could use it, however many tokens' last
\* uses are still being noted.
THEOREM ServerStoreClosedLast == Spec => []StoreClosedLast
<1>1. Init => StagesInOrder /\ StoreClosedLast
  BY DEF Init, StagesInOrder, StoreClosedLast
<1>2. TypeOK /\ (StagesInOrder /\ StoreClosedLast) /\ [Next]_vars
        => (StagesInOrder /\ StoreClosedLast)'
  BY StagesStep
<1> QED
  BY <1>1, <1>2, ServerTypes, PTL DEF Spec

=============================================================================
