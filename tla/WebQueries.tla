------------------------------ MODULE WebQueries ------------------------------
(***************************************************************************)
(* One memo in the query cache of one client: the lists it is shown in,    *)
(* the collection, and its detail.  The client updates it optimistically,  *)
(* reacts to it and deletes it; others change it too, and the client hears *)
(* of every change over the event stream and fetches again what it shows.  *)
(*                                                                         *)
(* The value of a memo is the set of the changes made to it; deleting it   *)
(* is a change.  The steps of the query library (invalidation restarts the *)
(* fetch of what is mounted, a value that is set counts as fresh, a        *)
(* cancelled fetch leaves things as they were) and of the server are       *)
(* external.                                                               *)
(***************************************************************************)
EXTENDS Naturals, Sequences, FiniteSets

CONSTANTS
    MaxChanges,  \* bound on the changes made to the memo
    MaxFaults    \* bound on requests that fail and streams that break

ASSUME WebQueriesConstants == MaxChanges \in Nat /\ MaxFaults \in Nat

VARIABLES
    truth,     \* the server's value
    deletions, \* the changes that are deletions
    cache,     \* the cached queries
    shown,     \* the query that is mounted, none before the first page
    ops,       \* the client's own operations in flight, per change
    events,    \* what the stream will deliver
    dropped,   \* changes whose event found the client's buffer full, since it last connected
    stream,    \* is the stream open, and was it before (hasConnectedOnceRef)
    made,      \* changes so far
    faults,    \* faults so far
    stale      \* an old value was set over a newer one, or news were lost (see below)

queriesVars == <<truth, deletions, cache, shown, ops, events, dropped, stream, made, faults, stale>>

Queries == {"collection", "detail"}
Updates == {"updated", "archived"}
Unknown == {0}
NoQuery == [data |-> Unknown, invalid |-> FALSE, fetch |-> "idle", got |-> {}]
NoOp == [at |-> "none", kind |-> "none", prev |-> {}, resp |-> {}]

Known(q) == cache[q].data # Unknown
Gone == truth \cap deletions # {}

QueriesInit ==
    /\ truth = {} /\ deletions = {}
    /\ cache = [q \in Queries |-> NoQuery] /\ shown = "none"
    /\ ops = [c \in 1 .. MaxChanges |-> NoOp]
    /\ events = <<>> /\ dropped = {} /\ stream = [open |-> FALSE, before |-> FALSE]
    /\ made = 0 /\ faults = 0 /\ stale = FALSE

-----------------------------------------------------------------------------
(* The query library *)

Refetched(c) == [c EXCEPT !.fetch = "asked"]
Set(c, v) == [c EXCEPT !.data = v, !.invalid = FALSE]
Invalidated(cs, which) ==
    [q \in Queries |-> IF q \notin which \/ cs[q] = NoQuery THEN cs[q]
                       ELSE [cs[q] EXCEPT !.invalid = TRUE,
                                         !.fetch = IF q = shown THEN "asked"
                                                   ELSE IF @ = "answered" THEN "late" ELSE @]]

\* v is older than the server's value, and no event is to tell, or was dropped.
Outdated(v) ==
    \/ ~(v \subseteq truth)
    \/ \E c \in truth \ (v \cup dropped) : \A i \in 1 .. Len(events) : events[i].change # c

\* Bound: own operations overlap one another, or something fails, but not both.
InFlight == {c \in 1 .. MaxChanges : ops[c] # NoOp}
Fault == faults < MaxFaults /\ faults' = faults + 1 /\ Cardinality(InFlight) <= 1

\* A page is opened: useInfiniteMemos, useInfiniteMemoComments or useMemo fetches what is missing,
\* invalid, or older than its stale time.
Show(q) ==
    /\ q # shown /\ shown' = q
    /\ \/ cache' = [cache EXCEPT ![q] = IF @.fetch = "idle" THEN Refetched(@) ELSE @]
       \/ Known(q) /\ ~cache[q].invalid /\ UNCHANGED cache
    /\ UNCHANGED <<truth, deletions, ops, events, dropped, stream, made, faults, stale>>

\* PagedMemoList and MemoDetail.
OpenList == Show("collection")
OpenMemo == Show("detail")

Answers(q) ==
    /\ cache[q].fetch = "asked" /\ (q = "detail" => ~Gone)
    /\ cache' = [cache EXCEPT ![q].fetch = "answered", ![q].got = truth]
    /\ UNCHANGED <<truth, deletions, shown, ops, events, dropped, stream, made, faults, stale>>

\* useMemoDetailError: the memo is not found, and its page gives way to the one that says so.
NotFound ==
    /\ cache["detail"].fetch = "asked" /\ Gone
    /\ cache' = [cache EXCEPT !["detail"].fetch = "idle"]
    /\ shown' = IF shown = "detail" THEN "none" ELSE shown
    /\ UNCHANGED <<truth, deletions, ops, events, dropped, stream, made, faults, stale>>

\* Success clears the invalidation; of a page that was left, an answer from before it is late.
Arrives(q) ==
    /\ cache[q].fetch \in {"answered", "late"}
    /\ cache' = [cache EXCEPT ![q] = [Set(@, @.got) EXCEPT !.fetch = "idle", !.got = {}]]
    /\ stale' = (stale \/ cache[q].fetch = "late")
    /\ UNCHANGED <<truth, deletions, shown, ops, events, dropped, stream, made, faults>>

\* It fails, and the retry (shouldRetry) too: the page keeps what it shows.
FetchFails(q) ==
    /\ cache[q].fetch # "idle" /\ Known(q) /\ Fault
    /\ cache' = [cache EXCEPT ![q].fetch = "idle", ![q].got = {}]
    /\ stale' = TRUE
    /\ UNCHANGED <<truth, deletions, shown, ops, events, dropped, stream, made>>

-----------------------------------------------------------------------------
(* The server and the other clients *)

\* Broadcast: of an open stream the event is dropped when its buffer is full, as it may be of the
\* events about other memos; the stream stays open.
Publish(kind, c) ==
    \/ /\ events' = IF stream.open THEN Append(events, [kind |-> kind, change |-> c]) ELSE events
       /\ UNCHANGED dropped
    \/ stream.open /\ dropped' = dropped \cup {c} /\ UNCHANGED events

Change(kind, c) ==
    /\ ~Gone
    /\ truth' = truth \cup {c}
    /\ deletions' = IF kind = "deleted" THEN deletions \cup {c} ELSE deletions
    /\ Publish(kind, c)
    /\ stale' = (stale \/ ~stream.before)  \* nobody will tell

OtherChanges(kind) ==
    /\ shown # "none" /\ made < MaxChanges /\ made' = made + 1
    /\ Change(kind, made')
    /\ UNCHANGED <<cache, shown, ops, stream, faults>>

ServerTakes(c) ==
    /\ ops[c].at = "sent" /\ Change(ops[c].kind, c)
    /\ ops' = [ops EXCEPT ![c].at = "taken", ![c].resp = truth']
    /\ UNCHANGED <<cache, shown, stream, made, faults>>

-----------------------------------------------------------------------------
(* The client's own operations *)

Start(kind, prev) ==
    /\ made < MaxChanges /\ made' = made + 1 /\ shown # "none" /\ Known(shown)
    /\ faults = 0 \/ InFlight = {}
    /\ ops' = [ops EXCEPT ![made'] = [at |-> "sent", kind |-> kind, prev |-> prev, resp |-> {}]]
    /\ UNCHANGED <<truth, deletions, shown, events, dropped, stream, faults, stale>>

\* useUpdateMemo.onMutate: cancel the fetches, remember the memo, show the change everywhere.
Update(kind) ==
    LET prev == IF Known("detail") THEN cache["detail"].data ELSE cache["collection"].data
        held == [q \in Queries |-> [cache[q] EXCEPT !.fetch = "idle", !.got = {}]] IN
    /\ Start(kind, prev)
    /\ cache' = [q \in Queries |-> IF q = "detail" THEN Set(held[q], prev \cup {made'})
                                   ELSE IF Known(q) THEN Set(held[q], held[q].data \cup {made'})
                                   ELSE held[q]]

\* The menu's pin and task items, a checkbox in the text, and the menu's archive item.
TogglePin == Update("updated")
CheckAllTasks == Update("updated")
CheckTask == Update("updated")
Archive == Update("archived")

\* handleReactionClick, confirmDeleteMemo: nothing is shown before the server has answered.  A
\* reaction is picked from the selector, or one that is shown is toggled.
React == Start("reaction", {}) /\ UNCHANGED cache
PickReaction == React
ToggleReaction == React
Delete == Start("deleted", {}) /\ UNCHANGED cache

Over(c) == ops' = [ops EXCEPT ![c] = NoOp]

\* onSuccess: the answer is the memo now, in the detail and in the collections; those are
\* invalidated, and archiving a memo leaves its page.
Updated(c) ==
    /\ ops[c].at = "taken" /\ ops[c].kind \in Updates /\ Over(c)
    /\ shown' = IF ops[c].kind = "archived" THEN "collection" ELSE shown
    /\ cache' = Invalidated([q \in Queries |-> IF q = "detail" \/ Known(q) THEN Set(cache[q], ops[c].resp) ELSE cache[q]],
                            {"collection"})
    /\ stale' = (stale \/ Outdated(ops[c].resp))
    /\ UNCHANGED <<truth, deletions, events, dropped, stream, made, faults>>

\* onError: what was remembered is the memo again, in all of them.  The server may have taken the change.
RolledBack(c) ==
    /\ ops[c].at \in {"sent", "taken"} /\ ops[c].kind \in Updates /\ Fault /\ Over(c)
    /\ cache' = [q \in Queries |-> IF q = "detail" \/ Known(q) THEN Set(cache[q], ops[c].prev) ELSE cache[q]]
    /\ stale' = (stale \/ Outdated(ops[c].prev))
    /\ UNCHANGED <<truth, deletions, shown, events, dropped, stream, made>>

\* After the reaction the memo is read, and set as the detail; the collections are invalidated.
Read(c) ==
    /\ ops[c].at = "taken" /\ ops[c].kind = "reaction" /\ ~Gone
    /\ ops' = [ops EXCEPT ![c].at = "read", ![c].resp = truth]
    /\ UNCHANGED <<truth, deletions, cache, shown, events, dropped, stream, made, faults, stale>>

Reacted(c) ==
    /\ ops[c].at = "read" /\ Over(c)
    /\ cache' = Invalidated([cache EXCEPT !["detail"] = Set(@, ops[c].resp)], {"collection"})
    /\ stale' = (stale \/ Outdated(ops[c].resp))
    /\ UNCHANGED <<truth, deletions, shown, events, dropped, stream, made, faults>>

\* useDeleteMemo.onSuccess; confirmDeleteMemo leaves the detail page.
Deleted(c) ==
    /\ ops[c].at = "taken" /\ ops[c].kind = "deleted" /\ Over(c)
    /\ shown' = "collection"
    /\ cache' = [Invalidated(cache, {"collection"}) EXCEPT !["detail"] = NoQuery,
                 !["collection"].fetch = "asked"]
    /\ UNCHANGED <<truth, deletions, events, dropped, stream, made, faults, stale>>

\* A reaction or a deletion fails, or the memo is gone: a message, at most.
Failed(c) ==
    /\ ops[c].at \in {"sent", "taken"}
    /\ Gone \/ (Fault /\ ops[c].kind \notin Updates)
    /\ Over(c) /\ (Gone => faults' = faults)
    /\ cache' = IF ops[c].kind \in Updates /\ ops[c].at = "sent"
                THEN [q \in Queries |-> IF q = "detail" \/ Known(q) THEN Set(cache[q], ops[c].prev) ELSE cache[q]]
                ELSE cache
    /\ stale' = (stale \/ ops[c].at = "taken" \/ ops[c].kind \in Updates)
    /\ UNCHANGED <<truth, deletions, shown, events, dropped, stream, made>>

-----------------------------------------------------------------------------
(* useLiveMemoRefresh *)

\* Mutant: after a pause the stream goes on as if nothing had been missed.
ConnectSilently ==
    /\ shown # "none" /\ ~stream.open
    /\ stream' = [open |-> TRUE, before |-> TRUE] /\ dropped' = {}
    /\ UNCHANGED cache
    /\ UNCHANGED <<truth, deletions, shown, ops, events, made, faults, stale>>

\* The stream opens: not for the first time, and everything is invalidated.
Connect ==
    /\ shown # "none" /\ ~stream.open
    /\ stream' = [open |-> TRUE, before |-> TRUE] /\ dropped' = {}
    /\ cache' = IF stream.before THEN Invalidated(cache, Queries) ELSE cache
    /\ UNCHANGED <<truth, deletions, shown, ops, events, made, faults, stale>>

Disconnect ==
    /\ stream.open /\ Fault
    /\ stream' = [stream EXCEPT !.open = FALSE]
    /\ events' = <<>>
    /\ UNCHANGED <<truth, deletions, dropped, cache, shown, ops, made, stale>>

\* handleSSEEvent.  Of a deletion the event does not name the parent: a comment would stay among
\* the parent's comments, which are not modelled.
HandleSSEEvent ==
    /\ events # <<>> /\ events' = Tail(events)
    /\ cache' = IF Head(events).kind = "deleted"
                THEN [Invalidated(cache, {"collection"}) EXCEPT !["detail"] = NoQuery]
                ELSE Invalidated(cache, Queries)
    /\ UNCHANGED <<truth, deletions, dropped, shown, ops, stream, made, faults, stale>>

\* A run is not followed further once news were lost: nothing is claimed of it.
QueriesNext ==
    /\ ~stale
    /\ \/ TogglePin \/ CheckAllTasks \/ CheckTask \/ Archive \/ PickReaction \/ ToggleReaction \/ Delete \/ Connect \/ Disconnect \/ HandleSSEEvent
       \/ OpenList \/ OpenMemo \/ NotFound
       \/ \E q \in Queries : Answers(q) \/ Arrives(q) \/ FetchFails(q)
       \/ \E kind \in {"updated", "deleted"} : OtherChanges(kind)
       \/ \E c \in 1 .. MaxChanges :
            ServerTakes(c) \/ Updated(c) \/ RolledBack(c) \/ Read(c) \/ Reacted(c) \/ Deleted(c) \/ Failed(c)

QueriesSpec == QueriesInit /\ [][QueriesNext]_queriesVars

-----------------------------------------------------------------------------
(* Properties *)

Settled ==
    /\ stream.open /\ events = <<>>
    /\ \A c \in 1 .. MaxChanges : ops[c] = NoOp
    /\ \A q \in Queries : cache[q].fetch = "idle"

\* When every answer and every event has come, what is on the page is what the server has, and
\* what is not on the page either is too or will be fetched when it is.  What it may lack are the
\* changes whose event was dropped since the stream was opened (SSEHub.Broadcast): another event,
\* another fetch or the next connection brings them.  Nothing is claimed once an own answer, or that to a
\* page already left, was older than news already handled, an own update failed after it had
\* cancelled a fetch, a request failed for good, or something changed before the first connection
\* (useMemoQueries, useLiveMemoRefresh.handleSSEEvent, useReactionActions).
CacheSettles ==
    Settled /\ ~stale =>
        \A q \in Queries : \/ ~Known(q)
                           \/ cache[q].data \subseteq truth /\ truth \ cache[q].data \subseteq dropped
                           \/ cache[q].invalid /\ q # shown
                           \/ q = "detail" /\ Gone
===============================================================================
