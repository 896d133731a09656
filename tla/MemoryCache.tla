----------------------------- MODULE MemoryCache -----------------------------
(***************************************************************************)
(* The in-memory TTL cache of store/cache/cache.go, at the granularity of  *)
(* its atomic operations: every sync.Map call and every atomic access to   *)
(* itemCount is a step of its own, so that goroutines interleave between   *)
(* them as the Go program's do.                                            *)
(*                                                                         *)
(* Time is a counter that advances by Tick.  Payloads are members of       *)
(* Values; the approximate size kept with an item is never read by the     *)
(* code and is left out, and so is the OnEviction callback, which every    *)
(* cache the program builds leaves nil.                                    *)
(***************************************************************************)
EXTENDS Integers, FiniteSets, Sequences

CONSTANTS
    Keys,       \* cache keys
    Values,     \* what callers store
    Procs,      \* goroutines calling the cache
    Clearers,   \* the goroutines that call Clear
    Closers,    \* the goroutines that call Close: that of Store.Close, if any
    TTLs,       \* the times to live that callers pass
    MaxItems,   \* Config.MaxItems; 0 means unlimited
    Fraction,   \* one item in Fraction goes when the limit is passed; 5 in the code
    Overlap,    \* TRUE when the cleanup pass may overlap calls
    MaxTime,    \* bound on the clock
    MaxDrift,   \* bound: no call that may add to the drift begins beyond it
    NoItem      \* what the map holds for an absent key

ASSUME CacheConstants ==
    /\ Clearers \subseteq Procs
    /\ Closers \subseteq Procs /\ \A p, q \in Closers : p = q
    /\ TTLs \subseteq Nat
    /\ MaxItems \in Nat
    /\ Fraction \in Nat \ {0}
    /\ Overlap \in BOOLEAN
    /\ MaxTime \in Nat /\ MaxDrift \in Nat

VARIABLES
    now,        \* the clock
    data,       \* Cache.data
    itemCount,  \* Cache.itemCount
    pc,         \* where each goroutine is
    loc,        \* the locals of the call each goroutine is in
    stopped,    \* stopChan is closed
    jpc,        \* where the cleanup goroutine is ("exited": closedChan is closed)
    jloc,       \* the locals of the cleanup goroutine
    panicked,   \* a close of a closed channel happened
    drift       \* by how much steps that found a key other than it had been read put itemCount off

vars == <<now, data, itemCount, pc, loc, stopped, jpc, jloc, panicked, drift>>
Caller == <<pc, loc>>
Cleaner == <<jpc, jloc>>
Closing == <<stopped, panicked>>

Item == [val : Values, exp : Nat]

ASSUME NoItemIsNone == NoItem \notin Item

\* The keys sync.Map holds.
Present == {k \in Keys : data[k] # NoItem}

\* time.Now().After(expiration)
Expired(it) == now > it.exp

\* No call is in progress: what a caller that waits for all others observes.
Quiet == (\A p \in Procs : pc[p] = "idle") /\ jpc \in {"wait", "exited"}

Init ==
    /\ now = 0
    /\ data = [k \in Keys |-> NoItem]
    /\ itemCount = 0
    /\ pc = [p \in Procs |-> "idle"]
    /\ loc = [p \in Procs |-> <<>>]
    /\ stopped = FALSE
    /\ jpc = "wait"
    /\ jloc = <<>>
    /\ panicked = FALSE
    /\ drift = 0

\* A goroutine calls the cache.
Calls(p) == pc[p] = "idle" /\ (Overlap \/ jpc \in {"wait", "exited"})

InBounds == drift \in -MaxDrift .. MaxDrift

Goto(p, label, locals) ==
    /\ pc' = [pc EXCEPT ![p] = label]
    /\ loc' = [loc EXCEPT ![p] = locals]

Return(p) == Goto(p, "idle", <<>>)

Erase(k) == data' = [data EXCEPT ![k] = NoItem]

Count(d) == itemCount' = itemCount + d

\* A step counts on a key to be in the map, or not to be: it was when it was read.
ExpectPresent(k) == drift' = drift - (IF data[k] = NoItem THEN 1 ELSE 0)
ExpectAbsent(k) == drift' = drift + (IF data[k] # NoItem THEN 1 ELSE 0)

-----------------------------------------------------------------------------
(* SetWithTTL *)

\* Mutant: every Set counts, whether the key was there or not.
SetLoadCountsAll(p, k, v, ttl) ==
    /\ Calls(p) /\ InBounds
    /\ Goto(p, "setAdd", [key |-> k, val |-> v, ttl |-> ttl, old |-> data[k], held |-> data[k] # NoItem])
    /\ UNCHANGED <<now, data, itemCount, Cleaner, Closing, drift>>

\* c.data.Load(key): an existing key is deleted first, a new one counted.
SetLoad(p, k, v, ttl) ==
    /\ Calls(p) /\ InBounds
    /\ Goto(p, IF data[k] # NoItem THEN "setDelete" ELSE "setAdd",
            [key |-> k, val |-> v, ttl |-> ttl, old |-> data[k], held |-> data[k] # NoItem])
    /\ UNCHANGED <<now, data, itemCount, Cleaner, Closing, drift>>

SetDelete(p) ==
    /\ pc[p] = "setDelete"
    /\ Erase(loc[p].key) /\ ExpectPresent(loc[p].key)
    /\ Goto(p, "setStore", [loc[p] EXCEPT !.held = FALSE])
    /\ UNCHANGED <<now, itemCount, Cleaner, Closing>>

SetAdd(p) ==
    /\ pc[p] = "setAdd"
    /\ Count(1)
    /\ Goto(p, "setStore", loc[p])
    /\ UNCHANGED <<now, data, Cleaner, Closing, drift>>

\* Mutant: overwriting a key adds the time to live to what is left of the old one.
SetStoreExtends(p) ==
    /\ pc[p] = "setStore"
    /\ data' = [data EXCEPT ![loc[p].key] =
                   [val |-> loc[p].val,
                    exp |-> (IF loc[p].old # NoItem THEN loc[p].old.exp ELSE now) + loc[p].ttl]]
    /\ IF loc[p].held THEN UNCHANGED drift ELSE ExpectAbsent(loc[p].key)
    /\ Goto(p, "setCheck", <<>>)
    /\ UNCHANGED <<now, itemCount, Cleaner, Closing>>

SetStore(p) ==
    /\ pc[p] = "setStore"
    /\ data' = [data EXCEPT ![loc[p].key] = [val |-> loc[p].val, exp |-> now + loc[p].ttl]]
    /\ IF loc[p].held THEN UNCHANGED drift ELSE ExpectAbsent(loc[p].key)
    /\ Goto(p, "setCheck", <<>>)
    /\ UNCHANGED <<now, itemCount, Cleaner, Closing>>

OverLimit == MaxItems > 0 /\ itemCount > MaxItems

SetCheck(p) ==
    /\ pc[p] = "setCheck"
    /\ IF OverLimit THEN Goto(p, "evictStart", <<>>) ELSE Return(p)
    /\ UNCHANGED <<now, data, itemCount, Cleaner, Closing, drift>>

-----------------------------------------------------------------------------
(* cleanupOldest *)

\* max(MaxItems/5, 1)
Threshold == IF MaxItems \div Fraction > 1 THEN MaxItems \div Fraction ELSE 1

\* Mutant: one item over the limit is let be.
EvictStartLate(p) ==
    /\ pc[p] = "evictStart"
    /\ IF itemCount <= MaxItems + 1 THEN Return(p)
       ELSE Goto(p, "evictScan", [seen |-> {}, cand |-> <<>>, met |-> {}])
    /\ UNCHANGED <<now, data, itemCount, Cleaner, Closing, drift>>

\* The count is read a second time; below the limit nothing is done.
EvictStart(p) ==
    /\ pc[p] = "evictStart"
    /\ IF itemCount <= MaxItems THEN Return(p)
       ELSE Goto(p, "evictScan", [seen |-> {}, cand |-> <<>>, met |-> {}])
    /\ UNCHANGED <<now, data, itemCount, Cleaner, Closing, drift>>

\* Mutant: the first candidate is taken for the newest.
NewestIdxFirst(cand) == 1

\* The first of the candidates with the latest expiration (candidates is not empty).
NewestIdx(cand) ==
    CHOOSE i \in DOMAIN cand :
        \A j \in DOMAIN cand : \/ cand[j].exp < cand[i].exp
                               \/ cand[j].exp = cand[i].exp /\ i <= j

\* Mutant: an item that expires later takes the place of a candidate.
ConsiderNewer(cand, c) ==
    IF Len(cand) < Threshold THEN Append(cand, c)
    ELSE IF c.exp > cand[NewestIdx(cand)].exp THEN [cand EXCEPT ![NewestIdx(cand)] = c]
    ELSE cand

\* What one visit of Range does to the candidates.
Consider(cand, c) ==
    IF Len(cand) < Threshold THEN Append(cand, c)
    ELSE IF c.exp < cand[NewestIdx(cand)].exp THEN [cand EXCEPT ![NewestIdx(cand)] = c]
    ELSE cand

\* Range passes each key once, in no order, and hands over what it finds there;
\* met remembers all of that, the candidates being a part.
EvictVisit(p, k) ==
    /\ pc[p] = "evictScan"
    /\ k \notin loc[p].seen
    /\ LET c == [key |-> k, exp |-> data[k].exp]
           found == k \in Present
       IN Goto(p, "evictScan",
               [seen |-> loc[p].seen \cup {k},
                cand |-> IF found THEN Consider(loc[p].cand, c) ELSE loc[p].cand,
                met |-> IF found THEN loc[p].met \cup {c} ELSE loc[p].met])
    /\ UNCHANGED <<now, data, itemCount, Cleaner, Closing, drift>>

EvictChosen(p) ==
    /\ pc[p] = "evictScan"
    /\ loc[p].seen = Keys
    /\ Goto(p, "evictDelete", [todo |-> loc[p].cand, deleted |-> 0])
    /\ UNCHANGED <<now, data, itemCount, Cleaner, Closing, drift>>

\* Every candidate is deleted and counted, whether the map still holds it or not.
EvictDelete(p) ==
    /\ pc[p] = "evictDelete"
    /\ loc[p].todo # <<>>
    /\ Erase(Head(loc[p].todo).key) /\ ExpectPresent(Head(loc[p].todo).key)
    /\ Goto(p, "evictDelete", [todo |-> Tail(loc[p].todo), deleted |-> loc[p].deleted + 1])
    /\ UNCHANGED <<now, itemCount, Cleaner, Closing>>

EvictCount(p) ==
    /\ pc[p] = "evictDelete"
    /\ loc[p].todo = <<>>
    /\ Count(-loc[p].deleted)
    /\ Return(p)
    /\ UNCHANGED <<now, data, Cleaner, Closing, drift>>

-----------------------------------------------------------------------------
(* Get, Delete, Clear *)

\* A miss and a hit return at once; an expired item is removed on the way out.
Get(p, k) ==
    /\ Calls(p) /\ InBounds
    /\ data[k] # NoItem /\ Expired(data[k])
    /\ Goto(p, "getDelete", [key |-> k])
    /\ UNCHANGED <<now, data, itemCount, Cleaner, Closing, drift>>

GetDelete(p) ==
    /\ pc[p] = "getDelete"
    /\ Erase(loc[p].key) /\ ExpectPresent(loc[p].key)
    /\ Goto(p, "uncount", <<>>)
    /\ UNCHANGED <<now, itemCount, Cleaner, Closing>>

\* LoadAndDelete: only the call that removed the item goes on to count it.
Delete(p, k) ==
    /\ Calls(p)
    /\ data[k] # NoItem
    /\ Erase(k)
    /\ Goto(p, "uncount", <<>>)
    /\ UNCHANGED <<now, itemCount, Cleaner, Closing, drift>>

\* (&c.itemCount).Add(-1), the last step of Get on an expired item and of Delete.
Uncount(p) ==
    /\ pc[p] = "uncount"
    /\ Count(-1)
    /\ Return(p)
    /\ UNCHANGED <<now, data, Cleaner, Closing, drift>>

ClearBegin(p) ==
    /\ Calls(p)
    /\ Goto(p, "clear", [seen |-> {}, erased |-> 0])
    /\ UNCHANGED <<now, data, itemCount, Cleaner, Closing, drift>>

\* Range's visit and the Delete after it, whose moment is the one that counts:
\* Delete takes the key away whatever is stored there by then.
ClearVisit(p, k) ==
    /\ pc[p] = "clear"
    /\ k \notin loc[p].seen
    /\ Erase(k)
    /\ Goto(p, "clear", [seen |-> loc[p].seen \cup {k},
                         erased |-> loc[p].erased + (IF k \in Present THEN 1 ELSE 0)])
    /\ UNCHANGED <<now, itemCount, Cleaner, Closing, drift>>

\* The counter is set to zero, as if all it counts had been erased here.
ClearCount(p) ==
    /\ pc[p] = "clear"
    /\ loc[p].seen = Keys
    /\ itemCount' = 0
    /\ drift' = drift - (itemCount - loc[p].erased)
    /\ Return(p)
    /\ UNCHANGED <<now, data, Cleaner, Closing>>

-----------------------------------------------------------------------------
(* Close and the cleanup goroutine *)

\* select on stopChan: a closed one means Close was called before.
CloseCheck(p) ==
    /\ pc[p] = "idle"
    /\ ~stopped
    /\ Goto(p, "close", <<>>)
    /\ UNCHANGED <<now, data, itemCount, Cleaner, Closing, drift>>

CloseStop(p) ==
    /\ pc[p] = "close"
    /\ stopped' = TRUE
    /\ panicked' = stopped
    /\ Goto(p, "closeWait", <<>>)
    /\ UNCHANGED <<now, data, itemCount, Cleaner, drift>>

CloseDone(p) ==
    /\ pc[p] = "closeWait"
    /\ jpc = "exited"
    /\ Return(p)
    /\ UNCHANGED <<now, data, itemCount, Cleaner, Closing, drift>>

\* A tick: Range over the map.  With stopChan also ready select may take either.
\* The ticker fires every five minutes and a pass is short: without Overlap it
\* is taken to fall between two calls.
CleanupBegin ==
    /\ jpc = "wait" /\ InBounds
    /\ Overlap \/ \A p \in Procs : pc[p] \in {"idle", "close", "closeWait"}
    /\ jpc' = "scan"
    /\ jloc' = [seen |-> {}, count |-> 0, key |-> NoItem]
    /\ UNCHANGED <<now, data, itemCount, Caller, Closing, drift>>

\* Range hands over the item it read; an expired one is deleted by its key.
CleanupVisit(k) ==
    /\ jpc = "scan"
    /\ k \notin jloc.seen
    /\ jpc' = IF k \in Present /\ Expired(data[k]) THEN "delete" ELSE "scan"
    /\ jloc' = [jloc EXCEPT !.seen = @ \cup {k}, !.key = k]
    /\ UNCHANGED <<now, data, itemCount, Caller, Closing, drift>>

CleanupDelete ==
    /\ jpc = "delete"
    /\ Erase(jloc.key) /\ ExpectPresent(jloc.key)
    /\ jpc' = "scan"
    /\ jloc' = [jloc EXCEPT !.count = @ + 1]
    /\ UNCHANGED <<now, itemCount, Caller, Closing>>

CleanupCount ==
    /\ jpc = "scan"
    /\ jloc.seen = Keys
    /\ Count(-jloc.count)
    /\ jpc' = "wait"
    /\ jloc' = <<>>
    /\ UNCHANGED <<now, data, Caller, Closing, drift>>

\* Mutant: the cleanup goroutine stays until the cache is empty.
CleanupExitWhenEmpty ==
    /\ jpc = "wait" /\ stopped /\ itemCount = 0
    /\ jpc' = "exited"
    /\ UNCHANGED <<now, data, itemCount, jloc, Caller, Closing, drift>>

CleanupExit ==
    /\ jpc = "wait" /\ stopped
    /\ jpc' = "exited"
    /\ UNCHANGED <<now, data, itemCount, jloc, Caller, Closing, drift>>

-----------------------------------------------------------------------------

Tick ==
    /\ now < MaxTime
    /\ now' = now + 1
    /\ UNCHANGED <<data, itemCount, Caller, Cleaner, Closing, drift>>

SetSteps(p) ==
    \/ \E k \in Keys, v \in Values, ttl \in TTLs : SetLoad(p, k, v, ttl)
    \/ SetDelete(p) \/ SetAdd(p) \/ SetStore(p) \/ SetCheck(p)
    \/ EvictStart(p) \/ (\E k \in Keys : EvictVisit(p, k))
    \/ EvictChosen(p) \/ EvictDelete(p) \/ EvictCount(p)

RemoveSteps(p) ==
    \/ \E k \in Keys : Get(p, k) \/ Delete(p, k)
    \/ GetDelete(p) \/ Uncount(p)
    \/ (p \in Clearers /\ ClearBegin(p)) \/ (\E k \in Keys : ClearVisit(p, k)) \/ ClearCount(p)

CloseSteps(p) ==
    \/ p \in Closers /\ CloseCheck(p)
    \/ CloseStop(p) \/ CloseDone(p)

CleanupSteps ==
    \/ CleanupBegin \/ (\E k \in Keys : CleanupVisit(k))
    \/ CleanupDelete \/ CleanupCount \/ CleanupExit

Next ==
    \/ \E p \in Procs : SetSteps(p) \/ RemoveSteps(p) \/ CloseSteps(p)
    \/ CleanupSteps
    \/ Tick

Spec == Init /\ [][Next]_vars

\* Goroutines keep running: a call that started is carried on, and the
\* cleanup goroutine leaves its loop once stopChan is closed.
CallProgress(p) ==
    pc[p] # "idle" /\ (SetSteps(p) \/ RemoveSteps(p) \/ CloseSteps(p))

FairSpec ==
    /\ Spec
    /\ \A p \in Procs : WF_vars(CallProgress(p))
    /\ WF_vars(CleanupSteps)
    /\ SF_vars(CleanupExit)

-----------------------------------------------------------------------------
(* Properties *)

PC == {"idle", "setDelete", "setAdd", "setStore", "setCheck",
       "evictStart", "evictScan", "evictDelete",
       "getDelete", "uncount", "clear", "close", "closeWait"}

\* Every map slot holds an item or nothing, and every goroutine is at a known step.
TypeOK ==
    /\ now \in 0 .. MaxTime
    /\ data \in [Keys -> Item \cup {NoItem}]
    /\ itemCount \in Int /\ drift \in Int
    /\ pc \in [Procs -> PC]
    /\ jpc \in {"wait", "scan", "delete", "exited"}
    /\ stopped \in BOOLEAN /\ panicked \in BOOLEAN

\* Size() "returns the number of items in the cache": whenever no call is in
\* progress, the atomic counter and the map agree, although every operation
\* changes the two in separate steps (SetWithTTL, Get, Delete, cleanup), up to
\* what went wrong because two calls had read the same key.
CountExact == Quiet => itemCount = Cardinality(Present) + drift

\* MaxItems "is the maximum number of items allowed in the cache": once the
\* calls have returned, cleanupOldest has brought the map back to the limit.
WithinLimit == Quiet /\ MaxItems > 0 => Cardinality(Present) <= MaxItems

\* cleanupOldest removes "the oldest items": whatever order Range visits the
\* keys in, and whatever other calls change meanwhile, none of the items it came
\* upon and did not choose expires before one that was chosen; and it chooses as
\* many as it may.
OldestEvicted ==
    [][\A p \in Procs :
         EvictChosen(p) =>
            LET chosen == {loc[p].cand[i] : i \in DOMAIN loc[p].cand} IN
            /\ chosen \subseteq loc[p].met
            /\ \A c \in chosen, m \in loc[p].met \ chosen : c.exp <= m.exp
            /\ Cardinality(chosen) < Threshold => chosen = loc[p].met]_vars

\* Closing twice, one call after the other, never closes stopChan twice.
NoPanic == ~panicked

\* What the cache's own books must satisfy, whatever the operations under way have done so far:
\* the counter of SetWithTTL, Get, Delete and cleanup is that of the map.
Accounted == TypeOK /\ NoPanic /\ CountExact

\* The counter of a cache that one goroutine uses is exact, and the limit is kept.
ExactAlone == Accounted /\ drift = 0 /\ WithinLimit

\* Close returns: the cleanup goroutine leaves its loop whatever it was doing.
CloseReturns == \A p \in Procs : pc[p] = "close" ~> pc[p] = "idle"

-----------------------------------------------------------------------------
(* What a cache used by one goroutine at a time promises: TTLMap. *)

\* The map as a caller sees it: a call takes effect in one step, at the Store
\* of a Set, the choice of the items to evict and the start of a Clear.
View ==
    [k \in Keys |->
        LET Hidden(p) ==
                \/ pc[p] = "evictDelete" /\ \E i \in DOMAIN loc[p].todo : loc[p].todo[i].key = k
                \/ pc[p] = "clear"
            Replacing(p) == pc[p] = "setStore" /\ loc[p].key = k
        IN  IF \E p \in Procs : Hidden(p) THEN NoItem
            ELSE IF \E p \in Procs : Replacing(p)
                 THEN loc[CHOOSE p \in Procs : Replacing(p)].old
                 ELSE data[k]]

Abstract == INSTANCE TTLMap WITH map <- View, Batch <- Threshold
ImplementsTTLMap == Abstract!Spec

=============================================================================
