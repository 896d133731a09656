------------------------------- MODULE TTLMap -------------------------------
(***************************************************************************)
(* What store/cache/cache.go promises a caller that has the cache to       *)
(* itself: a map whose entries expire and whose size is bounded by         *)
(* evicting those that expire first.  MemoryCache implements it.           *)
(***************************************************************************)
EXTENDS Naturals, FiniteSets

CONSTANTS Keys, Values, TTLs, MaxItems, Batch, MaxTime, NoItem

VARIABLES now, map

mapvars == <<now, map>>

Held == {k \in Keys : map[k] # NoItem}

Full == MaxItems > 0 /\ Cardinality(Held) > MaxItems

Init ==
    /\ now = 0
    /\ map = [k \in Keys |-> NoItem]

\* An entry is stored only while the map respects its limit.
Put(k, v, ttl) ==
    /\ ~Full
    /\ map' = [map EXCEPT ![k] = [val |-> v, exp |-> now + ttl]]
    /\ UNCHANGED now

\* One entry too many: Batch of those that expire first go at once.
Evict ==
    /\ Full
    /\ \E S \in SUBSET Held :
        /\ Cardinality(S) = Batch
        /\ \A k \in S, j \in Held \ S : map[k].exp <= map[j].exp
        /\ map' = [k \in Keys |-> IF k \in S THEN NoItem ELSE map[k]]
    /\ UNCHANGED now

Remove(k) ==
    /\ map' = [map EXCEPT ![k] = NoItem]
    /\ UNCHANGED now

Clear ==
    /\ map' = [k \in Keys |-> NoItem]
    /\ UNCHANGED now

Tick ==
    /\ now < MaxTime
    /\ now' = now + 1
    /\ UNCHANGED map

Next ==
    \/ \E k \in Keys : Remove(k) \/ \E v \in Values, ttl \in TTLs : Put(k, v, ttl)
    \/ Evict \/ Clear \/ Tick

Spec == Init /\ [][Next]_mapvars

=============================================================================
