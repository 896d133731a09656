-------------------------- MODULE MemoryCacheProofs ----------------------------
(***************************************************************************)
(* What MemoryCache guarantees for any goroutines that call it at once,    *)
(* whatever the keys, the values, the times to live and the limit:         *)
(* Accounted and OldestEvicted.                                            *)
(***************************************************************************)
EXTENDS MemoryCache, FiniteSetTheorems, SequenceTheorems, WellFoundedInduction, TLAPS

-----------------------------------------------------------------------------
(* Candidates of cleanupOldest *)

Candidate == [key : Keys, exp : Nat]

\* No key is a candidate twice.
Distinct(cand) ==
    \A i, j \in 1 .. Len(cand) : i # j => cand[i].key # cand[j].key

ItemsOf(cand) == {cand[i] : i \in 1 .. Len(cand)}

\* Of what a scan met at the keys it has seen, the candidates are those that expire first.
Candidates(seen, cand, met) ==
    /\ seen \subseteq Keys /\ met \subseteq Candidate
    /\ \A m \in met : m.key \in seen
    /\ cand \in Seq(Candidate) /\ Distinct(cand) /\ Len(cand) <= Threshold
    /\ \A i \in 1 .. Len(cand) : cand[i] \in met
    /\ Len(cand) < Threshold => met \subseteq ItemsOf(cand)
    /\ \A m \in met \ ItemsOf(cand), i \in 1 .. Len(cand) : cand[i].exp <= m.exp

LEMMA ThresholdIsPositive == Threshold \in Nat /\ Threshold >= 1
<1>1. MaxItems \in Nat /\ Fraction \in Nat /\ Fraction > 0
  BY CacheConstants DEF CacheConstants
<1>2. MaxItems \div Fraction \in Int
  BY <1>1
<1> QED
  BY <1>2 DEF Threshold

\* Some candidate expires last; of several that do, it is the first.
LEMMA NewestIdxIsNewest ==
    ASSUME NEW cand \in Seq(Candidate), Len(cand) > 0
    PROVE  /\ NewestIdx(cand) \in 1 .. Len(cand)
           /\ \A j \in 1 .. Len(cand) : cand[j].exp <= cand[NewestIdx(cand)].exp
<1> DEFINE N == 1 .. Len(cand)
           Later(i) == {j \in N : \/ cand[j].exp > cand[i].exp
                                  \/ cand[j].exp = cand[i].exp /\ j < i}
           Sets == {Later(i) : i \in N}
<1>1. Len(cand) \in Nat /\ DOMAIN cand = N /\ N # {} /\ \A i \in N : cand[i].exp \in Nat
  <2>1. \A i \in N : cand[i] \in Candidate
    BY ElementOfSeq
  <2> QED
    BY <2>1 DEF Candidate
<1>2. PICK i \in N : \A j \in N : ~(<<Later(j), Later(i)>> \in StrictSubsetOrdering(N))
  <2>1. IsFiniteSet(N)
    BY <1>1, FS_Interval
  <2>2. Sets \subseteq FiniteSubsetsOf(N)
    <3>1. \A j \in N : Later(j) \subseteq N
      OBVIOUS
    <3> HIDE DEF N, Later
    <3>2. \A j \in N : IsFiniteSet(Later(j))
      BY <2>1, <3>1, FS_Subset
    <3> QED
      BY <3>1, <3>2 DEF FiniteSubsetsOf
  <2>3. Sets # {}
    <3>1. PICK i : i \in N
      BY <1>1
    <3>2. Later(i) \in Sets
      BY <3>1
    <3> QED
      BY <3>2
  <2>4. \E S \in Sets : \A T \in Sets : ~(<<T, S>> \in StrictSubsetOrdering(N))
    <3> HIDE DEF Sets, N
    <3> QED
      BY <2>2, <2>3, FS_StrictSubsetOrderingWellFounded, WFMin
  <2> HIDE DEF N, Later
  <2> QED
    BY <2>4
<1>3. ASSUME NEW j \in Later(i) PROVE FALSE
  <2>1. j \notin Later(j) /\ Later(j) \subseteq Later(i)
    BY <1>1, <1>3
  <2>2. <<Later(j), Later(i)>> \in StrictSubsetOrdering(N)
    <3>1. Later(j) \subseteq N /\ Later(i) \subseteq N /\ Later(j) # Later(i)
      BY <1>3, <2>1
    <3> HIDE DEF Later, N
    <3> QED
      BY <2>1, <3>1 DEF StrictSubsetOrdering
  <2>3. j \in N
    BY <1>3
  <2> HIDE DEF Later, N
  <2> QED
    BY <1>2, <2>2, <2>3
<1>4. \A j \in DOMAIN cand : \/ cand[j].exp < cand[i].exp
                             \/ cand[j].exp = cand[i].exp /\ i <= j
  BY <1>1, <1>3
<1>5. /\ NewestIdx(cand) \in DOMAIN cand
      /\ \A j \in DOMAIN cand :
            \/ cand[j].exp < cand[NewestIdx(cand)].exp
            \/ cand[j].exp = cand[NewestIdx(cand)].exp /\ NewestIdx(cand) <= j
  BY <1>1, <1>4 DEF NewestIdx
<1> QED
  BY <1>1, <1>5

\* A visit of Range that comes upon an item keeps the oldest it has met.
LEMMA VisitKeepsOldest ==
    ASSUME NEW seen, NEW cand, NEW met, Candidates(seen, cand, met),
           NEW c \in Candidate, c.key \notin seen
    PROVE  Candidates(seen \cup {c.key}, Consider(cand, c), met \cup {c})
<1>0. /\ cand \in Seq(Candidate) /\ Len(cand) \in Nat /\ DOMAIN cand = 1 .. Len(cand)
      /\ Threshold \in Nat /\ Threshold >= 1 /\ c.exp \in Nat
      /\ \A i \in 1 .. Len(cand) : cand[i] \in Candidate /\ cand[i].exp \in Nat
      /\ \A m \in met : m.exp \in Nat
  <2>1. \A i \in 1 .. Len(cand) : cand[i] \in Candidate
    BY ElementOfSeq DEF Candidates
  <2> QED
    BY <2>1, ThresholdIsPositive DEF Candidates, Candidate
<1>1. \A i \in 1 .. Len(cand) : cand[i].key # c.key
  BY DEF Candidates
<1>2. /\ seen \cup {c.key} \subseteq Keys /\ met \cup {c} \subseteq Candidate
      /\ \A m \in met \cup {c} : m.key \in seen \cup {c.key}
  BY DEF Candidates, Candidate
<1>3. CASE Len(cand) < Threshold
  <2> DEFINE more == Append(cand, c)
  <2>1. Consider(cand, c) = more
    BY <1>3 DEF Consider
  <2>2. /\ more \in Seq(Candidate) /\ Len(more) = Len(cand) + 1
        /\ \A i \in 1 .. Len(cand) : more[i] = cand[i]
        /\ more[Len(cand) + 1] = c
    BY <1>0
  <2> HIDE DEF more
  <2>3. \A i \in 1 .. Len(more) : i \in 1 .. Len(cand) \/ i = Len(cand) + 1
    BY <1>0, <2>2
  <2>4. Distinct(more) /\ Len(more) <= Threshold
    BY <1>0, <1>1, <1>3, <2>2, <2>3 DEF Distinct, Candidates
  <2>5. \A i \in 1 .. Len(more) : more[i] \in met \cup {c}
    BY <2>2, <2>3 DEF Candidates
  <2>6. met \cup {c} \subseteq ItemsOf(more)
    <3>1. met \subseteq ItemsOf(cand)
      BY <1>3 DEF Candidates
    <3>2. ASSUME NEW i \in 1 .. Len(cand) PROVE cand[i] \in ItemsOf(more)
      <4>1. i \in 1 .. Len(more) /\ more[i] = cand[i]
        BY <1>0, <2>2
      <4> QED
        BY <4>1 DEF ItemsOf
    <3>3. c \in ItemsOf(more)
      <4>1. Len(cand) + 1 \in 1 .. Len(more) /\ more[Len(cand) + 1] = c
        BY <1>0, <2>2
      <4> QED
        BY <4>1 DEF ItemsOf
    <3> QED
      BY <3>1, <3>2, <3>3 DEF ItemsOf
  <2> QED
    BY <1>2, <2>1, <2>2, <2>4, <2>5, <2>6 DEF Candidates
<1> DEFINE n == NewestIdx(cand)
<1>4. ASSUME ~(Len(cand) < Threshold)
      PROVE  /\ n \in 1 .. Len(cand) /\ Len(cand) = Threshold
             /\ \A j \in 1 .. Len(cand) : cand[j].exp <= cand[n].exp
  <2>1. Len(cand) <= Threshold
    BY Zenon DEF Candidates
  <2>2. Len(cand) = Threshold /\ Len(cand) > 0
    <3>1. Len(cand) \in Nat /\ Threshold \in Nat /\ Threshold >= 1
      BY <1>0
    <3> QED
      BY ONLY <1>4, <2>1, <3>1
  <2>3. /\ NewestIdx(cand) \in 1 .. Len(cand)
        /\ \A j \in 1 .. Len(cand) : cand[j].exp <= cand[NewestIdx(cand)].exp
    <3> HIDE DEF n
    <3> QED
      BY <1>0, <2>2, NewestIdxIsNewest
  <2> QED
    BY <2>2, <2>3
<1>5. CASE ~(Len(cand) < Threshold) /\ ~(c.exp < cand[n].exp)
  <2>1. Consider(cand, c) = cand
    BY <1>5, Zenon DEF Consider
  <2>2. n \in 1 .. Len(cand) /\ cand[n].exp \in Nat
    BY <1>0, <1>4, <1>5
  <2>3. \A i \in 1 .. Len(cand) : cand[i].exp <= c.exp
    <3> HIDE DEF n
    <3> QED
      BY <1>0, <1>4, <1>5, <2>2
  <2>4. \A m \in (met \cup {c}) \ ItemsOf(cand), i \in 1 .. Len(cand) : cand[i].exp <= m.exp
    BY <2>3 DEF Candidates
  <2> QED
    BY <1>0, <1>2, <1>5, <2>1, <2>4 DEF Candidates
<1>6. CASE ~(Len(cand) < Threshold) /\ c.exp < cand[n].exp
  <2> DEFINE other == [cand EXCEPT ![n] = c]
             gone == cand[n]
  <2>0. n \in 1 .. Len(cand) /\ Len(cand) = Threshold
    BY <1>4, <1>6
  <2>1. Consider(cand, c) = other
    BY <1>6, Zenon DEF Consider
  <2>2. /\ other \in Seq(Candidate) /\ Len(other) = Len(cand)
        /\ \A i \in 1 .. Len(cand) : other[i] = IF i = n THEN c ELSE cand[i]
    BY <1>0, <2>0, ExceptSeq
  <2> HIDE DEF other, n
  <2>3. Distinct(other)
    BY <1>1, <2>2 DEF Distinct, Candidates
  <2>4. \A i \in 1 .. Len(other) : other[i] \in met \cup {c}
    BY <2>2 DEF Candidates
  <2>5. ItemsOf(cand) \subseteq ItemsOf(other) \cup {gone} /\ c \in ItemsOf(other)
    <3>1. ASSUME NEW i \in 1 .. Len(cand), i # n PROVE cand[i] \in ItemsOf(other)
      <4>1. i \in 1 .. Len(other) /\ other[i] = cand[i]
        BY <2>2, <3>1
      <4> QED
        BY <4>1 DEF ItemsOf
    <3>2. n \in 1 .. Len(other) /\ other[n] = c
      BY <2>0, <2>2
    <3> QED
      BY <3>1, <3>2 DEF ItemsOf
  <2>6. \A i \in 1 .. Len(other) : other[i].exp <= cand[n].exp /\ other[i].exp \in Nat
    BY <1>0, <1>4, <1>6, <2>0, <2>2 DEF n
  <2>7. ASSUME NEW m \in (met \cup {c}) \ ItemsOf(other), NEW i \in 1 .. Len(other)
        PROVE  other[i].exp <= m.exp
    <3>1. CASE m = gone
      BY <2>6, <3>1
    <3>2. CASE m # gone
      <4>1. m \in met \ ItemsOf(cand)
        BY <2>5, <2>7, <3>2
      <4>2. cand[n].exp <= m.exp
        BY <2>0, <4>1 DEF Candidates
      <4>3. m.exp \in Nat /\ cand[n].exp \in Nat
        BY <1>0, <2>0, <4>1
      <4> QED
        BY <2>6, <4>2, <4>3
    <3> QED
      BY <3>1, <3>2
  <2> QED
    BY <1>0, <1>2, <2>0, <2>1, <2>2, <2>3, <2>4, <2>7 DEF Candidates
<1> QED
  BY <1>3, <1>5, <1>6

\* Nothing that was met at other keys changes what a scan knows of them.
LEMMA VisitOfNothing ==
    ASSUME NEW seen, NEW cand, NEW met, Candidates(seen, cand, met), NEW k \in Keys
    PROVE  Candidates(seen \cup {k}, cand, met)
BY DEF Candidates

\* A candidate for each place: the chosen are as many as the places.
LEMMA PlacesAreFilled ==
    ASSUME NEW cand \in Seq(Candidate), Distinct(cand)
    PROVE  IsFiniteSet(ItemsOf(cand)) /\ Cardinality(ItemsOf(cand)) = Len(cand)
<1> DEFINE N == 1 .. Len(cand)
<1>1. Len(cand) \in Nat /\ DOMAIN cand = N
  OBVIOUS
<1>2. IsFiniteSet(N) /\ Cardinality(N) = Len(cand)
  BY <1>1, FS_Interval
<1>3. cand \in Bijection(N, ItemsOf(cand))
  <2>1. cand = [i \in N |-> cand[i]]
    BY <1>1
  <2>2. \A i, j \in N : cand[i] = cand[j] => i = j
    BY DEF Distinct
  <2>3. cand \in [N -> ItemsOf(cand)]
    BY <2>1 DEF ItemsOf
  <2>4. \A m \in ItemsOf(cand) : \E i \in N : cand[i] = m
    BY DEF ItemsOf
  <2> HIDE DEF N
  <2>5. cand \in Injection(N, ItemsOf(cand))
    BY <2>2, <2>3, Zenon DEF Injection, IsInjective
  <2>6. cand \in Surjection(N, ItemsOf(cand))
    BY <2>3, <2>4, Zenon DEF Surjection
  <2> QED
    BY <2>5, <2>6 DEF Bijection
<1>4. ExistsBijection(N, ItemsOf(cand))
  BY <1>3 DEF ExistsBijection
<1> QED
  BY <1>2, <1>4, FS_Bijection

-----------------------------------------------------------------------------
(* The books of a cache that any number of goroutines use *)

Slots == [Keys -> Item \cup {NoItem}]

\* What goroutine p has still to settle between the counter and the map: an item it has counted
\* and not yet stored, or has deleted and not yet discounted.
Claim(p) ==
    IF pc[p] \in {"setStore", "uncount"} THEN 1
    ELSE IF pc[p] = "evictDelete" THEN loc[p].deleted
    ELSE IF pc[p] = "clear" THEN loc[p].erased
    ELSE 0

Sweeping == jpc \in {"scan", "delete"}
CleanerClaim == IF Sweeping THEN jloc.count ELSE 0

\* One element for each item that is still to be settled.
Claims == {x \in Procs \X Nat : x[2] >= 1 /\ x[2] <= Claim(x[1])}

\* The locals of the call a goroutine is in, as far as the books depend on them.
Meant(p) ==
    /\ pc[p] \in {"setDelete", "setAdd", "setStore"} =>
        loc[p].key \in Keys /\ loc[p].val \in Values /\ loc[p].ttl \in TTLs
    /\ pc[p] = "setDelete" =>
        loc[p] \in [key : Keys, val : Values, ttl : TTLs, old : Item \cup {NoItem}, held : BOOLEAN]
    /\ pc[p] \in {"setAdd", "setStore"} => loc[p].held = FALSE
    /\ pc[p] = "evictScan" => Candidates(loc[p].seen, loc[p].cand, loc[p].met)
    /\ pc[p] = "evictDelete" => loc[p].todo \in Seq(Candidate) /\ loc[p].deleted \in Nat
    /\ pc[p] = "getDelete" => loc[p].key \in Keys
    /\ pc[p] = "clear" => loc[p].seen \subseteq Keys /\ loc[p].erased \in Nat
    /\ pc[p] \in {"close", "closeWait"} => p \in Closers
    /\ pc[p] = "close" => ~stopped

Swept ==
    Sweeping =>
        /\ jloc \in [seen : SUBSET Keys, count : Nat, key : Keys \cup {NoItem}]
        /\ jpc = "delete" => jloc.key \in Keys

Typed ==
    /\ TypeOK /\ DOMAIN loc = Procs
    /\ IsFiniteSet(Present) /\ IsFiniteSet(Claims)

\* The counter is the map's size but for what is being settled and what went wrong.
Balanced == itemCount = Cardinality(Present) + Cardinality(Claims) + CleanerClaim + drift

Books == Typed /\ ~panicked /\ (\A p \in Procs : Meant(p)) /\ Swept /\ Balanced

LEMMA ClaimIsNatural == ASSUME NEW p, Meant(p) PROVE Claim(p) \in Nat
BY DEF Claim, Meant

-----------------------------------------------------------------------------
(* What a step does to the goroutines, the claims and the map *)

LEMMA CallerMoves ==
    ASSUME NEW p \in Procs, Typed, NEW label, NEW locals, Goto(p, label, locals), label \in PC
    PROVE  /\ pc' \in [Procs -> PC] /\ DOMAIN loc' = Procs
           /\ pc'[p] = label /\ loc'[p] = locals
           /\ \A q \in Procs \ {p} : pc'[q] = pc[q] /\ loc'[q] = loc[q]
BY DEF Typed, TypeOK, Goto

LEMMA OthersMean ==
    ASSUME NEW p \in Procs, NEW q \in Procs, q # p, Meant(q),
           pc'[q] = pc[q], loc'[q] = loc[q], stopped' = stopped
    PROVE  Meant(q)' /\ Claim(q)' = Claim(q)
BY DEF Meant, Claim

LEMMA ClaimsStay ==
    ASSUME \A q \in Procs : Claim(q)' = Claim(q)
    PROVE  Claims' = Claims
BY DEF Claims

LEMMA ClaimIsMade ==
    ASSUME NEW p \in Procs, IsFiniteSet(Claims), Claim(p) \in Nat, Claim(p)' = Claim(p) + 1,
           \A q \in Procs \ {p} : Claim(q)' = Claim(q)
    PROVE  IsFiniteSet(Claims)' /\ Cardinality(Claims)' = Cardinality(Claims) + 1
<1> DEFINE x == <<p, Claim(p) + 1>>
<1>1. Claims' = Claims \cup {x}
  <2>1. ASSUME NEW q \in Procs, NEW i \in Nat
        PROVE  <<q, i>> \in Claims' <=> <<q, i>> \in Claims \/ <<q, i>> = x
    <3>1. CASE q = p
      BY <3>1 DEF Claims
    <3>2. CASE q # p
      BY <3>2 DEF Claims
    <3> QED
      BY <3>1, <3>2
  <2>2. Claims' \subseteq Procs \X Nat /\ Claims \subseteq Procs \X Nat /\ x \in Procs \X Nat
    BY DEF Claims
  <2> HIDE DEF x
  <2> QED
    BY <2>1, <2>2
<1>2. x \notin Claims
  BY DEF Claims
<1> HIDE DEF x
<1> QED
  BY <1>1, <1>2, FS_AddElement

LEMMA ClaimIsSettled ==
    ASSUME NEW p \in Procs, IsFiniteSet(Claims), Claim(p) \in Nat, Claim(p)' = 0,
           \A q \in Procs \ {p} : Claim(q)' = Claim(q)
    PROVE  IsFiniteSet(Claims)' /\ Cardinality(Claims)' = Cardinality(Claims) - Claim(p)
<1> DEFINE N == 1 .. Claim(p)
           Own == {p} \X N
<1>1. IsFiniteSet(Own) /\ Cardinality(Own) = Claim(p)
  <2>1. IsFiniteSet(N) /\ Cardinality(N) = Claim(p)
    BY FS_Interval
  <2>2. IsFiniteSet({p}) /\ Cardinality({p}) = 1
    BY FS_Singleton
  <2> HIDE DEF N
  <2>3. IsFiniteSet(Own) /\ Cardinality(Own) = 1 * Claim(p)
    BY <2>1, <2>2, FS_Product
  <2> QED
    BY <2>3
<1>2. Claims' = Claims \ Own /\ Claims \cap Own = Own
  <2>1. ASSUME NEW q \in Procs, NEW i \in Nat
        PROVE  /\ <<q, i>> \in Claims' <=> <<q, i>> \in Claims /\ <<q, i>> \notin Own
               /\ <<q, i>> \in Own => <<q, i>> \in Claims
    <3>1. CASE q = p
      BY <3>1 DEF Claims
    <3>2. CASE q # p
      BY <3>2 DEF Claims
    <3> QED
      BY <3>1, <3>2
  <2>2. Claims' \subseteq Procs \X Nat /\ Claims \subseteq Procs \X Nat /\ Own \subseteq Procs \X Nat
    BY DEF Claims
  <2> HIDE DEF Own
  <2> QED
    BY <2>1, <2>2
<1> HIDE DEF Own
<1>3. IsFiniteSet(Claims \ Own) /\ Cardinality(Claims \ Own) = Cardinality(Claims) - Cardinality(Own)
  BY <1>2, FS_Difference
<1> QED
  BY <1>1, <1>2, <1>3

LEMMA NothingIsClaimed ==
    ASSUME \A q \in Procs : pc[q] = "idle" PROVE Cardinality(Claims) = 0
<1>1. Claims = {}
  BY DEF Claims, Claim
<1> QED
  BY <1>1, FS_EmptySet

LEMMA SizesAreNumbers ==
    ASSUME Typed
    PROVE  /\ Cardinality(Present) \in Nat /\ Cardinality(Claims) \in Nat
           /\ data \in Slots /\ itemCount \in Int /\ drift \in Int /\ now \in Nat
BY FS_CardinalityType, CacheConstants DEF Typed, TypeOK, Slots, CacheConstants

LEMMA MapStays ==
    ASSUME data' = data
    PROVE  Present' = Present /\ Cardinality(Present)' = Cardinality(Present)
BY DEF Present

\* An erased key was in the map, or the drift counts it.
LEMMA KeyIsErased ==
    ASSUME Typed, NEW k \in Keys, Erase(k)
    PROVE  /\ data' \in Slots /\ IsFiniteSet(Present)' /\ Cardinality(Present)' \in Nat
           /\ k \in Present => Cardinality(Present)' = Cardinality(Present) - 1
           /\ k \notin Present => Cardinality(Present)' = Cardinality(Present)
           /\ ExpectPresent(k) => /\ drift' \in Int
                                  /\ Cardinality(Present)' + drift' = Cardinality(Present) + drift - 1
<1>1. data \in Slots /\ IsFiniteSet(Present) /\ drift \in Int
  BY DEF Typed, TypeOK, Slots
<1>2. data' \in Slots /\ Present' = Present \ {k}
  BY <1>1 DEF Erase, Present, Slots
<1>3. /\ IsFiniteSet(Present \ {k}) /\ Cardinality(Present \ {k}) \in Nat
      /\ k \in Present => Cardinality(Present \ {k}) = Cardinality(Present) - 1
      /\ k \notin Present => Cardinality(Present \ {k}) = Cardinality(Present)
  BY <1>1, FS_RemoveElement, FS_CardinalityType
<1>4. /\ IsFiniteSet(Present)' /\ Cardinality(Present)' \in Nat
      /\ k \in Present => Cardinality(Present)' = Cardinality(Present) - 1
      /\ k \notin Present => Cardinality(Present)' = Cardinality(Present)
  BY <1>2, <1>3
<1>5. Cardinality(Present) \in Nat
  BY <1>1, FS_CardinalityType
<1>6. ExpectPresent(k) => drift' = drift - (IF k \in Present THEN 0 ELSE 1)
  BY DEF ExpectPresent, Present
<1> QED
  BY <1>1, <1>2, <1>4, <1>5, <1>6

\* A stored key was not in the map, or the drift counts it.
LEMMA KeyIsStored ==
    ASSUME Typed, NEW k \in Keys, NEW it \in Item, data' = [data EXCEPT ![k] = it], ExpectAbsent(k)
    PROVE  /\ data' \in Slots /\ IsFiniteSet(Present)' /\ Cardinality(Present)' \in Nat
           /\ drift' \in Int
           /\ Cardinality(Present)' + drift' = Cardinality(Present) + drift + 1
<1>1. data \in Slots /\ IsFiniteSet(Present) /\ drift \in Int
  BY DEF Typed, TypeOK, Slots
<1>2. data' \in Slots /\ Present' = Present \cup {k}
  BY <1>1, NoItemIsNone DEF Present, Slots
<1>3. /\ IsFiniteSet(Present \cup {k}) /\ Cardinality(Present \cup {k}) \in Nat
      /\ Cardinality(Present \cup {k}) =
            IF k \in Present THEN Cardinality(Present) ELSE Cardinality(Present) + 1
  BY <1>1, FS_AddElement, FS_CardinalityType
<1>4. Cardinality(Present) \in Nat
  BY <1>1, FS_CardinalityType
<1>5. drift' = drift + (IF k \in Present THEN 1 ELSE 0)
  BY DEF ExpectAbsent, Present
<1> QED
  BY <1>1, <1>2, <1>3, <1>4, <1>5

-----------------------------------------------------------------------------
(* Each step keeps the books *)

LEMMA BooksOpen == Init => Books
<1> SUFFICES ASSUME Init PROVE Books
  OBVIOUS
<1>1. Present = {} /\ \A p \in Procs : pc[p] = "idle"
  BY DEF Init, Present
<1>2. IsFiniteSet(Present) /\ Cardinality(Present) = 0
  BY <1>1, FS_EmptySet
<1>3. Claims = {}
  BY <1>1 DEF Claims, Claim
<1>4. IsFiniteSet(Claims) /\ Cardinality(Claims) = 0
  BY <1>3, FS_EmptySet
<1>5. TypeOK /\ DOMAIN loc = Procs
  <2>1. data \in [Keys -> Item \cup {NoItem}] /\ pc \in [Procs -> PC] /\ DOMAIN loc = Procs
    BY DEF Init, PC
  <2>2. now \in 0 .. MaxTime /\ itemCount \in Int /\ drift \in Int
    BY CacheConstants DEF Init, CacheConstants
  <2>3. jpc = "wait" /\ stopped = FALSE /\ panicked = FALSE
    BY DEF Init
  <2> QED
    BY <2>1, <2>2, <2>3 DEF TypeOK
<1>6. \A p \in Procs : Meant(p)
  BY <1>1 DEF Meant
<1>7. Swept /\ Balanced /\ ~panicked
  BY <1>2, <1>4 DEF Swept, Balanced, CleanerClaim, Sweeping, Init
<1> QED
  BY <1>2, <1>4, <1>5, <1>6, <1>7 DEF Books, Typed

\* A step of a call keeps the books if it changes the counter by as much as the map,
\* its own claim and the drift together.
LEMMA CallKeepsBooks ==
    ASSUME NEW p \in Procs, Books, NEW label \in PC, NEW locals, Goto(p, label, locals),
           data' \in Slots, IsFiniteSet(Present)', itemCount' \in Int, drift' \in Int,
           UNCHANGED <<now, Cleaner, Closing>>,
           Meant(p)', Claim(p)' \in {0, Claim(p), Claim(p) + 1},
           itemCount' - itemCount =
               Cardinality(Present)' - Cardinality(Present) + Claim(p)' - Claim(p) + drift' - drift
    PROVE  Books'
<1>1. Typed /\ Meant(p) /\ IsFiniteSet(Claims)
  BY DEF Books, Typed
<1>2. /\ pc' \in [Procs -> PC] /\ DOMAIN loc' = Procs
      /\ \A q \in Procs \ {p} : pc'[q] = pc[q] /\ loc'[q] = loc[q]
  BY <1>1, CallerMoves
<1>3. \A q \in Procs \ {p} : Meant(q)' /\ Claim(q)' = Claim(q)
  BY <1>2, OthersMean DEF Books, Closing
<1>4. Claim(p) \in Nat
  BY <1>1, ClaimIsNatural
<1>5. /\ IsFiniteSet(Claims)' /\ Cardinality(Claims)' \in Int
      /\ Cardinality(Claims)' = Cardinality(Claims) + Claim(p)' - Claim(p)
  <2>1. Cardinality(Claims) \in Nat
    BY <1>1, FS_CardinalityType
  <2>2. CASE Claim(p)' = Claim(p)
    <3>1. Claims' = Claims
      BY <1>3, <2>2, ClaimsStay
    <3> QED
      BY <1>1, <1>4, <2>1, <2>2, <3>1
  <2>3. CASE Claim(p)' = Claim(p) + 1
    BY <1>1, <1>3, <1>4, <2>1, <2>3, ClaimIsMade
  <2>4. CASE Claim(p)' = 0
    BY <1>1, <1>3, <1>4, <2>1, <2>4, ClaimIsSettled
  <2> QED
    BY <2>2, <2>3, <2>4
<1>6. Typed'
  BY <1>1, <1>2, <1>5 DEF Typed, TypeOK, Slots, Cleaner, Closing
<1>7. Swept' /\ CleanerClaim' = CleanerClaim
  BY DEF Books, Swept, CleanerClaim, Sweeping, Cleaner
<1>8. Balanced'
  <2>1. /\ Cardinality(Present) \in Nat /\ Cardinality(Claims) \in Nat
        /\ itemCount \in Int /\ drift \in Int
    BY <1>1, SizesAreNumbers
  <2>2. Cardinality(Present)' \in Nat
    <3>1. IsFiniteSet(Present')
      OBVIOUS
    <3>2. Cardinality(Present') \in Nat
      BY <3>1, FS_CardinalityType
    <3> QED
      BY <3>2
  <2>3. CleanerClaim \in Int /\ itemCount = Cardinality(Present) + Cardinality(Claims) + CleanerClaim + drift
    BY DEF Books, Balanced, CleanerClaim, Swept, Sweeping
  <2>4. Claim(p)' \in Int
    BY <1>4
  <2> QED
    BY <1>4, <1>5, <1>7, <2>1, <2>2, <2>3, <2>4 DEF Balanced
<1> QED
  BY <1>3, <1>6, <1>7, <1>8 DEF Books, Closing

LEMMA SetKeepsBooks ==
    ASSUME NEW p \in Procs, Books,
           \/ \E k \in Keys, v \in Values, ttl \in TTLs : SetLoad(p, k, v, ttl)
           \/ SetDelete(p) \/ SetAdd(p) \/ SetStore(p) \/ SetCheck(p)
    PROVE  Books'
<1>0. /\ Typed /\ Meant(p) /\ data \in Slots /\ IsFiniteSet(Present) /\ itemCount \in Int
      /\ drift \in Int /\ now \in Nat /\ Cardinality(Present) \in Nat /\ Claim(p) \in Nat
  BY SizesAreNumbers, ClaimIsNatural DEF Books, Typed
<1>1. ASSUME NEW k \in Keys, NEW v \in Values, NEW ttl \in TTLs, SetLoad(p, k, v, ttl)
      PROVE  Books'
  <2> DEFINE label == IF data[k] # NoItem THEN "setDelete" ELSE "setAdd"
             locals == [key |-> k, val |-> v, ttl |-> ttl, old |-> data[k], held |-> data[k] # NoItem]
  <2>1. pc[p] = "idle" /\ Goto(p, label, locals) /\ data' = data /\ itemCount' = itemCount
        /\ drift' = drift /\ UNCHANGED <<now, Cleaner, Closing>>
    BY <1>1 DEF SetLoad, Calls
  <2>2. label \in PC /\ label \in {"setDelete", "setAdd"}
    BY DEF PC
  <2>3. /\ locals.key \in Keys /\ locals.val \in Values /\ locals.ttl \in TTLs
        /\ label = "setAdd" => locals.held = FALSE
        /\ locals \in [key : Keys, val : Values, ttl : TTLs, old : Item \cup {NoItem}, held : BOOLEAN]
    BY <1>0 DEF Slots
  <2> HIDE DEF label, locals
  <2>4. pc'[p] = label /\ loc'[p] = locals
    BY <1>0, <2>1, <2>2, CallerMoves
  <2>5. Present' = Present /\ Cardinality(Present)' = Cardinality(Present)
    BY <2>1, MapStays
  <2>6. Meant(p)' /\ Claim(p) = 0 /\ Claim(p)' = 0
    BY <2>1, <2>2, <2>3, <2>4 DEF Meant, Claim
  <2> QED
    BY <1>0, <2>1, <2>2, <2>5, <2>6, CallKeepsBooks
<1>2. ASSUME SetDelete(p) PROVE Books'
  <2> DEFINE locals == [loc[p] EXCEPT !.held = FALSE]
  <2>1. pc[p] = "setDelete" /\ Goto(p, "setStore", locals) /\ Erase(loc[p].key)
        /\ ExpectPresent(loc[p].key) /\ itemCount' = itemCount /\ UNCHANGED <<now, Cleaner, Closing>>
    BY <1>2 DEF SetDelete
  <2>2. loc[p].key \in Keys /\ locals.key \in Keys /\ locals.val \in Values /\ locals.ttl \in TTLs
        /\ locals.held = FALSE
    <3>1. loc[p] \in [key : Keys, val : Values, ttl : TTLs, old : Item \cup {NoItem}, held : BOOLEAN]
      BY <1>0, <2>1 DEF Meant
    <3> QED
      BY <3>1
  <2> HIDE DEF locals
  <2>3. pc'[p] = "setStore" /\ loc'[p] = locals
    BY <1>0, <2>1, CallerMoves DEF PC
  <2>4. /\ data' \in Slots /\ IsFiniteSet(Present)' /\ Cardinality(Present)' \in Nat /\ drift' \in Int
        /\ Cardinality(Present)' + drift' = Cardinality(Present) + drift - 1
    BY <1>0, <2>1, <2>2, KeyIsErased
  <2>5. Meant(p)' /\ Claim(p) = 0 /\ Claim(p)' = 1
    BY <2>1, <2>2, <2>3 DEF Meant, Claim
  <2>6. "setStore" \in PC
    BY DEF PC
  <2> QED
    BY <1>0, <2>1, <2>4, <2>5, <2>6, CallKeepsBooks
<1>3. ASSUME SetAdd(p) PROVE Books'
  <2>1. pc[p] = "setAdd" /\ Goto(p, "setStore", loc[p]) /\ data' = data
        /\ itemCount' = itemCount + 1 /\ drift' = drift /\ UNCHANGED <<now, Cleaner, Closing>>
    BY <1>3 DEF SetAdd, Count
  <2>2. pc'[p] = "setStore" /\ loc'[p] = loc[p] /\ "setStore" \in PC
    BY <1>0, <2>1, CallerMoves DEF PC
  <2>3. Present' = Present /\ Cardinality(Present)' = Cardinality(Present)
    BY <2>1, MapStays
  <2>4. Meant(p)' /\ Claim(p) = 0 /\ Claim(p)' = 1
    BY <1>0, <2>1, <2>2 DEF Meant, Claim
  <2> QED
    BY <1>0, <2>1, <2>2, <2>3, <2>4, CallKeepsBooks
<1>4. ASSUME SetStore(p) PROVE Books'
  <2> DEFINE it == [val |-> loc[p].val, exp |-> now + loc[p].ttl]
  <2>1. /\ pc[p] = "setStore" /\ Goto(p, "setCheck", <<>>)
        /\ data' = [data EXCEPT ![loc[p].key] = it]
        /\ IF loc[p].held THEN UNCHANGED drift ELSE ExpectAbsent(loc[p].key)
        /\ itemCount' = itemCount /\ UNCHANGED <<now, Cleaner, Closing>>
    BY <1>4 DEF SetStore
  <2>2. loc[p].key \in Keys /\ loc[p].val \in Values /\ loc[p].ttl \in Nat /\ loc[p].held = FALSE
    BY <1>0, <2>1, CacheConstants DEF Meant, CacheConstants
  <2>3. it \in Item
    BY <1>0, <2>2 DEF Item
  <2> HIDE DEF it
  <2>4. pc'[p] = "setCheck" /\ loc'[p] = <<>> /\ "setCheck" \in PC
    BY <1>0, <2>1, CallerMoves DEF PC
  <2>5. /\ data' \in Slots /\ IsFiniteSet(Present)' /\ Cardinality(Present)' \in Nat /\ drift' \in Int
        /\ Cardinality(Present)' + drift' = Cardinality(Present) + drift + 1
    BY <1>0, <2>1, <2>2, <2>3, KeyIsStored
  <2>6. Meant(p)' /\ Claim(p) = 1 /\ Claim(p)' = 0
    BY <2>1, <2>4 DEF Meant, Claim
  <2>7. itemCount' - itemCount =
            Cardinality(Present)' - Cardinality(Present) + Claim(p)' - Claim(p) + drift' - drift
    BY <1>0, <2>1, <2>5, <2>6
  <2>8. Goto(p, "setCheck", <<>>) /\ itemCount' = itemCount /\ UNCHANGED <<now, Cleaner, Closing>>
    BY <2>1
  <2> QED
    BY <1>0, <2>4, <2>5, <2>6, <2>7, <2>8, CallKeepsBooks
<1>5. ASSUME SetCheck(p) PROVE Books'
  <2> DEFINE label == IF OverLimit THEN "evictStart" ELSE "idle"
  <2>1. pc[p] = "setCheck" /\ Goto(p, label, <<>>) /\ data' = data /\ itemCount' = itemCount
        /\ drift' = drift /\ UNCHANGED <<now, Cleaner, Closing>>
    BY <1>5 DEF SetCheck, Return
  <2>2. label \in PC /\ label \in {"evictStart", "idle"}
    BY DEF PC
  <2> HIDE DEF label
  <2>3. pc'[p] = label
    BY <1>0, <2>1, <2>2, CallerMoves
  <2>4. Present' = Present /\ Cardinality(Present)' = Cardinality(Present)
    BY <2>1, MapStays
  <2>5. Meant(p)' /\ Claim(p) = 0 /\ Claim(p)' = 0
    BY <2>1, <2>2, <2>3 DEF Meant, Claim
  <2> QED
    BY <1>0, <2>1, <2>2, <2>4, <2>5, CallKeepsBooks
<1> QED
  BY <1>1, <1>2, <1>3, <1>4, <1>5

LEMMA EvictKeepsBooks ==
    ASSUME NEW p \in Procs, Books,
           \/ EvictStart(p) \/ (\E k \in Keys : EvictVisit(p, k))
           \/ EvictChosen(p) \/ EvictDelete(p) \/ EvictCount(p)
    PROVE  Books'
<1>0. /\ Typed /\ Meant(p) /\ data \in Slots /\ IsFiniteSet(Present) /\ itemCount \in Int
      /\ drift \in Int /\ Cardinality(Present) \in Nat /\ Claim(p) \in Nat
  BY SizesAreNumbers, ClaimIsNatural DEF Books, Typed
<1>1. ASSUME EvictStart(p) PROVE Books'
  <2> DEFINE none == [seen |-> {}, cand |-> <<>>, met |-> {}]
  <2>1. pc[p] = "evictStart" /\ data' = data /\ itemCount' = itemCount
        /\ drift' = drift /\ UNCHANGED <<now, Cleaner, Closing>>
    BY <1>1 DEF EvictStart
  <2>2. Present' = Present /\ Cardinality(Present)' = Cardinality(Present)
    BY <2>1, MapStays
  <2>3. "idle" \in PC /\ "evictScan" \in PC
    BY DEF PC
  <2>4. CASE Goto(p, "idle", <<>>)
    <3>1. pc'[p] = "idle"
      BY <1>0, <2>3, <2>4, CallerMoves
    <3>2. Meant(p)' /\ Claim(p) = 0 /\ Claim(p)' = 0
      BY <2>1, <3>1 DEF Meant, Claim
    <3> QED
      BY <1>0, <2>1, <2>2, <2>3, <2>4, <3>2, CallKeepsBooks
  <2>5. CASE Goto(p, "evictScan", none)
    <3>1. pc'[p] = "evictScan" /\ loc'[p] = none
      BY <1>0, <2>3, <2>5, CallerMoves
    <3>2. Candidates({}, <<>>, {})
      BY ThresholdIsPositive DEF Candidates, Distinct
    <3>3. Meant(p)' /\ Claim(p) = 0 /\ Claim(p)' = 0
      <4>1. Candidates(loc[p].seen, loc[p].cand, loc[p].met)'
        BY <3>1, <3>2 DEF Candidates, Distinct, ItemsOf, Threshold
      <4> QED
        BY <2>1, <3>1, <4>1 DEF Meant, Claim
    <3> QED
      BY <1>0, <2>1, <2>2, <2>3, <2>5, <3>3, CallKeepsBooks
  <2> QED
    BY <1>1, <2>4, <2>5 DEF EvictStart, Return
<1>2. ASSUME NEW k \in Keys, EvictVisit(p, k) PROVE Books'
  <2> DEFINE c == [key |-> k, exp |-> data[k].exp]
             found == k \in Present
             cand == IF found THEN Consider(loc[p].cand, c) ELSE loc[p].cand
             met == IF found THEN loc[p].met \cup {c} ELSE loc[p].met
             locals == [seen |-> loc[p].seen \cup {k}, cand |-> cand, met |-> met]
  <2>1. pc[p] = "evictScan" /\ k \notin loc[p].seen /\ Goto(p, "evictScan", locals) /\ data' = data
        /\ itemCount' = itemCount /\ drift' = drift /\ UNCHANGED <<now, Cleaner, Closing>>
    BY <1>2 DEF EvictVisit
  <2>2. Candidates(loc[p].seen, loc[p].cand, loc[p].met)
    BY <1>0, <2>1 DEF Meant
  <2>3. Candidates(loc[p].seen \cup {k}, cand, met)
    <3>1. CASE found
      <4>1. c \in Candidate /\ c.key = k
        <5>1. data[k] \in Item
          BY <1>0, <3>1 DEF Present, Slots
        <5> QED
          BY <5>1 DEF Item, Candidate
      <4> HIDE DEF c
      <4>2. Candidates(loc[p].seen \cup {c.key}, Consider(loc[p].cand, c), loc[p].met \cup {c})
        BY <2>1, <2>2, <4>1, VisitKeepsOldest
      <4> QED
        BY <3>1, <4>1, <4>2
    <3>2. CASE ~found
      BY <2>2, <3>2, VisitOfNothing
    <3> QED
      BY <3>1, <3>2
  <2>4. locals.seen = loc[p].seen \cup {k} /\ locals.cand = cand /\ locals.met = met
    OBVIOUS
  <2>5. "evictScan" \in PC
    BY DEF PC
  <2> HIDE DEF cand, met, locals
  <2>6. pc'[p] = "evictScan" /\ loc'[p] = locals
    BY <1>0, <2>1, <2>5, CallerMoves
  <2>7. Candidates(loc[p].seen, loc[p].cand, loc[p].met)'
    BY <2>3, <2>4, <2>6 DEF Candidates, Distinct, ItemsOf, Threshold
  <2>8. Meant(p)' /\ Claim(p) = 0 /\ Claim(p)' = 0
    BY <2>1, <2>6, <2>7 DEF Meant, Claim
  <2>9. Present' = Present /\ Cardinality(Present)' = Cardinality(Present)
    BY <2>1, MapStays
  <2> QED
    BY <1>0, <2>1, <2>5, <2>8, <2>9, CallKeepsBooks
<1>3. ASSUME EvictChosen(p) PROVE Books'
  <2> DEFINE locals == [todo |-> loc[p].cand, deleted |-> 0]
  <2>1. pc[p] = "evictScan" /\ Goto(p, "evictDelete", locals) /\ data' = data
        /\ itemCount' = itemCount /\ drift' = drift /\ UNCHANGED <<now, Cleaner, Closing>>
    BY <1>3 DEF EvictChosen
  <2>2. loc[p].cand \in Seq(Candidate)
    BY <1>0, <2>1 DEF Meant, Candidates
  <2>3. locals.todo = loc[p].cand /\ locals.deleted = 0 /\ "evictDelete" \in PC
    BY DEF PC
  <2> HIDE DEF locals
  <2>4. pc'[p] = "evictDelete" /\ loc'[p] = locals
    BY <1>0, <2>1, <2>3, CallerMoves
  <2>5. Meant(p)' /\ Claim(p) = 0 /\ Claim(p)' = 0
    BY <2>1, <2>2, <2>3, <2>4 DEF Meant, Claim
  <2>6. Present' = Present /\ Cardinality(Present)' = Cardinality(Present)
    BY <2>1, MapStays
  <2> QED
    BY <1>0, <2>1, <2>3, <2>5, <2>6, CallKeepsBooks
<1>4. ASSUME EvictDelete(p) PROVE Books'
  <2> DEFINE locals == [todo |-> Tail(loc[p].todo), deleted |-> loc[p].deleted + 1]
             k == Head(loc[p].todo).key
  <2>1. /\ pc[p] = "evictDelete" /\ loc[p].todo # <<>> /\ Goto(p, "evictDelete", locals)
        /\ Erase(k) /\ ExpectPresent(k) /\ itemCount' = itemCount /\ UNCHANGED <<now, Cleaner, Closing>>
    BY <1>4 DEF EvictDelete
  <2>2. loc[p].todo \in Seq(Candidate) /\ loc[p].deleted \in Nat
    BY <1>0, <2>1 DEF Meant
  <2>3. Tail(loc[p].todo) \in Seq(Candidate) /\ k \in Keys
    <3>1. Head(loc[p].todo) \in Candidate
      BY <2>1, <2>2
    <3> QED
      BY <2>1, <2>2, <3>1 DEF Candidate
  <2>4. locals.todo = Tail(loc[p].todo) /\ locals.deleted = loc[p].deleted + 1 /\ "evictDelete" \in PC
    BY DEF PC
  <2> HIDE DEF locals, k
  <2>5. pc'[p] = "evictDelete" /\ loc'[p] = locals
    BY <1>0, <2>1, <2>4, CallerMoves
  <2>6. /\ data' \in Slots /\ IsFiniteSet(Present)' /\ Cardinality(Present)' \in Nat /\ drift' \in Int
        /\ Cardinality(Present)' + drift' = Cardinality(Present) + drift - 1
    BY <1>0, <2>1, <2>3, KeyIsErased
  <2>7. Meant(p)' /\ Claim(p)' = Claim(p) + 1
    <3>1. Claim(p) = loc[p].deleted
      BY <2>1 DEF Claim
    <3>2. Claim(p)' = locals.deleted
      BY <2>5 DEF Claim
    <3>3. Meant(p)'
      <4>1. locals.todo \in Seq(Candidate) /\ locals.deleted \in Nat
        BY <2>2, <2>3, <2>4
      <4> QED
        BY <2>5, <4>1 DEF Meant
    <3> QED
      BY <2>4, <3>1, <3>2, <3>3
  <2>8. itemCount' - itemCount =
            Cardinality(Present)' - Cardinality(Present) + Claim(p)' - Claim(p) + drift' - drift
    BY <1>0, <2>1, <2>6, <2>7
  <2>9. Goto(p, "evictDelete", locals) /\ itemCount' = itemCount /\ UNCHANGED <<now, Cleaner, Closing>>
    BY <2>1
  <2> QED
    BY <1>0, <2>4, <2>6, <2>7, <2>8, <2>9, CallKeepsBooks
<1>5. ASSUME EvictCount(p) PROVE Books'
  <2>1. /\ pc[p] = "evictDelete" /\ Goto(p, "idle", <<>>) /\ data' = data
        /\ itemCount' = itemCount + (-loc[p].deleted) /\ drift' = drift
        /\ UNCHANGED <<now, Cleaner, Closing>>
    BY <1>5 DEF EvictCount, Count, Return
  <2>2. pc'[p] = "idle" /\ "idle" \in PC
    BY <1>0, <2>1, CallerMoves DEF PC
  <2>3. Present' = Present /\ Cardinality(Present)' = Cardinality(Present)
    BY <2>1, MapStays
  <2>4. Meant(p)' /\ Claim(p) = loc[p].deleted /\ Claim(p)' = 0 /\ loc[p].deleted \in Nat
    BY <1>0, <2>1, <2>2 DEF Meant, Claim
  <2> QED
    BY <1>0, <2>1, <2>2, <2>3, <2>4, CallKeepsBooks
<1> QED
  BY <1>1, <1>2, <1>3, <1>4, <1>5

LEMMA RemoveKeepsBooks ==
    ASSUME NEW p \in Procs, Books, RemoveSteps(p)
    PROVE  Books'
<1>0. /\ Typed /\ Meant(p) /\ data \in Slots /\ IsFiniteSet(Present) /\ itemCount \in Int
      /\ drift \in Int /\ Cardinality(Present) \in Nat /\ Claim(p) \in Nat
  BY SizesAreNumbers, ClaimIsNatural DEF Books, Typed
<1>1. ASSUME NEW k \in Keys, Get(p, k) PROVE Books'
  <2> DEFINE locals == [key |-> k]
  <2>1. pc[p] = "idle" /\ Goto(p, "getDelete", locals) /\ data' = data /\ itemCount' = itemCount
        /\ drift' = drift /\ UNCHANGED <<now, Cleaner, Closing>>
    BY <1>1 DEF Get, Calls
  <2>2. pc'[p] = "getDelete" /\ loc'[p] = locals /\ "getDelete" \in PC
    BY <1>0, <2>1, CallerMoves DEF PC
  <2>3. Meant(p)' /\ Claim(p) = 0 /\ Claim(p)' = 0
    BY <2>1, <2>2 DEF Meant, Claim
  <2>4. Present' = Present /\ Cardinality(Present)' = Cardinality(Present)
    BY <2>1, MapStays
  <2> QED
    BY <1>0, <2>1, <2>2, <2>3, <2>4, CallKeepsBooks
<1>2. ASSUME NEW k \in Keys, Delete(p, k) PROVE Books'
  <2>1. pc[p] = "idle" /\ k \in Present /\ Goto(p, "uncount", <<>>) /\ Erase(k)
        /\ itemCount' = itemCount /\ drift' = drift /\ UNCHANGED <<now, Cleaner, Closing>>
    BY <1>2 DEF Delete, Calls, Present
  <2>2. pc'[p] = "uncount" /\ "uncount" \in PC
    BY <1>0, <2>1, CallerMoves DEF PC
  <2>3. Meant(p)' /\ Claim(p) = 0 /\ Claim(p)' = 1
    BY <2>1, <2>2 DEF Meant, Claim
  <2>4. /\ data' \in Slots /\ IsFiniteSet(Present)' /\ Cardinality(Present)' \in Nat
        /\ Cardinality(Present)' = Cardinality(Present) - 1
    BY <1>0, <2>1, KeyIsErased
  <2> QED
    BY <1>0, <2>1, <2>2, <2>3, <2>4, CallKeepsBooks
<1>3. ASSUME GetDelete(p) PROVE Books'
  <2>1. pc[p] = "getDelete" /\ Goto(p, "uncount", <<>>) /\ Erase(loc[p].key)
        /\ ExpectPresent(loc[p].key) /\ itemCount' = itemCount /\ UNCHANGED <<now, Cleaner, Closing>>
    BY <1>3 DEF GetDelete
  <2>2. pc'[p] = "uncount" /\ "uncount" \in PC /\ loc[p].key \in Keys
    BY <1>0, <2>1, CallerMoves DEF PC, Meant
  <2>3. Meant(p)' /\ Claim(p) = 0 /\ Claim(p)' = 1
    BY <2>1, <2>2 DEF Meant, Claim
  <2>4. /\ data' \in Slots /\ IsFiniteSet(Present)' /\ Cardinality(Present)' \in Nat /\ drift' \in Int
        /\ Cardinality(Present)' + drift' = Cardinality(Present) + drift - 1
    BY <1>0, <2>1, <2>2, KeyIsErased
  <2> QED
    BY <1>0, <2>1, <2>2, <2>3, <2>4, CallKeepsBooks
<1>4. ASSUME Uncount(p) PROVE Books'
  <2>1. pc[p] = "uncount" /\ Goto(p, "idle", <<>>) /\ data' = data /\ itemCount' = itemCount + (-1)
        /\ drift' = drift /\ UNCHANGED <<now, Cleaner, Closing>>
    BY <1>4 DEF Uncount, Count, Return
  <2>2. pc'[p] = "idle" /\ "idle" \in PC
    BY <1>0, <2>1, CallerMoves DEF PC
  <2>3. Meant(p)' /\ Claim(p) = 1 /\ Claim(p)' = 0
    BY <2>1, <2>2 DEF Meant, Claim
  <2>4. Present' = Present /\ Cardinality(Present)' = Cardinality(Present)
    BY <2>1, MapStays
  <2> QED
    BY <1>0, <2>1, <2>2, <2>3, <2>4, CallKeepsBooks
<1>5. ASSUME ClearBegin(p) PROVE Books'
  <2> DEFINE locals == [seen |-> {}, erased |-> 0]
  <2>1. pc[p] = "idle" /\ Goto(p, "clear", locals) /\ data' = data /\ itemCount' = itemCount
        /\ drift' = drift /\ UNCHANGED <<now, Cleaner, Closing>>
    BY <1>5 DEF ClearBegin, Calls
  <2>2. pc'[p] = "clear" /\ loc'[p] = locals /\ "clear" \in PC
    BY <1>0, <2>1, CallerMoves DEF PC
  <2>3. Meant(p)' /\ Claim(p) = 0 /\ Claim(p)' = 0
    BY <2>1, <2>2 DEF Meant, Claim
  <2>4. Present' = Present /\ Cardinality(Present)' = Cardinality(Present)
    BY <2>1, MapStays
  <2> QED
    BY <1>0, <2>1, <2>2, <2>3, <2>4, CallKeepsBooks
<1>6. ASSUME NEW k \in Keys, ClearVisit(p, k) PROVE Books'
  <2> DEFINE more == loc[p].erased + (IF k \in Present THEN 1 ELSE 0)
             locals == [seen |-> loc[p].seen \cup {k}, erased |-> more]
  <2>1. pc[p] = "clear" /\ Goto(p, "clear", locals) /\ Erase(k)
        /\ itemCount' = itemCount /\ drift' = drift /\ UNCHANGED <<now, Cleaner, Closing>>
    BY <1>6 DEF ClearVisit
  <2>2. loc[p].seen \subseteq Keys /\ loc[p].erased \in Nat /\ Claim(p) = loc[p].erased
    BY <1>0, <2>1 DEF Meant, Claim
  <2>3. locals.seen \subseteq Keys /\ locals.erased = more /\ more \in Nat
    BY <2>2
  <2> HIDE DEF locals
  <2>4. pc'[p] = "clear" /\ loc'[p] = locals /\ "clear" \in PC
    BY <1>0, <2>1, CallerMoves DEF PC
  <2>5. Meant(p)' /\ Claim(p)' = more
    BY <2>3, <2>4 DEF Meant, Claim
  <2>6. /\ data' \in Slots /\ IsFiniteSet(Present)' /\ Cardinality(Present)' \in Nat
        /\ k \in Present => Cardinality(Present)' = Cardinality(Present) - 1
        /\ k \notin Present => Cardinality(Present)' = Cardinality(Present)
    BY <1>0, <2>1, KeyIsErased
  <2>7. Claim(p)' \in {Claim(p), Claim(p) + 1}
        /\ Cardinality(Present)' + Claim(p)' = Cardinality(Present) + Claim(p)
    BY <1>0, <2>2, <2>5, <2>6
  <2>8. drift' \in Int /\ itemCount' \in Int
        /\ itemCount' - itemCount =
            Cardinality(Present)' - Cardinality(Present) + Claim(p)' - Claim(p) + drift' - drift
    BY <1>0, <2>1, <2>3, <2>5, <2>6, <2>7
  <2>9. Goto(p, "clear", locals) /\ UNCHANGED <<now, Cleaner, Closing>>
    BY <2>1
  <2> QED
    BY <1>0, <2>4, <2>5, <2>6, <2>7, <2>8, <2>9, CallKeepsBooks
<1>7. ASSUME ClearCount(p) PROVE Books'
  <2>1. pc[p] = "clear" /\ Goto(p, "idle", <<>>) /\ data' = data /\ itemCount' = 0
        /\ drift' = drift - (itemCount - loc[p].erased) /\ UNCHANGED <<now, Cleaner, Closing>>
    BY <1>7 DEF ClearCount, Return
  <2>2. pc'[p] = "idle" /\ "idle" \in PC
    BY <1>0, <2>1, CallerMoves DEF PC
  <2>3. Meant(p)' /\ Claim(p) = loc[p].erased /\ Claim(p)' = 0 /\ loc[p].erased \in Nat
    BY <1>0, <2>1, <2>2 DEF Meant, Claim
  <2>4. Present' = Present /\ Cardinality(Present)' = Cardinality(Present)
    BY <2>1, MapStays
  <2> QED
    BY <1>0, <2>1, <2>2, <2>3, <2>4, CallKeepsBooks
<1> QED
  BY <1>1, <1>2, <1>3, <1>4, <1>5, <1>6, <1>7 DEF RemoveSteps

\* One goroutine closes at most, so that stopChan is open when it is about to close it.
LEMMA CloseKeepsBooks ==
    ASSUME NEW p \in Procs, Books, CloseSteps(p)
    PROVE  Books'
<1>0. /\ Typed /\ Meant(p) /\ data \in Slots /\ IsFiniteSet(Present) /\ itemCount \in Int
      /\ drift \in Int /\ Cardinality(Present) \in Nat /\ Claim(p) \in Nat
  BY SizesAreNumbers, ClaimIsNatural DEF Books, Typed
<1>1. data' = data /\ itemCount' = itemCount /\ drift' = drift /\ UNCHANGED <<now, Cleaner>>
  BY DEF CloseSteps, CloseCheck, CloseStop, CloseDone
<1>2. Present' = Present /\ Cardinality(Present)' = Cardinality(Present)
  BY <1>1, MapStays
<1>3. CASE p \in Closers /\ CloseCheck(p)
  <2>1. pc[p] = "idle" /\ ~stopped /\ Goto(p, "close", <<>>) /\ UNCHANGED Closing /\ "close" \in PC
    BY <1>3 DEF CloseCheck, PC
  <2>2. pc'[p] = "close"
    BY <1>0, <2>1, CallerMoves
  <2>3. Meant(p)' /\ Claim(p) = 0 /\ Claim(p)' = 0
    BY <1>3, <2>1, <2>2 DEF Meant, Claim, Closing
  <2> QED
    BY <1>0, <1>1, <1>2, <2>1, <2>3, CallKeepsBooks
<1>4. CASE CloseStop(p)
  <2>1. pc[p] = "close" /\ stopped' = TRUE /\ panicked' = stopped /\ Goto(p, "closeWait", <<>>)
    BY <1>4 DEF CloseStop
  <2>2. /\ pc' \in [Procs -> PC] /\ DOMAIN loc' = Procs /\ pc'[p] = "closeWait"
        /\ \A q \in Procs \ {p} : pc'[q] = pc[q] /\ loc'[q] = loc[q]
    BY <1>0, <2>1, CallerMoves DEF PC
  <2>3. p \in Closers /\ ~stopped
    BY <1>0, <2>1 DEF Meant
  <2>4. \A q \in Procs \ {p} : pc[q] # "close"
    BY <2>3, CacheConstants DEF CacheConstants, Books, Meant
  <2>5. \A q \in Procs : Meant(q)'
    <3>1. ASSUME NEW q \in Procs \ {p} PROVE Meant(q)'
      BY <2>2, <2>4 DEF Books, Meant
    <3>2. Meant(p)'
      BY <2>2, <2>3 DEF Meant
    <3> QED
      BY <3>1, <3>2
  <2>6. \A q \in Procs : Claim(q)' = Claim(q)
    BY <2>1, <2>2 DEF Claim
  <2>7. Claims' = Claims
    BY <2>6, ClaimsStay
  <2>8. Typed'
    BY <1>0, <1>1, <1>2, <2>1, <2>2, <2>3, <2>7 DEF Typed, TypeOK, Cleaner
  <2>9. Swept' /\ CleanerClaim' = CleanerClaim
    BY <1>1 DEF Books, Swept, CleanerClaim, Sweeping, Cleaner
  <2>10. Balanced'
    BY <1>1, <1>2, <2>7, <2>9 DEF Books, Balanced
  <2> QED
    BY <2>1, <2>3, <2>5, <2>8, <2>9, <2>10 DEF Books
<1>5. CASE CloseDone(p)
  <2>1. pc[p] = "closeWait" /\ Goto(p, "idle", <<>>) /\ UNCHANGED Closing /\ "idle" \in PC
    BY <1>5 DEF CloseDone, Return, PC
  <2>2. pc'[p] = "idle"
    BY <1>0, <2>1, CallerMoves
  <2>3. Meant(p)' /\ Claim(p) = 0 /\ Claim(p)' = 0
    BY <2>1, <2>2 DEF Meant, Claim
  <2> QED
    BY <1>0, <1>1, <1>2, <2>1, <2>3, CallKeepsBooks
<1> QED
  BY <1>3, <1>4, <1>5 DEF CloseSteps

LEMMA CallerStays ==
    ASSUME UNCHANGED <<Caller, stopped>>
    PROVE  /\ Claims' = Claims
           /\ \A q \in Procs : Meant(q) => Meant(q)'
<1>1. pc' = pc /\ loc' = loc /\ stopped' = stopped
  BY DEF Caller
<1>2. \A q \in Procs : Claim(q)' = Claim(q)
  BY <1>1 DEF Claim
<1>3. Claims' = Claims
  BY <1>2, ClaimsStay
<1>4. ASSUME NEW q \in Procs, Meant(q) PROVE Meant(q)'
  BY <1>1, <1>4 DEF Meant, Candidates, Distinct, ItemsOf, Threshold
<1> QED
  BY <1>3, <1>4

\* What the cleanup pass deletes it discounts at its end.
LEMMA CleanupKeepsBooks == ASSUME Books, CleanupSteps PROVE Books'
<1>0. /\ Typed /\ data \in Slots /\ IsFiniteSet(Present) /\ itemCount \in Int
      /\ drift \in Int /\ Cardinality(Present) \in Nat /\ Cardinality(Claims) \in Nat
      /\ itemCount = Cardinality(Present) + Cardinality(Claims) + CleanerClaim + drift
  BY SizesAreNumbers DEF Books, Typed, Balanced
<1>1. UNCHANGED <<now, Caller, Closing>>
  BY DEF CleanupSteps, CleanupBegin, CleanupVisit, CleanupDelete, CleanupCount, CleanupExit
<1>2. Claims' = Claims /\ \A q \in Procs : Meant(q)'
  BY <1>1, CallerStays DEF Books, Closing
<1>3. ASSUME data' \in Slots, IsFiniteSet(Present)', itemCount' \in Int, drift' \in Int,
             jpc' \in {"wait", "scan", "delete", "exited"}, Swept',
             itemCount' = Cardinality(Present)' + Cardinality(Claims) + CleanerClaim' + drift'
      PROVE  Books'
  <2>1. Typed'
    BY <1>0, <1>1, <1>2, <1>3 DEF Typed, TypeOK, Slots, Caller, Closing
  <2> QED
    BY <1>1, <1>2, <1>3, <2>1 DEF Books, Balanced, Closing
<1>4. CASE CleanupDelete
  <2>1. jpc = "delete" /\ jpc' = "scan" /\ Erase(jloc.key) /\ ExpectPresent(jloc.key)
        /\ itemCount' = itemCount /\ jloc' = [jloc EXCEPT !.count = @ + 1]
    BY <1>4 DEF CleanupDelete
  <2>2. jloc \in [seen : SUBSET Keys, count : Nat, key : Keys \cup {NoItem}] /\ jloc.key \in Keys
    BY <2>1 DEF Books, Swept, Sweeping
  <2>3. jloc' \in [seen : SUBSET Keys, count : Nat, key : Keys \cup {NoItem}]
        /\ jloc'.count = jloc.count + 1
    BY <2>1, <2>2
  <2>4. /\ data' \in Slots /\ IsFiniteSet(Present)' /\ Cardinality(Present)' \in Nat /\ drift' \in Int
        /\ Cardinality(Present)' + drift' = Cardinality(Present) + drift - 1
    BY <1>0, <2>1, <2>2, KeyIsErased
  <2>5. Swept' /\ CleanerClaim = jloc.count /\ CleanerClaim' = jloc.count + 1 /\ jloc.count \in Nat
    BY <2>1, <2>2, <2>3 DEF Swept, Sweeping, CleanerClaim
  <2>6. itemCount' = Cardinality(Present)' + Cardinality(Claims) + CleanerClaim' + drift'
    <3>1. itemCount' = itemCount
      BY <2>1
    <3> QED
      BY <1>0, <2>4, <2>5, <3>1
  <2>7. itemCount' \in Int /\ jpc' \in {"wait", "scan", "delete", "exited"}
    BY <1>0, <2>1
  <2> QED
    BY <1>3, <2>4, <2>5, <2>6, <2>7
<1>5. CASE ~CleanupDelete
  <2>0. data' = data
    BY <1>5 DEF CleanupSteps, CleanupBegin, CleanupVisit, CleanupCount, CleanupExit
  <2>1. Present' = Present /\ Cardinality(Present)' = Cardinality(Present)
    BY <2>0, MapStays
  <2>2. CASE CleanupBegin
    BY <1>0, <1>3, <2>0, <2>1, <2>2
    DEF CleanupBegin, Swept, Sweeping, CleanerClaim
  <2>3. CASE \E k \in Keys : CleanupVisit(k)
    <3> PICK k \in Keys : CleanupVisit(k)
      BY <2>3
    <3>1. jpc = "scan" /\ jpc' \in {"scan", "delete"} /\ itemCount' = itemCount /\ drift' = drift
          /\ jloc' = [jloc EXCEPT !.seen = @ \cup {k}, !.key = k]
      BY DEF CleanupVisit
    <3>2. jloc \in [seen : SUBSET Keys, count : Nat, key : Keys \cup {NoItem}]
      BY <3>1 DEF Books, Swept, Sweeping
    <3>3. jloc' \in [seen : SUBSET Keys, count : Nat, key : Keys \cup {NoItem}]
          /\ jloc'.key = k /\ jloc'.count = jloc.count
      BY <3>1, <3>2
    <3>4. Swept' /\ CleanerClaim' = CleanerClaim
      BY <3>1, <3>3 DEF Swept, Sweeping, CleanerClaim
    <3> QED
      BY <1>0, <1>3, <2>0, <2>1, <3>1, <3>4
  <2>4. CASE CleanupCount
    <3>1. jloc.count \in Nat /\ CleanerClaim = jloc.count
      BY <2>4 DEF CleanupCount, Books, Swept, Sweeping, CleanerClaim
    <3>2. itemCount' = itemCount + (-jloc.count) /\ jpc' = "wait" /\ drift' = drift
      BY <2>4 DEF CleanupCount, Count
    <3>3. Swept' /\ CleanerClaim' = 0
      BY <3>2 DEF Swept, Sweeping, CleanerClaim
    <3> QED
      BY <1>0, <1>3, <2>0, <2>1, <3>1, <3>2, <3>3
  <2>5. CASE CleanupExit
    BY <1>0, <1>3, <2>0, <2>1, <2>5
    DEF CleanupExit, Swept, Sweeping, CleanerClaim
  <2> QED
    BY <1>5, <2>2, <2>3, <2>4, <2>5 DEF CleanupSteps
<1> QED
  BY <1>4, <1>5

LEMMA StepKeepsBooks == Books /\ [Next]_vars => Books'
<1> SUFFICES ASSUME Books, [Next]_vars PROVE Books'
  OBVIOUS
<1>1. ASSUME NEW p \in Procs, SetSteps(p) PROVE Books'
  BY <1>1, SetKeepsBooks, EvictKeepsBooks DEF SetSteps
<1>2. ASSUME NEW p \in Procs, RemoveSteps(p) PROVE Books'
  BY <1>2, RemoveKeepsBooks
<1>3. ASSUME NEW p \in Procs, CloseSteps(p) PROVE Books'
  BY <1>3, CloseKeepsBooks
<1>4. CASE CleanupSteps
  BY <1>4, CleanupKeepsBooks
<1>5. CASE Tick \/ UNCHANGED vars
  <2>1. UNCHANGED <<data, itemCount, Caller, Cleaner, Closing, drift>>
    BY <1>5 DEF Tick, vars, Caller, Cleaner, Closing
  <2>2. now' \in 0 .. MaxTime
    BY <1>5, CacheConstants DEF Tick, vars, Books, Typed, TypeOK, CacheConstants
  <2>3. Claims' = Claims /\ \A q \in Procs : Meant(q)'
    BY <2>1, CallerStays DEF Books, Closing
  <2>4. Present' = Present /\ Cardinality(Present)' = Cardinality(Present)
    BY <2>1, MapStays
  <2>5. Typed'
    BY <2>1, <2>2, <2>3, <2>4 DEF Books, Typed, TypeOK, Caller, Cleaner, Closing
  <2>6. Swept' /\ CleanerClaim' = CleanerClaim
    BY <2>1 DEF Books, Swept, CleanerClaim, Sweeping, Cleaner
  <2>7. Balanced'
    BY <2>1, <2>3, <2>4, <2>6 DEF Books, Balanced
  <2> QED
    BY <2>1, <2>3, <2>5, <2>6, <2>7 DEF Books, Closing
<1> QED
  BY <1>1, <1>2, <1>3, <1>4, <1>5 DEF Next

-----------------------------------------------------------------------------
(* The theorems *)

\* Size() "returns the number of items in the cache" (cache.go:181): whenever no call is in
\* progress the counter is that, up to what steps that found a key other than they had read it
\* put it off; and stopChan is closed once.  For any goroutines, keys and limit.
THEOREM CacheIsAccounted == Spec => []Accounted
<1>1. Books => Accounted
  <2> SUFFICES ASSUME Books PROVE Accounted
    OBVIOUS
  <2>1. TypeOK /\ NoPanic
    BY DEF Books, Typed, NoPanic
  <2>2. ASSUME Quiet PROVE itemCount = Cardinality(Present) + drift
    <3>1. Cardinality(Claims) = 0 /\ CleanerClaim = 0
      BY <2>2, NothingIsClaimed DEF Quiet, CleanerClaim, Sweeping
    <3> QED
      BY <3>1, SizesAreNumbers DEF Books, Balanced
  <2> QED
    BY <2>1, <2>2 DEF Accounted, CountExact
<1>2. Init => Books
  BY BooksOpen
<1>3. Books /\ [Next]_vars => Books'
  BY StepKeepsBooks
<1> QED
  BY <1>1, <1>2, <1>3, PTL DEF Spec

\* An eviction chooses the oldest of the items Range handed over, and as many as it may
\* (cache.go:277), whatever is stored, deleted or expires while it ranges.
THEOREM OldestGoFirst == Spec => OldestEvicted
<1> DEFINE Oldest(p) ==
               LET chosen == {loc[p].cand[i] : i \in DOMAIN loc[p].cand} IN
               /\ chosen \subseteq loc[p].met
               /\ \A c \in chosen, m \in loc[p].met \ chosen : c.exp <= m.exp
               /\ Cardinality(chosen) < Threshold => chosen = loc[p].met
<1>1. ASSUME Books, NEW p \in Procs, EvictChosen(p) PROVE Oldest(p)
  <2> DEFINE cand == loc[p].cand
             met == loc[p].met
  <2>1. Candidates(loc[p].seen, cand, met)
    BY <1>1 DEF Books, Meant, EvictChosen
  <2> HIDE DEF cand, met
  <2>2. cand \in Seq(Candidate) /\ DOMAIN cand = 1 .. Len(cand) /\ Len(cand) \in Nat /\ Distinct(cand)
    BY <2>1 DEF Candidates
  <2>3. {cand[i] : i \in DOMAIN cand} = ItemsOf(cand)
    BY <2>2 DEF ItemsOf
  <2>4. ItemsOf(cand) \subseteq met
    BY <2>1 DEF Candidates, ItemsOf
  <2>5. \A c \in ItemsOf(cand), m \in met \ ItemsOf(cand) : c.exp <= m.exp
    BY <2>1 DEF Candidates, ItemsOf
  <2>6. ASSUME Cardinality(ItemsOf(cand)) < Threshold PROVE ItemsOf(cand) = met
    <3>1. Len(cand) < Threshold
      BY <2>2, <2>6, PlacesAreFilled
    <3> QED
      BY <2>1, <2>4, <3>1 DEF Candidates
  <2> QED
    BY <2>3, <2>4, <2>5, <2>6 DEF cand, met
<1>2. Books /\ [Next]_vars => [\A p \in Procs : EvictChosen(p) => Oldest(p)]_vars
  BY <1>1
<1>3. Init => Books
  BY BooksOpen
<1>4. Books /\ [Next]_vars => Books'
  BY StepKeepsBooks
<1> QED
  BY <1>2, <1>3, <1>4, PTL DEF Spec, OldestEvicted

=============================================================================
