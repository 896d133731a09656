------------------------------ MODULE StoreProofs ------------------------------
(***************************************************************************)
(* What the database keeps.  What Migrator guarantees for any migration    *)
(* files, releases, databases and processes that stop anywhere:            *)
(* SchemaServed, with RefusedForAReason as a part of it.                   *)
(* What Memos guarantees for any number of requests, memos, attachments    *)
(* and failing calls: FilesMatchRows and, as long as a memo has no more    *)
(* attachments than one listing returns, RelationsAreTrue.                 *)
(***************************************************************************)
EXTENDS Migrator, Memos, FiniteSetTheorems, WellFoundedInduction, TLAPS

-----------------------------------------------------------------------------
(* The versions of the schema *)

\* A set of natural numbers has a least element: a minimal one of the intervals
\* that end in it.
LEMMA LeastNatural ==
    ASSUME NEW T, T \subseteq Nat, T # {}
    PROVE  \E x \in T : \A y \in T : x <= y
<1> DEFINE Below == {0 .. n : n \in T}
           Smaller == StrictSubsetOrdering(Nat)
<1>1. IsWellFoundedOn(Smaller, FiniteSubsetsOf(Nat))
  BY FS_StrictSubsetOrderingWellFounded
<1>2. Below \subseteq FiniteSubsetsOf(Nat)
  <2>1. ASSUME NEW n \in T PROVE 0 .. n \in FiniteSubsetsOf(Nat)
    <3>1. IsFiniteSet(0 .. n)
      BY FS_Interval
    <3> QED
      BY <3>1 DEF FiniteSubsetsOf
  <2> QED
    BY <2>1
<1>3. Below # {}
  OBVIOUS
<1>4. \E S \in Below : \A U \in Below : ~(<<U, S>> \in Smaller)
  <2> HIDE DEF Below, Smaller
  <2> QED
    BY <1>1, <1>2, <1>3, WFMin
<1>5. PICK x \in T : \A U \in Below : ~(<<U, 0 .. x>> \in Smaller)
  BY <1>4
<1>6. ASSUME NEW y \in T, y < x PROVE FALSE
  <2>1. /\ 0 .. y \subseteq Nat /\ 0 .. x \subseteq Nat
        /\ 0 .. y \subseteq 0 .. x /\ 0 .. y # 0 .. x
    BY <1>6
  <2> QED
    BY <1>5, <2>1 DEF StrictSubsetOrdering
<1> QED
  BY <1>6

Versions == {VersionOf(f) : f \in AllFiles} \cup {Empty}

LEMMA FileFacts ==
    ASSUME NEW f \in AllFiles
    PROVE  /\ f = <<f[1], f[2]>> /\ f[1] \in Nat /\ f[2] \in Nat
           /\ f[1] <= 99 /\ f[2] <= 99 /\ VersionOf(f) \in Versions
           /\ VersionOf(f)[1] = f[1] /\ VersionOf(f)[2] = f[2] + 1
<1>1. f \in (0 .. 99) \X (0 .. 99)
  BY MigratorConstants DEF MigratorConstants
<1> QED
  BY <1>1 DEF VersionOf, Versions

LEMMA VersionFacts ==
    ASSUME NEW v \in Versions
    PROVE  v[1] \in Nat /\ v[2] \in Nat /\ v[1] <= 99 /\ v[2] <= 100
<1>1. CASE v = Empty
  BY <1>1 DEF Empty
<1>2. ASSUME NEW f \in AllFiles, v = VersionOf(f)
      PROVE  v[1] \in Nat /\ v[2] \in Nat /\ v[1] <= 99 /\ v[2] <= 100
  <2>1. /\ v[1] = f[1] /\ v[2] = f[2] + 1 /\ f[1] \in Nat /\ f[2] \in Nat
        /\ f[1] <= 99 /\ f[2] <= 99
    BY <1>2, FileFacts
  <2> QED
    BY <2>1
<1> QED
  BY <1>1, <1>2 DEF Versions

\* The order of versions is total and transitive.
LEMMA EqualVersions ==
    ASSUME NEW v \in Versions, NEW w \in Versions, ~Greater(v, w), ~Greater(w, v)
    PROVE  v = w
<1>1. \A u \in Versions : u = <<u[1], u[2]>>
  <2>1. Empty = <<Empty[1], Empty[2]>>
    BY DEF Empty
  <2>2. \A f \in AllFiles : VersionOf(f) = <<VersionOf(f)[1], VersionOf(f)[2]>>
    BY DEF VersionOf
  <2>3. Versions = {VersionOf(f) : f \in AllFiles} \cup {Empty}
    BY DEF Versions
  <2> QED
    BY <2>1, <2>2, <2>3, Zenon
<1>2. v[1] \in Nat /\ v[2] \in Nat /\ w[1] \in Nat /\ w[2] \in Nat
  BY VersionFacts
<1>3. v[1] = w[1] /\ v[2] = w[2]
  BY <1>2 DEF Greater
<1> QED
  BY <1>1, <1>3

LEMMA GreaterChain ==
    ASSUME NEW u \in Versions, NEW v \in Versions, NEW w \in Versions,
           Greater(w, v), ~Greater(u, v)
    PROVE  ~Greater(u, w)
<1>1. /\ u[1] \in Nat /\ u[2] \in Nat /\ v[1] \in Nat /\ v[2] \in Nat
      /\ w[1] \in Nat /\ w[2] \in Nat
  BY VersionFacts
<1> QED
  BY <1>1 DEF Greater

\* Of some versions one is the greatest, ...
LEMMA GreatestVersion ==
    ASSUME NEW T \in SUBSET Versions, T # {}
    PROVE  \E v \in T : \A w \in T : ~Greater(w, v)
<1> DEFINE Minors == {99 - v[1] : v \in T}
<1>0. \A v \in T : v[1] \in Nat /\ v[2] \in Nat /\ v[1] <= 99 /\ v[2] <= 100
  BY VersionFacts
<1>1. PICK x \in Minors : \A y \in Minors : x <= y
  <2>1. Minors \subseteq Nat /\ Minors # {}
    BY <1>0
  <2> HIDE DEF Minors
  <2> QED
    BY <2>1, LeastNatural
<1>2. PICK u \in T : \A v \in T : v[1] <= u[1]
  <2>1. PICK u \in T : x = 99 - u[1]
    BY DEF Minors
  <2>2. ASSUME NEW v \in T PROVE v[1] <= u[1]
    <3>1. 99 - u[1] <= 99 - v[1]
      BY <1>1, <2>1
    <3>2. v[1] \in Nat /\ u[1] \in Nat /\ v[1] <= 99 /\ u[1] <= 99
      BY <1>0
    <3> QED
      BY <3>1, <3>2
  <2> QED
    BY <2>2
<1> DEFINE Patches == {100 - v[2] : v \in {w \in T : w[1] = u[1]}}
<1>3. PICK z \in Patches : \A y \in Patches : z <= y
  <2>1. Patches \subseteq Nat /\ Patches # {}
    BY <1>0
  <2> HIDE DEF Patches
  <2> QED
    BY <2>1, LeastNatural
<1>4. PICK v \in T : v[1] = u[1] /\ z = 100 - v[2]
  OBVIOUS
<1>5. ASSUME NEW w \in T PROVE ~Greater(w, v)
  <2>1. w[1] = u[1] => 100 - v[2] <= 100 - w[2]
    <3>1. w[1] = u[1] => 100 - w[2] \in Patches
      OBVIOUS
    <3>2. \A y \in Patches : 100 - v[2] <= y
      BY <1>3, <1>4
    <3> HIDE DEF Patches
    <3> QED
      BY <3>1, <3>2
  <2>2. /\ w[1] \in Nat /\ w[2] \in Nat /\ v[1] \in Nat /\ v[2] \in Nat
        /\ w[1] <= v[1] /\ w[2] <= 100 /\ v[2] <= 100
    BY <1>0, <1>2, <1>4
  <2>3. v[1] = u[1] /\ (w[1] = v[1] => w[2] <= v[2])
    BY <1>4, <2>1, <2>2
  <2> QED
    BY <2>2, <2>3 DEF Greater
<1> QED
  BY <1>5

\* ... and of some files one is the oldest.
LEMMA OldestFile ==
    ASSUME NEW T \in SUBSET AllFiles, T # {}
    PROVE  \E f \in T : \A g \in T \ {f} : Greater(g, f)
<1> DEFINE Minors == {f[1] : f \in T}
<1>0. \A f \in T : f = <<f[1], f[2]>> /\ f[1] \in Nat /\ f[2] \in Nat
  BY FileFacts
<1>1. PICK x \in Minors : \A y \in Minors : x <= y
  <2>1. Minors \subseteq Nat /\ Minors # {}
    BY <1>0
  <2> HIDE DEF Minors
  <2> QED
    BY <2>1, LeastNatural
<1> DEFINE Patches == {f[2] : f \in {g \in T : g[1] = x}}
<1>2. PICK z \in Patches : \A y \in Patches : z <= y
  <2>1. Patches \subseteq Nat /\ Patches # {}
    BY <1>0, <1>1
  <2> HIDE DEF Patches
  <2> QED
    BY <2>1, LeastNatural
<1>3. PICK f \in T : f[1] = x /\ f[2] = z
  OBVIOUS
<1>4. ASSUME NEW g \in T \ {f} PROVE Greater(g, f)
  <2>1. x <= g[1] /\ (g[1] = x => z <= g[2])
    BY <1>1, <1>2
  <2>2. g[1] # f[1] \/ g[2] # f[2]
    BY <1>0
  <2> QED
    BY <1>0, <1>3, <2>1, <2>2 DEF Greater
<1> QED
  BY <1>4

\* The version a release brings is that of its newest file.
LEMMA CurrentVersion ==
    ASSUME NEW r \in Releases
    PROVE  /\ Current(r) \in Versions /\ Current(r)[1] <= r
           /\ \A f \in Files(r) : ~Greater(VersionOf(f), Current(r))
           /\ Current(r) # Empty /\ ~Greater(Minimum, Current(r))
           /\ Files(r) = {f \in AllFiles : ~Greater(VersionOf(f), Current(r))}
<1> DEFINE T == {VersionOf(f) : f \in Files(r)} \cup {Empty}
<1>1. T \in SUBSET Versions /\ T # {} /\ r \in Nat
  BY MigratorConstants DEF MigratorConstants, Versions, Files
<1>2. \E v \in T : \A w \in T : ~Greater(w, v)
  <2> HIDE DEF T
  <2> QED
    BY <1>1, GreatestVersion
<1>3. \E v \in T : \A f \in Files(r) : ~Greater(VersionOf(f), v)
  BY <1>2
<1>4. Current(r) \in T /\ \A f \in Files(r) : ~Greater(VersionOf(f), Current(r))
  BY <1>3 DEF Current
<1>5. Current(r) \in Versions
  BY <1>1, <1>4
<1> DEFINE v == Current(r)
<1>6. v[1] \in Nat /\ v[2] \in Nat
  BY <1>5, VersionFacts
<1>7. v[1] <= r
  <2>1. CASE v = Empty
    BY <1>1, <2>1 DEF Empty
  <2>2. ASSUME NEW f \in Files(r), v = VersionOf(f) PROVE v[1] <= r
    BY <2>2, FileFacts DEF Files
  <2> QED
    BY <1>4, <2>1, <2>2
<1>8. v # Empty /\ ~Greater(Minimum, v)
  <2>1. PICK f \in AllFiles : f[1] = r /\ ~Greater(Minimum, VersionOf(f))
    BY MigratorReleases DEF MigratorReleases
  <2>2. f \in Files(r)
    BY <1>1, <2>1 DEF Files
  <2>3. ~Greater(VersionOf(f), v)
    BY <1>4, <2>2
  <2>4. /\ VersionOf(f)[1] = f[1] /\ VersionOf(f)[2] = f[2] + 1
        /\ f[1] \in Nat /\ f[2] \in Nat
    BY FileFacts
  <2>5. Minimum[1] \in Nat /\ Minimum[2] \in Nat /\ Minimum[1] >= 10
    BY MigratorConstants, MigratorReleases DEF MigratorConstants, MigratorReleases
  <2>6. ~Greater(Minimum, v)
    BY <1>6, <2>1, <2>3, <2>4, <2>5 DEF Greater
  <2>7. v # Empty
    BY <2>5, <2>6 DEF Greater, Empty
  <2> QED
    BY <2>6, <2>7
<1>9. ASSUME NEW f \in AllFiles, ~Greater(VersionOf(f), v) PROVE f \in Files(r)
  <2>1. VersionOf(f)[1] = f[1] /\ f[1] \in Nat
    BY FileFacts
  <2>2. f[1] <= r
    BY <1>1, <1>6, <1>7, <1>9, <2>1 DEF Greater
  <2> QED
    BY <2>2 DEF Files
<1> QED
  BY <1>4, <1>5, <1>7, <1>8, <1>9 DEF Files

-----------------------------------------------------------------------------
(* Paths *)

\* Paths with a minor version of two digits are in the order of the versions.
LEMMA PathsInOrder ==
    ASSUME NEW f \in AllFiles, NEW g \in AllFiles, f[1] >= 10, g[1] >= 10
    PROVE  PathBefore(f, g) <=> Greater(g, f)
<1>1. f[1] \in 10 .. 99 /\ f[2] \in 0 .. 99 /\ g[1] \in 10 .. 99 /\ g[2] \in 0 .. 99
  BY FileFacts
<1>2. \A n \in 10 .. 99 : /\ n \div 10 \in Nat /\ n % 10 \in 0 .. 9
                         /\ n = 10 * (n \div 10) + (n % 10)
  OBVIOUS
<1>3. ASSUME NEW a \in Nat, NEW b \in Nat, NEW c \in Nat, NEW d \in Nat
      PROVE  LexBefore(<<a, b>>, <<c, d>>) <=> a < c \/ (a = c /\ b < d)
  <2> DEFINE s == <<a, b>>
             t == <<c, d>>
  <2>1. Len(s) = 2 /\ Len(t) = 2 /\ s[1] = a /\ s[2] = b /\ t[1] = c /\ t[2] = d
    OBVIOUS
  <2> HIDE DEF s, t
  <2>2. LexBefore(s, t) <=> \E i \in 1 .. 2 : s[i] < t[i] /\ \A j \in 1 .. i - 1 : s[j] = t[j]
    BY <2>1 DEF LexBefore
  <2>3. 1 .. 2 = {1, 2} /\ 1 .. 1 - 1 = {} /\ 1 .. 2 - 1 = {1}
    OBVIOUS
  <2>4. LexBefore(s, t) <=> s[1] < t[1] \/ (s[2] < t[2] /\ s[1] = t[1])
    BY <2>2, <2>3
  <2> QED
    BY <2>1, <2>4 DEF s, t
<1>4. LexBefore(Digits(f[1]), Digits(g[1])) <=> f[1] < g[1]
  <2>1. Digits(f[1]) = <<f[1] \div 10, f[1] % 10>> /\ Digits(g[1]) = <<g[1] \div 10, g[1] % 10>>
    BY <1>1 DEF Digits
  <2> DEFINE a == f[1] \div 10
             b == f[1] % 10
             c == g[1] \div 10
             d == g[1] % 10
  <2>2. /\ a \in Nat /\ b \in 0 .. 9 /\ c \in Nat /\ d \in 0 .. 9
        /\ f[1] = 10 * a + b /\ g[1] = 10 * c + d
    BY <1>1, <1>2
  <2>3. LexBefore(<<a, b>>, <<c, d>>) <=> a < c \/ (a = c /\ b < d)
    <3> HIDE DEF a, b, c, d
    <3> QED
      BY <1>3, <2>2
  <2>4. Digits(f[1]) = <<a, b>> /\ Digits(g[1]) = <<c, d>>
    BY <2>1
  <2> HIDE DEF a, b, c, d
  <2>5. (a < c \/ (a = c /\ b < d)) <=> 10 * a + b < 10 * c + d
    BY <2>2
  <2> QED
    BY <2>2, <2>3, <2>4, <2>5
<1> QED
  BY <1>1, <1>4 DEF PathBefore, Greater

-----------------------------------------------------------------------------
(* The invariant of the migrations *)

UpTo(v) == {f \in AllFiles : ~Greater(VersionOf(f), v)}

\* The schema has the effect of the files up to the recorded version, and of
\* more only if a process stopped before it recorded them.
Recorded ==
    /\ version # Empty /\ ~Greater(Minimum, version)
    /\ UpTo(version) \subseteq schema
    /\ torn # "migrated" => schema = UpTo(version)

\* The transaction has executed the oldest pending files, the rest is to do.
Applying ==
    /\ Greater(Current(release), version)
    /\ todo \cup tx = Pending(release) /\ todo \cap tx = {}
    /\ \A f \in todo, g \in tx : Greater(f, g)

\* A commit whose version is not recorded yet.
Committed ==
    /\ version # Empty /\ ~Greater(Minimum, version)
    /\ UpTo(version) \subseteq schema /\ Files(release) \subseteq schema
    /\ torn # "migrated" => schema = Files(release)

\* A database without a version, other than a new one that is about to get it.
Unversioned == legacy \/ torn = "created"

\* Where Migrate is, and what it knows there.
Migrating ==
    /\ MigratorTypeOK
    /\ pc # "down" => release \in Releases
    /\ pc = "duplicate" => torn = "migrated"
    /\ pc = "tooOld" => Unversioned
    /\ Unversioned => tables /\ version = Empty /\ pc \in {"down", "premigrate", "minimum", "tooOld"}
    /\ ~tables => schema = {} /\ version = Empty /\ torn = "none"
                   /\ pc \in {"down", "premigrate", "create"}
    /\ pc = "create" => ~tables
    /\ tables /\ ~Unversioned /\ pc \notin {"stampNew", "stamp"} => Recorded
    /\ pc = "stampNew" => schema = Files(release) /\ version = Empty /\ torn = "none"
    /\ pc = "stamp" => Committed
    /\ pc = "serving" => version = Current(release)
    /\ IF pc = "apply" THEN Applying ELSE todo = {} /\ tx = {}

\* A release that brings the recorded version has all its files in the schema.
LEMMA Recording ==
    ASSUME NEW r \in Releases
    PROVE  /\ Current(r) # Empty /\ ~Greater(Minimum, Current(r))
           /\ Files(r) = UpTo(Current(r))
BY CurrentVersion DEF UpTo

\* The next file to execute is the oldest, and not executed yet.
LEMMA NextFile ==
    ASSUME MigratorTypeOK, tables, Recorded, Applying, todo # {}
    PROVE  /\ First(todo) \in todo /\ \A g \in todo \ {First(todo)} : Greater(g, First(todo))
           /\ torn # "migrated" =>
                /\ First(todo) \notin schema
                /\ \A g \in schema \cup tx : Greater(First(todo), g)
<1>1. version \in Versions /\ todo \subseteq AllFiles /\ todo \subseteq Pending(release)
  BY DEF MigratorTypeOK, Versions, Applying
<1>2. version[1] \in Nat /\ version[2] \in Nat /\ version[1] >= 10
  <2>1. version[1] \in Nat /\ version[2] \in Nat
    BY <1>1, VersionFacts
  <2>2. Minimum[1] \in Nat /\ Minimum[1] >= 10 /\ ~Greater(Minimum, version)
    BY MigratorConstants, MigratorReleases DEF MigratorConstants, MigratorReleases, Recorded
  <2> QED
    BY <2>1, <2>2 DEF Greater
<1>3. ASSUME NEW f \in todo
      PROVE  f \in AllFiles /\ Greater(VersionOf(f), version) /\ f[1] >= 10
  <2>1. f \in AllFiles /\ Greater(VersionOf(f), version)
    BY <1>1 DEF Pending, ShouldApply, Files
  <2>2. VersionOf(f)[1] = f[1] /\ f[1] \in Nat
    BY <2>1, FileFacts
  <2> QED
    BY <1>2, <2>1, <2>2 DEF Greater
<1>4. \A f, g \in todo : PathBefore(f, g) <=> Greater(g, f)
  BY <1>3, PathsInOrder
<1>5. \E f \in todo : \A g \in todo \ {f} : Greater(g, f)
  BY <1>1, OldestFile
<1>6. \E f \in todo : \A g \in todo \ {f} : PathBefore(f, g)
  BY <1>4, <1>5
<1>7. First(todo) \in todo /\ \A g \in todo \ {First(todo)} : PathBefore(First(todo), g)
  BY <1>6 DEF First
<1> DEFINE f == First(todo)
<1>8. ASSUME torn # "migrated", NEW g \in schema PROVE Greater(f, g)
  <2>1. g \in AllFiles /\ ~Greater(VersionOf(g), version) /\ Greater(VersionOf(f), version)
    BY <1>3, <1>7, <1>8 DEF Recorded, UpTo
  <2>2. /\ VersionOf(g)[1] = g[1] /\ VersionOf(g)[2] = g[2] + 1
        /\ VersionOf(f)[1] = f[1] /\ VersionOf(f)[2] = f[2] + 1
        /\ f[1] \in Nat /\ f[2] \in Nat /\ g[1] \in Nat /\ g[2] \in Nat
    BY <1>3, <1>7, <2>1, FileFacts
  <2> DEFINE vf == VersionOf(f)
             vg == VersionOf(g)
  <2> HIDE DEF f, vf, vg
  <2>3. Greater(vf, vg)
    <3>1. ~Greater(vg, version) /\ Greater(vf, version)
      BY <2>1 DEF vf, vg
    <3>2. vf[1] \in Nat /\ vf[2] \in Nat /\ vg[1] \in Nat /\ vg[2] \in Nat
      BY <2>2 DEF vf, vg
    <3> QED
      BY <1>2, <3>1, <3>2 DEF Greater
  <2> QED
    BY <2>2, <2>3 DEF Greater, vf, vg
<1>9. torn # "migrated" => f \notin schema
  BY <1>3, <1>7 DEF Recorded, UpTo
<1>10. \A g \in tx : Greater(f, g)
  BY <1>7 DEF Applying
<1> QED
  BY <1>4, <1>7, <1>8, <1>9, <1>10

LEMMA InitMigrating == MigratorInit => Migrating
<1> SUFFICES ASSUME MigratorInit PROVE Migrating
  OBVIOUS
<1>1. CASE tables = FALSE /\ schema = {} /\ version = Empty /\ legacy = FALSE
  BY <1>1 DEF MigratorInit, Migrating, MigratorTypeOK, Unversioned
<1>2. ASSUME NEW f \in AllFiles,
             tables = TRUE, schema = {g \in AllFiles : ~Greater(g, f)},
             legacy = ~Greater(VersionOf(f), Minimum),
             version = IF legacy THEN Empty ELSE VersionOf(f)
      PROVE  Migrating
  <2>1. MigratorTypeOK
    BY <1>2 DEF MigratorInit, MigratorTypeOK
  <2>2. ASSUME ~legacy PROVE Recorded
    <3>1. /\ VersionOf(f)[1] = f[1] /\ VersionOf(f)[2] = f[2] + 1
          /\ f[1] \in Nat /\ f[2] \in Nat /\ version = VersionOf(f)
      BY <1>2, <2>2, FileFacts
    <3>2. Minimum[1] \in Nat /\ Minimum[2] \in Nat /\ Greater(VersionOf(f), Minimum)
      BY <1>2, <2>2, MigratorConstants DEF MigratorConstants
    <3>3. version # Empty /\ ~Greater(Minimum, version)
      BY <3>1, <3>2 DEF Greater, Empty
    <3>4. ASSUME NEW g \in AllFiles PROVE Greater(g, f) <=> Greater(VersionOf(g), version)
      <4>1. /\ VersionOf(g)[1] = g[1] /\ VersionOf(g)[2] = g[2] + 1
            /\ g[1] \in Nat /\ g[2] \in Nat
        BY FileFacts
      <4> QED
        BY <3>1, <4>1 DEF Greater
    <3> QED
      BY <1>2, <3>3, <3>4 DEF Recorded, UpTo
  <2> QED
    BY <1>2, <2>1, <2>2 DEF MigratorInit, Migrating, Unversioned
<1> QED
  BY <1>1, <1>2 DEF MigratorInit

LEMMA NextMigrating ==
    ASSUME Migrating, [MigratorNext]_migratorVars
    PROVE  Migrating'
<1> USE DEF database, Step, Unversioned
<1>0. MigratorTypeOK /\ \A r \in Releases : Current(r) \in Versions
  BY CurrentVersion DEF Migrating
<1>r. Recorded /\ UNCHANGED <<database, torn>> => Recorded'
  BY DEF Recorded, UpTo
<1>1. ASSUME NEW r \in Releases, Boot(r) PROVE Migrating'
  BY <1>r, <1>1 DEF Boot, Migrating, MigratorTypeOK
<1>2. CASE Initialized
  BY <1>r, <1>2 DEF Initialized, Migrating, MigratorTypeOK
<1>3. CASE Create
  <2>1. Files(release) \subseteq AllFiles /\ Files(release)' = Files(release')
    BY DEF Files
  <2> QED
    BY <1>3, <2>1 DEF Create, Migrating, MigratorTypeOK
<1>4. CASE StampNew
  <2>1. release \in Releases /\ release' = release
    BY <1>4 DEF StampNew, Migrating
  <2>2. version' = Current(release) /\ schema' = Files(release)
    BY <1>4 DEF StampNew, Migrating
  <2>3. Recorded'
    <3>1. UpTo(version)' = UpTo(version')
      BY DEF UpTo
    <3> QED
      BY <2>1, <2>2, <3>1, Recording DEF Recorded
  <2>4. MigratorTypeOK'
    BY <1>0, <1>4, <2>1 DEF StampNew, MigratorTypeOK, Versions
  <2> QED
    BY <1>4, <2>1, <2>3, <2>4 DEF StampNew, Migrating
<1>5. CASE CheckMinimum
  BY <1>r, <1>5 DEF CheckMinimum, TooOld, Migrating, MigratorTypeOK, Recorded
<1>6. CASE Compare
  <2>1. /\ pc = "compare" /\ release \in Releases /\ tables /\ ~Unversioned /\ Recorded /\ tx = {}
        /\ UNCHANGED <<database, release, tx, legacy, torn>>
    BY <1>6 DEF Compare, Migrating
  <2>2. Recorded'
    BY <1>r, <2>1
  <2>3. MigratorTypeOK'
    BY <1>0, <1>6 DEF Compare, MigratorTypeOK, Pending, Files
  <2>4. CASE pc' = "apply"
    <3>1. Greater(Current(release), version) /\ todo' = Pending(release)
      BY <1>6, <2>1, <2>4 DEF Compare, Recorded
    <3>2. Pending(release)' = Pending(release) /\ Current(release)' = Current(release)
      BY <2>1 DEF Pending, Current, Files
    <3>3. Applying'
      BY <2>1, <3>1, <3>2 DEF Applying
    <3> QED
      BY <2>1, <2>2, <2>3, <2>4, <3>3 DEF Migrating
  <2>5. CASE pc' = "downgrade"
    BY <1>6, <2>1, <2>2, <2>3, <2>5 DEF Compare, Migrating
  <2>6. CASE pc' = "serving"
    <3>1. ~Greater(version, Current(release)) /\ ~Greater(Current(release), version)
      BY <1>6, <2>1, <2>6 DEF Compare
    <3>2. version = Current(release)
      <4>1. version \in Versions /\ Current(release) \in Versions
        BY <1>0, <2>1 DEF MigratorTypeOK, Versions
      <4> QED
        BY <3>1, <4>1, EqualVersions
    <3> QED
      BY <1>6, <2>1, <2>2, <2>3, <2>6, <3>2 DEF Compare, Migrating, Current, Files
  <2> QED
    BY <1>6, <2>4, <2>5, <2>6 DEF Compare
<1>7. CASE Execute
  <2> DEFINE f == First(todo)
  <2>1. /\ pc = "apply" /\ todo # {} /\ tables /\ ~Unversioned /\ Recorded /\ Applying
        /\ release \in Releases /\ UNCHANGED <<database, release, legacy, torn>>
    BY <1>7 DEF Execute, Migrating
  <2>2. /\ f \in todo /\ \A g \in todo \ {f} : Greater(g, f)
        /\ torn # "migrated" => f \notin schema
    BY <1>0, <2>1, NextFile
  <2>3. \/ pc' = "apply" /\ tx' = tx \cup {f} /\ todo' = todo \ {f}
        \/ pc' = "duplicate" /\ torn = "migrated" /\ tx' = {} /\ todo' = {}
    BY <1>7, <2>2 DEF Execute
  <2> HIDE DEF f
  <2>4. Recorded' /\ MigratorTypeOK'
    BY <1>0, <1>r, <2>1, <2>2, <2>3 DEF MigratorTypeOK
  <2>5. Pending(release)' = Pending(release) /\ Current(release)' = Current(release)
    BY <2>1 DEF Pending, Current, Files
  <2>6. CASE pc' = "apply"
    <3>1. Applying'
      BY <2>1, <2>2, <2>3, <2>5, <2>6 DEF Applying
    <3> QED
      BY <2>1, <2>4, <2>6, <3>1 DEF Migrating
  <2>7. CASE pc' = "duplicate"
    BY <2>1, <2>3, <2>4, <2>7 DEF Migrating
  <2> QED
    BY <2>3, <2>6, <2>7
<1>8. CASE Commit
  <2>1. /\ pc = "apply" /\ todo = {} /\ tables /\ ~Unversioned /\ Recorded /\ Applying
        /\ release \in Releases /\ UNCHANGED <<tables, version, release, todo, legacy, torn>>
        /\ pc' = "stamp" /\ schema' = schema \cup tx /\ tx' = {}
    BY <1>8 DEF Commit, Migrating
  <2>2. tx = Pending(release) /\ Files(release) = UpTo(Current(release))
    BY <2>1, Recording DEF Applying
  <2>3. UpTo(version) \cup tx = Files(release)
    <3>1. Greater(Current(release), version)
      BY <2>1 DEF Applying
    <3>2. UpTo(version) \subseteq UpTo(Current(release))
      <4>1. version \in Versions /\ Current(release) \in Versions
        BY <1>0, <2>1 DEF MigratorTypeOK, Versions
      <4> QED
        BY <3>1, <4>1, GreaterChain, FileFacts DEF UpTo
    <3>3. tx = {f \in Files(release) : f \notin UpTo(version)}
      BY <2>2 DEF Pending, ShouldApply, UpTo, Files
    <3> QED
      BY <2>2, <3>2, <3>3
  <2>4. Committed'
    <3>1. UpTo(version)' = UpTo(version) /\ Files(release)' = Files(release)
      BY <2>1 DEF UpTo, Files
    <3> QED
      BY <2>1, <2>3, <3>1 DEF Committed, Recorded
  <2>5. MigratorTypeOK'
    BY <1>0, <2>1 DEF MigratorTypeOK
  <2> QED
    BY <2>1, <2>4, <2>5 DEF Migrating
<1>9. CASE Stamp
  <2>1. /\ release \in Releases /\ release' = release /\ tables /\ ~Unversioned /\ Committed
        /\ version' = Current(release) /\ schema' = schema
        /\ torn' = IF schema = Files(release) THEN "none" ELSE torn
    BY <1>9 DEF Stamp, Migrating
  <2>2. Recorded'
    <3>1. UpTo(version)' = UpTo(version') /\ Files(release) = UpTo(version')
      BY <2>1, Recording DEF UpTo
    <3> QED
      BY <2>1, <3>1, Recording DEF Recorded, Committed
  <2>3. MigratorTypeOK'
    BY <1>0, <1>9, <2>1 DEF Stamp, MigratorTypeOK, Versions
  <2>4. Current(release)' = Current(release)
    BY <2>1 DEF Current, Files
  <2> QED
    BY <1>9, <2>1, <2>2, <2>3, <2>4 DEF Stamp, Migrating
<1>10. CASE Stop
  BY <1>r, <1>10 DEF Stop, Migrating, MigratorTypeOK
<1>11. CASE Crash
  <2>1. CASE pc = "stamp"
    <3>1. torn' = "migrated" /\ pc' = "down" /\ UNCHANGED <<database, release, legacy>>
      BY <1>11, <2>1 DEF Crash
    <3>2. Recorded'
      BY <2>1, <3>1 DEF Recorded, Committed, UpTo, Migrating
    <3> QED
      BY <1>11, <2>1, <3>1, <3>2 DEF Crash, Migrating, MigratorTypeOK
  <2>2. CASE pc = "stampNew"
    <3>1. torn' = "created" /\ pc' = "down" /\ UNCHANGED <<database, release, legacy>>
      BY <1>11, <2>2 DEF Crash
    <3> QED
      BY <1>11, <2>2, <3>1 DEF Crash, Migrating, MigratorTypeOK
  <2>3. CASE pc \notin {"stamp", "stampNew"}
    <3>1. torn' = torn /\ pc' = "down" /\ UNCHANGED <<database, release, legacy>>
      BY <1>11, <2>3 DEF Crash
    <3> QED
      BY <1>r, <1>11, <2>3, <3>1 DEF Crash, Migrating, MigratorTypeOK
  <2> QED
    BY <2>1, <2>2, <2>3
<1>12. CASE UNCHANGED migratorVars
  BY <1>r, <1>12 DEF migratorVars, Migrating, MigratorTypeOK, Committed, Applying, Pending,
                     ShouldApply, Current, Files, UpTo
<1> QED
  BY <1>1, <1>2, <1>3, <1>4, <1>5, <1>6, <1>7, <1>8, <1>9, <1>10, <1>11, <1>12 DEF MigratorNext

LEMMA MigratingImplies == Migrating => RefusedForAReason /\ SchemaServed
<1> SUFFICES ASSUME Migrating PROVE RefusedForAReason /\ SchemaServed
  OBVIOUS
<1>1. RefusedForAReason /\ MigratorTypeOK /\ (pc = "duplicate" => torn = "migrated")
  BY DEF Migrating, RefusedForAReason, Unversioned
<1>2. ServesItsSchema
  <2> SUFFICES ASSUME pc = "serving"
               PROVE  /\ version = Current(release) /\ Files(release) \subseteq schema
                      /\ torn # "migrated" => schema = Files(release)
    BY DEF ServesItsSchema
  <2>1. version = Current(release) /\ release \in Releases /\ Recorded
    BY DEF Migrating, Unversioned
  <2> QED
    BY <2>1, Recording DEF Recorded
<1>3. CASE pc # "apply"
  BY <1>1, <1>2, <1>3 DEF Migrating, SchemaServed, AppliedOnceInOrder, AppliedOnce, AppliedInOrder
<1>4. CASE pc = "apply" /\ torn # "migrated"
  <2>1. tables /\ Recorded /\ Applying
    BY <1>4 DEF Migrating, Unversioned
  <2>2. todo \cap schema = {}
    BY <1>4, <2>1 DEF Applying, Recorded, Pending, ShouldApply, UpTo
  <2>3. AppliedInOrder
    BY <1>1, <1>4, <2>1, NextFile DEF AppliedInOrder
  <2> QED
    BY <1>1, <1>2, <1>4, <2>2, <2>3 DEF SchemaServed, AppliedOnceInOrder, AppliedOnce
<1>5. CASE torn = "migrated"
  BY <1>1, <1>2, <1>5 DEF SchemaServed, AppliedOnceInOrder
<1> QED
  BY <1>3, <1>4, <1>5

\* Every server runs on the schema its release was built for, each migration
\* having run once and in order, but for a database whose last migration was
\* committed and not recorded, which has all of it and may have more; and a
\* database that is refused has earned it: preMigrate, applyMigrations.
THEOREM ServedSchemaIsWhole == MigratorSpec => []SchemaServed
<1>1. Migrating /\ [MigratorNext]_migratorVars => Migrating'
  BY NextMigrating
<1>2. Migrating => SchemaServed
  BY MigratingImplies
<1> QED
  BY <1>1, <1>2, InitMigrating, PTL DEF MigratorSpec

\* Only a database from before versions were tracked is refused as too old, and
\* one whose first start stopped before it recorded the version, for ever:
\* checkMinimumUpgradeVersion.
THEOREM RefusalHasAReason == MigratorSpec => []RefusedForAReason
<1>1. Migrating /\ [MigratorNext]_migratorVars => Migrating'
  BY NextMigrating
<1>2. Migrating => RefusedForAReason
  BY MigratingImplies
<1> QED
  BY <1>1, <1>2, InitMigrating, PTL DEF MigratorSpec

-----------------------------------------------------------------------------
(* Requests *)

Parts == {"attach", "relate", "comment"}

Stages == Parts \cup Deleting \cup
          {"idle", "create", "tie", "keep", "dropRow", "batch", "unlink",
           "refer", "insert", "comments", "sever"}

Request == [at : Stages, memo : MemoIds \cup {None}, plan : Seq(Parts),
            want : SUBSET AttachmentIds, refs : SUBSET MemoIds,
            parent : MemoIds \cup {None}, drop : SUBSET AttachmentIds,
            one : AttachmentIds \cup {None}, then : {"idle", "keep", "row"},
            victims : SUBSET MemoIds, other : MemoIds \cup {None}]

\* Stages of work on the memo of the request.
OnMemo == Parts \cup {"tie", "keep", "refer", "insert", "comments", "sever"}

\* What a request knows at the stage it is at.
RequestOK(r) ==
    /\ r \in Request
    /\ r.parent = None => r.plan \in Seq({"attach", "relate"})
    /\ r.at \in {"comment", "tie"} => r.parent # None
    /\ r.at \in OnMemo \/ r.then # "idle" => r.memo # None
    /\ r.at = "insert" => r.other # None
    /\ r.one # None <=> r.at = "dropRow"
    /\ r.then = "row" => r.at \in Deleting \cup {"sever"}
    /\ r.then = "row" /\ r.at \in Deleting => r.other # None
    /\ r.at \in {"severTo", "list", "row"} => r.then = "row"

\* The memos it knows were there.
Knows(r, ids) == {r.memo, r.parent, r.other} \subseteq ids \cup {None} /\ r.victims \subseteq ids

LEMMA IdleOK == RequestOK(Idle) /\ (\A ids : Knows(Idle, ids))
<1>1. <<>> \in Seq(Parts) /\ <<>> \in Seq({"attach", "relate"})
  OBVIOUS
<1> QED
  BY <1>1 DEF Idle, RequestOK, Request, Stages, OnMemo, Parts, Deleting, Knows

\* What it may be when it goes on: no attachment is half deleted.
Ready(r) ==
    /\ r \in Request
    /\ r.parent = None => r.plan \in Seq({"attach", "relate"})
    /\ r.then # "idle" => r.memo # None
    /\ r.one = None

\* q is about what r is about.
Carries(q, r) ==
    /\ q.memo = r.memo /\ q.parent = r.parent /\ q.other = r.other
    /\ q.then = r.then /\ q.drop = r.drop /\ q.victims = r.victims

\* The request goes on to its next part, or is over.
LEMMA ProceedOK ==
    ASSUME NEW r, Ready(r), r.memo # None, r.then # "row"
    PROVE  \/ Proceed(r) = Idle
           \/ /\ RequestOK(Proceed(r)) /\ Carries(Proceed(r), r)
              /\ Proceed(r).at \in Parts
<1>1. CASE r.plan = <<>>
  BY <1>1 DEF Proceed
<1>2. CASE r.plan # <<>>
  <2> DEFINE q == [r EXCEPT !.at = Head(r.plan), !.plan = Tail(r.plan)]
  <2>1. Proceed(r) = q
    BY <1>2 DEF Proceed
  <2>2. Head(r.plan) \in Parts /\ Tail(r.plan) \in Seq(Parts)
    BY <1>2 DEF Ready, Request
  <2>3. r.parent = None => Head(r.plan) # "comment" /\ Tail(r.plan) \in Seq({"attach", "relate"})
    BY <1>2 DEF Ready
  <2>4. /\ q \in Request /\ q.at = Head(r.plan) /\ q.plan = Tail(r.plan)
        /\ q.one = r.one /\ Carries(q, r)
    BY <2>2 DEF Ready, Request, Stages, Carries
  <2> HIDE DEF q
  <2>5. RequestOK(q)
    BY <2>2, <2>3, <2>4 DEF Ready, RequestOK, Carries, OnMemo, Parts, Deleting
  <2> QED
    BY <2>1, <2>2, <2>4, <2>5
<1> QED
  BY <1>1, <1>2

\* The attachments that are kept are updated one by one.
LEMMA AfterKeepOK ==
    ASSUME NEW r, Ready(r), r.memo # None, r.then # "row"
    PROVE  \/ AfterKeep(r) = Idle
           \/ /\ RequestOK(AfterKeep(r)) /\ Carries(AfterKeep(r), r)
              /\ AfterKeep(r).at \in Parts \cup {"keep"}
<1>1. CASE r.want # {}
  <2> DEFINE q == [r EXCEPT !.at = "keep"]
  <2>1. AfterKeep(r) = q
    BY <1>1 DEF AfterKeep
  <2>2. /\ q \in Request /\ q.at = "keep" /\ q.plan = r.plan
        /\ q.one = r.one /\ Carries(q, r)
    BY DEF Ready, Request, Stages, Carries
  <2> HIDE DEF q
  <2> QED
    BY <2>1, <2>2 DEF Ready, RequestOK, Carries, OnMemo, Parts, Deleting
<1>2. CASE r.want = {}
  BY <1>2, ProceedOK DEF AfterKeep
<1> QED
  BY <1>1, <1>2

\* So are those that are not, which comes first.
LEMMA AfterDropOK ==
    ASSUME NEW r, Ready(r), r.then = "row" => r.other # None
    PROVE  \/ AfterDrop(r).at = "idle" /\ r.then # "row"
           \/ /\ RequestOK(AfterDrop(r)) /\ Carries(AfterDrop(r), r)
              /\ \/ AfterDrop(r).at = "drop" /\ r.drop # {}
                 \/ AfterDrop(r).at \in Parts \cup {"keep"} /\ r.then = "keep"
                 \/ AfterDrop(r).at = "row" /\ r.then = "row" /\ r.drop = {}
<1>1. CASE r.drop # {}
  <2> DEFINE q == [r EXCEPT !.at = "drop"]
  <2>1. AfterDrop(r) = q
    BY <1>1 DEF AfterDrop
  <2>2. /\ q \in Request /\ q.at = "drop" /\ q.plan = r.plan
        /\ q.one = r.one /\ Carries(q, r)
    BY DEF Ready, Request, Stages, Deleting, Carries
  <2> HIDE DEF q
  <2> QED
    BY <1>1, <2>1, <2>2 DEF Ready, RequestOK, Carries, OnMemo, Parts, Deleting
<1>2. CASE r.drop = {} /\ r.then = "keep"
  <2>1. r.memo # None /\ AfterDrop(r) = AfterKeep(r)
    BY <1>2 DEF AfterDrop, Ready
  <2>2. Idle.at = "idle"
    BY DEF Idle
  <2> QED
    BY <1>2, <2>1, <2>2, AfterKeepOK
<1>3. CASE r.drop = {} /\ r.then # "keep"
  <2> DEFINE q == [r EXCEPT !.at = r.then]
  <2>1. AfterDrop(r) = q
    BY <1>3 DEF AfterDrop
  <2>2. q.at = r.then /\ r.then \in {"idle", "row"}
    BY <1>3 DEF Ready, Request
  <2>3. CASE r.then = "row"
    <3>1. /\ q \in Request /\ q.at = "row" /\ q.plan = r.plan
          /\ q.one = r.one /\ Carries(q, r)
      BY <2>3 DEF Ready, Request, Stages, Deleting, Carries
    <3> HIDE DEF q
    <3> QED
      BY <1>3, <2>1, <2>3, <3>1 DEF Ready, RequestOK, Carries, OnMemo, Parts, Deleting
  <2> QED
    BY <2>1, <2>2, <2>3
<1> QED
  BY <1>1, <1>2, <1>3

\* References are inserted one by one.
LEMMA AfterReferOK ==
    ASSUME NEW r, Ready(r), r.memo # None, r.then # "row"
    PROVE  \/ AfterRefer(r) = Idle
           \/ /\ RequestOK(AfterRefer(r)) /\ Carries(AfterRefer(r), r)
              /\ AfterRefer(r).at \in Parts \cup {"refer"}
<1>1. CASE r.refs \ {r.memo} # {}
  <2> DEFINE q == [r EXCEPT !.at = "refer"]
  <2>1. AfterRefer(r) = q
    BY <1>1 DEF AfterRefer
  <2>2. /\ q \in Request /\ q.at = "refer" /\ q.plan = r.plan
        /\ q.one = r.one /\ Carries(q, r)
    BY DEF Ready, Request, Stages, Carries
  <2> HIDE DEF q
  <2> QED
    BY <2>1, <2>2 DEF Ready, RequestOK, Carries, OnMemo, Parts, Deleting
<1>2. CASE r.refs \ {r.memo} = {}
  BY <1>2, ProceedOK DEF AfterRefer
<1> QED
  BY <1>1, <1>2

-----------------------------------------------------------------------------
(* Types *)

\* The rows, and the requests with what each knows at its stage.
MemosTypes ==
    /\ memos \subseteq used /\ used \subseteq MemoIds
    /\ relations \subseteq Relation
    /\ \A i \in relations : i.memo \in used /\ i.related \in used
    /\ attachments \subseteq AttachmentIds /\ files \subseteq AttachmentIds
    /\ memoOf \in [AttachmentIds -> used \cup {None}]
    /\ \A a \in AttachmentIds \ attachments : memoOf[a] = None
    /\ commentOf \in [MemoIds -> used \cup {None}]
    /\ \A m \in MemoIds \ used : commentOf[m] = None
    /\ aborted \subseteq MemoIds /\ overlapped \in BOOLEAN
    /\ request \in [Workers -> Request]
    /\ \A w \in Workers : RequestOK(request[w]) /\ Knows(request[w], used)

\* A request that is over is forgotten.
After(q) == IF q.at = "idle" THEN Idle ELSE q

\* Worker w alone goes on, and knows what its request asks for.
Turns(w, q) ==
    /\ request' \in [Workers -> Request]
    /\ request'[w] = After(q) /\ RequestOK(request'[w])
    /\ \A x \in Workers \ {w} : request'[x] = request[x]

LEMMA TurnOK ==
    ASSUME MemosTypes, NEW w \in Workers, NEW q, Do(w, q), q.at = "idle" \/ RequestOK(q)
    PROVE  Turns(w, q)
<1>1. request' = [request EXCEPT ![w] = After(q)]
  BY DEF Do, After
<1>2. RequestOK(After(q)) /\ After(q) \in Request
  BY IdleOK DEF After, RequestOK
<1> QED
  BY <1>1, <1>2 DEF Turns, MemosTypes

\* A request that comes in is about memos and attachments that are there.
LEMMA RequestsEffect ==
    ASSUME MemosTypes, NEW w \in Workers, Requests(w)
    PROVE  \E q : /\ Turns(w, q) /\ At(w, "idle")
                  /\ q.at \in Parts \cup {"idle", "create", "comments", "drop", "batch"}
                  /\ q.then = "idle" /\ q.one = None /\ q.other = None /\ q.victims = {}
                  /\ q.memo \in memos \cup {None} /\ q.parent \in memos \cup {None}
                  /\ q.at = "comments" => q.parent = None
                  /\ UNCHANGED <<rows, files, errors, commentOf, aborted, split>>
                  /\ overlapped' = (overlapped \/ \E x \in Workers : ~At(x, "idle"))
<1> USE MemosConstants DEF MemosConstants
<1>0. /\ Idle \in Request /\ None \notin MemoIds /\ memos \subseteq MemoIds
      /\ Idle.at = "idle" /\ Idle.then = "idle" /\ Idle.one = None /\ Idle.other = None
      /\ Idle.victims = {} /\ Idle.memo = None /\ Idle.parent = None /\ Idle.plan = <<>>
  BY IdleOK DEF RequestOK, MemosTypes, Idle
<1>1. ASSUME NEW q, Begin(w, q), q.at = "idle" \/ RequestOK(q)
      PROVE  /\ Turns(w, q) /\ At(w, "idle")
             /\ UNCHANGED <<rows, files, errors, commentOf, aborted, split>>
             /\ overlapped' = (overlapped \/ \E x \in Workers : ~At(x, "idle"))
  BY <1>1, TurnOK DEF Begin
<1>2. ASSUME NEW parent \in MemoIds \cup {None}, NEW want \in SUBSET AttachmentIds,
             NEW refs \in SUBSET MemoIds, CreateMemo(w, parent, want, refs)
      PROVE  \E q : /\ Begin(w, q) /\ RequestOK(q) /\ q.at = "create"
                    /\ q.then = "idle" /\ q.one = None /\ q.other = None /\ q.victims = {}
                    /\ q.memo = None /\ q.parent \in memos \cup {None}
  <2> DEFINE plan == (IF want = {} THEN <<>> ELSE <<"attach">>)
                     \o (IF refs = {} THEN <<>> ELSE <<"relate">>)
                     \o (IF parent = None THEN <<>> ELSE <<"comment">>)
             q == [Idle EXCEPT !.at = "create", !.parent = parent, !.want = want, !.refs = refs,
                               !.plan = plan]
  <2>1. plan \in Seq(Parts) /\ (parent = None => plan \in Seq({"attach", "relate"}))
    <3> DEFINE some == {"attach", "relate"}
    <3> DEFINE x == IF want = {} THEN <<>> ELSE <<"attach">>
               y == IF refs = {} THEN <<>> ELSE <<"relate">>
               z == IF parent = None THEN <<>> ELSE <<"comment">>
    <3>1. /\ <<>> \in Seq(some) /\ <<"attach">> \in Seq(some) /\ <<"relate">> \in Seq(some)
          /\ <<>> \in Seq(Parts) /\ <<"attach">> \in Seq(Parts) /\ <<"relate">> \in Seq(Parts)
          /\ <<"comment">> \in Seq(Parts)
      BY DEF Parts
    <3>2. /\ x \in Seq(some) /\ y \in Seq(some)
          /\ x \in Seq(Parts) /\ y \in Seq(Parts) /\ z \in Seq(Parts)
      BY <3>1
    <3>3. parent = None => z \in Seq(some)
      BY <3>1
    <3>4. plan = (x \o y) \o z
      OBVIOUS
    <3> HIDE DEF x, y, z, some, plan
    <3>5. x \o y \in Seq(some) /\ x \o y \in Seq(Parts)
      BY <3>2
    <3>6. (x \o y) \o z \in Seq(Parts) /\ (parent = None => (x \o y) \o z \in Seq(some))
      BY <3>2, <3>3, <3>5
    <3> QED
      BY <3>4, <3>6 DEF some
  <2> HIDE DEF plan
  <2>2. Begin(w, q) /\ parent \in memos \cup {None}
    BY <1>2 DEF CreateMemo, plan
  <2>3. /\ q \in Request /\ q.at = "create" /\ q.parent = parent /\ q.plan = plan
        /\ q.then = "idle" /\ q.one = None /\ q.other = None /\ q.victims = {} /\ q.memo = None
    BY <1>0, <2>1 DEF Request, Stages
  <2> HIDE DEF q
  <2> QED
    BY <2>1, <2>2, <2>3 DEF RequestOK, OnMemo, Parts, Deleting
<1>3. ASSUME NEW m \in MemoIds, NEW plan \in Paths, NEW want \in SUBSET AttachmentIds,
             NEW refs \in SUBSET MemoIds, UpdateMemo(w, m, plan, want, refs)
      PROVE  \E q : /\ Begin(w, q) /\ (q = Idle \/ RequestOK(q)) /\ q.at \in Parts \cup {"idle"}
                    /\ q.then = "idle" /\ q.one = None /\ q.other = None /\ q.victims = {}
                    /\ q.memo \in memos \cup {None} /\ q.parent = None
  <2> DEFINE r == [Idle EXCEPT !.memo = m, !.plan = plan, !.want = want, !.refs = refs]
  <2>1. plan \in Seq({"attach", "relate"}) /\ plan \in Seq(Parts)
    BY DEF Parts
  <2>2. /\ r \in Request /\ r.memo = m /\ r.plan = plan /\ r.then = "idle" /\ r.one = None
        /\ r.other = None /\ r.victims = {} /\ r.parent = None
    BY <1>0, <2>1 DEF Request
  <2>3. Begin(w, Proceed(r)) /\ m \in memos
    BY <1>3 DEF UpdateMemo
  <2> HIDE DEF r
  <2>4. Ready(r) /\ r.memo # None /\ r.then # "row"
    BY <1>0, <2>1, <2>2 DEF Ready
  <2>5. \/ Proceed(r) = Idle
        \/ RequestOK(Proceed(r)) /\ Carries(Proceed(r), r) /\ Proceed(r).at \in Parts
    BY <2>4, ProceedOK
  <2>6. CASE Proceed(r) = Idle
    BY <1>0, <2>3, <2>6
  <2>7. CASE RequestOK(Proceed(r)) /\ Carries(Proceed(r), r) /\ Proceed(r).at \in Parts
    BY <2>2, <2>3, <2>7 DEF Carries, RequestOK, Parts
  <2> QED
    BY <2>5, <2>6, <2>7
<1>4. ASSUME NEW m \in MemoIds, DeleteMemo(w, m)
      PROVE  \E q : /\ Begin(w, q) /\ RequestOK(q) /\ q.at = "comments"
                    /\ q.then = "idle" /\ q.one = None /\ q.other = None /\ q.victims = {}
                    /\ q.memo \in memos /\ q.parent = None
  <2> DEFINE q == [Idle EXCEPT !.at = "comments", !.memo = m]
  <2>1. Begin(w, q) /\ m \in memos
    BY <1>4 DEF DeleteMemo
  <2>2. /\ q \in Request /\ q.at = "comments" /\ q.parent = None /\ q.plan = <<>>
        /\ q.then = "idle" /\ q.one = None /\ q.other = None /\ q.victims = {} /\ q.memo = m
    BY <1>0 DEF Request, Stages
  <2> HIDE DEF q
  <2>3. <<>> \in Seq({"attach", "relate"})
    OBVIOUS
  <2> QED
    BY <1>0, <2>1, <2>2, <2>3 DEF RequestOK, OnMemo, Parts, Deleting
<1>5. ASSUME NEW s \in SUBSET AttachmentIds, NEW at \in {"drop", "batch"},
             Begin(w, [Idle EXCEPT !.at = at, !.drop = s])
      PROVE  \E q : /\ Begin(w, q) /\ RequestOK(q) /\ q.at \in {"drop", "batch"}
                    /\ q.then = "idle" /\ q.one = None /\ q.other = None /\ q.victims = {}
                    /\ q.memo = None /\ q.parent = None
  <2> DEFINE q == [Idle EXCEPT !.at = at, !.drop = s]
  <2>2. /\ q \in Request /\ q.at = at /\ q.parent = None /\ q.plan = <<>>
        /\ q.then = "idle" /\ q.one = None /\ q.other = None /\ q.victims = {} /\ q.memo = None
    BY <1>0 DEF Request, Stages, Deleting
  <2> HIDE DEF q
  <2>3. <<>> \in Seq({"attach", "relate"})
    OBVIOUS
  <2>4. RequestOK(q)
    BY <2>2, <2>3 DEF RequestOK, OnMemo, Parts, Deleting
  <2> QED
    BY <1>5, <2>2, <2>4 DEF q
<1>6. ASSUME NEW a \in AttachmentIds, DeleteAttachment(w, a)
      PROVE  Begin(w, [Idle EXCEPT !.at = "drop", !.drop = {a}]) /\ {a} \in SUBSET AttachmentIds
  BY <1>6 DEF DeleteAttachment
<1>7. ASSUME NEW s \in SUBSET AttachmentIds, BatchDeleteAttachments(w, s)
      PROVE  Begin(w, [Idle EXCEPT !.at = "batch", !.drop = s])
  BY <1>7 DEF BatchDeleteAttachments
<1>8. PICK q : /\ Begin(w, q) /\ (q = Idle \/ RequestOK(q))
               /\ q.at \in Parts \cup {"idle", "create", "comments", "drop", "batch"}
               /\ q.then = "idle" /\ q.one = None /\ q.other = None /\ q.victims = {}
               /\ q.memo \in memos \cup {None} /\ q.parent \in memos \cup {None}
               /\ q.at = "comments" => q.parent = None
  <2>1. CASE \E parent \in MemoIds \cup {None}, want \in SUBSET AttachmentIds,
                refs \in SUBSET MemoIds : CreateMemo(w, parent, want, refs)
    <3>1. PICK q : /\ Begin(w, q) /\ RequestOK(q) /\ q.at = "create"
                   /\ q.then = "idle" /\ q.one = None /\ q.other = None /\ q.victims = {}
                   /\ q.memo = None /\ q.parent \in memos \cup {None}
      BY <1>2, <2>1
    <3> QED
      BY <3>1
  <2>2. CASE \E m \in MemoIds, plan \in Paths, want \in SUBSET AttachmentIds,
                refs \in SUBSET MemoIds : UpdateMemo(w, m, plan, want, refs)
    <3>1. PICK q : /\ Begin(w, q) /\ (q = Idle \/ RequestOK(q)) /\ q.at \in Parts \cup {"idle"}
                   /\ q.then = "idle" /\ q.one = None /\ q.other = None /\ q.victims = {}
                   /\ q.memo \in memos \cup {None} /\ q.parent = None
      BY <1>3, <2>2
    <3> QED
      BY <3>1 DEF Parts
  <2>3. CASE \E m \in MemoIds : DeleteMemo(w, m)
    BY <1>4, <2>3
  <2>4. CASE \E a \in AttachmentIds : DeleteAttachment(w, a)
    BY <1>5, <1>6, <2>4
  <2>5. CASE \E s \in SUBSET AttachmentIds : BatchDeleteAttachments(w, s)
    BY <1>5, <1>7, <2>5
  <2> QED
    BY <2>1, <2>2, <2>3, <2>4, <2>5 DEF Requests
<1> QED
  BY <1>0, <1>1, <1>8

\* The parts of a request on its memo, one call after the other.
LEMMA InsertMemoEffect ==
    ASSUME MemosTypes, NEW w \in Workers, NEW m \in MemoIds, InsertMemo(w, m)
    PROVE  \E q : /\ Turns(w, q)
                  /\ \/ q.at = "idle"
                     \/ /\ q.at \in Parts /\ q.memo = m /\ q.then = request[w].then
                        /\ q.parent = request[w].parent /\ q.other = request[w].other
                        /\ q.victims = request[w].victims
<1> DEFINE r == request[w]
           s == [r EXCEPT !.memo = m]
           q == Proceed(s)
<1>1. /\ RequestOK(r) /\ r.at = "create" /\ m # None /\ Do(w, q)
  BY MemosConstants DEF MemosConstants, MemosTypes, InsertMemo, At
<1>2. /\ s \in Request /\ s.memo = m /\ s.at = r.at /\ s.plan = r.plan /\ s.parent = r.parent
      /\ s.then = r.then /\ s.one = r.one /\ s.other = r.other /\ s.victims = r.victims
  BY <1>1 DEF RequestOK, Request
<1> HIDE DEF s, r
<1>3. Ready(s) /\ s.memo # None /\ s.then # "row"
  BY <1>1, <1>2 DEF RequestOK, Ready, Deleting
<1>4. \/ q = Idle
      \/ RequestOK(q) /\ Carries(q, s) /\ q.at \in Parts
  BY ONLY <1>3, ProceedOK
<1>5. Turns(w, q)
  <2>1. Idle.at = "idle"
    BY DEF Idle
  <2> QED
    BY <1>1, <1>4, <2>1, TurnOK
<1>6. q = Idle => q.at = "idle"
  BY DEF Idle
<1> HIDE DEF q
<1> QED
  BY <1>2, <1>4, <1>5, <1>6 DEF Carries, r

\* A request ends.
LEMMA IdleEffect ==
    ASSUME MemosTypes, NEW w \in Workers, Do(w, Idle)
    PROVE  Turns(w, Idle)
BY TurnOK DEF Idle

LEMMA KeepEffect ==
    ASSUME MemosTypes, NEW w \in Workers, NEW a \in AttachmentIds, Keep(w, a)
    PROVE  \E q : /\ Turns(w, q) /\ request[w].memo # None
                  /\ \/ q.at = "idle"
                     \/ q.at \in Parts \cup {"keep"} /\ Carries(q, request[w])
<1> DEFINE r == request[w]
           s == [r EXCEPT !.want = @ \ {a}]
           q == AfterKeep(s)
<1>1. /\ RequestOK(r) /\ r.at = "keep" /\ Do(w, q)
  BY DEF MemosTypes, Keep, At
<1>2. /\ s \in Request /\ Carries(s, r) /\ s.plan = r.plan /\ s.one = r.one
  <2>1. r.want \ {a} \in SUBSET AttachmentIds
    BY <1>1 DEF RequestOK, Request
  <2> QED
    BY <1>1, <2>1 DEF RequestOK, Request, Carries
<1> HIDE DEF s, r
<1>3. Ready(s) /\ s.memo # None /\ s.then # "row" /\ r.memo # None
  BY <1>1, <1>2 DEF RequestOK, Ready, Carries, OnMemo, Deleting
<1>4. \/ q = Idle
      \/ RequestOK(q) /\ Carries(q, s) /\ q.at \in Parts \cup {"keep"}
  BY ONLY <1>3, AfterKeepOK
<1>5. q = Idle => q.at = "idle"
  BY DEF Idle
<1> HIDE DEF q
<1>6. Turns(w, q)
  BY <1>1, <1>4, <1>5, TurnOK
<1> QED
  BY <1>2, <1>3, <1>4, <1>5, <1>6 DEF Carries, r

\* From here on the attachments in drop are deleted, and then the request
\* goes on as it says.
Drops(q, r) ==
    \/ q.at = "idle" /\ r.then # "row"
    \/ /\ Carries(q, r)
       /\ \/ q.at = "drop"
          \/ q.at \in Parts \cup {"keep"} /\ r.then = "keep"
          \/ q.at = "row" /\ r.then = "row" /\ r.drop = {}

LEMMA ListCurrentEffect ==
    ASSUME MemosTypes, NEW w \in Workers, ListCurrent(w), ~Abort(w)
    PROVE  \E q : /\ Turns(w, q) /\ request[w].memo # None /\ UNCHANGED history
                  /\ \/ q.at = "idle"
                     \/ /\ q.memo = request[w].memo /\ q.parent = request[w].parent
                        /\ q.other = request[w].other /\ q.then = "keep"
                        /\ q.victims = request[w].victims
                        /\ q.at \in Parts \cup {"keep", "drop"}
<1> DEFINE r == request[w]
<1>1. PICK current \in Listings(r.memo) :
        Do(w, AfterDrop([r EXCEPT !.drop = current \ r.want, !.then = "keep"])) /\ UNCHANGED history
  BY DEF ListCurrent
<1>2. RequestOK(r) /\ r.at = "attach"
  BY DEF MemosTypes, ListCurrent, At
<1> DEFINE s == [r EXCEPT !.drop = current \ r.want, !.then = "keep"]
           q == AfterDrop(s)
<1>3. current \ r.want \in SUBSET AttachmentIds
  BY DEF Listings, MemosTypes
<1>4. /\ s \in Request /\ s.memo = r.memo /\ s.parent = r.parent /\ s.other = r.other
      /\ s.then = "keep" /\ s.victims = r.victims /\ s.plan = r.plan /\ s.one = r.one
  BY <1>2, <1>3 DEF RequestOK, Request
<1>5. Do(w, q)
  BY <1>1
<1> HIDE DEF s, r
<1>6. Ready(s) /\ r.memo # None
  BY <1>2, <1>4 DEF RequestOK, Ready, OnMemo, Parts
<1>7. \/ q.at = "idle"
      \/ /\ RequestOK(q) /\ Carries(q, s)
         /\ q.at \in Parts \cup {"keep", "drop"}
  BY <1>4, <1>6, AfterDropOK
<1> HIDE DEF q
<1>8. Turns(w, q)
  BY <1>5, <1>7, TurnOK
<1> QED
  BY <1>1, <1>4, <1>6, <1>7, <1>8 DEF Carries, r

LEMMA DropEffect ==
    ASSUME MemosTypes, NEW w \in Workers, NEW a \in AttachmentIds, Drop(w, a), a \in attachments
    PROVE  \E q : /\ Turns(w, q) /\ Carries(q, request[w])
                  /\ q.at = "dropRow" /\ q.one = a
<1> DEFINE r == request[w]
           q == [r EXCEPT !.at = "dropRow", !.one = a]
<1>1. /\ RequestOK(r) /\ r.at = "drop" /\ Do(w, q) /\ a # None
  BY MemosConstants DEF MemosConstants, MemosTypes, Drop, At
<1>2. /\ q \in Request /\ q.at = "dropRow" /\ q.one = a /\ q.plan = r.plan /\ Carries(q, r)
  BY <1>1 DEF RequestOK, Request, Stages, Deleting, Carries
<1> HIDE DEF q, r
<1>3. RequestOK(q)
  BY <1>1, <1>2 DEF RequestOK, Carries, OnMemo, Parts, Deleting
<1> QED
  BY <1>1, <1>2, <1>3, TurnOK DEF r

LEMMA DropRowEffect ==
    ASSUME MemosTypes, NEW w \in Workers, DropRow(w)
    PROVE  \E q, s : /\ Turns(w, q) /\ Drops(q, s)
                     /\ s.memo = request[w].memo /\ s.parent = request[w].parent
                     /\ s.other = request[w].other /\ s.then = request[w].then
                     /\ s.victims = request[w].victims
                     /\ s.drop = request[w].drop \ {request[w].one}
                     /\ request[w].one \in AttachmentIds
<1> DEFINE r == request[w]
           s == [r EXCEPT !.drop = @ \ {r.one}, !.one = None]
           q == AfterDrop(s)
<1>1. RequestOK(r) /\ r.at = "dropRow" /\ Do(w, q)
  BY DEF MemosTypes, DropRow, At
<1>2. /\ s \in Request /\ s.memo = r.memo /\ s.parent = r.parent /\ s.other = r.other
      /\ s.then = r.then /\ s.victims = r.victims /\ s.plan = r.plan /\ s.one = None
      /\ s.drop = r.drop \ {r.one}
  <2>1. r.drop \ {r.one} \in SUBSET AttachmentIds
    BY <1>1 DEF RequestOK, Request
  <2> QED
    BY <1>1, <2>1 DEF RequestOK, Request
<1>3. r.one \in AttachmentIds
  BY <1>1 DEF RequestOK, Request
<1> HIDE DEF s, r
<1>4. Ready(s) /\ (s.then = "row" => s.other # None)
  BY <1>1, <1>2 DEF RequestOK, Ready, Deleting
<1>5. \/ q.at = "idle" /\ s.then # "row"
      \/ /\ RequestOK(q) /\ Carries(q, s)
         /\ \/ q.at = "drop"
            \/ q.at \in Parts \cup {"keep"} /\ s.then = "keep"
            \/ q.at = "row" /\ s.then = "row" /\ s.drop = {}
  BY <1>4, AfterDropOK
<1> HIDE DEF q
<1>6. Turns(w, q)
  BY <1>1, <1>5, TurnOK
<1>7. Drops(q, s)
  BY <1>5 DEF Drops
<1> QED
  BY <1>2, <1>3, <1>6, <1>7 DEF r

\* What a batch has left to do.
Batches(w, left) ==
    \E q : /\ Turns(w, q) /\ q.at = (IF left = {} THEN "idle" ELSE "unlink") /\ q.drop = left
           /\ q.memo = request[w].memo /\ q.parent = request[w].parent
           /\ q.other = request[w].other /\ q.then = request[w].then
           /\ q.victims = request[w].victims /\ q.then # "row"

LEMMA LeftEffect ==
    ASSUME MemosTypes, NEW w \in Workers, request[w].at \in {"batch", "unlink"},
           NEW left \in SUBSET AttachmentIds,
           Do(w, [request[w] EXCEPT !.at = (IF left = {} THEN "idle" ELSE "unlink"),
                                    !.drop = left])
    PROVE  Batches(w, left)
<1> DEFINE r == request[w]
           at == IF left = {} THEN "idle" ELSE "unlink"
           q == [r EXCEPT !.at = at, !.drop = left]
<1>1. RequestOK(r) /\ r.at \in {"batch", "unlink"}
  BY DEF MemosTypes
<1>2. r.one = None /\ r.then # "row" /\ r \in Request
  BY <1>1 DEF RequestOK, Deleting
<1>3. at \in {"idle", "unlink"} /\ Do(w, q)
  OBVIOUS
<1> HIDE DEF at, r
<1>4. /\ q \in Request /\ q.at = at /\ q.plan = r.plan /\ q.memo = r.memo /\ q.parent = r.parent
      /\ q.other = r.other /\ q.then = r.then /\ q.victims = r.victims /\ q.drop = left
      /\ q.one = r.one
  BY <1>2, <1>3 DEF Request, Stages
<1> HIDE DEF q
<1>5. RequestOK(q)
  BY <1>1, <1>2, <1>3, <1>4 DEF RequestOK, OnMemo, Parts, Deleting
<1>6. Turns(w, q)
  BY <1>3, <1>5, TurnOK
<1> QED
  BY <1>2, <1>4, <1>6 DEF Batches, at, r

LEMMA BatchEffect ==
    ASSUME MemosTypes, NEW w \in Workers, BatchRows(w)
    PROVE  Batches(w, request[w].drop)
<1> DEFINE r == request[w]
           at == IF r.drop = {} THEN "idle" ELSE "unlink"
<1>1. r \in Request /\ r.at = "batch" /\ Do(w, [r EXCEPT !.at = at])
  BY DEF MemosTypes, BatchRows, At
<1>2. r.drop \in SUBSET AttachmentIds
  BY <1>1 DEF Request
<1>3. [r EXCEPT !.at = at] = [r EXCEPT !.at = at, !.drop = r.drop]
  BY ONLY <1>1 DEF Request
<1>4. Do(w, [r EXCEPT !.at = at, !.drop = r.drop])
  BY <1>1, <1>3
<1> QED
  BY <1>1, <1>2, <1>4, LeftEffect

LEMMA UnlinkEffect ==
    ASSUME MemosTypes, NEW w \in Workers, NEW a \in AttachmentIds, BatchUnlink(w, a)
    PROVE  Batches(w, request[w].drop \ {a})
<1> DEFINE r == request[w]
           left == r.drop \ {a}
           at == IF left = {} THEN "idle" ELSE "unlink"
<1>1. /\ r \in Request /\ r.at = "unlink"
      /\ Do(w, [r EXCEPT !.drop = left, !.at = IF left = {} THEN "idle" ELSE @])
  BY DEF MemosTypes, BatchUnlink, At
<1>2. left \in SUBSET AttachmentIds
  BY <1>1 DEF Request
<1>3. [r EXCEPT !.drop = left, !.at = IF left = {} THEN "idle" ELSE @]
      = [r EXCEPT !.at = at, !.drop = left]
  BY ONLY <1>1 DEF Request
<1>4. Do(w, [r EXCEPT !.at = at, !.drop = left])
  BY <1>1, <1>3
<1> QED
  BY <1>1, <1>2, <1>4, LeftEffect

\* Nothing but the stage of a request changes when its comment was found, when
\* relations to a memo are cut.
LEMMA FindCommentEffect ==
    ASSUME MemosTypes, NEW w \in Workers, FindComment(w), request[w].memo \in memos
    PROVE  \E q : Turns(w, q) /\ q.at = "tie" /\ Carries(q, request[w])
<1> DEFINE r == request[w]
           q == [r EXCEPT !.at = "tie"]
<1>1. RequestOK(r) /\ r.at = "comment" /\ Do(w, q)
  BY DEF MemosTypes, FindComment, At
<1> HIDE DEF r
<1>2. /\ q \in Request /\ q.at = "tie" /\ q.plan = r.plan /\ q.one = r.one /\ Carries(q, r)
  BY <1>1 DEF RequestOK, Request, Stages, Carries
<1> HIDE DEF q
<1>3. RequestOK(q)
  BY <1>1, <1>2 DEF RequestOK, Carries, OnMemo, Parts, Deleting
<1> QED
  BY <1>1, <1>2, <1>3, TurnOK DEF r

LEMMA SeverToEffect ==
    ASSUME MemosTypes, NEW w \in Workers, SeverTo(w)
    PROVE  \E q : /\ Turns(w, q) /\ q.at = "list" /\ Carries(q, request[w])
                  /\ request[w].then = "row"
<1> DEFINE r == request[w]
           q == [r EXCEPT !.at = "list"]
<1>1. RequestOK(r) /\ r.at = "severTo" /\ Do(w, q)
  BY DEF MemosTypes, SeverTo, At
<1> HIDE DEF r
<1>2. /\ q \in Request /\ q.at = "list" /\ q.plan = r.plan /\ q.one = r.one /\ Carries(q, r)
  BY <1>1 DEF RequestOK, Request, Stages, Deleting, Carries
<1> HIDE DEF q
<1>3. RequestOK(q) /\ r.then = "row"
  BY <1>1, <1>2 DEF RequestOK, Carries, OnMemo, Parts, Deleting
<1> QED
  BY <1>1, <1>2, <1>3, TurnOK DEF r

LEMMA RelateEffect ==
    ASSUME MemosTypes, NEW w \in Workers, Relate(w)
    PROVE  \E q : /\ Turns(w, q) /\ request[w].memo # None
                  /\ \/ q.at = "idle"
                     \/ q.at \in Parts \cup {"refer"} /\ Carries(q, request[w])
<1> DEFINE r == request[w]
           q == AfterRefer(r)
<1>1. RequestOK(r) /\ r.at = "relate" /\ Do(w, q)
  BY DEF MemosTypes, Relate, At
<1> HIDE DEF r
<1>2. Ready(r) /\ r.memo # None /\ r.then # "row"
  BY <1>1 DEF RequestOK, Ready, OnMemo, Parts, Deleting
<1>3. \/ q = Idle
      \/ RequestOK(q) /\ Carries(q, r) /\ q.at \in Parts \cup {"refer"}
  BY ONLY <1>2, AfterReferOK
<1>4. q = Idle => q.at = "idle"
  BY DEF Idle
<1> HIDE DEF q
<1>5. Turns(w, q)
  BY <1>1, <1>3, <1>4, TurnOK
<1> QED
  BY <1>2, <1>3, <1>4, <1>5 DEF r

LEMMA ReferEffect ==
    ASSUME MemosTypes, NEW w \in Workers, NEW m \in MemoIds, Refer(w, m), m \in memos
    PROVE  \E q : /\ Turns(w, q) /\ q.at = "insert" /\ q.other = m /\ q.memo = request[w].memo
                  /\ q.parent = request[w].parent /\ q.then = request[w].then
                  /\ q.victims = request[w].victims
<1> DEFINE r == request[w]
           q == [r EXCEPT !.at = "insert", !.other = m]
<1>1. RequestOK(r) /\ r.at = "refer" /\ Do(w, q) /\ m # None
  BY MemosConstants DEF MemosConstants, MemosTypes, Refer, At
<1> HIDE DEF r
<1>2. /\ q \in Request /\ q.at = "insert" /\ q.plan = r.plan /\ q.one = r.one /\ q.other = m
      /\ q.memo = r.memo /\ q.parent = r.parent /\ q.then = r.then /\ q.victims = r.victims
  BY <1>1 DEF RequestOK, Request, Stages
<1> HIDE DEF q
<1>3. RequestOK(q)
  BY <1>1, <1>2 DEF RequestOK, OnMemo, Parts, Deleting
<1> QED
  BY <1>1, <1>2, <1>3, TurnOK DEF r

LEMMA InsertReferenceEffect ==
    ASSUME MemosTypes, NEW w \in Workers, InsertReference(w)
    PROVE  \E q : /\ Turns(w, q) /\ request[w].memo # None /\ request[w].other # None
                  /\ \/ q.at = "idle"
                     \/ /\ q.at \in Parts \cup {"refer"} /\ q.memo = request[w].memo
                        /\ q.parent = request[w].parent /\ q.then = request[w].then
                        /\ q.victims = request[w].victims /\ q.other = None
<1> DEFINE r == request[w]
           s == [r EXCEPT !.refs = @ \ {r.other}, !.other = None]
           q == AfterRefer(s)
<1>1. RequestOK(r) /\ r.at = "insert" /\ Do(w, q)
  BY DEF MemosTypes, InsertReference, At
<1> HIDE DEF r
<1>2. /\ s \in Request /\ s.memo = r.memo /\ s.parent = r.parent /\ s.other = None
      /\ s.then = r.then /\ s.victims = r.victims /\ s.plan = r.plan /\ s.one = r.one
  <2>1. r.refs \ {r.other} \in SUBSET MemoIds
    BY <1>1 DEF RequestOK, Request
  <2> QED
    BY <1>1, <2>1 DEF RequestOK, Request
<1> HIDE DEF s
<1>3. Ready(s) /\ s.memo # None /\ s.then # "row" /\ r.other # None
  BY <1>1, <1>2 DEF RequestOK, Ready, OnMemo, Parts, Deleting
<1>4. \/ q = Idle
      \/ RequestOK(q) /\ Carries(q, s) /\ q.at \in Parts \cup {"refer"}
  BY ONLY <1>3, AfterReferOK
<1>5. q = Idle => q.at = "idle"
  BY DEF Idle
<1> HIDE DEF q
<1>6. Turns(w, q)
  BY <1>1, <1>4, <1>5, TurnOK
<1> QED
  BY <1>2, <1>3, <1>4, <1>5, <1>6 DEF r, Carries

\* The deletion of a memo.
LEMMA ListCommentsEffect ==
    ASSUME MemosTypes, NEW w \in Workers, ListComments(w)
    PROVE  \E q : /\ Turns(w, q) /\ q.at = "sever" /\ q.memo = request[w].memo
                  /\ q.parent = request[w].parent /\ q.other = request[w].other
                  /\ q.then = request[w].then /\ q.victims \subseteq used
<1> DEFINE r == request[w]
           v == {i.memo : i \in {j \in relations : j.related = r.memo /\ j.type = "COMMENT"}}
           q == [r EXCEPT !.at = "sever", !.victims = v]
<1>1. RequestOK(r) /\ r.at = "comments" /\ Do(w, q)
  BY DEF MemosTypes, ListComments, At
<1>2. v \subseteq used /\ v \in SUBSET MemoIds
  BY DEF MemosTypes
<1> HIDE DEF r, v
<1>3. /\ q \in Request /\ q.at = "sever" /\ q.plan = r.plan /\ q.one = r.one /\ q.other = r.other
      /\ q.memo = r.memo /\ q.parent = r.parent /\ q.then = r.then /\ q.victims = v
  BY <1>1, <1>2 DEF RequestOK, Request, Stages
<1> HIDE DEF q
<1>4. RequestOK(q)
  BY <1>1, <1>3 DEF RequestOK, OnMemo, Parts, Deleting
<1> QED
  BY <1>1, <1>2, <1>3, <1>4, TurnOK DEF r

LEMMA SeverEffect ==
    ASSUME MemosTypes, NEW w \in Workers, NEW m \in MemoIds, Sever(w, m)
    PROVE  \E q : /\ Turns(w, q) /\ q.at = "severTo" /\ q.memo = request[w].memo
                  /\ q.parent = request[w].parent /\ q.other = m
                  /\ q.then = "row" /\ q.victims = request[w].victims /\ m \in used
<1> DEFINE r == request[w]
           q == [r EXCEPT !.at = "severTo", !.other = m, !.then = "row"]
<1>1. RequestOK(r) /\ Knows(r, used) /\ r.at = "sever" /\ Do(w, q) /\ m # None
  BY MemosConstants DEF MemosConstants, MemosTypes, Sever, At
<1>2. m \in {r.memo} \cup r.victims
  BY DEF Sever
<1> HIDE DEF r
<1>3. /\ q \in Request /\ q.at = "severTo" /\ q.plan = r.plan /\ q.one = r.one /\ q.other = m
      /\ q.memo = r.memo /\ q.parent = r.parent /\ q.then = "row" /\ q.victims = r.victims
  BY <1>1 DEF RequestOK, Request, Stages, Deleting
<1> HIDE DEF q
<1>4. RequestOK(q) /\ m \in used
  BY <1>1, <1>2, <1>3 DEF RequestOK, Knows, OnMemo, Parts, Deleting
<1> QED
  BY <1>1, <1>3, <1>4, TurnOK DEF r

LEMMA ListForDeletionEffect ==
    ASSUME MemosTypes, NEW w \in Workers, ListForDeletion(w)
    PROVE  \E q, s : /\ Turns(w, q) /\ Drops(q, s) /\ s.drop \in Listings(request[w].other)
                     /\ s.memo = request[w].memo /\ s.parent = request[w].parent
                     /\ s.other = request[w].other /\ s.then = "row" /\ request[w].then = "row"
                     /\ s.victims = request[w].victims
<1> DEFINE r == request[w]
<1>1. PICK all \in Listings(r.other) : Do(w, AfterDrop([r EXCEPT !.drop = all]))
  BY DEF ListForDeletion
<1> DEFINE s == [r EXCEPT !.drop = all]
           q == AfterDrop(s)
<1>2. /\ RequestOK(r) /\ r.at = "list" /\ Do(w, q)
  BY <1>1 DEF MemosTypes, ListForDeletion, At
<1>3. all \in SUBSET AttachmentIds
  BY DEF Listings, MemosTypes
<1> HIDE DEF r
<1>4. /\ s \in Request /\ s.memo = r.memo /\ s.parent = r.parent /\ s.other = r.other
      /\ s.then = r.then /\ s.victims = r.victims /\ s.plan = r.plan /\ s.one = r.one
      /\ s.drop = all
  BY <1>2, <1>3 DEF RequestOK, Request
<1> HIDE DEF s
<1>5. Ready(s) /\ s.then = "row" /\ s.other # None
  BY <1>2, <1>4 DEF RequestOK, Ready, Deleting
<1>6. \/ q.at = "idle" /\ s.then # "row"
      \/ /\ RequestOK(q) /\ Carries(q, s)
         /\ \/ q.at = "drop"
            \/ q.at \in Parts \cup {"keep"} /\ s.then = "keep"
            \/ q.at = "row" /\ s.then = "row" /\ s.drop = {}
  BY <1>5, AfterDropOK
<1> HIDE DEF q
<1>7. Turns(w, q) /\ Drops(q, s)
  BY <1>2, <1>6, TurnOK DEF Drops
<1> QED
  BY <1>4, <1>5, <1>7 DEF r

LEMMA DeleteRowEffect ==
    ASSUME MemosTypes, NEW w \in Workers, DeleteRow(w)
    PROVE  \E q : /\ Turns(w, q) /\ request[w].then = "row" /\ request[w].other # None
                  /\ \/ q.at = "idle"
                     \/ /\ q.at = "sever" /\ q.memo = request[w].memo /\ q.other = None
                        /\ request[w].other # request[w].memo
                        /\ q.parent = request[w].parent
                        /\ q.victims \subseteq request[w].victims
<1> DEFINE r == request[w]
           v == r.victims \ {r.other}
           s == [r EXCEPT !.at = "sever", !.victims = v, !.other = None]
<1>1. /\ RequestOK(r) /\ r.at = "row"
      /\ Do(w, IF r.other = r.memo THEN Idle ELSE s)
  BY DEF MemosTypes, DeleteRow, At
<1>2. r.then = "row" /\ r.other # None /\ v \in SUBSET MemoIds /\ v \subseteq r.victims
  BY <1>1 DEF RequestOK, Request, Deleting
<1> HIDE DEF r, v
<1>3. /\ s \in Request /\ s.at = "sever" /\ s.plan = r.plan /\ s.one = r.one /\ s.other = None
      /\ s.memo = r.memo /\ s.parent = r.parent /\ s.then = r.then /\ s.victims = v
  BY <1>1, <1>2 DEF RequestOK, Request, Stages
<1> HIDE DEF s
<1>4. RequestOK(s)
  BY <1>1, <1>2, <1>3 DEF RequestOK, OnMemo, Parts, Deleting
<1>5. CASE r.other = r.memo
  <2>1. Turns(w, Idle)
    BY <1>1, <1>5, IdleEffect
  <2>2. Idle.at = "idle"
    BY DEF Idle
  <2> QED
    BY <1>2, <2>1, <2>2 DEF r
<1>6. CASE r.other # r.memo
  BY <1>1, <1>2, <1>3, <1>4, <1>6, TurnOK DEF r
<1> QED
  BY <1>5, <1>6

-----------------------------------------------------------------------------
(* Type correctness *)

\* What is left to show of a step once its request was followed.
RowTypes ==
    /\ memos \subseteq used /\ used \subseteq MemoIds
    /\ relations \subseteq Relation
    /\ \A i \in relations : i.memo \in used /\ i.related \in used
    /\ attachments \subseteq AttachmentIds /\ files \subseteq AttachmentIds
    /\ memoOf \in [AttachmentIds -> used \cup {None}]
    /\ \A a \in AttachmentIds \ attachments : memoOf[a] = None
    /\ commentOf \in [MemoIds -> used \cup {None}]
    /\ \A m \in MemoIds \ used : commentOf[m] = None
    /\ aborted \subseteq MemoIds /\ overlapped \in BOOLEAN

LEMMA TypesKept ==
    ASSUME MemosTypes, NEW w \in Workers, NEW q, Turns(w, q), RowTypes', used \subseteq used',
           q.at = "idle" \/ Knows(q, used')
    PROVE  MemosTypes'
<1>1. Knows(request'[w], used')
  BY IdleOK DEF Turns, After
<1>2. \A x \in Workers \ {w} : RequestOK(request'[x]) /\ Knows(request'[x], used')
  BY DEF Turns, MemosTypes, Knows
<1> QED
  BY <1>1, <1>2 DEF MemosTypes, RowTypes, Turns

LEMMA InitMemosTypes == MemosInit => MemosTypes
<1> SUFFICES ASSUME MemosInit PROVE MemosTypes
  OBVIOUS
<1>1. request \in [Workers -> Request]
      /\ \A w \in Workers : RequestOK(request[w]) /\ Knows(request[w], used)
  BY IdleOK DEF MemosInit, RequestOK
<1> QED
  BY <1>1 DEF MemosInit, MemosTypes

LEMMA RequestsTypes ==
    ASSUME MemosTypes, NEW w \in Workers, Requests(w)
    PROVE  MemosTypes'
<1>1. PICK q : /\ Turns(w, q)
               /\ q.other = None /\ q.victims = {}
               /\ q.memo \in memos \cup {None} /\ q.parent \in memos \cup {None}
               /\ UNCHANGED <<rows, files, errors, commentOf, aborted, split>>
               /\ overlapped' = (overlapped \/ \E x \in Workers : ~At(x, "idle"))
  BY RequestsEffect
<1>2. RowTypes'
  BY <1>1 DEF rows, MemosTypes, RowTypes
<1>3. Knows(q, used') /\ used' = used
  BY <1>1 DEF rows, MemosTypes, Knows
<1> QED
  BY <1>1, <1>2, <1>3, TypesKept

LEMMA AbortTypes ==
    ASSUME MemosTypes, NEW w \in Workers, Abort(w), UNCHANGED rows, files' = files
    PROVE  MemosTypes' /\ Turns(w, Idle)
<1>1. Turns(w, Idle)
  BY IdleEffect DEF Abort
<1>2. RowTypes'
  BY DEF Abort, rows, MemosTypes, RowTypes
<1> QED
  BY <1>1, <1>2, TypesKept DEF Idle, rows

LEMMA MemoStepTypes ==
    ASSUME MemosTypes, NEW w \in Workers, MemoStep(w)
    PROVE  MemosTypes'
<1> USE DEF rows, history
<1> DEFINE r == request[w]
<1>0. Knows(r, used) /\ RequestOK(r) /\ RowTypes
  BY DEF MemosTypes, RowTypes
<1>1. ASSUME NEW m \in MemoIds, InsertMemo(w, m) PROVE MemosTypes'
  <2>1. PICK q : /\ Turns(w, q)
                 /\ \/ q.at = "idle"
                    \/ /\ q.memo = m /\ q.parent = r.parent /\ q.other = r.other
                       /\ q.victims = r.victims
    BY <1>1, InsertMemoEffect
  <2>2. RowTypes' /\ used' = used \cup {m}
    BY <1>0, <1>1 DEF InsertMemo, RowTypes
  <2>3. q.at = "idle" \/ Knows(q, used')
    BY <1>0, <2>1, <2>2 DEF Knows
  <2> QED
    BY <2>1, <2>2, <2>3, TypesKept
<1>2. ASSUME NEW m \in MemoIds, Refer(w, m) PROVE MemosTypes'
  <2>1. CASE m \in memos
    <3>1. PICK q : /\ Turns(w, q) /\ q.other = m /\ q.memo = r.memo
                   /\ q.parent = r.parent /\ q.victims = r.victims
      BY <1>2, <2>1, ReferEffect
    <3>2. RowTypes' /\ used' = used
      BY <1>0, <1>2, <2>1 DEF Refer, RowTypes
    <3>3. Knows(q, used')
      BY <1>0, <2>1, <3>1, <3>2 DEF Knows, RowTypes
    <3> QED
      BY <3>1, <3>2, <3>3, TypesKept
  <2>2. CASE m \notin memos
    BY <1>2, <2>2, AbortTypes DEF Refer
  <2> QED
    BY <2>1, <2>2
<1>3. ASSUME NEW m \in MemoIds, Sever(w, m) PROVE MemosTypes'
  <2>1. PICK q : /\ Turns(w, q) /\ q.other = m /\ q.memo = r.memo /\ m \in used
                 /\ q.parent = r.parent /\ q.victims = r.victims
    BY <1>3, SeverEffect
  <2>2. RowTypes' /\ used' = used
    BY <1>0, <1>3 DEF Sever, RowTypes
  <2>3. Knows(q, used')
    BY <1>0, <2>1, <2>2 DEF Knows
  <2> QED
    BY <2>1, <2>2, <2>3, TypesKept
<1>4. CASE FindComment(w)
  <2>1. CASE r.memo \in memos
    <3>1. PICK q : Turns(w, q) /\ Carries(q, r)
      BY <1>4, <2>1, FindCommentEffect
    <3>2. RowTypes' /\ used' = used
      BY <1>0, <1>4, <2>1 DEF FindComment, RowTypes
    <3>3. Knows(q, used')
      BY <1>0, <3>1, <3>2 DEF Knows, Carries
    <3> QED
      BY <3>1, <3>2, <3>3, TypesKept
  <2>2. CASE r.memo \notin memos
    BY <1>4, <2>2, AbortTypes DEF FindComment
  <2> QED
    BY <2>1, <2>2
<1>5. CASE Tie(w)
  <2>1. Turns(w, Idle) /\ Idle.at = "idle"
    BY <1>5, IdleEffect DEF Tie, Idle
  <2>2. r.memo \in used /\ r.parent \in used
    BY <1>0, <1>5 DEF Tie, At, RequestOK, Knows, OnMemo, Parts
  <2>3. [memo |-> r.memo, related |-> r.parent, type |-> "COMMENT"] \in Relation
    BY <1>0, <2>2 DEF RowTypes, Relation
  <2>4. RowTypes' /\ used' = used
    BY <1>0, <1>5, <2>2, <2>3 DEF Tie, RowTypes
  <2> QED
    BY <2>1, <2>4, TypesKept
<1>6. CASE Relate(w)
  <2>1. PICK q : Turns(w, q) /\ (q.at = "idle" \/ Carries(q, r))
    BY <1>6, RelateEffect
  <2>2. RowTypes' /\ used' = used
    BY <1>0, <1>6 DEF Relate, RowTypes
  <2>3. q.at = "idle" \/ Knows(q, used')
    BY <1>0, <2>1, <2>2 DEF Knows, Carries
  <2> QED
    BY <2>1, <2>2, <2>3, TypesKept
<1>7. CASE InsertReference(w)
  <2>1. PICK q : /\ Turns(w, q) /\ r.memo # None /\ r.other # None
                 /\ \/ q.at = "idle"
                    \/ /\ q.memo = r.memo /\ q.parent = r.parent
                       /\ q.victims = r.victims /\ q.other = None
    BY <1>7, InsertReferenceEffect
  <2>2. r.memo \in used /\ r.other \in used
    BY <1>0, <2>1 DEF Knows
  <2>3. [memo |-> r.memo, related |-> r.other, type |-> "REFERENCE"] \in Relation
    BY <1>0, <2>2 DEF RowTypes, Relation
  <2>4. RowTypes' /\ used' = used
    BY <1>0, <1>7, <2>2, <2>3 DEF InsertReference, RowTypes
  <2>5. q.at = "idle" \/ Knows(q, used')
    BY <1>0, <2>1, <2>4 DEF Knows
  <2> QED
    BY <2>1, <2>4, <2>5, TypesKept
<1>8. CASE ListComments(w)
  <2>1. PICK q : /\ Turns(w, q) /\ q.memo = r.memo /\ q.parent = r.parent /\ q.other = r.other
                 /\ q.victims \subseteq used
    BY <1>8, ListCommentsEffect
  <2>2. RowTypes' /\ used' = used
    BY <1>0, <1>8 DEF ListComments, RowTypes
  <2>3. Knows(q, used')
    BY <1>0, <2>1, <2>2 DEF Knows
  <2> QED
    BY <2>1, <2>2, <2>3, TypesKept
<1>9. CASE SeverTo(w)
  <2>1. PICK q : Turns(w, q) /\ Carries(q, r)
    BY <1>9, SeverToEffect
  <2>2. RowTypes' /\ used' = used
    BY <1>0, <1>9 DEF SeverTo, RowTypes
  <2>3. Knows(q, used')
    BY <1>0, <2>1, <2>2 DEF Knows, Carries
  <2> QED
    BY <2>1, <2>2, <2>3, TypesKept
<1>10. CASE ListForDeletion(w)
  <2>1. PICK q, s : /\ Turns(w, q) /\ Drops(q, s) /\ s.memo = r.memo /\ s.parent = r.parent
                    /\ s.other = r.other /\ s.victims = r.victims
    BY <1>10, ListForDeletionEffect
  <2>2. RowTypes' /\ used' = used
    BY <1>0, <1>10 DEF ListForDeletion, RowTypes
  <2>3. q.at = "idle" \/ Knows(q, used')
    BY <1>0, <2>1, <2>2 DEF Knows, Drops, Carries
  <2> QED
    BY <2>1, <2>2, <2>3, TypesKept
<1>11. CASE DeleteRow(w)
  <2>1. PICK q : /\ Turns(w, q)
                 /\ \/ q.at = "idle"
                    \/ /\ q.memo = r.memo /\ q.other = None /\ q.parent = r.parent
                       /\ q.victims \subseteq r.victims
    BY <1>11, DeleteRowEffect
  <2>2. RowTypes' /\ used' = used
    BY <1>0, <1>11 DEF DeleteRow, RowTypes
  <2>3. q.at = "idle" \/ Knows(q, used')
    BY <1>0, <2>1, <2>2 DEF Knows
  <2> QED
    BY <2>1, <2>2, <2>3, TypesKept
<1> QED
  BY <1>1, <1>2, <1>3, <1>4, <1>5, <1>6, <1>7, <1>8, <1>9, <1>10, <1>11 DEF MemoStep

LEMMA AttachmentStepTypes ==
    ASSUME MemosTypes, NEW w \in Workers, AttachmentStep(w)
    PROVE  MemosTypes'
<1> USE DEF rows, history
<1> DEFINE r == request[w]
<1>0. Knows(r, used) /\ RequestOK(r) /\ RowTypes
  BY DEF MemosTypes, RowTypes
<1>1. ASSUME NEW a \in AttachmentIds, Keep(w, a) PROVE MemosTypes'
  <2>1. PICK q : Turns(w, q) /\ r.memo # None /\ (q.at = "idle" \/ Carries(q, r))
    BY <1>1, KeepEffect
  <2>2. r.memo \in used
    BY <1>0, <2>1 DEF Knows
  <2>3. RowTypes' /\ used' = used
    BY <1>0, <1>1, <2>2 DEF Keep, RowTypes
  <2>4. q.at = "idle" \/ Knows(q, used')
    BY <1>0, <2>1, <2>3 DEF Knows, Carries
  <2> QED
    BY <2>1, <2>3, <2>4, TypesKept
<1>2. ASSUME NEW a \in AttachmentIds, Drop(w, a) PROVE MemosTypes'
  <2>1. CASE a \in attachments
    <3>1. PICK q : Turns(w, q) /\ Carries(q, r)
      BY <1>2, <2>1, DropEffect
    <3>2. RowTypes' /\ used' = used
      BY <1>0, <1>2, <2>1 DEF Drop, RowTypes
    <3>3. Knows(q, used')
      BY <1>0, <3>1, <3>2 DEF Knows, Carries
    <3> QED
      BY <3>1, <3>2, <3>3, TypesKept
  <2>2. CASE a \notin attachments
    BY <1>2, <2>2, AbortTypes DEF Drop
  <2> QED
    BY <2>1, <2>2
<1>3. ASSUME NEW left, Batches(w, left), RowTypes', used' = used PROVE MemosTypes'
  <2>1. PICK q : /\ Turns(w, q) /\ q.memo = r.memo /\ q.parent = r.parent
                 /\ q.other = r.other /\ q.victims = r.victims
    BY <1>3 DEF Batches
  <2>2. Knows(q, used')
    BY <1>0, <1>3, <2>1 DEF Knows
  <2> QED
    BY <1>3, <2>1, <2>2, TypesKept
<1>4. ASSUME NEW a \in AttachmentIds, BatchUnlink(w, a) PROVE MemosTypes'
  <2>1. RowTypes' /\ used' = used
    BY <1>0, <1>4 DEF BatchUnlink, RowTypes
  <2> QED
    BY <1>3, <1>4, <2>1, UnlinkEffect
<1>5. CASE BatchRows(w)
  <2>1. RowTypes' /\ used' = used
    BY <1>0, <1>5 DEF BatchRows, RowTypes
  <2> QED
    BY <1>3, <1>5, <2>1, BatchEffect
<1>6. CASE ListCurrent(w)
  <2>1. CASE Abort(w)
    BY <1>6, <2>1, AbortTypes DEF ListCurrent
  <2>2. CASE ~Abort(w)
    <3>1. PICK q : /\ Turns(w, q) /\ UNCHANGED history
                   /\ \/ q.at = "idle"
                      \/ /\ q.memo = r.memo /\ q.parent = r.parent /\ q.other = r.other
                         /\ q.victims = r.victims
      BY <1>6, <2>2, ListCurrentEffect
    <3>2. RowTypes' /\ used' = used
      BY <1>0, <1>6, <3>1 DEF ListCurrent, RowTypes
    <3>3. q.at = "idle" \/ Knows(q, used')
      BY <1>0, <3>1, <3>2 DEF Knows
    <3> QED
      BY <3>1, <3>2, <3>3, TypesKept
  <2> QED
    BY <2>1, <2>2
<1>7. CASE DropRow(w)
  <2>1. PICK q, s : /\ Turns(w, q) /\ Drops(q, s) /\ s.memo = r.memo /\ s.parent = r.parent
                    /\ s.other = r.other /\ s.victims = r.victims /\ r.one \in AttachmentIds
    BY <1>7, DropRowEffect
  <2>2. RowTypes' /\ used' = used
    BY <1>0, <1>7, <2>1 DEF DropRow, RowTypes
  <2>3. q.at = "idle" \/ Knows(q, used')
    BY <1>0, <2>1, <2>2 DEF Knows, Drops, Carries
  <2> QED
    BY <2>1, <2>2, <2>3, TypesKept
<1> QED
  BY <1>1, <1>2, <1>4, <1>5, <1>6, <1>7 DEF AttachmentStep

LEMMA NextMemosTypes == MemosTypes /\ [MemosNext]_memosVars => MemosTypes'
<1> SUFFICES ASSUME MemosTypes, [MemosNext]_memosVars PROVE MemosTypes'
  OBVIOUS
<1>1. ASSUME NEW w \in Workers, Fail(w) PROVE MemosTypes'
  BY <1>1, AbortTypes DEF Fail
<1>2. CASE UNCHANGED memosVars
  BY <1>2 DEF memosVars, rows, bounds, history, MemosTypes
<1> QED
  BY <1>1, <1>2, RequestsTypes, MemoStepTypes, AttachmentStepTypes DEF MemosNext

\* Every handler respects the types of the rows and of the requests.
THEOREM MemosTypeCorrect == MemosSpec => []MemosTypes
BY InitMemosTypes, NextMemosTypes, PTL DEF MemosSpec

-----------------------------------------------------------------------------
(* Files *)

\* FilesMatchRows, and why a request that is about to catch up does: the file of
\* the row it deletes is gone, and so are the rows of the files it deletes.
FilesKnown ==
    /\ FilesMatchRows
    /\ \A w \in Workers : At(w, "dropRow") => request[w].one \notin files
    /\ \A w \in Workers : At(w, "unlink") => request[w].drop \cap attachments = {}

\* A step that neither deletes rows nor files, nor is about to.
LEMMA FilesStay ==
    ASSUME MemosTypes, FilesKnown, NEW w \in Workers, NEW q, Turns(w, q),
           attachments' = attachments, files' = files, split \subseteq split',
           request[w].at \notin {"dropRow", "unlink"}, q.at \notin {"dropRow", "unlink"}
    PROVE  FilesKnown'
<1>1. request'[w].at \notin {"dropRow", "unlink"}
  BY DEF Turns, After, Idle
<1>2. \A x \in Workers : /\ request'[x].at = "dropRow" <=> request[x].at = "dropRow"
                         /\ request'[x].at = "unlink" <=> request[x].at = "unlink"
                         /\ x # w => request'[x] = request[x]
  BY <1>1 DEF Turns
<1>3. request[w].one = None
  BY DEF MemosTypes, RequestOK
<1>4. /\ \A x \in Workers : At(x, "dropRow")' => request'[x].one \notin files
      /\ \A x \in Workers : At(x, "unlink")' => request'[x].drop \cap attachments = {}
  BY <1>1, <1>2 DEF FilesKnown, At
<1>5. ASSUME NEW a \in AttachmentIds
      PROVE  \/ a \in attachments <=> a \in files
             \/ a \in split'
             \/ \E x \in Workers : request'[x].one = a
             \/ \E x \in Workers : request'[x].at = "unlink" /\ a \in request'[x].drop
  <2>1. \/ a \in attachments <=> a \in files
        \/ a \in split
        \/ \E x \in Workers : request[x].one = a
        \/ \E x \in Workers : request[x].at = "unlink" /\ a \in request[x].drop
    BY DEF FilesKnown, FilesMatchRows, HalfGone, At
  <2>2. a # None
    BY MemosConstants DEF MemosConstants
  <2> QED
    BY <1>2, <1>3, <2>1, <2>2
<1> QED
  BY <1>1, <1>2, <1>4, <1>5 DEF FilesKnown, FilesMatchRows, HalfGone, At

\* The calls that delete a row, a file, or all rows of a batch.
LEMMA DropFiles ==
    ASSUME MemosTypes, FilesKnown, NEW w \in Workers, NEW a \in AttachmentIds, Drop(w, a)
    PROVE  FilesKnown'
<1> USE DEF rows, bounds
<1>1. attachments' = attachments /\ At(w, "drop")
  BY DEF Drop
<1>2. CASE a \in attachments
  <2>1. PICK q : Turns(w, q) /\ q.at = "dropRow" /\ q.one = a
    BY <1>2, DropEffect
  <2>2. /\ request'[w].at = "dropRow" /\ request'[w].one = a
        /\ \A x \in Workers \ {w} : request'[x] = request[x]
    BY <2>1 DEF Turns, After
  <2>3. files' = files \ {a} /\ split' = split
    BY <1>2 DEF Drop, history
  <2>4. request[w].one = None /\ a # None
    BY <1>1, MemosConstants DEF MemosTypes, RequestOK, At, MemosConstants
  <2>5. ASSUME NEW b \in AttachmentIds
        PROVE  \/ b \in attachments <=> b \in files'
               \/ b \in split'
               \/ \E x \in Workers : request'[x].one = b
               \/ \E x \in Workers : request'[x].at = "unlink" /\ b \in request'[x].drop
    <3>1. \/ b \in attachments <=> b \in files
          \/ b \in split
          \/ \E x \in Workers : request[x].one = b
          \/ \E x \in Workers : request[x].at = "unlink" /\ b \in request[x].drop
      BY DEF FilesKnown, FilesMatchRows, HalfGone, At
    <3>2. b # None
      BY MemosConstants DEF MemosConstants
    <3> QED
      BY <1>1, <2>2, <2>3, <2>4, <3>1, <3>2 DEF At
  <2>6. \A x \in Workers : request'[x].at = "dropRow" => request'[x].one \notin files'
    BY <2>2, <2>3 DEF FilesKnown, At
  <2>7. \A x \in Workers : request'[x].at = "unlink" =>
            request'[x].drop \cap attachments = {}
    BY <2>2 DEF FilesKnown, At
  <2> QED
    BY <1>1, <2>5, <2>6, <2>7 DEF FilesKnown, FilesMatchRows, HalfGone, At
<1>3. CASE a \notin attachments
  <2>1. Turns(w, Idle) /\ Idle.at = "idle" /\ files' = files /\ split \subseteq split'
    BY <1>3, IdleEffect DEF Drop, Abort, Idle
  <2> QED
    BY <1>1, <2>1, FilesStay DEF At
<1> QED
  BY <1>2, <1>3

LEMMA DropRowFiles ==
    ASSUME MemosTypes, FilesKnown, NEW w \in Workers, DropRow(w)
    PROVE  FilesKnown'
<1> USE DEF rows, bounds
<1> DEFINE a == request[w].one
<1>1. /\ attachments' = attachments \ {a} /\ files' = files /\ split' = split \ {a}
      /\ At(w, "dropRow")
  BY DEF DropRow
<1>2. PICK q, s : Turns(w, q) /\ Drops(q, s)
  BY DropRowEffect
<1>3. /\ request'[w].at \notin {"dropRow", "unlink"}
      /\ \A x \in Workers \ {w} : request'[x] = request[x]
  BY <1>2 DEF Turns, After, Drops, Parts, Idle
<1>4. ASSUME NEW b \in AttachmentIds
      PROVE  \/ b \in attachments' <=> b \in files
             \/ b \in split'
             \/ \E x \in Workers : request'[x].one = b
             \/ \E x \in Workers : request'[x].at = "unlink" /\ b \in request'[x].drop
  <2>1. \/ b \in attachments <=> b \in files
        \/ b \in split
        \/ \E x \in Workers : request[x].one = b
        \/ \E x \in Workers : request[x].at = "unlink" /\ b \in request[x].drop
    BY DEF FilesKnown, FilesMatchRows, HalfGone, At
  <2>2. a \notin files
    BY <1>1 DEF FilesKnown
  <2> QED
    BY <1>1, <1>3, <2>1, <2>2 DEF At
<1>5. \A x \in Workers : request'[x].at = "dropRow" => request'[x].one \notin files
  BY <1>3 DEF FilesKnown, At
<1>6. \A x \in Workers : request'[x].at = "unlink" =>
          request'[x].drop \cap attachments' = {}
  BY <1>1, <1>3 DEF FilesKnown, At
<1> QED
  BY <1>1, <1>4, <1>5, <1>6 DEF FilesKnown, FilesMatchRows, HalfGone, At

LEMMA BatchRowsFiles ==
    ASSUME MemosTypes, FilesKnown, NEW w \in Workers, BatchRows(w)
    PROVE  FilesKnown'
<1> USE DEF rows, bounds
<1> DEFINE s == request[w].drop
<1>1. /\ attachments' = attachments \ s /\ files' = files /\ split' = split
      /\ At(w, "batch")
  BY DEF BatchRows, history
<1>2. PICK q : Turns(w, q) /\ q.drop = s /\ q.at = IF s = {} THEN "idle" ELSE "unlink"
  BY BatchEffect DEF Batches
<1>3. /\ \/ request'[w].at = "unlink" /\ request'[w].drop = s
         \/ s = {} /\ request'[w].at = "idle"
      /\ \A x \in Workers \ {w} : request'[x] = request[x]
  BY <1>2 DEF Turns, After, Idle
<1>4. request[w].one = None
  BY <1>1 DEF MemosTypes, RequestOK, At
<1>5. ASSUME NEW b \in AttachmentIds
      PROVE  \/ b \in attachments' <=> b \in files
             \/ b \in split'
             \/ \E x \in Workers : request'[x].one = b
             \/ \E x \in Workers : request'[x].at = "unlink" /\ b \in request'[x].drop
  <2>1. \/ b \in attachments <=> b \in files
        \/ b \in split
        \/ \E x \in Workers : request[x].one = b
        \/ \E x \in Workers : request[x].at = "unlink" /\ b \in request[x].drop
    BY DEF FilesKnown, FilesMatchRows, HalfGone, At
  <2>2. b # None
    BY MemosConstants DEF MemosConstants
  <2> QED
    BY <1>1, <1>3, <1>4, <2>1, <2>2 DEF At
<1>6. \A x \in Workers : request'[x].at = "dropRow" => request'[x].one \notin files
  BY <1>3 DEF FilesKnown, At
<1>7. \A x \in Workers : request'[x].at = "unlink" =>
          request'[x].drop \cap attachments' = {}
  BY <1>1, <1>3 DEF FilesKnown, At
<1> QED
  BY <1>1, <1>5, <1>6, <1>7 DEF FilesKnown, FilesMatchRows, HalfGone, At

LEMMA BatchUnlinkFiles ==
    ASSUME MemosTypes, FilesKnown, NEW w \in Workers, NEW a \in AttachmentIds, BatchUnlink(w, a)
    PROVE  FilesKnown'
<1> USE DEF rows, bounds
<1> DEFINE left == request[w].drop \ {a}
<1>1. /\ attachments' = attachments /\ files' = files \ {a} /\ split' = split \ {a}
      /\ At(w, "unlink") /\ a \in request[w].drop
  BY DEF BatchUnlink
<1>2. PICK q : Turns(w, q) /\ q.drop = left /\ q.at = IF left = {} THEN "idle" ELSE "unlink"
  BY UnlinkEffect DEF Batches
<1>3. /\ \/ request'[w].at = "unlink" /\ request'[w].drop = left
         \/ left = {} /\ request'[w].at = "idle"
      /\ \A x \in Workers \ {w} : request'[x] = request[x]
  BY <1>2 DEF Turns, After, Idle
<1>4. request[w].one = None
  BY <1>1 DEF MemosTypes, RequestOK, At
<1>5. ASSUME NEW b \in AttachmentIds
      PROVE  \/ b \in attachments <=> b \in files'
             \/ b \in split'
             \/ \E x \in Workers : request'[x].one = b
             \/ \E x \in Workers : request'[x].at = "unlink" /\ b \in request'[x].drop
  <2>1. \/ b \in attachments <=> b \in files
        \/ b \in split
        \/ \E x \in Workers : request[x].one = b
        \/ \E x \in Workers : request[x].at = "unlink" /\ b \in request[x].drop
    BY DEF FilesKnown, FilesMatchRows, HalfGone, At
  <2>2. b # None
    BY MemosConstants DEF MemosConstants
  <2>3. a \notin attachments
    BY <1>1 DEF FilesKnown
  <2>4. CASE b = a
    BY <1>1, <2>3, <2>4
  <2>5. CASE b # a
    BY <1>1, <1>3, <1>4, <2>1, <2>2, <2>5 DEF At
  <2> QED
    BY <2>4, <2>5
<1>6. \A x \in Workers : request'[x].at = "dropRow" => request'[x].one \notin files'
  BY <1>1, <1>3 DEF FilesKnown, At
<1>7. \A x \in Workers : request'[x].at = "unlink" =>
          request'[x].drop \cap attachments = {}
  BY <1>1, <1>3 DEF FilesKnown, At
<1> QED
  BY <1>1, <1>5, <1>6, <1>7 DEF FilesKnown, FilesMatchRows, HalfGone, At

\* Every other call leaves rows and files of attachments alone.
LEMMA MemoStepFiles ==
    ASSUME MemosTypes, FilesKnown, NEW w \in Workers, MemoStep(w)
    PROVE  FilesKnown'
<1> USE DEF rows, bounds, At
<1> DEFINE Calm == Stages \ {"dropRow", "unlink"}
<1>1. attachments' = attachments /\ files' = files /\ split \subseteq split'
  BY DEF history, Abort, MemoStep, InsertMemo, Refer, Sever, FindComment, Tie, Relate, InsertReference,
         ListComments, SeverTo, ListForDeletion, DeleteRow
<1>2. request[w].at \notin {"dropRow", "unlink"}
  BY DEF MemoStep, InsertMemo, Refer, Sever, FindComment, Tie, Relate, InsertReference,
         ListComments, SeverTo, ListForDeletion, DeleteRow
<1> SUFFICES \E q : Turns(w, q) /\ q.at \in Calm
  BY <1>1, <1>2, FilesStay
<1>3. ASSUME Do(w, Idle) PROVE \E q : Turns(w, q) /\ q.at \in Calm
  <2>1. Turns(w, Idle)
    BY <1>3, IdleEffect
  <2>2. Idle.at \in Calm
    BY DEF Idle, Stages
  <2> QED
    BY <2>1, <2>2
<1>4. ASSUME NEW m \in MemoIds, InsertMemo(w, m) \/ Refer(w, m) \/ Sever(w, m)
      PROVE  \E q : Turns(w, q) /\ q.at \in Calm
  <2>1. CASE InsertMemo(w, m)
    <3>1. PICK q : Turns(w, q) /\ q.at \in Parts \cup {"idle"}
      BY <2>1, InsertMemoEffect
    <3>2. q.at \in Calm
      BY <3>1 DEF Stages, Parts, Deleting
    <3> QED
      BY <3>1, <3>2
  <2>2. CASE Refer(w, m) /\ m \in memos
    <3>1. PICK q : Turns(w, q) /\ q.at = "insert"
      BY <2>2, ReferEffect
    <3>2. q.at \in Calm
      BY <3>1 DEF Stages
    <3> QED
      BY <3>1, <3>2
  <2>3. CASE Refer(w, m) /\ m \notin memos
    BY <1>3, <2>3 DEF Refer, Abort
  <2>4. CASE Sever(w, m)
    <3>1. PICK q : Turns(w, q) /\ q.at = "severTo"
      BY <2>4, SeverEffect
    <3>2. q.at \in Calm
      BY <3>1 DEF Stages, Deleting
    <3> QED
      BY <3>1, <3>2
  <2> QED
    BY <1>4, <2>1, <2>2, <2>3, <2>4
<1>5. CASE FindComment(w)
  <2>1. CASE request[w].memo \in memos
    <3>1. PICK q : Turns(w, q) /\ q.at = "tie"
      BY <1>5, <2>1, FindCommentEffect
    <3>2. q.at \in Calm
      BY <3>1 DEF Stages
    <3> QED
      BY <3>1, <3>2
  <2>2. CASE request[w].memo \notin memos
    BY <1>3, <1>5, <2>2 DEF FindComment, Abort
  <2> QED
    BY <2>1, <2>2
<1>6. CASE Tie(w)
  BY <1>3, <1>6 DEF Tie
<1>7. CASE Relate(w)
  <2>1. PICK q : Turns(w, q) /\ q.at \in Parts \cup {"idle", "refer"}
    BY <1>7, RelateEffect
  <2>2. q.at \in Calm
    BY <2>1 DEF Stages, Parts, Deleting
  <2> QED
    BY <2>1, <2>2
<1>8. CASE InsertReference(w)
  <2>1. PICK q : Turns(w, q) /\ q.at \in Parts \cup {"idle", "refer"}
    BY <1>8, InsertReferenceEffect
  <2>2. q.at \in Calm
    BY <2>1 DEF Stages, Parts, Deleting
  <2> QED
    BY <2>1, <2>2
<1>9. CASE ListComments(w)
  <2>1. PICK q : Turns(w, q) /\ q.at = "sever"
    BY <1>9, ListCommentsEffect
  <2>2. q.at \in Calm
    BY <2>1 DEF Stages, Parts, Deleting
  <2> QED
    BY <2>1, <2>2
<1>10. CASE SeverTo(w)
  <2>1. PICK q : Turns(w, q) /\ q.at = "list"
    BY <1>10, SeverToEffect
  <2>2. q.at \in Calm
    BY <2>1 DEF Stages, Parts, Deleting
  <2> QED
    BY <2>1, <2>2
<1>11. CASE ListForDeletion(w)
  <2>1. PICK q : Turns(w, q) /\ q.at \in Parts \cup {"idle", "drop", "keep", "row"}
    BY <1>11, ListForDeletionEffect DEF Drops
  <2>2. q.at \in Calm
    BY <2>1 DEF Stages, Parts, Deleting
  <2> QED
    BY <2>1, <2>2
<1>12. CASE DeleteRow(w)
  <2>1. PICK q : Turns(w, q) /\ q.at \in {"idle", "sever"}
    BY <1>12, DeleteRowEffect
  <2>2. q.at \in Calm
    BY <2>1 DEF Stages, Parts, Deleting
  <2> QED
    BY <2>1, <2>2
<1> QED
  BY <1>4, <1>5, <1>6, <1>7, <1>8, <1>9, <1>10, <1>11, <1>12 DEF MemoStep

LEMMA NextFiles ==
    ASSUME MemosTypes, FilesKnown, [MemosNext]_memosVars
    PROVE  FilesKnown'
<1> USE DEF rows, bounds, history
<1>1. ASSUME NEW w \in Workers, Requests(w) PROVE FilesKnown'
  <2>1. PICK q : /\ Turns(w, q) /\ At(w, "idle")
                 /\ q.at \in Parts \cup {"idle", "create", "comments", "drop", "batch"}
                 /\ UNCHANGED <<rows, files, split>>
    BY <1>1, RequestsEffect
  <2> QED
    BY <2>1, FilesStay DEF Parts, At
<1>2. ASSUME NEW w \in Workers, Fail(w) PROVE FilesKnown'
  <2>1. /\ request'[w] = Idle /\ \A x \in Workers \ {w} : request'[x] = request[x]
        /\ attachments' = attachments /\ files' = files /\ split' = split \cup HalfGone(w)
    BY <1>2, IdleEffect DEF Fail, Abort, Turns, After
  <2> QED
    BY <2>1 DEF FilesKnown, FilesMatchRows, HalfGone, At, Idle
<1>3. ASSUME NEW w \in Workers, NEW a \in AttachmentIds, Keep(w, a) PROVE FilesKnown'
  <2>1. PICK q : Turns(w, q) /\ q.at \in Parts \cup {"idle", "keep"}
    BY <1>3, KeepEffect
  <2>2. attachments' = attachments /\ files' = files /\ split \subseteq split' /\ At(w, "keep")
    BY <1>3 DEF Keep
  <2> QED
    BY <2>1, <2>2, FilesStay DEF Parts, At
<1>4. ASSUME NEW w \in Workers, ListCurrent(w) PROVE FilesKnown'
  <2>1. attachments' = attachments /\ files' = files /\ split \subseteq split' /\ At(w, "attach")
    BY <1>4 DEF ListCurrent, Abort
  <2>2. CASE Abort(w)
    <3>1. Turns(w, Idle) /\ Idle.at = "idle"
      BY <2>2, IdleEffect DEF Abort, Idle
    <3> QED
      BY <2>1, <3>1, FilesStay DEF At
  <2>3. CASE ~Abort(w)
    <3>1. PICK q : Turns(w, q) /\ q.at \in Parts \cup {"idle", "keep", "drop"}
      BY <1>4, <2>3, ListCurrentEffect
    <3> QED
      BY <2>1, <3>1, FilesStay DEF Parts, At
  <2> QED
    BY <2>2, <2>3
<1>5. CASE UNCHANGED memosVars
  BY <1>5 DEF memosVars, FilesKnown, FilesMatchRows, HalfGone, At
<1> QED
  BY <1>1, <1>2, <1>3, <1>4, <1>5, MemoStepFiles, DropFiles, DropRowFiles, BatchRowsFiles,
     BatchUnlinkFiles DEF MemosNext, AttachmentStep

LEMMA InitFiles == MemosInit => FilesKnown
BY DEF MemosInit, FilesKnown, FilesMatchRows, HalfGone, At, Idle

\* However many requests delete an attachment at once, its row and its file go
\* together, but for what a failed one leaves half gone: Store.DeleteAttachment,
\* Store.DeleteAttachments.
THEOREM FilesFollowRows == MemosSpec => []FilesMatchRows
<1>1. MemosTypes /\ FilesKnown /\ [MemosNext]_memosVars => MemosTypes' /\ FilesKnown'
  BY NextMemosTypes, NextFiles
<1>2. FilesKnown => FilesMatchRows
  BY DEF FilesKnown, FilesMatchRows
<1> QED
  BY <1>1, <1>2, InitMemosTypes, InitFiles, PTL DEF MemosSpec

-----------------------------------------------------------------------------
(* Comments *)

\* A deletion under way goes on, or its memo is gone, or it was left half way.
GoesOn(w) ==
    \A m \in MemoIds : Cuts(w, m) => Cuts(w, m)' \/ m \notin memos' \/ m \in aborted'

\* A comment is only cut from its memo by a deletion of one of them.
LEMMA CommentsStay ==
    ASSUME MemosTypes, CommentKeepsPlace, NEW w \in Workers,
           \A x \in Workers \ {w} : request'[x] = request[x],
           memos' \subseteq memos \cup (MemoIds \ used), commentOf' = commentOf,
           aborted \subseteq aborted', GoesOn(w),
           \A i \in relations : \/ i \in relations' \/ i.type # "COMMENT"
                                \/ \E m \in {i.memo, i.related} : Cuts(w, m)'
    PROVE  CommentKeepsPlace'
<1> SUFFICES ASSUME NEW c \in memos', commentOf[c] \in memos',
                    {c, commentOf[c]} \cap aborted' = {},
                    ~BeingDeleted(c)', ~BeingDeleted(commentOf[c])'
             PROVE  [memo |-> c, related |-> commentOf[c], type |-> "COMMENT"] \in relations'
  BY DEF CommentKeepsPlace, BeingDeleted
<1> DEFINE p == commentOf[c]
           i == [memo |-> c, related |-> p, type |-> "COMMENT"]
<1>1. c \in MemoIds /\ p \in used
  BY MemosConstants DEF MemosTypes, MemosConstants
<1>2. c \in used
  BY <1>1, MemosConstants DEF MemosTypes, MemosConstants
<1>3. c \in memos /\ p \in memos /\ c \in MemoIds /\ p \in MemoIds
  BY <1>1, <1>2 DEF MemosTypes
<1>4. ASSUME NEW m \in {c, p}, NEW x \in Workers PROVE ~Cuts(x, m)
  <2>1. ~Cuts(x, m)' /\ m \in memos' /\ m \notin aborted'
    BY DEF BeingDeleted
  <2>2. CASE x = w
    BY <1>3, <2>1, <2>2 DEF GoesOn
  <2>3. CASE x # w
    BY <2>1, <2>3 DEF Cuts
  <2> QED
    BY <2>2, <2>3
<1>5. i \in relations
  BY <1>3, <1>4 DEF CommentKeepsPlace, BeingDeleted
<1>6. i.type = "COMMENT" /\ \A m \in {i.memo, i.related} : ~Cuts(w, m)'
  BY DEF BeingDeleted
<1> HIDE DEF i
<1> QED
  BY <1>5, <1>6 DEF i

\* The deletions that a step may disturb are those of its own request.
LEMMA NoneUnderWay ==
    ASSUME NEW w \in Workers, request[w].at \notin Deleting \/ request[w].then # "row"
    PROVE  GoesOn(w)
BY DEF GoesOn, Cuts

LEMMA AbortComments ==
    ASSUME MemosTypes, CommentKeepsPlace, NEW w \in Workers, Abort(w),
           memos' = memos, relations' = relations
    PROVE  CommentKeepsPlace'
<1>1. \A x \in Workers \ {w} : request'[x] = request[x]
  BY DEF Abort, Do, MemosTypes
<1>2. GoesOn(w) /\ aborted \subseteq aborted' /\ commentOf' = commentOf
  BY DEF Abort, GoesOn
<1> QED
  BY <1>1, <1>2, CommentsStay

LEMMA MemoStepComments ==
    ASSUME MemosTypes, CommentKeepsPlace, NEW w \in Workers, MemoStep(w)
    PROVE  CommentKeepsPlace'
<1> USE DEF rows, history
<1> DEFINE r == request[w]
           Others == \A x \in Workers \ {w} : request'[x] = request[x]
           Rest == commentOf' = commentOf /\ aborted' = aborted
<1>0. RequestOK(r) /\ relations \subseteq Relation
  BY DEF MemosTypes
<1>1. ASSUME NEW m \in MemoIds, InsertMemo(w, m) PROVE CommentKeepsPlace'
  <2>1. Others
    BY <1>1 DEF InsertMemo, Do, MemosTypes
  <2>2. Rest /\ relations' = relations /\ memos' \subseteq memos \cup (MemoIds \ used)
    BY <1>1 DEF InsertMemo
  <2>3. r.at \notin Deleting
    BY <1>1 DEF InsertMemo, At, Deleting
  <2> QED
    BY <2>1, <2>2, <2>3, NoneUnderWay, CommentsStay
<1>2. ASSUME NEW m \in MemoIds, Refer(w, m) PROVE CommentKeepsPlace'
  <2>1. CASE m \in memos
    <3>1. Others
      BY <1>2, <2>1 DEF Refer, Do, MemosTypes
    <3>2. Rest /\ relations' = relations /\ memos' = memos
      BY <1>2, <2>1 DEF Refer
    <3>3. r.at \notin Deleting
      BY <1>2 DEF Refer, At, Deleting
    <3> QED
      BY <3>1, <3>2, <3>3, NoneUnderWay, CommentsStay
  <2>2. CASE m \notin memos
    BY <1>2, <2>2, AbortComments DEF Refer
  <2> QED
    BY <2>1, <2>2
<1>3. ASSUME NEW m \in MemoIds, Sever(w, m) PROVE CommentKeepsPlace'
  <2>1. PICK q : Turns(w, q) /\ q.at = "severTo" /\ q.then = "row" /\ q.other = m
    BY <1>3, SeverEffect
  <2>2. Others /\ Cuts(w, m)'
    BY <2>1 DEF Turns, After, Cuts, Deleting
  <2>3. Rest /\ memos' = memos /\ relations' = {i \in relations : i.memo # m}
    BY <1>3 DEF Sever
  <2>4. r.at \notin Deleting
    BY <1>3 DEF Sever, At, Deleting
  <2>5. \A i \in relations : \/ i \in relations' \/ i.type # "COMMENT"
                             \/ \E k \in {i.memo, i.related} : Cuts(w, k)'
    BY <2>2, <2>3
  <2> QED
    BY <2>2, <2>3, <2>4, <2>5, NoneUnderWay, CommentsStay
<1>4. CASE FindComment(w)
  <2>1. CASE r.memo \in memos
    <3>1. Others
      BY <1>4, <2>1 DEF FindComment, Do, MemosTypes
    <3>2. Rest /\ relations' = relations /\ memos' = memos
      BY <1>4, <2>1 DEF FindComment
    <3>3. r.at \notin Deleting
      BY <1>4 DEF FindComment, At, Deleting
    <3> QED
      BY <3>1, <3>2, <3>3, NoneUnderWay, CommentsStay
  <2>2. CASE r.memo \notin memos
    BY <1>4, <2>2, AbortComments DEF FindComment
  <2> QED
    BY <2>1, <2>2
<1>5. CASE Tie(w)
  <2> DEFINE tied == [memo |-> r.memo, related |-> r.parent, type |-> "COMMENT"]
  <2>1. /\ memos' = memos /\ relations' = relations \cup {tied} /\ aborted' = aborted
        /\ commentOf' = [commentOf EXCEPT ![r.memo] = r.parent]
    BY <1>5 DEF Tie
  <2>2. Turns(w, Idle) /\ r.at = "tie"
    BY <1>5, IdleEffect DEF Tie, At
  <2>3. \A x \in Workers, m \in MemoIds : Cuts(x, m)' <=> Cuts(x, m)
    BY <2>2 DEF Turns, After, Idle, Cuts, Deleting
  <2>4. ASSUME NEW c \in memos, commentOf'[c] \in memos,
               {c, commentOf'[c]} \cap aborted = {},
               \A x \in Workers, m \in MemoIds : m \in {c, commentOf'[c]} => ~Cuts(x, m)'
        PROVE  [memo |-> c, related |-> commentOf'[c], type |-> "COMMENT"] \in relations'
    <3>1. c \in MemoIds /\ commentOf'[c] \in MemoIds
      BY <2>4 DEF MemosTypes
    <3>2. CASE c = r.memo
      BY <2>1, <3>1, <3>2 DEF MemosTypes
    <3>3. CASE c # r.memo
      <4>1. commentOf'[c] = commentOf[c]
        BY <2>1, <3>1, <3>3 DEF MemosTypes
      <4>2. ~BeingDeleted(c) /\ ~BeingDeleted(commentOf[c])
        BY ONLY <2>3, <2>4, <3>1, <4>1 DEF BeingDeleted
      <4>3. [memo |-> c, related |-> commentOf[c], type |-> "COMMENT"] \in relations
        BY <2>4, <4>1, <4>2 DEF CommentKeepsPlace
      <4> QED
        BY <2>1, <4>1, <4>3
    <3> QED
      BY <3>2, <3>3
  <2> QED
    BY <2>1, <2>4 DEF CommentKeepsPlace, BeingDeleted
<1>6. CASE Relate(w)
  <2>1. Others
    BY <1>6 DEF Relate, Do, MemosTypes
  <2>2. Rest /\ memos' = memos /\ \A i \in relations : i \in relations' \/ i.type # "COMMENT"
    BY <1>6 DEF Relate
  <2>3. r.at \notin Deleting
    BY <1>6 DEF Relate, At, Deleting, Parts
  <2> QED
    BY <2>1, <2>2, <2>3, NoneUnderWay, CommentsStay
<1>7. CASE InsertReference(w)
  <2>1. Others
    BY <1>7 DEF InsertReference, Do, MemosTypes
  <2>2. Rest /\ memos' = memos /\ relations \subseteq relations'
    BY <1>7 DEF InsertReference
  <2>3. r.at \notin Deleting
    BY <1>7 DEF InsertReference, At, Deleting
  <2> QED
    BY <2>1, <2>2, <2>3, NoneUnderWay, CommentsStay
<1>8. CASE ListComments(w)
  <2>1. Others
    BY <1>8 DEF ListComments, Do, MemosTypes
  <2>2. Rest /\ memos' = memos /\ relations' = relations
    BY <1>8 DEF ListComments
  <2>3. r.at \notin Deleting
    BY <1>8 DEF ListComments, At, Deleting
  <2> QED
    BY <2>1, <2>2, <2>3, NoneUnderWay, CommentsStay
<1>9. CASE SeverTo(w)
  <2>1. PICK q : Turns(w, q) /\ q.at = "list" /\ Carries(q, r) /\ r.then = "row"
    BY <1>9, SeverToEffect
  <2>2. Others /\ Cuts(w, q.other)' /\ GoesOn(w)
    BY <2>1 DEF Turns, After, Cuts, Deleting, GoesOn, Carries
  <2>3. Rest /\ memos' = memos /\ relations' = {i \in relations : i.related # r.other}
    BY <1>9 DEF SeverTo
  <2>4. \A i \in relations : \/ i \in relations' \/ i.type # "COMMENT"
                             \/ \E k \in {i.memo, i.related} : Cuts(w, k)'
    BY <2>1, <2>2, <2>3 DEF Carries
  <2> QED
    BY <2>2, <2>3, <2>4, CommentsStay
<1>10. CASE ListForDeletion(w)
  <2>1. PICK q, s : /\ Turns(w, q) /\ Drops(q, s) /\ s.other = r.other /\ s.then = "row"
    BY <1>10, ListForDeletionEffect
  <2>2. Others /\ GoesOn(w)
    BY <2>1 DEF Turns, After, Cuts, Deleting, GoesOn, Carries, Drops
  <2>3. Rest /\ memos' = memos /\ relations' = relations
    BY <1>10 DEF ListForDeletion
  <2> QED
    BY <2>2, <2>3, CommentsStay
<1>11. CASE DeleteRow(w)
  <2>1. Others
    BY <1>11 DEF DeleteRow, Do, MemosTypes
  <2>2. Rest /\ memos' = memos \ {r.other} /\ relations' = relations
    BY <1>11 DEF DeleteRow
  <2>3. GoesOn(w)
    BY <2>2 DEF GoesOn, Cuts
  <2> QED
    BY <2>1, <2>2, <2>3, CommentsStay
<1> QED
  BY <1>1, <1>2, <1>3, <1>4, <1>5, <1>6, <1>7, <1>8, <1>9, <1>10, <1>11 DEF MemoStep

LEMMA AttachmentStepComments ==
    ASSUME MemosTypes, CommentKeepsPlace, NEW w \in Workers, AttachmentStep(w)
    PROVE  CommentKeepsPlace'
<1> USE DEF rows, history
<1>1. CASE Abort(w)
  <2>1. memos' = memos /\ relations' = relations
    BY DEF AttachmentStep, Keep, Drop, BatchUnlink, ListCurrent, DropRow, BatchRows
  <2> QED
    BY <1>1, <2>1, AbortComments
<1>2. CASE ~Abort(w)
  <2>1. /\ memos' = memos /\ relations' = relations
        /\ commentOf' = commentOf /\ aborted' = aborted
    BY <1>2 DEF AttachmentStep, Keep, Drop, BatchUnlink, ListCurrent, DropRow, BatchRows
  <2>2. \A x \in Workers \ {w} : request'[x] = request[x]
    BY <1>2 DEF AttachmentStep, Keep, Drop, BatchUnlink, ListCurrent, DropRow, BatchRows,
                Do, MemosTypes
  <2>3. CASE request[w].at \notin Deleting
    BY <2>1, <2>2, <2>3, NoneUnderWay, CommentsStay
  <2>4. CASE \E a \in AttachmentIds : Drop(w, a)
    <3>1. PICK a \in AttachmentIds : Drop(w, a) /\ a \in attachments
      BY <1>2, <2>4 DEF Drop
    <3>2. PICK q : Turns(w, q) /\ Carries(q, request[w]) /\ q.at = "dropRow"
      BY <3>1, DropEffect
    <3>3. GoesOn(w)
      BY <3>2 DEF Turns, After, Cuts, Deleting, GoesOn, Carries
    <3> QED
      BY <2>1, <2>2, <3>3, CommentsStay
  <2>5. CASE DropRow(w)
    <3>1. PICK q, s : /\ Turns(w, q) /\ Drops(q, s) /\ s.other = request[w].other
                      /\ s.then = request[w].then
      BY <2>5, DropRowEffect
    <3>2. GoesOn(w)
      BY <3>1 DEF Turns, After, Cuts, Deleting, GoesOn, Carries, Drops
    <3> QED
      BY <2>1, <2>2, <3>2, CommentsStay
  <2> QED
    BY <2>3, <2>4, <2>5 DEF AttachmentStep, Keep, BatchUnlink, ListCurrent, BatchRows, At, Deleting
<1> QED
  BY <1>1, <1>2

LEMMA NextComments ==
    ASSUME MemosTypes, CommentKeepsPlace, [MemosNext]_memosVars
    PROVE  CommentKeepsPlace'
<1> USE DEF rows, bounds, history
<1>1. ASSUME NEW w \in Workers, Requests(w) PROVE CommentKeepsPlace'
  <2>1. PICK q : /\ Turns(w, q) /\ At(w, "idle")
                 /\ UNCHANGED <<rows, files, errors, commentOf, aborted, split>>
    BY <1>1, RequestsEffect
  <2>2. request[w].at \notin Deleting
    BY <2>1 DEF At, Deleting
  <2> QED
    BY <2>1, <2>2, NoneUnderWay, CommentsStay DEF Turns
<1>2. ASSUME NEW w \in Workers, Fail(w) PROVE CommentKeepsPlace'
  BY <1>2, AbortComments DEF Fail
<1>3. CASE UNCHANGED memosVars
  BY <1>3 DEF memosVars, CommentKeepsPlace, BeingDeleted, Cuts
<1> QED
  BY <1>1, <1>2, <1>3, MemoStepComments, AttachmentStepComments DEF MemosNext

-----------------------------------------------------------------------------
(* What a deletion leaves *)

\* Nothing refers to a memo that is gone.
Sound ==
    /\ \A a \in attachments : memoOf[a] \in memos \cup {None}
    /\ \A i \in relations : i.memo \in memos /\ i.related \in memos

AttachmentsOf(m) == {a \in attachments : memoOf[a] = m}

\* What a request that runs alone is about is there, and what it deletes is cut
\* off piece by piece before its row goes.
Careful(r) ==
    /\ r.memo \in memos \cup {None} /\ r.parent \in memos \cup {None}
    /\ r.at \in {"comments", "sever"} \/ r.then = "row" => r.parent = None
    /\ r.at = "insert" => r.other \in memos
    /\ r.then = "row" /\ r.at \in Deleting => \A i \in relations : i.memo # r.other
    /\ r.then = "row" /\ r.at \in Deleting \ {"severTo"} =>
        \A i \in relations : i.related # r.other
    /\ r.then = "row" /\ r.at \in {"drop", "dropRow", "row"} =>
        AttachmentsOf(r.other) \subseteq r.drop
    /\ r.then = "row" /\ r.at = "row" => r.drop = {}

\* Requests that never overlapped run one at a time.
LoneRequests ==
    ~overlapped =>
        /\ Sound
        /\ \A w \in Workers : ~At(w, "idle") =>
            /\ Careful(request[w])
            /\ \A x \in Workers : ~At(x, "idle") => x = w

\* No memo has more attachments than one listing returns.
FewAttachments ==
    \A m \in MemoIds : IsFiniteSet(AttachmentsOf(m)) /\ Cardinality(AttachmentsOf(m)) <= ListLimit

LEMMA ListingIsComplete ==
    ASSUME FewAttachments, NEW m \in MemoIds, NEW s \in Listings(m)
    PROVE  s = AttachmentsOf(m)
<1> DEFINE all == AttachmentsOf(m)
<1>1. IsFiniteSet(all) /\ Cardinality(all) <= ListLimit /\ Cardinality(all) \in Nat
  BY FS_CardinalityType DEF FewAttachments
<1>2. s \subseteq all /\ Cardinality(s) = Cardinality(all)
  BY <1>1, MemosConstants DEF Listings, AttachmentsOf, MemosConstants
<1> QED
  BY <1>1, <1>2, FS_Subset

LEMMA MemoStepSound ==
    ASSUME MemosTypes, NEW w \in Workers, MemoStep(w), Sound, Careful(request[w]), FewAttachments
    PROVE  Sound' /\ \E q : Turns(w, q) /\ (q.at = "idle" \/ Careful(q)')
<1> USE DEF rows, history
<1> DEFINE r == request[w]
<1>0. /\ RequestOK(r) /\ Idle.at = "idle" /\ relations \subseteq Relation
      /\ r.at \notin Deleting \cup {"sever"} => r.then # "row"
  BY DEF MemosTypes, Idle, RequestOK
<1>a. ASSUME Do(w, Idle) PROVE \E q : Turns(w, q) /\ (q.at = "idle" \/ Careful(q)')
  BY <1>0, <1>a, IdleEffect
<1>1. ASSUME NEW m \in MemoIds, InsertMemo(w, m)
      PROVE  Sound' /\ \E q : Turns(w, q) /\ (q.at = "idle" \/ Careful(q)')
  <2>1. PICK q : /\ Turns(w, q)
                 /\ \/ q.at = "idle"
                    \/ /\ q.at \in Parts /\ q.memo = m /\ q.then = r.then
                       /\ q.parent = r.parent /\ q.other = r.other
    BY <1>1, InsertMemoEffect
  <2>2. /\ memos' = memos \cup {m} /\ r.at = "create"
        /\ UNCHANGED <<relations, attachments, memoOf>>
    BY <1>1 DEF InsertMemo, At
  <2>3. Sound'
    BY <2>2 DEF Sound
  <2>4. q.at = "idle" \/ Careful(q)'
    BY <1>0, <2>1, <2>2 DEF Careful, Parts, Deleting
  <2> QED
    BY <2>1, <2>3, <2>4
<1>2. ASSUME NEW m \in MemoIds, Refer(w, m)
      PROVE  Sound' /\ \E q : Turns(w, q) /\ (q.at = "idle" \/ Careful(q)')
  <2>1. r.at = "refer" /\ UNCHANGED <<memos, relations, attachments, memoOf>>
    BY <1>2 DEF Refer, At
  <2>2. Sound'
    BY <2>1 DEF Sound
  <2>3. CASE m \in memos
    <3>1. PICK q : /\ Turns(w, q) /\ q.at = "insert" /\ q.other = m /\ q.memo = r.memo
                   /\ q.parent = r.parent /\ q.then = r.then
      BY <1>2, <2>3, ReferEffect
    <3>2. Careful(q)'
      BY <1>0, <2>1, <2>3, <3>1 DEF Careful, Deleting
    <3> QED
      BY <2>2, <3>1, <3>2
  <2>4. CASE m \notin memos
    BY <1>2, <1>a, <2>2, <2>4 DEF Refer, Abort
  <2> QED
    BY <2>3, <2>4
<1>3. ASSUME NEW m \in MemoIds, Sever(w, m)
      PROVE  Sound' /\ \E q : Turns(w, q) /\ (q.at = "idle" \/ Careful(q)')
  <2>1. PICK q : /\ Turns(w, q) /\ q.at = "severTo" /\ q.other = m /\ q.memo = r.memo
                 /\ q.parent = r.parent /\ q.then = "row"
    BY <1>3, SeverEffect
  <2>2. /\ UNCHANGED <<memos, attachments, memoOf>> /\ r.at = "sever"
        /\ relations' = {i \in relations : i.memo # m}
    BY <1>3 DEF Sever, At
  <2>3. Sound'
    BY <2>2 DEF Sound
  <2>4. Careful(q)'
    BY <2>1, <2>2 DEF Careful, Deleting
  <2> QED
    BY <2>1, <2>3, <2>4
<1>4. ASSUME FindComment(w)
      PROVE  Sound' /\ \E q : Turns(w, q) /\ (q.at = "idle" \/ Careful(q)')
  <2>1. r.at = "comment" /\ UNCHANGED <<memos, relations, attachments, memoOf>>
    BY <1>4 DEF FindComment, At
  <2>2. Sound'
    BY <2>1 DEF Sound
  <2>3. CASE r.memo \in memos
    <3>1. PICK q : Turns(w, q) /\ q.at = "tie" /\ Carries(q, r)
      BY <1>4, <2>3, FindCommentEffect
    <3>2. Careful(q)'
      BY <1>0, <2>1, <3>1 DEF Careful, Carries, Deleting
    <3> QED
      BY <2>2, <3>1, <3>2
  <2>4. CASE r.memo \notin memos
    BY <1>4, <1>a, <2>2, <2>4 DEF FindComment, Abort
  <2> QED
    BY <2>3, <2>4
<1>5. ASSUME Tie(w)
      PROVE  Sound' /\ \E q : Turns(w, q) /\ (q.at = "idle" \/ Careful(q)')
  <2>1. /\ r.at = "tie" /\ UNCHANGED <<memos, attachments, memoOf>> /\ Do(w, Idle)
        /\ relations' = relations
                \cup {[memo |-> r.memo, related |-> r.parent, type |-> "COMMENT"]}
    BY <1>5 DEF Tie, At
  <2>2. r.memo \in memos /\ r.parent \in memos
    BY <1>0, <2>1 DEF RequestOK, OnMemo, Careful
  <2>3. Sound'
    BY <2>1, <2>2 DEF Sound
  <2> QED
    BY <1>a, <2>1, <2>3
<1>6. ASSUME Relate(w)
      PROVE  Sound' /\ \E q : Turns(w, q) /\ (q.at = "idle" \/ Careful(q)')
  <2>1. PICK q : /\ Turns(w, q)
                 /\ \/ q.at = "idle"
                    \/ q.at \in Parts \cup {"refer"} /\ Carries(q, r)
    BY <1>6, RelateEffect
  <2>2. /\ UNCHANGED <<memos, attachments, memoOf>> /\ r.at = "relate"
        /\ relations' \subseteq relations
    BY <1>6 DEF Relate, At
  <2>3. Sound'
    BY <2>2 DEF Sound
  <2>4. q.at = "idle" \/ Careful(q)'
    BY <1>0, <2>1, <2>2 DEF Careful, Carries, Parts, Deleting
  <2> QED
    BY <2>1, <2>3, <2>4
<1>7. ASSUME InsertReference(w)
      PROVE  Sound' /\ \E q : Turns(w, q) /\ (q.at = "idle" \/ Careful(q)')
  <2>1. PICK q : /\ Turns(w, q) /\ r.memo # None
                 /\ \/ q.at = "idle"
                    \/ /\ q.at \in Parts \cup {"refer"} /\ q.memo = r.memo
                       /\ q.parent = r.parent /\ q.then = r.then
    BY <1>7, InsertReferenceEffect
  <2>2. /\ UNCHANGED <<memos, attachments, memoOf>> /\ r.at = "insert"
        /\ relations' = relations
                \cup {[memo |-> r.memo, related |-> r.other, type |-> "REFERENCE"]}
    BY <1>7 DEF InsertReference, At
  <2>3. r.memo \in memos /\ r.other \in memos
    BY <2>1, <2>2 DEF Careful
  <2>4. Sound'
    BY <2>2, <2>3 DEF Sound
  <2>5. q.at = "idle" \/ Careful(q)'
    BY <1>0, <2>1, <2>2 DEF Careful, Parts, Deleting
  <2> QED
    BY <2>1, <2>4, <2>5
<1>8. ASSUME ListComments(w)
      PROVE  Sound' /\ \E q : Turns(w, q) /\ (q.at = "idle" \/ Careful(q)')
  <2>1. PICK q : /\ Turns(w, q) /\ q.at = "sever" /\ q.memo = r.memo /\ q.parent = r.parent
                 /\ q.then = r.then
    BY <1>8, ListCommentsEffect
  <2>2. r.at = "comments" /\ UNCHANGED <<memos, relations, attachments, memoOf>>
    BY <1>8 DEF ListComments, At
  <2>3. Sound'
    BY <2>2 DEF Sound
  <2>4. Careful(q)'
    BY <1>0, <2>1, <2>2 DEF Careful, Deleting
  <2> QED
    BY <2>1, <2>3, <2>4
<1>9. ASSUME SeverTo(w)
      PROVE  Sound' /\ \E q : Turns(w, q) /\ (q.at = "idle" \/ Careful(q)')
  <2>1. PICK q : Turns(w, q) /\ q.at = "list" /\ Carries(q, r) /\ r.then = "row"
    BY <1>9, SeverToEffect
  <2>2. /\ UNCHANGED <<memos, attachments, memoOf>> /\ r.at = "severTo"
        /\ relations' = {i \in relations : i.related # r.other}
    BY <1>9 DEF SeverTo, At
  <2>3. Sound'
    BY <2>2 DEF Sound
  <2>4. Careful(q)'
    BY <2>1, <2>2 DEF Careful, Carries, Deleting
  <2> QED
    BY <2>1, <2>3, <2>4
<1>10. ASSUME ListForDeletion(w)
       PROVE  Sound' /\ \E q : Turns(w, q) /\ (q.at = "idle" \/ Careful(q)')
  <2>1. PICK q, s : /\ Turns(w, q) /\ Drops(q, s) /\ s.drop \in Listings(r.other)
                    /\ s.memo = r.memo /\ s.parent = r.parent /\ s.other = r.other
                    /\ s.then = "row" /\ r.then = "row"
    BY <1>10, ListForDeletionEffect
  <2>2. r.at = "list" /\ UNCHANGED <<memos, relations, attachments, memoOf>>
    BY <1>10 DEF ListForDeletion, At
  <2>3. Sound'
    BY <2>2 DEF Sound
  <2>4. r.other \in MemoIds
    BY <1>0, <2>1, <2>2 DEF RequestOK, Request, Deleting
  <2>5. s.drop = AttachmentsOf(r.other)
    BY <2>1, <2>4, ListingIsComplete
  <2>6. AttachmentsOf(q.other)' = AttachmentsOf(q.other)
    BY <2>2 DEF AttachmentsOf
  <2>7. q.other = r.other /\ q.drop = s.drop
    BY <2>1 DEF Drops, Carries
  <2>8. Careful(q)'
    BY <2>1, <2>2, <2>5, <2>6, <2>7 DEF Careful, Carries, Drops, Deleting
  <2> QED
    BY <2>1, <2>3, <2>8
<1>11. ASSUME DeleteRow(w)
       PROVE  Sound' /\ \E q : Turns(w, q) /\ (q.at = "idle" \/ Careful(q)')
  <2>1. PICK q : /\ Turns(w, q) /\ r.then = "row" /\ r.other # None
                 /\ \/ q.at = "idle"
                    \/ /\ q.at = "sever" /\ q.memo = r.memo /\ r.other # r.memo
                       /\ q.parent = r.parent
    BY <1>11, DeleteRowEffect
  <2>2. /\ r.at = "row" /\ UNCHANGED <<relations, attachments, memoOf>>
        /\ memos' = memos \ {r.other}
    BY <1>11 DEF DeleteRow, At
  <2>3. AttachmentsOf(r.other) = {} /\ r.parent = None
    BY <2>1, <2>2 DEF Careful
  <2>4. Sound'
    BY <2>1, <2>2, <2>3 DEF Sound, Careful, AttachmentsOf, Deleting
  <2>5. q.at = "idle" \/ Careful(q)'
    BY <2>1, <2>2, <2>3 DEF Careful, Deleting
  <2> QED
    BY <2>1, <2>4, <2>5
<1> QED
  BY <1>1, <1>2, <1>3, <1>4, <1>5, <1>6, <1>7, <1>8, <1>9, <1>10, <1>11 DEF MemoStep

LEMMA AttachmentStepSound ==
    ASSUME MemosTypes, NEW w \in Workers, AttachmentStep(w), Sound, Careful(request[w])
    PROVE  Sound' /\ \E q : Turns(w, q) /\ (q.at = "idle" \/ Careful(q)')
<1> USE DEF rows, history
<1> DEFINE r == request[w]
<1>0. /\ RequestOK(r) /\ Idle.at = "idle" /\ memoOf \in [AttachmentIds -> used \cup {None}]
      /\ r.at \notin Deleting \cup {"sever"} => r.then # "row"
  BY DEF MemosTypes, Idle, RequestOK
<1>a. ASSUME Do(w, Idle) PROVE \E q : Turns(w, q) /\ (q.at = "idle" \/ Careful(q)')
  BY <1>0, <1>a, IdleEffect
<1>1. ASSUME NEW a \in AttachmentIds, Keep(w, a)
      PROVE  Sound' /\ \E q : Turns(w, q) /\ (q.at = "idle" \/ Careful(q)')
  <2>1. PICK q : /\ Turns(w, q) /\ r.memo # None
                 /\ \/ q.at = "idle"
                    \/ q.at \in Parts \cup {"keep"} /\ Carries(q, r)
    BY <1>1, KeepEffect
  <2>2. /\ r.at = "keep" /\ UNCHANGED <<memos, relations, attachments>>
        /\ memoOf' = [memoOf EXCEPT ![a] = IF a \in attachments THEN r.memo ELSE @]
    BY <1>1 DEF Keep, At
  <2>3. r.memo \in memos
    BY <2>1 DEF Careful
  <2>4. Sound'
    BY <1>0, <2>2, <2>3 DEF Sound
  <2>5. q.at = "idle" \/ Careful(q)'
    BY <1>0, <2>1, <2>2 DEF Careful, Carries, Parts, Deleting
  <2> QED
    BY <2>1, <2>4, <2>5
<1>2. ASSUME NEW a \in AttachmentIds, Drop(w, a)
      PROVE  Sound' /\ \E q : Turns(w, q) /\ (q.at = "idle" \/ Careful(q)')
  <2>1. r.at = "drop" /\ UNCHANGED <<memos, relations, attachments, memoOf>>
    BY <1>2 DEF Drop, At
  <2>2. Sound'
    BY <2>1 DEF Sound
  <2>3. CASE a \in attachments
    <3>1. PICK q : Turns(w, q) /\ Carries(q, r) /\ q.at = "dropRow"
      BY <1>2, <2>3, DropEffect
    <3>2. Careful(q)'
      BY <2>1, <3>1 DEF Careful, Carries, Deleting, AttachmentsOf
    <3> QED
      BY <2>2, <3>1, <3>2
  <2>4. CASE a \notin attachments
    BY <1>2, <1>a, <2>2, <2>4 DEF Drop, Abort
  <2> QED
    BY <2>3, <2>4
<1>3. ASSUME NEW left, Batches(w, left), r.at \in {"batch", "unlink"},
             memos' = memos, relations' = relations
      PROVE  \E q : Turns(w, q) /\ (q.at = "idle" \/ Careful(q)')
  <2>1. PICK q : /\ Turns(w, q) /\ q.at \in {"idle", "unlink"} /\ q.memo = r.memo
                 /\ q.parent = r.parent /\ q.then # "row"
    BY <1>3 DEF Batches
  <2>2. q.at = "idle" \/ Careful(q)'
    BY <1>3, <2>1 DEF Careful
  <2> QED
    BY <2>1, <2>2
<1>4. ASSUME NEW a \in AttachmentIds, BatchUnlink(w, a)
      PROVE  Sound' /\ \E q : Turns(w, q) /\ (q.at = "idle" \/ Careful(q)')
  <2>1. r.at = "unlink" /\ UNCHANGED <<memos, relations, attachments, memoOf>>
    BY <1>4 DEF BatchUnlink, At
  <2>2. Sound'
    BY <2>1 DEF Sound
  <2>3. Batches(w, r.drop \ {a})
    BY <1>4, UnlinkEffect
  <2> QED
    BY <1>3, <2>1, <2>2, <2>3
<1>5. ASSUME BatchRows(w)
      PROVE  Sound' /\ \E q : Turns(w, q) /\ (q.at = "idle" \/ Careful(q)')
  <2>1. /\ r.at = "batch" /\ UNCHANGED <<memos, relations>>
        /\ attachments' = attachments \ r.drop
        /\ memoOf' = [a \in AttachmentIds |-> IF a \in r.drop THEN None ELSE memoOf[a]]
    BY <1>5 DEF BatchRows, At
  <2>2. attachments \subseteq AttachmentIds
    BY DEF MemosTypes
  <2>3. Sound'
    BY <2>1, <2>2 DEF Sound
  <2>4. Batches(w, r.drop)
    BY <1>5, BatchEffect
  <2> QED
    BY <1>3, <2>1, <2>3, <2>4
<1>6. ASSUME ListCurrent(w)
      PROVE  Sound' /\ \E q : Turns(w, q) /\ (q.at = "idle" \/ Careful(q)')
  <2>1. r.at = "attach" /\ UNCHANGED <<memos, relations, attachments, memoOf>>
    BY <1>6 DEF ListCurrent, At
  <2>2. Sound'
    BY <2>1 DEF Sound
  <2>3. CASE Abort(w)
    BY <1>a, <2>2, <2>3 DEF Abort
  <2>4. CASE ~Abort(w)
    <3>1. PICK q : /\ Turns(w, q)
                   /\ \/ q.at = "idle"
                      \/ /\ q.memo = r.memo /\ q.parent = r.parent /\ q.then = "keep"
                         /\ q.at \in Parts \cup {"keep", "drop"}
      BY <1>6, <2>4, ListCurrentEffect
    <3>2. q.at = "idle" \/ Careful(q)'
      BY <2>1, <3>1 DEF Careful, Parts
    <3> QED
      BY <2>2, <3>1, <3>2
  <2> QED
    BY <2>3, <2>4
<1>7. ASSUME DropRow(w)
      PROVE  Sound' /\ \E q : Turns(w, q) /\ (q.at = "idle" \/ Careful(q)')
  <2>1. PICK q, s : /\ Turns(w, q) /\ Drops(q, s) /\ s.memo = r.memo /\ s.parent = r.parent
                    /\ s.other = r.other /\ s.then = r.then /\ s.drop = r.drop \ {r.one}
                    /\ r.one \in AttachmentIds
    BY <1>7, DropRowEffect
  <2>2. /\ r.at = "dropRow" /\ UNCHANGED <<memos, relations>>
        /\ attachments' = attachments \ {r.one}
        /\ memoOf' = [memoOf EXCEPT ![r.one] = None]
    BY <1>7 DEF DropRow, At
  <2>3. attachments \subseteq AttachmentIds
    BY DEF MemosTypes
  <2>4. Sound'
    BY <1>0, <2>2, <2>3 DEF Sound
  <2>5. AttachmentsOf(s.other)' \subseteq AttachmentsOf(s.other) \ {r.one}
    BY <1>0, <2>2, <2>3 DEF AttachmentsOf
  <2>6. r.then = "row" => AttachmentsOf(s.other)' \subseteq s.drop
    BY <2>1, <2>2, <2>5 DEF Careful
  <2>7. q.at = "idle" \/ Careful(q)'
    BY <2>1, <2>2, <2>6 DEF Careful, Carries, Drops, Parts, Deleting
  <2> QED
    BY <2>1, <2>4, <2>7
<1> QED
  BY <1>1, <1>2, <1>4, <1>5, <1>6, <1>7 DEF AttachmentStep

\* A request that runs alone leaves the others idle.
LEMMA AloneStays ==
    ASSUME MemosTypes, LoneRequests, NEW w \in Workers, ~At(w, "idle"), overlapped' = overlapped,
           Sound /\ Careful(request[w]) =>
                Sound' /\ \E q : Turns(w, q) /\ (q.at = "idle" \/ Careful(q)')
    PROVE  LoneRequests'
<1> SUFFICES ASSUME ~overlapped PROVE LoneRequests'
  BY DEF LoneRequests
<1>1. Sound /\ Careful(request[w]) /\ \A x \in Workers \ {w} : At(x, "idle")
  BY DEF LoneRequests
<1>2. PICK q : Sound' /\ Turns(w, q) /\ (q.at = "idle" \/ Careful(q)')
  BY <1>1
<1>3. \A x \in Workers \ {w} : At(x, "idle")'
  BY <1>1, <1>2 DEF Turns, At
<1>4. At(w, "idle")' \/ request'[w] = q
  BY <1>2 DEF Turns, After, At, Idle
<1>5. At(w, "idle")' \/ Careful(request[w])'
  BY <1>2, <1>4 DEF Turns, After, At, Idle, Careful
<1> QED
  BY <1>2, <1>3, <1>5 DEF LoneRequests

LEMMA NextLone ==
    ASSUME MemosTypes, LoneRequests, FewAttachments, [MemosNext]_memosVars
    PROVE  LoneRequests'
<1> USE DEF rows, bounds, history
<1>1. ASSUME NEW w \in Workers, Requests(w) PROVE LoneRequests'
  <2>1. PICK q : /\ Turns(w, q) /\ At(w, "idle")
                 /\ q.at \in Parts \cup {"idle", "create", "comments", "drop", "batch"}
                 /\ q.then = "idle"
                 /\ q.memo \in memos \cup {None} /\ q.parent \in memos \cup {None}
                 /\ q.at = "comments" => q.parent = None
                 /\ UNCHANGED rows
                 /\ overlapped' = (overlapped \/ \E x \in Workers : ~At(x, "idle"))
    BY <1>1, RequestsEffect
  <2>2. Careful(q)' /\ (Sound => Sound')
    BY <2>1 DEF Careful, Sound, Parts
  <2> SUFFICES ASSUME ~overlapped' PROVE LoneRequests'
    BY DEF LoneRequests
  <2>3. ~overlapped /\ Sound /\ \A x \in Workers : At(x, "idle")
    BY <2>1 DEF LoneRequests
  <2>4. \A x \in Workers \ {w} : At(x, "idle")'
    BY <2>1, <2>3 DEF Turns, At
  <2>5. At(w, "idle")' \/ request'[w] = q
    BY <2>1 DEF Turns, After, At, Idle
  <2>6. At(w, "idle")' \/ Careful(request[w])'
    BY <2>2, <2>5 DEF Careful
  <2> QED
    BY <2>2, <2>3, <2>4, <2>6 DEF LoneRequests
<1>2. ASSUME NEW w \in Workers, Fail(w) PROVE LoneRequests'
  <2>1. Do(w, Idle) /\ ~At(w, "idle") /\ overlapped' = overlapped /\ UNCHANGED rows
    BY <1>2 DEF Fail, Abort
  <2>2. Turns(w, Idle) /\ Idle.at = "idle" /\ (Sound => Sound')
    BY <2>1, IdleEffect DEF Idle, Sound
  <2> QED
    BY <2>1, <2>2, AloneStays
<1>3. ASSUME NEW w \in Workers, MemoStep(w) PROVE LoneRequests'
  <2>1. ~At(w, "idle") /\ overlapped' = overlapped
    BY <1>3 DEF MemoStep, InsertMemo, Refer, Sever, FindComment, Tie, Relate, InsertReference,
                ListComments, SeverTo, ListForDeletion, DeleteRow, At, Abort
  <2> QED
    BY <1>3, <2>1, MemoStepSound, AloneStays
<1>4. ASSUME NEW w \in Workers, AttachmentStep(w) PROVE LoneRequests'
  <2>1. ~At(w, "idle") /\ overlapped' = overlapped
    BY <1>4 DEF AttachmentStep, Keep, Drop, BatchUnlink, ListCurrent, DropRow, BatchRows, At, Abort
  <2> QED
    BY <1>4, <2>1, AttachmentStepSound, AloneStays
<1>5. CASE UNCHANGED memosVars
  BY <1>5 DEF memosVars, LoneRequests, Sound, Careful, AttachmentsOf, At
<1> QED
  BY <1>1, <1>2, <1>3, <1>4, <1>5 DEF MemosNext

LEMMA InitRelations == MemosInit => CommentKeepsPlace /\ LoneRequests
<1> SUFFICES ASSUME MemosInit PROVE CommentKeepsPlace /\ LoneRequests
  OBVIOUS
<1>1. CommentKeepsPlace
  BY DEF MemosInit, CommentKeepsPlace
<1>2. LoneRequests
  BY DEF MemosInit, LoneRequests, Sound, At, Idle
<1> QED
  BY <1>1, <1>2

\* Whatever requests run and fail, a comment is only cut from its memo by a
\* deletion of one of them: setMemoRelationsInternal, DeleteMemo.
THEOREM CommentsStayComments == MemosSpec => []CommentKeepsPlace
<1>1. MemosTypes /\ CommentKeepsPlace /\ [MemosNext]_memosVars
      => MemosTypes' /\ CommentKeepsPlace'
  BY NextMemosTypes, NextComments
<1> QED
  BY <1>1, InitMemosTypes, InitRelations, PTL DEF MemosSpec

\* DeleteMemo leaves nothing that refers to the memo when no request comes in
\* between and a listing shows all its attachments; comments keep their place
\* and the rows their types whatever comes in between.
THEOREM DeletionLeavesNothing == MemosSpec /\ []FewAttachments => []RelationsAreTrue
<1>1. MemosTypes /\ CommentKeepsPlace /\ LoneRequests /\ FewAttachments /\ [MemosNext]_memosVars
      => MemosTypes' /\ CommentKeepsPlace' /\ LoneRequests'
  BY NextMemosTypes, NextComments, NextLone
<1>2. MemosTypes /\ CommentKeepsPlace /\ LoneRequests => RelationsAreTrue
  <2> SUFFICES ASSUME MemosTypes, CommentKeepsPlace, LoneRequests PROVE RelationsAreTrue
    OBVIOUS
  <2>1. MemosTypeOK
    <3>1. \A w \in Workers : /\ request[w].memo \in used \cup {None}
                             /\ request[w].other \in used \cup {None}
                             /\ request[w].drop \subseteq AttachmentIds
      BY DEF MemosTypes, Knows, Request
    <3> QED
      BY <3>1 DEF MemosTypes, MemosTypeOK
  <2>2. NothingLeft
    BY DEF LoneRequests, Sound, NothingLeft
  <2> QED
    BY <2>1, <2>2 DEF RelationsAreTrue
<1> QED
  BY <1>1, <1>2, InitMemosTypes, InitRelations, PTL DEF MemosSpec

===============================================================================
