------------------------------- MODULE Migrator -------------------------------
(***************************************************************************)
(* Database initialisation and upgrade at start-up: store/migrator.go.     *)
(*                                                                         *)
(* One process at a time migrates a database that outlives it.  It may be  *)
(* of any release, and it may stop between any two database calls, by a    *)
(* crash or because the call failed and Migrate returned its error; what   *)
(* its transaction had done is then rolled back.                           *)
(*                                                                         *)
(* A migration file is <<minor, patch>>, for                               *)
(* migration/{driver}/0.{minor}/{patch}__*.sql.  Of the schema only the    *)
(* set of the files whose effect it has matters.  The setting that holds   *)
(* the schema version is read and written by nobody else at that time, so  *)
(* that its cache is left out, and so are the demo seeds.                  *)
(***************************************************************************)
EXTENDS Naturals, Sequences

CONSTANTS
    AllFiles,     \* the migration files of the newest release
    Releases,     \* a release, by the last minor version it has files of
    Repeatable,   \* the files that may be executed twice without an error
    Minimum       \* the version that can be upgraded, 0.22.0 in the code

ASSUME MigratorConstants ==
    /\ AllFiles \subseteq (0 .. 99) \X (0 .. 99)
    /\ Releases \subseteq Nat
    /\ Repeatable \subseteq AllFiles
    /\ Minimum \in Nat \X Nat

VARIABLES
    tables,   \* the memo table exists: IsInitialized
    schema,   \* the files whose effect the schema has
    version,  \* the schema version of the BASIC setting, Empty when it has none
    pc,       \* where Migrate is; "down" when no process runs
    release,  \* the release of the process
    todo,     \* files still to execute
    tx,       \* files executed in the open transaction
    legacy,   \* the database was made before versions were tracked
    torn      \* the commit whose version was not recorded, the process having stopped

database == <<tables, schema, version>>
migratorVars == <<database, pc, release, todo, tx, legacy, torn>>

\* defaultSchemaVersion, which stands for no version as well.
Empty == <<0, 0>>

\* version.IsVersionGreaterThan
Greater(v, w) == v[1] > w[1] \/ (v[1] = w[1] /\ v[2] > w[2])

\* getSchemaVersionOfMigrateScript: 0.{minor}.{patch + 1}
VersionOf(f) == <<f[1], f[2] + 1>>

\* A release has files of its own, not older than what it upgrades; 0.22.0 is
\* past the minor versions whose directories do not sort as numbers.
ASSUME MigratorReleases ==
    /\ Minimum[1] >= 10
    /\ \A r \in Releases : \E f \in AllFiles : f[1] = r /\ ~Greater(Minimum, VersionOf(f))

\* What is embedded in the binary.
Files(r) == {f \in AllFiles : f[1] <= r}

\* GetCurrentSchemaVersion: the greatest version of a file.
Current(r) ==
    CHOOSE v \in {VersionOf(f) : f \in Files(r)} \cup {Empty} :
        \A f \in Files(r) : ~Greater(VersionOf(f), v)

\* The directory names as slices.Sort sees them.
Digits(n) == IF n < 10 THEN <<n>> ELSE <<n \div 10, n % 10>>

LexBefore(s, t) ==
    \/ Len(s) < Len(t) /\ SubSeq(t, 1, Len(s)) = s
    \/ \E i \in 1 .. Len(s) :
        /\ i <= Len(t) /\ s[i] < t[i]
        /\ \A j \in 1 .. i - 1 : s[j] = t[j]

\* Paths are compared as strings; the patch number has two digits.
PathBefore(f, g) ==
    LexBefore(Digits(f[1]), Digits(g[1])) \/ (f[1] = g[1] /\ f[2] < g[2])

\* shouldApplyMigration
ShouldApply(f, current, target) ==
    Greater(VersionOf(f), current) /\ ~Greater(VersionOf(f), target)

\* The files applyMigrations executes ...
Pending(r) == {f \in Files(r) : ShouldApply(f, version, Current(r))}

\* ... in the order of their paths, which slices.Sort puts them in.
First(files) == CHOOSE f \in files : \A g \in files \ {f} : PathBefore(f, g)

\* Databases that earlier releases left behind, and none at all.
MigratorInit ==
    /\ \/ tables = FALSE /\ schema = {} /\ version = Empty /\ legacy = FALSE
       \/ \E f \in AllFiles :
            /\ tables = TRUE
            /\ schema = {g \in AllFiles : ~Greater(g, f)}
            /\ legacy = ~Greater(VersionOf(f), Minimum)
            /\ version = IF legacy THEN Empty ELSE VersionOf(f)
    /\ pc = "down"
    /\ release = 0
    /\ todo = {} /\ tx = {}
    /\ torn = "none"

-----------------------------------------------------------------------------

\* A process of any release starts.
Boot(r) ==
    /\ pc = "down"
    /\ pc' = "premigrate"
    /\ release' = r
    /\ UNCHANGED <<database, todo, tx, legacy, torn>>

Step(from, to) == pc = from /\ pc' = to

\* preMigrate
Initialized ==
    /\ Step("premigrate", IF tables THEN "minimum" ELSE "create")
    /\ UNCHANGED <<database, release, todo, tx, legacy, torn>>

\* LATEST.sql in one transaction.
Create ==
    /\ Step("create", "stampNew")
    /\ tables' = TRUE
    /\ schema' = Files(release)
    /\ UNCHANGED <<version, release, todo, tx, legacy, torn>>

\* Mutant: a new database keeps the default version.
StampNewForgotten ==
    /\ Step("stampNew", "minimum")
    /\ UNCHANGED <<database, release, todo, tx, legacy, torn>>

\* updateCurrentSchemaVersion, after the commit.
StampNew ==
    /\ Step("stampNew", "minimum")
    /\ version' = Current(release)
    /\ UNCHANGED <<tables, schema, release, todo, tx, legacy, torn>>

\* checkMinimumUpgradeVersion; the database is initialised by now.
TooOld == version = Empty \/ Greater(Minimum, version)

CheckMinimum ==
    /\ Step("minimum", IF TooOld THEN "tooOld" ELSE "compare")
    /\ UNCHANGED <<database, release, todo, tx, legacy, torn>>

\* Mutant: an older release takes a newer database.
CompareUnguarded ==
    /\ Step("compare", IF version = Empty \/ Greater(Current(release), version) THEN "apply"
                       ELSE "serving")
    /\ todo' = IF pc' = "apply" THEN Pending(release) ELSE {}
    /\ UNCHANGED <<database, release, tx, legacy, torn>>

\* A newer database is refused; an older one is migrated.
Compare ==
    /\ Step("compare", IF Greater(version, Current(release)) THEN "downgrade"
                       ELSE IF version = Empty \/ Greater(Current(release), version) THEN "apply"
                       ELSE "serving")
    /\ todo' = IF pc' = "apply" THEN Pending(release) ELSE {}
    /\ UNCHANGED <<database, release, tx, legacy, torn>>

\* One file, in the transaction.  Adding a column or a table that is there
\* already is an error: everything is rolled back and Migrate returns.
Execute ==
    /\ pc = "apply" /\ todo # {}
    /\ LET f == First(todo)
           fails == f \in schema \ Repeatable
       IN /\ pc'   = IF fails THEN "duplicate" ELSE "apply"
          /\ tx'   = IF fails THEN {} ELSE tx \cup {f}
          /\ todo' = IF fails THEN {} ELSE todo \ {f}
    /\ UNCHANGED <<database, release, legacy, torn>>

Commit ==
    /\ todo = {}
    /\ Step("apply", "stamp")
    /\ schema' = schema \cup tx
    /\ tx' = {}
    /\ UNCHANGED <<tables, version, release, todo, legacy, torn>>

\* Mutant: the new version is not recorded.
StampForgotten ==
    /\ Step("stamp", "serving")
    /\ UNCHANGED <<database, release, todo, tx, legacy, torn>>

\* updateCurrentSchemaVersion, after the commit: what the schema has is on record
\* again, unless a newer release had committed.
Stamp ==
    /\ Step("stamp", "serving")
    /\ version' = Current(release)
    /\ torn' = IF schema = Files(release) THEN "none" ELSE torn
    /\ UNCHANGED <<tables, schema, release, todo, tx, legacy>>

\* The process ends: Migrate returned an error, or the server was stopped.
Stop ==
    /\ pc \in {"tooOld", "downgrade", "duplicate", "serving"}
    /\ pc' = "down"
    /\ UNCHANGED <<database, release, todo, tx, legacy, torn>>

\* It crashes, or a database call fails: an open transaction is rolled back, and
\* a version that was not recorded yet stays so.
Crash ==
    /\ pc \in {"premigrate", "create", "stampNew", "minimum", "compare", "apply", "stamp"}
    /\ pc' = "down"
    /\ todo' = {} /\ tx' = {}
    /\ torn' = CASE pc = "stampNew" -> "created"
                 [] pc = "stamp" -> "migrated"
                 [] OTHER -> torn
    /\ UNCHANGED <<database, release, legacy>>

MigratorNext ==
    \/ \E r \in Releases : Boot(r)
    \/ Initialized \/ Create \/ StampNew \/ CheckMinimum \/ Compare
    \/ Execute \/ Commit \/ Stamp
    \/ Stop \/ Crash

MigratorSpec == MigratorInit /\ [][MigratorNext]_migratorVars

-----------------------------------------------------------------------------
(* Properties *)

MigratorTypeOK ==
    /\ tables \in BOOLEAN
    /\ schema \subseteq AllFiles
    /\ version \in {VersionOf(f) : f \in AllFiles} \cup {Empty}
    /\ pc \in {"down", "premigrate", "create", "stampNew", "minimum", "compare", "apply",
               "stamp", "tooOld", "downgrade", "duplicate", "serving"}
    /\ release \in Releases \cup {0}
    /\ todo \subseteq AllFiles /\ tx \subseteq AllFiles
    /\ tables \/ schema = {}
    /\ torn \in {"none", "created", "migrated"}

\* Nobody but "a pre-v0.22 legacy installation" is told that it is too old to
\* upgrade: "empty schema version on an initialized DB means" just that.
RejectedOnlyIfLegacy == pc = "tooOld" => legacy

\* That refusal has one more reason, a first start that stopped before it recorded
\* the version; such a database is refused by every later start, and never
\* migrated or served.
RefusedForAReason ==
    /\ pc = "tooOld" => legacy \/ torn = "created"
    /\ legacy \/ torn = "created" => pc \in {"down", "premigrate", "minimum", "tooOld"}

\* "Start a transaction to apply migrations atomically": no migration is executed
\* on a schema that has its effect already, which fails and leaves a database no
\* release can open.
AppliedOnce == pc # "duplicate" /\ todo \cap schema = {}

\* "Files sorted lexicographically and applied in order": the order of their
\* paths is that of their versions, after what the schema has, for every
\* database the code agrees to upgrade.  (Before 0.22 it is not: 0.10 < 0.9.)
AppliedInOrder ==
    pc = "apply" /\ todo # {} => \A g \in schema \cup tx : Greater(First(todo), g)

\* Both, for a database and processes of the right types: the migrations of a release are
\* executed once each, in the order of their versions, unless they were committed by a
\* process that stopped before it recorded the version.
AppliedOnceInOrder == MigratorTypeOK /\ (torn # "migrated" => AppliedOnce /\ AppliedInOrder)

\* A server only ever runs on exactly the schema its release was built for:
\* a fresh one, an upgraded one, never a newer one nor one left half way.  After
\* a process that stopped like that it may have more than that, never less.
ServesItsSchema ==
    pc = "serving" =>
        /\ version = Current(release) /\ Files(release) \subseteq schema
        /\ torn # "migrated" => schema = Files(release)

\* However a schema came about, every migration of the release that serves it ran once and in order,
\* and no database is refused but for a reason.
SchemaServed == AppliedOnceInOrder /\ ServesItsSchema /\ RefusedForAReason

=============================================================================
