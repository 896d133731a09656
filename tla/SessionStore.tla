---------------------------- MODULE SessionStore ----------------------------
(***************************************************************************)
(* The credentials of one user: the user row and the two user_setting rows *)
(* that hold refresh tokens and personal access tokens, the in-memory      *)
(* caches in front of them (store/user.go, store/user_setting.go) and the  *)
(* requests that read and change them (server/auth/authenticator.go,       *)
(* server/router/api/v1/auth_service.go and user_service.go).              *)
(*                                                                         *)
(* No lock spans a database call and the cache call that follows it, nor   *)
(* the read and the write of a read-modify-write, so each is a step.  A    *)
(* request is a sequence of store calls carried out by its goroutine; the  *)
(* token ids it mints are fresh UUIDs.  A row's content is the set of the  *)
(* tokens it lists, or for the user row the set of its one status; token   *)
(* expiry (30 days) and the signature of a token are left out.             *)
(*                                                                         *)
(* The caches drop an entry at any time (TTL, eviction): MemoryCache.      *)
(***************************************************************************)
EXTENDS Naturals, FiniteSets, Sequences

CONSTANTS
    Procs,          \* goroutines serving requests
    Requests,       \* [Procs -> SUBSET RequestKinds]: what each one is asked for
    RefreshTokens,  \* refresh token ids
    PATs,           \* personal access token ids
    CacheDrops,     \* TRUE: entries leave the cache by themselves
    MaxRequests,    \* bound on the requests served that may write
    MaxErrors,      \* bound on the database errors
    NoRow,          \* a row the database does not hold
    Miss            \* a key the cache does not hold

RequestKinds == {"SignIn", "SignOut", "RefreshToken", "CreatePAT", "DeletePAT",
                 "UsePAT", "UseCookie", "UseAccessToken", "UpdateUser", "DeleteUser"}

ReadRequests == {"UseCookie", "UseAccessToken"}

ASSUME SessionConstants ==
    /\ Requests \in [Procs -> SUBSET RequestKinds]
    /\ RefreshTokens \cap PATs = {}
    /\ CacheDrops \in BOOLEAN
    /\ MaxRequests \in Nat /\ MaxErrors \in Nat

VARIABLES
    db,         \* the rows, by name
    cache,      \* userCache and userSettingCache, by row
    phase,      \* where each goroutine is in its current store call
    calls,      \* the store calls it still has to make, the current one first
    val,        \* the row it read
    request,    \* the request it is serving
    minted,     \* token ids handed out by util.GenUUID
    requests,   \* requests that may write served so far
    errors,     \* database errors so far
    revoked,    \* tokens whose revocation was answered with success
    live,       \* tokens handed to a client and not revoked since
    failed,     \* tokens whose storing or removing failed, which was answered with success
    raced       \* what a write or a cache fill got wrong, its reading being outdated

vars == <<db, cache, phase, calls, val, request, minted, requests, errors, revoked, live,
          failed, raced>>
Control == <<minted, requests, errors, failed>>
History == <<revoked, live>>

Settings == {"refresh", "pat"}
Rows == {"user"} \cup Settings
Tokens == RefreshTokens \cup PATs
Statuses == {"NORMAL", "ARCHIVED"}
Contents == (SUBSET Tokens) \cup {{s} : s \in Statuses}

\* The two markers are nothing the code stores.
ASSUME SessionMarkers ==
    /\ \A list \in Contents : list # NoRow /\ list # Miss
    /\ NoRow # Miss /\ Miss \notin Tokens

Normal == {"NORMAL"}
NoRequest == [kind |-> "none", tok |-> Miss, new |-> Miss, late |-> FALSE]

-----------------------------------------------------------------------------
(* Store calls *)

\* GetUser by id, which must find a user that is not archived.
User == [do |-> "check", row |-> "user", tok |-> "NORMAL"]
\* GetUser by username: the cache is filled but not consulted.
Login == [do |-> "query", row |-> "user", tok |-> "NORMAL"]
\* GetUserRefreshTokenByID
Token(t) == [do |-> "check", row |-> "refresh", tok |-> t]
\* driver.GetUserByPATHash: the database decides.
PATHash(t) == [do |-> "hash", row |-> "pat", tok |-> t]
\* AddUserRefreshToken, AddUserPersonalAccessToken
Add(r, t) == [do |-> "add", row |-> r, tok |-> t]
\* RemoveUserRefreshToken, RemoveUserPersonalAccessToken
Remove(r, t) == [do |-> "remove", row |-> r, tok |-> t]
\* UpdatePATLastUsed: the list is written back with a new timestamp.
Touch(t) == [do |-> "touch", row |-> "pat", tok |-> t]
\* UpdateUser with a RowStatus
Update(s) == [do |-> "update", row |-> "user", tok |-> s]
\* DeleteUser
Delete == [do |-> "delete", row |-> "user", tok |-> "NORMAL"]

\* Where a call starts.
FirstPhase(c) ==
    CASE c.do \in {"check", "add", "remove", "touch"} -> "get"
      [] c.do \in {"query", "hash"} -> "list"
      [] c.do \in {"update", "delete"} -> "write"

\* Mutant: adding a token replaces the list.
RewrittenFromScratch(c, list) ==
    CASE c.do = "add" -> {c.tok}
      [] c.do = "remove" -> list \ {c.tok}
      [] OTHER -> list

\* What AddUser... / RemoveUser... / UpdatePATLastUsed write for the list they read.
Rewritten(c, list) ==
    CASE c.do = "add" -> list \cup {c.tok}
      [] c.do = "remove" -> list \ {c.tok}
      [] OTHER -> list

Init ==
    /\ db = [r \in Rows |-> IF r = "user" THEN Normal ELSE {}]
    /\ cache = [r \in Rows |-> Miss]
    /\ phase = [p \in Procs |-> "idle"]
    /\ calls = [p \in Procs |-> <<>>]
    /\ val = [p \in Procs |-> {}]
    /\ request = [p \in Procs |-> NoRequest]
    /\ minted = {} /\ requests = 0 /\ errors = 0
    /\ revoked = {} /\ live = {} /\ failed = {} /\ raced = {}

\* What a row lists; a row that is gone lists nothing.
Held(r) == IF db[r] = NoRow THEN {} ELSE db[r]

\* The members on which two lists disagree.
Differing(a, b) == (a \ b) \cup (b \ a)

-----------------------------------------------------------------------------
(* Requests *)

Serve(p, kind, tok, new, plan) ==
    /\ phase[p] = "idle"
    /\ kind \in Requests[p]
    /\ kind \in ReadRequests \/ requests < MaxRequests
    /\ requests' = IF kind \in ReadRequests THEN requests ELSE requests + 1
    /\ request' = [request EXCEPT ![p] =
                      [kind |-> kind, tok |-> tok, new |-> new, late |-> tok \in revoked]]
    /\ calls' = [calls EXCEPT ![p] = plan]
    /\ phase' = [phase EXCEPT ![p] = FirstPhase(Head(plan))]
    /\ minted' = IF new = Miss THEN minted ELSE minted \cup {new}
    /\ UNCHANGED <<db, cache, val, errors, failed, raced, History>>

\* util.GenUUID
Fresh(kind) == kind \ minted
\* What a client may present: any token that was ever handed out, or a copy of it.
Presented(kind) == kind \cap (live \cup revoked)

SignIn(p) ==
    \E t \in Fresh(RefreshTokens) : Serve(p, "SignIn", Miss, t, <<Login, Add("refresh", t)>>)

\* Mutant: rotation leaves the old token in place.
RefreshWithoutRemove(p) ==
    \E old \in Presented(RefreshTokens), new \in Fresh(RefreshTokens) :
        Serve(p, "RefreshToken", old, new, <<Token(old), User, Add("refresh", new)>>)

\* The new token is stored before the old one is removed.
RefreshToken(p) ==
    \E old \in Presented(RefreshTokens), new \in Fresh(RefreshTokens) :
        Serve(p, "RefreshToken", old, new,
              <<Token(old), User, Add("refresh", new), Remove("refresh", old)>>)

\* The access token is checked before the handler runs, here and below.
SignOut(p) ==
    \E t \in Presented(RefreshTokens) :
        Serve(p, "SignOut", t, Miss, <<User, Remove("refresh", t)>>)

CreatePAT(p) ==
    \E t \in Fresh(PATs) : Serve(p, "CreatePAT", Miss, t, <<User, Add("pat", t)>>)

DeletePAT(p) ==
    \E t \in Presented(PATs) : Serve(p, "DeletePAT", t, Miss, <<User, Remove("pat", t)>>)

\* The last-used timestamp is written by a goroutine of its own once the
\* request is let in; the request itself needs nothing more from the store.
UsePAT(p) ==
    \E t \in Presented(PATs) : Serve(p, "UsePAT", t, Miss, <<PATHash(t), User, Touch(t)>>)

\* AuthenticateToUser falls back on the refresh token cookie, without rotating it.
UseCookie(p) ==
    \E t \in Presented(RefreshTokens) : Serve(p, "UseCookie", t, Miss, <<Token(t), User>>)

UseAccessToken(p) == Serve(p, "UseAccessToken", Miss, Miss, <<User>>)

UpdateUser(p) == \E s \in Statuses : Serve(p, "UpdateUser", Miss, Miss, <<Update(s)>>)

DeleteUser(p) == Serve(p, "DeleteUser", Miss, Miss, <<Delete>>)

-----------------------------------------------------------------------------
(* The steps of a store call *)

Call(p) == Head(calls[p])
Row(p) == Call(p).row

\* The request is answered.  With success, one that revokes has told its
\* client so, and one that minted a token has handed it out.
Finish(p, success) ==
    LET q == request[p]
        gone == IF success /\ q.kind \in {"SignOut", "DeletePAT", "RefreshToken"} THEN {q.tok} ELSE {}
        given == IF q.new # Miss /\ success THEN {q.new} ELSE {}
    IN  /\ phase' = [phase EXCEPT ![p] = "idle"]
        /\ calls' = [calls EXCEPT ![p] = <<>>]
        /\ val' = [val EXCEPT ![p] = {}]
        /\ request' = [request EXCEPT ![p] = NoRequest]
        /\ revoked' = revoked \cup gone
        /\ live' = (live \cup given) \ gone

\* On to the next call of the request.
NextCall(p) ==
    LET rest == Tail(calls[p]) IN
    IF rest = <<>> THEN Finish(p, TRUE)
    ELSE /\ phase' = [phase EXCEPT ![p] = FirstPhase(Head(rest))]
         /\ calls' = [calls EXCEPT ![p] = rest]
         /\ val' = [val EXCEPT ![p] = {}]
         /\ UNCHANGED <<request, History>>

\* On to another step of the same call, with what was read.
Continue(p, next, read) ==
    /\ phase' = [phase EXCEPT ![p] = next]
    /\ val' = [val EXCEPT ![p] = read]
    /\ UNCHANGED <<calls, request, History>>

\* Mutant: a hit is written back, which renews its time to live.
CacheGetRenews(p) ==
    /\ phase[p] = "get"
    /\ IF cache[Row(p)] # Miss THEN Continue(p, "refill", cache[Row(p)])
                               ELSE Continue(p, "list", {})
    /\ UNCHANGED <<db, cache, raced, Control>>

\* userCache.Get, userSettingCache.Get
CacheGet(p) ==
    /\ phase[p] = "get"
    /\ IF cache[Row(p)] # Miss THEN Continue(p, "have", cache[Row(p)])
                               ELSE Continue(p, "list", {})
    /\ UNCHANGED <<db, cache, raced, Control>>

\* driver.ListUsers, driver.ListUserSettings: an absent row fills nothing.
ListRow(p) ==
    /\ phase[p] = "list" /\ Call(p).do # "hash"
    /\ IF db[Row(p)] = NoRow THEN Continue(p, "have", {})
                             ELSE Continue(p, "fill", db[Row(p)])
    /\ UNCHANGED <<db, cache, raced, Control>>

CacheSet(p) ==
    /\ cache' = [cache EXCEPT ![Row(p)] = val[p]]
    /\ raced' = raced \cup Differing(val[p], Held(Row(p)))

\* ListX caches what it read, and GetX caches it once more.
CacheFill(p) ==
    /\ phase[p] = "fill"
    /\ CacheSet(p)
    /\ Continue(p, "refill", val[p])
    /\ UNCHANGED <<db, Control>>

CacheRefill(p) ==
    /\ phase[p] = "refill"
    /\ CacheSet(p)
    /\ Continue(p, "have", val[p])
    /\ UNCHANGED <<db, Control>>

\* The row must list the token, or the user be normal.
Check(p) ==
    /\ phase[p] = "have" /\ Call(p).do \in {"check", "query"}
    /\ IF Call(p).tok \in val[p] THEN NextCall(p) ELSE Finish(p, FALSE)
    /\ UNCHANGED <<db, cache, raced, Control>>

\* GetUserByPATHash
CheckHash(p) ==
    /\ phase[p] = "list" /\ Call(p).do = "hash"
    /\ IF db["pat"] # NoRow /\ Call(p).tok \in db["pat"] THEN NextCall(p) ELSE Finish(p, FALSE)
    /\ UNCHANGED <<db, cache, raced, Control>>

\* Mutant: only the cached copy loses a token that is removed.
UpsertKeepsRow(p) ==
    /\ phase[p] = "have" /\ Call(p).do \in {"add", "remove", "touch"}
    /\ LET list == Rewritten(Call(p), val[p]) IN
        /\ db' = IF Call(p).do = "remove" THEN db ELSE [db EXCEPT ![Row(p)] = list]
        /\ Continue(p, "store", list)
    /\ UNCHANGED <<cache, raced, Control>>

\* driver.UpsertUserSetting, whatever happened to the row since it was read.
Upsert(p) ==
    /\ phase[p] = "have" /\ Call(p).do \in {"add", "remove", "touch"}
    /\ LET list == Rewritten(Call(p), val[p]) IN
        /\ db' = [db EXCEPT ![Row(p)] = list]
        /\ raced' = raced \cup Differing(list, Rewritten(Call(p), Held(Row(p))))
        /\ Continue(p, "store", list)
    /\ UNCHANGED <<cache, Control>>

\* Mutant: updating a user that is gone brings it back.
UpdateRowAlways(p) ==
    /\ phase[p] = "write" /\ Call(p).do = "update"
    /\ db' = [db EXCEPT !["user"] = {Call(p).tok}]
    /\ Continue(p, "store", {Call(p).tok})
    /\ UNCHANGED <<cache, raced, Control>>

\* driver.UpdateUser; without a row to update the query returns an error.
UpdateRow(p) ==
    /\ phase[p] = "write" /\ Call(p).do = "update"
    /\ IF db["user"] = NoRow
       THEN Finish(p, FALSE) /\ UNCHANGED db
       ELSE /\ db' = [db EXCEPT !["user"] = {Call(p).tok}]
            /\ Continue(p, "store", {Call(p).tok})
    /\ UNCHANGED <<cache, raced, Control>>

\* Mutant: what is written is not cached.
CacheStoreSkipped(p) ==
    /\ phase[p] = "store"
    /\ NextCall(p)
    /\ UNCHANGED <<db, cache, raced, Control>>

CacheStore(p) ==
    /\ phase[p] = "store"
    /\ CacheSet(p)
    /\ NextCall(p)
    /\ UNCHANGED <<db, Control>>

\* Mutant: the settings of a deleted user stay cached.
DeleteRowsUserOnly(p) ==
    /\ phase[p] = "write" /\ Call(p).do = "delete"
    /\ db' = [r \in Rows |-> NoRow]
    /\ Continue(p, "drop", {"user"})
    /\ UNCHANGED <<cache, raced, Control>>

\* driver.DeleteUser, one transaction: the rows go, and the keys of the
\* settings that existed are returned for the cache.
DeleteRows(p) ==
    /\ phase[p] = "write" /\ Call(p).do = "delete"
    /\ db' = [r \in Rows |-> NoRow]
    /\ Continue(p, "drop", {"user"} \cup {r \in Settings : db[r] # NoRow})
    /\ UNCHANGED <<cache, raced, Control>>

\* deleteUserCache: the user first, then the settings that were deleted.
DropCached(p, r) ==
    /\ phase[p] = "drop"
    /\ r \in val[p] /\ ("user" \in val[p] => r = "user")
    /\ cache' = [cache EXCEPT ![r] = Miss]
    /\ IF val[p] = {r} THEN NextCall(p) ELSE Continue(p, "drop", val[p] \ {r})
    /\ UNCHANGED <<db, raced, Control>>

\* The calls whose failure is answered with success: a sign-in logs that its
\* token was not stored, a rotation that the old one was not removed, and a
\* sign-out ignores it.
Tolerated(p) ==
    \/ request[p].kind = "SignIn" /\ Call(p).do = "add"
    \/ request[p].kind \in {"RefreshToken", "SignOut"} /\ Call(p).do = "remove"

\* A database call fails before it changes anything.
DatabaseError(p) ==
    /\ errors < MaxErrors
    /\ \/ phase[p] \in {"list", "write"}
       \/ phase[p] = "have" /\ Call(p).do \in {"add", "remove", "touch"}
    /\ errors' = errors + 1
    /\ Finish(p, Tolerated(p))
    /\ failed' = IF Tolerated(p) THEN failed \cup {Call(p).tok} ELSE failed
    /\ UNCHANGED <<db, cache, minted, requests, raced>>

\* An entry leaves the cache: it expired or was evicted.
CacheDrop(r) ==
    /\ CacheDrops
    /\ cache[r] # Miss
    /\ cache' = [cache EXCEPT ![r] = Miss]
    /\ UNCHANGED <<db, phase, calls, val, request, raced, Control, History>>

-----------------------------------------------------------------------------

Begin(p) ==
    \/ SignIn(p) \/ RefreshToken(p) \/ SignOut(p)
    \/ CreatePAT(p) \/ DeletePAT(p) \/ UsePAT(p)
    \/ UseCookie(p) \/ UseAccessToken(p) \/ UpdateUser(p) \/ DeleteUser(p)

Step(p) ==
    \/ CacheGet(p) \/ ListRow(p) \/ CacheFill(p) \/ CacheRefill(p)
    \/ Check(p) \/ CheckHash(p) \/ Upsert(p) \/ UpdateRow(p) \/ CacheStore(p)
    \/ DeleteRows(p) \/ (\E r \in Rows : DropCached(p, r))

Next ==
    \/ \E p \in Procs : Begin(p) \/ Step(p) \/ DatabaseError(p)
    \/ \E r \in Rows : CacheDrop(r)

Spec == Init /\ [][Next]_vars

\* A request that was begun is carried on, and no entry outlives its TTL.
Fairness ==
    /\ \A p \in Procs : WF_vars(Step(p))
    /\ \A r \in Rows : WF_vars(CacheDrop(r))

FairSpec == Spec /\ Fairness

-----------------------------------------------------------------------------
(* Properties *)

Phases == {"idle", "get", "list", "fill", "refill", "have", "write", "store", "drop"}

TypeOK ==
    /\ db \in [Rows -> Contents \cup {NoRow}]
    /\ \A r \in Rows : cache[r] # NoRow
    /\ cache \in [Rows -> Contents \cup {Miss}]
    /\ phase \in [Procs -> Phases]
    /\ \A p \in Procs : phase[p] = "idle" <=> calls[p] = <<>>
    /\ minted \subseteq Tokens
    /\ revoked \subseteq minted /\ live \subseteq minted /\ failed \subseteq minted
    /\ raced \subseteq Tokens \cup Statuses

Quiet == \A p \in Procs : phase[p] = "idle"

\* Once the requests have returned the caches disagree with the database only
\* on what a write or a fill got wrong whose reading was outdated.
Coherent ==
    Quiet => \A r \in Rows : cache[r] = Miss \/ Differing(cache[r], Held(r)) \subseteq raced

\* The values of the caches and the rows are those the code stores, and agree.
Consistent == TypeOK /\ Coherent

\* The token a request presented is accepted in this step.
Accepts(p) ==
    /\ request[p].kind \in {"RefreshToken", "UseCookie", "UsePAT"}
    /\ Check(p) /\ Row(p) = "user" /\ Call(p).tok \in val[p]

\* A request that presents a token whose rotation, sign-out or deletion had been
\* answered with success before it began is turned away, with two exceptions:
\* the removal failed, or another request wrote or cached a list it had read
\* before.
RevokedIsRejected ==
    [][\A p \in Procs :
         request[p].late /\ request[p].tok \notin failed \cup raced => ~Accepts(p)]_vars

\* A token that a client holds and nobody revoked is listed in the database, so
\* that it will be accepted, with two exceptions: the sign-in could not store
\* it, or another request wrote a list it had read before.
SessionsKept ==
    Quiet /\ db["user"] # NoRow =>
        \A t \in live \ (failed \cup raced) : \E r \in Settings : t \in Held(r)

\* Whatever stale entry a race left in the cache, once the user row is gone
\* for good the user is locked out for good: the cached copy cannot be renewed.
DeletedUserLockedOut == (db["user"] = NoRow) ~> [](cache["user"] = Miss)

\* A change of status reaches every later request, at the latest when the
\* cached copies of the old one have expired.
StatusSettles == <>[](cache["user"] \in {Miss, db["user"]})

\* What a race left in the cache of the user is gone in the end, and for good.
StaleCopiesGo == DeletedUserLockedOut /\ StatusSettles

=============================================================================
