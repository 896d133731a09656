-------------------------- MODULE SessionStoreProofs ---------------------------
(***************************************************************************)
(* What the credential store guarantees to any number of requests at once, *)
(* whatever the tokens, however often the database fails and whenever the  *)
(* caches drop an entry: Consistent, SessionsKept and RevokedIsRejected.   *)
(***************************************************************************)
EXTENDS SessionStore, TLAPS

-----------------------------------------------------------------------------
(* The calls of a request *)

\* The requests that present a token and are turned away without it.
Presenting == {"RefreshToken", "UseCookie", "UsePAT"}

\* What a request that rotates, creates or removes a token still has to do.
Changing(q, cs) ==
    \/ /\ q.kind = "SignIn" /\ q.new \in RefreshTokens
       /\ cs \in {<<Login, Add("refresh", q.new)>>, <<Add("refresh", q.new)>>}
    \/ /\ q.kind = "RefreshToken" /\ q.new \in RefreshTokens
       /\ q.tok \in RefreshTokens \ {q.new}
       /\ cs \in {<<Token(q.tok), User, Add("refresh", q.new), Remove("refresh", q.tok)>>,
                  <<User, Add("refresh", q.new), Remove("refresh", q.tok)>>,
                  <<Add("refresh", q.new), Remove("refresh", q.tok)>>,
                  <<Remove("refresh", q.tok)>>}
    \/ /\ q.kind = "SignOut" /\ q.tok \in RefreshTokens /\ q.new = Miss
       /\ cs \in {<<User, Remove("refresh", q.tok)>>, <<Remove("refresh", q.tok)>>}
    \/ /\ q.kind = "CreatePAT" /\ q.new \in PATs
       /\ cs \in {<<User, Add("pat", q.new)>>, <<Add("pat", q.new)>>}
    \/ /\ q.kind = "DeletePAT" /\ q.tok \in PATs /\ q.new = Miss
       /\ cs \in {<<User, Remove("pat", q.tok)>>, <<Remove("pat", q.tok)>>}

\* What a request that is let in, or that changes the user, still has to do.
Using(q, cs) ==
    /\ q.new = Miss
    /\ \/ /\ q.kind = "UsePAT" /\ q.tok \in PATs
          /\ cs \in {<<PATHash(q.tok), User, Touch(q.tok)>>, <<User, Touch(q.tok)>>,
                     <<Touch(q.tok)>>}
       \/ /\ q.kind = "UseCookie" /\ q.tok \in RefreshTokens
          /\ cs \in {<<Token(q.tok), User>>, <<User>>}
       \/ q.kind = "UseAccessToken" /\ cs = <<User>>
       \/ q.kind = "UpdateUser" /\ cs \in {<<Update(s)>> : s \in Statuses}
       \/ q.kind = "DeleteUser" /\ cs = <<Delete>>

Planned(q, cs) == Changing(q, cs) \/ Using(q, cs)

-----------------------------------------------------------------------------
(* The invariant *)

\* What each row may list.
Lists(r) ==
    IF r = "refresh" THEN SUBSET RefreshTokens
    ELSE IF r = "pat" THEN SUBSET PATs ELSE {{s} : s \in Statuses}

Busy(p) == phase[p] # "idle"
Listed(t) == \E r \in Settings : t \in Held(r)
Wrong == failed \cup raced
UserStays == db["user"] # NoRow

Reads == {"check", "query", "add", "remove", "touch"}
Writes == {"add", "remove", "touch", "update"}
Revoking == {"SignOut", "DeletePAT", "RefreshToken"}

RowsTyped ==
    \A r \in Rows : /\ db[r] = NoRow \/ db[r] \in Lists(r)
                    /\ cache[r] = Miss \/ cache[r] \in Lists(r)

\* Every variable has its type and an entry for every goroutine.
Typed ==
    /\ TypeOK /\ RowsTyped
    /\ DOMAIN calls = Procs /\ DOMAIN val = Procs /\ DOMAIN request = Procs

\* Each phase belongs to a kind of call and to what was read for it.
Stage(p) ==
    /\ phase[p] = "get" => Call(p).do \in Reads
    /\ phase[p] = "list" => Call(p).do \in Reads \cup {"hash"}
    /\ phase[p] \in {"fill", "refill"} => Call(p).do \in Reads /\ val[p] \in Lists(Row(p))
    /\ phase[p] = "have" => Call(p).do \in Reads /\ val[p] \in Lists(Row(p)) \cup {{}}
    /\ phase[p] = "write" => Call(p).do \in {"update", "delete"}
    /\ phase[p] = "store" => Call(p).do \in Writes /\ val[p] \in Lists(Row(p))
    /\ phase[p] = "drop" => Call(p).do = "delete" /\ val[p] \subseteq Rows

\* The token a request presented was handed out; the one it minted nobody has yet.
Asked(p) ==
    /\ request[p].tok \in minted \cup {Miss}
    /\ request[p].kind \in Revoking => request[p].tok \in minted
    /\ request[p].late => request[p].tok \in revoked
    /\ request[p].new # Miss => request[p].new \in minted \ (live \cup revoked)

\* A minted token is in its row once it was added, unless a write with an old reading took it out.
Stored(p) ==
    /\ request[p].new # Miss /\ request[p].new \notin Wrong /\ UserStays
    /\ (phase[p] = "store" /\ Call(p).do = "add") \/ Call(p).do = "remove"
    => Listed(request[p].new)

\* A removed token is in no row, unless a write with an old reading put it back.
Removed(p) ==
    phase[p] = "store" /\ Call(p).do = "remove" /\ Call(p).tok \notin Wrong =>
        Call(p).tok \notin val[p] /\ \A r \in Settings : Call(p).tok \notin Held(r)

IsLate(p) ==
    request[p].kind \in Presenting /\ request[p].late /\ request[p].tok \notin Wrong

\* A request that came late with its token gets no further than its first call.
Turned(p) ==
    IsLate(p) =>
        /\ Call(p).do \in {"check", "hash"} /\ Row(p) \in Settings
        /\ Call(p).tok = request[p].tok
        /\ phase[p] \in {"fill", "refill", "have"} => request[p].tok \notin val[p]

Own(p) ==
    Busy(p) =>
        /\ Planned(request[p], calls[p])
        /\ Stage(p) /\ Asked(p) /\ Stored(p) /\ Removed(p) /\ Turned(p)

\* Nobody else knows of the token a request mints.
NoClash ==
    \A p, q \in Procs :
        Busy(p) /\ Busy(q) /\ request[p].new # Miss =>
            request[q].tok # request[p].new /\ (q # p => request[q].new # request[p].new)

\* Only a row that is being written may disagree with its cached copy on something not in raced.
Caching(r) ==
    \/ cache[r] = Miss
    \/ Differing(cache[r], Held(r)) \subseteq raced
    \/ \E p \in Procs : phase[p] = "store" /\ Row(p) = r
    \/ \E p \in Procs : phase[p] = "drop" /\ r \in val[p]

Removing(t) == \E p \in Procs : phase[p] = "store" /\ Call(p).do = "remove" /\ Call(p).tok = t

\* A token a client holds is in a row, or its revocation is about to be answered.
Kept == UserStays => \A t \in live \ Wrong : Listed(t) \/ Removing(t)

\* A token whose revocation was answered is in no row and no cached copy.
Gone ==
    \A t \in revoked \ Wrong, r \in Settings :
        t \notin Held(r) /\ (cache[r] = Miss \/ t \notin cache[r])

Sound ==
    /\ Typed /\ NoClash /\ Kept /\ Gone
    /\ \A r \in Rows : Caching(r)
    /\ \A p \in Procs : Own(p)

-----------------------------------------------------------------------------
(* What the plan of a request says of its next call *)

\* What each call does, to which row and with which token.
LEMMA CallFields ==
    /\ User.do = "check" /\ User.row = "user" /\ User.tok = "NORMAL"
    /\ Login.do = "query" /\ Login.row = "user"
    /\ Delete.do = "delete" /\ Delete.row = "user"
    /\ \A t : /\ Token(t).do = "check" /\ Token(t).row = "refresh" /\ Token(t).tok = t
              /\ PATHash(t).do = "hash" /\ PATHash(t).row = "pat" /\ PATHash(t).tok = t
              /\ Touch(t).do = "touch" /\ Touch(t).row = "pat"
              /\ Update(t).do = "update" /\ Update(t).row = "user" /\ Update(t).tok = t
    /\ \A r, t : /\ Add(r, t).do = "add" /\ Add(r, t).row = r /\ Add(r, t).tok = t
                 /\ Remove(r, t).do = "remove" /\ Remove(r, t).row = r /\ Remove(r, t).tok = t
BY DEF User, Login, Delete, Token, PATHash, Touch, Update, Add, Remove

LEMMA FirstOfCalls ==
    ASSUME NEW a, NEW b, NEW c, NEW d
    PROVE  /\ <<a>> # <<>> /\ Head(<<a>>) = a /\ Tail(<<a>>) = <<>>
           /\ <<a, b>> # <<>> /\ Head(<<a, b>>) = a /\ Tail(<<a, b>>) = <<b>>
           /\ <<a, b, c>> # <<>> /\ Head(<<a, b, c>>) = a /\ Tail(<<a, b, c>>) = <<b, c>>
           /\ <<a, b, c, d>> # <<>> /\ Head(<<a, b, c, d>>) = a
           /\ Tail(<<a, b, c, d>>) = <<b, c, d>>
OBVIOUS

\* A request's plan, by its current call: what is left when the call is made.
AtCall(q, c, rest) ==
    /\ rest # <<>> => Planned(q, rest) /\ c.do \in {"check", "query", "hash", "add"}
    /\ c.do \in Reads \cup {"hash", "update", "delete"} /\ c.row \in Rows
    /\ c.do = "hash" => c.row = "pat" /\ c.tok \in PATs
    /\ c.do \in {"query", "update", "delete"} => c.row = "user"
    /\ c.do = "add" =>
        /\ c.tok = q.new
        /\ \/ c.row = "refresh" /\ c.tok \in RefreshTokens
           \/ c.row = "pat" /\ c.tok \in PATs
        /\ rest = <<>> => q.kind \in {"SignIn", "CreatePAT"}
    /\ c.do = "remove" =>
        /\ c.tok = q.tok /\ rest = <<>>
        /\ \/ c.row = "refresh" /\ c.tok \in RefreshTokens
              /\ q.kind \in {"SignOut", "RefreshToken"}
           \/ c.row = "pat" /\ c.tok \in PATs /\ q.kind = "DeletePAT"
        /\ \/ q.new = Miss
           \/ q.kind = "RefreshToken" /\ q.new \in RefreshTokens \ {q.tok}
    /\ c.do = "touch" => c.row = "pat" /\ q.kind = "UsePAT" /\ rest = <<>>
    /\ c.do = "update" => c.tok \in Statuses /\ q.kind = "UpdateUser" /\ rest = <<>>
    /\ c.do = "delete" => q.kind = "DeleteUser" /\ rest = <<>>
    /\ c.do \in {"check", "query", "hash", "touch", "update", "delete"} /\ rest = <<>> =>
        /\ q.new = Miss
        /\ q.kind \in {"UseCookie", "UseAccessToken", "UsePAT", "UpdateUser", "DeleteUser"}
        /\ q.kind = "DeleteUser" <=> c.do = "delete"
    /\ rest # <<>> /\ q.kind = "RefreshToken" /\ Head(rest).do = "remove" =>
        c.do = "add" /\ c.row = "refresh"

LEMMA CallOfPlan ==
    ASSUME NEW q, NEW cs, Planned(q, cs)
    PROVE  cs # <<>> /\ AtCall(q, Head(cs), Tail(cs))
<1> USE FirstOfCalls, CallFields DEF Reads, Rows, Settings, AtCall
<1>1. CASE q.kind = "SignIn" /\ Changing(q, cs)
  <2>1. CASE cs = <<Login, Add("refresh", q.new)>>
    BY <1>1, <2>1 DEF Planned, Changing
  <2>2. CASE cs = <<Add("refresh", q.new)>>
    BY <1>1, <2>2 DEF Planned, Changing
  <2> QED
    BY <1>1, <2>1, <2>2 DEF Changing
<1>2. CASE q.kind = "RefreshToken" /\ Changing(q, cs)
  <2>1. CASE cs = <<Token(q.tok), User, Add("refresh", q.new), Remove("refresh", q.tok)>>
    BY <1>2, <2>1 DEF Planned, Changing
  <2>2. CASE cs = <<User, Add("refresh", q.new), Remove("refresh", q.tok)>>
    BY <1>2, <2>2 DEF Planned, Changing
  <2>3. CASE cs = <<Add("refresh", q.new), Remove("refresh", q.tok)>>
    BY <1>2, <2>3 DEF Planned, Changing
  <2>4. CASE cs = <<Remove("refresh", q.tok)>>
    BY <1>2, <2>4 DEF Planned, Changing
  <2> QED
    BY <1>2, <2>1, <2>2, <2>3, <2>4 DEF Changing
<1>3. CASE q.kind = "SignOut" /\ Changing(q, cs)
  <2>1. CASE cs = <<User, Remove("refresh", q.tok)>>
    BY <1>3, <2>1 DEF Planned, Changing
  <2>2. CASE cs = <<Remove("refresh", q.tok)>>
    BY <1>3, <2>2 DEF Planned, Changing
  <2> QED
    BY <1>3, <2>1, <2>2 DEF Changing
<1>4. CASE q.kind = "CreatePAT" /\ Changing(q, cs)
  <2>1. CASE cs = <<User, Add("pat", q.new)>>
    BY <1>4, <2>1 DEF Planned, Changing
  <2>2. CASE cs = <<Add("pat", q.new)>>
    BY <1>4, <2>2 DEF Planned, Changing
  <2> QED
    BY <1>4, <2>1, <2>2 DEF Changing
<1>5. CASE q.kind = "DeletePAT" /\ Changing(q, cs)
  <2>1. CASE cs = <<User, Remove("pat", q.tok)>>
    BY <1>5, <2>1 DEF Planned, Changing
  <2>2. CASE cs = <<Remove("pat", q.tok)>>
    BY <1>5, <2>2 DEF Planned, Changing
  <2> QED
    BY <1>5, <2>1, <2>2 DEF Changing
<1>6. CASE q.kind = "UsePAT" /\ Using(q, cs)
  <2>1. CASE cs = <<PATHash(q.tok), User, Touch(q.tok)>>
    BY <1>6, <2>1 DEF Planned, Using
  <2>2. CASE cs = <<User, Touch(q.tok)>>
    BY <1>6, <2>2 DEF Planned, Using
  <2>3. CASE cs = <<Touch(q.tok)>>
    BY <1>6, <2>3 DEF Planned, Using
  <2> QED
    BY <1>6, <2>1, <2>2, <2>3 DEF Using
<1>7. CASE q.kind = "UseCookie" /\ Using(q, cs)
  <2>1. CASE cs = <<Token(q.tok), User>>
    BY <1>7, <2>1 DEF Planned, Using
  <2>2. CASE cs = <<User>>
    BY <1>7, <2>2 DEF Planned, Using
  <2> QED
    BY <1>7, <2>1, <2>2 DEF Using
<1>8. CASE q.kind \in {"UseAccessToken", "UpdateUser", "DeleteUser"} /\ Using(q, cs)
  <2>1. CASE q.kind = "UseAccessToken"
    <3>1. cs = <<User>> /\ q.new = Miss
      BY <1>8, <2>1 DEF Using
    <3> QED
      BY <2>1, <3>1
  <2>2. CASE q.kind = "UpdateUser"
    <3>1. PICK s \in Statuses : cs = <<Update(s)>>
      BY <1>8, <2>2 DEF Using
    <3> QED
      BY <1>8, <2>2, <3>1 DEF Using
  <2>3. CASE q.kind = "DeleteUser"
    <3>1. cs = <<Delete>> /\ q.new = Miss
      BY <1>8, <2>3 DEF Using
    <3> QED
      BY <2>3, <3>1
  <2> QED
    BY <1>8, <2>1, <2>2, <2>3
<1> QED
  BY <1>1, <1>2, <1>3, <1>4, <1>5, <1>6, <1>7, <1>8 DEF Planned, Changing, Using

-----------------------------------------------------------------------------
(* The rows and the caches *)

LEMMA FirstPhases ==
    ASSUME NEW c, c.do \in Reads \cup {"hash", "update", "delete"}
    PROVE  /\ FirstPhase(c) \in {"get", "list", "write"}
           /\ FirstPhase(c) = "get" => c.do \in Reads
           /\ FirstPhase(c) = "list" => c.do \in Reads \cup {"hash"}
           /\ FirstPhase(c) = "write" => c.do \in {"update", "delete"}
BY DEF Reads, FirstPhase

\* Rows that hold what they may list are rows of Contents, and no marker is among them.
LEMMA ListsAreContents ==
    ASSUME NEW r \in Rows
    PROVE  /\ Lists(r) \subseteq Contents
           /\ \A list \in Lists(r) : list # NoRow /\ list # Miss
<1>1. Lists(r) \subseteq Contents
  BY DEF Lists, Contents, Tokens
<1> QED
  BY <1>1, SessionMarkers DEF SessionMarkers

\* A cached copy is a row's content, so that the caches have their type.
LEMMA CachesAreTyped ==
    ASSUME RowsTyped, cache = [r \in Rows |-> cache[r]],
           \A r \in Rows : cache[r] = Miss \/ cache[r] \in Lists(r)
    PROVE  cache \in [Rows -> Contents \cup {Miss}] /\ \A r \in Rows : cache[r] # NoRow
BY ListsAreContents, SessionMarkers DEF SessionMarkers

LEMMA RowOfToken ==
    ASSUME NEW r \in Settings, NEW list \in Lists(r), NEW t \in list
    PROVE  /\ t \in Tokens
           /\ t \in RefreshTokens => r = "refresh"
           /\ t \in PATs => r = "pat"
BY SessionConstants DEF SessionConstants, Lists, Settings, Tokens

LEMMA InitIsSound == Init => Sound
<1> SUFFICES ASSUME Init PROVE Sound
  OBVIOUS
<1>1. /\ minted = {} /\ revoked = {} /\ live = {} /\ failed = {} /\ raced = {}
      /\ \A q \in Procs : phase[q] = "idle" /\ calls[q] = <<>>
  BY DEF Init
<1>2. \A r \in Rows : cache[r] = Miss /\ db[r] \in Lists(r)
  BY DEF Init, Lists, Normal, Statuses, Rows, Settings
<1>3. /\ db = [r \in Rows |-> db[r]] /\ cache = [r \in Rows |-> cache[r]]
      /\ phase = [q \in Procs |-> "idle"]
      /\ DOMAIN calls = Procs /\ DOMAIN val = Procs /\ DOMAIN request = Procs
  BY DEF Init
<1>4. db \in [Rows -> Contents \cup {NoRow}]
  BY <1>2, <1>3, ListsAreContents
<1>5. RowsTyped /\ cache \in [Rows -> Contents \cup {Miss}] /\ \A r \in Rows : cache[r] # NoRow
  <2>1. RowsTyped
    BY <1>2 DEF RowsTyped
  <2> QED
    BY <1>2, <1>3, <2>1, CachesAreTyped
<1>6. Typed
  BY <1>1, <1>3, <1>4, <1>5 DEF Typed, TypeOK, Phases
<1>7. NoClash /\ Kept /\ Gone /\ \A q \in Procs : Own(q)
  BY <1>1 DEF NoClash, Kept, Gone, Own, Busy
<1>8. \A r \in Rows : Caching(r)
  BY <1>2 DEF Caching
<1> QED
  BY <1>6, <1>7, <1>8 DEF Sound

-----------------------------------------------------------------------------
(* What a step of one goroutine leaves to the others *)

\* Only p moves, and what went wrong or was revoked stays so.
OnlyMoves(p) ==
    /\ \A q \in Procs \ {p} : /\ phase'[q] = phase[q] /\ calls'[q] = calls[q]
                              /\ val'[q] = val[q] /\ request'[q] = request[q]
    /\ raced \subseteq raced' /\ failed \subseteq failed' /\ revoked \subseteq revoked'
    /\ minted' = minted
    /\ live' \subseteq live \cup ({request[p].new} \ {Miss})
    /\ revoked' \subseteq revoked \cup {request[p].tok}

\* What a step does to the rows and the caches, but for what it gets wrong.
Affects(p) ==
    /\ UserStays' => UserStays
    /\ UserStays' =>
        \A t \in Tokens : t \notin raced' /\ Listed(t) =>
            \/ Listed(t)'
            \/ /\ phase[p] # "store" /\ Call(p).do = "remove" /\ Call(p).tok = t
               /\ phase'[p] = "store" /\ calls'[p] = calls[p]
    /\ \A t \in Tokens, r \in Settings : t \notin raced' /\ t \in Held(r)' =>
            t \in Held(r) \/ (Call(p).do = "add" /\ Call(p).tok = t)
    /\ \A t \in Tokens, r \in Settings : t \notin raced' /\ cache'[r] # Miss /\ t \in cache'[r] =>
            (cache[r] # Miss /\ t \in cache[r]) \/ t \in Held(r)

\* The call a busy goroutine is at, by its plan.
LEMMA CallAtHand ==
    ASSUME NEW p \in Procs, Sound, Busy(p)
    PROVE  /\ calls[p] # <<>> /\ AtCall(request[p], Call(p), Tail(calls[p]))
           /\ Row(p) \in Rows /\ Stage(p) /\ Asked(p) /\ Stored(p) /\ Removed(p) /\ Turned(p)
           /\ Call(p).do = "add" => Call(p).tok = request[p].new /\ Call(p).tok \in Tokens
           /\ Call(p).do = "remove" => /\ Call(p).tok = request[p].tok /\ Call(p).tok \in Tokens
                                       /\ Tail(calls[p]) = <<>> /\ request[p].kind \in Revoking
           /\ Call(p).do \in {"add", "remove", "touch"} => Row(p) \in Settings
           /\ Call(p).do \in {"query", "update", "delete"} => Row(p) = "user"
<1>1. Own(p)
  BY DEF Sound
<1>2. calls[p] # <<>> /\ AtCall(request[p], Call(p), Tail(calls[p]))
  BY <1>1, CallOfPlan DEF Own, Call
<1>3. Stage(p) /\ Asked(p) /\ Stored(p) /\ Removed(p) /\ Turned(p)
  BY <1>1 DEF Own
<1> QED
  BY <1>2, <1>3 DEF AtCall, Row, Tokens, Settings, Revoking

LEMMA TokensAreNotMiss == \A t \in Tokens : t # Miss
BY SessionMarkers DEF SessionMarkers

LEMMA OthersStayOwn ==
    ASSUME NEW p \in Procs, Busy(p), Sound, OnlyMoves(p), Affects(p), NEW q \in Procs \ {p}
    PROVE  Own(q)'
<1>1. /\ phase'[q] = phase[q] /\ calls'[q] = calls[q] /\ val'[q] = val[q] /\ request'[q] = request[q]
      /\ Wrong \subseteq Wrong'
  BY DEF OnlyMoves, Wrong
<1> SUFFICES ASSUME Busy(q) PROVE Own(q)'
  BY <1>1 DEF Own, Busy
<1>2. /\ Call(q)' = Call(q) /\ Row(q)' = Row(q)
  BY <1>1 DEF Call, Row
<1>3. Planned(request[q], calls[q]) /\ Stage(q) /\ Asked(q) /\ Stored(q) /\ Removed(q) /\ Turned(q)
  BY DEF Sound, Own
<1>4. /\ request[p].new # Miss => /\ request[q].tok # request[p].new
                                  /\ request[q].new # request[p].new
      /\ request[q].new # Miss => /\ request[p].tok # request[q].new
                                  /\ request[p].new # request[q].new
  BY DEF Sound, NoClash
<1>5. minted \subseteq Tokens /\ minted' = minted
  BY DEF Sound, Typed, TypeOK, OnlyMoves
<1>6. Planned(request[q], calls[q])' /\ Stage(q)'
  <2>1. Planned(request[q], calls[q])'
    BY <1>1, <1>3 DEF Planned, Changing, Using
  <2>2. Stage(q)'
    BY <1>1, <1>2, <1>3 DEF Stage, Lists
  <2> QED
    BY <2>1, <2>2
<1>7. Asked(q)'
  <2>1. request[q].new # Miss => request[q].new \notin live' \cup revoked'
    BY <1>3, <1>4 DEF Asked, OnlyMoves
  <2>2. revoked \subseteq revoked'
    BY DEF OnlyMoves
  <2> QED
    BY <1>1, <1>3, <1>5, <2>1, <2>2 DEF Asked
<1>8. Stored(q)'
  <2> SUFFICES ASSUME request[q].new # Miss, request[q].new \notin Wrong', UserStays',
                      (phase[q] = "store" /\ Call(q).do = "add") \/ Call(q).do = "remove"
               PROVE  Listed(request[q].new)'
    BY <1>1, <1>2 DEF Stored
  <2> DEFINE t == request[q].new
  <2>1. t \in Tokens /\ t \notin raced'
    BY <1>3, <1>5 DEF Asked, Wrong
  <2>2. Listed(t)
    BY <1>1, <1>3 DEF Stored, Affects
  <2>3. Call(p).do = "remove" => Call(p).tok # t
    BY <1>4, CallAtHand
  <2>4. \E r \in Settings : t \in Held(r)'
    <3> HIDE DEF t
    <3> QED
      BY <2>1, <2>2, <2>3 DEF Affects, Listed
  <2> QED
    BY <1>1, <2>4 DEF Listed
<1>9. Removed(q)'
  <2> DEFINE t == Call(q).tok
  <2> SUFFICES ASSUME phase[q] = "store", Call(q).do = "remove", t \notin Wrong'
               PROVE  t \notin val[q] /\ \A r \in Settings : t \notin Held(r)'
    BY <1>1, <1>2 DEF Removed
  <2>1. t \notin val[q] /\ \A r \in Settings : t \notin Held(r)
    BY <1>1, <1>3 DEF Removed
  <2>2. t \in Tokens /\ t = request[q].tok
    BY CallAtHand
  <2>3. Call(p).do = "add" => Call(p).tok # t
    BY <1>4, <2>2, CallAtHand, TokensAreNotMiss
  <2>4. t \notin raced'
    BY DEF Wrong
  <2> HIDE DEF t
  <2> QED
    BY <2>1, <2>2, <2>3, <2>4 DEF Affects
<1>10. Turned(q)'
  BY <1>1, <1>2, <1>3 DEF Turned, IsLate
<1> QED
  BY <1>6, <1>7, <1>8, <1>9, <1>10 DEF Own

LEMMA KeptStays ==
    ASSUME NEW p \in Procs, Busy(p), Sound, OnlyMoves(p), Affects(p),
           phase[p] = "store" /\ Call(p).do = "remove" => Call(p).tok \notin live',
           UserStays' => \A t \in live' \ live : t \notin Wrong' => Listed(t)'
    PROVE  Kept'
<1> SUFFICES ASSUME UserStays', NEW t \in live' \ Wrong' PROVE Listed(t)' \/ Removing(t)'
  BY DEF Kept
<1>1. CASE t \notin live
  BY <1>1
<1>2. CASE t \in live
  <2>1. t \notin Wrong /\ t \notin raced' /\ t \in Tokens
    BY <1>2 DEF OnlyMoves, Wrong, Sound, Typed, TypeOK
  <2>2. Listed(t) \/ Removing(t)
    BY <1>2, <2>1 DEF Sound, Kept, Affects
  <2>3. CASE Removing(t)
    <3>1. PICK q \in Procs : phase[q] = "store" /\ Call(q).do = "remove" /\ Call(q).tok = t
      BY <2>3 DEF Removing
    <3>2. q # p
      BY <3>1
    <3>3. phase'[q] = "store" /\ Call(q)' = Call(q)
      BY <3>1, <3>2 DEF OnlyMoves, Call
    <3> QED
      BY <3>1, <3>3 DEF Removing
  <2>4. CASE Listed(t)
    <3>1. \/ Listed(t)'
          \/ Call(p).do = "remove" /\ Call(p).tok = t /\ phase'[p] = "store" /\ calls'[p] = calls[p]
      BY <2>1, <2>4 DEF Affects
    <3>2. calls'[p] = calls[p] => Call(p)' = Call(p)
      BY DEF Call
    <3> QED
      BY <3>1, <3>2 DEF Removing
  <2> QED
    BY <2>2, <2>3, <2>4
<1> QED
  BY <1>1, <1>2

LEMMA GoneStays ==
    ASSUME NEW p \in Procs, Busy(p), Sound, OnlyMoves(p), Affects(p),
           \A t \in revoked' \ revoked : t \notin Wrong' =>
               \A r \in Settings : t \notin Held(r)' /\ (cache'[r] = Miss \/ t \notin cache'[r])
    PROVE  Gone'
<1> SUFFICES ASSUME NEW t \in revoked' \ Wrong', NEW r \in Settings
             PROVE  t \notin Held(r)' /\ (cache'[r] = Miss \/ t \notin cache'[r])
  BY DEF Gone
<1>1. CASE t \notin revoked
  BY <1>1
<1>2. CASE t \in revoked
  <2>1. t \notin Wrong /\ t \notin raced' /\ t \in Tokens /\ t # Miss
    BY <1>2, TokensAreNotMiss DEF OnlyMoves, Wrong, Sound, Typed, TypeOK
  <2>2. t \notin Held(r) /\ (cache[r] = Miss \/ t \notin cache[r])
    BY <1>2, <2>1 DEF Sound, Gone
  <2>3. Call(p).do = "add" => Call(p).tok # t
    BY <1>2, <2>1, CallAtHand DEF Asked
  <2> QED
    BY <2>1, <2>2, <2>3 DEF Affects
<1> QED
  BY <1>1, <1>2

LEMMA NoClashStays ==
    ASSUME NEW p \in Procs, Busy(p), Sound, OnlyMoves(p), ~Busy(p)' \/ request'[p] = request[p]
    PROVE  NoClash'
<1> SUFFICES ASSUME NEW a \in Procs, NEW b \in Procs, Busy(a)', Busy(b)', request'[a].new # Miss
             PROVE  request'[b].tok # request'[a].new /\ (b # a => request'[b].new # request'[a].new)
  BY DEF NoClash
<1>1. \A c \in Procs : Busy(c)' => Busy(c) /\ request'[c] = request[c]
  BY DEF OnlyMoves, Busy
<1> QED
  BY <1>1 DEF Sound, NoClash

LEMMA CachingStays ==
    ASSUME NEW p \in Procs, Sound, OnlyMoves(p), NEW r \in Rows,
           \/ cache'[r] = Miss \/ Differing(cache'[r], Held(r)') \subseteq raced'
           \/ phase'[p] = "store" /\ Row(p)' = r
           \/ phase'[p] = "drop" /\ r \in val'[p]
           \/ /\ cache'[r] = cache[r] /\ Held(r)' = Held(r)
              /\ ~(phase[p] = "store" /\ Row(p) = r) /\ ~(phase[p] = "drop" /\ r \in val[p])
    PROVE  Caching(r)'
<1>1. CASE \/ cache'[r] = Miss \/ Differing(cache'[r], Held(r)') \subseteq raced'
           \/ phase'[p] = "store" /\ Row(p)' = r
           \/ phase'[p] = "drop" /\ r \in val'[p]
  BY <1>1 DEF Caching, Differing
<1>2. CASE /\ cache'[r] = cache[r] /\ Held(r)' = Held(r)
           /\ ~(phase[p] = "store" /\ Row(p) = r) /\ ~(phase[p] = "drop" /\ r \in val[p])
  <2>1. \A q \in Procs \ {p} : phase'[q] = phase[q] /\ Row(q)' = Row(q) /\ val'[q] = val[q]
    BY DEF OnlyMoves, Row, Call
  <2>2. Caching(r)
    BY DEF Sound
  <2>3. CASE cache[r] = Miss \/ Differing(cache[r], Held(r)) \subseteq raced
    BY <1>2, <2>3 DEF OnlyMoves, Caching, Differing
  <2>4. CASE \E q \in Procs : phase[q] = "store" /\ Row(q) = r
    <3>1. PICK q \in Procs : phase[q] = "store" /\ Row(q) = r
      BY <2>4
    <3>2. phase'[q] = "store" /\ Row(q)' = r
      BY <1>2, <2>1, <3>1
    <3> QED
      BY <3>2 DEF Caching
  <2>5. CASE \E q \in Procs : phase[q] = "drop" /\ r \in val[q]
    <3>1. PICK q \in Procs : phase[q] = "drop" /\ r \in val[q]
      BY <2>5
    <3>2. phase'[q] = "drop" /\ r \in val'[q]
      BY <1>2, <2>1, <3>1
    <3> QED
      BY <3>2 DEF Caching
  <2> QED
    BY <2>2, <2>3, <2>4, <2>5 DEF Caching
<1> QED
  BY <1>1, <1>2

-----------------------------------------------------------------------------
(* The three ways in which a goroutine goes on *)

\* Rows and caches have their types after a step.
DataTyped ==
    /\ DOMAIN db' = Rows /\ DOMAIN cache' = Rows
    /\ db' = [r \in Rows |-> db'[r]] /\ cache' = [r \in Rows |-> cache'[r]]
    /\ RowsTyped'
    /\ minted' = minted /\ raced \subseteq raced' /\ raced' \subseteq Tokens \cup Statuses
    /\ failed \subseteq failed' /\ failed' \subseteq minted

\* t is listed after the step.
ListedNext(t) == \E r \in Settings : t \in Held(r)'

LEMMA DataStaysTyped ==
    ASSUME Sound, DataTyped
    PROVE  /\ db' \in [Rows -> Contents \cup {NoRow}]
           /\ cache' \in [Rows -> Contents \cup {Miss}] /\ \A r \in Rows : cache'[r] # NoRow
<1>1. \A r \in Rows : /\ db'[r] = NoRow \/ db'[r] \in Lists(r)
                      /\ cache'[r] = Miss \/ cache'[r] \in Lists(r)
  BY DEF DataTyped, RowsTyped, Lists
<1>2. \A r \in Rows : db'[r] \in Contents \cup {NoRow}
  BY <1>1, ListsAreContents
<1>3. \A r \in Rows : cache'[r] \in Contents \cup {Miss} /\ cache'[r] # NoRow
  BY <1>1, ListsAreContents, SessionMarkers DEF SessionMarkers
<1> QED
  BY <1>2, <1>3 DEF DataTyped

\* A step that leaves nothing more to write for r, and a cached copy that is gone, true or as it was.
Settles(p, r) ==
    \/ cache'[r] = Miss \/ Differing(cache'[r], Held(r)') \subseteq raced'
    \/ /\ cache'[r] = cache[r] /\ Held(r)' = Held(r)
       /\ ~(phase[p] = "store" /\ Row(p) = r) /\ ~(phase[p] = "drop" /\ r \in val[p])

\* The request is answered.
LEMMA FinishIsSound ==
    ASSUME NEW p \in Procs, Busy(p), Sound, NEW success \in BOOLEAN, Finish(p, success),
           DataTyped, Affects(p), \A r \in Rows : Settles(p, r),
           phase[p] = "store" /\ Call(p).do = "remove" => success,
           success /\ request[p].new # Miss /\ request[p].new \notin Wrong' /\ UserStays' =>
               ListedNext(request[p].new),
           success /\ request[p].kind \in Revoking /\ request[p].tok \notin Wrong' =>
               \A r \in Settings : /\ request[p].tok \notin Held(r)'
                                   /\ cache'[r] = Miss \/ request[p].tok \notin cache'[r]
    PROVE  Sound'
<1>1. Typed
  BY DEF Sound
<1>2. Asked(p) /\ (Call(p).do = "remove" => /\ Call(p).tok = request[p].tok
                                            /\ request[p].kind \in Revoking)
  BY CallAtHand
<1>3. /\ phase' = [phase EXCEPT ![p] = "idle"] /\ calls' = [calls EXCEPT ![p] = <<>>]
      /\ val' = [val EXCEPT ![p] = {}] /\ request' = [request EXCEPT ![p] = NoRequest]
  BY DEF Finish
<1>4. /\ phase' \in [Procs -> Phases] /\ phase'[p] = "idle" /\ calls'[p] = <<>>
      /\ DOMAIN calls' = Procs /\ DOMAIN val' = Procs /\ DOMAIN request' = Procs
      /\ \A q \in Procs \ {p} : /\ phase'[q] = phase[q] /\ calls'[q] = calls[q]
                                /\ val'[q] = val[q] /\ request'[q] = request[q]
  BY <1>1, <1>3 DEF Typed, TypeOK, Phases
<1>5. /\ \A t \in revoked' \ revoked : success /\ request[p].kind \in Revoking /\ t = request[p].tok
      /\ revoked \subseteq revoked'
      /\ \A t \in live' \ live : success /\ request[p].new # Miss /\ t = request[p].new
      /\ success /\ request[p].kind \in Revoking => request[p].tok \notin live'
  BY DEF Finish, Revoking
<1>6. OnlyMoves(p)
  BY <1>4, <1>5 DEF OnlyMoves, DataTyped
<1>7. Typed'
  <2>1. revoked' \subseteq minted' /\ live' \subseteq minted' /\ minted' \subseteq Tokens
    BY <1>1, <1>2, <1>5 DEF Typed, TypeOK, Asked, DataTyped
  <2>2. \A q \in Procs : phase'[q] = "idle" <=> calls'[q] = <<>>
    BY <1>1, <1>4 DEF Typed, TypeOK
  <2>3. failed' \subseteq minted' /\ raced' \subseteq Tokens \cup Statuses /\ RowsTyped'
    BY DEF DataTyped
  <2> QED
    BY <1>4, <2>1, <2>2, <2>3, DataStaysTyped DEF Typed, TypeOK
<1>8. NoClash'
  BY <1>4, <1>6, NoClashStays DEF Busy
<1>9. Kept'
  <2>1. phase[p] = "store" /\ Call(p).do = "remove" => Call(p).tok \notin live'
    BY <1>2, <1>5
  <2>2. UserStays' => \A t \in live' \ live : t \notin Wrong' => Listed(t)'
    BY <1>5 DEF Listed, ListedNext
  <2> QED
    BY <1>6, <2>1, <2>2, KeptStays
<1>10. Gone'
  BY <1>5, <1>6, GoneStays
<1>11. \A r \in Rows : Caching(r)'
  BY <1>6, CachingStays DEF Settles
<1>12. \A q \in Procs : Own(q)'
  BY <1>4, <1>6, OthersStayOwn DEF Own, Busy
<1> QED
  BY <1>7, <1>8, <1>9, <1>10, <1>11, <1>12 DEF Sound

\* What a phase asks of the call at hand and of what was read.
Fits(p, next, read) ==
    /\ next \in {"list", "fill", "refill", "have", "store", "drop"}
    /\ next = "list" => Call(p).do \in Reads \cup {"hash"}
    /\ next \in {"fill", "refill"} => Call(p).do \in Reads /\ read \in Lists(Row(p))
    /\ next = "have" => Call(p).do \in Reads /\ read \in Lists(Row(p)) \cup {{}}
    /\ next = "store" => Call(p).do \in Writes /\ read \in Lists(Row(p))
    /\ next = "drop" => Call(p).do = "delete" /\ read \subseteq Rows

\* What the next step of the same call takes with it.
Prepared(p, next, read) ==
    /\ DataTyped /\ failed' = failed /\ Affects(p) /\ Fits(p, next, read) /\ phase[p] # "store"
    /\ \A r \in Rows : \/ Settles(p, r)
                       \/ next = "store" /\ Row(p) = r
                       \/ next = "drop" /\ r \in read
    /\ next = "store" /\ Call(p).do = "add" /\ Call(p).tok \notin Wrong' => ListedNext(Call(p).tok)
    /\ next = "store" /\ Call(p).do = "remove" /\ Call(p).tok \notin Wrong' =>
           Call(p).tok \notin read /\ \A r \in Settings : Call(p).tok \notin Held(r)'
    /\ next \in {"fill", "refill", "have"} /\ IsLate(p) => request[p].tok \notin read

\* The next step of the same call.
LEMMA ContinueIsSound ==
    ASSUME NEW p \in Procs, Busy(p), Sound, NEW next, NEW read, Continue(p, next, read),
           Prepared(p, next, read)
    PROVE  Sound'
<1> USE DEF Prepared
<1>1. Typed
  BY DEF Sound
<1>2. /\ phase' = [phase EXCEPT ![p] = next] /\ val' = [val EXCEPT ![p] = read]
      /\ calls' = calls /\ request' = request /\ revoked' = revoked /\ live' = live
  BY DEF Continue, History
<1>3. next \in Phases /\ next # "idle" /\ next \notin {"get", "write"}
  BY DEF Fits, Phases
<1>4. /\ phase' \in [Procs -> Phases] /\ phase'[p] = next /\ val'[p] = read
      /\ DOMAIN val' = Procs
      /\ \A q \in Procs \ {p} : phase'[q] = phase[q] /\ val'[q] = val[q]
  BY <1>1, <1>2, <1>3 DEF Typed, TypeOK
<1>5. Call(p)' = Call(p) /\ Row(p)' = Row(p)
  BY <1>2 DEF Call, Row
<1>6. OnlyMoves(p)
  BY <1>2, <1>4 DEF OnlyMoves, DataTyped
<1>7. Typed'
  <2>1. \A q \in Procs : phase'[q] = "idle" <=> calls'[q] = <<>>
    BY <1>1, <1>2, <1>3, <1>4 DEF Typed, TypeOK, Busy
  <2>2. failed' \subseteq minted' /\ raced' \subseteq Tokens \cup Statuses /\ RowsTyped'
        /\ minted' = minted
    BY DEF DataTyped
  <2> QED
    BY <1>1, <1>2, <1>4, <2>1, <2>2, DataStaysTyped DEF Typed, TypeOK
<1>8. NoClash'
  BY <1>2, <1>6, NoClashStays
<1>9. Kept'
  BY <1>2, <1>6, KeptStays
<1>10. Gone'
  BY <1>2, <1>6, GoneStays
<1>11. \A r \in Rows : Caching(r)'
  BY <1>4, <1>5, <1>6, CachingStays DEF Settles
<1>12. Own(p)'
  <2>1. Planned(request[p], calls[p]) /\ Asked(p) /\ Stored(p) /\ Turned(p)
    BY DEF Sound, Own
  <2>2. Planned(request[p], calls[p])'
    BY <1>2, <2>1 DEF Planned, Changing, Using
  <2>3. Stage(p)'
    BY <1>3, <1>4, <1>5 DEF Stage, Fits, Lists
  <2>4. Asked(p)'
    BY <1>2, <2>1 DEF Asked, DataTyped
  <2>5. Stored(p)'
    <3> SUFFICES ASSUME request[p].new # Miss, request[p].new \notin Wrong', UserStays',
                        (next = "store" /\ Call(p).do = "add") \/ Call(p).do = "remove"
                 PROVE  ListedNext(request[p].new)
      BY <1>2, <1>4, <1>5 DEF Stored, Listed, ListedNext
    <3>1. CASE next = "store" /\ Call(p).do = "add"
      <4>1. Call(p).tok = request[p].new
        BY <3>1, CallAtHand
      <4> QED
        BY <3>1, <4>1
    <3>2. CASE Call(p).do = "remove"
      <4>1. request[p].new \in Tokens /\ request[p].new \notin raced' /\ request[p].new \notin Wrong
        BY <1>1, <2>1 DEF Typed, TypeOK, Asked, Wrong, OnlyMoves, DataTyped
      <4>2. Call(p).tok # request[p].new
        BY <3>2, CallAtHand DEF Sound, NoClash
      <4>3. Listed(request[p].new)
        BY <2>1, <3>2, <4>1 DEF Stored, Affects
      <4>4. \A t \in Tokens : t \notin raced' /\ Listed(t) /\ Call(p).tok # t => ListedNext(t)
        BY DEF Affects, Listed, ListedNext
      <4> QED
        BY <4>1, <4>2, <4>3, <4>4
    <3> QED
      BY <3>1, <3>2
  <2>6. Removed(p)'
    BY <1>4, <1>5 DEF Removed
  <2>7. Turned(p)'
    BY <1>2, <1>4, <1>5, <1>6, <2>1 DEF Turned, IsLate, Wrong, OnlyMoves
  <2> QED
    BY <2>2, <2>3, <2>4, <2>5, <2>6, <2>7 DEF Own
<1> QED
  BY <1>6, <1>7, <1>8, <1>9, <1>10, <1>11, <1>12, OthersStayOwn DEF Sound

\* On to the next call of the request.
LEMMA AdvanceIsSound ==
    ASSUME NEW p \in Procs, Busy(p), Sound, NextCall(p), Tail(calls[p]) # <<>>,
           DataTyped, failed' = failed, Affects(p), \A r \in Rows : Settles(p, r),
           Call(p).do = "add" /\ Call(p).tok \notin Wrong' /\ UserStays' => ListedNext(Call(p).tok),
           ~(IsLate(p) /\ request[p].tok \notin Wrong')
    PROVE  Sound'
<1> DEFINE rest == Tail(calls[p])
           c == Head(rest)
<1>1. Typed
  BY DEF Sound
<1>2. /\ phase' = [phase EXCEPT ![p] = FirstPhase(c)] /\ val' = [val EXCEPT ![p] = {}]
      /\ calls' = [calls EXCEPT ![p] = rest] /\ request' = request
      /\ revoked' = revoked /\ live' = live
  BY DEF NextCall, History
<1>3. Planned(request[p], rest) /\ AtCall(request[p], Call(p), rest)
  BY CallAtHand DEF AtCall
<1>4. rest # <<>> /\ AtCall(request[p], c, Tail(rest))
  BY <1>3, CallOfPlan
<1>5. /\ FirstPhase(c) \in {"get", "list", "write"}
      /\ FirstPhase(c) = "get" => c.do \in Reads
      /\ FirstPhase(c) = "list" => c.do \in Reads \cup {"hash"}
      /\ FirstPhase(c) = "write" => c.do \in {"update", "delete"}
  BY <1>4, FirstPhases DEF AtCall
<1> HIDE DEF rest, c
<1>6. /\ phase' \in [Procs -> Phases] /\ phase'[p] = FirstPhase(c) /\ calls'[p] = rest
      /\ DOMAIN val' = Procs /\ DOMAIN calls' = Procs
      /\ \A q \in Procs \ {p} : phase'[q] = phase[q] /\ calls'[q] = calls[q] /\ val'[q] = val[q]
  BY <1>1, <1>2, <1>5 DEF Typed, TypeOK, Phases
<1>7. Call(p)' = c
  BY <1>6 DEF Call, c
<1>8. OnlyMoves(p)
  BY <1>2, <1>6 DEF OnlyMoves, DataTyped
<1>9. Typed'
  <2>1. \A q \in Procs : phase'[q] = "idle" <=> calls'[q] = <<>>
    BY <1>1, <1>4, <1>5, <1>6 DEF Typed, TypeOK
  <2>2. failed' \subseteq minted' /\ raced' \subseteq Tokens \cup Statuses /\ RowsTyped'
        /\ minted' = minted
    BY DEF DataTyped
  <2> QED
    BY <1>1, <1>2, <1>6, <2>1, <2>2, DataStaysTyped DEF Typed, TypeOK
<1>10. NoClash'
  BY <1>2, <1>8, NoClashStays
<1>11. Kept'
  <2>1. Call(p).do # "remove"
    BY <1>4, CallAtHand DEF rest
  <2> QED
    BY <1>2, <1>8, <2>1, KeptStays
<1>12. Gone'
  BY <1>2, <1>8, GoneStays
<1>13. \A r \in Rows : Caching(r)'
  BY <1>8, CachingStays DEF Settles
<1>14. Own(p)'
  <2>1. Asked(p) /\ Turned(p)
    BY DEF Sound, Own
  <2>2. Planned(request[p], calls[p])'
    BY <1>2, <1>3, <1>6 DEF Planned, Changing, Using
  <2>3. Stage(p)'
    BY <1>5, <1>6, <1>7 DEF Stage
  <2>4. Asked(p)'
    BY <1>2, <2>1 DEF Asked, DataTyped
  <2>5. Stored(p)'
    <3> SUFFICES ASSUME request[p].new # Miss, request[p].new \notin Wrong', UserStays',
                        c.do = "remove"
                 PROVE  ListedNext(request[p].new)
      BY <1>2, <1>5, <1>6, <1>7 DEF Stored, Listed, ListedNext
    <3>1. request[p].kind = "RefreshToken"
      BY <1>4 DEF AtCall
    <3>2. Call(p).do = "add" /\ Call(p).tok = request[p].new
      BY <1>3, <1>4, <3>1, CallAtHand DEF AtCall, c
    <3> QED
      BY <3>2
  <2>6. Removed(p)'
    BY <1>5, <1>6 DEF Removed
  <2>7. Turned(p)'
    BY <1>2, <1>8 DEF Turned, IsLate, Wrong, OnlyMoves
  <2> QED
    BY <2>2, <2>3, <2>4, <2>5, <2>6, <2>7 DEF Own
<1> QED
  BY <1>8, <1>9, <1>10, <1>11, <1>12, <1>13, <1>14, OthersStayOwn DEF Sound

-----------------------------------------------------------------------------
(* A request is taken up *)

LEMMA ServeIsSound ==
    ASSUME NEW p \in Procs, Sound, NEW kind, NEW tok, NEW new, NEW plan,
           Serve(p, kind, tok, new, plan),
           \A late \in BOOLEAN :
               Planned([kind |-> kind, tok |-> tok, new |-> new, late |-> late], plan),
           new # Miss => new \in Tokens \ minted,
           tok \in live \cup revoked \cup {Miss}, kind \in Revoking => tok \in live \cup revoked,
           Head(plan).do # "remove",
           kind \in Presenting =>
               /\ Head(plan).do \in {"check", "hash"} /\ Head(plan).row \in Settings
               /\ Head(plan).tok = tok
    PROVE  Sound'
<1> DEFINE late == tok \in revoked
           q == [kind |-> kind, tok |-> tok, new |-> new, late |-> late]
<1>1. /\ phase[p] = "idle"
      /\ request' = [request EXCEPT ![p] = q] /\ calls' = [calls EXCEPT ![p] = plan]
      /\ phase' = [phase EXCEPT ![p] = FirstPhase(Head(plan))]
      /\ minted' = IF new = Miss THEN minted ELSE minted \cup {new}
      /\ UNCHANGED <<db, cache, val, failed, raced, revoked, live>>
  BY DEF Serve, History
<1>2. q.kind = kind /\ q.tok = tok /\ q.new = new /\ q.late = late /\ Planned(q, plan)
  <2>1. late \in BOOLEAN
    OBVIOUS
  <2> QED
    BY <2>1
<1> HIDE DEF q, late
<1>3. plan # <<>> /\ AtCall(q, Head(plan), Tail(plan))
  BY <1>2, CallOfPlan
<1>4. /\ Typed /\ TypeOK /\ RowsTyped /\ phase \in [Procs -> Phases]
      /\ revoked \cup live \subseteq minted
  BY DEF Sound, Typed, TypeOK
<1>5. /\ Head(plan).do \in Reads \cup {"hash", "update", "delete"}
      /\ FirstPhase(Head(plan)) \in {"get", "list", "write"}
      /\ FirstPhase(Head(plan)) = "get" => Head(plan).do \in Reads
      /\ FirstPhase(Head(plan)) = "list" => Head(plan).do \in Reads \cup {"hash"}
      /\ FirstPhase(Head(plan)) = "write" => Head(plan).do \in {"update", "delete"}
  BY <1>3, FirstPhases DEF AtCall
<1>6. /\ request'[p] = q /\ calls'[p] = plan /\ phase'[p] = FirstPhase(Head(plan))
      /\ DOMAIN calls' = Procs /\ DOMAIN request' = Procs
      /\ \A o \in Procs \ {p} : /\ phase'[o] = phase[o] /\ calls'[o] = calls[o]
                                /\ request'[o] = request[o]
  BY <1>1, <1>4 DEF Typed
<1>7. Typed'
  <2>1. phase' \in [Procs -> Phases]
    BY <1>1, <1>4, <1>5 DEF Phases
  <2>2. minted' \subseteq Tokens /\ minted \subseteq minted'
    BY <1>1, <1>4 DEF TypeOK
  <2>3. \A o \in Procs : phase'[o] = "idle" <=> calls'[o] = <<>>
    BY <1>3, <1>4, <1>5, <1>6 DEF TypeOK
  <2>4. TypeOK'
    BY <1>1, <1>4, <2>1, <2>2, <2>3 DEF TypeOK
  <2> QED
    BY <1>1, <1>4, <1>6, <2>4 DEF Typed, RowsTyped, Lists
<1>8. Busy(p)' /\ Call(p)' = Head(plan) /\ Row(p)' = Head(plan).row
  BY <1>5, <1>6 DEF Busy, Call, Row
<1>9. /\ minted \subseteq minted'
      /\ new # Miss => new \in minted' /\ new \notin minted
      /\ tok \in minted \cup {Miss}
      /\ Miss \notin minted
  BY <1>1, <1>4, TokensAreNotMiss DEF TypeOK
<1>10. \A o \in Procs \ {p} : Busy(o) => Asked(o)
  BY DEF Sound, Own
<1>11. NoClash'
  <2> SUFFICES ASSUME NEW a \in Procs, NEW b \in Procs, Busy(a)', Busy(b)', request'[a].new # Miss
               PROVE  request'[b].tok # request'[a].new /\ (b # a => request'[b].new # request'[a].new)
    BY DEF NoClash
  <2>1. \A o \in Procs \ {p} : Busy(o)' => Busy(o) /\ request'[o] = request[o]
    BY <1>6 DEF Busy
  <2>2. CASE a # p /\ b # p
    BY <2>1, <2>2 DEF Sound, NoClash
  <2>3. CASE a = p
    BY <1>2, <1>6, <1>9, <1>10, <2>1, <2>3 DEF Asked
  <2>4. CASE a # p /\ b = p
    BY <1>2, <1>6, <1>9, <1>10, <2>1, <2>4 DEF Asked
  <2> QED
    BY <2>2, <2>3, <2>4
<1>12. Gone'
  BY <1>1 DEF Sound, Gone, Held, Wrong
<1>13. Kept'
  <2>1. \A t : Removing(t) => Removing(t)'
    BY <1>1, <1>6 DEF Removing, Call
  <2>2. \A t : Listed(t) => Listed(t)'
    BY <1>1 DEF Listed, Held
  <2> QED
    BY <1>1, <2>1, <2>2 DEF Sound, Kept, Wrong, UserStays
<1>14. \A r \in Rows : Caching(r)'
  <2> SUFFICES ASSUME NEW r \in Rows PROVE Caching(r)'
    OBVIOUS
  <2>1. Caching(r)
    BY DEF Sound
  <2>2. \A o \in Procs : phase[o] # "idle" =>
            phase'[o] = phase[o] /\ Row(o)' = Row(o) /\ val'[o] = val[o]
    BY <1>1, <1>6 DEF Row, Call
  <2>3. CASE cache[r] = Miss \/ Differing(cache[r], Held(r)) \subseteq raced
    BY <1>1, <2>3 DEF Caching, Differing, Held
  <2>4. CASE \E o \in Procs : phase[o] = "store" /\ Row(o) = r
    BY <2>2, <2>4 DEF Caching
  <2>5. CASE \E o \in Procs : phase[o] = "drop" /\ r \in val[o]
    BY <2>2, <2>5 DEF Caching
  <2> QED
    BY <2>1, <2>3, <2>4, <2>5 DEF Caching
<1>15. Own(p)'
  <2>1. Planned(request[p], calls[p])'
    BY <1>2, <1>6 DEF Planned, Changing, Using
  <2>2. Stage(p)'
    BY <1>5, <1>6, <1>8 DEF Stage
  <2>3. Asked(p)'
    BY <1>1, <1>2, <1>4, <1>6, <1>9 DEF Asked, late
  <2>4. Stored(p)' /\ Removed(p)'
    BY <1>5, <1>6, <1>8 DEF Stored, Removed
  <2>5. Turned(p)'
    BY <1>2, <1>5, <1>6, <1>8 DEF Turned, IsLate
  <2> QED
    BY <2>1, <2>2, <2>3, <2>4, <2>5 DEF Own
<1>16. ASSUME NEW o \in Procs \ {p} PROVE Own(o)'
  <2> SUFFICES ASSUME Busy(o) PROVE Own(o)'
    BY <1>6 DEF Own, Busy
  <2>1. /\ phase'[o] = phase[o] /\ calls'[o] = calls[o] /\ val'[o] = val[o]
        /\ request'[o] = request[o] /\ Call(o)' = Call(o) /\ Row(o)' = Row(o)
    BY <1>1, <1>6 DEF Call, Row
  <2>2. Planned(request[o], calls[o]) /\ Stage(o) /\ Asked(o) /\ Stored(o) /\ Removed(o) /\ Turned(o)
    BY DEF Sound, Own
  <2>3. Planned(request[o], calls[o])' /\ Stage(o)'
    <3>1. Planned(request[o], calls[o])'
      BY <2>1, <2>2 DEF Planned, Changing, Using
    <3> QED
      BY <2>1, <2>2, <3>1 DEF Stage, Lists
  <2>4. Asked(o)'
    BY <1>1, <1>9, <2>1, <2>2 DEF Asked
  <2>5. Stored(o)' /\ Removed(o)'
    BY <1>1, <2>1, <2>2 DEF Stored, Removed, Listed, Held, Wrong, UserStays
  <2>6. Turned(o)'
    BY <1>1, <2>1, <2>2 DEF Turned, IsLate, Wrong
  <2> QED
    BY <2>3, <2>4, <2>5, <2>6 DEF Own
<1> QED
  BY <1>7, <1>11, <1>12, <1>13, <1>14, <1>15, <1>16 DEF Sound

LEMMA BeginIsSound ==
    ASSUME NEW p \in Procs, Sound, Begin(p)
    PROVE  Sound'
<1> USE FirstOfCalls, CallFields
<1>1. CASE SignIn(p)
  <2>1. PICK t \in RefreshTokens \ minted :
            Serve(p, "SignIn", Miss, t, <<Login, Add("refresh", t)>>)
    BY <1>1 DEF SignIn, Fresh
  <2> DEFINE q(late) == [kind |-> "SignIn", tok |-> Miss, new |-> t, late |-> late]
  <2>2. \A late \in BOOLEAN : Planned(q(late), <<Login, Add("refresh", t)>>)
    BY DEF Planned, Changing
  <2> QED
    BY <2>1, <2>2, ServeIsSound DEF Tokens, Presenting, Revoking
<1>2. CASE RefreshToken(p)
  <2>1. PICK old \in RefreshTokens \cap (live \cup revoked), new \in RefreshTokens \ minted :
            Serve(p, "RefreshToken", old, new,
                  <<Token(old), User, Add("refresh", new), Remove("refresh", old)>>)
    BY <1>2 DEF RefreshToken, Presented, Fresh
  <2> DEFINE q(late) == [kind |-> "RefreshToken", tok |-> old, new |-> new, late |-> late]
  <2>2. \A late \in BOOLEAN :
        Planned(q(late), <<Token(old), User, Add("refresh", new), Remove("refresh", old)>>)
    <3>1. old # new
      BY <2>1 DEF Sound, Typed, TypeOK
    <3> QED
      BY <2>1, <3>1 DEF Planned, Changing
  <2> QED
    BY <2>1, <2>2, ServeIsSound DEF Tokens, Presenting, Revoking, Settings
<1>3. CASE SignOut(p)
  <2>1. PICK t \in RefreshTokens \cap (live \cup revoked) :
            Serve(p, "SignOut", t, Miss, <<User, Remove("refresh", t)>>)
    BY <1>3 DEF SignOut, Presented
  <2> DEFINE q(late) == [kind |-> "SignOut", tok |-> t, new |-> Miss, late |-> late]
  <2>2. \A late \in BOOLEAN : Planned(q(late), <<User, Remove("refresh", t)>>)
    BY <2>1 DEF Planned, Changing
  <2> QED
    BY <2>1, <2>2, ServeIsSound DEF Tokens, Presenting, Revoking, Settings
<1>4. CASE CreatePAT(p)
  <2>1. PICK t \in PATs \ minted :
            Serve(p, "CreatePAT", Miss, t, <<User, Add("pat", t)>>)
    BY <1>4 DEF CreatePAT, Fresh
  <2> DEFINE q(late) == [kind |-> "CreatePAT", tok |-> Miss, new |-> t, late |-> late]
  <2>2. \A late \in BOOLEAN : Planned(q(late), <<User, Add("pat", t)>>)
    BY <2>1 DEF Planned, Changing
  <2> QED
    BY <2>1, <2>2, ServeIsSound DEF Tokens, Presenting, Revoking, Settings
<1>5. CASE DeletePAT(p)
  <2>1. PICK t \in PATs \cap (live \cup revoked) :
            Serve(p, "DeletePAT", t, Miss, <<User, Remove("pat", t)>>)
    BY <1>5 DEF DeletePAT, Presented
  <2> DEFINE q(late) == [kind |-> "DeletePAT", tok |-> t, new |-> Miss, late |-> late]
  <2>2. \A late \in BOOLEAN : Planned(q(late), <<User, Remove("pat", t)>>)
    BY <2>1 DEF Planned, Changing
  <2> QED
    BY <2>1, <2>2, ServeIsSound DEF Tokens, Presenting, Revoking, Settings
<1>6. CASE UsePAT(p)
  <2>1. PICK t \in PATs \cap (live \cup revoked) :
            Serve(p, "UsePAT", t, Miss, <<PATHash(t), User, Touch(t)>>)
    BY <1>6 DEF UsePAT, Presented
  <2> DEFINE q(late) == [kind |-> "UsePAT", tok |-> t, new |-> Miss, late |-> late]
  <2>2. \A late \in BOOLEAN : Planned(q(late), <<PATHash(t), User, Touch(t)>>)
    BY <2>1 DEF Planned, Using
  <2> QED
    BY <2>1, <2>2, ServeIsSound DEF Tokens, Presenting, Revoking, Settings
<1>7. CASE UseCookie(p)
  <2>1. PICK t \in RefreshTokens \cap (live \cup revoked) :
            Serve(p, "UseCookie", t, Miss, <<Token(t), User>>)
    BY <1>7 DEF UseCookie, Presented
  <2> DEFINE q(late) == [kind |-> "UseCookie", tok |-> t, new |-> Miss, late |-> late]
  <2>2. \A late \in BOOLEAN : Planned(q(late), <<Token(t), User>>)
    BY <2>1 DEF Planned, Using
  <2> QED
    BY <2>1, <2>2, ServeIsSound DEF Tokens, Presenting, Revoking, Settings
<1>8. CASE UseAccessToken(p)
  <2>1. Serve(p, "UseAccessToken", Miss, Miss, <<User>>)
    BY <1>8 DEF UseAccessToken
  <2> DEFINE q(late) == [kind |-> "UseAccessToken", tok |-> Miss, new |-> Miss, late |-> late]
  <2>2. \A late \in BOOLEAN : Planned(q(late), <<User>>)
    BY <2>1 DEF Planned, Using
  <2> QED
    BY <2>1, <2>2, ServeIsSound DEF Tokens, Presenting, Revoking, Settings
<1>9. CASE UpdateUser(p)
  <2>1. PICK s \in Statuses :
            Serve(p, "UpdateUser", Miss, Miss, <<Update(s)>>)
    BY <1>9 DEF UpdateUser
  <2> DEFINE q(late) == [kind |-> "UpdateUser", tok |-> Miss, new |-> Miss, late |-> late]
  <2>2. \A late \in BOOLEAN : Planned(q(late), <<Update(s)>>)
    BY <2>1 DEF Planned, Using
  <2> QED
    BY <2>1, <2>2, ServeIsSound DEF Tokens, Presenting, Revoking, Settings
<1>10. CASE DeleteUser(p)
  <2>1. Serve(p, "DeleteUser", Miss, Miss, <<Delete>>)
    BY <1>10 DEF DeleteUser
  <2> DEFINE q(late) == [kind |-> "DeleteUser", tok |-> Miss, new |-> Miss, late |-> late]
  <2>2. \A late \in BOOLEAN : Planned(q(late), <<Delete>>)
    BY <2>1 DEF Planned, Using
  <2> QED
    BY <2>1, <2>2, ServeIsSound DEF Tokens, Presenting, Revoking, Settings
<1> QED
  BY <1>1, <1>2, <1>3, <1>4, <1>5, <1>6, <1>7, <1>8, <1>9, <1>10 DEF Begin

-----------------------------------------------------------------------------
(* The steps of a store call *)

\* A step that writes no row, and caches only what is a row's content.
LEMMA RowsStay ==
    ASSUME NEW p \in Procs, Sound, db' = db, minted' = minted,
           raced \subseteq raced', raced' \subseteq Tokens \cup Statuses,
           failed \subseteq failed', failed' \subseteq minted,
           DOMAIN cache' = Rows, cache' = [r \in Rows |-> cache'[r]],
           \A r \in Rows : \/ cache'[r] \in {Miss, cache[r]}
                           \/ /\ cache'[r] \in Lists(r)
                              /\ Differing(cache'[r], Held(r)) \subseteq raced'
    PROVE  /\ DataTyped /\ Affects(p)
           /\ \A r : Held(r)' = Held(r)
           /\ \A t : Listed(t) => ListedNext(t)
<1>1. RowsTyped /\ db = [r \in Rows |-> db[r]] /\ DOMAIN db = Rows
  BY DEF Sound, Typed, TypeOK
<1>2. RowsTyped'
  BY <1>1 DEF RowsTyped, Lists
<1>3. DataTyped
  BY <1>1, <1>2 DEF DataTyped
<1>4. \A r : Held(r)' = Held(r)
  BY DEF Held
<1>5. \A t : /\ Listed(t) => ListedNext(t) /\ Listed(t)'
  BY <1>4 DEF Listed, ListedNext
<1>6. \A t \in Tokens, r \in Settings : t \notin raced' /\ cache'[r] # Miss /\ t \in cache'[r] =>
          (cache[r] # Miss /\ t \in cache[r]) \/ t \in Held(r)
  BY DEF Differing, Rows
<1>7. UserStays' => UserStays
  BY DEF UserStays
<1>8. Affects(p)
  BY <1>4, <1>5, <1>6, <1>7 DEF Affects
<1> QED
  BY <1>3, <1>4, <1>5, <1>8

\* What a call caches is its row but for what is marked as outdated.
LEMMA CacheSetIsSound ==
    ASSUME NEW p \in Procs, Busy(p), Sound, CacheSet(p), val[p] \in Lists(Row(p)),
           phase[p] # "drop", db' = db, minted' = minted, failed' = failed
    PROVE  /\ DataTyped /\ Affects(p) /\ \A r \in Rows : Settles(p, r)
           /\ \A r : Held(r)' = Held(r)
           /\ \A t : Listed(t) => ListedNext(t)
           /\ cache'[Row(p)] = val[p] /\ \A r \in Rows \ {Row(p)} : cache'[r] = cache[r]
           /\ Row(p) \in Rows
<1>1. /\ Row(p) \in Rows /\ DOMAIN cache = Rows /\ cache = [r \in Rows |-> cache[r]]
      /\ raced \subseteq Tokens \cup Statuses /\ failed \subseteq minted /\ RowsTyped
  BY CallAtHand DEF Sound, Typed, TypeOK
<1>2. /\ DOMAIN cache' = Rows /\ cache' = [r \in Rows |-> cache'[r]]
      /\ cache'[Row(p)] = val[p] /\ \A r \in Rows \ {Row(p)} : cache'[r] = cache[r]
      /\ raced' = raced \cup Differing(val[p], Held(Row(p)))
  BY <1>1 DEF CacheSet
<1>3. raced' \subseteq Tokens \cup Statuses
  <2>1. val[p] \subseteq Tokens \cup Statuses
    BY DEF Lists, Tokens
  <2>2. Held(Row(p)) \subseteq Tokens \cup Statuses
    BY <1>1 DEF Held, RowsTyped, Lists, Tokens
  <2> QED
    BY <1>1, <1>2, <2>1, <2>2 DEF Differing
<1>4. Differing(cache'[Row(p)], Held(Row(p))) \subseteq raced'
  BY <1>2
<1>5. /\ DataTyped /\ Affects(p) /\ \A r : Held(r)' = Held(r)
      /\ \A t : Listed(t) => ListedNext(t)
  BY <1>1, <1>2, <1>3, <1>4, RowsStay
<1>6. \A r \in Rows : Settles(p, r)
  BY <1>2, <1>4, <1>5 DEF Settles, Differing
<1> QED
  BY <1>1, <1>2, <1>5, <1>6

\* A step that changes neither rows nor caches.
LEMMA DataStays ==
    ASSUME NEW p \in Procs, Sound, UNCHANGED <<db, cache, raced, Control>>
    PROVE  /\ DataTyped /\ Affects(p) /\ failed' = failed /\ raced' = raced
           /\ \A r : Held(r)' = Held(r)
           /\ phase[p] \notin {"store", "drop"} => \A r \in Rows : Settles(p, r)
<1>1. DOMAIN cache = Rows /\ cache = [r \in Rows |-> cache[r]]
      /\ raced \subseteq Tokens \cup Statuses /\ failed \subseteq minted
      /\ failed' = failed /\ minted' = minted
  BY DEF Sound, Typed, TypeOK, Control
<1>2. DataTyped /\ Affects(p) /\ \A r : Held(r)' = Held(r)
  BY <1>1, RowsStay
<1> QED
  BY <1>1, <1>2 DEF Settles

\* What a late request reads does not list its token.
LEMMA LateReadsNothing ==
    ASSUME NEW p \in Procs, Busy(p), Sound, IsLate(p)
    PROVE  /\ Row(p) \in Settings /\ request[p].tok \notin Held(Row(p))
           /\ Call(p).tok = request[p].tok /\ Call(p).do \in {"check", "hash"}
           /\ cache[Row(p)] = Miss \/ request[p].tok \notin cache[Row(p)]
           /\ phase[p] \in {"fill", "refill", "have"} => request[p].tok \notin val[p]
<1>1. Turned(p) /\ Asked(p)
  BY CallAtHand
<1>2. request[p].tok \in revoked \ Wrong
  BY <1>1 DEF IsLate, Asked
<1> QED
  BY <1>1, <1>2 DEF Turned, Sound, Gone

LEMMA ReadIsSound ==
    ASSUME NEW p \in Procs, Sound,
           CacheGet(p) \/ ListRow(p) \/ CacheFill(p) \/ CacheRefill(p)
    PROVE  Sound'
<1>1. Busy(p)
  BY DEF Busy, CacheGet, ListRow, CacheFill, CacheRefill
<1>2. /\ Row(p) \in Rows /\ Stage(p) /\ RowsTyped
  BY <1>1, CallAtHand DEF Sound, Typed
<1>3. CASE CacheGet(p)
  <2>1. phase[p] = "get" /\ UNCHANGED <<db, cache, raced, Control>> /\ Call(p).do \in Reads
    BY <1>2, <1>3 DEF CacheGet, Stage
  <2>2. /\ DataTyped /\ Affects(p) /\ failed' = failed /\ \A r \in Rows : Settles(p, r)
    BY <2>1, DataStays
  <2>3. CASE cache[Row(p)] # Miss
    <3>1. Continue(p, "have", cache[Row(p)])
      BY <1>3, <2>3 DEF CacheGet
    <3>2. Fits(p, "have", cache[Row(p)])
      BY <1>2, <2>1, <2>3 DEF Fits, RowsTyped
    <3>3. IsLate(p) => request[p].tok \notin cache[Row(p)]
      BY <1>1, <2>3, LateReadsNothing
    <3>4. Prepared(p, "have", cache[Row(p)])
      BY <2>1, <2>2, <3>2, <3>3 DEF Prepared
    <3> QED
      BY <1>1, <3>1, <3>4, ContinueIsSound
  <2>4. CASE cache[Row(p)] = Miss
    <3>1. Continue(p, "list", {})
      BY <1>3, <2>4 DEF CacheGet
    <3>2. Fits(p, "list", {})
      BY <2>1 DEF Fits
    <3>3. Prepared(p, "list", {})
      BY <2>1, <2>2, <3>2 DEF Prepared
    <3> QED
      BY <1>1, <3>1, <3>3, ContinueIsSound
  <2> QED
    BY <2>3, <2>4
<1>4. CASE ListRow(p)
  <2>1. phase[p] = "list" /\ UNCHANGED <<db, cache, raced, Control>> /\ Call(p).do \in Reads
    BY <1>2, <1>4 DEF ListRow, Stage
  <2>2. /\ DataTyped /\ Affects(p) /\ failed' = failed /\ \A r \in Rows : Settles(p, r)
    BY <2>1, DataStays
  <2>3. CASE db[Row(p)] # NoRow
    <3>1. Continue(p, "fill", db[Row(p)])
      BY <1>4, <2>3 DEF ListRow
    <3>2. Fits(p, "fill", db[Row(p)])
      BY <1>2, <2>1, <2>3 DEF Fits, RowsTyped
    <3>3. IsLate(p) => request[p].tok \notin db[Row(p)]
      BY <1>1, <2>3, LateReadsNothing DEF Held
    <3>4. Prepared(p, "fill", db[Row(p)])
      BY <2>1, <2>2, <3>2, <3>3 DEF Prepared
    <3> QED
      BY <1>1, <3>1, <3>4, ContinueIsSound
  <2>4. CASE db[Row(p)] = NoRow
    <3>1. Continue(p, "have", {})
      BY <1>4, <2>4 DEF ListRow
    <3>2. Fits(p, "have", {})
      BY <2>1 DEF Fits
    <3>3. Prepared(p, "have", {})
      BY <2>1, <2>2, <3>2 DEF Prepared
    <3> QED
      BY <1>1, <3>1, <3>3, ContinueIsSound
  <2> QED
    BY <2>3, <2>4
<1>5. CASE CacheFill(p) \/ CacheRefill(p)
  <2> DEFINE next == IF phase[p] = "fill" THEN "refill" ELSE "have"
  <2>1. /\ phase[p] \in {"fill", "refill"} /\ CacheSet(p) /\ Continue(p, next, val[p])
        /\ db' = db /\ minted' = minted /\ failed' = failed
    BY <1>5 DEF CacheFill, CacheRefill, Control
  <2>2. Call(p).do \in Reads /\ val[p] \in Lists(Row(p))
    BY <1>2, <2>1 DEF Stage
  <2>3. DataTyped /\ Affects(p) /\ \A r \in Rows : Settles(p, r)
    BY <1>1, <2>1, <2>2, CacheSetIsSound
  <2>4. Fits(p, next, val[p]) /\ next \notin {"store", "drop"}
    BY <2>2 DEF Fits
  <2>5. IsLate(p) => request[p].tok \notin val[p]
    BY <1>1, <2>1, LateReadsNothing
  <2>6. phase[p] # "store"
    BY <2>1
  <2> HIDE DEF next
  <2>7. Prepared(p, next, val[p])
    BY <2>1, <2>3, <2>4, <2>5, <2>6 DEF Prepared
  <2> QED
    BY <1>1, <2>1, <2>7, ContinueIsSound
<1> QED
  BY <1>3, <1>4, <1>5

\* A request is let in no further than its checks allow, or answered.
LEMMA CheckIsSound ==
    ASSUME NEW p \in Procs, Sound, Check(p) \/ CheckHash(p)
    PROVE  Sound'
<1>1. /\ Busy(p) /\ phase[p] \in {"have", "list"} /\ Call(p).do \in {"check", "query", "hash"}
      /\ UNCHANGED <<db, cache, raced, Control>>
      /\ NextCall(p) \/ Finish(p, FALSE)
  BY DEF Busy, Check, CheckHash
<1>2. /\ DataTyped /\ Affects(p) /\ failed' = failed /\ \A r \in Rows : Settles(p, r)
  BY <1>1, DataStays
<1>3. /\ AtCall(request[p], Call(p), Tail(calls[p]))
      /\ Call(p).do = "hash" => Row(p) = "pat"
  BY <1>1, CallAtHand DEF AtCall, Row
<1>4. CASE Finish(p, FALSE)
  BY <1>1, <1>2, <1>4, FinishIsSound
<1>5. CASE ~Finish(p, FALSE)
  <2>1. NextCall(p)
    BY <1>1, <1>5
  <2>2. ~IsLate(p)
    <3>1. CASE Check(p)
      <4>1. phase[p] = "have" /\ Call(p).tok \in val[p]
        BY <1>5, <3>1 DEF Check
      <4> QED
        BY <1>1, <4>1, LateReadsNothing
    <3>2. CASE CheckHash(p)
      <4>1. Row(p) = "pat" /\ Call(p).tok \in Held("pat")
        BY <1>3, <1>5, <3>2 DEF CheckHash, Held
      <4> QED
        BY <1>1, <4>1, LateReadsNothing
    <3> QED
      BY <3>1, <3>2
  <2>3. CASE Tail(calls[p]) = <<>>
    <3>1. Finish(p, TRUE)
      BY <2>1, <2>3 DEF NextCall
    <3>2. request[p].new = Miss /\ request[p].kind \notin Revoking
      BY <1>1, <1>3, <2>3 DEF AtCall, Revoking
    <3> QED
      BY <1>1, <1>2, <3>1, <3>2, FinishIsSound
  <2>4. CASE Tail(calls[p]) # <<>>
    BY <1>1, <1>2, <2>1, <2>2, <2>4, AdvanceIsSound
  <2> QED
    BY <2>3, <2>4
<1> QED
  BY <1>4, <1>5

\* The list is written back, whatever became of the row since it was read.
LEMMA UpsertIsSound ==
    ASSUME NEW p \in Procs, Sound, Upsert(p)
    PROVE  Sound'
<1> DEFINE row == Row(p)
           c == Call(p)
           list == Rewritten(Call(p), val[p])
<1>1. /\ phase[p] = "have" /\ c.do \in {"add", "remove", "touch"}
      /\ db' = [db EXCEPT ![row] = list]
      /\ raced' = raced \cup Differing(list, Rewritten(c, Held(row)))
      /\ Continue(p, "store", list)
      /\ cache' = cache /\ minted' = minted /\ failed' = failed
  BY DEF Upsert, Control
<1>2. Busy(p)
  BY <1>1 DEF Busy
<1>3. /\ row \in Settings /\ Stage(p)
      /\ c.do = "add" => \/ row = "refresh" /\ c.tok \in RefreshTokens
                         \/ row = "pat" /\ c.tok \in PATs
      /\ c.do = "remove" => \/ row = "refresh" /\ c.tok \in RefreshTokens
                            \/ row = "pat" /\ c.tok \in PATs
      /\ c.do \in {"add", "remove"} => c.tok \in Tokens
  BY <1>1, <1>2, CallAtHand DEF AtCall, Row
<1>4. /\ RowsTyped /\ DOMAIN db = Rows /\ DOMAIN cache = Rows /\ failed \subseteq minted
      /\ raced \subseteq Tokens \cup Statuses
      /\ cache = [r \in Rows |-> cache[r]]
  BY DEF Sound, Typed, TypeOK
<1>5. val[p] \in Lists(row) /\ list \in Lists(row)
  <2>1. val[p] \in Lists(row) \cup {{}}
    BY <1>1, <1>3 DEF Stage
  <2>2. val[p] \in Lists(row)
    BY <1>3, <2>1 DEF Lists, Settings
  <2> QED
    BY <1>1, <1>3, <2>2 DEF Rewritten, Lists, Settings
<1>6. /\ DOMAIN db' = Rows /\ db' = [r \in Rows |-> db'[r]] /\ db'[row] = list
      /\ \A r \in Rows \ {row} : db'[r] = db[r]
  BY <1>1, <1>3, <1>4 DEF Rows
<1>7. /\ row \in Rows /\ \A r \in Rows : r = row => Held(r)' = list
      /\ \A r \in Rows \ {row} : Held(r)' = Held(r)
  <2>1. row \in Rows /\ list # NoRow
    BY <1>3, <1>5, ListsAreContents DEF Rows
  <2> QED
    BY <1>6, <2>1 DEF Held
<1>8. /\ \A t \in Tokens : t \in list <=> (t \in val[p] /\ ~(c.do = "remove" /\ t = c.tok))
                                        \/ (c.do = "add" /\ t = c.tok)
      /\ \A t \in Tokens : t \notin raced' =>
             (t \in list <=> (t \in Held(row) /\ ~(c.do = "remove" /\ t = c.tok))
                            \/ (c.do = "add" /\ t = c.tok))
  <2>1. ASSUME NEW old, NEW t
        PROVE  t \in Rewritten(c, old) <=> (t \in old /\ ~(c.do = "remove" /\ t = c.tok))
                                          \/ (c.do = "add" /\ t = c.tok)
    <3>1. CASE c.do = "add"
      BY <3>1 DEF Rewritten
    <3>2. CASE c.do = "remove"
      BY <3>2 DEF Rewritten
    <3>3. CASE c.do = "touch"
      BY <3>3 DEF Rewritten
    <3> QED
      BY <1>1, <3>1, <3>2, <3>3
  <2>2. \A t \in Tokens : t \notin raced' => (t \in list <=> t \in Rewritten(c, Held(row)))
    BY <1>1 DEF Differing
  <2> QED
    BY <2>1, <2>2
<1>9. Affects(p)
  <2> HIDE DEF c, list, row
  <2>1. UserStays' => UserStays
    BY <1>3, <1>6 DEF UserStays, Rows, Settings
  <2>2. phase'[p] = "store" /\ calls'[p] = calls[p]
    BY <1>1 DEF Continue, Sound, Typed, TypeOK
  <2>3. ASSUME NEW t \in Tokens, t \notin raced', Listed(t), ~(c.do = "remove" /\ c.tok = t)
        PROVE  Listed(t)'
    <3>1. PICK r \in Settings : t \in Held(r)
      BY <2>3 DEF Listed
    <3>2. CASE r = row
      <4>1. t \in list
        BY <1>8, <2>3, <3>1, <3>2
      <4> QED
        BY <1>7, <3>1, <3>2, <4>1 DEF Listed
    <3>3. CASE r # row
      <4>1. t \in Held(r)'
        BY <1>7, <3>1, <3>3 DEF Rows
      <4> QED
        BY <4>1 DEF Listed
    <3> QED
      BY <3>2, <3>3
  <2>4. ASSUME NEW t \in Tokens, NEW r \in Settings, t \notin raced', t \in Held(r)'
        PROVE  t \in Held(r) \/ (c.do = "add" /\ c.tok = t)
    <3>1. CASE r = row
      <4>1. t \in list
        BY <1>7, <2>4, <3>1
      <4> QED
        BY <1>8, <2>4, <3>1, <4>1
    <3>2. CASE r # row
      BY <1>7, <2>4, <3>2 DEF Rows
    <3> QED
      BY <3>1, <3>2
  <2> QED
    BY <1>1, <2>1, <2>2, <2>3, <2>4 DEF Affects, c
<1>10. DataTyped
  <2>1. RowsTyped'
    BY <1>1, <1>3, <1>4, <1>5, <1>6 DEF RowsTyped, Lists
  <2>2. raced' \subseteq Tokens \cup Statuses
    <3>1. list \subseteq Tokens
      BY <1>3, <1>5 DEF Lists, Tokens, Settings
    <3>2. Held(row) \subseteq Tokens
      BY <1>3, <1>4 DEF Held, RowsTyped, Lists, Tokens, Settings, Rows
    <3>3. Rewritten(c, Held(row)) \subseteq Tokens
      BY <1>1, <1>3, <3>2 DEF Rewritten
    <3> QED
      BY <1>1, <1>4, <3>1, <3>3 DEF Differing
  <2> QED
    BY <1>1, <1>4, <1>6, <2>1, <2>2 DEF DataTyped
<1>11. \A r \in Rows : r # row => Settles(p, r)
  BY <1>1, <1>7 DEF Settles
<1>12. c.do = "add" => ListedNext(c.tok)
  BY <1>3, <1>7, <1>8 DEF ListedNext
<1>13. c.do = "remove" => c.tok \notin list /\ \A r \in Settings : c.tok \notin Held(r)'
  <2> SUFFICES ASSUME c.do = "remove" PROVE c.tok \notin list /\ \A r \in Settings : c.tok \notin Held(r)'
    OBVIOUS
  <2>1. c.tok \notin list
    BY <1>3, <1>8
  <2>2. ASSUME NEW r \in Settings, r # row PROVE c.tok \notin Held(r)
    <3>1. db[r] # NoRow => db[r] \in Lists(r)
      BY <1>4 DEF RowsTyped, Rows
    <3>2. Held(r) \in Lists(r) \/ Held(r) = {}
      BY <3>1 DEF Held
    <3> QED
      BY <1>3, <2>2, <3>2, RowOfToken
  <2> QED
    BY <1>7, <2>1, <2>2 DEF Rows
<1>14. Fits(p, "store", list)
  BY <1>1, <1>5 DEF Fits, Writes
<1> HIDE DEF c, list
<1>15. Prepared(p, "store", list)
  BY <1>1, <1>9, <1>10, <1>11, <1>12, <1>13, <1>14 DEF Prepared, c
<1> QED
  BY <1>1, <1>2, <1>15, ContinueIsSound

LEMMA UpdateRowIsSound ==
    ASSUME NEW p \in Procs, Sound, UpdateRow(p)
    PROVE  Sound'
<1> DEFINE read == {Call(p).tok}
<1>1. /\ phase[p] = "write" /\ Call(p).do = "update" /\ UNCHANGED <<cache, raced, Control>>
      /\ minted' = minted /\ failed' = failed
  BY DEF UpdateRow, Control
<1>2. Busy(p)
  BY <1>1 DEF Busy
<1>3. Row(p) = "user" /\ read \in Lists("user")
  BY <1>1, <1>2, CallAtHand DEF AtCall, Lists
<1>4. CASE db["user"] = NoRow
  <2>1. Finish(p, FALSE) /\ db' = db
    BY <1>4 DEF UpdateRow
  <2>2. /\ DataTyped /\ Affects(p) /\ \A r \in Rows : Settles(p, r)
    BY <1>1, <2>1, DataStays
  <2> QED
    BY <1>1, <1>2, <2>1, <2>2, FinishIsSound
<1>5. CASE db["user"] # NoRow
  <2>1. db' = [db EXCEPT !["user"] = read] /\ Continue(p, "store", read)
    BY <1>5 DEF UpdateRow
  <2>2. /\ RowsTyped /\ DOMAIN db = Rows /\ DOMAIN cache = Rows /\ failed \subseteq minted
        /\ raced \subseteq Tokens \cup Statuses /\ cache = [r \in Rows |-> cache[r]]
    BY DEF Sound, Typed, TypeOK
  <2>3. /\ DOMAIN db' = Rows /\ db' = [r \in Rows |-> db'[r]] /\ db'["user"] = read
        /\ \A r \in Settings : db'[r] = db[r] /\ Held(r)' = Held(r)
    BY <2>1, <2>2 DEF Rows, Settings, Held
  <2>4. DataTyped
    <3>1. RowsTyped'
      BY <1>1, <1>3, <2>2, <2>3 DEF RowsTyped, Lists, Rows
    <3> QED
      BY <1>1, <2>2, <2>3, <3>1 DEF DataTyped
  <2>5. Affects(p)
    BY <1>1, <1>5, <2>3 DEF Affects, UserStays, Listed
  <2>6. \A r \in Rows : r # "user" => Settles(p, r)
    BY <1>1, <2>3 DEF Settles, Rows
  <2>7. Fits(p, "store", read)
    BY <1>1, <1>3 DEF Fits, Writes
  <2> HIDE DEF read
  <2>8. Prepared(p, "store", read)
    BY <1>1, <1>3, <2>4, <2>5, <2>6, <2>7 DEF Prepared
  <2> QED
    BY <1>2, <2>1, <2>8, ContinueIsSound
<1> QED
  BY <1>4, <1>5

\* What was written is cached; the last write of a request answers it.
LEMMA CacheStoreIsSound ==
    ASSUME NEW p \in Procs, Sound, CacheStore(p)
    PROVE  Sound'
<1>1. /\ phase[p] = "store" /\ CacheSet(p) /\ NextCall(p)
      /\ db' = db /\ minted' = minted /\ failed' = failed
  BY DEF CacheStore, Control
<1>2. Busy(p)
  BY <1>1 DEF Busy
<1>3. /\ AtCall(request[p], Call(p), Tail(calls[p])) /\ Stored(p) /\ Removed(p) /\ Stage(p)
      /\ Call(p).do \in Writes /\ val[p] \in Lists(Row(p))
      /\ Call(p).do = "add" => Call(p).tok = request[p].new /\ Call(p).tok \in Tokens
      /\ Call(p).do = "remove" => Call(p).tok = request[p].tok /\ Call(p).tok \in Tokens
  BY <1>1, <1>2, CallAtHand DEF Stage
<1>4. /\ DataTyped /\ Affects(p) /\ \A r \in Rows : Settles(p, r)
      /\ \A r : Held(r)' = Held(r)
      /\ \A t : Listed(t) => ListedNext(t)
      /\ cache'[Row(p)] = val[p] /\ \A r \in Rows \ {Row(p)} : cache'[r] = cache[r]
      /\ Wrong \subseteq Wrong' /\ (UserStays' => UserStays)
  BY <1>1, <1>2, <1>3, CacheSetIsSound DEF DataTyped, Wrong, UserStays
<1>5. request[p].new # Miss /\ request[p].new \notin Wrong' /\ UserStays' /\ Call(p).do \in {"add", "remove"}
        => ListedNext(request[p].new)
  BY <1>1, <1>3, <1>4 DEF Stored
<1>6. CASE Tail(calls[p]) = <<>>
  <2>1. Finish(p, TRUE)
    BY <1>1, <1>6 DEF NextCall
  <2>2. Call(p).do \notin {"add", "remove"} => request[p].new = Miss
    BY <1>3, <1>6 DEF AtCall, Writes
  <2>3. ASSUME request[p].kind \in Revoking, request[p].tok \notin Wrong', NEW r \in Settings
        PROVE  request[p].tok \notin Held(r)' /\ (cache'[r] = Miss \/ request[p].tok \notin cache'[r])
    <3>1. /\ Call(p).do = "remove"
          /\ \/ Row(p) = "refresh" /\ request[p].tok \in RefreshTokens
             \/ Row(p) = "pat" /\ request[p].tok \in PATs
      BY <1>3, <1>6, <2>3 DEF AtCall, Writes, Revoking, Row
    <3>2. request[p].tok \notin val[p] /\ request[p].tok \notin Held(r)
      BY <1>1, <1>3, <1>4, <2>3, <3>1 DEF Removed
    <3>3. CASE r = Row(p)
      BY <1>4, <3>2, <3>3
    <3>4. CASE r # Row(p)
      <4>1. cache'[r] = cache[r]
        BY <1>4, <3>4 DEF Rows
      <4>2. cache[r] = Miss \/ cache[r] \in Lists(r)
        BY DEF Sound, Typed, RowsTyped, Rows
      <4>3. cache[r] = Miss \/ request[p].tok \notin cache[r]
        BY <3>1, <3>4, <4>2, RowOfToken
      <4> QED
        BY <1>4, <3>2, <4>1, <4>3
    <3> QED
      BY <3>3, <3>4
  <2> QED
    BY <1>2, <1>4, <1>5, <2>1, <2>2, <2>3, FinishIsSound
<1>7. CASE Tail(calls[p]) # <<>>
  <2>1. Call(p).do = "add"
    BY <1>3, <1>7 DEF AtCall, Writes
  <2>2. Call(p).tok \notin Wrong' /\ UserStays' => ListedNext(Call(p).tok)
    BY <1>3, <1>5, <2>1, TokensAreNotMiss
  <2>3. ~IsLate(p)
    BY <1>2, <2>1, LateReadsNothing
  <2> QED
    BY <1>1, <1>2, <1>4, <1>7, <2>2, <2>3, AdvanceIsSound
<1> QED
  BY <1>6, <1>7

\* The rows go, and the caches that may still hold them are still to be emptied.
LEMMA DeleteRowsIsSound ==
    ASSUME NEW p \in Procs, Sound, DeleteRows(p)
    PROVE  Sound'
<1> DEFINE read == {"user"} \cup {r \in Settings : db[r] # NoRow}
<1>1. /\ phase[p] = "write" /\ Call(p).do = "delete" /\ db' = [r \in Rows |-> NoRow]
      /\ Continue(p, "drop", read)
      /\ cache' = cache /\ raced' = raced /\ minted' = minted /\ failed' = failed
  BY DEF DeleteRows, Control
<1>2. Busy(p)
  BY <1>1 DEF Busy
<1>3. /\ RowsTyped /\ DOMAIN cache = Rows /\ cache = [r \in Rows |-> cache[r]]
      /\ raced \subseteq Tokens \cup Statuses /\ failed \subseteq minted
  BY DEF Sound, Typed, TypeOK
<1>4. /\ DOMAIN db' = Rows /\ db' = [r \in Rows |-> db'[r]]
      /\ \A r \in Rows : db'[r] = NoRow /\ Held(r)' = {}
  BY <1>1 DEF Held
<1>5. DataTyped
  <2>1. RowsTyped'
    BY <1>1, <1>3, <1>4 DEF RowsTyped, Lists
  <2> QED
    BY <1>1, <1>3, <1>4, <2>1 DEF DataTyped
<1>6. Affects(p)
  <2>1. ~UserStays'
    BY <1>4 DEF UserStays, Rows
  <2> QED
    BY <1>1, <1>4, <2>1 DEF Affects, Rows
<1>7. \A r \in Rows : Settles(p, r) \/ r \in read
  BY <1>1, <1>4 DEF Settles, Rows, Held
<1>8. Fits(p, "drop", read)
  BY <1>1 DEF Fits, Rows
<1> HIDE DEF read
<1>9. Prepared(p, "drop", read)
  BY <1>1, <1>5, <1>6, <1>7, <1>8 DEF Prepared
<1> QED
  BY <1>1, <1>2, <1>9, ContinueIsSound

LEMMA DropCachedIsSound ==
    ASSUME NEW p \in Procs, Sound, NEW r \in Rows, DropCached(p, r)
    PROVE  Sound'
<1>1. /\ phase[p] = "drop" /\ r \in val[p] /\ cache' = [cache EXCEPT ![r] = Miss]
      /\ db' = db /\ raced' = raced /\ minted' = minted /\ failed' = failed
  BY DEF DropCached, Control
<1>2. Busy(p)
  BY <1>1 DEF Busy
<1>3. /\ AtCall(request[p], Call(p), Tail(calls[p])) /\ Call(p).do = "delete" /\ val[p] \subseteq Rows
  BY <1>1, <1>2, CallAtHand DEF Stage
<1>4. /\ DOMAIN cache = Rows /\ cache = [s \in Rows |-> cache[s]]
      /\ raced \subseteq Tokens \cup Statuses /\ failed \subseteq minted
  BY DEF Sound, Typed, TypeOK
<1>5. /\ DOMAIN cache' = Rows /\ cache' = [s \in Rows |-> cache'[s]] /\ cache'[r] = Miss
      /\ \A s \in Rows \ {r} : cache'[s] = cache[s]
  BY <1>1, <1>4
<1>6. DataTyped /\ Affects(p) /\ \A s : Held(s)' = Held(s)
  BY <1>1, <1>4, <1>5, RowsStay
<1>7. \A s \in Rows : Settles(p, s) \/ s \in val[p] \ {r}
  BY <1>1, <1>5, <1>6 DEF Settles
<1>8. CASE val[p] = {r}
  <2>1. Tail(calls[p]) = <<>> /\ request[p].new = Miss /\ request[p].kind \notin Revoking
    BY <1>3 DEF AtCall, Revoking
  <2>2. Finish(p, TRUE)
    BY <1>8, <2>1 DEF DropCached, NextCall
  <2>3. \A s \in Rows : Settles(p, s)
    BY <1>7, <1>8
  <2> QED
    BY <1>1, <1>2, <1>6, <2>1, <2>2, <2>3, FinishIsSound
<1>9. CASE val[p] # {r}
  <2> DEFINE read == val[p] \ {r}
  <2>1. Continue(p, "drop", read)
    BY <1>9 DEF DropCached
  <2>2. Fits(p, "drop", read)
    BY <1>3 DEF Fits
  <2>3. \A s \in Rows : Settles(p, s) \/ s \in read
    BY <1>7
  <2> HIDE DEF read
  <2>4. Prepared(p, "drop", read)
    BY <1>1, <1>6, <2>2, <2>3 DEF Prepared
  <2> QED
    BY <1>2, <2>1, <2>4, ContinueIsSound
<1> QED
  BY <1>8, <1>9

\* A failure answers the request; what it left undone is in failed if the answer is success.
LEMMA DatabaseErrorIsSound ==
    ASSUME NEW p \in Procs, Sound, DatabaseError(p)
    PROVE  Sound'
<1>1. /\ phase[p] \in {"list", "write", "have"} /\ Finish(p, Tolerated(p))
      /\ failed' = IF Tolerated(p) THEN failed \cup {Call(p).tok} ELSE failed
      /\ db' = db /\ cache' = cache /\ raced' = raced /\ minted' = minted
  BY DEF DatabaseError
<1>2. Busy(p)
  BY <1>1 DEF Busy
<1>3. /\ AtCall(request[p], Call(p), Tail(calls[p])) /\ Asked(p) /\ Stored(p)
      /\ Call(p).do = "add" => Call(p).tok = request[p].new /\ Call(p).tok \in Tokens
      /\ Call(p).do = "remove" => Call(p).tok = request[p].tok /\ request[p].kind \in Revoking
  BY <1>2, CallAtHand
<1>4. /\ DOMAIN cache = Rows /\ cache = [s \in Rows |-> cache[s]]
      /\ raced \subseteq Tokens \cup Statuses /\ failed \subseteq minted
  BY DEF Sound, Typed, TypeOK
<1>5. Tolerated(p) => Call(p).tok \in minted /\ Call(p).tok \in Wrong'
  BY <1>1, <1>3, TokensAreNotMiss DEF Tolerated, Asked, Wrong
<1>6. failed \subseteq failed' /\ failed' \subseteq minted
  BY <1>1, <1>4, <1>5
<1>7. /\ DataTyped /\ Affects(p) /\ \A r : Held(r)' = Held(r)
      /\ \A t : Listed(t) => ListedNext(t)
  BY <1>1, <1>4, <1>6, RowsStay
<1>8. \A r \in Rows : Settles(p, r)
  BY <1>1, <1>7 DEF Settles
<1>9. Tolerated(p) /\ request[p].new # Miss /\ request[p].new \notin Wrong' /\ UserStays' =>
          ListedNext(request[p].new)
  <2> SUFFICES ASSUME Tolerated(p), request[p].new # Miss, request[p].new \notin Wrong', UserStays'
               PROVE  ListedNext(request[p].new)
    OBVIOUS
  <2>1. Call(p).do = "remove"
    BY <1>3, <1>5 DEF Tolerated
  <2>2. request[p].new \notin Wrong /\ UserStays
    BY <1>1, <1>6 DEF Wrong, UserStays
  <2>3. Listed(request[p].new)
    BY <1>3, <2>1, <2>2 DEF Stored
  <2> QED
    BY <1>7, <2>3
<1>10. Tolerated(p) /\ request[p].kind \in Revoking => request[p].tok \in Wrong'
  BY <1>3, <1>5 DEF Tolerated, Revoking
<1>11. Tolerated(p) \in BOOLEAN
  BY DEF Tolerated
<1> DEFINE success == Tolerated(p)
<1> HIDE DEF success
<1>12. Finish(p, success) /\ success \in BOOLEAN /\ phase[p] # "store"
  BY <1>1, <1>11 DEF success
<1>13. /\ success /\ request[p].new # Miss /\ request[p].new \notin Wrong' /\ UserStays' =>
             ListedNext(request[p].new)
       /\ ~(success /\ request[p].kind \in Revoking /\ request[p].tok \notin Wrong')
  BY <1>9, <1>10 DEF success
<1> QED
  BY <1>2, <1>7, <1>8, <1>12, <1>13, FinishIsSound

\* Entries that leave the caches by themselves, and steps of others.
LEMMA IdleIsSound ==
    ASSUME Sound, UNCHANGED <<db, phase, calls, val, request, raced, minted, failed, History>>,
           DOMAIN cache' = Rows, cache' = [r \in Rows |-> cache'[r]],
           \A r \in Rows : cache'[r] \in {Miss, cache[r]}
    PROVE  Sound'
<1>1. RowsTyped'
  BY DEF Sound, Typed, RowsTyped, Lists
<1>2. /\ cache' \in [Rows -> Contents \cup {Miss}] /\ \A r \in Rows : cache'[r] # NoRow
  BY SessionMarkers DEF Sound, Typed, TypeOK, SessionMarkers
<1>3. Typed'
  BY <1>1, <1>2 DEF Sound, Typed, TypeOK, History
<1>4. /\ \A q \in Procs : Call(q)' = Call(q) /\ Row(q)' = Row(q)
      /\ \A r : Held(r)' = Held(r)
      /\ \A t : Listed(t) <=> Listed(t)'
  BY DEF Call, Row, Held, Listed
<1>5. NoClash'
  BY DEF Sound, NoClash, Busy
<1>6. Kept'
  BY <1>4 DEF Sound, Kept, Removing, Wrong, UserStays, History
<1>7. Gone'
  BY <1>4 DEF Sound, Gone, Wrong, History, Rows
<1>8. \A r \in Rows : Caching(r)'
  <2> SUFFICES ASSUME NEW r \in Rows PROVE Caching(r)'
    OBVIOUS
  <2>1. Caching(r) /\ cache'[r] \in {Miss, cache[r]}
    BY DEF Sound
  <2> QED
    BY <1>4, <2>1 DEF Caching, Differing
<1>9. ASSUME NEW q \in Procs PROVE Own(q)'
  <2> SUFFICES ASSUME Busy(q) PROVE Own(q)'
    BY DEF Own, Busy
  <2>1. Planned(request[q], calls[q]) /\ Stage(q) /\ Asked(q) /\ Stored(q) /\ Removed(q) /\ Turned(q)
    BY DEF Sound, Own
  <2>2. Planned(request[q], calls[q])' /\ Stage(q)' /\ Asked(q)'
    <3>1. Planned(request[q], calls[q])'
      BY <2>1 DEF Planned, Changing, Using
    <3> QED
      BY <1>4, <2>1, <3>1 DEF Stage, Asked, Lists, History
  <2>3. Stored(q)' /\ Removed(q)' /\ Turned(q)'
    BY <1>4, <2>1 DEF Stored, Removed, Turned, IsLate, Wrong, UserStays
  <2> QED
    BY <2>2, <2>3 DEF Own
<1> QED
  BY <1>3, <1>5, <1>6, <1>7, <1>8, <1>9 DEF Sound

-----------------------------------------------------------------------------
(* The theorems *)

LEMMA StepIsSound == Sound /\ [Next]_vars => Sound'
<1> SUFFICES ASSUME Sound, [Next]_vars PROVE Sound'
  OBVIOUS
<1>1. DOMAIN cache = Rows /\ cache = [r \in Rows |-> cache[r]]
  BY DEF Sound, Typed, TypeOK
<1>2. ASSUME NEW p \in Procs, Begin(p) PROVE Sound'
  BY <1>2, BeginIsSound
<1>3. ASSUME NEW p \in Procs, Step(p) PROVE Sound'
  BY <1>3, ReadIsSound, CheckIsSound, UpsertIsSound, UpdateRowIsSound, CacheStoreIsSound,
     DeleteRowsIsSound, DropCachedIsSound
  DEF Step
<1>4. ASSUME NEW p \in Procs, DatabaseError(p) PROVE Sound'
  BY <1>4, DatabaseErrorIsSound
<1>5. ASSUME NEW r \in Rows, CacheDrop(r) PROVE Sound'
  BY <1>1, <1>5, IdleIsSound DEF CacheDrop, Control
<1>6. CASE UNCHANGED vars
  BY <1>1, <1>6, IdleIsSound DEF vars, History
<1> QED
  BY <1>2, <1>3, <1>4, <1>5, <1>6 DEF Next

LEMMA AlwaysSound == Spec => []Sound
BY InitIsSound, StepIsSound, PTL DEF Spec

\* Any number of requests at once: rows and caches hold what the code stores,
\* and once all have returned a cached copy differs from its row at most on
\* what a write or a cache fill got wrong that worked with an outdated
\* reading (store/user_setting.go, store/user.go).
THEOREM SessionsAreConsistent == Spec => []Consistent
<1>1. Sound => Consistent
  <2> SUFFICES ASSUME Sound, Quiet, NEW r \in Rows
               PROVE  cache[r] = Miss \/ Differing(cache[r], Held(r)) \subseteq raced
    BY DEF Consistent, Coherent, Sound, Typed
  <2>1. Caching(r)
    BY DEF Sound
  <2>2. \A p \in Procs : phase[p] \notin {"store", "drop"}
    BY DEF Quiet
  <2> QED
    BY <2>1, <2>2 DEF Caching
<1> QED
  BY <1>1, AlwaysSound, PTL

\* A token handed to a client and not revoked is listed in the database, so
\* that it will be accepted, unless the sign-in failed to store it or a write
\* that had read the list before took it out (AddUserRefreshToken and its
\* kin, store/user_setting.go).
THEOREM SessionsAreKept == Spec => []SessionsKept
<1>1. Sound => SessionsKept
  <2> SUFFICES ASSUME Sound, Quiet, UserStays, NEW t \in live \ Wrong PROVE Listed(t)
    BY DEF SessionsKept, UserStays, Listed, Wrong
  <2>1. Listed(t) \/ Removing(t)
    BY DEF Sound, Kept
  <2> QED
    BY <2>1 DEF Removing, Quiet
<1> QED
  BY <1>1, AlwaysSound, PTL

\* A token whose rotation, sign-out or deletion was answered with success is
\* accepted by no request that begins later, unless its removal failed or a
\* write or fill that had read the list before put it back
\* (AuthenticateByRefreshToken, auth_service.go, user_service.go).
THEOREM RevokedTokensAreRejected == Spec => RevokedIsRejected
<1>1. Sound => \A p \in Procs :
          request[p].late /\ request[p].tok \notin failed \cup raced => ~Accepts(p)
  <2> SUFFICES ASSUME Sound, NEW p \in Procs, request[p].late, request[p].tok \notin Wrong, Accepts(p)
               PROVE  FALSE
    BY DEF Wrong
  <2>1. Busy(p) /\ IsLate(p) /\ Row(p) = "user"
    BY DEF Accepts, Check, Busy, IsLate, Presenting
  <2>2. Row(p) \in Settings
    BY <2>1, LateReadsNothing
  <2> QED
    BY <2>1, <2>2 DEF Settings
<1> QED
  BY <1>1, AlwaysSound, PTL DEF RevokedIsRejected

=============================================================================
