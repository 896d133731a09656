----------------------------- MODULE WebAuthProofs -----------------------------
(***************************************************************************)
(* The session of the web client, for any number of tabs and of things     *)
(* that users, clocks and the network do: types, and SignOutSticks.        *)
(***************************************************************************)
EXTENDS WebAuth, TLAPS

-----------------------------------------------------------------------------
(* Types *)

Tokens == 0 .. issued

\* One refresh of a tab, and one call.
Refreshes == [at : {"idle", "sent", "done", "fail"}, c : Tokens, new : Tokens]

Purposes == {"none", "init", "me", "signin", "signup", "signout", "public", "protected"}

CallSteps ==
    {"none", "start", "check", "wait", "token", "pre", "wire", "re", "rewire",
     "ok", "guest", "thrown", "denied", "granted", "revoked", "overtaken", "cleared"}

Calls == [for : Purposes, at : CallSteps, h : Tokens, c : Tokens]

Slots == {"app", "query"}

\* TypeOK, and what it leaves open: the calls, the broadcasts, and that no session has the number 0.
AuthTyped ==
    /\ TypeOK
    /\ issued \in Nat /\ 0 \notin session
    /\ task \in [Tabs -> [Slots -> Calls]]
    /\ inbox \in [Tabs -> Tokens]

\* The parts of AuthTyped that a step which issues no token may touch.
Held ==
    /\ cookie \in Tokens /\ stored \in Tokens
    /\ session \subseteq Tokens /\ 0 \notin session
    /\ age \in [1 .. issued -> 0 .. 2]

Shown == page \in [Tabs -> {"auth", "public", "private"}]

LEMMA AuthTypedParts ==
    AuthTyped <=>
        /\ issued \in Nat /\ Held /\ Shown
        /\ token \in [Tabs -> Tokens] /\ inbox \in [Tabs -> Tokens]
        /\ refresh \in [Tabs -> Refreshes] /\ task \in [Tabs -> [Slots -> Calls]]
BY DEF AuthTyped, TypeOK, Held, Shown, Tokens, Refreshes

LEMMA GetAccessTokenTyped ==
    ASSUME AuthTyped, NEW t \in Tabs PROVE GetAccessToken(t) \in Tokens
BY DEF AuthTyped, TypeOK, GetAccessToken, Tokens

\* What a step that writes one call leaves.
LEMMA SetCall ==
    ASSUME AuthTyped, NEW t \in Tabs, NEW k \in Slots, NEW r \in Calls, Set(t, k, r)
    PROVE  /\ task' \in [Tabs -> [Slots -> Calls]]
           /\ \A s \in Tabs : task'[s].app = IF s = t /\ k = "app" THEN r ELSE task[s].app
           /\ \A s \in Tabs : task'[s].query = IF s = t /\ k = "query" THEN r ELSE task[s].query
<1>1. task \in [Tabs -> [Slots -> Calls]]
  BY DEF AuthTyped
<1>2. task' = [task EXCEPT ![t] = [task[t] EXCEPT ![k] = r]]
  BY <1>1 DEF Set
<1>3. [task[t] EXCEPT ![k] = r] \in [Slots -> Calls]
  BY <1>1
<1>4. /\ [task[t] EXCEPT ![k] = r].app = IF k = "app" THEN r ELSE task[t].app
      /\ [task[t] EXCEPT ![k] = r].query = IF k = "query" THEN r ELSE task[t].query
  BY <1>1 DEF Slots
<1> QED
  BY <1>1, <1>2, <1>3, <1>4

\* Join starts a refresh with the cookie of the browser, or none.
LEMMA JoinStarts ==
    ASSUME AuthTyped, NEW t \in Tabs, Join(t)
    PROVE  /\ refresh' \in [Tabs -> Refreshes]
           /\ \A s \in Tabs : \/ refresh'[s] = refresh[s]
                              \/ refresh'[s].at = "sent" /\ refresh'[s].c = cookie
<1>1. refresh \in [Tabs -> Refreshes] /\ cookie \in Tokens /\ 0 \in Tokens
  BY AuthTypedParts DEF Held, Tokens, AuthTyped
<1>2. [at |-> "sent", c |-> cookie, new |-> 0] \in Refreshes
  BY <1>1 DEF Refreshes
<1> QED
  BY <1>1, <1>2 DEF Join

\* The calls that the interceptor and its callers write.
LEMMA CallsWritten ==
    ASSUME AuthTyped, NEW r \in Calls
    PROVE  /\ \A what \in Purposes : Call(what) \in Calls
           /\ \A how \in CallSteps : Over(r, how) \in Calls /\ [r EXCEPT !.at = how] \in Calls
           /\ \A how \in CallSteps, n \in Tokens, left \in Tokens :
                 [r EXCEPT !.at = how, !.h = n, !.c = left] \in Calls
           /\ \A how \in CallSteps, n \in Tokens : [r EXCEPT !.at = how, !.h = n] \in Calls
           /\ Idle \in Calls
           /\ Booting \in [Slots -> Calls] /\ Booting.app = [Idle EXCEPT !.for = "init", !.at = "start"]
<1>1. 0 \in Tokens
  BY DEF AuthTyped, Tokens
<1>2. Idle \in Calls
  BY <1>1 DEF Idle, Calls, Purposes, CallSteps
<1>3. \A what \in Purposes : Call(what) \in Calls
  BY <1>1 DEF Call, Idle, Calls, CallSteps
<1>4. \A how \in CallSteps : Over(r, how) \in Calls /\ [r EXCEPT !.at = how] \in Calls
  BY <1>1 DEF Over, Idle, Calls
<1>5. \A how \in CallSteps, n \in Tokens, left \in Tokens :
          [r EXCEPT !.at = how, !.h = n, !.c = left] \in Calls
  BY DEF Calls
<1>6. \A how \in CallSteps, n \in Tokens : [r EXCEPT !.at = how, !.h = n] \in Calls
  BY DEF Calls
<1>7. [Idle EXCEPT !.for = "init", !.at = "start"] \in Calls
  BY <1>1 DEF Idle, Calls, Purposes, CallSteps
<1>8. Booting \in [Slots -> Calls] /\ Booting.app = [Idle EXCEPT !.for = "init", !.at = "start"]
  BY <1>2, <1>7 DEF Booting, Slots
<1> QED
  BY <1>2, <1>3, <1>4, <1>5, <1>6, <1>8

\* What becomes of a call whose refresh is settled.
LEMMA ResumedCall ==
    ASSUME AuthTyped, NEW r \in Calls, NEW n \in Tokens, NEW left \in Tokens
    PROVE  /\ Resumed(r, n, left) \in Calls
           /\ \/ Resumed(r, n, left) = r
              \/ /\ r.at \in {"wait", "pre", "re"}
                 /\ Resumed(r, n, left).at \in {"check", "wire", "rewire", "denied"}
<1>1. r.h \in Tokens
  BY DEF Calls
<1>2. CASE r.for = "init" /\ r.at = "wait"
  <2>1. Resumed(r, n, left) = [r EXCEPT !.at = "check"]
    BY <1>2 DEF Resumed
  <2>2. "check" \in CallSteps
    BY DEF CallSteps
  <2>3. [r EXCEPT !.at = "check"] \in Calls
    BY <2>2, CallsWritten
  <2>4. [r EXCEPT !.at = "check"].at = "check"
    BY DEF Calls
  <2> QED
    BY <1>2, <2>1, <2>3, <2>4
<1>3. CASE ~(r.for = "init" /\ r.at = "wait") /\ r.at = "pre"
  <2> DEFINE h == IF n # 0 THEN n ELSE r.h
  <2>1. Resumed(r, n, left) = [r EXCEPT !.at = "wire", !.h = h, !.c = left]
    BY <1>3 DEF Resumed
  <2>2. "wire" \in CallSteps /\ h \in Tokens
    BY <1>1 DEF CallSteps
  <2>3. [r EXCEPT !.at = "wire", !.h = h, !.c = left] \in Calls
    BY <2>2, CallsWritten
  <2>4. [r EXCEPT !.at = "wire", !.h = h, !.c = left].at = "wire"
    BY DEF Calls
  <2> QED
    BY <1>3, <2>1, <2>3, <2>4
<1>4. CASE r.at = "re" /\ n # 0
  <2>1. Resumed(r, n, left) = [r EXCEPT !.at = "rewire", !.h = n, !.c = left]
    BY <1>4 DEF Resumed
  <2>2. "rewire" \in CallSteps
    BY DEF CallSteps
  <2>3. [r EXCEPT !.at = "rewire", !.h = n, !.c = left] \in Calls
    BY <2>2, CallsWritten
  <2>4. [r EXCEPT !.at = "rewire", !.h = n, !.c = left].at = "rewire"
    BY DEF Calls
  <2> QED
    BY <1>4, <2>1, <2>3, <2>4
<1>5. CASE r.at = "re" /\ n = 0
  <2>1. Resumed(r, n, left) = [r EXCEPT !.at = "denied"]
    BY <1>5 DEF Resumed
  <2>2. "denied" \in CallSteps
    BY DEF CallSteps
  <2>3. [r EXCEPT !.at = "denied"] \in Calls
    BY <2>2, CallsWritten
  <2>4. [r EXCEPT !.at = "denied"].at = "denied"
    BY DEF Calls
  <2> QED
    BY <1>5, <2>1, <2>3, <2>4
<1>6. CASE ~(r.for = "init" /\ r.at = "wait") /\ r.at \notin {"pre", "re"}
  BY <1>6 DEF Resumed
<1> QED
  BY <1>2, <1>3, <1>4, <1>5, <1>6

\* The same for both calls of the tab whose refresh it was.
LEMMA ResumedTasks ==
    ASSUME AuthTyped, NEW t \in Tabs, NEW n \in Tokens, NEW left \in Tokens,
           task' = [task EXCEPT ![t] = [k \in DOMAIN @ |-> Resumed(@[k], n, left)]]
    PROVE  /\ task' \in [Tabs -> [Slots -> Calls]]
           /\ \A s \in Tabs :
                \/ task'[s].app = task[s].app
                \/ /\ task[s].app.at \in {"wait", "pre", "re"}
                   /\ task'[s].app.at \in {"check", "wire", "rewire", "denied"}
<1>1. task \in [Tabs -> [Slots -> Calls]]
  BY DEF AuthTyped
<1>2. DOMAIN task[t] = Slots /\ \A k \in Slots : task[t][k] \in Calls
  BY <1>1
<1> DEFINE now == [k \in Slots |-> Resumed(task[t][k], n, left)]
<1>3. task' = [task EXCEPT ![t] = now]
  BY <1>1, <1>2
<1>4. now \in [Slots -> Calls] /\ now.app = Resumed(task[t].app, n, left)
  BY <1>2, ResumedCall DEF Slots
<1>5. task[t].app \in Calls
  BY <1>1 DEF Slots
<1> HIDE DEF now
<1> QED
  BY <1>1, <1>3, <1>4, <1>5, ResumedCall

\* What a page load leaves of the tab and of the server's sessions.
LEMMA LoadLeaves ==
    ASSUME AuthTyped, NEW t \in Tabs, NEW p \in {"auth", "public", "private"}, Load(t, p)
    PROVE  /\ page' \in [Tabs -> {"auth", "public", "private"}]
           /\ task' \in [Tabs -> [Slots -> Calls]]
           /\ refresh' \in [Tabs -> Refreshes]
           /\ session' \subseteq session
           /\ \A s \in Tabs :
                /\ refresh'[s] = refresh[s] \/ refresh'[s].at = "idle"
                /\ task'[s].app = task[s].app \/ (s = t /\ task'[s].app.at = "start")
<1>1. /\ page \in [Tabs -> {"auth", "public", "private"}]
      /\ task \in [Tabs -> [Slots -> Calls]] /\ refresh \in [Tabs -> Refreshes]
  BY AuthTypedParts DEF Shown
<1>2. NoRefresh \in Refreshes /\ NoRefresh.at = "idle"
  BY DEF NoRefresh, Refreshes, Tokens, AuthTyped
<1>3. Booting \in [Slots -> Calls] /\ Booting.app.at = "start"
  <2>1. task[t].app \in Calls
    BY <1>1 DEF Slots
  <2> QED
    BY <2>1, CallsWritten DEF Idle
<1>4. session' \subseteq session
  BY DEF Load
<1> QED
  BY <1>1, <1>2, <1>3, <1>4 DEF Load

-----------------------------------------------------------------------------
(* Signing out *)

SignOutSteps == {"revoked", "overtaken", "cleared"}

\* No token that the server still takes is in the browser's cookie, or on its way into it.
NothingComes ==
    /\ cookie \notin session
    /\ \A t \in Tabs :
        /\ refresh[t].at # "done"
        /\ refresh[t].at = "sent" => refresh[t].c \notin session
        /\ task[t].app.at # "granted"

\* From the revocation on nothing comes, unless somebody signs in; what is left in
\* localStorage goes before any other tab runs.
SignOutHolds ==
    /\ over => cookie = 0 /\ NothingComes
    /\ over => stored = 0 \/ \E t \in Tabs : task[t].app.at = "cleared"
    /\ (\E t \in Tabs : task[t].app.at = "revoked") => NothingComes
    /\ \A t \in Tabs : task[t].app.at \in SignOutSteps => task[t].app.for = "signout"

SignOutSound == AuthTyped /\ SignOutHolds

KeepsRefresh(t) ==
    \/ refresh'[t] = refresh[t]
    \/ refresh'[t].at \in {"idle", "fail"}
    \/ refresh'[t].at = "sent" /\ refresh'[t].c = cookie

KeepsCall(t) ==
    \/ task'[t].app.at = task[t].app.at /\ task'[t].app.for = task[t].app.for
    \/ /\ task'[t].app.at \notin SignOutSteps \cup {"granted"}
       /\ task[t].app.at = "cleared" => stored' = 0

\* A step that brings no token into the browser: refreshes start with the cookie or end.
BringsNothing ==
    /\ cookie' = cookie /\ over' = over
    /\ session' \subseteq session /\ stored' \in {stored, 0}
    /\ \A t \in Tabs : KeepsRefresh(t) /\ KeepsCall(t)

LEMMA SignOutIsKept ==
    ASSUME SignOutHolds, BringsNothing
    PROVE  SignOutHolds'
<1>1. NothingComes => NothingComes'
  BY DEF NothingComes, BringsNothing, KeepsRefresh, KeepsCall, SignOutSteps
<1>2. \A t \in Tabs : task'[t].app.at \in SignOutSteps =>
          task[t].app.at = task'[t].app.at /\ task[t].app.for = task'[t].app.for
  BY DEF BringsNothing, KeepsCall
<1>3. (\E t \in Tabs : task[t].app.at = "cleared")
          => stored' = 0 \/ \E t \in Tabs : task'[t].app.at = "cleared"
  BY DEF BringsNothing, KeepsCall
<1> QED
  BY <1>1, <1>2, <1>3 DEF SignOutHolds, BringsNothing, SignOutSteps

\* A step that brings nothing and issues no token.
LEMMA StepIsSound ==
    ASSUME SignOutSound, BringsNothing, issued' = issued,
           age' \in [1 .. issued -> 0 .. 2],
           page' \in [Tabs -> {"auth", "public", "private"}],
           token' \in [Tabs -> Tokens], inbox' \in [Tabs -> Tokens],
           refresh' \in [Tabs -> Refreshes], task' \in [Tabs -> [Slots -> Calls]]
    PROVE  SignOutSound'
<1>1. AuthTyped'
  BY DEF SignOutSound, AuthTyped, TypeOK, Tokens, Refreshes, Calls, BringsNothing
<1> QED
  BY <1>1, SignOutIsKept DEF SignOutSound

\* Writing one call of a tab.
LEMMA SetKeeps ==
    ASSUME AuthTyped, NEW t \in Tabs, NEW k \in Slots, NEW r \in Calls, Set(t, k, r),
           r.at \notin SignOutSteps \cup {"granted"},
           k = "app" => task[t].app.at # "cleared" \/ stored' = 0
    PROVE  \A s \in Tabs : KeepsCall(s)
BY SetCall DEF KeepsCall

LEMMA JoinKeeps ==
    ASSUME AuthTyped, NEW t \in Tabs, Join(t)
    PROVE  \A s \in Tabs : KeepsRefresh(s)
BY JoinStarts DEF KeepsRefresh

LEMMA SoundTypes ==
    ASSUME SignOutSound
    PROVE  /\ AuthTyped /\ issued \in Nat
           /\ age \in [1 .. issued -> 0 .. 2]
           /\ page \in [Tabs -> {"auth", "public", "private"}]
           /\ token \in [Tabs -> Tokens] /\ inbox \in [Tabs -> Tokens]
           /\ refresh \in [Tabs -> Refreshes] /\ task \in [Tabs -> [Slots -> Calls]]
           /\ cookie \in Tokens /\ stored \in Tokens /\ session \subseteq Tokens
           /\ 0 \in Tokens
BY AuthTypedParts DEF SignOutSound, Held, Shown, Tokens

\* A step that writes one call, and may start a refresh.
LEMMA CallStepIsSound ==
    ASSUME SignOutSound, NEW t \in Tabs, NEW k \in Slots, NEW r \in Calls, Set(t, k, r),
           r.at \notin SignOutSteps \cup {"granted"},
           k = "app" => task[t].app.at # "cleared" \/ stored' = 0,
           Join(t) \/ refresh' = refresh,
           UNCHANGED <<cookie, session, issued, age, page, over>>, stored' \in {stored, 0},
           token' \in [Tabs -> Tokens], inbox' \in [Tabs -> Tokens]
    PROVE  SignOutSound'
<1>1. \A s \in Tabs : KeepsCall(s)
  BY SetKeeps, SoundTypes
<1>2. refresh' \in [Tabs -> Refreshes] /\ \A s \in Tabs : KeepsRefresh(s)
  BY JoinStarts, JoinKeeps, SoundTypes DEF KeepsRefresh
<1>3. task' \in [Tabs -> [Slots -> Calls]]
  BY SetCall, SoundTypes
<1>4. BringsNothing
  BY <1>1, <1>2 DEF BringsNothing
<1> QED
  BY <1>2, <1>3, <1>4, SoundTypes, StepIsSound

\* connect.ts: what the interceptor does of one call.
LEMMA InterceptorIsSound ==
    ASSUME SignOutSound, NEW t \in Tabs, NEW k \in Slots,
           Prepare(t, k) \/ Answer(t, k) \/ Errs(t, k)
    PROVE  SignOutSound'
<1> DEFINE r == task[t][k]
<1>1. r \in Calls /\ (k = "app" => r = task[t].app)
  BY SoundTypes
<1>2. AuthTyped /\ GetAccessToken(t) \in Tokens /\ cookie \in Tokens
  BY SoundTypes, GetAccessTokenTyped
<1>3. \A how \in CallSteps : Over(r, how) \in Calls /\ Over(r, how).at = how
  BY <1>1, <1>2, CallsWritten DEF Over, Idle
<1>4. CASE Prepare(t, k)
  <2> DEFINE n == GetAccessToken(t)
             wired == [r EXCEPT !.at = "wire", !.h = n, !.c = cookie]
             waits == [r EXCEPT !.at = "pre", !.h = n]
  <2>1. /\ r.at = "token" /\ token' = [token EXCEPT ![t] = n]
        /\ \/ Set(t, k, wired) /\ refresh' = refresh
           \/ Set(t, k, waits) /\ Join(t)
        /\ UNCHANGED <<cookie, stored, session, issued, age, page, inbox, over>>
    BY <1>4 DEF Prepare, auth
  <2>2. "wire" \in CallSteps /\ "pre" \in CallSteps
    BY DEF CallSteps
  <2>3. wired \in Calls /\ waits \in Calls
    BY <1>1, <1>2, <2>2, CallsWritten
  <2>4. wired.at = "wire" /\ waits.at = "pre"
    BY <1>1 DEF Calls
  <2>5. token' \in [Tabs -> Tokens] /\ inbox' \in [Tabs -> Tokens]
    BY <1>2, <2>1, SoundTypes
  <2>6. k = "app" => task[t].app.at # "cleared"
    BY <1>1, <2>1
  <2> HIDE DEF wired, waits, r, n
  <2> QED
    BY <2>1, <2>3, <2>4, <2>5, <2>6, CallStepIsSound DEF SignOutSteps
<1>5. CASE Answer(t, k) \/ Errs(t, k)
  <2>1. PICK how \in {"ok", "guest", "re", "denied", "thrown"} :
            /\ r.at \in {"wire", "rewire"} /\ Set(t, k, Over(r, how))
            /\ Join(t) \/ refresh' = refresh
    BY <1>5 DEF Answer, Errs
  <2>2. UNCHANGED <<cookie, stored, session, issued, age, page, token, inbox, over>>
    BY <1>5 DEF Answer, Errs, auth
  <2>3. Over(r, how) \in Calls /\ Over(r, how).at \notin SignOutSteps \cup {"granted"}
    BY <1>3 DEF CallSteps, SignOutSteps
  <2>4. k = "app" => task[t].app.at # "cleared"
    BY <1>1, <2>1
  <2> HIDE DEF r
  <2> QED
    BY <2>1, <2>2, <2>3, <2>4, SoundTypes, CallStepIsSound
<1> QED
  BY <1>4, <1>5

\* The refresh of a tab fails, or its answer is lost.
LEMMA RefreshEndsSound ==
    ASSUME SignOutSound, NEW t \in Tabs, ServerRefuses(t) \/ RefreshLost(t) \/ RefreshFails(t)
    PROVE  SignOutSound'
<1>1. NoRefresh \in Refreshes /\ [NoRefresh EXCEPT !.at = "fail"] \in Refreshes
  BY SoundTypes DEF NoRefresh, Refreshes
<1>2. \E r \in {NoRefresh, [NoRefresh EXCEPT !.at = "fail"]} : refresh' = [refresh EXCEPT ![t] = r]
  BY DEF ServerRefuses, RefreshLost, RefreshFails
<1>3. refresh' \in [Tabs -> Refreshes] /\ \A s \in Tabs : KeepsRefresh(s)
  BY <1>1, <1>2, SoundTypes DEF KeepsRefresh, NoRefresh
<1>4. UNCHANGED <<cookie, stored, session, issued, age, page, token, inbox, over>>
  BY DEF ServerRefuses, RefreshLost, RefreshFails, auth
<1>5. \/ task' = task
      \/ task' = [task EXCEPT ![t] = [k \in DOMAIN @ |-> Resumed(@[k], 0, cookie)]]
  BY DEF ServerRefuses, RefreshLost, RefreshFails
<1>6. task' \in [Tabs -> [Slots -> Calls]] /\ \A s \in Tabs : KeepsCall(s)
  <2>1. AuthTyped /\ cookie \in Tokens /\ 0 \in Tokens
    BY SoundTypes
  <2>2. CASE task' = task
    BY <2>2, SoundTypes DEF KeepsCall
  <2>3. CASE task' = [task EXCEPT ![t] = [k \in DOMAIN @ |-> Resumed(@[k], 0, cookie)]]
    <3>1. /\ task' \in [Tabs -> [Slots -> Calls]]
          /\ \A s \in Tabs :
               \/ task'[s].app = task[s].app
               \/ /\ task[s].app.at \in {"wait", "pre", "re"}
                  /\ task'[s].app.at \in {"check", "wire", "rewire", "denied"}
      BY <2>1, <2>3, ResumedTasks
    <3> QED
      BY <3>1 DEF KeepsCall, SignOutSteps
  <2> QED
    BY <1>5, <2>2, <2>3
<1>7. BringsNothing
  BY <1>3, <1>4, <1>6 DEF BringsNothing
<1> QED
  BY <1>3, <1>4, <1>6, <1>7, SoundTypes, StepIsSound

\* Loading a document, after a sign-out, a failed call or by the user.
LEMMA LoadsAreSound ==
    ASSUME SignOutSound, NEW t \in Tabs,
           \/ Logout(t) \/ (\E k \in Slots : Redirect(t, k))
           \/ \E p \in {"public", "private"} : Reopen(t, p)
    PROVE  SignOutSound'
<1>1. PICK p \in {"auth", "public", "private"} : Load(t, p)
  BY DEF Logout, Redirect, Reopen
<1>2. /\ UNCHANGED <<cookie, issued, age, over>>
      /\ stored' = 0 \/ (stored' = stored /\ Quiet)
  BY DEF Logout, Redirect, Reopen, ClearAccessToken
<1>3. token' = [token EXCEPT ![t] = 0] /\ (inbox' = inbox \/ inbox' = [inbox EXCEPT ![t] = 0])
  BY DEF Logout, Redirect, Reopen, ClearAccessToken
<1>4. token' \in [Tabs -> Tokens] /\ inbox' \in [Tabs -> Tokens]
  BY <1>3, SoundTypes
<1>5. stored' = 0 \/ task[t].app.at # "cleared"
  BY <1>2 DEF Quiet
<1>6. \A s \in Tabs : KeepsRefresh(s) /\ KeepsCall(s)
  <2>1. AuthTyped
    BY SoundTypes
  <2>2. \A s \in Tabs :
          /\ refresh'[s] = refresh[s] \/ refresh'[s].at = "idle"
          /\ task'[s].app = task[s].app \/ (s = t /\ task'[s].app.at = "start")
    BY <1>1, <2>1, LoadLeaves
  <2> QED
    BY <1>5, <2>2 DEF KeepsRefresh, KeepsCall, SignOutSteps
<1>7. BringsNothing
  BY <1>1, <1>2, <1>6, LoadLeaves, SoundTypes DEF BringsNothing
<1> QED
  BY <1>1, <1>2, <1>4, <1>7, LoadLeaves, SoundTypes, StepIsSound

\* The other steps that write one call: AuthContext, the forms and the queries.
LEMMA CallersAreSound ==
    ASSUME SignOutSound, NEW t \in Tabs,
           \/ QueryEnds(t) \/ InitStart(t) \/ InitCheck(t) \/ InitGoesOn(t) \/ InitFails(t)
           \/ SignedUp(t) \/ SubmitFails(t) \/ SignOutClick(t)
           \/ \E what \in {"signin", "signup"} : Submit(t, what)
           \/ \E what \in {"public", "protected"} : StartQuery(t, what)
    PROVE  SignOutSound'
<1> DEFINE waits == [task[t].app EXCEPT !.at = "wait"]
<1>1. AuthTyped /\ task[t].app \in Calls /\ GetAccessToken(t) \in Tokens
  BY SoundTypes, GetAccessTokenTyped DEF Slots
<1>2. waits \in Calls /\ waits.at = "wait"
  <2>1. "wait" \in CallSteps
    BY DEF CallSteps
  <2>2. waits.at = "wait"
    BY <1>1 DEF Calls
  <2> QED
    BY <1>1, <2>1, <2>2, CallsWritten
<1>3. Idle \in Calls /\ Idle.at = "none"
  BY <1>1, CallsWritten DEF Idle
<1>4. \A what \in {"me", "signin", "signup", "signout", "public", "protected"} :
          Call(what) \in Calls /\ Call(what).at = "token"
  <2>1. \A what \in {"me", "signin", "signup", "signout", "public", "protected"} : what \in Purposes
    BY DEF Purposes
  <2>2. \A what : Call(what).at = "token"
    BY DEF Call, Idle
  <2> QED
    BY <1>1, <2>1, <2>2, CallsWritten
<1> DEFINE Written == {Idle, waits} \cup {Call(what) : what \in {"me", "signin", "signup", "signout", "public", "protected"}}
<1>5. \A r \in Written : r \in Calls /\ r.at \notin SignOutSteps \cup {"granted"}
  BY <1>2, <1>3, <1>4 DEF SignOutSteps
<1>6. PICK k \in Slots, r \in Written :
          Set(t, k, r) /\ (k = "app" => task[t].app.at # "cleared" \/ stored' = 0)
  <2> SUFFICES \E k \in Slots, r \in Written :
          Set(t, k, r) /\ (k = "app" => task[t].app.at # "cleared" \/ stored' = 0)
    OBVIOUS
  <2>1. CASE QueryEnds(t) \/ \E what \in {"public", "protected"} : StartQuery(t, what)
    BY <2>1 DEF QueryEnds, StartQuery, Slots
  <2>2. CASE InitStart(t)
    BY <2>2 DEF InitStart, Slots
  <2>3. CASE InitCheck(t) \/ InitGoesOn(t) \/ InitFails(t)
    BY <2>3 DEF InitCheck, InitGoesOn, InitFails, Settle, ClearAccessToken, Slots
  <2>4. CASE SignedUp(t) \/ SubmitFails(t)
    BY <2>4 DEF SignedUp, SubmitFails, Slots
  <2>5. CASE SignOutClick(t) \/ \E what \in {"signin", "signup"} : Submit(t, what)
    BY <2>5, <1>3 DEF SignOutClick, Submit, Slots
  <2> QED
    BY <2>1, <2>2, <2>3, <2>4, <2>5
<1>7. /\ UNCHANGED <<cookie, session, issued, age, page, over>>
      /\ stored' \in {stored, 0} /\ inbox' = inbox
  BY DEF QueryEnds, StartQuery, InitStart, InitCheck, InitGoesOn, InitFails, SignedUp, SubmitFails,
         SignOutClick, Submit, ClearAccessToken, auth
<1>8. Join(t) \/ refresh' = refresh
  BY DEF QueryEnds, StartQuery, InitStart, InitCheck, InitGoesOn, InitFails, SignedUp, SubmitFails,
         SignOutClick, Submit
<1>9. \E n \in Tokens : token' = token \/ token' = [token EXCEPT ![t] = n]
  BY <1>1, SoundTypes DEF QueryEnds, StartQuery, InitStart, InitCheck, InitGoesOn, InitFails,
         SignedUp, SubmitFails, SignOutClick, Submit, ClearAccessToken
<1>10. token' \in [Tabs -> Tokens] /\ inbox' \in [Tabs -> Tokens]
  BY <1>7, <1>9, SoundTypes
<1> HIDE DEF Written
<1> QED
  BY <1>5, <1>6, <1>7, <1>8, <1>10, CallStepIsSound

\* What writes no call: broadcasts, guards, timers of the tab, and time.
LEMMA OthersAreSound ==
    ASSUME SignOutSound,
           \/ \E t \in Tabs : Adopt(t) \/ Guard(t) \/ Focus(t)
           \/ \E n \in DOMAIN age : Ages(n)
           \/ UNCHANGED web
    PROVE  SignOutSound'
<1>0. /\ AuthTyped /\ issued \in Nat /\ age \in [1 .. issued -> 0 .. 2]
      /\ page \in [Tabs -> {"auth", "public", "private"}]
      /\ token \in [Tabs -> Tokens] /\ inbox \in [Tabs -> Tokens]
      /\ refresh \in [Tabs -> Refreshes] /\ task \in [Tabs -> [Slots -> Calls]]
      /\ 0 \in Tokens
  BY SoundTypes
<1>1. UNCHANGED <<cookie, stored, session, issued, task, over>>
  BY DEF Adopt, Guard, Focus, Ages, web, auth
<1>2. age' \in [1 .. issued -> 0 .. 2]
  <2>1. CASE \E n \in DOMAIN age : Ages(n)
    <3>1. PICK n \in 1 .. issued : age[n] < 2 /\ age' = [age EXCEPT ![n] = @ + 1]
      BY <1>0, <2>1 DEF Ages
    <3>2. age[n] + 1 \in 0 .. 2
      BY <1>0, <3>1
    <3> QED
      BY <1>0, <3>1, <3>2
  <2> QED
    BY <1>0, <2>1 DEF Adopt, Guard, Focus, web, auth
<1>3. /\ page' \in [Tabs -> {"auth", "public", "private"}]
      /\ token' \in [Tabs -> Tokens] /\ inbox' \in [Tabs -> Tokens]
  <2>1. ASSUME NEW t \in Tabs, Adopt(t)
        PROVE  page' = page /\ token' \in [Tabs -> Tokens] /\ inbox' \in [Tabs -> Tokens]
    BY <1>0, <2>1 DEF Adopt
  <2>2. ASSUME NEW t \in Tabs, Guard(t)
        PROVE  page' \in [Tabs -> {"auth", "public", "private"}] /\ UNCHANGED <<token, inbox>>
    <3>1. PICK p \in {"auth", "public", "private"} : page' = [page EXCEPT ![t] = p]
      BY <2>2 DEF Guard, Guarded
    <3> QED
      BY <1>0, <2>2, <3>1 DEF Guard
  <2>3. ASSUME NEW t \in Tabs, Focus(t) PROVE UNCHANGED <<page, token, inbox>>
    BY <2>3 DEF Focus
  <2>4. CASE (\E n \in DOMAIN age : Ages(n)) \/ UNCHANGED web
    BY <1>0, <2>4 DEF Ages, web
  <2> QED
    BY <1>0, <2>1, <2>2, <2>3, <2>4
<1>4. refresh' \in [Tabs -> Refreshes] /\ \A s \in Tabs : KeepsRefresh(s)
  BY <1>0, JoinStarts, JoinKeeps DEF Adopt, Guard, Focus, Ages, web, KeepsRefresh
<1>5. BringsNothing
  BY <1>1, <1>4 DEF BringsNothing, KeepsCall
<1> QED
  BY <1>1, <1>2, <1>3, <1>4, <1>5, <1>0, StepIsSound

\* A step that issues a token leaves what is held a token.
LEMMA MoreTokens ==
    ASSUME AuthTyped, issued' = issued + 1
    PROVE  /\ Tokens \subseteq Tokens' /\ issued + 1 \in Tokens' /\ issued + 1 \notin Tokens
           /\ Refreshes \subseteq Refreshes' /\ Calls \subseteq Calls' /\ issued' \in Nat
<1>1. Tokens \subseteq Tokens' /\ issued + 1 \in Tokens' /\ issued + 1 \notin Tokens /\ issued' \in Nat
  BY DEF AuthTyped, Tokens
<1>2. Refreshes \subseteq Refreshes' /\ Calls \subseteq Calls'
  BY <1>1 DEF Refreshes, Calls
<1> QED
  BY <1>1, <1>2

LEMMA IssueTyped ==
    ASSUME AuthTyped, issued' = issued + 1,
           age' = [n \in 1 .. issued + 1 |-> IF n \in DOMAIN age THEN age[n] ELSE 0],
           session' \subseteq session \cup {issued + 1},
           UNCHANGED <<cookie, stored, page, token, inbox>>,
           refresh' \in [Tabs -> Refreshes'], task' \in [Tabs -> [Slots -> Calls']]
    PROVE  AuthTyped'
<1>1. issued \in Nat /\ age \in [1 .. issued -> 0 .. 2]
  BY AuthTypedParts DEF Held
<1>2. age' \in [1 .. issued' -> 0 .. 2]
  BY <1>1
<1>3. 0 # issued + 1
  BY <1>1
<1> QED
  BY <1>1, <1>2, <1>3, MoreTokens DEF AuthTyped, TypeOK, Tokens, Refreshes

\* The server rotates a token: it was one of a session, so nobody has signed out.
LEMMA RotateIsSound ==
    ASSUME SignOutSound, NEW t \in Tabs, ServerRotates(t)
    PROVE  SignOutSound'
<1>1. AuthTyped /\ refresh \in [Tabs -> Refreshes] /\ task \in [Tabs -> [Slots -> Calls]] /\ 0 \in Tokens
  BY SoundTypes
<1>2. /\ refresh[t].at = "sent" /\ refresh[t].c \in session /\ issued' = issued + 1
      /\ refresh' = [refresh EXCEPT ![t] = [at |-> "done", c |-> 0, new |-> issued + 1]]
      /\ UNCHANGED <<cookie, stored, token, page, task, inbox, over>>
  BY DEF ServerRotates
<1>3. [at |-> "done", c |-> 0, new |-> issued + 1] \in Refreshes'
  BY <1>1, <1>2, MoreTokens DEF Refreshes
<1>4. refresh' \in [Tabs -> Refreshes'] /\ task' \in [Tabs -> [Slots -> Calls']]
  BY <1>1, <1>2, <1>3, MoreTokens
<1>5. AuthTyped'
  BY <1>1, <1>4, IssueTyped DEF ServerRotates
<1>6. ~NothingComes
  BY <1>2 DEF NothingComes
<1>7. SignOutHolds'
  BY <1>2, <1>6 DEF SignOutSound, SignOutHolds
<1> QED
  BY <1>5, <1>7 DEF SignOutSound

\* The answer of a refresh arrives: the server had rotated the token.
LEMMA RefreshedIsSound ==
    ASSUME SignOutSound, NEW t \in Tabs, Refreshed(t)
    PROVE  SignOutSound'
<1>1. /\ AuthTyped /\ refresh \in [Tabs -> Refreshes] /\ 0 \in Tokens
      /\ token \in [Tabs -> Tokens] /\ inbox \in [Tabs -> Tokens]
  BY SoundTypes
<1>2. refresh[t].new \in Tokens /\ NoRefresh \in Refreshes
  BY <1>1 DEF Refreshes, NoRefresh
<1>3. /\ refresh[t].at = "done" /\ cookie' = refresh[t].new /\ stored' = refresh[t].new
      /\ token' = [token EXCEPT ![t] = refresh[t].new]
      /\ inbox' = [s \in Tabs |-> IF s = t THEN inbox[s] ELSE refresh[t].new]
      /\ task' = [task EXCEPT ![t] = [k \in DOMAIN @ |-> Resumed(@[k], refresh[t].new, refresh[t].new)]]
      /\ refresh' = [refresh EXCEPT ![t] = NoRefresh]
      /\ UNCHANGED <<session, issued, age, page, over>>
  BY DEF Refreshed, SetAccessToken
<1>4. /\ task' \in [Tabs -> [Slots -> Calls]]
      /\ \A s \in Tabs :
           \/ task'[s].app = task[s].app
           \/ /\ task[s].app.at \in {"wait", "pre", "re"}
              /\ task'[s].app.at \in {"check", "wire", "rewire", "denied"}
  BY <1>1, <1>2, <1>3, ResumedTasks
<1>5. /\ token' \in [Tabs -> Tokens] /\ inbox' \in [Tabs -> Tokens]
      /\ refresh' \in [Tabs -> Refreshes] /\ cookie' \in Tokens /\ stored' \in Tokens
  BY <1>1, <1>2, <1>3
<1>6. AuthTyped'
  BY <1>1, <1>3, <1>4, <1>5 DEF AuthTyped, TypeOK, Tokens, Refreshes, Calls
<1>7. ~NothingComes
  BY <1>3 DEF NothingComes
<1>8. SignOutHolds'
  BY <1>3, <1>4, <1>7 DEF SignOutSound, SignOutHolds, SignOutSteps
<1> QED
  BY <1>6, <1>8 DEF SignOutSound

\* The server opens a session: from then on no sign-out is the latest word.
LEMMA GrantIsSound ==
    ASSUME SignOutSound, NEW t \in Tabs, ServerGrants(t)
    PROVE  SignOutSound'
<1>1. AuthTyped /\ refresh \in [Tabs -> Refreshes] /\ task \in [Tabs -> [Slots -> Calls]]
  BY SoundTypes
<1> DEFINE granted == [task[t].app EXCEPT !.at = "granted", !.h = issued + 1]
           now(s) == IF s = t THEN [task[t] EXCEPT !.app = granted]
                     ELSE IF task[s].app.at = "revoked" THEN [task[s] EXCEPT !.app.at = "overtaken"]
                     ELSE task[s]
<1>2. /\ issued' = issued + 1 /\ over' = FALSE /\ task' = [s \in Tabs |-> now(s)]
      /\ UNCHANGED <<cookie, stored, token, page, refresh, inbox>>
  BY DEF ServerGrants
<1>3. Tokens \subseteq Tokens' /\ issued + 1 \in Tokens' /\ Refreshes \subseteq Refreshes' /\ Calls \subseteq Calls'
  BY <1>1, <1>2, MoreTokens
<1>4. \A s \in Tabs :
          /\ now(s) \in [Slots -> Calls']
          /\ \/ now(s).app.at = "granted" \/ (now(s).app.at = task[s].app.at /\ now(s).app.at # "revoked")
             \/ now(s).app.at = "overtaken" /\ task[s].app.at = "revoked"
          /\ now(s).app.for = task[s].app.for
  <2> SUFFICES ASSUME NEW s \in Tabs
               PROVE  /\ now(s) \in [Slots -> Calls']
                      /\ \/ now(s).app.at = "granted" \/ (now(s).app.at = task[s].app.at /\ now(s).app.at # "revoked")
                         \/ now(s).app.at = "overtaken" /\ task[s].app.at = "revoked"
                      /\ now(s).app.for = task[s].app.for
    OBVIOUS
  <2>1. task[s] \in [Slots -> Calls] /\ task[s].app \in Calls /\ task[t].app \in Calls
    BY <1>1 DEF Slots
  <2>2. CASE s = t
    <3>1. granted \in Calls' /\ granted.at = "granted" /\ granted.for = task[t].app.for
      BY <1>3, <2>1 DEF Calls, CallSteps
    <3> HIDE DEF granted
    <3> QED
      BY <1>3, <2>1, <2>2, <3>1 DEF Slots
  <2>3. CASE s # t /\ task[s].app.at = "revoked"
    <3> DEFINE late == [task[s].app EXCEPT !.at = "overtaken"]
    <3>1. late \in Calls' /\ late.at = "overtaken" /\ late.for = task[s].app.for
      BY <1>3, <2>1 DEF Calls, CallSteps
    <3>2. now(s) = [task[s] EXCEPT !.app = late]
      BY <2>1, <2>3
    <3> HIDE DEF late
    <3> QED
      BY <1>3, <2>1, <2>3, <3>1, <3>2 DEF Slots
  <2>4. CASE s # t /\ task[s].app.at # "revoked"
    BY <1>3, <2>1, <2>4
  <2> QED
    BY <2>2, <2>3, <2>4
<1> HIDE DEF now
<1>5. refresh' \in [Tabs -> Refreshes'] /\ task' \in [Tabs -> [Slots -> Calls']]
  BY <1>1, <1>2, <1>3, <1>4
<1>6. AuthTyped'
  BY <1>1, <1>2, <1>5, IssueTyped DEF ServerGrants
<1>7. SignOutHolds'
  BY <1>2, <1>4 DEF SignOutSound, SignOutHolds, SignOutSteps
<1> QED
  BY <1>6, <1>7 DEF SignOutSound

\* The answer of a sign-in arrives: no sign-out is the latest word.
LEMMA SignedInIsSound ==
    ASSUME SignOutSound, NEW t \in Tabs, SignedIn(t)
    PROVE  SignOutSound'
<1>1. /\ AuthTyped /\ task \in [Tabs -> [Slots -> Calls]] /\ task[t].app \in Calls
      /\ token \in [Tabs -> Tokens] /\ inbox \in [Tabs -> Tokens]
  BY SoundTypes DEF Slots
<1> DEFINE h == task[t].app.h
<1>2. h \in Tokens
  BY <1>1 DEF Calls
<1>3. /\ task[t].app.at = "granted" /\ cookie' = h /\ stored' = h
      /\ token' = [token EXCEPT ![t] = h]
      /\ inbox' = [s \in Tabs |-> IF s = t THEN inbox[s] ELSE h]
      /\ Set(t, "app", Booting.app)
      /\ UNCHANGED <<session, issued, age, page, refresh, over>>
  BY DEF SignedIn, SetAccessToken
<1>4. Booting.app \in Calls /\ Booting.app.at = "start"
  BY <1>1, CallsWritten DEF Idle, Slots
<1>5. /\ task' \in [Tabs -> [Slots -> Calls]]
      /\ \A s \in Tabs : task'[s].app = IF s = t THEN Booting.app ELSE task[s].app
  BY <1>1, <1>3, <1>4, SetCall DEF Slots
<1>6. token' \in [Tabs -> Tokens] /\ inbox' \in [Tabs -> Tokens]
  BY <1>1, <1>2, <1>3
<1>7. AuthTyped'
  BY <1>1, <1>2, <1>3, <1>5, <1>6 DEF AuthTyped, TypeOK, Tokens, Refreshes, Calls
<1>8. ~NothingComes
  BY <1>3 DEF NothingComes
<1>9. SignOutHolds'
  BY <1>3, <1>4, <1>5, <1>8 DEF SignOutSound, SignOutHolds, SignOutSteps
<1> QED
  BY <1>7, <1>9 DEF SignOutSound

\* The server revokes the token of a sign-out, or refuses the call.
LEMMA RevokeIsSound ==
    ASSUME SignOutSound, NEW t \in Tabs, ServerRevokes(t)
    PROVE  SignOutSound'
<1> DEFINE r == task[t].app
<1>1. AuthTyped /\ r \in Calls /\ "app" \in Slots
  BY SoundTypes DEF Slots
<1>2. \A how \in CallSteps : Over(r, how) \in Calls /\ Over(r, how).at = how /\ Over(r, how).for = r.for
  BY <1>1, CallsWritten DEF Over, Idle
<1>3. /\ r.for = "signout" /\ r.at \in {"wire", "rewire"}
      /\ UNCHANGED <<cookie, stored, issued, age, token, page, inbox, over>>
  BY DEF ServerRevokes
<1>4. CASE \E how \in {"re", "denied"} : Set(t, "app", Over(r, how)) /\ session' = session
                                       /\ (Join(t) \/ refresh' = refresh)
  <2>1. PICK how \in {"re", "denied"} : Set(t, "app", Over(r, how)) /\ session' = session
                                       /\ (Join(t) \/ refresh' = refresh)
    BY <1>4
  <2>2. Over(r, how) \in Calls /\ Over(r, how).at \notin SignOutSteps \cup {"granted"}
    BY <1>2 DEF CallSteps, SignOutSteps
  <2> QED
    BY <1>1, <1>3, <2>1, <2>2, SoundTypes, CallStepIsSound
<1>5. CASE /\ session' = session \ {r.c} /\ refresh' = refresh
           /\ Set(t, "app", Over(r, IF Overtaken(r) THEN "overtaken" ELSE "revoked"))
  <2> DEFINE how == IF Overtaken(r) THEN "overtaken" ELSE "revoked"
  <2>1. Over(r, how) \in Calls /\ Over(r, how).at = how /\ Over(r, how).for = "signout"
    BY <1>2, <1>3 DEF CallSteps
  <2>2. /\ task' \in [Tabs -> [Slots -> Calls]]
        /\ \A s \in Tabs : task'[s].app = IF s = t THEN Over(r, how) ELSE task[s].app
    BY <1>1, <1>5, <2>1, SetCall
  <2>3. AuthTyped'
    BY <1>1, <1>3, <1>5, <2>2 DEF AuthTyped, TypeOK, Tokens, Refreshes, Calls
  <2>4. NothingComes => NothingComes'
    BY <1>3, <1>5, <2>1, <2>2 DEF NothingComes
  <2>5. ~Overtaken(r) => NothingComes'
    BY <1>3, <1>5, <2>1, <2>2 DEF NothingComes, Overtaken
  <2>6. SignOutHolds'
    BY <1>3, <2>1, <2>2, <2>4, <2>5 DEF SignOutSound, SignOutHolds, SignOutSteps
  <2> QED
    BY <2>3, <2>6 DEF SignOutSound
<1> QED
  BY <1>4, <1>5 DEF ServerRevokes

\* The answer of a sign-out clears the cookie.
LEMMA ClearIsSound ==
    ASSUME SignOutSound, NEW t \in Tabs, CookieCleared(t)
    PROVE  SignOutSound'
<1> DEFINE r == [task[t].app EXCEPT !.at = "cleared"]
<1>1. /\ AuthTyped /\ 0 \in Tokens /\ 0 \notin session
      /\ task[t].app \in Calls /\ "app" \in Slots
  BY SoundTypes DEF SignOutSound, AuthTyped, Slots
<1>2. /\ task[t].app.at \in {"revoked", "overtaken"} /\ cookie' = 0
      /\ over' = (task[t].app.at = "revoked") /\ Set(t, "app", r)
      /\ UNCHANGED <<stored, session, issued, age, token, page, refresh, inbox>>
  BY DEF CookieCleared
<1>3. task[t].app.for = "signout"
  BY <1>2 DEF SignOutSound, SignOutHolds, SignOutSteps
<1>4. r \in Calls /\ r.at = "cleared" /\ r.for = "signout"
  BY <1>1, <1>3 DEF Calls, CallSteps
<1> HIDE DEF r
<1>5. /\ task' \in [Tabs -> [Slots -> Calls]]
      /\ \A s \in Tabs : task'[s].app = IF s = t THEN r ELSE task[s].app
  BY <1>1, <1>2, <1>4, SetCall
<1>6. AuthTyped'
  BY <1>1, <1>2, <1>5 DEF AuthTyped, TypeOK, Tokens, Refreshes, Calls
<1>7. NothingComes => NothingComes'
  BY <1>1, <1>2, <1>4, <1>5 DEF NothingComes
<1>8. over' => NothingComes
  BY <1>2 DEF SignOutSound, SignOutHolds
<1>9. SignOutHolds'
  BY <1>2, <1>4, <1>5, <1>7, <1>8 DEF SignOutSound, SignOutHolds, SignOutSteps
<1> QED
  BY <1>6, <1>9 DEF SignOutSound

LEMMA WebStepIsSound ==
    ASSUME SignOutSound, [Next]_web
    PROVE  SignOutSound'
<1>1. ASSUME NEW t \in Tabs, Steps(t) PROVE SignOutSound'
  BY <1>1, OthersAreSound, RotateIsSound, RefreshEndsSound, RefreshedIsSound, InterceptorIsSound,
     LoadsAreSound, CallersAreSound, GrantIsSound, SignedInIsSound, RevokeIsSound, ClearIsSound
  DEF Steps, Slots
<1>2. ASSUME NEW t \in Tabs,
             \/ Focus(t) \/ RefreshLost(t) \/ SignOutClick(t)
             \/ \E k \in Slots : Errs(t, k)
             \/ \E p \in {"public", "private"} : Reopen(t, p)
             \/ \E what \in {"signin", "signup"} : Submit(t, what)
             \/ \E what \in {"public", "protected"} : StartQuery(t, what)
      PROVE  SignOutSound'
  BY <1>2, OthersAreSound, RefreshEndsSound, InterceptorIsSound, LoadsAreSound, CallersAreSound
<1>3. CASE (\E n \in DOMAIN age : Ages(n)) \/ UNCHANGED web
  BY <1>3, OthersAreSound
<1> QED
  BY <1>1, <1>2, <1>3 DEF Next, Slots

LEMMA WebStartsSound == Init => SignOutSound
<1> SUFFICES ASSUME Init PROVE SignOutSound
  OBVIOUS
<1>1. cookie \in 0 .. 1 /\ stored = cookie /\ issued = 1 /\ session \subseteq {1} /\ Tokens = 0 .. 1
  BY DEF Init, Tokens
<1>2. Idle \in Calls /\ Idle.at = "none"
  BY <1>1 DEF Idle, Calls, Purposes, CallSteps
<1>3. task \in [Tabs -> [Slots -> Calls]] /\ \A t \in Tabs : task[t].app.at = "none"
  BY <1>2 DEF Init, Slots
<1>4. NoRefresh \in Refreshes
  BY <1>1 DEF NoRefresh, Refreshes
<1>5. /\ token \in [Tabs -> Tokens] /\ inbox \in [Tabs -> Tokens]
      /\ refresh \in [Tabs -> Refreshes]
      /\ page \in [Tabs -> {"auth", "public", "private"}]
      /\ age \in [1 .. issued -> 0 .. 2]
  BY <1>1, <1>4, WebAuthConstants DEF Init
<1>6. AuthTyped
  BY <1>1, <1>3, <1>5 DEF AuthTyped, TypeOK, Tokens, Refreshes
<1>7. SignOutHolds
  BY <1>3 DEF Init, SignOutHolds, SignOutSteps
<1> QED
  BY <1>6, <1>7 DEF SignOutSound

\* Tokens, pages and refreshes are what their types say, whatever the tabs do:
\* no tab holds a token that the server has not issued.
THEOREM WebAuthTypes == Spec => []TypeOK
<1>1. SignOutSound => TypeOK
  BY DEF SignOutSound, AuthTyped
<1> QED
  BY <1>1, WebStartsSound, WebStepIsSound, PTL DEF Spec

\* AuthContext.logout, connect.ts and auth-state.ts: after a sign-out that no refresh
\* and no sign-in overlapped the cookie and localStorage stay empty, however many
\* tabs still held a token, and whatever they go on to ask for.
THEOREM SignedOutStays == Spec => []SignOutSticks
<1>1. SignOutSound => SignOutSticks
  BY DEF SignOutSound, SignOutHolds, SignOutSticks, SignOutSteps
<1> QED
  BY <1>1, WebStartsSound, WebStepIsSound, PTL DEF Spec

-----------------------------------------------------------------------------
(* Staying signed in *)

\* The calls that the application and a query of a signed-in tab can be in.
AppCall(r) ==
    \/ r = Idle
    \/ r.for = "init" /\ r.at \in {"start", "wait", "check"}
    \/ r.for = "me" /\ r.at \in {"token", "pre", "wire", "re", "rewire", "ok"}

QueryCall(r) ==
    /\ r.for \in {"none", "public", "protected"}
    /\ r.at \in {"none", "token", "pre", "wire", "re", "rewire", "ok", "guest"}

\* At most one tab refreshes, with the token that counts, and it gets a new one.
OneRefresh ==
    /\ \A t \in Tabs :
        /\ refresh[t].at # "fail"
        /\ refresh[t].at = "sent" => refresh[t].c = cookie
        /\ refresh[t].at = "done" => refresh[t].new \in session /\ Accepted(refresh[t].new)
    /\ \A s, t \in Tabs : refresh[s].at # "idle" /\ refresh[t].at # "idle" => s = t
    /\ (\A t \in Tabs : refresh[t].at # "done") => cookie \in session

\* A tab knows its user or is about to; a call is sent again only with a new token.
Steady(t) ==
    /\ page[t] # "auth" /\ (ready[t] => user[t])
    /\ AppCall(task[t].app) /\ QueryCall(task[t].query)
    /\ task[t].app.at = "check" => token[t] # 0
    /\ task[t].app.at = "rewire" => Accepted(task[t].app.h)
    /\ task[t].query.at = "rewire" => Accepted(task[t].query.h)

StaysSignedIn == ~excuse => stored # 0 /\ OneRefresh /\ \A t \in Tabs : Steady(t)

Flags == user \in [Tabs -> BOOLEAN] /\ ready \in [Tabs -> BOOLEAN]

LEMMA FlagsKept ==
    ASSUME Flags, [Next]_web
    PROVE  Flags'
<1>1. ASSUME NEW t \in Tabs, Settle(t, TRUE) \/ Settle(t, FALSE) PROVE Flags'
  BY <1>1 DEF Flags, Settle
<1>2. ASSUME NEW t \in Tabs, NEW p, Load(t, p) PROVE Flags'
  BY <1>2 DEF Flags, Load
<1>3. CASE UNCHANGED <<user, ready>>
  BY <1>3 DEF Flags
<1>4. ASSUME NEW t \in Tabs, Steps(t) PROVE Flags'
  <2>1. CASE \/ Adopt(t) \/ ServerRotates(t) \/ ServerRefuses(t) \/ Refreshed(t) \/ RefreshFails(t)
             \/ (\E k \in Slots : Prepare(t, k) \/ Answer(t, k))
             \/ Guard(t) \/ QueryEnds(t) \/ InitStart(t) \/ SignedUp(t) \/ SubmitFails(t)
             \/ ServerGrants(t) \/ SignedIn(t) \/ ServerRevokes(t) \/ CookieCleared(t)
    BY <1>3, <2>1 DEF Adopt, ServerRotates, ServerRefuses, Refreshed, RefreshFails, Prepare, Answer, Guard,
       QueryEnds, InitStart, SignedUp, SubmitFails, ServerGrants, SignedIn, ServerRevokes, CookieCleared
  <2>2. CASE (\E k \in Slots : Redirect(t, k)) \/ Logout(t)
    BY <1>2, <2>2 DEF Redirect, Logout
  <2>3. CASE InitCheck(t) \/ InitGoesOn(t) \/ InitFails(t)
    BY <1>1, <1>3, <2>3 DEF InitCheck, InitGoesOn, InitFails
  <2> QED
    BY <1>4, <2>1, <2>2, <2>3 DEF Steps, Slots
<1>5. ASSUME NEW t \in Tabs,
             \/ Focus(t) \/ RefreshLost(t) \/ SignOutClick(t)
             \/ \E k \in Slots : Errs(t, k)
             \/ \E p \in {"public", "private"} : Reopen(t, p)
             \/ \E what \in {"signin", "signup"} : Submit(t, what)
             \/ \E what \in {"public", "protected"} : StartQuery(t, what)
      PROVE  Flags'
  BY <1>2, <1>3, <1>5 DEF Focus, RefreshLost, SignOutClick, Errs, Reopen, Submit, StartQuery
<1>6. CASE (\E n \in DOMAIN age : Ages(n)) \/ UNCHANGED web
  BY <1>3, <1>6 DEF Ages, web
<1> QED
  BY <1>4, <1>5, <1>6 DEF Next, Slots

\* Nothing takes an excuse back.
LEMMA ExcuseStays == [Next]_web /\ excuse => excuse'
<1> SUFFICES ASSUME [Next]_web, excuse PROVE excuse'
  OBVIOUS
<1>1. ASSUME NEW t \in Tabs, Steps(t) PROVE excuse'
  BY <1>1 DEF Steps, Adopt, ServerRotates, ServerRefuses, Refreshed, RefreshFails, Prepare, Answer, Redirect,
     Load, Guard, QueryEnds, InitStart, InitCheck, InitGoesOn, InitFails, SignedUp, SubmitFails, ServerGrants,
     SignedIn, ServerRevokes, CookieCleared, Logout, Join
<1>2. ASSUME NEW t \in Tabs,
             \/ Focus(t) \/ RefreshLost(t) \/ SignOutClick(t)
             \/ \E k \in Slots : Errs(t, k)
             \/ \E p \in {"public", "private"} : Reopen(t, p)
             \/ \E what \in {"signin", "signup"} : Submit(t, what)
             \/ \E what \in {"public", "protected"} : StartQuery(t, what)
      PROVE  excuse'
  BY <1>2 DEF Focus, RefreshLost, SignOutClick, Errs, Reopen, Load, Submit, StartQuery, Join
<1>3. CASE (\E n \in DOMAIN age : Ages(n)) \/ UNCHANGED web
  BY <1>3 DEF Ages, web
<1> QED
  BY <1>1, <1>2, <1>3 DEF Next, Slots

\* A refresh that starts while none is under way.
LEMMA OneRefreshStarts ==
    ASSUME AuthTyped, OneRefresh, NEW t \in Tabs,
           (Join(t) /\ ~excuse') \/ refresh' = refresh,
           UNCHANGED <<cookie, session, age>>
    PROVE  OneRefresh'
<1>1. refresh \in [Tabs -> Refreshes]
  BY AuthTypedParts
<1>2. CASE refresh' = refresh
  BY <1>2 DEF OneRefresh, Accepted
<1>3. CASE refresh' # refresh
  <2>1. /\ refresh' = [refresh EXCEPT ![t] = [at |-> "sent", c |-> cookie, new |-> 0]]
        /\ \A s \in Tabs : refresh[s].at = "idle"
    BY <1>3 DEF Join
  <2>2. /\ refresh'[t].at = "sent" /\ refresh'[t].c = cookie
        /\ \A s \in Tabs \ {t} : refresh'[s].at = "idle"
    BY <1>1, <2>1
  <2>3. cookie \in session
    BY <2>1 DEF OneRefresh
  <2> QED
    BY <2>2, <2>3 DEF OneRefresh
<1> QED
  BY <1>2, <1>3

\* A step that writes one call, and may start a refresh.
LEMMA CallStaysSteady ==
    ASSUME AuthTyped, OneRefresh, \A s \in Tabs : Steady(s), stored # 0,
           NEW t \in Tabs, NEW k \in Slots, NEW r \in Calls, Set(t, k, r),
           k = "app" => AppCall(r), k = "query" => QueryCall(r),
           r.at \notin {"check", "rewire"},
           (Join(t) /\ ~excuse') \/ refresh' = refresh,
           UNCHANGED <<cookie, stored, session, age, page>>,
           \A s \in Tabs : token[s] # 0 => token'[s] # 0,
           \A s \in Tabs : ready'[s] => user'[s]
    PROVE  StaysSignedIn'
<1>1. OneRefresh'
  BY OneRefreshStarts
<1>2. \A s \in Tabs : /\ task'[s].app = IF s = t /\ k = "app" THEN r ELSE task[s].app
                      /\ task'[s].query = IF s = t /\ k = "query" THEN r ELSE task[s].query
  BY SetCall
<1>3. ASSUME NEW s \in Tabs PROVE Steady(s)'
  <2>1. Steady(s)
    OBVIOUS
  <2>2. task'[s].app = task[s].app
          \/ (task'[s].app = r /\ AppCall(r) /\ r.at \notin {"check", "rewire"})
    BY <1>2
  <2>3. task'[s].query = task[s].query
          \/ (task'[s].query = r /\ QueryCall(r) /\ r.at \notin {"check", "rewire"})
    BY <1>2
  <2>4. AppCall(task'[s].app) /\ QueryCall(task'[s].query)
    BY <2>1, <2>2, <2>3 DEF Steady
  <2>5. page'[s] # "auth" /\ (ready'[s] => user'[s])
    BY <2>1 DEF Steady
  <2>6. AppCall(task[s].app)' /\ QueryCall(task[s].query)'
    BY <2>4 DEF AppCall, QueryCall, Idle
  <2>7. /\ task'[s].app.at = "check" => token'[s] # 0
        /\ task'[s].app.at = "rewire" => Accepted(task[s].app.h)'
        /\ task'[s].query.at = "rewire" => Accepted(task[s].query.h)'
    BY <2>1, <2>2, <2>3 DEF Steady, Accepted
  <2> QED
    BY <2>5, <2>6, <2>7 DEF Steady
<1> QED
  BY <1>1, <1>3 DEF StaysSignedIn

\* What StaysSignedIn says of a step that is not excused.
SignedInThere == AuthTyped /\ Flags /\ ~excuse /\ StaysSignedIn

LEMMA SignedInFacts ==
    ASSUME SignedInThere
    PROVE  /\ AuthTyped /\ stored # 0 /\ OneRefresh /\ \A t \in Tabs : Steady(t)
           /\ \A t \in Tabs :
                /\ page[t] # "auth" /\ (ready[t] => user[t])
                /\ task[t].app.for \in {"none", "init", "me"}
                /\ task[t].app.at \in {"none", "start", "wait", "check", "token", "pre", "wire", "re", "rewire", "ok"}
                /\ task[t].query.at \in {"none", "token", "pre", "wire", "re", "rewire", "ok", "guest"}
                /\ task[t].app.at = "check" => token[t] # 0
                /\ refresh[t].at = "sent" => refresh[t].c \in session
                /\ refresh[t].at # "fail"
<1>1. stored # 0 /\ OneRefresh /\ \A t \in Tabs : Steady(t)
  BY DEF SignedInThere, StaysSignedIn
<1>2. \A t \in Tabs : refresh[t].at = "sent" => refresh[t].c \in session
  BY <1>1 DEF OneRefresh
<1>3. Idle.for = "none" /\ Idle.at = "none"
  BY DEF Idle
<1>4. \A t \in Tabs : AppCall(task[t].app)
  BY <1>1 DEF Steady
<1>5. \A t \in Tabs :
          /\ task[t].app.for \in {"none", "init", "me"}
          /\ task[t].app.at \in {"none", "start", "wait", "check", "token", "pre", "wire", "re", "rewire", "ok"}
  BY <1>3, <1>4 DEF AppCall
<1> QED
  BY <1>1, <1>2, <1>5 DEF SignedInThere, Steady, QueryCall, OneRefresh

\* What ends a session, opens one or gives a token up needs an excuse.
LEMMA NoneEndsIt ==
    ASSUME SignedInThere, ~excuse', NEW t \in Tabs
    PROVE  /\ ~ServerRefuses(t) /\ ~RefreshFails(t) /\ ~RefreshLost(t)
           /\ \A k \in Slots : ~Errs(t, k) /\ ~Redirect(t, k)
           /\ ~Guard(t) /\ ~InitFails(t) /\ ~SignedUp(t) /\ ~SubmitFails(t)
           /\ \A what \in {"signin", "signup"} : ~Submit(t, what)
           /\ ~ServerGrants(t) /\ ~SignedIn(t) /\ ~SignOutClick(t)
           /\ ~ServerRevokes(t) /\ ~CookieCleared(t) /\ ~Logout(t)
<1>1. /\ ~ServerRefuses(t) /\ ~RefreshFails(t) /\ ~RefreshLost(t)
  BY SignedInFacts DEF ServerRefuses, RefreshFails, RefreshLost
<1>2. \A k \in Slots : ~Errs(t, k) /\ ~Redirect(t, k)
  BY SignedInFacts DEF Errs, Redirect, Slots
<1>3. ~Guard(t)
  BY SignedInFacts DEF Guard, Guarded
<1>4. ~InitFails(t) /\ ~SignedUp(t) /\ ~SubmitFails(t)
  BY SignedInFacts DEF InitFails, SignedUp, SubmitFails
<1>5. \A what \in {"signin", "signup"} : ~Submit(t, what)
  BY SignedInFacts DEF Submit
<1>6. ~ServerGrants(t) /\ ~SignedIn(t) /\ ~SignOutClick(t)
  BY SignedInFacts DEF ServerGrants, SignedIn, SignOutClick
<1>7. ~ServerRevokes(t) /\ ~CookieCleared(t) /\ ~Logout(t)
  BY SignedInFacts DEF ServerRevokes, CookieCleared, Logout
<1> QED
  BY <1>1, <1>2, <1>3, <1>4, <1>5, <1>6, <1>7

\* The interceptor: a call sent again has a token the server accepts.
LEMMA InterceptorStays ==
    ASSUME SignedInThere, ~excuse', NEW t \in Tabs, NEW k \in Slots, Prepare(t, k) \/ Answer(t, k)
    PROVE  StaysSignedIn'
<1> DEFINE r == task[t][k]
<1>1. /\ AuthTyped /\ r \in Calls /\ GetAccessToken(t) \in Tokens /\ cookie \in Tokens
      /\ (k = "app" => r = task[t].app) /\ (k = "query" => r = task[t].query)
      /\ token \in [Tabs -> Tokens] /\ k \in {"app", "query"}
  BY SignedInFacts, AuthTypedParts, GetAccessTokenTyped DEF Held, Slots
<1>2. (k = "app" => AppCall(r)) /\ (k = "query" => QueryCall(r))
  BY <1>1, SignedInFacts DEF Steady
<1>3. \A how \in CallSteps : Over(r, how) \in Calls /\ Over(r, how).at = how /\ Over(r, how).for = r.for
  BY <1>1, CallsWritten DEF Over, Idle
<1>4. r.at # "none" /\ r # Idle
  BY DEF Prepare, Answer, Idle
<1>5. k = "app" => r.for \in {"init", "me"}
  BY <1>2, <1>4 DEF AppCall
<1>6. UNCHANGED <<cookie, stored, session, age, page, ready, user>>
  BY DEF Prepare, Answer, auth
<1>7. \A s \in Tabs : ready'[s] => user'[s]
  BY <1>6, SignedInFacts
<1>8. CASE Prepare(t, k)
  <2> DEFINE n == GetAccessToken(t)
             wired == [r EXCEPT !.at = "wire", !.h = n, !.c = cookie]
             waits == [r EXCEPT !.at = "pre", !.h = n]
  <2>1. /\ r.at = "token" /\ token' = [token EXCEPT ![t] = n]
        /\ \/ Set(t, k, wired) /\ refresh' = refresh
           \/ Set(t, k, waits) /\ Join(t)
    BY <1>8 DEF Prepare
  <2>2. "wire" \in CallSteps /\ "pre" \in CallSteps
    BY DEF CallSteps
  <2>3. wired \in Calls /\ waits \in Calls
    BY <1>1, <2>2, CallsWritten
  <2>4. wired.at = "wire" /\ waits.at = "pre" /\ wired.for = r.for /\ waits.for = r.for
    BY <1>1 DEF Calls
  <2>5. \A s \in Tabs : token[s] # 0 => token'[s] # 0
    BY <1>1, <2>1 DEF GetAccessToken
  <2>6. k = "app" => r.for = "me"
    BY <1>2, <2>1 DEF AppCall, Idle
  <2> HIDE DEF wired, waits, n, r
  <2>7. /\ k = "app" => AppCall(wired) /\ AppCall(waits)
        /\ k = "query" => QueryCall(wired) /\ QueryCall(waits)
    BY <1>2, <2>4, <2>6 DEF AppCall, QueryCall
  <2>8. PICK call \in {wired, waits} : Set(t, k, call) /\ ((Join(t) /\ ~excuse') \/ refresh' = refresh)
    BY <2>1
  <2>9. /\ call \in Calls /\ call.at \notin {"check", "rewire"}
        /\ (k = "app" => AppCall(call)) /\ (k = "query" => QueryCall(call))
    BY <2>3, <2>4, <2>7
  <2> QED
    BY <1>6, <1>7, <2>5, <2>8, <2>9, SignedInFacts, CallStaysSteady
<1>9. CASE Answer(t, k)
  <2>1. r.at \in {"wire", "rewire"} /\ UNCHANGED token
    BY <1>9 DEF Answer
  <2>2. r.at = "rewire" => Accepted(r.h)
    BY <1>1, SignedInFacts DEF Steady
  <2>3. k = "app" => r.for = "me"
    BY <1>2, <2>1 DEF AppCall, Idle
  <2>4. PICK how \in {"ok", "guest", "re"} :
            /\ Set(t, k, Over(r, how)) /\ (Join(t) \/ refresh' = refresh)
            /\ how = "guest" => r.for \notin Protected
    BY <1>9, <2>2 DEF Answer
  <2>5. how = "guest" => k = "query"
    BY <1>1, <2>3, <2>4 DEF Protected
  <2>6. Over(r, how) \in Calls /\ Over(r, how).at = how /\ Over(r, how).for = r.for
    BY <1>3 DEF CallSteps
  <2> HIDE DEF r
  <2>7. (k = "app" => AppCall(Over(r, how))) /\ (k = "query" => QueryCall(Over(r, how)))
    BY <1>2, <2>3, <2>5, <2>6 DEF AppCall, QueryCall
  <2> QED
    BY <1>6, <1>7, <2>1, <2>4, <2>6, <2>7, SignedInFacts, CallStaysSteady
<1> QED
  BY <1>8, <1>9

\* AuthContext and the queries: a token that initialize has waited for is there.
LEMMA CallersStay ==
    ASSUME SignedInThere, ~excuse', NEW t \in Tabs,
           \/ QueryEnds(t) \/ InitStart(t) \/ InitCheck(t) \/ InitGoesOn(t)
           \/ \E what \in {"public", "protected"} : StartQuery(t, what)
    PROVE  StaysSignedIn'
<1> DEFINE waits == [task[t].app EXCEPT !.at = "wait"]
<1>1. /\ AuthTyped /\ task[t].app \in Calls
      /\ token \in [Tabs -> Tokens] /\ GetAccessToken(t) \in Tokens
  BY SignedInFacts, AuthTypedParts, GetAccessTokenTyped DEF Slots
<1>2. Idle \in Calls /\ Idle.at = "none" /\ Idle.for = "none"
  BY <1>1, CallsWritten DEF Idle
<1>3. \A what \in {"me", "public", "protected"} :
          Call(what) \in Calls /\ Call(what).at = "token" /\ Call(what).for = what
  <2>1. \A what \in {"me", "public", "protected"} : what \in Purposes
    BY DEF Purposes
  <2>2. \A what : Call(what).at = "token" /\ Call(what).for = what
    BY DEF Call, Idle
  <2> QED
    BY <1>1, <2>1, <2>2, CallsWritten
<1>4. waits \in Calls /\ waits.at = "wait" /\ waits.for = task[t].app.for
  <2>1. "wait" \in CallSteps
    BY DEF CallSteps
  <2>2. waits.at = "wait" /\ waits.for = task[t].app.for
    BY <1>1 DEF Calls
  <2> QED
    BY <1>1, <2>1, <2>2, CallsWritten
<1>5. /\ UNCHANGED <<cookie, stored, session, age, page>>
      /\ \A s \in Tabs : token[s] # 0 => token'[s] # 0
  BY <1>1 DEF QueryEnds, InitStart, InitCheck, InitGoesOn, StartQuery, GetAccessToken, auth
<1>6. CASE QueryEnds(t)
  BY <1>2, <1>5, <1>6, SignedInFacts, CallStaysSteady DEF QueryEnds, QueryCall, Slots
<1>7. CASE \E what \in {"public", "protected"} : StartQuery(t, what)
  BY <1>3, <1>5, <1>7, SignedInFacts, CallStaysSteady DEF StartQuery, QueryCall, Slots
<1>8. CASE InitStart(t)
  <2>1. /\ task[t].app.at = "start" /\ UNCHANGED <<ready, user>>
        /\ \/ Set(t, "app", Call("me")) /\ refresh' = refresh
           \/ Set(t, "app", waits) /\ Join(t)
    BY <1>8 DEF InitStart
  <2>2. task[t].app.for = "init"
    BY <2>1, SignedInFacts DEF Steady, AppCall, Idle
  <2> HIDE DEF waits
  <2>3. AppCall(Call("me")) /\ AppCall(waits)
    BY <1>3, <1>4, <2>2 DEF AppCall
  <2>4. PICK r \in {Call("me"), waits} : Set(t, "app", r) /\ ((Join(t) /\ ~excuse') \/ refresh' = refresh)
    BY <2>1
  <2>5. r \in Calls /\ AppCall(r) /\ r.at \notin {"check", "rewire"}
    BY <1>3, <1>4, <2>3
  <2>6. (\A s \in Tabs : ready'[s] => user'[s]) /\ "app" \in Slots /\ "app" # "query"
    BY <2>1, SignedInFacts DEF Slots
  <2> QED
    BY <1>5, <2>4, <2>5, <2>6, SignedInFacts, CallStaysSteady
<1>9. CASE InitCheck(t)
  <2>1. GetAccessToken(t) # 0
    BY <1>9, SignedInFacts DEF InitCheck, GetAccessToken
  <2>2. Set(t, "app", Call("me")) /\ UNCHANGED <<refresh, ready, user>>
    BY <1>9, <2>1 DEF InitCheck
  <2>3. AppCall(Call("me"))
    BY <1>3 DEF AppCall
  <2> QED
    BY <1>3, <1>5, <2>2, <2>3, SignedInFacts, CallStaysSteady DEF Slots
<1>10. CASE InitGoesOn(t)
  <2>1. Set(t, "app", Idle) /\ UNCHANGED refresh
    BY <1>10 DEF InitGoesOn, Settle
  <2>2. user' = [user EXCEPT ![t] = TRUE] /\ ready' = [ready EXCEPT ![t] = TRUE]
    BY <1>10 DEF InitGoesOn, Settle
  <2>3. \A s \in Tabs : ready'[s] => user'[s]
    <3>1. Flags
      BY DEF SignedInThere
    <3> QED
      BY <2>2, <3>1, SignedInFacts DEF Flags
  <2> QED
    BY <1>2, <1>5, <2>1, <2>3, SignedInFacts, CallStaysSteady DEF AppCall, Slots
<1> QED
  BY <1>6, <1>7, <1>8, <1>9, <1>10

\* A step that leaves the tabs' calls, their refreshes and what they hold alone.
LEMMA TabsStay ==
    ASSUME SignedInThere,
           UNCHANGED <<stored, page, user, ready, task>>,
           \A t \in Tabs : token[t] # 0 => token'[t] # 0,
           OneRefresh',
           \A t \in Tabs, k \in Slots : task[t][k].at = "rewire" => Accepted(task[t][k].h)'
    PROVE  StaysSignedIn'
<1>1. ASSUME NEW t \in Tabs PROVE Steady(t)'
  <2>1. AppCall(task[t].app)' /\ QueryCall(task[t].query)'
    BY SignedInFacts DEF Steady, AppCall, QueryCall, Idle
  <2>2. /\ task[t].app.at = "rewire" => Accepted(task[t].app.h)'
        /\ task[t].query.at = "rewire" => Accepted(task[t].query.h)'
    BY DEF Slots
  <2> QED
    BY <2>1, <2>2, SignedInFacts DEF Steady
<1> QED
  BY <1>1, SignedInFacts DEF StaysSignedIn

\* Broadcasts and focus.
LEMMA AdoptAndFocusStay ==
    ASSUME SignedInThere, ~excuse', NEW t \in Tabs, Adopt(t) \/ Focus(t)
    PROVE  StaysSignedIn'
<1>1. UNCHANGED <<cookie, stored, session, age, page, user, ready, task>>
  BY DEF Adopt, Focus, auth
<1>2. \A s \in Tabs : token[s] # 0 => token'[s] # 0
  <2>1. token \in [Tabs -> Tokens]
    BY SignedInFacts, AuthTypedParts
  <2> QED
    BY <2>1 DEF Adopt, Focus
<1>3. (Join(t) /\ ~excuse') \/ refresh' = refresh
  BY DEF Adopt, Focus
<1>4. OneRefresh'
  BY <1>1, <1>3, SignedInFacts, OneRefreshStarts
<1>5. \A s \in Tabs, k \in Slots : task[s][k].at = "rewire" => Accepted(task[s][k].h)'
  BY <1>1, SignedInFacts DEF Steady, Accepted, Slots
<1> QED
  BY <1>1, <1>2, <1>4, <1>5, TabsStay

\* Time: a token on its way in a call grows no older.
LEMMA AgesStay ==
    ASSUME SignedInThere, NEW n \in DOMAIN age, Ages(n)
    PROVE  StaysSignedIn'
<1>1. /\ UNCHANGED <<cookie, stored, session, token, page, user, ready, task, refresh>>
      /\ age' = [age EXCEPT ![n] = @ + 1]
      /\ \A t \in Tabs : /\ refresh[t].new # n
                        /\ \A k \in Slots : task[t][k].h = n => task[t][k].at \notin {"wire", "rewire"}
  BY DEF Ages, Slots
<1>2. \A m : m # n => (Accepted(m) => Accepted(m)')
  <2>1. age \in [1 .. issued -> 0 .. 2]
    BY SignedInFacts, AuthTypedParts DEF Held
  <2>2. \A m : m # n => age'[m] = age[m]
    BY <1>1, <2>1
  <2> QED
    BY <2>2 DEF Accepted
<1>3. OneRefresh'
  BY <1>1, <1>2, SignedInFacts DEF OneRefresh
<1>4. \A t \in Tabs, k \in Slots : task[t][k].at = "rewire" => Accepted(task[t][k].h)'
  BY <1>1, <1>2, SignedInFacts DEF Steady, Slots
<1> QED
  BY <1>1, <1>3, <1>4, TabsStay

\* Opening a tab again, while it is not refreshing.
LEMMA ReopenStays ==
    ASSUME SignedInThere, ~excuse', NEW t \in Tabs, NEW p \in {"public", "private"}, Reopen(t, p)
    PROVE  StaysSignedIn'
<1>1. /\ AuthTyped /\ Flags /\ task \in [Tabs -> [Slots -> Calls]] /\ task[t].app \in Calls
      /\ token \in [Tabs -> Tokens] /\ page \in [Tabs -> {"auth", "public", "private"}]
      /\ refresh \in [Tabs -> Refreshes]
  BY SignedInFacts, AuthTypedParts DEF SignedInThere, Shown, Slots
<1>2. /\ refresh[t].at = "idle" /\ session' = session
      /\ refresh' = [refresh EXCEPT ![t] = NoRefresh]
      /\ task' = [task EXCEPT ![t] = Booting]
      /\ user' = [user EXCEPT ![t] = FALSE] /\ ready' = [ready EXCEPT ![t] = FALSE]
      /\ page' = [page EXCEPT ![t] = p] /\ token' = [token EXCEPT ![t] = 0]
      /\ UNCHANGED <<cookie, stored, age>>
  BY DEF Reopen, Load
<1>3. /\ Booting.app.for = "init" /\ Booting.app.at = "start" /\ Booting.query = Idle
      /\ Idle.for = "none" /\ Idle.at = "none"
  BY DEF Booting, Idle
<1>4. \A s \in Tabs : \/ refresh'[s] = refresh[s]
                      \/ refresh'[s].at = "idle" /\ refresh[s].at = "idle"
  BY <1>1, <1>2 DEF NoRefresh
<1>5. \A m : Accepted(m)' = Accepted(m)
  BY <1>2 DEF Accepted
<1>6. OneRefresh'
  BY <1>2, <1>4, <1>5, SignedInFacts DEF OneRefresh
<1>7. ASSUME NEW s \in Tabs PROVE Steady(s)'
  <2>1. CASE s = t
    <3>1. /\ task'[s] = Booting /\ page'[s] = p /\ ~ready'[s]
      BY <1>1, <1>2, <2>1 DEF Flags
    <3>2. AppCall(task'[s].app) /\ QueryCall(task'[s].query)
      BY <1>3, <3>1 DEF AppCall, QueryCall
    <3>3. AppCall(task[s].app)' /\ QueryCall(task[s].query)'
      BY <3>2 DEF AppCall, QueryCall, Idle
    <3> QED
      BY <1>3, <3>1, <3>3 DEF Steady
  <2>2. CASE s # t
    <3>1. /\ task'[s] = task[s] /\ page'[s] = page[s] /\ ready'[s] = ready[s] /\ user'[s] = user[s]
          /\ token'[s] = token[s]
      BY <1>1, <1>2, <2>2 DEF Flags
    <3>2. AppCall(task[s].app)' /\ QueryCall(task[s].query)'
      BY <3>1, SignedInFacts DEF Steady, AppCall, QueryCall, Idle
    <3> QED
      BY <1>5, <3>1, <3>2, SignedInFacts DEF Steady
  <2> QED
    BY <2>1, <2>2
<1> QED
  BY <1>2, <1>6, <1>7, SignedInFacts DEF StaysSignedIn

\* The server rotates the token that counts.
LEMMA RotateStays ==
    ASSUME SignedInThere, NEW t \in Tabs, ServerRotates(t)
    PROVE  StaysSignedIn'
<1> DEFINE n == issued + 1
<1>1. /\ AuthTyped /\ task \in [Tabs -> [Slots -> Calls]] /\ refresh \in [Tabs -> Refreshes]
      /\ issued \in Nat /\ age \in [1 .. issued -> 0 .. 2]
  BY SignedInFacts, AuthTypedParts DEF Held
<1>2. /\ refresh[t].at = "sent" /\ session' = (session \cup {n}) \ {refresh[t].c}
      /\ age' = [m \in 1 .. n |-> IF m \in DOMAIN age THEN age[m] ELSE 0]
      /\ refresh' = [refresh EXCEPT ![t] = [at |-> "done", c |-> 0, new |-> n]]
      /\ UNCHANGED <<cookie, stored, token, page, user, ready, task>>
  BY DEF ServerRotates
<1>3. refresh[t].c \in Tokens /\ refresh[t].c # n
  BY <1>1 DEF Refreshes, Tokens
<1>4. n \in session' /\ n # 0 /\ age'[n] = 0
  BY <1>1, <1>2, <1>3
<1>5. \A m \in Tokens : Accepted(m) => Accepted(m)'
  BY <1>1, <1>2 DEF Accepted, Tokens
<1>6. /\ refresh'[t].at = "done" /\ refresh'[t].new = n
      /\ \A s \in Tabs \ {t} : refresh'[s].at = "idle"
  BY <1>1, <1>2, SignedInFacts DEF OneRefresh
<1>7. OneRefresh'
  BY <1>4, <1>6 DEF OneRefresh, Accepted
<1>8. \A s \in Tabs, k \in Slots : task[s][k].at = "rewire" => Accepted(task[s][k].h)'
  <2>1. \A s \in Tabs, k \in Slots : task[s][k].h \in Tokens
    BY <1>1 DEF Calls
  <2>2. \A s \in Tabs, k \in Slots : task[s][k].at = "rewire" => Accepted(task[s][k].h)
    BY SignedInFacts DEF Steady, Slots
  <2> QED
    BY <1>2, <1>5, <2>1, <2>2
<1> QED
  BY <1>2, <1>7, <1>8, TabsStay

\* What a settled refresh makes of a call of a tab that stays signed in.
LEMMA ResumedStays ==
    ASSUME AuthTyped, NEW r \in Calls, NEW n \in Tokens, n # 0, NEW left \in Tokens
    PROVE  /\ AppCall(r) => AppCall(Resumed(r, n, left))
           /\ QueryCall(r) => QueryCall(Resumed(r, n, left))
           /\ Resumed(r, n, left).at \in {"wire", "rewire"} => Resumed(r, n, left) = r \/ Resumed(r, n, left).h = n
<1> DEFINE now == Resumed(r, n, left)
<1>1. CASE r.for = "init" /\ r.at = "wait"
  <2>1. now = [r EXCEPT !.at = "check"]
    BY <1>1 DEF Resumed
  <2>2. now.at = "check" /\ now.for = "init"
    BY <1>1, <2>1 DEF Calls
  <2> QED
    BY <1>1, <2>2 DEF AppCall, QueryCall
<1>2. CASE r.at = "pre"
  <2>1. now = [r EXCEPT !.at = "wire", !.h = n, !.c = left]
    BY <1>2 DEF Resumed
  <2>2. now.at = "wire" /\ now.for = r.for /\ now.h = n
    BY <2>1 DEF Calls
  <2>3. r # Idle
    BY <1>2 DEF Idle
  <2> QED
    BY <1>2, <2>2, <2>3 DEF AppCall, QueryCall
<1>3. CASE r.at = "re"
  <2>1. now = [r EXCEPT !.at = "rewire", !.h = n, !.c = left]
    BY <1>3 DEF Resumed
  <2>2. now.at = "rewire" /\ now.for = r.for /\ now.h = n
    BY <2>1 DEF Calls
  <2>3. r # Idle
    BY <1>3 DEF Idle
  <2> QED
    BY <1>3, <2>2, <2>3 DEF AppCall, QueryCall
<1>4. CASE ~(r.for = "init" /\ r.at = "wait") /\ r.at \notin {"pre", "re"}
  BY <1>4 DEF Resumed
<1> QED
  BY <1>1, <1>2, <1>3, <1>4

\* The answer of a refresh arrives.
LEMMA RefreshedStays ==
    ASSUME SignedInThere, NEW t \in Tabs, Refreshed(t)
    PROVE  StaysSignedIn'
<1> DEFINE n == refresh[t].new
           now == [k \in Slots |-> Resumed(task[t][k], n, n)]
<1>1. /\ AuthTyped /\ task \in [Tabs -> [Slots -> Calls]] /\ refresh \in [Tabs -> Refreshes]
      /\ token \in [Tabs -> Tokens] /\ task[t] \in [Slots -> Calls]
      /\ task[t].app \in Calls /\ task[t].query \in Calls
  BY SignedInFacts, AuthTypedParts DEF Slots
<1>2. /\ refresh[t].at = "done" /\ cookie' = n /\ stored' = n
      /\ token' = [token EXCEPT ![t] = n]
      /\ task' = [task EXCEPT ![t] = [k \in DOMAIN @ |-> Resumed(@[k], n, n)]]
      /\ refresh' = [refresh EXCEPT ![t] = NoRefresh]
      /\ UNCHANGED <<session, age, page, user, ready>>
  BY DEF Refreshed, SetAccessToken
<1>3. n \in Tokens /\ n \in session /\ Accepted(n) /\ n # 0
  BY <1>1, <1>2, SignedInFacts DEF OneRefresh, Accepted, Refreshes
<1>4. \A s \in Tabs : refresh'[s].at = "idle"
  BY <1>1, <1>2, SignedInFacts DEF OneRefresh, NoRefresh
<1>5. OneRefresh'
  BY <1>2, <1>3, <1>4 DEF OneRefresh
<1>6. \A m : Accepted(m)' = Accepted(m)
  BY <1>2 DEF Accepted
<1>7. /\ task' = [task EXCEPT ![t] = now]
      /\ now.app = Resumed(task[t].app, n, n) /\ now.query = Resumed(task[t].query, n, n)
  BY <1>1, <1>2 DEF Slots
<1> HIDE DEF now, n
<1>8. ASSUME NEW s \in Tabs PROVE Steady(s)'
  <2>1. CASE s = t
    <3>1. task'[s] = now /\ token'[s] = n
      BY <1>1, <1>2, <1>7, <2>1
    <3>2. AppCall(now.app) /\ QueryCall(now.query)
      BY <1>1, <1>3, <1>7, SignedInFacts, ResumedStays DEF Steady
    <3>3. /\ now.app.at = "rewire" => Accepted(now.app.h)
          /\ now.query.at = "rewire" => Accepted(now.query.h)
      <4>1. /\ now.app.at \in {"wire", "rewire"} => now.app = task[t].app \/ now.app.h = n
            /\ now.query.at \in {"wire", "rewire"} => now.query = task[t].query \/ now.query.h = n
        BY <1>1, <1>3, <1>7, ResumedStays
      <4> QED
        BY <1>3, <4>1, SignedInFacts DEF Steady
    <3>4. AppCall(task'[s].app) /\ QueryCall(task'[s].query)
      BY <3>1, <3>2
    <3>5. AppCall(task[s].app)' /\ QueryCall(task[s].query)'
      BY <3>4 DEF AppCall, QueryCall, Idle
    <3>6. /\ task'[s].app.at = "rewire" => Accepted(task[s].app.h)'
          /\ task'[s].query.at = "rewire" => Accepted(task[s].query.h)'
      BY <1>6, <3>1, <3>3
    <3> QED
      BY <1>2, <1>3, <3>1, <3>5, <3>6, SignedInFacts DEF Steady
  <2>2. CASE s # t
    <3>1. task'[s] = task[s] /\ token'[s] = token[s]
      BY <1>1, <1>2, <1>7, <2>2
    <3>2. AppCall(task[s].app)' /\ QueryCall(task[s].query)'
      BY <3>1, SignedInFacts DEF Steady, AppCall, QueryCall, Idle
    <3> QED
      BY <1>2, <1>6, <3>1, <3>2, SignedInFacts DEF Steady
  <2> QED
    BY <2>1, <2>2
<1> QED
  BY <1>2, <1>3, <1>5, <1>8 DEF StaysSignedIn

LEMMA SignedInStepStays ==
    ASSUME AuthTyped, Flags, StaysSignedIn, [Next]_web
    PROVE  StaysSignedIn'
<1> SUFFICES ASSUME ~excuse' PROVE StaysSignedIn'
  BY DEF StaysSignedIn
<1>1. SignedInThere
  BY ExcuseStays DEF SignedInThere
<1>2. ASSUME NEW t \in Tabs, Steps(t) PROVE StaysSignedIn'
  BY <1>1, <1>2, NoneEndsIt, AdoptAndFocusStay, RotateStays, RefreshedStays, InterceptorStays, CallersStay
  DEF Steps, Slots
<1>3. ASSUME NEW t \in Tabs,
             \/ Focus(t) \/ RefreshLost(t) \/ SignOutClick(t)
             \/ \E k \in Slots : Errs(t, k)
             \/ \E p \in {"public", "private"} : Reopen(t, p)
             \/ \E what \in {"signin", "signup"} : Submit(t, what)
             \/ \E what \in {"public", "protected"} : StartQuery(t, what)
      PROVE  StaysSignedIn'
  BY <1>1, <1>3, NoneEndsIt, AdoptAndFocusStay, ReopenStays, CallersStay
<1>4. CASE \E n \in DOMAIN age : Ages(n)
  BY <1>1, <1>4, AgesStay
<1>5. CASE UNCHANGED web
  <2>1. UNCHANGED <<cookie, stored, session, age, token, page, user, ready, task, refresh>>
    BY <1>5 DEF web, auth
  <2>2. OneRefresh'
    BY <1>1, <2>1, SignedInFacts DEF OneRefresh, Accepted
  <2>3. \A s \in Tabs, k \in Slots : task[s][k].at = "rewire" => Accepted(task[s][k].h)'
    BY <1>1, <2>1, SignedInFacts DEF Steady, Accepted, Slots
  <2> QED
    BY <1>1, <2>1, <2>2, <2>3, TabsStay
<1> QED
  BY <1>2, <1>3, <1>4, <1>5 DEF Next, Slots

LEMMA SignedInStarts == Init => Flags /\ StaysSignedIn
<1> SUFFICES ASSUME Init PROVE Flags /\ StaysSignedIn
  OBVIOUS
<1>1. Flags
  BY DEF Init, Flags
<1>2. ASSUME ~excuse PROVE StaysSignedIn
  <2>1. cookie = 1 /\ stored = 1 /\ session = {1}
    BY <1>2 DEF Init
  <2>2. Idle.for = "none" /\ Idle.at = "none" /\ NoRefresh.at = "idle"
    BY DEF Idle, NoRefresh
  <2>3. OneRefresh
    BY <2>1, <2>2 DEF Init, OneRefresh
  <2>4. ASSUME NEW t \in Tabs PROVE Steady(t)
    <3>1. page[t] # "auth" /\ user[t]
      BY <2>1, WebAuthConstants DEF Init
    <3>2. task[t].app = Idle /\ task[t].query = Idle
      BY DEF Init
    <3> QED
      BY <2>2, <3>1, <3>2 DEF Steady, AppCall, QueryCall
  <2> QED
    BY <2>1, <2>3, <2>4 DEF StaysSignedIn
<1> QED
  BY <1>1, <1>2 DEF StaysSignedIn

\* The invariant of both action properties.
LEMMA SignedInAlways == Spec => [](AuthTyped /\ Flags /\ StaysSignedIn)
<1> DEFINE Sound == SignOutSound /\ Flags /\ StaysSignedIn
<1>1. Init => Sound
  BY WebStartsSound, SignedInStarts
<1>2. Sound /\ [Next]_web => Sound'
  BY WebStepIsSound, FlagsKept, SignedInStepStays DEF SignOutSound
<1>3. Sound => AuthTyped /\ Flags /\ StaysSignedIn
  BY DEF SignOutSound
<1> HIDE DEF Sound
<1> QED
  BY <1>1, <1>2, <1>3, PTL DEF Spec

\* connect.ts, AuthContext.initialize and redirectOnAuthFailure: a signed-in tab is sent to the
\* sign-in page only after a sign-out, an error or a lost answer, or when two tabs refreshed at
\* once, for any number of tabs, requests, page loads and refreshes.
THEOREM LogoutIsNeeded == Spec => NoNeedlessLogout
<1> DEFINE Sound == AuthTyped /\ Flags /\ StaysSignedIn
<1>1. Sound /\ Sound' /\ [Next]_web
          => [\A t \in Tabs : page'[t] = "auth" => page[t] = "auth" \/ excuse']_web
  BY DEF StaysSignedIn, Steady
<1>2. Spec => []Sound
  BY SignedInAlways
<1> HIDE DEF Sound
<1> QED
  BY <1>1, <1>2, PTL DEF Spec, NoNeedlessLogout

\* What a query of a signed-in tab is sent with, by the steps that send it.
LEMMA PreparedQuery ==
    ASSUME SignedInThere, skew = 0, NEW s \in Tabs, NEW k \in Slots, Prepare(s, k), NEW t \in Tabs,
           task[t].query.at # "wire", task'[t].query.at = "wire"
    PROVE  Accepted(task'[t].query.h)
<1> DEFINE r == task[s][k]
           n == GetAccessToken(s)
           wired == [r EXCEPT !.at = "wire", !.h = n, !.c = cookie]
           waits == [r EXCEPT !.at = "pre", !.h = n]
<1>1. /\ AuthTyped /\ r \in Calls /\ n \in Tokens /\ cookie \in Tokens /\ stored # 0
      /\ age \in [1 .. issued -> 0 .. 2] /\ issued \in Nat
  BY SignedInFacts, AuthTypedParts, GetAccessTokenTyped DEF Held
<1>2. /\ wired \in Calls /\ waits \in Calls
      /\ wired.at = "wire" /\ waits.at = "pre" /\ wired.h = n
  <2>1. "wire" \in CallSteps /\ "pre" \in CallSteps
    BY DEF CallSteps
  <2>2. wired \in Calls /\ waits \in Calls
    BY <1>1, <2>1, CallsWritten
  <2>3. wired.at = "wire" /\ waits.at = "pre" /\ wired.h = n
    BY <1>1 DEF Calls
  <2> QED
    BY <2>2, <2>3
<1>3. \/ Set(s, k, wired) /\ (IF n = 0 THEN ~HasStoredToken(s) ELSE Seen(n) <= 1)
      \/ Set(s, k, waits)
  BY DEF Prepare
<1> HIDE DEF wired, waits, n
<1>4. \A call \in Calls : Set(s, k, call) =>
          task'[t].query = IF t = s /\ k = "query" THEN call ELSE task[t].query
  BY <1>1, SetCall
<1>5. /\ Set(s, k, wired) /\ task'[t].query = wired
      /\ (IF n = 0 THEN ~HasStoredToken(s) ELSE Seen(n) <= 1)
  BY <1>2, <1>3, <1>4
<1>6. n # 0
  BY <1>1, <1>5 DEF HasStoredToken
<1>7. age[n] \in 0 .. 2
  BY <1>1, <1>6 DEF Tokens
<1>8. age[n] < 2
  BY <1>5, <1>6, <1>7 DEF Seen
<1> QED
  BY <1>2, <1>5, <1>6, <1>8 DEF Accepted

LEMMA ResumedQuery ==
    ASSUME SignedInThere, NEW s \in Tabs, Refreshed(s), NEW t \in Tabs,
           task[t].query.at # "wire", task'[t].query.at = "wire"
    PROVE  Accepted(task'[t].query.h)
<1> DEFINE n == refresh[s].new
<1>1. /\ AuthTyped /\ task \in [Tabs -> [Slots -> Calls]] /\ refresh \in [Tabs -> Refreshes]
      /\ task[s].query \in Calls
  BY SignedInFacts, AuthTypedParts DEF Slots
<1>2. n \in Tokens /\ Accepted(n) /\ n # 0
  BY <1>1, SignedInFacts DEF Refreshed, OneRefresh, Accepted, Refreshes
<1>3. task' = [task EXCEPT ![s] = [k \in DOMAIN @ |-> Resumed(@[k], n, n)]]
  BY DEF Refreshed
<1>4. t = s /\ task'[t].query = Resumed(task[s].query, n, n)
  BY <1>1, <1>3 DEF Slots
<1>5. Resumed(task[s].query, n, n) = task[s].query \/ Resumed(task[s].query, n, n).h = n
  BY <1>1, <1>2, <1>4, ResumedStays
<1> QED
  BY <1>2, <1>4, <1>5

\* No other step of a signed-in tab sends a query.
LEMMA SentQuery ==
    ASSUME SignedInThere, ~excuse', [Next]_web, skew = 0, NEW t \in Tabs,
           task[t].query.at # "wire", task'[t].query.at = "wire"
    PROVE  Accepted(task'[t].query.h)
<1>1. AuthTyped /\ task \in [Tabs -> [Slots -> Calls]]
  BY SignedInFacts, AuthTypedParts
<1>2. task' # task
  OBVIOUS
<1>3. ASSUME NEW s \in Tabs, NEW k \in Slots, NEW r \in Calls, Set(s, k, r) PROVE r.at = "wire"
  BY <1>1, <1>3, SetCall
<1>4. ASSUME NEW s \in Tabs, NEW k \in Slots, Answer(s, k) PROVE FALSE
  <2>1. PICK how \in {"ok", "guest", "re", "denied"} : Set(s, k, Over(task[s][k], how))
    BY <1>4 DEF Answer
  <2>2. task[s][k] \in Calls /\ how \in CallSteps
    BY <1>1 DEF CallSteps
  <2>3. Over(task[s][k], how) \in Calls /\ Over(task[s][k], how).at = how
    BY <1>1, <2>2, CallsWritten DEF Over, Idle
  <2> QED
    BY <1>3, <2>1, <2>3
<1>5. ASSUME NEW s \in Tabs,
             \/ QueryEnds(s) \/ InitStart(s) \/ InitCheck(s) \/ InitGoesOn(s)
             \/ \E what \in {"public", "protected"} : StartQuery(s, what)
      PROVE  FALSE
  <2> DEFINE waits == [task[s].app EXCEPT !.at = "wait"]
  <2>1. task[s].app \in Calls
    BY <1>1 DEF Slots
  <2>2. Idle \in Calls /\ Idle.at = "none" /\ \A what : Call(what).at = "token"
    BY <1>1, <2>1, CallsWritten DEF Call, Idle
  <2>3. \A what \in {"me", "public", "protected"} : Call(what) \in Calls
    BY <1>1, <2>1, CallsWritten DEF Purposes
  <2>4. waits \in Calls /\ waits.at = "wait"
    <3>1. "wait" \in CallSteps
      BY DEF CallSteps
    <3>2. waits.at = "wait"
      BY <2>1 DEF Calls
    <3> QED
      BY <1>1, <2>1, <3>1, <3>2, CallsWritten
  <2>5. \E k \in Slots, r \in {Idle, waits, Call("me"), Call("public"), Call("protected")} : Set(s, k, r)
    BY <1>5 DEF QueryEnds, InitStart, InitCheck, InitGoesOn, Settle, StartQuery, Slots
  <2> HIDE DEF waits
  <2> QED
    BY <1>3, <2>2, <2>3, <2>4, <2>5
<1>6. ASSUME NEW s \in Tabs, NEW p \in {"public", "private"}, Reopen(s, p) PROVE FALSE
  <2>1. task' = [task EXCEPT ![s] = Booting] /\ Booting.query.at = "none"
    BY <1>6 DEF Reopen, Load, Booting, Idle
  <2> QED
    BY <1>1, <2>1
<1>7. ASSUME NEW s \in Tabs, Adopt(s) \/ ServerRotates(s) \/ Focus(s) PROVE FALSE
  BY <1>2, <1>7 DEF Adopt, ServerRotates, Focus
<1>8. CASE (\E n \in DOMAIN age : Ages(n)) \/ UNCHANGED web
  BY <1>2, <1>8 DEF Ages, web
<1>9. ASSUME NEW s \in Tabs, Steps(s) PROVE Accepted(task'[t].query.h)
  BY <1>4, <1>5, <1>7, <1>9, NoneEndsIt, PreparedQuery, ResumedQuery DEF Steps, Slots
<1>10. ASSUME NEW s \in Tabs,
              \/ Focus(s) \/ RefreshLost(s) \/ SignOutClick(s)
              \/ \E k \in Slots : Errs(s, k)
              \/ \E p \in {"public", "private"} : Reopen(s, p)
              \/ \E what \in {"signin", "signup"} : Submit(s, what)
              \/ \E what \in {"public", "protected"} : StartQuery(s, what)
       PROVE  FALSE
  BY <1>5, <1>6, <1>7, <1>10, NoneEndsIt
<1> QED
  BY <1>8, <1>9, <1>10 DEF Next, Slots

LEMMA SkewStays == [Next]_web => skew' = skew
<1> SUFFICES ASSUME [Next]_web PROVE skew' = skew
  OBVIOUS
<1>1. ASSUME NEW t \in Tabs, Steps(t) PROVE skew' = skew
  BY <1>1 DEF Steps, Adopt, ServerRotates, ServerRefuses, Refreshed, RefreshFails, Prepare, Answer, Redirect,
     Guard, QueryEnds, InitStart, InitCheck, InitGoesOn, InitFails, SignedUp, SubmitFails, ServerGrants,
     SignedIn, ServerRevokes, CookieCleared, Logout
<1>2. ASSUME NEW t \in Tabs,
             \/ Focus(t) \/ RefreshLost(t) \/ SignOutClick(t)
             \/ \E k \in Slots : Errs(t, k)
             \/ \E p \in {"public", "private"} : Reopen(t, p)
             \/ \E what \in {"signin", "signup"} : Submit(t, what)
             \/ \E what \in {"public", "protected"} : StartQuery(t, what)
      PROVE  skew' = skew
  BY <1>2 DEF Focus, RefreshLost, SignOutClick, Errs, Reopen, Submit, StartQuery
<1>3. CASE (\E n \in DOMAIN age : Ages(n)) \/ UNCHANGED web
  BY <1>3 DEF Ages, web
<1> QED
  BY <1>1, <1>2, <1>3 DEF Next, Slots

\* connect.ts, getRequestToken: no query of a signed-in tab goes out as a guest's, or with a token
\* that has expired, while the client's clock is right and nothing has gone wrong.
THEOREM QueriesAreTheUsers == Spec => NoGuestRead
<1> DEFINE Sound == AuthTyped /\ Flags /\ StaysSignedIn
           Step == \A t \in Tabs :
                     /\ task[t].query.at # "wire" /\ task'[t].query.at = "wire" /\ user[t]
                     => Accepted(task'[t].query.h) \/ skew > 0 \/ excuse'
<1>1. Sound /\ skew \in Nat /\ [Next]_web => [Step]_web
  <2> SUFFICES ASSUME Sound, skew \in Nat, [Next]_web, NEW t \in Tabs,
                      task[t].query.at # "wire", task'[t].query.at = "wire", ~(skew > 0), ~excuse'
               PROVE  Accepted(task'[t].query.h)
    OBVIOUS
  <2>1. SignedInThere
    BY ExcuseStays DEF SignedInThere
  <2> QED
    BY <2>1, SentQuery
<1>2. Spec => []Sound
  BY SignedInAlways
<1>3. Spec => [](skew \in Nat)
  <2>1. Init => skew \in Nat
    BY WebAuthConstants DEF Init
  <2>2. skew \in Nat /\ [Next]_web => (skew \in Nat)'
    BY SkewStays
  <2> QED
    BY <2>1, <2>2, PTL DEF Spec
<1> HIDE DEF Sound
<1> QED
  BY <1>1, <1>2, <1>3, PTL DEF Spec, NoGuestRead

=============================================================================
