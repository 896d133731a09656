-------------------------------- MODULE WebAuth --------------------------------
(***************************************************************************)
(* The web client's session: tabs of one browser that share the refresh    *)
(* token cookie and localStorage, the request interceptor of connect.ts    *)
(* with its one refresh at a time, the token store of auth-state.ts, the   *)
(* sign-in and sign-out of AuthContext and the pages, and the redirects.   *)
(*                                                                         *)
(* The server (external) issues an access token together with each refresh *)
(* token; both are the number of the pair, 0 for none.  An access token is *)
(* fresh (0), in its last two minutes (1) or expired (2).                  *)
(***************************************************************************)
EXTENDS Naturals, FiniteSets

CONSTANTS
    Tabs,
    Start,      \* the pages the tabs are opened at
    Skews,      \* by how much the client's clock may make a token look younger
    MaxEvents   \* bound on what users, clocks and the network do

ASSUME WebAuthConstants ==
    Start \in [Tabs -> {"public", "private"}] /\ Skews \subseteq {0, 1} /\ MaxEvents \in Nat

VARIABLES
    cookie,   \* the refresh token in the browser
    stored,   \* localStorage: the access token
    session,  \* the server's refresh tokens
    issued,   \* tokens issued so far
    age,      \* of each access token
    token,    \* accessToken of each tab's module
    user,     \* AuthState.currentUser is set
    ready,    \* AuthState.isInitialized
    page,     \* "auth", "public" or "private"
    refresh,  \* tokenRefreshManager: the refresh under way
    task,     \* the application's call and one query of each tab
    inbox,    \* the last token broadcast to a tab and not yet received
    skew, events,
    excuse,   \* something happened that may end a session
    over      \* a sign-out that no refresh and no sign-in overlapped is the latest word

auth == <<cookie, stored, session, issued, age>>
web == <<auth, token, user, ready, page, refresh, task, inbox, skew, events, excuse, over>>

Idle == [for |-> "none", at |-> "none", h |-> 0, c |-> 0]
NoRefresh == [at |-> "idle", c |-> 0, new |-> 0]
Call(what) == [Idle EXCEPT !.for = what, !.at = "token"]

\* The calls that need a signed-in user; the rest are answered to guests too.
Protected == {"me", "signout", "protected"}

Seen(n) == IF age[n] > skew THEN age[n] - skew ELSE 0

\* A page load: the module's memory is empty, AppInitializer starts initialize.
Booting == [app |-> [Idle EXCEPT !.for = "init", !.at = "start"], query |-> Idle]

\* Tabs that have been opened before: of a user, whose token is about to expire, or of a guest.
Init ==
    /\ cookie \in {0, 1} /\ session = {cookie} \ {0}
    /\ stored = cookie /\ issued = 1
    /\ age = [n \in {1} |-> 1]
    /\ token = [t \in Tabs |-> cookie]
    /\ user = [t \in Tabs |-> cookie = 1] /\ ready = [t \in Tabs |-> TRUE]
    /\ page = Start
    /\ refresh = [t \in Tabs |-> NoRefresh]
    /\ task = [t \in Tabs |-> [k \in {"app", "query"} |-> Idle]]
    /\ inbox = [t \in Tabs |-> 0]
    /\ skew \in Skews /\ events = 0
    /\ excuse = (cookie = 0) /\ over = FALSE

Spend == events < MaxEvents /\ events' = events + 1

\* JavaScript runs to its next await: nothing else happens meanwhile.
Quiet == \A t \in Tabs, k \in {"app", "query"} :
    task[t][k].at \notin {"start", "check", "token", "ok", "guest", "thrown", "denied", "cleared"}

-----------------------------------------------------------------------------
(* auth-state.ts *)

GetAccessToken(t) ==
    IF token[t] # 0 THEN token[t]
    ELSE IF stored # 0 /\ Seen(stored) < 2 THEN stored ELSE 0

HasStoredToken(t) == token[t] # 0 \/ stored # 0

\* setAccessToken: memory, localStorage and the other tabs.
SetAccessToken(t, n) ==
    /\ token' = [token EXCEPT ![t] = n]
    /\ stored' = n
    /\ inbox' = [s \in Tabs |-> IF s = t THEN inbox[s] ELSE n]

ClearAccessToken(t) ==
    /\ token' = [token EXCEPT ![t] = 0]
    /\ stored' = 0
    /\ UNCHANGED inbox

\* tokenChannel.onmessage: another tab refreshed.
Adopt(t) ==
    /\ inbox[t] # 0 /\ Quiet
    /\ inbox' = [inbox EXCEPT ![t] = 0]
    /\ token' = [token EXCEPT ![t] = inbox[t]]
    /\ UNCHANGED <<auth, user, ready, page, refresh, task, skew, events, excuse, over>>

-----------------------------------------------------------------------------
(* connect.ts: one refresh per tab *)

\* Mutant: the second caller sends a refresh of its own, and the first answer is not awaited.
JoinAlways(t) ==
    /\ refresh' = [refresh EXCEPT ![t] = [at |-> "sent", c |-> cookie, new |-> 0]]
    /\ excuse' = (excuse \/ \E s \in Tabs \ {t} : refresh[s].at # "idle")

\* Mutant: the refresh goes through the interceptor, which makes it wait for itself.
JoinIntercepted(t) ==
    \/ refresh[t].at # "idle" /\ UNCHANGED <<refresh, excuse>>
    \/ /\ refresh[t].at = "idle"
       /\ refresh' = [refresh EXCEPT ![t] = [at |-> IF stored # 0 /\ Seen(stored) = 2 THEN "waits" ELSE "sent",
                                             c |-> cookie, new |-> 0]]
       /\ excuse' = (excuse \/ \E s \in Tabs \ {t} : refresh[s].at # "idle")

\* tokenRefreshManager.refresh: callers share the refresh under way.  The browser attaches
\* the cookie it has; a refresh that overlaps another tab's may lose to it.
Join(t) ==
    \/ refresh[t].at # "idle" /\ UNCHANGED <<refresh, excuse>>
    \/ /\ refresh[t].at = "idle"
       /\ refresh' = [refresh EXCEPT ![t] = [at |-> "sent", c |-> cookie, new |-> 0]]
       /\ excuse' = (excuse \/ \E s \in Tabs \ {t} : refresh[s].at # "idle")

\* The server rotates the token presented, if it still knows it.
ServerRotates(t) ==
    /\ refresh[t].at = "sent" /\ refresh[t].c \in session /\ Quiet
    /\ issued' = issued + 1
    /\ age' = [n \in 1 .. issued + 1 |-> IF n \in DOMAIN age THEN age[n] ELSE 0]
    /\ session' = (session \cup {issued + 1}) \ {refresh[t].c}
    /\ refresh' = [refresh EXCEPT ![t] = [at |-> "done", c |-> 0, new |-> issued + 1]]
    /\ UNCHANGED <<cookie, stored, token, user, ready, page, task, inbox, skew, events, excuse, over>>

ServerRefuses(t) ==
    /\ refresh[t].at = "sent" /\ refresh[t].c \notin session /\ Quiet
    /\ refresh' = [refresh EXCEPT ![t] = [NoRefresh EXCEPT !.at = "fail"]]
    /\ UNCHANGED <<auth, token, user, ready, page, task, inbox, skew, events, excuse, over>>

\* What a caller does once the refresh it awaits is settled: the interceptor sends or sends again with
\* the new token; without one it sends what it has, or gives up when the server had refused that.
Resumed(r, n, left) ==
    IF r.for = "init" /\ r.at = "wait" THEN [r EXCEPT !.at = "check"]
    ELSE IF r.at = "pre" THEN [r EXCEPT !.at = "wire", !.h = IF n # 0 THEN n ELSE r.h, !.c = left]
    ELSE IF r.at = "re" THEN IF n # 0 THEN [r EXCEPT !.at = "rewire", !.h = n, !.c = left]
                                      ELSE [r EXCEPT !.at = "denied"]
    ELSE r

\* doRefreshAccessToken's response arrives.
Refreshed(t) ==
    /\ refresh[t].at = "done" /\ Quiet
    /\ cookie' = refresh[t].new
    /\ SetAccessToken(t, refresh[t].new)
    /\ task' = [task EXCEPT ![t] = [k \in DOMAIN @ |-> Resumed(@[k], refresh[t].new, cookie')]]
    /\ refresh' = [refresh EXCEPT ![t] = NoRefresh]
    /\ UNCHANGED <<session, issued, age, user, ready, page, skew, events, excuse, over>>

RefreshFails(t) ==
    /\ refresh[t].at = "fail" /\ Quiet
    /\ task' = [task EXCEPT ![t] = [k \in DOMAIN @ |-> Resumed(@[k], 0, cookie)]]
    /\ refresh' = [refresh EXCEPT ![t] = NoRefresh]
    /\ UNCHANGED <<auth, token, user, ready, page, inbox, skew, events, excuse, over>>

\* The network fails, before or after the server has rotated the token.
RefreshLost(t) ==
    /\ refresh[t].at \in {"sent", "done"} /\ Quiet /\ Spend
    /\ refresh' = [refresh EXCEPT ![t] = [NoRefresh EXCEPT !.at = "fail"]]
    /\ excuse' = TRUE
    /\ UNCHANGED <<auth, token, user, ready, page, task, inbox, skew, over>>

-----------------------------------------------------------------------------
(* connect.ts: the interceptor *)

Set(t, k, r) == task' = [task EXCEPT ![t][k] = r]

\* The call is over: what it carried no longer matters.
Over(r, how) == [Idle EXCEPT !.for = r.for, !.at = how]

\* Mutant: no preflight refresh.
PrepareNoPreflight(t, k) ==
    LET n == GetAccessToken(t) r == task[t][k] IN
    /\ r.at = "token"
    /\ token' = [token EXCEPT ![t] = n]
    /\ \/ /\ n # 0 \/ ~HasStoredToken(t)
          /\ Set(t, k, [r EXCEPT !.at = "wire", !.h = n, !.c = cookie])
          /\ UNCHANGED <<refresh, excuse>>
       \/ /\ n = 0 /\ HasStoredToken(t)
          /\ Set(t, k, [r EXCEPT !.at = "pre"])
          /\ Join(t)
    /\ UNCHANGED <<auth, user, ready, page, inbox, skew, events, over>>

\* getRequestToken: a stored token that is expired, or about to be, is refreshed first.
Prepare(t, k) ==
    LET n == GetAccessToken(t) r == task[t][k] IN
    /\ r.at = "token"
    /\ token' = [token EXCEPT ![t] = n]
    /\ \/ /\ IF n = 0 THEN ~HasStoredToken(t) ELSE Seen(n) <= 1
          /\ Set(t, k, [r EXCEPT !.at = "wire", !.h = n, !.c = cookie])
          /\ UNCHANGED <<refresh, excuse>>
       \/ /\ IF n = 0 THEN HasStoredToken(t) ELSE Seen(n) >= 1
          /\ Set(t, k, [r EXCEPT !.at = "pre", !.h = n])
          /\ Join(t)
    /\ UNCHANGED <<auth, user, ready, page, inbox, skew, events, over>>

Accepted(n) == n # 0 /\ age[n] < 2

\* The server answers a call that changes no session: as the user, as a guest, or not at all.
Answer(t, k) ==
    LET r == task[t][k] IN
    /\ r.at \in {"wire", "rewire"} /\ r.for \notin {"signin", "signout"} /\ Quiet
    /\ \/ Accepted(r.h) /\ Set(t, k, Over(r, "ok")) /\ UNCHANGED <<refresh, excuse>>
       \/ /\ ~Accepted(r.h) /\ r.for \notin Protected
          /\ Set(t, k, Over(r, "guest")) /\ UNCHANGED <<refresh, excuse>>
       \/ /\ ~Accepted(r.h) /\ r.for \in Protected /\ r.at = "wire"
          /\ Set(t, k, Over(r, "re")) /\ Join(t)
       \/ /\ ~Accepted(r.h) /\ r.for \in Protected /\ r.at = "rewire"
          /\ Set(t, k, Over(r, "denied")) /\ UNCHANGED <<refresh, excuse>>
    /\ UNCHANGED <<auth, token, user, ready, page, inbox, skew, events, over>>

\* Any other error.  The interceptor takes one that meets a call sent again for a failed refresh.
Errs(t, k) ==
    /\ task[t][k].at \in {"wire", "rewire"} /\ Quiet /\ Spend
    /\ Set(t, k, Over(task[t][k], IF task[t][k].at = "rewire" THEN "denied" ELSE "thrown"))
    /\ excuse' = TRUE
    /\ UNCHANGED <<auth, token, user, ready, page, refresh, inbox, skew, over>>

-----------------------------------------------------------------------------
(* Pages, guards and loads *)

\* The document is loaded again: what was on its way to it is dropped, though the server may have
\* rotated the token it was refreshing.
Load(t, p) ==
    /\ user' = [user EXCEPT ![t] = FALSE] /\ ready' = [ready EXCEPT ![t] = FALSE]
    /\ page' = [page EXCEPT ![t] = p]
    /\ task' = [task EXCEPT ![t] = Booting]
    /\ refresh' = [refresh EXCEPT ![t] = NoRefresh]
    /\ excuse' = (excuse \/ refresh[t].at # "idle")
    /\ session' \in {session} \cup (IF refresh[t].at = "sent" THEN {session \ {refresh[t].c}} ELSE {})

Reopen(t, p) ==
    /\ Quiet /\ Spend /\ Load(t, p)
    /\ token' = [token EXCEPT ![t] = 0] /\ inbox' = [inbox EXCEPT ![t] = 0]
    /\ UNCHANGED <<cookie, stored, issued, age, skew, over>>

\* LandingRoute, RequireAuthRoute and RequireGuestRoute, once AppInitializer renders them.
Guarded(t) ==
    CASE user[t] /\ page[t] = "auth" -> {"private", "public"}
      [] ~user[t] /\ page[t] = "private" -> {"auth", "public"}
      [] OTHER -> {}

Guard(t) ==
    /\ ready[t] /\ Quiet
    /\ \E p \in Guarded(t) : page' = [page EXCEPT ![t] = p]
    /\ UNCHANGED <<auth, token, user, ready, refresh, task, inbox, skew, events, excuse, over>>

\* redirectOnAuthFailure, on a page that is neither public nor part of signing in.
Redirect(t, k) ==
    /\ task[t][k].at = "denied" /\ page[t] = "private"
    /\ ClearAccessToken(t) /\ Load(t, "auth")
    /\ UNCHANGED <<cookie, issued, age, skew, events, over>>

\* A query has its answer, or its error.
QueryEnds(t) ==
    /\ \/ task[t].query.at \in {"ok", "guest", "thrown"}
       \/ task[t].query.at = "denied" /\ page[t] # "private"
    /\ Set(t, "query", Idle)
    /\ UNCHANGED <<auth, token, user, ready, page, refresh, inbox, skew, events, excuse, over>>

-----------------------------------------------------------------------------
(* AuthContext.initialize *)

Settle(t, signedIn) ==
    /\ user' = [user EXCEPT ![t] = signedIn]
    /\ ready' = [ready EXCEPT ![t] = TRUE]
    /\ Set(t, "app", Idle)

\* No token in memory or storage: the cookie may still be good.
InitStart(t) ==
    LET n == GetAccessToken(t) IN
    /\ task[t].app.at = "start"
    /\ token' = [token EXCEPT ![t] = n]
    /\ \/ n # 0 /\ Set(t, "app", Call("me")) /\ UNCHANGED <<refresh, excuse>>
       \/ n = 0 /\ Set(t, "app", [task[t].app EXCEPT !.at = "wait"]) /\ Join(t)
    /\ UNCHANGED <<auth, user, ready, page, inbox, skew, events, over>>

InitCheck(t) ==
    LET n == GetAccessToken(t) IN
    /\ task[t].app.at = "check"
    /\ token' = [token EXCEPT ![t] = n]
    /\ \/ n # 0 /\ Set(t, "app", Call("me")) /\ UNCHANGED <<user, ready>>
       \/ n = 0 /\ Settle(t, FALSE)
    /\ UNCHANGED <<auth, page, refresh, inbox, skew, events, excuse, over>>

\* getCurrentUser, listUserSettings and listShortcuts have answered.
InitGoesOn(t) ==
    /\ task[t].app.for = "me" /\ task[t].app.at = "ok"
    /\ Settle(t, TRUE)
    /\ UNCHANGED <<auth, token, page, refresh, inbox, skew, events, excuse, over>>

\* Any error on the way leaves the tab signed out.
InitFails(t) ==
    /\ task[t].app.for = "me"
    /\ \/ task[t].app.at = "thrown"
       \/ task[t].app.at = "denied" /\ page[t] # "private"
    /\ ClearAccessToken(t) /\ Settle(t, FALSE)
    /\ UNCHANGED <<cookie, session, issued, age, page, refresh, skew, events, excuse, over>>

-----------------------------------------------------------------------------
(* Signing in and out *)

\* The sign-in and sign-up forms, and the OAuth callback: a second click while loading does nothing.
Submit(t, what) ==
    /\ ready[t] /\ ~user[t] /\ page[t] = "auth" /\ task[t].app = Idle /\ Quiet /\ Spend
    /\ Set(t, "app", Call(what))
    /\ UNCHANGED <<auth, token, user, ready, page, refresh, inbox, skew, excuse, over>>

\* SignUp: createUser succeeded.
SignedUp(t) ==
    /\ task[t].app.for = "signup" /\ task[t].app.at \in {"ok", "guest"}
    /\ Set(t, "app", Call("signin"))
    /\ UNCHANGED <<auth, token, user, ready, page, refresh, inbox, skew, events, excuse, over>>

SubmitFails(t) ==
    /\ task[t].app.for \in {"signin", "signup"} /\ task[t].app.at \in {"thrown", "denied"}
    /\ Set(t, "app", Idle)
    /\ UNCHANGED <<auth, token, user, ready, page, refresh, inbox, skew, events, excuse, over>>

\* The server opens a session; a sign-out whose answer is on its way is not the latest word.
ServerGrants(t) ==
    /\ task[t].app.for = "signin" /\ task[t].app.at = "wire" /\ Quiet
    /\ issued' = issued + 1
    /\ age' = [n \in 1 .. issued + 1 |-> IF n \in DOMAIN age THEN age[n] ELSE 0]
    /\ session' = session \cup {issued + 1}
    /\ task' = [s \in Tabs |->
          IF s = t THEN [task[t] EXCEPT !.app = [@ EXCEPT !.at = "granted", !.h = issued + 1]]
          ELSE IF task[s].app.at = "revoked" THEN [task[s] EXCEPT !.app.at = "overtaken"] ELSE task[s]]
    /\ over' = FALSE
    /\ UNCHANGED <<cookie, stored, token, user, ready, page, refresh, inbox, skew, events, excuse>>

SignedIn(t) ==
    /\ task[t].app.at = "granted" /\ Quiet
    /\ cookie' = task[t].app.h
    /\ SetAccessToken(t, task[t].app.h)
    /\ Set(t, "app", Booting.app)
    /\ UNCHANGED <<session, issued, age, user, ready, page, refresh, skew, events, excuse, over>>

SignOutClick(t) ==
    /\ ready[t] /\ user[t] /\ page[t] # "auth" /\ task[t].app = Idle /\ Quiet /\ Spend
    /\ Set(t, "app", Call("signout"))
    /\ excuse' = TRUE
    /\ UNCHANGED <<auth, token, user, ready, page, refresh, inbox, skew, over>>

\* The token a sign-out revokes is not, or will not be, the one that counts.
Overtaken(r) ==
    \/ r.c # cookie
    \/ \E s \in Tabs :
        \/ refresh[s].at = "done" \/ task[s].app.at = "granted"
        \/ (refresh[s].at = "sent" /\ refresh[s].c # r.c)

\* SignOut: the token of the cookie is revoked; the answer clears the cookie.
ServerRevokes(t) ==
    LET r == task[t].app IN
    /\ r.for = "signout" /\ r.at \in {"wire", "rewire"} /\ Quiet
    /\ \/ /\ Accepted(r.h)
          /\ session' = session \ {r.c}
          /\ Set(t, "app", Over(r, IF Overtaken(r) THEN "overtaken" ELSE "revoked"))
          /\ UNCHANGED <<refresh, excuse>>
       \/ /\ ~Accepted(r.h) /\ r.at = "wire"
          /\ Set(t, "app", Over(r, "re")) /\ Join(t)
          /\ UNCHANGED session
       \/ /\ ~Accepted(r.h) /\ r.at = "rewire"
          /\ Set(t, "app", Over(r, "denied"))
          /\ UNCHANGED <<session, refresh, excuse>>
    /\ UNCHANGED <<cookie, stored, issued, age, token, user, ready, page, inbox, skew, events, over>>

CookieCleared(t) ==
    /\ task[t].app.at \in {"revoked", "overtaken"} /\ Quiet
    /\ cookie' = 0
    /\ over' = (task[t].app.at = "revoked")
    /\ Set(t, "app", [task[t].app EXCEPT !.at = "cleared"])
    /\ UNCHANGED <<stored, session, issued, age, token, user, ready, page, refresh, inbox, skew, events, excuse>>

\* Mutant: the sign-in page is loaded, the token stays in localStorage.
LogoutKeepsToken(t) ==
    /\ task[t].app.for = "signout"
    /\ \/ task[t].app.at \in {"cleared", "thrown"}
       \/ task[t].app.at = "denied" /\ page[t] # "private"
    /\ token' = [token EXCEPT ![t] = 0] /\ UNCHANGED <<stored, inbox>> /\ Load(t, "auth")
    /\ UNCHANGED <<cookie, issued, age, skew, events, over>>

\* logout's finally, whether or not signOut succeeded; UserMenu empties localStorage and leaves.
Logout(t) ==
    /\ task[t].app.for = "signout"
    /\ \/ task[t].app.at \in {"cleared", "thrown"}
       \/ task[t].app.at = "denied" /\ page[t] # "private"
    /\ ClearAccessToken(t) /\ Load(t, "auth")
    /\ UNCHANGED <<cookie, issued, age, skew, events, over>>

-----------------------------------------------------------------------------
(* What starts requests, and time *)

StartQuery(t, what) ==
    /\ ready[t] /\ page[t] # "auth" /\ task[t].query = Idle /\ Quiet /\ Spend
    /\ Set(t, "query", Call(what))
    /\ UNCHANGED <<auth, token, user, ready, page, refresh, inbox, skew, excuse, over>>

\* useTokenRefreshOnFocus: the tab becomes visible with a token in its last two minutes.
Focus(t) ==
    /\ user[t] /\ HasStoredToken(t) /\ Quiet
    /\ token[t] = 0 \/ Seen(token[t]) >= 1
    /\ refresh[t].at = "idle" /\ Join(t) /\ Spend
    /\ UNCHANGED <<auth, token, user, ready, page, task, inbox, skew, over>>

\* A call takes seconds and a token's age is minutes: none grows older on its way.
Ages(n) ==
    /\ age[n] < 2 /\ Quiet /\ Spend
    /\ \A t \in Tabs : /\ refresh[t].new # n
                      /\ \A k \in {"app", "query"} : task[t][k].h = n => task[t][k].at \notin {"wire", "rewire"}
    /\ age' = [age EXCEPT ![n] = @ + 1]
    /\ UNCHANGED <<cookie, stored, session, issued, token, user, ready, page, refresh, task, inbox, skew, excuse, over>>

-----------------------------------------------------------------------------

\* What the browser and the server do by themselves.
Steps(t) ==
    \/ Adopt(t)
    \/ ServerRotates(t) \/ ServerRefuses(t) \/ Refreshed(t) \/ RefreshFails(t)
    \/ \E k \in {"app", "query"} : Prepare(t, k) \/ Answer(t, k) \/ Redirect(t, k)
    \/ Guard(t) \/ QueryEnds(t)
    \/ InitStart(t) \/ InitCheck(t) \/ InitGoesOn(t) \/ InitFails(t)
    \/ SignedUp(t) \/ SubmitFails(t) \/ ServerGrants(t) \/ SignedIn(t)
    \/ ServerRevokes(t) \/ CookieCleared(t) \/ Logout(t)

Next ==
    \/ \E t \in Tabs :
        \/ Steps(t) \/ Focus(t) \/ RefreshLost(t) \/ SignOutClick(t)
        \/ \E k \in {"app", "query"} : Errs(t, k)
        \/ \E p \in {"public", "private"} : Reopen(t, p)
        \/ \E what \in {"signin", "signup"} : Submit(t, what)
        \/ \E what \in {"public", "protected"} : StartQuery(t, what)
    \/ \E n \in DOMAIN age : Ages(n)

Spec == Init /\ [][Next]_web

\* The event loop runs what is due, and the server answers what reaches it.
FairSpec == Spec /\ \A t \in Tabs : WF_web(Steps(t))

-----------------------------------------------------------------------------
(* Properties *)

TypeOK ==
    /\ {cookie, stored} \cup session \subseteq 0 .. issued
    /\ age \in [1 .. issued -> 0 .. 2]
    /\ token \in [Tabs -> 0 .. issued]
    /\ page \in [Tabs -> {"auth", "public", "private"}]
    /\ refresh \in [Tabs -> [at : {"idle", "sent", "done", "fail"}, c : 0 .. issued, new : 0 .. issued]]

\* A signed-in tab is sent to the sign-in page only after a sign-out, an error or a lost answer, or
\* when two tabs refreshed at once: whatever requests, timers and tab switches ask for new tokens,
\* a tab never presents one the server has rotated away, nor gives up a token that is good.
NoNeedlessLogout ==
    [][\A t \in Tabs : page'[t] = "auth" => page[t] = "auth" \/ excuse']_web

\* No signed-in tab sends a request that is answered to guests too without a token the server
\* accepts, so that it would show, and cache, what a guest may see.
NoGuestRead ==
    [][\A t \in Tabs :
        /\ task[t].query.at # "wire" /\ task'[t].query.at = "wire" /\ user[t]
        => Accepted(task'[t].query.h) \/ skew > 0 \/ excuse']_web

\* Once signed out, with no refresh or sign-in under way in any tab, the browser stays so: no tab
\* that still held a token brings a cookie or a stored token back.
SignOutSticks ==
    over /\ (\A t \in Tabs : task[t].app.for # "signout") => cookie = 0 /\ stored = 0

\* Every request ends, and every tab comes to know who is signed in: the refresh awaits no request
\* that awaits it.
RequestsEnd ==
    \A t \in Tabs : \A k \in {"app", "query"} : (task[t][k] # Idle) ~> (task[t][k] = Idle)

=============================================================================
