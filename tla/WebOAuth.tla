------------------------------- MODULE WebOAuth -------------------------------
(***************************************************************************)
(* Signing in through an identity provider and linking an account to one,  *)
(* as one tab goes through it: the attempt is written to the session       *)
(* storage, the browser leaves for the provider and comes back to the      *)
(* callback page, which exchanges the code.  On the way the user may go    *)
(* back and start again, return to an old callback address, take too long, *)
(* or become someone else in another tab.                                  *)
(*                                                                         *)
(* The identity provider and the server (a code is good for one exchange)  *)
(* are external.                                                           *)
(***************************************************************************)
EXTENDS Naturals

CONSTANTS
    MaxTries,    \* bound on the attempts started
    MaxTroubles  \* bound on the turns taken: switched users, lost answers, old addresses

ASSUME WebOAuthConstants == MaxTries \in Nat /\ MaxTroubles \in Nat

VARIABLES
    try,      \* the attempts: mode, who started it, step, has its code been exchanged
    pending,  \* the attempt in the session storage, 0 for none
    expired,  \* is it older than STATE_EXPIRY_MS
    place,    \* where the tab is: "app", "provider" or "callback"
    address,  \* the attempt in the address of the provider or of the callback page
    refused,  \* does the address carry an error
    user,     \* currentUser of this page load, "" for none
    callback, \* the callback page: ready (isInitialized), due (its effect is to run), handled, shows
    request,  \* its exchange: attempt sent, how far it is
    cookie,   \* who the browser is signed in as
    linked,   \* the identities linked: user and attempt
    troubles

oauthVars == <<try, pending, expired, place, address, refused, user, callback, request, cookie, linked, troubles>>

Tries == 1 .. MaxTries
People == {"ann", "bob"}
NoTry == [mode |-> "none", by |-> "", step |-> "none", used |-> FALSE]
FreshPage == [ready |-> FALSE, due |-> FALSE, handled |-> FALSE, shows |-> "loading"]
NoRequest == [try |-> 0, parent |-> "", at |-> "none"]

OAuthInit ==
    /\ try = [a \in Tries |-> NoTry]
    /\ pending = 0 /\ expired = FALSE /\ place = "app" /\ address = 0 /\ refused = FALSE
    /\ user = "" /\ cookie = "" /\ callback = FreshPage /\ request = NoRequest
    /\ linked = {} /\ troubles = 0

Trouble == troubles < MaxTroubles /\ troubles' = troubles + 1

-----------------------------------------------------------------------------
(* Leaving *)

\* storeOAuthState up to the generation of the challenge, which it awaits: another button may be
\* clicked meanwhile.
StartFlow(mode) ==
    /\ place = "app"
    /\ \E a \in Tries :
        /\ try[a].step = "none" /\ \A b \in Tries : b < a => try[b].step # "none"
        /\ try' = [try EXCEPT ![a] = [mode |-> mode, by |-> user, step |-> "starting", used |-> FALSE]]
    /\ UNCHANGED <<pending, expired, place, address, refused, user, callback, request, cookie, linked, troubles>>

\* The buttons of the sign-in page and of the account settings.
SignInWithIdentityProvider == user = "" /\ StartFlow("signin")
LinkIdentityProvider == user # "" /\ StartFlow("link")

\* The attempt is stored over the one before and the browser is sent to the provider; until it has
\* left, an attempt started earlier may still do the same.
StoreOAuthState(a) ==
    /\ place = "app" /\ try[a].step = "starting"
    /\ try' = [try EXCEPT ![a].step = "stored"]
    /\ pending' = a /\ expired' = FALSE /\ address' = a
    /\ UNCHANGED <<place, refused, user, callback, request, cookie, linked, troubles>>

\* The page is left; what it had not stored is gone.
LeavePage ==
    /\ place = "app" /\ address # 0 /\ try[address].step = "stored"
    /\ place' = "provider"
    /\ try' = [a \in Tries |-> IF a = address THEN [try[a] EXCEPT !.step = "asked"]
                               ELSE IF try[a].step = "starting" THEN [try[a] EXCEPT !.step = "dropped"]
                               ELSE try[a]]
    /\ UNCHANGED <<pending, expired, address, refused, user, callback, request, cookie, linked, troubles>>

\* The user returns from the provider without an answer.
GoBack ==
    /\ place = "provider" /\ Trouble
    /\ place' = "app" /\ address' = 0
    /\ UNCHANGED <<try, pending, expired, refused, user, callback, request, cookie, linked>>

-----------------------------------------------------------------------------
(* Coming back *)

\* A page load of the callback address: nothing is known yet, and an expired attempt is cleared
\* (cleanupExpiredOAuthState).
LoadCallback(a, error) ==
    /\ place' = "callback" /\ address' = a /\ refused' = error
    /\ callback' = FreshPage /\ request' = NoRequest /\ user' = ""
    /\ pending' = IF expired THEN 0 ELSE pending
    /\ expired' = FALSE

\* The provider sends the browser back with a code or with an error ...
ProviderAnswers ==
    /\ place = "provider"
    /\ \E error \in BOOLEAN : LoadCallback(address, error)
    /\ try' = [try EXCEPT ![address].step = "answered"]
    /\ UNCHANGED <<cookie, linked, troubles>>

\* ... or the user returns to a callback address of before, or reloads it.
ReturnToAddress ==
    /\ Trouble
    /\ \E a \in Tries : try[a].step = "answered" /\ LoadCallback(a, FALSE)
    /\ UNCHANGED <<try, cookie, linked>>

\* AuthContext.initialize of the page load: the user is whoever the cookie says.
Initialized ==
    /\ place = "callback" /\ ~callback.ready
    /\ user' = cookie
    /\ callback' = [callback EXCEPT !.ready = TRUE, !.due = TRUE]
    /\ UNCHANGED <<try, pending, expired, place, address, refused, request, cookie, linked, troubles>>

\* validateOAuthState: only the attempt in the storage, in time; it is gone afterwards.
Validated == pending # 0 /\ ~expired /\ pending = address

\* What the effect does, if it is to act at all, for the users it is allowed for.
Effect(acts, allowed) ==
    /\ callback.due
    /\ IF ~acts \/ refused
       THEN /\ callback' = [callback EXCEPT !.due = FALSE, !.shows = IF acts THEN "error" ELSE @]
            /\ UNCHANGED <<pending, expired, request>>
       ELSE /\ pending' = 0 /\ expired' = FALSE
            /\ callback' = [callback EXCEPT !.due = FALSE, !.handled = @ \/ Validated,
                                           !.shows = IF Validated /\ allowed THEN @ ELSE "error"]
            /\ request' = IF Validated /\ allowed THEN [try |-> address, parent |-> user, at |-> "sent"]
                          ELSE request
    /\ UNCHANGED <<try, place, address, refused, user, cookie, linked, troubles>>

ByStarter == address # 0 /\ (try[address].mode = "link" => user # "" /\ user = try[address].by)

HandleForAnyone == Effect(~callback.handled, TRUE)

\* The effect of the callback page.  It runs again whenever the user's name changes; once it has
\* taken the attempt out of the storage it does nothing more.  A link goes on only if the one who
\* is signed in started it.
Handle == Effect(~callback.handled, ByStarter)

\* The server exchanges the code, once: it links the identity to the parent named, or signs in
\* the one the identity belongs to.
ServerExchanges ==
    /\ request.at = "sent" /\ ~try[request.try].used
    /\ try' = [try EXCEPT ![request.try].used = TRUE]
    /\ IF try[request.try].mode = "link"
       THEN linked' = linked \cup {<<request.parent, request.try>>} /\ UNCHANGED cookie
       ELSE \E p \in People : cookie' = p /\ UNCHANGED linked
    /\ request' = [request EXCEPT !.at = "done"]
    /\ UNCHANGED <<pending, expired, place, address, refused, user, callback, troubles>>

ExchangeFails ==
    /\ request.at \in {"sent", "done"} /\ Trouble
    /\ request' = [request EXCEPT !.at = "failed"]
    /\ callback' = [callback EXCEPT !.shows = "error"]
    /\ UNCHANGED <<try, pending, expired, place, address, refused, user, cookie, linked>>

\* The session is read again; the user may be another, which makes the effect due once more ...
InitializeAgain ==
    /\ request.at = "done"
    /\ request' = [request EXCEPT !.at = "initialized"]
    /\ user' = cookie
    /\ callback' = [callback EXCEPT !.shows = "blank", !.due = (cookie # user)]
    /\ UNCHANGED <<try, pending, expired, place, address, refused, cookie, linked, troubles>>

\* ... and the page goes to the address the flow was started from, or home.
NavigateTo ==
    /\ request.at = "initialized"
    /\ place' = "app" /\ address' = 0
    /\ callback' = FreshPage /\ request' = NoRequest
    /\ UNCHANGED <<try, pending, expired, refused, user, cookie, linked, troubles>>

\* From an error page the user returns to the application, a page load.
Abandon ==
    /\ place = "callback" /\ callback.shows = "error"
    /\ place' = "app" /\ address' = 0 /\ user' = cookie
    /\ callback' = FreshPage /\ request' = NoRequest
    /\ UNCHANGED <<try, pending, expired, refused, cookie, linked, troubles>>

\* Another tab signs in or out.
OtherTab ==
    /\ Trouble /\ \E p \in People \cup {""} : p # cookie /\ cookie' = p
    /\ UNCHANGED <<try, pending, expired, place, address, refused, user, callback, request, linked>>

\* The application is loaded afresh.
ReloadApp ==
    /\ place = "app" /\ user # cookie
    /\ user' = cookie /\ address' = 0
    /\ try' = [a \in Tries |-> IF try[a].step = "starting" THEN [try[a] EXCEPT !.step = "dropped"] ELSE try[a]]
    /\ pending' = (IF expired THEN 0 ELSE pending) /\ expired' = FALSE
    /\ UNCHANGED <<place, refused, callback, request, cookie, linked, troubles>>

TakesTooLong ==
    /\ pending # 0 /\ ~expired /\ expired' = TRUE
    /\ UNCHANGED <<try, pending, place, address, refused, user, callback, request, cookie, linked, troubles>>

OAuthNext ==
    \/ SignInWithIdentityProvider \/ LinkIdentityProvider \/ (\E a \in Tries : StoreOAuthState(a)) \/ LeavePage \/ GoBack
    \/ ProviderAnswers \/ ReturnToAddress \/ Initialized \/ Handle
    \/ ServerExchanges \/ ExchangeFails \/ InitializeAgain \/ NavigateTo \/ Abandon
    \/ OtherTab \/ ReloadApp \/ TakesTooLong

OAuthSpec == OAuthInit /\ [][OAuthNext]_oauthVars

-----------------------------------------------------------------------------

\* An identity is linked to the account from whose settings the flow was started, whoever the
\* browser is signed in as when the provider answers.
LinkedByStarter == \A l \in linked : l[1] = try[l[2]].by

\* An exchange that succeeds and whose answer arrives is not shown as a failure, although the user
\* it signs in makes the page's effect run again with the attempt already gone.
SuccessIsShown == request.at = "initialized" => callback.shows = "blank"

\* Both: an answer of the provider is used once, for the account that asked, and is seen to be.
AnswerIsUsed == LinkedByStarter /\ SuccessIsShown

=============================================================================
