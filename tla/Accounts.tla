------------------------------- MODULE Accounts -------------------------------
(***************************************************************************)
(* How accounts come about and are tied to the accounts of identity        *)
(* providers: server/router/api/v1/auth_service.go and user_service.go,    *)
(* over store/user.go and store/user_identity.go.                          *)
(*                                                                         *)
(* Requests run concurrently; a step is one database call with what the    *)
(* code does up to the next.  A call may fail, and every call of a request *)
(* fails once its client has gone away.                                    *)
(*                                                                         *)
(* Left out: passwords, names and profiles, the exchange with the identity *)
(* provider (which yields a subject), and the settings, that may have any  *)
(* value when they are read.  The user cache is SessionStore's; here a     *)
(* deleted user may still be found.                                        *)
(***************************************************************************)
EXTENDS Naturals

CONSTANTS
    Workers,      \* goroutines that serve requests
    MaxUsers,     \* accounts ever created
    Providers,    \* identity providers
    Subjects,     \* their accounts, as UserInfo names them (extern_uid)
    MaxRequests,  \* bound on requests
    MaxErrors,    \* bound on failing calls
    Nobody        \* not a worker

ASSUME AccountsConstants ==
    /\ MaxUsers \in Nat /\ MaxRequests \in Nat /\ MaxErrors \in Nat
    /\ Nobody \notin Workers

VARIABLES
    role,         \* of each user row; "unused" before and "deleted" after it exists
    identities,   \* the rows of user_identity
    idp,          \* identity providers are configured
    mu,           \* userCreateMu
    request,      \* what each worker does, about whom
    requests,     \* requests that came in
    errors,       \* failed calls
    setup,        \* users made by the setup of the instance
    provisional,  \* users made by a first login and never tied to its subject
    strays,       \* users of these whose deletion failed
    everLinked,   \* rows user_identity ever had
    removals      \* a row of user_identity was removed

tables == <<role, identities, idp>>
history == <<setup, provisional, strays, everLinked, removals>>
bounds == <<requests, errors>>
vars == <<tables, mu, request, bounds, history>>

Users == 1 .. MaxUsers
NoUser == 0

Live(u) == role[u] \in {"admin", "user"}
NoUsers == \A u \in Users : ~Live(u)

\* AUTOINCREMENT: ids are not used again.
Unused == {u \in Users : role[u] = "unused"}
NextId == CHOOSE u \in Unused : \A v \in Unused : u <= v

Identity(u, p, s) == [user |-> u, provider |-> p, subject |-> s]

Identities == [user : Users, provider : Providers, subject : Subjects]

\* GetUserIdentity by provider and extern_uid, and by user and provider.
OfSubject(p, s) == {i \in identities : i.provider = p /\ i.subject = s}
OfUser(u, p) == {i \in identities : i.user = u /\ i.provider = p}

\* UNIQUE (provider, extern_uid) and UNIQUE (user_id, provider).
Conflicts(u, p, s) == OfSubject(p, s) \cup OfUser(u, p) # {}

Resting == {"idle", "created", "signedIn", "linked", "refused", "failed", "conflict"}

SignUpStages == {"list", "lock", "recheck", "createFirst", "gate", "create"}
SignInStages == {"find", "load", "ssoGate", "provision", "tie", "discard",
                 "discardLoser", "findWinner"}
LinkStages == {"own", "bind", "rebind", "winner", "reown", "answer"}

Init ==
    /\ role = [u \in Users |-> "unused"]
    /\ identities = {} /\ idp = FALSE
    /\ mu = Nobody
    /\ \E p \in Providers, s \in Subjects :
        request = [w \in Workers |-> [at |-> "idle", user |-> NoUser, provider |-> p, subject |-> s]]
    /\ requests = 0 /\ errors = 0
    /\ setup = {} /\ provisional = {} /\ strays = {} /\ everLinked = {} /\ removals = FALSE

-----------------------------------------------------------------------------

At(w, stage) == request[w].at = stage

Goto(w, stage) == request' = [request EXCEPT ![w].at = stage]

GotoAs(w, stage, u) == request' = [request EXCEPT ![w].at = stage, ![w].user = u]

\* The identity the request of w is about.
Mine(w) == Identity(request[w].user, request[w].provider, request[w].subject)

Begin(w, stage, u, p, s) ==
    /\ request[w].at \in Resting
    /\ request' = [request EXCEPT ![w] =
                     [at |-> stage, user |-> u, provider |-> p, subject |-> s]]
    /\ requests < MaxRequests /\ requests' = requests + 1
    /\ UNCHANGED <<tables, mu, errors, history>>

\* CreateUser, SignIn and CreateLinkedIdentity arrive.
SignUp(w) == Begin(w, "list", NoUser, request[w].provider, request[w].subject)
SignIn(w, p, s) == idp /\ Begin(w, "find", NoUser, p, s)
Link(w, u, p, s) == idp /\ Live(u) /\ Begin(w, "own", u, p, s)

Create(u, r) ==
    /\ u = NextId
    /\ role' = [role EXCEPT ![u] = r]

(* CreateUser by somebody who is not an administrator. *)

List(w) ==
    /\ At(w, "list")
    /\ Goto(w, IF NoUsers THEN "lock" ELSE "gate")
    /\ UNCHANGED <<tables, mu, bounds, history>>

\* CreateUserIfNoUsers
Lock(w) ==
    /\ At(w, "lock") /\ mu = Nobody
    /\ mu' = w
    /\ Goto(w, "recheck")
    /\ UNCHANGED <<tables, bounds, history>>

\* Mutant: the answer of the first look is kept.
RecheckSkipped(w) ==
    /\ At(w, "recheck")
    /\ Goto(w, "createFirst")
    /\ UNCHANGED <<tables, mu, bounds, history>>

Recheck(w) ==
    /\ At(w, "recheck")
    /\ Goto(w, IF NoUsers THEN "createFirst" ELSE "gate")
    /\ mu' = IF NoUsers THEN mu ELSE Nobody
    /\ UNCHANGED <<tables, bounds, history>>

CreateFirst(w) ==
    /\ At(w, "createFirst") /\ Unused # {}
    /\ Create(NextId, "admin")
    /\ setup' = setup \cup {NextId}
    /\ GotoAs(w, "created", NextId)
    /\ mu' = Nobody
    /\ UNCHANGED <<identities, idp, bounds, provisional, strays, everLinked, removals>>

\* DisallowUserRegistration and DisallowPasswordAuth
Gate(w) ==
    /\ At(w, "gate")
    /\ \E open \in BOOLEAN : Goto(w, IF open THEN "create" ELSE "refused")
    /\ UNCHANGED <<tables, mu, bounds, history>>

CreateUser(w) ==
    /\ At(w, "create") /\ Unused # {}
    /\ Create(NextId, "user")
    /\ GotoAs(w, "created", NextId)
    /\ UNCHANGED <<identities, idp, mu, bounds, history>>

(* SignIn through an identity provider: resolveSSOUser. *)

Find(w) ==
    /\ At(w, "find")
    /\ LET found == OfSubject(request[w].provider, request[w].subject) IN
        \/ found = {} /\ Goto(w, "ssoGate")
        \/ \E i \in found : GotoAs(w, "load", i.user)
    /\ UNCHANGED <<tables, mu, bounds, history>>

\* GetUser, for the linkage found first or that of the winner.
Load(w) ==
    /\ At(w, "load")
    /\ \/ Goto(w, "signedIn")
       \/ ~Live(request[w].user) /\ Goto(w, "failed")
    /\ UNCHANGED <<tables, mu, bounds, history>>

SSOGate(w) ==
    /\ At(w, "ssoGate")
    /\ \E open \in BOOLEAN : Goto(w, IF open THEN "provision" ELSE "refused")
    /\ UNCHANGED <<tables, mu, bounds, history>>

Provision(w) ==
    /\ At(w, "provision") /\ Unused # {}
    /\ Create(NextId, "user")
    /\ provisional' = provisional \cup {NextId}
    /\ GotoAs(w, "tie", NextId)
    /\ UNCHANGED <<identities, idp, mu, bounds, setup, strays, everLinked, removals>>

Insert(i) ==
    /\ identities' = identities \cup {i}
    /\ everLinked' = everLinked \cup {i}
    /\ UNCHANGED <<role, idp, setup, strays, removals>>

\* CreateUserIdentity; there is no foreign key on user_id.
Tie(w) ==
    /\ At(w, "tie")
    /\ LET i == Mine(w) IN
        IF Conflicts(i.user, i.provider, i.subject)
        THEN Goto(w, "discardLoser") /\ UNCHANGED <<tables, history>>
        ELSE /\ Insert(i)
             /\ provisional' = provisional \ {i.user}
             /\ Goto(w, "signedIn")
    /\ UNCHANGED <<mu, bounds>>

\* The transaction of the driver's DeleteUser.
Erase(u) ==
    /\ role' = [role EXCEPT ![u] = IF Live(u) THEN "deleted" ELSE @]
    /\ identities' = {i \in identities : i.user # u}
    /\ removals' = (removals \/ identities' # identities)
    /\ UNCHANGED <<idp, setup, provisional, strays, everLinked>>

\* Mutant: only the failed insert is cleaned up after, not the lost race.
DiscardFailedOnly(w) ==
    /\ request[w].at \in {"discard", "discardLoser"}
    /\ Goto(w, IF At(w, "discard") THEN "failed" ELSE "findWinner")
    /\ IF At(w, "discard") THEN Erase(request[w].user) ELSE UNCHANGED <<tables, history>>
    /\ UNCHANGED <<mu, bounds>>

\* "Best-effort cleanup": it runs under the context of the request, and its
\* error is ignored.
Discard(w) ==
    /\ request[w].at \in {"discard", "discardLoser"}
    /\ Goto(w, IF At(w, "discard") THEN "failed" ELSE "findWinner")
    /\ \/ Erase(request[w].user)
       \/ /\ strays' = strays \cup {request[w].user}
          /\ UNCHANGED <<tables, setup, provisional, everLinked, removals>>
    /\ UNCHANGED <<mu, bounds>>

\* Mutant: any identity of that provider will do.
FindWinnerAny(w) ==
    /\ At(w, "findWinner")
    /\ LET found == {i \in identities : i.provider = request[w].provider} IN
        \/ found = {} /\ Goto(w, "conflict")
        \/ \E i \in found : GotoAs(w, "load", i.user)
    /\ UNCHANGED <<tables, mu, bounds, history>>

\* "load the winning linkage's user"
FindWinner(w) ==
    /\ At(w, "findWinner")
    /\ LET found == OfSubject(request[w].provider, request[w].subject) IN
        \/ found = {} /\ Goto(w, "conflict")
        \/ \E i \in found : GotoAs(w, "load", i.user)
    /\ UNCHANGED <<tables, mu, bounds, history>>

(* CreateLinkedIdentity: bindSSOIdentityToUser. *)

\* existingForProvider, looked at before and after the insert.
Owned(w, none) ==
    LET own == OfUser(request[w].user, request[w].provider) IN
    Goto(w, IF own = {} THEN none
            ELSE IF Mine(w) \in own THEN "answer" ELSE "refused")

Own(w) ==
    /\ At(w, "own")
    /\ Owned(w, "bind")
    /\ UNCHANGED <<tables, mu, bounds, history>>

Bind(w) ==
    /\ At(w, "bind")
    /\ LET i == Mine(w) IN
        IF Conflicts(i.user, i.provider, i.subject)
        THEN Goto(w, "rebind") /\ UNCHANGED <<tables, history>>
        ELSE Insert(i) /\ provisional' = provisional \ {i.user} /\ Goto(w, "answer")
    /\ UNCHANGED <<mu, bounds>>

\* Mutant: "inserting a user_identity row can only violate
\* UNIQUE(provider, extern_uid)".
RebindSubjectOnly(w) ==
    /\ At(w, "rebind")
    /\ LET found == OfSubject(request[w].provider, request[w].subject) IN
        Goto(w, IF found = {} THEN "conflict"
                ELSE IF Mine(w) \in found THEN "answer" ELSE "winner")
    /\ UNCHANGED <<tables, mu, bounds, history>>

\* getLinkedSSOUser: the linkage, ...  (Without a user behind it, "answer"
\* fails instead, as the linkage went with its user.)
Rebind(w) ==
    /\ At(w, "rebind")
    /\ LET found == OfSubject(request[w].provider, request[w].subject) IN
        Goto(w, IF found = {} THEN "reown"
                ELSE IF Mine(w) \in found THEN "answer" ELSE "winner")
    /\ UNCHANGED <<tables, mu, bounds, history>>

\* ... then its user, who is somebody else or is gone.
Winner(w) ==
    /\ At(w, "winner")
    /\ \E outcome \in {"refused", "failed"} : Goto(w, outcome)
    /\ UNCHANGED <<tables, mu, bounds, history>>

Reown(w) ==
    /\ At(w, "reown")
    /\ Owned(w, "conflict")
    /\ UNCHANGED <<tables, mu, bounds, history>>

\* The row for the response.
Answer(w) ==
    /\ At(w, "answer")
    /\ Goto(w, IF OfUser(request[w].user, request[w].provider) = {} THEN "failed"
               ELSE "linked")
    /\ UNCHANGED <<tables, mu, bounds, history>>

(* Requests that are over after one call that matters. *)

\* DeleteLinkedIdentity
Unlink(u, p) ==
    /\ OfUser(u, p) # {}
    /\ identities' = identities \ OfUser(u, p)
    /\ removals' = TRUE
    /\ UNCHANGED <<role, idp, mu, request, bounds, setup, provisional, strays, everLinked>>

\* DeleteUser, by the user or an administrator.
DeleteUser(u) ==
    /\ Live(u)
    /\ Erase(u)
    /\ UNCHANGED <<mu, request, bounds>>

\* CreateIdentityProvider, by an administrator.
Configure ==
    /\ ~idp /\ \E u \in Users : role[u] = "admin"
    /\ idp' = TRUE
    /\ UNCHANGED <<role, identities, mu, request, bounds, history>>

\* A call fails, or its context is cancelled; deferred calls still run.
Fail(w) ==
    /\ errors < MaxErrors /\ errors' = errors + 1
    /\ request[w].at \notin Resting \cup {"lock", "discard", "discardLoser"}
    /\ Goto(w, IF At(w, "tie") THEN "discard" ELSE "failed")
    /\ mu' = IF mu = w THEN Nobody ELSE mu
    /\ UNCHANGED <<tables, requests, history>>

SignUpStep(w) ==
    SignUp(w) \/ List(w) \/ Lock(w) \/ Recheck(w) \/ CreateFirst(w) \/ Gate(w) \/ CreateUser(w)

SignInStep(w) ==
    \/ \E p \in Providers, s \in Subjects : SignIn(w, p, s)
    \/ Find(w) \/ Load(w) \/ SSOGate(w) \/ Provision(w) \/ Tie(w)
    \/ Discard(w) \/ FindWinner(w)

LinkStep(w) ==
    \/ \E u \in Users, p \in Providers, s \in Subjects : Link(w, u, p, s)
    \/ Own(w) \/ Bind(w) \/ Rebind(w) \/ Winner(w) \/ Reown(w) \/ Answer(w)

Next ==
    \/ \E w \in Workers : SignUpStep(w) \/ SignInStep(w) \/ LinkStep(w) \/ Fail(w)
    \/ \E u \in Users, p \in Providers : Unlink(u, p)
    \/ \E u \in Users : DeleteUser(u)
    \/ Configure

Spec == Init /\ [][Next]_vars

-----------------------------------------------------------------------------
(* Properties *)

TypeOK ==
    /\ role \in [Users -> {"unused", "admin", "user", "deleted"}]
    /\ identities \subseteq Identities /\ everLinked \subseteq Identities
    /\ idp \in BOOLEAN /\ removals \in BOOLEAN
    /\ mu \in Workers \cup {Nobody}
    /\ \A w \in Workers : mu = w <=> request[w].at \in {"recheck", "createFirst"}
    /\ request \in [Workers -> [at : Resting \cup SignUpStages \cup SignInStages \cup LinkStages,
                                user : Users \cup {NoUser},
                                provider : Providers, subject : Subjects]]
    /\ requests \in 0 .. MaxRequests /\ errors \in 0 .. MaxErrors
    /\ setup \subseteq Users /\ provisional \subseteq Users /\ strays \subseteq Users

\* "The in-process lock prevents concurrent first-user setup requests from
\* creating multiple admins": the setup leaves one administrator at most.
OneSetupAdmin == \A u, v \in setup : Live(u) /\ Live(v) => u = v

\* A provider's account only ever lets its holder in as a user it was linked
\* to, whoever won the race of two first logins, and a linkage that is reported
\* as created was.
LoginIsLinked ==
    \A w \in Workers : request[w].at \in {"signedIn", "linked"} => Mine(w) \in everLinked

\* Requests, users and linkages are what the handlers make of them, and so are the logins.
LinkedLogins == TypeOK /\ LoginIsLinked

\* "The provisional user row has no linkage and should not remain": only the
\* login that made it keeps one, unless the deletion it tried has failed.
NoneLeftOver ==
    \A u \in provisional \ strays :
        Live(u) => \E w \in Workers :
                      request[w].user = u /\ request[w].at \in {"tie", "discard", "discardLoser"}

\* A request that loses a race finds out to whom, unless that linkage is gone
\* again, or what was in its way was a linkage of its own user, whom it could not
\* delete: "conflict reported but no winning row found" takes one of these.
LoserFindsWinner ==
    \A w \in Workers : At(w, "conflict") => removals \/ request[w].user \in strays

\* The race of two first logins leaves nothing behind but users whose deletion
\* failed, and its loser is let in as the winner.
RaceIsResolved == NoneLeftOver /\ LoserFindsWinner

=============================================================================
