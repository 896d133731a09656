---------------------------- MODULE AccountsProofs ----------------------------
(***************************************************************************)
(* What Accounts guarantees for any number of requests, users, providers   *)
(* and failing calls, the deletion of a provisional user among them:       *)
(* LinkedLogins, OneSetupAdmin and RaceIsResolved.                         *)
(***************************************************************************)
EXTENDS Accounts, FiniteSetTheorems, WellFoundedInduction, TLAPS

Stages == Resting \cup SignUpStages \cup SignInStages \cup LinkStages

Requests == [at : Stages, user : Users \cup {NoUser},
             provider : Providers, subject : Subjects]

-----------------------------------------------------------------------------
(* Ids *)

\* A set of natural numbers has a least element: a minimal one of the intervals
\* that end in it.
LEMMA LeastNatural ==
    ASSUME NEW T, T \subseteq Nat, T # {}
    PROVE  \E x \in T : \A y \in T : x <= y
<1> DEFINE Below == {0 .. n : n \in T}
           Smaller == StrictSubsetOrdering(Nat)
<1>1. IsWellFoundedOn(Smaller, FiniteSubsetsOf(Nat))
  BY FS_StrictSubsetOrderingWellFounded
<1>2. Below \subseteq FiniteSubsetsOf(Nat)
  <2>1. ASSUME NEW n \in T PROVE 0 .. n \in FiniteSubsetsOf(Nat)
    <3>1. IsFiniteSet(0 .. n)
      BY FS_Interval
    <3> QED
      BY <3>1 DEF FiniteSubsetsOf
  <2> QED
    BY <2>1
<1>3. Below # {}
  OBVIOUS
<1>4. \E S \in Below : \A U \in Below : ~(<<U, S>> \in Smaller)
  <2> HIDE DEF Below, Smaller
  <2> QED
    BY <1>1, <1>2, <1>3, WFMin
<1>5. PICK x \in T : \A U \in Below : ~(<<U, 0 .. x>> \in Smaller)
  BY <1>4
<1>6. ASSUME NEW y \in T, y < x PROVE FALSE
  <2>1. /\ 0 .. y \subseteq Nat /\ 0 .. x \subseteq Nat
        /\ 0 .. y \subseteq 0 .. x /\ 0 .. y # 0 .. x
    BY <1>6
  <2> QED
    BY <1>5, <2>1 DEF StrictSubsetOrdering
<1> QED
  BY <1>6

\* The id a new user gets has never been used.
LEMMA NewIdIsUnused == Unused # {} => NextId \in Unused
<1> SUFFICES ASSUME Unused # {} PROVE NextId \in Unused
  OBVIOUS
<1>1. Unused \subseteq Nat
  BY AccountsConstants DEF AccountsConstants, Unused, Users
<1>2. \E u \in Unused : \A v \in Unused : u <= v
  BY <1>1, LeastNatural
<1> QED
  BY <1>2 DEF NextId

-----------------------------------------------------------------------------
(* Moves of a request *)

\* A request that goes on to another stage keeps what it is about, and the
\* others do not move.
LEMMA GotoMoves ==
    ASSUME request \in [Workers -> Requests], NEW w \in Workers, NEW s \in Stages, Goto(w, s)
    PROVE  /\ request' \in [Workers -> Requests]
           /\ request'[w].at = s /\ request'[w].user = request[w].user
           /\ request'[w].provider = request[w].provider
           /\ request'[w].subject = request[w].subject
           /\ \A x \in Workers \ {w} : request'[x] = request[x]
BY DEF Goto, Requests

LEMMA GotoAsMoves ==
    ASSUME request \in [Workers -> Requests], NEW w \in Workers, NEW s \in Stages,
           NEW u \in Users, GotoAs(w, s, u)
    PROVE  /\ request' \in [Workers -> Requests]
           /\ request'[w].at = s /\ request'[w].user = u
           /\ request'[w].provider = request[w].provider
           /\ request'[w].subject = request[w].subject
           /\ \A x \in Workers \ {w} : request'[x] = request[x]
BY DEF GotoAs, Requests

LEMMA BeginMoves ==
    ASSUME request \in [Workers -> Requests], NEW w \in Workers, NEW s \in Stages,
           NEW u \in Users \cup {NoUser}, NEW p \in Providers, NEW j \in Subjects,
           Begin(w, s, u, p, j)
    PROVE  /\ request' \in [Workers -> Requests]
           /\ request'[w].at = s /\ request'[w].user = u
           /\ request'[w].provider = p /\ request'[w].subject = j
           /\ \A x \in Workers \ {w} : request'[x] = request[x]
BY DEF Begin, Requests

-----------------------------------------------------------------------------
(* Type correctness *)

\* Stages at which the request is about a user who exists or existed.
OfSomebody == LinkStages \cup {"tie", "discard", "discardLoser", "load", "signedIn", "linked"}

\* The types with what they rest on: the ids on record are those of users, a
\* linkage was made, and a request knows the user it is about.
AccountsTypes ==
    /\ TypeOK
    /\ identities \subseteq everLinked
    /\ \A u \in setup \cup provisional : role[u] # "unused"
    /\ \A w \in Workers : request[w].at \in OfSomebody => request[w].user \in Users

LEMMA InitTypes == Init => AccountsTypes
<1> SUFFICES ASSUME Init PROVE AccountsTypes
  OBVIOUS
<1>1. PICK p \in Providers, s \in Subjects :
        request = [w \in Workers |-> [at |-> "idle", user |-> NoUser, provider |-> p, subject |-> s]]
  BY DEF Init
<1>2. \A w \in Workers : request[w].at = "idle" /\ mu # w
  BY <1>1, AccountsConstants DEF AccountsConstants, Init
<1>3. request \in [Workers -> Requests]
  BY <1>1 DEF Requests, Stages, Resting
<1>4. TypeOK
  <2>1. role \in [Users -> {"unused", "admin", "user", "deleted"}]
    BY DEF Init
  <2>2. requests \in 0 .. MaxRequests /\ errors \in 0 .. MaxErrors
    BY AccountsConstants DEF AccountsConstants, Init
  <2> QED
    BY <1>2, <1>3, <2>1, <2>2 DEF Init, TypeOK, Requests, Stages
<1> QED
  BY <1>2, <1>4 DEF Init, AccountsTypes, OfSomebody, LinkStages

\* What a step of sign-up does to the types.
LEMMA SignUpTypes ==
    ASSUME AccountsTypes, NEW w \in Workers, SignUpStep(w)
    PROVE  AccountsTypes'
<1> USE AccountsConstants DEF AccountsConstants, AccountsTypes, TypeOK, tables, history, bounds
<1>0. request \in [Workers -> Requests] /\ w # Nobody
  BY DEF Requests, Stages
<1> DEFINE Moved(s) == /\ request' \in [Workers -> Requests]
                       /\ request'[w].at = s
                       /\ \A x \in Workers \ {w} : request'[x] = request[x]
<1>1. CASE SignUp(w)
  <2>1. /\ request[w].provider \in Providers /\ request[w].subject \in Subjects
        /\ "list" \in Stages /\ NoUser \in Users \cup {NoUser}
    BY DEF Stages, SignUpStages
  <2>2. Moved("list")
    <3> HIDE DEF AccountsTypes, TypeOK, tables, history, bounds
    <3>1. Begin(w, "list", NoUser, request[w].provider, request[w].subject)
      BY <1>1 DEF SignUp
    <3> QED
      BY <1>0, <2>1, <3>1, BeginMoves
  <2> QED
    BY <1>1, <2>2 DEF SignUp, Begin, Requests, Stages, Resting, OfSomebody, LinkStages
<1>2. CASE List(w)
  <2>1. PICK s \in {"lock", "gate"} : Goto(w, s)
    BY <1>2 DEF List
  <2>2. Moved(s)
    BY <1>0, <2>1, GotoMoves DEF Stages, SignUpStages
  <2> QED
    BY <1>2, <2>2 DEF List, At, Requests, Stages, OfSomebody, LinkStages
<1>3. CASE Lock(w)
  <2>1. Moved("recheck")
    BY <1>0, <1>3, GotoMoves DEF Lock, Stages, SignUpStages
  <2> QED
    BY <1>0, <1>3, <2>1 DEF Lock, At, Requests, Stages, OfSomebody, LinkStages
<1>4. CASE Recheck(w)
  <2>1. PICK s \in {"createFirst", "gate"} :
          Goto(w, s) /\ mu' = IF s = "createFirst" THEN mu ELSE Nobody
    BY <1>4 DEF Recheck
  <2>2. Moved(s)
    BY <1>0, <2>1, GotoMoves DEF Stages, SignUpStages
  <2> QED
    BY <1>0, <1>4, <2>1, <2>2 DEF Recheck, At, Requests, Stages, OfSomebody, LinkStages
<1>5. CASE CreateFirst(w)
  <2>1. NextId \in Users /\ role[NextId] = "unused"
    BY <1>5, NewIdIsUnused DEF CreateFirst, Unused
  <2>2. Moved("created")
    BY <1>0, <1>5, <2>1, GotoAsMoves DEF CreateFirst, Stages, Resting
  <2> QED
    BY <1>0, <1>5, <2>1, <2>2
       DEF CreateFirst, Create, At, Requests, Stages, OfSomebody, LinkStages
<1>6. CASE Gate(w)
  <2>1. PICK s \in {"create", "refused"} : Goto(w, s)
    BY <1>6 DEF Gate
  <2>2. Moved(s)
    BY <1>0, <2>1, GotoMoves DEF Stages, SignUpStages, Resting
  <2> QED
    BY <1>6, <2>2 DEF Gate, At, Requests, Stages, OfSomebody, LinkStages
<1>7. CASE CreateUser(w)
  <2>1. NextId \in Users /\ role[NextId] = "unused"
    BY <1>7, NewIdIsUnused DEF CreateUser, Unused
  <2>2. Moved("created")
    BY <1>0, <1>7, <2>1, GotoAsMoves DEF CreateUser, Stages, Resting
  <2> QED
    BY <1>0, <1>7, <2>1, <2>2
       DEF CreateUser, Create, At, Requests, Stages, OfSomebody, LinkStages
<1> QED
  BY <1>1, <1>2, <1>3, <1>4, <1>5, <1>6, <1>7 DEF SignUpStep

\* Deleting a user changes no id.
LEMMA EraseTypes ==
    ASSUME AccountsTypes, NEW u, Erase(u)
    PROVE  /\ role' \in [Users -> {"unused", "admin", "user", "deleted"}]
           /\ identities' \subseteq identities /\ removals' \in BOOLEAN
           /\ idp' = idp /\ everLinked' = everLinked
           /\ setup' = setup /\ provisional' = provisional /\ strays' = strays
           /\ \A v \in Users : role'[v] = "unused" <=> role[v] = "unused"
           /\ \A v \in Users : v # u => role'[v] = role[v]
           /\ u \in Users => role'[u] \notin {"admin", "user"}
           /\ identities' # identities => removals'
           /\ removals => removals'
           /\ \A i \in identities : i.user # u => i \in identities'
           /\ \A i \in identities' : i.user # u
BY DEF AccountsTypes, TypeOK, Erase, Live

\* What a step of a login through an identity provider does to them.
LEMMA SignInTypes ==
    ASSUME AccountsTypes, NEW w \in Workers, SignInStep(w)
    PROVE  AccountsTypes'
<1> USE AccountsConstants DEF AccountsConstants, AccountsTypes, TypeOK, tables, history, bounds
<1>0. request \in [Workers -> Requests] /\ w # Nobody
  BY DEF Requests, Stages
<1> DEFINE Moved(s) == /\ request' \in [Workers -> Requests]
                       /\ request'[w].at = s
                       /\ \A x \in Workers \ {w} : request'[x] = request[x]
<1>1. ASSUME NEW p \in Providers, NEW s \in Subjects, SignIn(w, p, s) PROVE AccountsTypes'
  <2>1. Moved("find")
    BY <1>0, <1>1, BeginMoves DEF SignIn, Stages, SignInStages
  <2> QED
    BY <1>1, <2>1 DEF SignIn, Begin, Requests, Stages, Resting, OfSomebody, LinkStages
<1>2. ASSUME At(w, "find") \/ At(w, "findWinner"),
             NEW s \in {"ssoGate", "conflict"},
             \/ Goto(w, s)
             \/ \E i \in identities : GotoAs(w, "load", i.user),
             UNCHANGED <<tables, mu, bounds, history>>
      PROVE  AccountsTypes'
  <2>1. CASE Goto(w, s)
    <3>1. Moved(s)
      BY <1>0, <2>1, GotoMoves DEF Stages, SignInStages, Resting
    <3> QED
      BY <1>2, <3>1 DEF At, Requests, Stages, OfSomebody, LinkStages
  <2>2. ASSUME NEW i \in identities, GotoAs(w, "load", i.user) PROVE AccountsTypes'
    <3>1. i.user \in Users
      BY DEF Identities
    <3>2. Moved("load") /\ request'[w].user = i.user
      <4> HIDE DEF AccountsTypes, TypeOK, tables, history, bounds
      <4>1. "load" \in Stages
        BY DEF Stages, SignInStages
      <4> QED
        BY <1>0, <2>2, <3>1, <4>1, GotoAsMoves
    <3> QED
      BY <1>2, <3>1, <3>2 DEF At, Requests, Stages, OfSomebody, LinkStages
  <2> QED
    BY <1>2, <2>1, <2>2
<1>3. CASE Find(w)
  BY <1>2, <1>3 DEF Find, OfSubject
<1>4. CASE Load(w)
  <2>1. PICK s \in {"signedIn", "failed"} : Goto(w, s)
    BY <1>4 DEF Load
  <2>2. Moved(s) /\ request'[w].user = request[w].user
    BY <1>0, <2>1, GotoMoves DEF Stages, Resting
  <2> QED
    BY <1>4, <2>2 DEF Load, At, Requests, Stages, OfSomebody, LinkStages
<1>5. CASE SSOGate(w)
  <2>1. PICK s \in {"provision", "refused"} : Goto(w, s)
    BY <1>5 DEF SSOGate
  <2>2. Moved(s)
    BY <1>0, <2>1, GotoMoves DEF Stages, SignInStages, Resting
  <2> QED
    BY <1>5, <2>2 DEF SSOGate, At, Requests, Stages, OfSomebody, LinkStages
<1>6. CASE Provision(w)
  <2>1. NextId \in Users /\ role[NextId] = "unused"
    BY <1>6, NewIdIsUnused DEF Provision, Unused
  <2>2. Moved("tie") /\ request'[w].user = NextId
    <3>1. "tie" \in Stages
      BY DEF Stages, SignInStages
    <3>2. GotoAs(w, "tie", NextId)
      BY <1>6 DEF Provision
    <3> QED
      BY ONLY <1>0, <2>1, <3>1, <3>2, GotoAsMoves
  <2> QED
    BY <1>0, <1>6, <2>1, <2>2
       DEF Provision, Create, At, Requests, Stages, OfSomebody, LinkStages
<1>7. CASE Tie(w)
  <2>1. Mine(w) \in Identities
    BY <1>0, <1>7 DEF Tie, At, Mine, Identity, Identities, Requests, OfSomebody
  <2>2. PICK s \in {"discardLoser", "signedIn"} : Goto(w, s)
    BY <1>7 DEF Tie
  <2>3. Moved(s) /\ request'[w].user = request[w].user
    BY <1>0, <2>2, GotoMoves DEF Stages, SignInStages, Resting
  <2> QED
    BY <1>7, <2>1, <2>3
       DEF Tie, Insert, At, Requests, Stages, OfSomebody, LinkStages
<1>8. CASE Discard(w)
  <2>1. PICK s \in {"failed", "findWinner"} : Goto(w, s)
    BY <1>8 DEF Discard
  <2>2. Moved(s) /\ request'[w].user = request[w].user
    BY <1>0, <2>1, GotoMoves DEF Stages, SignInStages, Resting
  <2>3. \/ Erase(request[w].user)
        \/ /\ strays' = strays \cup {request[w].user}
           /\ UNCHANGED <<tables, setup, provisional, everLinked, removals>>
    BY <1>8 DEF Discard
  <2>5. strays' \subseteq Users
    <3>1. request[w].user \in Users
      BY <1>8 DEF Discard, OfSomebody
    <3> QED
      BY <2>3, <3>1 DEF Erase
  <2>4. /\ role' \in [Users -> {"unused", "admin", "user", "deleted"}]
        /\ identities' \subseteq identities /\ removals' \in BOOLEAN
        /\ idp' = idp /\ everLinked' = everLinked
        /\ setup' = setup /\ provisional' = provisional
        /\ \A v \in Users : role'[v] = "unused" <=> role[v] = "unused"
    BY <2>3, EraseTypes
  <2> QED
    BY <1>8, <2>2, <2>4, <2>5 DEF Discard, At, Requests, Stages, OfSomebody, LinkStages
<1>9. CASE FindWinner(w)
  BY <1>2, <1>9 DEF FindWinner, OfSubject
<1> QED
  BY <1>1, <1>3, <1>4, <1>5, <1>6, <1>7, <1>8, <1>9 DEF SignInStep

\* What a step of linking does to them.
LEMMA LinkTypes ==
    ASSUME AccountsTypes, NEW w \in Workers, LinkStep(w)
    PROVE  AccountsTypes'
<1> USE AccountsConstants DEF AccountsConstants, AccountsTypes, TypeOK, tables, history, bounds
<1>0. request \in [Workers -> Requests] /\ w # Nobody
  BY DEF Requests, Stages
<1>1. ASSUME NEW u \in Users, NEW p \in Providers, NEW s \in Subjects, Link(w, u, p, s)
      PROVE  AccountsTypes'
  <2>1. /\ request' \in [Workers -> Requests]
        /\ request'[w].at = "own" /\ request'[w].user = u
        /\ \A x \in Workers \ {w} : request'[x] = request[x]
    <3>1. "own" \in Stages /\ u \in Users \cup {NoUser}
      BY DEF Stages, LinkStages
    <3>2. Begin(w, "own", u, p, s)
      BY <1>1 DEF Link
    <3> QED
      BY ONLY <1>0, <3>1, <3>2, BeginMoves, p \in Providers, s \in Subjects
  <2> QED
    BY <1>1, <2>1 DEF Link, Begin, Requests, Stages, Resting, OfSomebody, LinkStages
<1>2. ASSUME request[w].at \in LinkStages, NEW s \in LinkStages \cup {"refused", "conflict", "failed", "linked"},
             Goto(w, s), UNCHANGED <<tables, mu, bounds, history>>
      PROVE  AccountsTypes'
  <2>1. /\ request' \in [Workers -> Requests]
        /\ request'[w].at = s /\ request'[w].user = request[w].user
        /\ \A x \in Workers \ {w} : request'[x] = request[x]
    BY <1>0, <1>2, GotoMoves DEF Stages, Resting
  <2> QED
    BY <1>2, <2>1 DEF Requests, Stages, OfSomebody, LinkStages
<1>3. CASE Own(w) \/ Reown(w)
  BY <1>2, <1>3 DEF Own, Reown, Owned, At, LinkStages
<1>4. CASE Bind(w)
  <2>1. CASE Conflicts(Mine(w).user, Mine(w).provider, Mine(w).subject)
    BY <1>2, <1>4, <2>1 DEF Bind, At, LinkStages
  <2>2. CASE ~Conflicts(Mine(w).user, Mine(w).provider, Mine(w).subject)
    <3>1. Mine(w) \in Identities
      BY <1>0, <1>4 DEF Bind, At, Mine, Identity, Identities, Requests, OfSomebody, LinkStages
    <3>2. /\ request' \in [Workers -> Requests]
          /\ request'[w].at = "answer" /\ request'[w].user = request[w].user
          /\ \A x \in Workers \ {w} : request'[x] = request[x]
      BY <1>0, <1>4, <2>2, GotoMoves DEF Bind, Stages, LinkStages
    <3> QED
      BY <1>4, <2>2, <3>1, <3>2
         DEF Bind, Insert, At, Requests, Stages, OfSomebody, LinkStages
  <2> QED
    BY <2>1, <2>2
<1>5. CASE Rebind(w)
  BY <1>2, <1>5 DEF Rebind, At, LinkStages
<1>6. CASE Winner(w)
  BY <1>2, <1>6 DEF Winner, At, LinkStages
<1>7. CASE Answer(w)
  BY <1>2, <1>7 DEF Answer, At, LinkStages
<1> QED
  BY <1>1, <1>3, <1>4, <1>5, <1>6, <1>7 DEF LinkStep

\* A failing call does not disturb them, ...
LEMMA FailTypes ==
    ASSUME AccountsTypes, NEW w \in Workers, Fail(w)
    PROVE  AccountsTypes'
<1> USE AccountsConstants DEF AccountsConstants, AccountsTypes, TypeOK, tables, history, bounds
<1>0. request \in [Workers -> Requests] /\ w # Nobody
  BY DEF Requests, Stages
<1>1. PICK s \in {"discard", "failed"} : Goto(w, s) /\ (s = "discard" => At(w, "tie"))
  BY DEF Fail
<1>2. /\ request' \in [Workers -> Requests]
      /\ request'[w].at = s /\ request'[w].user = request[w].user
      /\ \A x \in Workers \ {w} : request'[x] = request[x]
  BY <1>0, <1>1, GotoMoves DEF Stages, SignInStages, Resting
<1>3. mu' = IF request[w].at \in {"recheck", "createFirst"} THEN Nobody ELSE mu
  BY DEF Fail
<1> QED
  BY <1>0, <1>1, <1>2, <1>3 DEF Fail, At, Requests, Stages, OfSomebody, LinkStages

\* ... nor do the requests of one step.
LEMMA OtherTypes ==
    ASSUME AccountsTypes,
           \/ \E u \in Users, p \in Providers : Unlink(u, p)
           \/ \E u \in Users : DeleteUser(u)
           \/ Configure
           \/ UNCHANGED vars
    PROVE  AccountsTypes'
<1> USE DEF AccountsTypes, TypeOK, tables, history, bounds
<1>1. ASSUME NEW u \in Users, NEW p \in Providers, Unlink(u, p) PROVE AccountsTypes'
  BY <1>1 DEF Unlink
<1>2. ASSUME NEW u \in Users, DeleteUser(u) PROVE AccountsTypes'
  <2>1. /\ role' \in [Users -> {"unused", "admin", "user", "deleted"}]
        /\ identities' \subseteq identities /\ removals' \in BOOLEAN
        /\ idp' = idp /\ everLinked' = everLinked
        /\ setup' = setup /\ provisional' = provisional /\ strays' = strays
        /\ \A v \in Users : role'[v] = "unused" <=> role[v] = "unused"
    BY <1>2, EraseTypes DEF DeleteUser
  <2> QED
    BY <1>2, <2>1 DEF DeleteUser
<1>3. CASE Configure
  BY <1>3 DEF Configure
<1>4. CASE UNCHANGED vars
  BY <1>4 DEF vars
<1> QED
  BY <1>1, <1>2, <1>3, <1>4

LEMMA NextTypes == AccountsTypes /\ [Next]_vars => AccountsTypes'
BY SignUpTypes, SignInTypes, LinkTypes, FailTypes, OtherTypes DEF Next

\* Every handler respects the types of the rows and of the requests, and the
\* mutex of Store.CreateUserIfNoUsers is held by whom it protects.
THEOREM AccountsTypeCorrect == Spec => []AccountsTypes
BY InitTypes, NextTypes, PTL DEF Spec

-----------------------------------------------------------------------------
(* Logins *)

\* A login or a linkage is about to succeed, or has succeeded.
Granted == {"load", "signedIn", "answer", "linked"}

GrantsAreLinked == \A w \in Workers : request[w].at \in Granted => Mine(w) \in everLinked

\* A step that moves a request into one of these stages finds or makes the
\* linkage, and a linkage that was there is never forgotten.
LEMMA NextGrants ==
    ASSUME AccountsTypes, GrantsAreLinked, [Next]_vars
    PROVE  GrantsAreLinked'
<1> USE DEF AccountsTypes, tables, history, bounds, At
<1>0. request \in [Workers -> Requests]
  BY DEF TypeOK, Requests, Stages
<1> DEFINE Others(w) == \A x \in Workers \ {w} : request'[x] = request[x]
           Same(w) == /\ request'[w].user = request[w].user
                      /\ request'[w].provider = request[w].provider
                      /\ request'[w].subject = request[w].subject
<1>1. ASSUME NEW w \in Workers, Others(w), everLinked \subseteq everLinked',
             request'[w].at \notin Granted \/ Mine(w)' \in everLinked'
      PROVE  GrantsAreLinked'
  BY <1>1 DEF GrantsAreLinked, Mine
<1>2. ASSUME NEW w \in Workers, NEW s \in Stages, Goto(w, s), everLinked \subseteq everLinked',
             s \in Granted => Mine(w) \in everLinked'
      PROVE  GrantsAreLinked'
  <2>1. Others(w) /\ Same(w) /\ request'[w].at = s
    BY <1>0, <1>2, GotoMoves
  <2> QED
    BY <1>1, <1>2, <2>1 DEF Mine
<1>3. ASSUME NEW w \in Workers, NEW s \in Stages, NEW u \in Users, GotoAs(w, s, u),
             everLinked' = everLinked,
             s \in Granted => Identity(u, request[w].provider, request[w].subject) \in everLinked
      PROVE  GrantsAreLinked'
  <2>1. /\ Others(w) /\ request'[w].at = s /\ request'[w].user = u
        /\ request'[w].provider = request[w].provider
        /\ request'[w].subject = request[w].subject
    BY <1>0, <1>3, GotoAsMoves
  <2> QED
    BY <1>1, <1>3, <2>1 DEF Mine
<1>4. ASSUME NEW w \in Workers, NEW s \in {"list", "find", "own"}, NEW u, NEW p, NEW j,
             Begin(w, s, u, p, j)
      PROVE  GrantsAreLinked'
  <2>1. Others(w) /\ request'[w].at = s
    BY <1>0, <1>4 DEF Begin
  <2> QED
    BY <1>1, <1>4, <2>1 DEF Begin, Granted
<1>5. ASSUME NEW w \in Workers, SignUpStep(w) PROVE GrantsAreLinked'
  <2>1. CASE SignUp(w)
    BY <1>4, <2>1 DEF SignUp
  <2>2. CASE List(w) \/ Lock(w) \/ Recheck(w) \/ Gate(w)
    <3>1. PICK s \in SignUpStages \cup {"refused"} : Goto(w, s)
      BY <2>2 DEF List, Lock, Recheck, Gate, SignUpStages
    <3> QED
      BY <1>2, <2>2, <3>1
         DEF List, Lock, Recheck, Gate, Granted, Stages, SignUpStages, Resting
  <2>3. CASE CreateFirst(w) \/ CreateUser(w)
    <3>1. NextId \in Users /\ GotoAs(w, "created", NextId) /\ everLinked' = everLinked
      BY <2>3, NewIdIsUnused DEF CreateFirst, CreateUser, Unused
    <3> QED
      BY <1>3, <3>1 DEF Granted, Stages, Resting
  <2> QED
    BY <1>5, <2>1, <2>2, <2>3 DEF SignUpStep
<1>6. ASSUME NEW w \in Workers, SignInStep(w) PROVE GrantsAreLinked'
  <2>1. ASSUME NEW p \in Providers, NEW s \in Subjects, SignIn(w, p, s) PROVE GrantsAreLinked'
    BY <1>4, <2>1 DEF SignIn
  <2>2. ASSUME NEW s \in {"ssoGate", "conflict"}, everLinked' = everLinked,
               \/ Goto(w, s)
               \/ \E i \in OfSubject(request[w].provider, request[w].subject) :
                     GotoAs(w, "load", i.user)
        PROVE  GrantsAreLinked'
    <3>1. CASE Goto(w, s)
      BY <1>2, <2>2, <3>1 DEF Granted, Stages, SignInStages, Resting
    <3>2. ASSUME NEW i \in OfSubject(request[w].provider, request[w].subject),
                 GotoAs(w, "load", i.user)
          PROVE  GrantsAreLinked'
      <4>1. i \in everLinked /\ i \in Identities /\ i.user \in Users
        BY DEF OfSubject, TypeOK, Identities
      <4>2. i = Identity(i.user, request[w].provider, request[w].subject)
        BY <4>1 DEF OfSubject, Identity, Identities
      <4>3. "load" \in Stages
        BY DEF Stages, SignInStages
      <4> QED
        BY <1>3, <2>2, <3>2, <4>1, <4>2, <4>3
    <3> QED
      BY <2>2, <3>1, <3>2
  <2>3. CASE Find(w) \/ FindWinner(w)
    BY <2>2, <2>3 DEF Find, FindWinner
  <2>4. CASE Load(w)
    <3>1. PICK s \in {"signedIn", "failed"} : Goto(w, s)
      BY <2>4 DEF Load
    <3>2. Mine(w) \in everLinked
      BY <2>4 DEF Load, GrantsAreLinked, Granted
    <3> QED
      BY <1>2, <2>4, <3>1, <3>2 DEF Load, Stages, Resting
  <2>5. CASE SSOGate(w)
    <3>1. PICK s \in {"provision", "refused"} : Goto(w, s)
      BY <2>5 DEF SSOGate
    <3> QED
      BY <1>2, <2>5, <3>1 DEF SSOGate, Granted, Stages, SignInStages, Resting
  <2>6. CASE Provision(w)
    <3>1. NextId \in Users /\ GotoAs(w, "tie", NextId) /\ everLinked' = everLinked
      BY <2>6, NewIdIsUnused DEF Provision, Unused
    <3> QED
      BY <1>3, <3>1 DEF Granted, Stages, SignInStages
  <2>7. CASE Tie(w)
    <3>1. CASE Goto(w, "discardLoser") /\ UNCHANGED <<tables, history>>
      BY <1>2, <3>1 DEF Granted, Stages, SignInStages
    <3>2. CASE Insert(Mine(w)) /\ Goto(w, "signedIn")
      BY <1>2, <3>2 DEF Insert, Stages, Resting
    <3> QED
      BY <2>7, <3>1, <3>2 DEF Tie
  <2>8. CASE Discard(w)
    <3>1. PICK s \in {"failed", "findWinner"} : Goto(w, s)
      BY <2>8 DEF Discard
    <3>2. everLinked' = everLinked
      BY <2>8 DEF Discard, Erase
    <3> QED
      BY <1>2, <3>1, <3>2 DEF Granted, Stages, SignInStages, Resting
  <2> QED
    BY <1>6, <2>1, <2>3, <2>4, <2>5, <2>6, <2>7, <2>8 DEF SignInStep
<1>7. ASSUME NEW w \in Workers, LinkStep(w) PROVE GrantsAreLinked'
  <2>1. ASSUME NEW u \in Users, NEW p \in Providers, NEW s \in Subjects, Link(w, u, p, s)
        PROVE  GrantsAreLinked'
    BY <1>4, <2>1 DEF Link
  <2>2. ASSUME NEW s \in LinkStages \cup {"refused", "conflict", "failed", "linked"},
               Goto(w, s), everLinked' = everLinked, s \in Granted => Mine(w) \in everLinked
        PROVE  GrantsAreLinked'
    BY <1>2, <2>2 DEF Stages, Resting
  <2>3. CASE Own(w) \/ Reown(w)
    <3>1. PICK s \in LinkStages \cup {"refused", "conflict"} :
            /\ Goto(w, s) /\ s \notin Granted \ {"answer"}
            /\ s = "answer" => Mine(w) \in OfUser(request[w].user, request[w].provider)
      BY <2>3 DEF Own, Reown, Owned, LinkStages, Granted
    <3> QED
      BY <2>2, <2>3, <3>1 DEF Own, Reown, OfUser, Granted
  <2>4. CASE Bind(w)
    <3>1. CASE Goto(w, "rebind") /\ UNCHANGED <<tables, history>>
      BY <2>2, <3>1 DEF Granted, LinkStages
    <3>2. CASE Insert(Mine(w)) /\ Goto(w, "answer")
      BY <1>2, <3>2 DEF Insert, Stages, LinkStages
    <3> QED
      BY <2>4, <3>1, <3>2 DEF Bind
  <2>5. CASE Rebind(w)
    <3>1. PICK s \in LinkStages :
            /\ Goto(w, s)
            /\ s \in Granted => Mine(w) \in OfSubject(request[w].provider, request[w].subject)
      BY <2>5 DEF Rebind, LinkStages, Granted
    <3> QED
      BY <2>2, <2>5, <3>1 DEF Rebind, OfSubject
  <2>6. CASE Winner(w)
    BY <2>2, <2>6 DEF Winner, Granted
  <2>7. CASE Answer(w)
    <3>1. Mine(w) \in everLinked
      BY <2>7 DEF Answer, GrantsAreLinked, Granted
    <3> QED
      BY <2>2, <2>7, <3>1 DEF Answer
  <2> QED
    BY <1>7, <2>1, <2>3, <2>4, <2>5, <2>6, <2>7 DEF LinkStep
<1>8. ASSUME NEW w \in Workers, Fail(w) PROVE GrantsAreLinked'
  <2>1. PICK s \in {"discard", "failed"} : Goto(w, s)
    BY <1>8 DEF Fail
  <2> QED
    BY <1>2, <1>8, <2>1 DEF Fail, Granted, Stages, SignInStages, Resting
<1>9. ASSUME \/ \E u \in Users, p \in Providers : Unlink(u, p)
             \/ \E u \in Users : DeleteUser(u)
             \/ Configure
             \/ UNCHANGED vars
      PROVE  GrantsAreLinked'
  <2>1. request' = request /\ everLinked' = everLinked
    BY <1>9 DEF Unlink, DeleteUser, Erase, Configure, vars
  <2> QED
    BY <2>1 DEF GrantsAreLinked, Mine
<1> QED
  BY <1>5, <1>6, <1>7, <1>8, <1>9 DEF Next

\* Whoever is let in by a provider's account is a user it was linked to, and a
\* linkage that is reported was made, for every interleaving of the handlers of
\* auth_service.go and user_service.go: LinkedLogins is part of the invariant.
THEOREM LoginsAreLinked == Spec => []LinkedLogins
<1>1. Init => GrantsAreLinked
  <2> SUFFICES ASSUME Init, NEW w \in Workers PROVE request[w].at \notin Granted
    BY DEF GrantsAreLinked
  <2> QED
    BY DEF Init, Granted
<1>2. AccountsTypes /\ GrantsAreLinked => LinkedLogins
  BY DEF AccountsTypes, GrantsAreLinked, LinkedLogins, LoginIsLinked, Granted
<1> QED
  BY <1>1, <1>2, AccountsTypeCorrect, NextGrants, PTL DEF Spec

-----------------------------------------------------------------------------
(* The setup *)

WorkerStep(w) == SignUpStep(w) \/ SignInStep(w) \/ LinkStep(w) \/ Fail(w)

\* A request only ever moves itself.
LEMMA OthersStay ==
    ASSUME AccountsTypes, NEW w \in Workers, WorkerStep(w), NEW x \in Workers, x # w
    PROVE  request'[x] = request[x]
<1>0. request \in [Workers -> Requests]
  BY DEF AccountsTypes, TypeOK, Requests, Stages
<1>1. CASE SignUpStep(w)
  BY <1>0, <1>1 DEF SignUpStep, SignUp, List, Lock, Recheck, CreateFirst, Gate, CreateUser,
                    Begin, Goto, GotoAs
<1>2. CASE SignInStep(w)
  BY <1>0, <1>2 DEF SignInStep, SignIn, Find, Load, SSOGate, Provision, Tie, Discard, FindWinner,
                    Begin, Goto, GotoAs
<1>3. CASE LinkStep(w)
  BY <1>0, <1>3 DEF LinkStep, Link, Own, Owned, Bind, Rebind, Winner, Reown, Answer,
                    Begin, Goto
<1>4. CASE Fail(w)
  BY <1>0, <1>4 DEF Fail, Goto
<1> QED
  BY <1>1, <1>2, <1>3, <1>4 DEF WorkerStep

\* A user row is born live, with a new id, and never comes back.
LEMMA NobodyReturns ==
    ASSUME AccountsTypes, [Next]_vars, NEW u \in Users, role[u] # "unused", Live(u)'
    PROVE  Live(u)
<1> USE DEF tables
<1>1. ASSUME NEW v \in Users, NEW r, role[v] = "unused", Create(v, r) PROVE Live(u)
  BY <1>1 DEF Create, Live, AccountsTypes, TypeOK
<1>2. ASSUME NEW v, Erase(v) PROVE Live(u)
  BY <1>2, EraseTypes DEF Live, AccountsTypes, TypeOK
<1>3. CASE role' = role
  BY <1>3 DEF Live
<1>4. ASSUME NEW w \in Workers, CreateFirst(w) \/ CreateUser(w) \/ Provision(w) PROVE Live(u)
  BY <1>1, <1>4, NewIdIsUnused DEF CreateFirst, CreateUser, Provision, Unused
<1>5. ASSUME NEW w \in Workers, SignUpStep(w) PROVE Live(u)
  BY <1>3, <1>4, <1>5 DEF SignUpStep, SignUp, List, Lock, Recheck, Gate, Begin
<1>6. ASSUME NEW w \in Workers, SignInStep(w) PROVE Live(u)
  BY <1>2, <1>3, <1>4, <1>6
     DEF SignInStep, SignIn, Find, Load, SSOGate, Tie, Insert, Discard, FindWinner, Begin
<1>7. ASSUME NEW w \in Workers, LinkStep(w) \/ Fail(w) PROVE Live(u)
  BY <1>3, <1>7
     DEF LinkStep, Link, Own, Bind, Insert, Rebind, Winner, Reown, Answer, Begin, Fail
<1>8. ASSUME \/ \E v \in Users, p \in Providers : Unlink(v, p)
             \/ \E v \in Users : DeleteUser(v)
             \/ Configure
             \/ UNCHANGED vars
      PROVE  Live(u)
  BY <1>2, <1>3, <1>8 DEF Unlink, DeleteUser, Configure, vars
<1> QED
  BY <1>5, <1>6, <1>7, <1>8 DEF Next

\* While a setup is about to create its administrator, none of an earlier one
\* is there.
SetupInv ==
    /\ OneSetupAdmin
    /\ \A w \in Workers : At(w, "createFirst") => \A u \in setup : ~Live(u)

LEMMA NextSetup ==
    ASSUME AccountsTypes, SetupInv, [Next]_vars
    PROVE  SetupInv'
<1>0. /\ request \in [Workers -> Requests] /\ setup \subseteq Users
      /\ \A u \in setup : role[u] # "unused"
  BY DEF AccountsTypes, TypeOK, Requests, Stages
<1>1. \A u \in setup : Live(u)' => Live(u)
  BY <1>0, NobodyReturns
<1>2. ASSUME setup' = setup,
             \A w \in Workers : request'[w].at = "createFirst" =>
                 request[w].at = "createFirst" \/ NoUsers
      PROVE  SetupInv'
  BY <1>0, <1>1, <1>2 DEF SetupInv, OneSetupAdmin, At, NoUsers
<1>3. ASSUME NEW w \in Workers, CreateFirst(w) PROVE SetupInv'
  <2>1. NextId \in Users /\ NextId \notin setup
    BY <1>0, <1>3, NewIdIsUnused DEF CreateFirst, Unused
  <2>2. /\ \A u \in setup : ~Live(u)' /\ u # NextId
        /\ setup' = setup \cup {NextId}
    BY <1>1, <1>3, <2>1 DEF CreateFirst, SetupInv, At
  <2>3. request[w].at = "createFirst" /\ mu = w
    BY <1>3 DEF CreateFirst, At, AccountsTypes, TypeOK
  <2>4. \A x \in Workers : request'[x].at # "createFirst"
    <3>1. request'[w].at = "created"
      BY <1>0, <1>3 DEF CreateFirst, GotoAs, Requests
    <3>2. \A x \in Workers \ {w} : request'[x] = request[x]
      BY <1>3, OthersStay DEF WorkerStep, SignUpStep
    <3>3. \A x \in Workers \ {w} : request[x].at # "createFirst"
      BY <2>3 DEF AccountsTypes, TypeOK
    <3> QED
      BY <3>1, <3>2, <3>3
  <2> QED
    BY <2>2, <2>4 DEF SetupInv, OneSetupAdmin, At
<1> USE DEF history
<1>4. ASSUME NEW w \in Workers, SignUpStep(w), ~CreateFirst(w) PROVE SetupInv'
  <2>1. setup' = setup
    BY <1>4 DEF SignUpStep, SignUp, List, Lock, Recheck, Gate, CreateUser, Begin
  <2>2. request'[w].at = "createFirst" => NoUsers
    BY <1>0, <1>4
       DEF SignUpStep, SignUp, List, Lock, Recheck, Gate, CreateUser, Begin, Goto, GotoAs, Requests
  <2> QED
    BY <1>2, <1>4, <2>1, <2>2, OthersStay DEF WorkerStep
<1>5. ASSUME NEW w \in Workers, SignInStep(w) PROVE SetupInv'
  <2>1. setup' = setup
    BY <1>5 DEF SignInStep, SignIn, Find, Load, SSOGate, Provision, Tie, Insert, Discard, Erase,
                FindWinner, Begin
  <2>2. request'[w].at # "createFirst"
    BY <1>0, <1>5
       DEF SignInStep, SignIn, Find, Load, SSOGate, Provision, Tie, Discard, FindWinner,
           Begin, Goto, GotoAs, Requests
  <2> QED
    BY <1>2, <1>5, <2>1, <2>2, OthersStay DEF WorkerStep
<1>6. ASSUME NEW w \in Workers, LinkStep(w) \/ Fail(w) PROVE SetupInv'
  <2>1. setup' = setup
    BY <1>6 DEF LinkStep, Link, Own, Bind, Insert, Rebind, Winner, Reown, Answer, Begin, Fail
  <2>2. request'[w].at # "createFirst"
    BY <1>0, <1>6
       DEF LinkStep, Link, Own, Owned, Bind, Rebind, Winner, Reown, Answer, Begin, Fail, Goto,
           Requests
  <2> QED
    BY <1>2, <1>6, <2>1, <2>2, OthersStay DEF WorkerStep
<1>7. ASSUME \/ \E u \in Users, p \in Providers : Unlink(u, p)
             \/ \E u \in Users : DeleteUser(u)
             \/ Configure
             \/ UNCHANGED vars
      PROVE  SetupInv'
  <2>1. setup' = setup /\ request' = request
    BY <1>7 DEF Unlink, DeleteUser, Erase, Configure, vars
  <2> QED
    BY <1>2, <2>1
<1> QED
  BY <1>3, <1>4, <1>5, <1>6, <1>7 DEF Next

\* However many first sign-ups race and whoever is deleted in between, the setup
\* of Store.CreateUserIfNoUsers never leaves two administrators.
THEOREM OneAdminOfSetup == Spec => []OneSetupAdmin
<1>1. Init => SetupInv
  BY DEF Init, SetupInv, OneSetupAdmin, At
<1>2. SetupInv => OneSetupAdmin
  BY DEF SetupInv
<1> QED
  BY <1>1, <1>2, AccountsTypeCorrect, NextSetup, PTL DEF Spec

-----------------------------------------------------------------------------
(* The race of two first logins *)

\* A request on its way to "conflict" has met a row that still stands against
\* it, unless a row was removed or it is its own user's and that user was to go.
LosersKnow ==
    \A w \in Workers :
        removals \/
        /\ request[w].at \in {"discardLoser", "rebind"} =>
               Conflicts(request[w].user, request[w].provider, request[w].subject)
        /\ At(w, "findWinner") =>
               \/ OfSubject(request[w].provider, request[w].subject) # {}
               \/ request[w].user \in strays
        /\ At(w, "reown") => OfUser(request[w].user, request[w].provider) # {}
        /\ At(w, "conflict") => request[w].user \in strays

\* A row of user_identity only goes if that is on record.
LEMMA RemovalsRecorded ==
    ASSUME AccountsTypes, [Next]_vars
    PROVE  identities \subseteq identities' \/ removals'
<1> USE DEF tables, history
<1>1. ASSUME NEW u, Erase(u) PROVE identities \subseteq identities' \/ removals'
  BY <1>1, EraseTypes
<1>2. ASSUME NEW w \in Workers, WorkerStep(w) PROVE identities \subseteq identities' \/ removals'
  <2>1. CASE SignUpStep(w)
    BY <2>1 DEF SignUpStep, SignUp, List, Lock, Recheck, CreateFirst, Gate, CreateUser, Begin
  <2>2. CASE SignInStep(w)
    BY <1>1, <2>2 DEF SignInStep, SignIn, Find, Load, SSOGate, Provision, Tie, Insert, Discard,
                      FindWinner, Begin
  <2>3. CASE LinkStep(w)
    BY <2>3 DEF LinkStep, Link, Own, Bind, Insert, Rebind, Winner, Reown, Answer, Begin
  <2>4. CASE Fail(w)
    BY <2>4 DEF Fail
  <2> QED
    BY <1>2, <2>1, <2>2, <2>3, <2>4 DEF WorkerStep
<1>3. ASSUME \/ \E u \in Users, p \in Providers : Unlink(u, p)
             \/ \E u \in Users : DeleteUser(u)
             \/ Configure
             \/ UNCHANGED vars
      PROVE  identities \subseteq identities' \/ removals'
  BY <1>1, <1>3 DEF Unlink, DeleteUser, Configure, vars
<1> QED
  BY <1>2, <1>3 DEF Next, WorkerStep

\* That record is never struck out.
LEMMA RemovalsStay ==
    ASSUME AccountsTypes, [Next]_vars, removals
    PROVE  removals'
<1> USE DEF tables, history
<1>1. ASSUME NEW u, Erase(u) PROVE removals'
  BY <1>1, EraseTypes
<1>2. ASSUME NEW w \in Workers, WorkerStep(w) PROVE removals'
  BY <1>1, <1>2
     DEF WorkerStep, SignUpStep, SignUp, List, Lock, Recheck, CreateFirst, Gate, CreateUser,
         SignInStep, SignIn, Find, Load, SSOGate, Provision, Tie, Insert, Discard, FindWinner,
         LinkStep, Link, Own, Bind, Rebind, Winner, Reown, Answer, Begin, Fail
<1>3. ASSUME \/ \E u \in Users, p \in Providers : Unlink(u, p)
             \/ \E u \in Users : DeleteUser(u)
             \/ Configure
             \/ UNCHANGED vars
      PROVE  removals'
  BY <1>1, <1>3 DEF Unlink, DeleteUser, Configure, vars
<1> QED
  BY <1>2, <1>3 DEF Next, WorkerStep

\* Nor is the record of the deletions that failed.
LEMMA StraysStay ==
    ASSUME [Next]_vars
    PROVE  strays \subseteq strays'
<1> USE DEF tables, history
<1>1. ASSUME NEW w \in Workers, WorkerStep(w) PROVE strays \subseteq strays'
  BY <1>1
     DEF WorkerStep, SignUpStep, SignUp, List, Lock, Recheck, CreateFirst, Gate, CreateUser,
         SignInStep, SignIn, Find, Load, SSOGate, Provision, Tie, Insert, Discard, Erase,
         FindWinner, LinkStep, Link, Own, Bind, Rebind, Winner, Reown, Answer, Begin, Fail
<1>2. ASSUME \/ \E u \in Users, p \in Providers : Unlink(u, p)
             \/ \E u \in Users : DeleteUser(u)
             \/ Configure
             \/ UNCHANGED vars
      PROVE  strays \subseteq strays'
  BY <1>2 DEF Unlink, DeleteUser, Erase, Configure, vars
<1> QED
  BY <1>1, <1>2 DEF Next, WorkerStep

\* A step that leaves all rows in place leaves a loser what it has lost to.
LEMMA NextLosers ==
    ASSUME AccountsTypes, LosersKnow, [Next]_vars
    PROVE  LosersKnow'
<1>0. request \in [Workers -> Requests]
  BY DEF AccountsTypes, TypeOK, Requests, Stages
<1>1. CASE removals'
  BY <1>1 DEF LosersKnow
<1>2. CASE ~removals'
  <2>1. ~removals /\ identities \subseteq identities'
    BY <1>2, RemovalsRecorded, RemovalsStay DEF AccountsTypes, TypeOK
  <2> DEFINE Knows(w) ==
        /\ request[w].at \in {"discardLoser", "rebind"} =>
               Conflicts(request[w].user, request[w].provider, request[w].subject)
        /\ At(w, "findWinner") =>
               \/ OfSubject(request[w].provider, request[w].subject) # {}
               \/ request[w].user \in strays
        /\ At(w, "reown") => OfUser(request[w].user, request[w].provider) # {}
        /\ At(w, "conflict") => request[w].user \in strays
  <2>2. \A w \in Workers : Knows(w)
    BY <2>1 DEF LosersKnow
  <2>3. ASSUME NEW w \in Workers, request'[w] = request[w] PROVE Knows(w)'
    BY <2>1, <2>2, <2>3, StraysStay DEF At, Conflicts, OfSubject, OfUser
  <2>4. ASSUME NEW w \in Workers,
               request'[w].at \notin {"discardLoser", "rebind", "findWinner", "reown", "conflict"}
        PROVE  Knows(w)'
    BY <2>4 DEF At
  <2>5. SUFFICES ASSUME NEW w \in Workers PROVE Knows(w)'
    BY DEF LosersKnow
  <2>6. CASE request' = request
    BY <2>3, <2>6
  <2>7. ASSUME NEW x \in Workers, WorkerStep(x), x # w PROVE Knows(w)'
    BY <2>3, <2>7, OthersStay
  <2> USE DEF tables, history
  <2> DEFINE Same == /\ request'[w].user = request[w].user
                     /\ request'[w].provider = request[w].provider
                     /\ request'[w].subject = request[w].subject
  <2>8. CASE SignUpStep(w)
    BY <1>0, <2>4, <2>8
       DEF SignUpStep, SignUp, List, Lock, Recheck, CreateFirst, Gate, CreateUser, Begin, Goto,
           GotoAs, Requests
  <2>9. CASE SignInStep(w)
    <3>1. CASE Tie(w)
      <4>1. CASE Conflicts(request[w].user, request[w].provider, request[w].subject)
        <5>1. /\ Goto(w, "discardLoser") /\ identities' = identities
          BY <3>1, <4>1 DEF Tie, Mine, Identity
        <5>2. Same /\ request'[w].at = "discardLoser"
          BY <1>0, <5>1 DEF Goto, Requests
        <5> QED
          BY <4>1, <5>1, <5>2 DEF At, Conflicts, OfSubject, OfUser
      <4>2. CASE ~Conflicts(request[w].user, request[w].provider, request[w].subject)
        <5>1. Goto(w, "signedIn")
          BY <3>1, <4>2 DEF Tie, Mine, Identity
        <5> QED
          BY <1>0, <2>4, <5>1 DEF Goto, Requests
      <4> QED
        BY <4>1, <4>2
    <3>2. CASE Discard(w) /\ At(w, "discard")
      BY <1>0, <2>4, <3>2 DEF Discard, At, Goto, Requests
    <3>3. CASE Discard(w) /\ At(w, "discardLoser")
      <4>1. /\ Goto(w, "findWinner")
            /\ Erase(request[w].user) \/ request[w].user \in strays'
        BY <3>3 DEF Discard, At
      <4>2. Same /\ request'[w].at = "findWinner"
        BY <1>0, <4>1 DEF Goto, Requests
      <4>5. CASE request[w].user \in strays'
        BY <4>2, <4>5 DEF At
      <4>6. CASE Erase(request[w].user)
        <5>1. PICK i \in identities :
                \/ i \in OfSubject(request[w].provider, request[w].subject)
                \/ i.user = request[w].user
          BY <2>2, <3>3 DEF At, Conflicts, OfSubject, OfUser
        <5>2. i \in identities' /\ i.user # request[w].user
          BY <2>1, <4>6, EraseTypes
        <5> QED
          BY <4>2, <5>1, <5>2 DEF At, OfSubject
      <4> QED
        BY <4>1, <4>5, <4>6
    <3>4. CASE FindWinner(w)
      <4>1. \/ \E i \in OfSubject(request[w].provider, request[w].subject) :
                   GotoAs(w, "load", i.user)
            \/ Goto(w, "conflict") /\ request[w].user \in strays
        BY <2>2, <3>4 DEF FindWinner
      <4>2. CASE Goto(w, "conflict") /\ request[w].user \in strays
        <5>1. Same /\ request'[w].at = "conflict"
          BY <1>0, <4>2 DEF Goto, Requests
        <5> QED
          BY <4>2, <5>1, StraysStay DEF At
      <4>3. CASE \E i \in OfSubject(request[w].provider, request[w].subject) :
                   GotoAs(w, "load", i.user)
        BY <1>0, <2>4, <4>3 DEF GotoAs, Requests
      <4> QED
        BY <4>1, <4>2, <4>3
    <3>5. CASE ~Tie(w) /\ ~Discard(w) /\ ~FindWinner(w)
      BY <1>0, <2>4, <2>9, <3>5
         DEF SignInStep, SignIn, Find, Load, SSOGate, Provision, Begin, Goto, GotoAs, Requests
    <3> QED
      BY <3>1, <3>2, <3>3, <3>4, <3>5 DEF Discard, At
  <2>10. CASE LinkStep(w)
    <3>1. CASE Bind(w)
      <4>1. CASE Conflicts(request[w].user, request[w].provider, request[w].subject)
        <5>1. /\ Goto(w, "rebind") /\ identities' = identities
          BY <3>1, <4>1 DEF Bind, Mine, Identity
        <5>2. Same /\ request'[w].at = "rebind"
          BY <1>0, <5>1 DEF Goto, Requests
        <5> QED
          BY <4>1, <5>1, <5>2 DEF At, Conflicts, OfSubject, OfUser
      <4>2. CASE ~Conflicts(request[w].user, request[w].provider, request[w].subject)
        <5>1. Goto(w, "answer")
          BY <3>1, <4>2 DEF Bind, Mine, Identity
        <5> QED
          BY <1>0, <2>4, <5>1 DEF Goto, Requests
      <4> QED
        BY <4>1, <4>2
    <3>2. CASE Rebind(w)
      <4>1. CASE OfSubject(request[w].provider, request[w].subject) = {}
        <5>1. OfUser(request[w].user, request[w].provider) # {}
          BY <2>2, <3>2, <4>1 DEF Rebind, At, Conflicts
        <5>2. Goto(w, "reown") /\ identities' = identities
          BY <3>2, <4>1 DEF Rebind
        <5>3. Same /\ request'[w].at = "reown"
          BY <1>0, <5>2 DEF Goto, Requests
        <5> QED
          BY <5>1, <5>2, <5>3 DEF At, OfUser
      <4>2. CASE OfSubject(request[w].provider, request[w].subject) # {}
        <5>1. Goto(w, "answer") \/ Goto(w, "winner")
          BY <3>2, <4>2 DEF Rebind
        <5> QED
          BY <1>0, <2>4, <5>1 DEF Goto, Requests
      <4> QED
        BY <4>1, <4>2
    <3>3. CASE Reown(w)
      <4>1. Goto(w, "answer") \/ Goto(w, "refused")
        BY <2>2, <3>3 DEF Reown, Owned
      <4> QED
        BY <1>0, <2>4, <4>1 DEF Goto, Requests
    <3>4. CASE ~Bind(w) /\ ~Rebind(w) /\ ~Reown(w)
      BY <1>0, <2>4, <2>10, <3>4
         DEF LinkStep, Link, Own, Owned, Winner, Answer, Begin, Goto, Requests
    <3> QED
      BY <3>1, <3>2, <3>3, <3>4
  <2>11. CASE Fail(w)
    BY <1>0, <2>4, <2>11 DEF Fail, Goto, Requests
  <2>12. ASSUME \/ \E u \in Users, p \in Providers : Unlink(u, p)
                \/ \E u \in Users : DeleteUser(u)
                \/ Configure
                \/ UNCHANGED vars
         PROVE  request' = request
    BY <2>12 DEF Unlink, DeleteUser, Configure, vars
  <2> QED
    BY <2>6, <2>7, <2>8, <2>9, <2>10, <2>11, <2>12 DEF Next, WorkerStep
<1> QED
  BY <1>1, <1>2

\* A login that still is about to tie a provisional user, or to delete it.
Clears(w, u) == request[w].user = u /\ request[w].at \in {"tie", "discard", "discardLoser"}

\* Whoever made a provisional user has tied it, deletes it or is about to.
LEMMA NextLeftOvers ==
    ASSUME AccountsTypes, NoneLeftOver, [Next]_vars
    PROVE  NoneLeftOver'
<1> USE DEF tables, history
<1>0. request \in [Workers -> Requests]
  BY DEF AccountsTypes, TypeOK, Requests, Stages
<1>1. SUFFICES ASSUME NEW u \in provisional', u \notin strays', Live(u)' PROVE \E w \in Workers : Clears(w, u)'
  BY DEF NoneLeftOver, Clears
<1>2. ASSUME NEW w \in Workers, Provision(w), u = NextId PROVE Clears(w, u)'
  BY <1>0, <1>2 DEF Provision, GotoAs, Clears, Requests
<1>3. ASSUME u \in provisional, NEW w \in Workers, Clears(w, u), request'[w] = request[w]
      PROVE  Clears(w, u)'
  BY <1>3 DEF Clears
<1>4. ASSUME u \in provisional PROVE \E w \in Workers : Clears(w, u)
  <2>1. u \in Users /\ role[u] # "unused"
    BY <1>4 DEF AccountsTypes, TypeOK
  <2>2. Live(u) /\ u \notin strays
    BY <1>1, <2>1, NobodyReturns, StraysStay
  <2> QED
    BY <1>4, <2>2 DEF NoneLeftOver, Clears
<1>5. ASSUME u \in provisional, NEW w \in Workers, Clears(w, u), WorkerStep(w)
      PROVE  Clears(w, u)'
  <2>1. u \in Users
    BY <1>5 DEF AccountsTypes, TypeOK
  <2>2. CASE Tie(w)
    <3>1. provisional' # provisional \ {request[w].user}
      BY <1>1, <1>5 DEF Clears
    <3>2. Goto(w, "discardLoser")
      BY <1>5, <2>2, <3>1 DEF Tie, Mine, Identity, Clears
    <3> QED
      BY <1>0, <1>5, <3>2 DEF Goto, Clears, Requests
  <2>3. CASE Discard(w)
    <3>1. Erase(u)
      BY <1>1, <1>5, <2>3 DEF Discard, Clears
    <3>2. role'[u] \notin {"admin", "user"}
      BY <2>1, <3>1, EraseTypes
    <3>3. ~Live(u)'
      BY <3>2 DEF Live
    <3> QED
      BY <1>1, <3>3
  <2>4. CASE Fail(w)
    <3>1. Goto(w, "discard")
      BY <1>5, <2>4 DEF Fail, At, Clears
    <3> QED
      BY <1>0, <1>5, <3>1 DEF Goto, Clears, Requests
  <2>5. ~SignUpStep(w) /\ ~LinkStep(w)
    BY <1>5
       DEF Clears, SignUpStep, SignUp, List, Lock, Recheck, CreateFirst, Gate, CreateUser,
           LinkStep, Link, Own, Bind, Rebind, Winner, Reown, Answer, Begin, At, Resting
  <2>6. SignInStep(w) => Tie(w) \/ Discard(w)
    BY <1>5
       DEF Clears, SignInStep, SignIn, Find, Load, SSOGate, Provision, FindWinner, Begin, At,
           Resting
  <2> QED
    BY <1>5, <2>2, <2>3, <2>4, <2>5, <2>6 DEF WorkerStep
<1>6. ASSUME NEW w \in Workers, WorkerStep(w) PROVE \E x \in Workers : Clears(x, u)'
  <2>1. CASE u \in provisional
    BY <1>3, <1>4, <1>5, <1>6, <2>1, OthersStay
  <2>2. CASE u \notin provisional
    <3>1. Provision(w) /\ u = NextId
      BY <1>6, <2>2
         DEF WorkerStep, SignUpStep, SignUp, List, Lock, Recheck, CreateFirst, Gate, CreateUser,
             SignInStep, SignIn, Find, Load, SSOGate, Provision, Tie, Discard, Erase, FindWinner,
             LinkStep, Link, Own, Bind, Rebind, Winner, Reown, Answer, Begin, Fail
    <3> QED
      BY <1>2, <3>1
  <2> QED
    BY <2>1, <2>2
<1>7. ASSUME \/ \E v \in Users, p \in Providers : Unlink(v, p)
             \/ \E v \in Users : DeleteUser(v)
             \/ Configure
             \/ UNCHANGED vars
      PROVE  \E x \in Workers : Clears(x, u)'
  <2>1. request' = request /\ provisional' = provisional
    BY <1>7 DEF Unlink, DeleteUser, Erase, Configure, vars
  <2> QED
    BY <1>3, <1>4, <2>1
<1> QED
  BY <1>6, <1>7 DEF Next, WorkerStep

\* Whatever first logins of an account and linkages of it race, the losers leave
\* no user behind but one whose "best-effort cleanup" failed, and find the winner,
\* for resolveSSOUser and bindSSOIdentityToUser.
THEOREM RacesAreResolved == Spec => []RaceIsResolved
<1>1. Init => NoneLeftOver /\ LosersKnow
  BY DEF Init, NoneLeftOver, LosersKnow, At
<1>2. AccountsTypes /\ NoneLeftOver /\ LosersKnow /\ [Next]_vars => NoneLeftOver' /\ LosersKnow'
  BY NextLosers, NextLeftOvers
<1>3. NoneLeftOver /\ LosersKnow => RaceIsResolved
  BY DEF RaceIsResolved, LoserFindsWinner, LosersKnow
<1> QED
  BY <1>1, <1>2, <1>3, AccountsTypeCorrect, PTL DEF Spec

===============================================================================
