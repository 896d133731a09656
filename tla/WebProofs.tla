------------------------------- MODULE WebProofs -------------------------------
(***************************************************************************)
(* The pages of the web client, for visits of any length: signing in       *)
(* through an identity provider (AnswerIsUsed), the filters that live in   *)
(* the state and in the address (PageIsAddressed), the music player        *)
(* (HeardIsShown), the setting forms (SettingsKept), a memo in the cache   *)
(* of queries (CacheSettles), the memo editor (EditorIsKept) and the lists *)
(* with dialogs (ListsAreKept).                                            *)
(***************************************************************************)
EXTENDS WebOAuth, WebFilters, WebPlayer, WebSettings, WebQueries, WebEditor, WebLists, TLAPS

LOCAL INSTANCE SequencesExt

-----------------------------------------------------------------------------
(* Signing in through a provider *)

TryRecords ==
    [mode : {"none", "signin", "link"}, by : People \cup {""},
     step : {"none", "starting", "stored", "asked", "answered", "dropped"}, used : BOOLEAN]

Effects == [ready : BOOLEAN, due : BOOLEAN, handled : BOOLEAN, shows : {"loading", "error", "blank"}]

Exchanges ==
    [try : Tries \cup {0}, parent : People \cup {""},
     at : {"none", "sent", "done", "failed", "initialized"}]

OAuthTyped ==
    /\ try \in [Tries -> TryRecords]
    /\ pending \in Tries \cup {0} /\ address \in Tries \cup {0}
    /\ user \in People \cup {""} /\ cookie \in People \cup {""}
    /\ callback \in Effects /\ request \in Exchanges
    /\ linked \subseteq (People \cup {""}) \X Tries

\* The attempts that are in an address, in the storage, on the wire or linked
\* were started, so that nobody starts them again.
Started(a) == try[a].step # "none"

AttemptsStarted ==
    /\ address # 0 => Started(address)
    /\ request.at # "none" => request.try \in Tries /\ Started(request.try)
    /\ \A l \in linked : Started(l[2])

\* The parent an exchange names is the one who started the link.
SentByStarter ==
    request.at = "sent" /\ try[request.try].mode = "link" => request.parent = try[request.try].by

\* Once the exchange is under way the effect has taken the attempt, and acts no more.
EffectIsOver == request.at # "none" => callback.handled

OAuthSound == OAuthTyped /\ AttemptsStarted /\ SentByStarter /\ EffectIsOver /\ AnswerIsUsed

\* A step that only carries attempts on.
KeepsAttempts ==
    \A a \in Tries : Started(a) =>
        try'[a].step # "none" /\ try'[a].by = try[a].by /\ try'[a].mode = try[a].mode

\* What a step that adds nothing to linked and sends nothing must keep.
LEMMA AttemptsAreKept ==
    ASSUME OAuthSound, OAuthTyped', KeepsAttempts,
           address' # 0 => address' = address \/ try'[address'].step # "none",
           request' = request \/ request'.at = "none" \/
               (request'.try = request.try /\ request.at # "none" /\ request'.at # "sent"),
           linked' = linked,
           request'.at # "none" => callback'.handled,
           request'.at = "initialized" => callback'.shows = "blank"
    PROVE  OAuthSound'
<1>1. OAuthTyped /\ AttemptsStarted /\ SentByStarter /\ AnswerIsUsed
  BY DEF OAuthSound
<1>2. \A l \in linked : l[2] \in Tries
  BY <1>1 DEF OAuthTyped
<1>3. AttemptsStarted'
  BY <1>1, <1>2 DEF AttemptsStarted, Started, OAuthTyped, KeepsAttempts
<1>4. SentByStarter'
  BY <1>1 DEF SentByStarter, AttemptsStarted, KeepsAttempts
<1>5. AnswerIsUsed'
  BY <1>1, <1>2 DEF AnswerIsUsed, LinkedByStarter, SuccessIsShown, AttemptsStarted, KeepsAttempts
<1> QED
  BY <1>3, <1>4, <1>5 DEF OAuthSound, EffectIsOver

LEMMA OAuthStepIsSound ==
    ASSUME OAuthSound, [OAuthNext]_oauthVars
    PROVE  OAuthSound'
<1>1. OAuthTyped /\ AttemptsStarted /\ SentByStarter /\ EffectIsOver /\ AnswerIsUsed
  BY DEF OAuthSound
<1>2. 0 \notin Tries /\ "" \notin People
  BY DEF Tries, People
<1>3. ASSUME NEW kind \in {"signin", "link"}, StartFlow(kind) PROVE OAuthSound'
  <2>1. PICK a \in Tries :
            /\ try[a].step = "none"
            /\ try' = [try EXCEPT ![a] = [mode |-> kind, by |-> user, step |-> "starting", used |-> FALSE]]
    BY <1>3 DEF StartFlow
  <2>2. UNCHANGED <<pending, address, user, callback, request, cookie, linked>>
    BY <1>3 DEF StartFlow
  <2>3. [mode |-> kind, by |-> user, step |-> "starting", used |-> FALSE] \in TryRecords
    BY <1>1 DEF OAuthTyped, TryRecords
  <2>4. OAuthTyped'
    BY <1>1, <2>1, <2>2, <2>3 DEF OAuthTyped
  <2>5. KeepsAttempts
    BY <1>1, <2>1 DEF OAuthTyped, Started, KeepsAttempts
  <2> QED
    BY <1>1, <2>2, <2>4, <2>5, AttemptsAreKept DEF EffectIsOver, AnswerIsUsed, SuccessIsShown
<1>4. ASSUME NEW a \in Tries, StoreOAuthState(a) PROVE OAuthSound'
  <2>1. /\ try' = [try EXCEPT ![a].step = "stored"] /\ pending' = a /\ address' = a
        /\ UNCHANGED <<user, callback, request, cookie, linked>>
    BY <1>4 DEF StoreOAuthState
  <2>2. OAuthTyped'
    BY <1>1, <2>1 DEF OAuthTyped, TryRecords
  <2>3. KeepsAttempts /\ (address' # 0 => try'[address'].step # "none")
    BY <1>1, <2>1 DEF OAuthTyped, TryRecords, Started, KeepsAttempts
  <2> QED
    BY <1>1, <2>1, <2>2, <2>3, AttemptsAreKept DEF EffectIsOver, AnswerIsUsed, SuccessIsShown
<1>5. CASE LeavePage
  <2>1. /\ address \in Tries
        /\ try' = [a \in Tries |-> IF a = address THEN [try[a] EXCEPT !.step = "asked"]
                                   ELSE IF try[a].step = "starting" THEN [try[a] EXCEPT !.step = "dropped"]
                                   ELSE try[a]]
        /\ UNCHANGED <<pending, address, user, callback, request, cookie, linked>>
    BY <1>1, <1>5 DEF LeavePage, OAuthTyped
  <2>2. OAuthTyped'
    BY <1>1, <2>1 DEF OAuthTyped, TryRecords
  <2>3. KeepsAttempts /\ (address' # 0 => try'[address'].step # "none")
    BY <1>1, <2>1 DEF OAuthTyped, TryRecords, Started, KeepsAttempts
  <2> QED
    BY <1>1, <2>1, <2>2, <2>3, AttemptsAreKept DEF EffectIsOver, AnswerIsUsed, SuccessIsShown
<1>6. CASE GoBack
  <2>1. address' = 0 /\ UNCHANGED <<try, pending, user, callback, request, cookie, linked>>
    BY <1>6 DEF GoBack
  <2>2. OAuthTyped'
    BY <1>1, <2>1 DEF OAuthTyped
  <2> QED
    BY <1>1, <2>1, <2>2, AttemptsAreKept DEF KeepsAttempts, Started, EffectIsOver, AnswerIsUsed, SuccessIsShown
<1>7. ASSUME NEW a \in Tries \cup {0}, NEW error, LoadCallback(a, error), UNCHANGED <<cookie, linked>>,
             try' \in [Tries -> TryRecords], KeepsAttempts, a # 0 => try'[a].step # "none"
      PROVE  OAuthSound'
  <2>1. /\ address' = a /\ callback' = FreshPage /\ request' = NoRequest /\ user' = ""
        /\ pending' = 0 \/ pending' = pending
    BY <1>7 DEF LoadCallback
  <2>2. OAuthTyped'
    BY <1>1, <1>7, <2>1 DEF OAuthTyped, FreshPage, NoRequest, Effects, Exchanges
  <2> QED
    BY <1>7, <2>1, <2>2, AttemptsAreKept DEF NoRequest
<1>8. CASE ProviderAnswers
  <2>1. PICK error \in BOOLEAN : LoadCallback(address, error)
    BY <1>8 DEF ProviderAnswers
  <2>2. try' = [try EXCEPT ![address].step = "answered"] /\ UNCHANGED <<cookie, linked>>
    BY <1>8 DEF ProviderAnswers
  <2> DEFINE answered(b) == IF b = address THEN [try[b] EXCEPT !.step = "answered"] ELSE try[b]
  <2>3. try' = [b \in Tries |-> answered(b)]
    BY <1>1, <2>2 DEF OAuthTyped
  <2>4. \A b \in Tries : answered(b) \in TryRecords
    BY <1>1 DEF OAuthTyped, TryRecords
  <2>5. try' \in [Tries -> TryRecords] /\ KeepsAttempts
    <3>1. \A b \in Tries : /\ answered(b).by = try[b].by /\ answered(b).mode = try[b].mode
                           /\ answered(b).step \in {"answered", try[b].step}
      BY <1>1 DEF OAuthTyped, TryRecords
    <3> HIDE DEF answered
    <3>2. try' \in [Tries -> TryRecords]
      BY <2>3, <2>4
    <3>3. KeepsAttempts
      BY <2>3, <3>1 DEF Started, KeepsAttempts
    <3> QED
      BY <3>2, <3>3
  <2>6. address \in Tries \cup {0} /\ (address # 0 => try'[address].step # "none")
    BY <1>1, <2>2 DEF OAuthTyped, TryRecords
  <2> QED
    BY <1>7, <2>1, <2>2, <2>5, <2>6
<1>9. CASE ReturnToAddress
  <2>1. PICK a \in Tries : try[a].step = "answered" /\ LoadCallback(a, FALSE)
    BY <1>9 DEF ReturnToAddress
  <2>2. UNCHANGED <<try, cookie, linked>>
    BY <1>9 DEF ReturnToAddress
  <2> QED
    BY <1>1, <1>7, <2>1, <2>2 DEF OAuthTyped, Started, KeepsAttempts
<1>10. CASE Initialized
  <2>1. /\ user' = cookie /\ callback' = [callback EXCEPT !.ready = TRUE, !.due = TRUE]
        /\ UNCHANGED <<try, pending, address, request, cookie, linked>>
    BY <1>10 DEF Initialized
  <2>2. OAuthTyped' /\ callback'.handled = callback.handled /\ callback'.shows = callback.shows
    BY <1>1, <2>1 DEF OAuthTyped, Effects, Exchanges
  <2> QED
    BY <1>1, <2>1, <2>2, AttemptsAreKept
    DEF KeepsAttempts, Started, AttemptsStarted, EffectIsOver, AnswerIsUsed, SuccessIsShown
<1>11. CASE Handle
  <2> DEFINE mayAct == ~callback.handled
  <2>1. UNCHANGED <<try, address, user, cookie, linked>>
    BY <1>11 DEF Handle, Effect
  <2>2. CASE ~mayAct \/ refused
    <3>1. /\ callback' = [callback EXCEPT !.due = FALSE, !.shows = IF mayAct THEN "error" ELSE @]
          /\ UNCHANGED <<pending, request>>
      BY <1>11, <2>2 DEF Handle, Effect
    <3>2. /\ OAuthTyped' /\ callback'.handled = callback.handled
          /\ ~mayAct => callback'.shows = callback.shows
      BY <1>1, <2>1, <3>1 DEF OAuthTyped, Effects, Exchanges
    <3> QED
      BY <1>1, <2>1, <3>1, <3>2, AttemptsAreKept
      DEF KeepsAttempts, Started, AttemptsStarted, EffectIsOver, AnswerIsUsed, SuccessIsShown
  <2>3. CASE mayAct /\ ~refused
    <3> DEFINE sent == Validated /\ ByStarter
    <3>1. /\ pending' = 0
          /\ callback' = [callback EXCEPT !.due = FALSE, !.handled = @ \/ Validated,
                                          !.shows = IF sent THEN @ ELSE "error"]
          /\ request' = IF sent THEN [try |-> address, parent |-> user, at |-> "sent"] ELSE request
      BY <1>11, <2>3 DEF Handle, Effect
    <3>2. Validated \in BOOLEAN /\ sent \in BOOLEAN
      BY DEF Validated, ByStarter
    <3>3. OAuthTyped'
      <4>1. callback' \in [ready : BOOLEAN, due : BOOLEAN, handled : BOOLEAN,
                           shows : {"loading", "error", "blank"}]
        BY <1>1, <3>1, <3>2 DEF OAuthTyped, Effects, Exchanges
      <4> QED
        BY <1>1, <2>1, <3>1, <4>1 DEF OAuthTyped, Effects, Exchanges
    <3>4. request.at = "none"
      BY <1>1, <2>3 DEF EffectIsOver
    <3>5. CASE sent
      <4>1. /\ request' = [try |-> address, parent |-> user, at |-> "sent"]
            /\ callback'.handled /\ address # 0 /\ address \in Tries
        BY <1>1, <3>1, <3>5 DEF OAuthTyped, Validated, ByStarter, Effects, Exchanges
      <4>2. AttemptsStarted'
        BY <1>1, <2>1, <4>1 DEF AttemptsStarted, Started
      <4>3. SentByStarter'
        BY <2>1, <3>5, <4>1 DEF SentByStarter, ByStarter
      <4>4. EffectIsOver' /\ AnswerIsUsed'
        BY <1>1, <2>1, <4>1 DEF EffectIsOver, AnswerIsUsed, LinkedByStarter, SuccessIsShown
      <4> QED
        BY <3>3, <4>2, <4>3, <4>4 DEF OAuthSound
    <3>6. CASE ~sent
      BY <1>1, <2>1, <3>1, <3>3, <3>4, <3>6, AttemptsAreKept DEF KeepsAttempts, Started, AttemptsStarted
    <3> QED
      BY <3>5, <3>6
  <2> QED
    BY <2>2, <2>3
<1>12. CASE ServerExchanges
  <2> DEFINE a == request.try
  <2>1. /\ request.at = "sent" /\ a \in Tries /\ Started(a) /\ callback.handled
        /\ try' = [try EXCEPT ![a].used = TRUE]
        /\ request' = [request EXCEPT !.at = "done"]
        /\ UNCHANGED <<pending, address, user, callback>>
    BY <1>1, <1>12 DEF ServerExchanges, AttemptsStarted, EffectIsOver
  <2>2. cookie' \in People \cup {""}
    BY <1>1, <1>12 DEF ServerExchanges, OAuthTyped
  <2>3. linked' = linked \/ (try[a].mode = "link" /\ linked' = linked \cup {<<request.parent, a>>})
    BY <1>12 DEF ServerExchanges
  <2>4. OAuthTyped'
    <3>1. try' \in [Tries -> TryRecords]
      BY <1>1, <2>1 DEF OAuthTyped, TryRecords
    <3>2. linked' \subseteq (People \cup {""}) \X Tries
      <4>1. request.parent \in People \cup {""} /\ linked \subseteq (People \cup {""}) \X Tries
        BY <1>1 DEF OAuthTyped, Effects, Exchanges
      <4>2. <<request.parent, a>> \in (People \cup {""}) \X Tries
        BY <2>1, <4>1
      <4> QED
        BY <2>3, <4>1, <4>2
    <3> QED
      BY <1>1, <2>1, <2>2, <3>1, <3>2 DEF OAuthTyped, Effects, Exchanges
  <2>5. \A b \in Tries : try'[b].step = try[b].step /\ try'[b].by = try[b].by /\ try'[b].mode = try[b].mode
    BY <1>1, <2>1 DEF OAuthTyped, TryRecords
  <2>6. request'.at = "done" /\ request'.try = a
    BY <1>1, <2>1 DEF OAuthTyped, Effects, Exchanges
  <2>7. \A l \in linked' : l[2] \in Tries /\ Started(l[2]) /\ l[1] = try[l[2]].by
    <3>1. \A l \in linked : l[2] \in Tries /\ Started(l[2]) /\ l[1] = try[l[2]].by
      BY <1>1 DEF OAuthTyped, AttemptsStarted, AnswerIsUsed, LinkedByStarter
    <3>2. try[a].mode = "link" => request.parent = try[a].by
      BY <1>1, <2>1 DEF SentByStarter
    <3> QED
      BY <2>1, <2>3, <3>1, <3>2
  <2>8. AttemptsStarted'
    BY <1>1, <2>1, <2>5, <2>6, <2>7 DEF AttemptsStarted, Started, OAuthTyped
  <2> QED
    BY <2>1, <2>4, <2>5, <2>6, <2>7, <2>8
    DEF OAuthSound, SentByStarter, EffectIsOver, AnswerIsUsed, LinkedByStarter, SuccessIsShown
<1>13. CASE ExchangeFails
  <2>1. /\ request.at \in {"sent", "done"} /\ request' = [request EXCEPT !.at = "failed"]
        /\ callback' = [callback EXCEPT !.shows = "error"]
        /\ UNCHANGED <<try, pending, address, user, cookie, linked>>
    BY <1>13 DEF ExchangeFails
  <2>2. /\ OAuthTyped' /\ callback'.handled = callback.handled
        /\ request'.at = "failed" /\ request'.try = request.try
    BY <1>1, <2>1 DEF OAuthTyped, Effects, Exchanges
  <2> QED
    BY <1>1, <2>1, <2>2, AttemptsAreKept DEF KeepsAttempts, Started, EffectIsOver
<1>14. CASE InitializeAgain
  <2>1. /\ request.at = "done" /\ request' = [request EXCEPT !.at = "initialized"]
        /\ user' = cookie
        /\ callback' = [callback EXCEPT !.shows = "blank", !.due = (cookie # user)]
        /\ UNCHANGED <<try, pending, address, cookie, linked>>
    BY <1>14 DEF InitializeAgain
  <2>2. /\ OAuthTyped' /\ callback'.handled = callback.handled /\ callback'.shows = "blank"
        /\ request'.at = "initialized" /\ request'.try = request.try
    BY <1>1, <2>1 DEF OAuthTyped, Effects, Exchanges
  <2> QED
    BY <1>1, <2>1, <2>2, AttemptsAreKept DEF KeepsAttempts, Started, EffectIsOver
<1>15. CASE NavigateTo \/ Abandon
  <2>1. /\ address' = 0 /\ callback' = FreshPage /\ request' = NoRequest
        /\ user' \in {user, cookie} /\ UNCHANGED <<try, pending, cookie, linked>>
    BY <1>15 DEF NavigateTo, Abandon
  <2>2. OAuthTyped' /\ request'.at = "none"
    BY <1>1, <2>1 DEF OAuthTyped, FreshPage, NoRequest, Effects, Exchanges
  <2> QED
    BY <2>1, <2>2, AttemptsAreKept DEF KeepsAttempts, Started
<1>16. CASE OtherTab \/ TakesTooLong \/ UNCHANGED oauthVars
  <2>1. /\ cookie' \in People \cup {""}
        /\ UNCHANGED <<try, pending, address, user, callback, request, linked>>
    BY <1>1, <1>16 DEF OtherTab, TakesTooLong, oauthVars, OAuthTyped
  <2>2. OAuthTyped'
    BY <1>1, <2>1 DEF OAuthTyped
  <2> QED
    BY <1>1, <2>1, <2>2, AttemptsAreKept
    DEF KeepsAttempts, Started, AttemptsStarted, EffectIsOver, AnswerIsUsed, SuccessIsShown
<1>17. CASE ReloadApp
  <2>1. /\ user' = cookie /\ address' = 0
        /\ try' = [a \in Tries |-> IF try[a].step = "starting" THEN [try[a] EXCEPT !.step = "dropped"]
                                   ELSE try[a]]
        /\ pending' = 0 \/ pending' = pending
        /\ UNCHANGED <<callback, request, cookie, linked>>
    BY <1>17 DEF ReloadApp
  <2>2. OAuthTyped'
    BY <1>1, <2>1 DEF OAuthTyped, TryRecords
  <2>3. KeepsAttempts
    BY <1>1, <2>1 DEF OAuthTyped, TryRecords, Started, KeepsAttempts
  <2> QED
    BY <1>1, <2>1, <2>2, <2>3, AttemptsAreKept DEF EffectIsOver, AnswerIsUsed, SuccessIsShown
<1> QED
  BY <1>3, <1>4, <1>5, <1>6, <1>8, <1>9, <1>10, <1>11, <1>12, <1>13, <1>14, <1>15, <1>16, <1>17
  DEF OAuthNext, SignInWithIdentityProvider, LinkIdentityProvider

\* AuthCallback.tsx validates the state, compares the current user with the one
\* who started the link, and marks the attempt as handled before it exchanges the
\* code: an answer of the provider is linked to the account it was asked for, and
\* one that succeeds is not shown as an error, however the attempts, tabs and old
\* addresses are mixed.
THEOREM ProviderAnswerIsUsed == OAuthSpec => []AnswerIsUsed
<1>1. OAuthInit => OAuthSound
  <2> SUFFICES ASSUME OAuthInit PROVE OAuthSound
    OBVIOUS
  <2>1. NoTry \in TryRecords
    BY DEF NoTry, TryRecords
  <2>2. OAuthTyped
    BY <2>1 DEF OAuthInit, OAuthTyped, FreshPage, NoRequest, Effects, Exchanges
  <2> QED
    BY <2>2 DEF OAuthInit, OAuthSound, NoRequest, AttemptsStarted,
       SentByStarter, EffectIsOver, AnswerIsUsed, LinkedByStarter, SuccessIsShown
<1>2. OAuthSound /\ [OAuthNext]_oauthVars => OAuthSound'
  BY OAuthStepIsSound
<1>3. OAuthSound => AnswerIsUsed
  BY DEF OAuthSound
<1> QED
  BY <1>1, <1>2, <1>3, PTL DEF OAuthSpec

-----------------------------------------------------------------------------
(* Filters in the state and in the address *)

\* The two refs are one: the effects write them together.
RefsAgree == lastUrl = lastStore

\* What state, address and refs all hold.
Carried(f) == rendered = f /\ lastUrl = f /\ router.filter = f

\* How far the effects are, by the writes since the user did something.  After
\* one, only a state that another effect has queued is still to come; after two
\* there is nothing left to carry over.
FewWrites ==
    /\ writes \in 0 .. 2
    /\ writes = 1 =>
        /\ Carried(rendered)
        /\ filters = rendered \/ seen.page = router.page
    /\ writes = 2 => Carried(filters)

\* As long as no address is replaced before it is rendered, either all is
\* carried, or the address rendered last has come back into the state and is
\* about to win, or the router has an address that was not rendered.
Waiting ==
    \/ Carried(filters)
    \/ Carried(rendered) /\ seen.filter = filters /\ filters # rendered /\ seen.page = router.page
    \/ rendered = filters /\ lastUrl = filters /\ seen.filter = filters

\* The user of the profile page rendered is asked for, or known.
ProfileKnown == seen.page \in Profiles => seen.page \in asked \/ profileUser = seen.page

FiltersSound ==
    RefsAgree /\ FewWrites /\ overtook \in BOOLEAN /\ (~overtook => Waiting /\ ProfileKnown)

LEMMA ShowAddressIsSound == ASSUME FiltersSound, ShowAddress PROVE FiltersSound'
<1> DEFINE new == router.filter
           external == seen.filter # new /\ new # lastUrl
           turned == rendered # filters \/ seen.filter # new \/ seen.view # router.view
<1>1. /\ lastUrl = lastStore /\ FewWrites /\ overtook \in BOOLEAN
      /\ ~overtook => Waiting /\ ProfileKnown
  BY DEF FiltersSound, RefsAgree
<1>2. /\ seen' = router /\ rendered' = filters
      /\ filters' = IF external THEN new ELSE RootLayout(seen, router)
      /\ IF external THEN StateToUrl(filters, new, new, router, writes)
         ELSE IF turned THEN StateToUrl(filters, lastUrl, lastStore, router, writes)
         ELSE UNCHANGED <<router, lastUrl, lastStore, writes, overtook>>
      /\ ProfileOf(seen, router)
  BY DEF ShowAddress
\* Either the address is written, with what the state was ...
<1>3. \/ /\ external => filters # new
         /\ ~external => filters # lastUrl
         /\ router' = [page |-> router.page, filter |-> filters, view |-> router.view]
         /\ lastUrl' = filters /\ lastStore' = filters /\ writes' = writes + 1
         /\ overtook' = overtook
\* ... or it is not, and what was external has arrived in the refs.
      \/ /\ router' = router /\ writes' = writes /\ overtook' = overtook
         /\ external => filters = new /\ lastUrl' = new /\ lastStore' = new
         /\ ~external => lastUrl' = lastUrl /\ lastStore' = lastStore /\ (turned => filters = lastUrl)
  BY <1>1, <1>2 DEF StateToUrl
<1>4. RootLayout(seen, router) = filters \/ (seen.page # router.page /\ new = {} /\ filters' \in {{}, new})
  BY <1>2 DEF RootLayout
<1>5. seen'.page = router.page /\ router'.page = router.page
  BY <1>2, <1>3
<1>6. RefsAgree'
  BY <1>1, <1>3 DEF RefsAgree
<1> HIDE DEF external, turned
<1>7. FewWrites'
  <2>1. CASE writes = 0
    BY <1>1, <1>2, <1>3, <1>5, <2>1 DEF FewWrites, Carried
  <2>2. CASE writes \in {1, 2}
    <3>1. Carried(rendered) /\ ~external /\ (filters = rendered \/ seen.page = router.page)
      BY <1>1, <2>2 DEF FewWrites, Carried, external
    <3>2. filters' = filters
      BY <1>2, <3>1 DEF RootLayout, Carried
    <3>3. CASE writes' = writes + 1
      <4>1. writes = 1
        BY <1>1, <1>3, <2>2, <3>1, <3>3 DEF FewWrites, Carried
      <4> QED
        BY <1>2, <1>3, <1>5, <3>1, <3>2, <3>3, <4>1 DEF FewWrites, Carried
    <3>4. CASE writes' = writes /\ router' = router /\ lastUrl' = lastUrl
      <4>1. filters = lastUrl
        BY <1>3, <2>2, <3>1, <3>4 DEF Carried, turned
      <4> QED
        BY <1>2, <1>5, <2>2, <3>1, <3>2, <3>4, <4>1 DEF FewWrites, Carried
    <3> QED
      BY <1>3, <3>1, <3>3, <3>4
  <2> QED
    BY <1>1, <2>1, <2>2 DEF FewWrites
<1>8. ~overtook' => Waiting'
  <2> SUFFICES ASSUME ~overtook' PROVE Waiting'
    OBVIOUS
  <2>1. ~overtook /\ Waiting
    BY <1>1, <1>3
  <2>2. CASE Carried(filters)
    BY <1>2, <1>3, <2>2 DEF Carried, Waiting, RootLayout, external
  <2>3. CASE Carried(rendered) /\ filters # rendered /\ seen.page = router.page
    <3>1. ~external /\ filters' = filters /\ turned
      BY <1>2, <2>3 DEF Carried, RootLayout, external, turned
    <3> QED
      BY <1>2, <1>3, <2>3, <3>1 DEF Carried, Waiting
  <2>4. CASE rendered = filters /\ lastUrl = filters /\ seen.filter = filters
    <3>1. CASE external
      BY <1>2, <1>3, <1>5, <2>4, <3>1 DEF Carried, Waiting, external
    <3>2. CASE ~external
      BY <1>2, <1>3, <2>4, <3>2 DEF Carried, Waiting, RootLayout, external
    <3> QED
      BY <3>1, <3>2
  <2> QED
    BY <2>1, <2>2, <2>3, <2>4 DEF Waiting
<1>9. ~overtook' => ProfileKnown'
  BY <1>1, <1>2, <1>3, <1>5 DEF ProfileKnown, ProfileOf
<1>10. overtook' \in BOOLEAN
  BY <1>1, <1>3
<1> QED
  BY <1>6, <1>7, <1>8, <1>9, <1>10 DEF FiltersSound

LEMMA ShowStateIsSound == ASSUME FiltersSound, ShowState PROVE FiltersSound'
<1>1. /\ lastUrl = lastStore /\ FewWrites /\ overtook \in BOOLEAN
      /\ ~overtook => Waiting /\ ProfileKnown
  BY DEF FiltersSound, RefsAgree
<1>2. /\ rendered # filters /\ rendered' = filters
      /\ UNCHANGED <<seen, filters, asked, profileUser>>
  BY DEF ShowState
<1>3. \/ /\ filters # lastUrl
         /\ router' = [page |-> router.page, filter |-> filters, view |-> seen.view]
         /\ lastUrl' = filters /\ lastStore' = filters /\ writes' = writes + 1
         /\ overtook' = (overtook \/ router # seen)
      \/ /\ filters = lastUrl
         /\ UNCHANGED <<router, lastUrl, lastStore, writes, overtook>>
  BY <1>1 DEF ShowState, StateToUrl
<1>4. FewWrites'
  BY <1>1, <1>2, <1>3 DEF FewWrites, Carried
<1>5. ~overtook' => Waiting' /\ ProfileKnown'
  BY <1>1, <1>2, <1>3 DEF Waiting, Carried, ProfileKnown
<1> QED
  BY <1>1, <1>3, <1>4, <1>5 DEF FiltersSound, RefsAgree

LEMMA ChangeFiltersIsSound == ASSUME FiltersSound, NEW f, ChangeFilters(f) PROVE FiltersSound'
<1>1. /\ lastUrl = lastStore /\ FewWrites /\ overtook \in BOOLEAN
      /\ ~overtook => Waiting /\ ProfileKnown
  BY DEF FiltersSound, RefsAgree
<1>2. filters' = f /\ rendered' = f /\ UNCHANGED <<seen, asked, profileUser>>
  BY DEF ChangeFilters
<1>3. \/ f = rendered /\ UNCHANGED <<router, lastUrl, lastStore, writes, overtook>>
      \/ /\ f # rendered /\ f # lastUrl
         /\ router' = [page |-> router.page, filter |-> f, view |-> seen.view]
         /\ lastUrl' = f /\ lastStore' = f /\ writes' = 1
         /\ overtook' = (overtook \/ router # seen)
      \/ /\ f # rendered /\ f = lastUrl /\ writes' = 0
         /\ UNCHANGED <<router, lastUrl, lastStore, overtook>>
  BY <1>1 DEF ChangeFilters, StateToUrl
<1>4. FewWrites'
  BY <1>1, <1>2, <1>3 DEF FewWrites, Carried
<1>5. ~overtook' => Waiting' /\ ProfileKnown'
  BY <1>1, <1>2, <1>3 DEF Waiting, Carried, ProfileKnown
<1> QED
  BY <1>1, <1>3, <1>4, <1>5 DEF FiltersSound, RefsAgree

LEMMA GoToIsSound == ASSUME FiltersSound, NEW where, GoTo(where) PROVE FiltersSound'
<1>1. /\ lastUrl = lastStore /\ FewWrites /\ overtook \in BOOLEAN
      /\ ~overtook => Waiting /\ ProfileKnown
  BY DEF FiltersSound, RefsAgree
<1>2. /\ router' = where /\ writes' = 0 /\ overtook' = (overtook \/ seen # router)
      /\ UNCHANGED <<seen, filters, rendered, lastUrl, lastStore, asked, profileUser>>
  BY DEF GoTo
<1>3. ~overtook' => Waiting' /\ ProfileKnown'
  BY <1>1, <1>2 DEF Waiting, Carried, ProfileKnown
<1> QED
  BY <1>1, <1>2, <1>3 DEF FiltersSound, RefsAgree, FewWrites

LEMMA FiltersStepIsSound ==
    ASSUME FiltersSound, [FiltersNext]_filtersVars
    PROVE  FiltersSound'
<1>1. /\ lastUrl = lastStore /\ FewWrites /\ overtook \in BOOLEAN
      /\ ~overtook => Waiting /\ ProfileKnown
  BY DEF FiltersSound, RefsAgree
<1>2. CASE ShowAddress \/ ShowState
  BY <1>2, ShowAddressIsSound, ShowStateIsSound
<1>3. CASE \/ \E t \in Tags : ClickTag(t) \/ ClickTagInTree(t) \/ ClickTagInMemo(t)
           \/ Search \/ SelectShortcut \/ \E v \in Values : RemoveFilter(v)
  BY <1>3, ChangeFiltersIsSound
  DEF ClickTag, ClickTagInTree, ClickTagInMemo, Search, SelectShortcut, RemoveFilter
<1>4. CASE \/ \E t \in Tags : LeaveMemoForTag(t)
           \/ PickDay \/ ToggleTab
           \/ \E p \in Pages : Visit(p) \/ \E f \in {{}, {"tag1"}, {"tag2", "word"}} : Back(p, f)
  BY <1>4, GoToIsSound DEF LeaveMemoForTag, PickDay, ToggleTab, Visit, Back
<1>5. CASE ServerNames
  <2>1. PICK u \in asked :
            /\ asked' = asked \ {u} /\ profileUser' = u
            /\ overtook' = (overtook \/ asked # {u} \/ seen.page # u)
            /\ UNCHANGED <<router, seen, filters, rendered, lastUrl, lastStore, writes>>
    BY <1>5 DEF ServerNames
  <2>2. ~overtook' => Waiting' /\ ProfileKnown'
    BY <1>1, <2>1 DEF Waiting, Carried, ProfileKnown
  <2> QED
    BY <1>1, <2>1, <2>2 DEF FiltersSound, RefsAgree, FewWrites, Carried
<1>6. CASE NamingFails
  <2>1. overtook' /\ UNCHANGED <<router, seen, filters, rendered, lastUrl, lastStore, writes>>
    BY <1>6 DEF NamingFails
  <2>2. overtook' \in BOOLEAN
    BY <1>6 DEF NamingFails
  <2> QED
    BY <1>1, <2>1, <2>2 DEF FiltersSound, RefsAgree, FewWrites, Carried
<1>7. CASE ToggleSortOrder \/ SetTimeBasis \/ UNCHANGED filtersVars
  <2>1. UNCHANGED <<router, seen, filters, rendered, lastUrl, lastStore, asked, profileUser,
                    writes, overtook>>
    BY <1>7 DEF ToggleSortOrder, SetTimeBasis, SetView, filtersVars
  <2> QED
    BY <1>1, <2>1 DEF FiltersSound, RefsAgree, FewWrites, Waiting, Carried, ProfileKnown
<1>8. CASE LoadAgain
  <2>1. /\ seen' = router /\ filters' = router.filter /\ rendered' = router.filter
        /\ lastUrl' = router.filter /\ lastStore' = router.filter
        /\ asked' = {router.page} \cap Profiles /\ UNCHANGED <<router, writes, overtook>>
    BY <1>8 DEF LoadAgain
  <2> QED
    BY <1>1, <2>1 DEF FiltersSound, RefsAgree, FewWrites, Waiting, Carried, ProfileKnown
<1> QED
  BY <1>2, <1>3, <1>4, <1>5, <1>6, <1>7, <1>8 DEF FiltersNext

\* MemoFilterContext.tsx carries the filters both ways: its two refs keep the
\* effects from answering each other for ever, and once they are at rest the
\* page shows the list, and MainLayout the user, that its address names.
THEOREM PageShowsItsAddress == FiltersSpec => []PageIsAddressed
<1>1. FiltersInit => FiltersSound
  <2> SUFFICES ASSUME FiltersInit PROVE FiltersSound
    OBVIOUS
  <2>1. /\ router.page = "home" /\ router.filter = {} /\ seen = router /\ filters = {}
        /\ rendered = {} /\ lastUrl = {} /\ lastStore = {} /\ writes = 0 /\ overtook = FALSE
    BY DEF FiltersInit, At
  <2>2. RefsAgree /\ FewWrites /\ overtook \in BOOLEAN
    <3>1. FewWrites
      BY <2>1 DEF FewWrites
    <3>2. overtook \in BOOLEAN
      BY <2>1
    <3> QED
      BY <2>1, <3>1, <3>2 DEF RefsAgree
  <2>3. Waiting
    BY <2>1 DEF Waiting, Carried
  <2>4. ProfileKnown
    BY <2>1 DEF ProfileKnown, Profiles
  <2> QED
    BY <2>2, <2>3, <2>4 DEF FiltersSound
<1>2. FiltersSound /\ [FiltersNext]_filtersVars => FiltersSound'
  BY FiltersStepIsSound
<1>3. FiltersSound => PageIsAddressed
  <2> SUFFICES ASSUME FiltersSound PROVE PageIsAddressed
    OBVIOUS
  <2>1. AddressCalms
    BY DEF FiltersSound, FewWrites, AddressCalms
  <2>2. ListIsAddressed
    <3> SUFFICES ASSUME Calm, ~overtook PROVE rendered = router.filter /\ seen = router
      BY DEF ListIsAddressed
    <3> QED
      BY DEF Calm, FiltersSound, Waiting, Carried
  <2>3. ProfileMatches
    BY DEF ProfileMatches, FiltersSound, ProfileKnown, CountedFor, Profiles
  <2> QED
    BY <2>1, <2>2, <2>3 DEF PageIsAddressed
<1> QED
  BY <1>1, <1>2, <1>3, PTL DEF FiltersSpec

-----------------------------------------------------------------------------
(* The music player *)

Tracks == Songs \cup {Link}
Track == Current(queue, at)

\* The answer to this request is still waited for.
Awaited(w) == w.what = "song" /\ w.track # "none"

\* Only the track that is shown is waited for, and only in the session it was asked in.
WireIsCurrent(reqs, track, c) ==
    \A w \in reqs : Awaited(w) => w = Lookup(track, c) /\ track \in Songs /\ c # 0

\* The address is that of the track shown, or of one before it that is heard
\* until the answer comes.
AddressIsCurrent(r, reqs, track, c) ==
    \/ r \in {"none", track}
    \/ track \in Songs /\ c # 0 /\ Lookup(track, c) \in reqs

WireTyped(reqs) ==
    \A w \in reqs : /\ w.what = "tracks" => w.album \in Albums
                    /\ w.what = "song" => w = Lookup(w.track, w.by)

PlayerTyped ==
    /\ queue \in Seq(Tracks) /\ at \in Nat /\ record.queue \in Seq(Tracks) /\ record.at \in Nat
    /\ playing \in BOOLEAN /\ going \in BOOLEAN /\ stuck \in BOOLEAN /\ sessions \in Nat
    /\ WireTyped(wire)

\* The element follows the button and the address.
ElementFollows ==
    /\ going => playing /\ resolved # "none"
    /\ playing /\ resolved # "none" => going \/ stuck

PlayerSound ==
    /\ PlayerTyped /\ ElementFollows
    /\ WireIsCurrent(wire, Track, neteaseCookie)
    /\ AddressIsCurrent(resolved, wire, Track, neteaseCookie)
    /\ neteaseCookie = 0 => resolved \in {"none", Link}

LEMMA CurrentIsTrack ==
    ASSUME NEW q \in Seq(Tracks), NEW i \in Nat
    PROVE  Current(q, i) \in Tracks \cup {"none"}
BY DEF Current

LEMMA ElementIsSound ==
    ASSUME ElementFollows, going \in BOOLEAN, stuck \in BOOLEAN, playing' \in BOOLEAN, Sound
    PROVE  ElementFollows' /\ going' \in BOOLEAN /\ stuck' \in BOOLEAN
<1>1. CASE <<playing', resolved'>> = <<playing, resolved>>
  BY <1>1 DEF Sound, ElementFollows
<1>2. CASE <<playing', resolved'>> # <<playing, resolved>>
  <2>1. going' = (playing' /\ resolved' # "none") /\ stuck' = FALSE
    BY <1>2 DEF Sound
  <2> QED
    BY <2>1 DEF ElementFollows
<1> QED
  BY <1>1, <1>2

\* What is left of the requests asked for before: nobody waits for a song among them.
LEMMA NobodyWaits ==
    ASSUME NEW reqs, WireTyped(reqs)
    PROVE  WireTyped(Outlived(reqs)) /\ \A w \in Outlived(reqs) : ~Awaited(w)
<1> SUFFICES ASSUME NEW w \in Outlived(reqs)
             PROVE  /\ w.what = "tracks" => w.album \in Albums
                    /\ w.what = "song" => w = Lookup(w.track, w.by) /\ w.track = "none"
  BY DEF WireTyped, Awaited
<1>1. PICK v \in reqs : w = IF v.what = "song" THEN [v EXCEPT !.track = "none"] ELSE v
  BY DEF Outlived
<1>2. CASE v.what = "song"
  <2>1. v = [what |-> "song", track |-> v.track, by |-> v.by]
    BY <1>2 DEF WireTyped, Lookup
  <2>2. [v EXCEPT !.track = "none"] = [what |-> "song", track |-> "none", by |-> v.by]
    BY <2>1
  <2> QED
    BY <1>1, <1>2, <2>2 DEF Lookup
<1>3. CASE v.what # "song"
  BY <1>1, <1>3 DEF WireTyped
<1> QED
  BY <1>2, <1>3

\* The resolution effect, for any queue, index and session.
LEMMA ResolveIsSound ==
    ASSUME NEW q \in Seq(Tracks), NEW i \in Nat, NEW c, NEW p \in BOOLEAN, NEW reqs, WireTyped(reqs),
           Resolve(q, i, c, p, resolved, reqs)
    PROVE  /\ playing' \in BOOLEAN /\ WireTyped(wire')
           /\ WireIsCurrent(wire', Current(q, i), c)
           /\ AddressIsCurrent(resolved', wire', Current(q, i), c)
           /\ c = 0 => resolved' \in {"none", Link}
<1> DEFINE track == Current(q, i)
           new == IF track \in Songs /\ c # 0 THEN {Lookup(track, c)} ELSE {}
<1>1. track \in Tracks \cup {"none"}
  BY CurrentIsTrack
<1>2. /\ resolved' = IF track = Link THEN Link ELSE IF track = "none" \/ c = 0 THEN "none" ELSE resolved
      /\ playing' = (p /\ track # "none" /\ (track = Link \/ c # 0))
      /\ wire' = Outlived(reqs) \cup new
  BY DEF Resolve
<1>3. WireTyped(Outlived(reqs)) /\ \A w \in Outlived(reqs) : ~Awaited(w)
  BY NobodyWaits
<1> HIDE DEF track
<1>4. \A w \in new : w = Lookup(track, c) /\ track \in Songs /\ c # 0 /\ w.what = "song"
  BY DEF Lookup
<1>5. WireTyped(wire')
  <2>1. \A w \in new : w = Lookup(w.track, w.by)
    BY DEF Lookup
  <2> QED
    BY <1>2, <1>3, <1>4, <2>1 DEF WireTyped
<1>6. WireIsCurrent(wire', track, c)
  BY <1>2, <1>3, <1>4 DEF WireIsCurrent
<1>7. AddressIsCurrent(resolved', wire', track, c)
  BY <1>1, <1>2 DEF AddressIsCurrent, Tracks
<1>8. c = 0 => resolved' \in {"none", Link}
  BY <1>2
<1>9. playing' \in BOOLEAN
  BY <1>2
<1> QED
  BY <1>5, <1>6, <1>7, <1>8, <1>9 DEF track

LEMMA TurnIsSound ==
    ASSUME PlayerSound, NEW q \in Seq(Tracks), NEW i \in Nat, NEW p \in BOOLEAN,
           Turn(q, i, neteaseCookie, p, resolved), UNCHANGED sessions
    PROVE  PlayerSound'
<1>1. /\ queue' = q /\ at' = i /\ neteaseCookie' = neteaseCookie /\ Sound
      /\ record' = [queue |-> q, at |-> i]
  BY DEF Turn
<1>2. /\ PlayerTyped /\ WireTyped(wire) /\ ElementFollows
      /\ going \in BOOLEAN /\ stuck \in BOOLEAN /\ sessions \in Nat
  BY DEF PlayerSound, PlayerTyped
<1>3. /\ playing' \in BOOLEAN /\ WireTyped(wire')
      /\ WireIsCurrent(wire', Current(q, i), neteaseCookie)
      /\ AddressIsCurrent(resolved', wire', Current(q, i), neteaseCookie)
      /\ neteaseCookie = 0 => resolved' \in {"none", Link}
  <2>1. CASE <<q, i, neteaseCookie>> = <<queue, at, neteaseCookie>>
    <3>1. playing' = p /\ resolved' = resolved /\ wire' = wire /\ q = queue /\ i = at
      BY <2>1 DEF Turn
    <3> QED
      BY <1>2, <3>1 DEF PlayerSound, Track
  <2>2. CASE <<q, i, neteaseCookie>> # <<queue, at, neteaseCookie>>
    <3>1. Resolve(q, i, neteaseCookie, p, resolved, wire)
      BY <2>2 DEF Turn
    <3> QED
      BY <1>2, <3>1, ResolveIsSound
  <2> QED
    BY <2>1, <2>2
<1>4. ElementFollows' /\ going' \in BOOLEAN /\ stuck' \in BOOLEAN
  BY <1>1, <1>2, <1>3, ElementIsSound
<1>5. PlayerTyped'
  BY <1>1, <1>2, <1>3, <1>4 DEF PlayerTyped
<1> QED
  BY <1>1, <1>3, <1>4, <1>5 DEF PlayerSound, Track

\* A step that resolves another queue or goes on in another session.
LEMMA ResolutionIsSound ==
    ASSUME PlayerSound, NEW q \in Seq(Tracks), NEW i \in Nat, NEW p \in BOOLEAN,
           NEW reqs, WireTyped(reqs), Resolve(q, i, neteaseCookie', p, resolved, reqs), Sound,
           queue' = q, at' = i, record'.queue \in Seq(Tracks), record'.at \in Nat, sessions' \in Nat
    PROVE  PlayerSound'
<1>1. ElementFollows /\ going \in BOOLEAN /\ stuck \in BOOLEAN
  BY DEF PlayerSound, PlayerTyped
<1> DEFINE c == neteaseCookie'
<1>2. Resolve(q, i, c, p, resolved, reqs)
  OBVIOUS
<1>3. /\ playing' \in BOOLEAN /\ WireTyped(wire')
      /\ WireIsCurrent(wire', Current(q, i), c)
      /\ AddressIsCurrent(resolved', wire', Current(q, i), c)
      /\ c = 0 => resolved' \in {"none", Link}
  <2> HIDE DEF c
  <2> QED
    BY <1>2, ResolveIsSound
<1>4. ElementFollows' /\ going' \in BOOLEAN /\ stuck' \in BOOLEAN
  BY <1>1, <1>3, ElementIsSound
<1>5. PlayerTyped'
  BY <1>3, <1>4 DEF PlayerTyped
<1> QED
  BY <1>3, <1>4, <1>5 DEF PlayerSound, Track

\* A step that leaves the player alone, and the requests somebody waits for.
LEMMA OtherRequestIsSound ==
    ASSUME PlayerSound, UNCHANGED <<queue, at, playing, resolved, going, neteaseCookie, record, stuck>>,
           sessions' = sessions, WireTyped(wire'), \A w \in wire' : Awaited(w) => w \in wire,
           \A w \in wire : Awaited(w) => w \in wire'
    PROVE  PlayerSound'
<1>1. /\ PlayerTyped /\ ElementFollows /\ Track' = Track
      /\ WireIsCurrent(wire, Track, neteaseCookie)
      /\ AddressIsCurrent(resolved, wire, Track, neteaseCookie)
      /\ neteaseCookie = 0 => resolved \in {"none", Link}
  BY DEF PlayerSound, Track
<1>2. WireIsCurrent(wire', Track, neteaseCookie)
  BY <1>1 DEF WireIsCurrent
<1>3. AddressIsCurrent(resolved, wire', Track, neteaseCookie)
  <2>1. Track \in Songs => Awaited(Lookup(Track, neteaseCookie))
    BY DEF Awaited, Lookup, Songs
  <2> QED
    BY <1>1, <2>1 DEF AddressIsCurrent
<1>4. PlayerTyped' /\ ElementFollows'
  BY <1>1 DEF PlayerTyped, ElementFollows
<1> QED
  BY <1>1, <1>2, <1>3, <1>4 DEF PlayerSound

LEMMA SignsOutIsSound == ASSUME PlayerSound, SignsOut PROVE PlayerSound'
<1>1. /\ queue' = <<>> /\ at' = 0 /\ neteaseCookie' = 0 /\ playing' = FALSE /\ resolved' = "none"
      /\ wire' = Outlived(wire) \cup {[what |-> "logout"]} /\ Sound
      /\ record' = [queue |-> <<>>, at |-> 0] /\ sessions' = sessions
  BY DEF SignsOut, Empty
<1>2. /\ WireTyped(wire) /\ ElementFollows /\ going \in BOOLEAN /\ stuck \in BOOLEAN
      /\ sessions \in Nat
  BY DEF PlayerSound, PlayerTyped
<1>3. ElementFollows' /\ going' \in BOOLEAN /\ stuck' \in BOOLEAN
  BY <1>1, <1>2, ElementIsSound
<1>4. WireTyped(wire') /\ \A w \in wire' : ~Awaited(w)
  <2>1. WireTyped(Outlived(wire)) /\ \A w \in Outlived(wire) : ~Awaited(w)
    BY <1>2, NobodyWaits
  <2> QED
    BY <1>1, <2>1 DEF WireTyped, Awaited
<1>5. PlayerTyped'
  <2>1. queue' \in Seq(Tracks) /\ record'.queue \in Seq(Tracks)
    BY <1>1
  <2>2. at' \in Nat /\ record'.at \in Nat /\ playing' \in BOOLEAN /\ sessions' \in Nat
    BY <1>1, <1>2
  <2> QED
    BY <1>3, <1>4, <2>1, <2>2 DEF PlayerTyped
<1> QED
  BY <1>1, <1>3, <1>4, <1>5 DEF PlayerSound, WireIsCurrent, AddressIsCurrent

LEMMA PlayerStepIsSound ==
    ASSUME PlayerSound, [PlayerNext]_playerVars
    PROVE  PlayerSound'
<1>1. /\ PlayerTyped /\ WireTyped(wire) /\ ElementFollows /\ queue \in Seq(Tracks) /\ at \in Nat
      /\ record.queue \in Seq(Tracks) /\ record.at \in Nat /\ sessions \in Nat
      /\ playing \in BOOLEAN /\ going \in BOOLEAN /\ stuck \in BOOLEAN
      /\ WireIsCurrent(wire, Track, neteaseCookie)
      /\ AddressIsCurrent(resolved, wire, Track, neteaseCookie)
      /\ neteaseCookie = 0 => resolved \in {"none", Link}
  BY DEF PlayerSound, PlayerTyped
<1>2. CASE PlayPause \/ PickTrack \/ ClearAll \/ PlayLink \/ PlayRefused
  <2>1. \E q \in Seq(Tracks), i \in Nat, p \in BOOLEAN : Turn(q, i, neteaseCookie, p, resolved)
    <3>1. <<Link>> \in Seq(Tracks) /\ <<>> \in Seq(Tracks)
      BY DEF Tracks
    <3>2. \A i \in 1 .. Len(queue) : i \in Nat
      BY <1>1
    <3> QED
      BY <1>1, <1>2, <3>1, <3>2 DEF PlayPause, PickTrack, ClearAll, PlayLink, PlayRefused
  <2>2. sessions' = sessions
    BY <1>2 DEF PlayPause, PickTrack, ClearAll, PlayLink, PlayRefused, Rest
  <2> QED
    BY <2>1, <2>2, TurnIsSound
<1>3. ASSUME NEW step \in {"next", "prev"}, queue # <<>> PROVE \A i \in Neighbours(step) : i \in Nat
  <2>1. Len(queue) \in Nat /\ Len(queue) # 0
    BY <1>1, <1>3
  <2> QED
    BY <1>1, <2>1 DEF Neighbours
<1>4. CASE Skip("next") \/ Skip("prev")
  <2>1. \E i \in Nat : Turn(queue, i, neteaseCookie, TRUE, resolved)
    BY <1>3, <1>4 DEF Skip
  <2>2. sessions' = sessions
    BY <1>4 DEF Skip, Rest
  <2> QED
    BY <1>1, <2>1, <2>2, TurnIsSound
<1>5. CASE Ended
  <2>1. sessions' = sessions
    BY <1>5 DEF Ended, Rest
  <2>2. CASE mode = "single"
    <3>1. UNCHANGED <<queue, at, neteaseCookie, playing, resolved, wire, going, stuck, record>>
      BY <1>5, <2>2 DEF Ended
    <3> QED
      BY <1>1, <2>1, <3>1, OtherRequestIsSound
  <2>3. ASSUME going' = FALSE, stuck' = TRUE,
               UNCHANGED <<queue, at, neteaseCookie, playing, resolved, wire, record>>
        PROVE  PlayerSound'
    <3>1. PlayerTyped' /\ ElementFollows'
      BY <1>1, <2>1, <2>3 DEF PlayerTyped, ElementFollows
    <3> QED
      BY <1>1, <2>3, <3>1 DEF PlayerSound, Track
  <2>4. CASE mode # "single"
    <3>1. PICK i \in Neighbours("next") :
              IF i = at THEN /\ going' = FALSE /\ stuck' = TRUE
                             /\ UNCHANGED <<queue, at, neteaseCookie, playing, resolved, wire, record>>
              ELSE Turn(queue, i, neteaseCookie, TRUE, resolved)
      BY <1>5, <2>4 DEF Ended
    <3>2. CASE i = at
      BY <2>3, <3>1, <3>2
    <3>3. CASE i # at /\ queue # <<>>
      BY <1>1, <1>3, <2>1, <3>1, <3>3, TurnIsSound
    <3>4. CASE queue = <<>>
      <4>1. Track = "none"
        BY <3>4 DEF Track, Current
      <4>2. resolved = "none"
        BY <1>1, <4>1 DEF AddressIsCurrent, Songs
      <4> QED
        BY <1>1, <1>5, <4>2 DEF Ended, ElementFollows
    <3> QED
      BY <3>2, <3>3, <3>4
  <2> QED
    BY <2>2, <2>4
<1>6. CASE SignOutOfService \/ SessionExpired
  BY <1>6, SignsOutIsSound DEF SignOutOfService, SessionExpired
<1>7. CASE NextMode \/ SessionEnds \/ CancelLogin \/ Scan \/ UNCHANGED playerVars
  <2>1. UNCHANGED <<queue, at, playing, resolved, going, neteaseCookie, record, stuck, sessions, wire>>
    BY <1>7 DEF NextMode, SessionEnds, CancelLogin, Scan, playerVars, Rest, Player, Dialog
  <2> QED
    BY <1>1, <2>1, OtherRequestIsSound
<1>8. CASE LogoutArrives \/ ListsArrive \/ Unanswered \/ KeyArrives
  <2>1. UNCHANGED <<queue, at, playing, resolved, going, neteaseCookie, record, stuck, sessions>>
    BY <1>8 DEF LogoutArrives, ListsArrive, Unanswered, KeyArrives, Rest, Player, Dialog
  <2>2. PICK w \in wire : ~Awaited(w) /\ wire' = wire \ {w}
    BY <1>8 DEF LogoutArrives, ListsArrive, Unanswered, KeyArrives, Awaited
  <2>3. WireTyped(wire')
    BY <1>1, <2>2 DEF WireTyped
  <2> QED
    BY <2>1, <2>2, <2>3, OtherRequestIsSound
<1>9. CASE ChoosePlaylist \/ StartQrLogin \/ Poll
  <2>1. UNCHANGED <<queue, at, playing, resolved, going, neteaseCookie, record, stuck, sessions>>
    BY <1>9 DEF ChoosePlaylist, StartQrLogin, Poll, Rest, Dialog
  <2>2. PICK w : /\ wire' = wire \cup {w} /\ w.what # "song"
                 /\ w.what = "tracks" => w.album \in Albums
    <3>1. CASE ChoosePlaylist
      <4>1. PICK a \in Albums :
                wire' = wire \cup {[what |-> "tracks", album |-> a, by |-> neteaseCookie]}
        BY <3>1 DEF ChoosePlaylist
      <4> DEFINE w == [what |-> "tracks", album |-> a, by |-> neteaseCookie]
      <4>2. w.what = "tracks" /\ w.album = a
        OBVIOUS
      <4> HIDE DEF w
      <4>3. wire' = wire \cup {w}
        BY <4>1 DEF w
      <4> QED
        BY <4>2, <4>3
    <3>2. CASE StartQrLogin
      <4>1. wire' = wire \cup {[what |-> "key"]} /\ [what |-> "key"].what = "key"
        BY <3>2 DEF StartQrLogin
      <4> QED
        BY <4>1
    <3>3. CASE Poll
      <4>1. /\ wire' = wire \cup {[what |-> "poll", key |-> login.key]}
            /\ [what |-> "poll", key |-> login.key].what = "poll"
        BY <3>3 DEF Poll
      <4> QED
        BY <4>1
    <3> QED
      BY <1>9, <3>1, <3>2, <3>3
  <2>3. WireTyped(wire') /\ ~Awaited(w)
    BY <1>1, <2>2 DEF WireTyped, Awaited
  <2> QED
    BY <2>1, <2>2, <2>3, OtherRequestIsSound
<1>10. CASE InitPlayer
  <2>1. PICK c \in {held, storedCookie} :
            /\ queue' = record.queue /\ at' = record.at
            /\ Resolve(queue', at', neteaseCookie', playing, resolved,
                       (wire \ {[what |-> "cookie"]}) \cup
                           (IF c = 0 THEN {} ELSE {[what |-> "lists", by |-> c]}))
    BY <1>10 DEF InitPlayer
  <2> DEFINE reqs == (wire \ {[what |-> "cookie"]}) \cup
                         (IF c = 0 THEN {} ELSE {[what |-> "lists", by |-> c]})
  <2>2. WireTyped(reqs)
    BY <1>1 DEF WireTyped
  <2>3. Sound /\ record' = record /\ sessions' = sessions
    BY <1>10 DEF InitPlayer
  <2> HIDE DEF reqs
  <2>4. Resolve(record.queue, record.at, neteaseCookie', playing, resolved, reqs)
    BY <2>1 DEF reqs
  <2> QED
    BY <1>1, <2>1, <2>2, <2>3, <2>4, ResolutionIsSound
<1>11. CASE TracksArrive
  <2>1. PICK w \in wire :
            /\ w.what = "tracks" /\ queue' = w.album /\ at' = 1
            /\ Resolve(w.album, 1, neteaseCookie, TRUE, resolved, wire \ {w})
    BY <1>11 DEF TracksArrive
  <2>2. /\ Sound /\ record' = [queue |-> queue', at |-> 1] /\ neteaseCookie' = neteaseCookie
        /\ sessions' = sessions
    BY <1>11 DEF TracksArrive, Rest
  <2>3. w.album \in Seq(Tracks)
    <3>1. <<"song1", "song2">> \in Seq(Tracks) /\ <<"song3">> \in Seq(Tracks)
      BY DEF Tracks, Songs
    <3> QED
      BY <1>1, <2>1, <3>1 DEF WireTyped, Albums
  <2>4. WireTyped(wire \ {w})
    BY <1>1 DEF WireTyped
  <2>5. record'.queue \in Seq(Tracks) /\ record'.at \in Nat
    BY <2>1, <2>2, <2>3
  <2> QED
    BY <1>1, <2>1, <2>2, <2>3, <2>4, <2>5, ResolutionIsSound
<1>12. CASE SongArrives
  <2>1. PICK w \in wire :
            /\ w.what = "song" /\ w.track # "none" /\ wire' = wire \ {w}
            /\ \/ resolved' = w.track /\ playing' = playing
               \/ resolved' = "none" /\ playing' = FALSE
    BY <1>12 DEF SongArrives
  <2>2. /\ Sound /\ UNCHANGED <<queue, at, neteaseCookie, record, sessions>>
    BY <1>12 DEF SongArrives, Rest
  <2>3. w.track = Track /\ neteaseCookie # 0
    BY <1>1, <2>1 DEF WireIsCurrent, Awaited, Lookup
  <2>4. WireTyped(wire') /\ WireIsCurrent(wire', Track, neteaseCookie)
    BY <1>1, <2>1 DEF WireTyped, WireIsCurrent
  <2>5. AddressIsCurrent(resolved', wire', Track, neteaseCookie)
    BY <2>1, <2>3 DEF AddressIsCurrent
  <2>6. playing' \in BOOLEAN
    BY <1>1, <2>1
  <2>7. ElementFollows' /\ going' \in BOOLEAN /\ stuck' \in BOOLEAN
    BY <1>1, <2>2, <2>6, ElementIsSound
  <2>8. PlayerTyped'
    BY <1>1, <2>2, <2>4, <2>6, <2>7 DEF PlayerTyped
  <2> QED
    BY <2>2, <2>3, <2>4, <2>5, <2>7, <2>8 DEF PlayerSound, Track
<1>13. CASE PollArrives
  <2>1. PICK w \in wire :
            /\ w.what = "poll"
            /\ IF w.key \in scanned \ lapsed
               THEN /\ sessions' = sessions + 1
                    /\ queue' = queue /\ at' = at /\ neteaseCookie' = sessions'
                    /\ Resolve(queue, at, sessions', playing, resolved,
                               (wire \ {w}) \cup {[what |-> "lists", by |-> sessions']})
               ELSE /\ wire' = wire \ {w}
                    /\ UNCHANGED <<queue, at, neteaseCookie, resolved, playing, sessions>>
    BY <1>13 DEF PollArrives
  <2>2. Sound /\ record' = record
    BY <1>13 DEF PollArrives
  <2>3. CASE w.key \in scanned \ lapsed
    <3> DEFINE reqs == (wire \ {w}) \cup {[what |-> "lists", by |-> sessions']}
    <3>1. WireTyped(reqs)
      BY <1>1 DEF WireTyped
    <3>2. Resolve(queue, at, neteaseCookie', playing, resolved, reqs)
      BY <2>1, <2>3
    <3>3. queue' = queue /\ at' = at /\ sessions' \in Nat
      BY <1>1, <2>1, <2>3
    <3> HIDE DEF reqs
    <3> QED
      BY <1>1, <2>2, <3>1, <3>2, <3>3, ResolutionIsSound
  <2>4. CASE w.key \notin scanned \ lapsed
    <3>1. /\ wire' = wire \ {w} /\ UNCHANGED <<queue, at, neteaseCookie, resolved, playing, sessions>>
      BY <2>1, <2>4
    <3>2. going' = going /\ stuck' = stuck
      BY <2>2, <3>1 DEF Sound
    <3>3. ~Awaited(w) /\ WireTyped(wire')
      BY <1>1, <2>1, <3>1 DEF Awaited, WireTyped
    <3> QED
      BY <2>2, <3>1, <3>2, <3>3, OtherRequestIsSound
  <2> QED
    BY <2>3, <2>4
<1>14. CASE ReloadPlayer
  <2>1. /\ queue' = <<>> /\ at' = 0 /\ playing' = FALSE /\ resolved' = "none" /\ going' = FALSE
        /\ neteaseCookie' = 0 /\ stuck' = FALSE /\ wire' = {[what |-> "cookie"]}
        /\ record' = [queue |-> <<>>, at |-> 0] /\ sessions' = sessions
    BY <1>14 DEF ReloadPlayer, Empty
  <2>2. queue' \in Seq(Tracks) /\ record'.queue \in Seq(Tracks) /\ at' \in Nat /\ record'.at \in Nat
    BY <2>1
  <2>3. WireTyped(wire') /\ \A w \in wire' : ~Awaited(w)
    BY <2>1 DEF WireTyped, Awaited
  <2>4. PlayerTyped'
    BY <1>1, <2>1, <2>2, <2>3 DEF PlayerTyped
  <2> QED
    BY <2>1, <2>3, <2>4 DEF PlayerSound, ElementFollows, WireIsCurrent, AddressIsCurrent
<1> QED
  BY <1>2, <1>4, <1>5, <1>6, <1>7, <1>8, <1>9, <1>10, <1>11, <1>12, <1>13, <1>14 DEF PlayerNext

\* EmbeddedMusicPlayer.tsx resolves the current track in an effect whose cleanup
\* makes every answer asked for before it unwanted, and starts or pauses the element
\* in another: whatever order clicks, answers, expiries and endings come in, what
\* is heard is the track that is shown, and the button tells whether it is.
THEOREM WhatIsHeardIsShown == PlayerSpec => []HeardIsShown
<1>1. PlayerInit => PlayerSound
  <2> SUFFICES ASSUME PlayerInit PROVE PlayerSound
    OBVIOUS
  <2>1. /\ queue = <<>> /\ at = 0 /\ playing = FALSE /\ resolved = "none" /\ going = FALSE
        /\ stuck = FALSE /\ wire = {[what |-> "cookie"]} /\ sessions = 1
        /\ record = [queue |-> <<>>, at |-> 0]
    BY DEF PlayerInit, Empty
  <2>2. queue \in Seq(Tracks) /\ record.queue \in Seq(Tracks) /\ at \in Nat /\ record.at \in Nat
    BY <2>1
  <2>3. WireTyped(wire) /\ \A w \in wire : ~Awaited(w)
    BY <2>1 DEF WireTyped, Awaited
  <2>4. PlayerTyped
    BY <2>1, <2>2, <2>3 DEF PlayerTyped
  <2> QED
    BY <2>1, <2>3, <2>4 DEF PlayerSound, ElementFollows, WireIsCurrent, AddressIsCurrent
<1>2. PlayerSound /\ [PlayerNext]_playerVars => PlayerSound'
  BY PlayerStepIsSound
<1>3. PlayerSound => HeardIsShown
  BY DEF PlayerSound, ElementFollows, AddressIsCurrent, Track, HeardIsShown
<1> QED
  BY <1>1, <1>2, <1>3, PTL DEF PlayerSpec

-----------------------------------------------------------------------------
(* The setting forms *)

Setting == [main : Nat, other : Nat, names : BOOLEAN, key : Nat]

SettingsTyped ==
    /\ stored \in Setting /\ known \in Setting /\ form \in Setting /\ want \in Setting
    /\ profile \in Nat /\ edits \in Nat /\ edits # 0 /\ entered \in Nat /\ spoilt \in BOOLEAN
    /\ load = [at |-> load.at, got |-> load.got]
    /\ load.at = "answered" => load.got = Shown(stored)

\* What a form leaves alone of a setting is as the client knows it.
FormFollows ==
    /\ section \in Forms => form.other = known.other /\ form.names = known.names
    /\ section = "ai" =>
        /\ form.main = known.main /\ synced = [other |-> known.other, names |-> known.names]
        /\ stored.main = 0 => stored.key = 0
    /\ section # "ai" => entered = 0
    /\ section = "none" => load.at = "no" /\ synced = [other |-> 0, names |-> FALSE]

\* A save that is not of the transcription set-up leaves it as it is.
LeavesSetup(p, v) ==
    p.part = "provider" \/ (p.part = "delete" /\ ~known.names)
        => v.other = known.other /\ v.names = known.names

\* A save on its way is of the form that is open, and will store what it means;
\* one that was stored has its answer on the way.
PutIsGood(p) ==
    /\ p = [part |-> p.part, v |-> p.v, at |-> p.at, got |-> p.got]
    /\ section = "ai" => p.part \in {"provider", "delete", "transcription"}
    /\ section \in Forms \cup {"ai"}
    /\ \/ /\ p.at = "sent" /\ known = Shown(stored)
          /\ Kept(p) \in Setting /\ Kept(p) = Meant(p) /\ LeavesSetup(p, Kept(p))
          /\ section = "ai" => (Kept(p).main = 0 => Kept(p).key = 0)
       \/ p.at = "saved" /\ p.got = Shown(stored) /\ LeavesSetup(p, p.got)

\* At most one save is under way, after the setting was loaded.
Saving ==
    \/ puts = {} /\ (load.at = "done" => known = Shown(stored))
    \/ load.at = "done" /\ \E p \in puts : puts = {p} /\ PutIsGood(p)

SettingsSound ==
    spoilt \in BOOLEAN /\ (~spoilt => SettingsTyped /\ FormFollows /\ Saving /\ SettingsKept)

LEMMA SettingFields ==
    /\ \A s \in Setting : /\ s.main \in Nat /\ s.other \in Nat /\ s.key \in Nat /\ s.names \in BOOLEAN
                          /\ s = [main |-> s.main, other |-> s.other, names |-> s.names, key |-> s.key]
    /\ \A m, o, k \in Nat, b \in BOOLEAN : [main |-> m, other |-> o, names |-> b, key |-> k] \in Setting
BY DEF Setting

LEMMA SameSetting ==
    ASSUME NEW s \in Setting, NEW r \in Setting,
           s.main = r.main, s.other = r.other, s.names = r.names, s.key = r.key
    PROVE  s = r
BY SettingFields

LEMMA ShownFields ==
    ASSUME NEW s \in Setting
    PROVE  /\ Shown(s) \in Setting /\ Shown(s).main = s.main /\ Shown(s).other = s.other
           /\ Shown(s).names = s.names /\ (Shown(s).key = 0 <=> s.key = 0)
BY DEF Shown, Setting

\* What the server stores, field by field, for a save of the setting it shows.
LEMMA KeptFields ==
    ASSUME NEW p, p.v \in Setting, stored \in Setting, known = Shown(stored)
    PROVE  /\ Kept(p) \in Setting /\ Kept(p).main = p.v.main
           /\ p.part \in {"provider", "delete"} /\ section = "ai" /\ p.v.other = 0 /\ ~p.v.names
                /\ ~known.names => Kept(p).other = stored.other /\ Kept(p).names = stored.names
           /\ ~(p.part \in {"provider", "delete"} /\ section = "ai" /\ p.v.other = 0 /\ ~p.v.names
                /\ ~known.names) => Kept(p).other = p.v.other /\ Kept(p).names = p.v.names
           /\ Kept(p).key = IF section = "ai" /\ p.v.main = 0 THEN 0
                            ELSE IF p.v.key # 0 THEN p.v.key ELSE stored.key
<1> DEFINE v == IF section = "ai" /\ p.part \in {"provider", "delete"} /\ p.v.other = 0 /\ ~p.v.names /\ ~known.names
                THEN [p.v EXCEPT !.other = stored.other, !.names = stored.names]
                ELSE p.v
           key == IF section = "ai" /\ v.main = 0 THEN 0 ELSE IF v.key # 0 THEN v.key ELSE stored.key
<1>1. Kept(p) = [v EXCEPT !.key = key]
  BY DEF Kept
<1>2. v \in Setting /\ v.main = p.v.main /\ v.key = p.v.key
  BY DEF Setting
<1>3. key \in Nat
  BY <1>2 DEF Setting
<1>4. /\ [v EXCEPT !.key = key] \in Setting /\ [v EXCEPT !.key = key].main = v.main
      /\ [v EXCEPT !.key = key].other = v.other /\ [v EXCEPT !.key = key].names = v.names
      /\ [v EXCEPT !.key = key].key = key
  <2> HIDE DEF key, v
  <2> QED
    BY <1>2, <1>3 DEF Setting
<1>5. /\ p.part \in {"provider", "delete"} /\ section = "ai" /\ p.v.other = 0 /\ ~p.v.names
           /\ ~known.names => v.other = stored.other /\ v.names = stored.names
      /\ ~(p.part \in {"provider", "delete"} /\ section = "ai" /\ p.v.other = 0 /\ ~p.v.names
           /\ ~known.names) => v.other = p.v.other /\ v.names = p.v.names
  BY DEF Setting
<1>6. key = IF section = "ai" /\ p.v.main = 0 THEN 0
            ELSE IF p.v.key # 0 THEN p.v.key ELSE stored.key
  BY <1>2
<1> HIDE DEF key, v
<1> QED
  BY <1>1, <1>2, <1>4, <1>5, <1>6


LEMMA PutStays ==
    ASSUME UNCHANGED <<section, stored, known, want>>
    PROVE  \A p : PutIsGood(p)' <=> PutIsGood(p)
BY DEF PutIsGood, LeavesSetup, Kept, Meant, Shown

\* A save under way stays as it is while the setting and the client's copy of it do.
LEMMA SavingStays ==
    ASSUME Saving, UNCHANGED <<section, stored, known, want, load, puts>>
    PROVE  Saving'
BY PutStays DEF Saving, Shown

\* Editing the form: what was saved and what is on its way stay as they are.
LEMMA EditIsSound ==
    ASSUME SettingsSound, ~spoilt, form' \in Setting, edits' \in Nat, edits' # 0, entered' \in Nat,
           UNCHANGED <<section, stored, known, load, synced, puts, want, spoilt>>, profile' \in Nat,
           section \in Forms => form'.other = form.other /\ form'.names = form.names,
           section = "ai" => form'.main = form.main,
           section # "ai" => entered' = entered,
           entered' = 0 \/ form'.other = entered'
    PROVE  SettingsSound'
<1>1. SettingsTyped' /\ SavedIsKept' /\ SetupStays'
  BY DEF SettingsSound, SettingsTyped, SettingsKept, SavedIsKept, SetupStays, Shown
<1>2. Saving'
  BY SavingStays DEF SettingsSound
<1>3. FormFollows'
  <2>1. FormFollows
    BY DEF SettingsSound
  <2> QED
    BY <2>1 DEF FormFollows
<1> QED
  BY <1>1, <1>2, <1>3 DEF SettingsSound, SettingsKept

\* A save that is sent: if nothing else is on its way, it will store what it means.
LEMMA PutIsSound ==
    ASSUME SettingsSound, ~spoilt, NEW part, NEW v \in Setting, Put(part, v),
           UNCHANGED <<section, stored, known, load, form, profile, synced, want, entered>>,
           edits' \in Nat, edits' # 0, section \in Forms \cup {"ai"},
           section = "ai" => part \in {"provider", "delete", "transcription"},
           \A p : /\ p.part = part /\ p.v = v
                  /\ known = Shown(stored) /\ stored \in Setting /\ want = stored
                  => /\ Kept(p) \in Setting /\ Kept(p) = Meant(p) /\ LeavesSetup(p, Kept(p))
    PROVE  SettingsSound'
<1>1. spoilt' \in BOOLEAN
  BY DEF Put, SettingsSound
<1>2. ASSUME ~spoilt' PROVE SettingsTyped' /\ FormFollows' /\ SavedIsKept' /\ SetupStays'
  <2>1. SettingsTyped /\ FormFollows /\ SavedIsKept /\ SetupStays
    BY DEF SettingsSound, SettingsKept
  <2>2. SettingsTyped'
    BY <1>1, <2>1 DEF SettingsTyped, Shown
  <2>3. FormFollows'
    BY <2>1 DEF FormFollows
  <2> QED
    BY <2>1, <2>2, <2>3 DEF SavedIsKept, SetupStays
<1>3. ASSUME ~spoilt' PROVE Saving'
  <2> DEFINE p == [part |-> part, v |-> v, at |-> "sent", got |-> NoProvider]
  <2>1. puts = {} /\ load.at = "done" /\ puts' = {p}
    BY <1>3 DEF Put
  <2>2. known = Shown(stored) /\ stored \in Setting /\ want = stored
    BY <2>1 DEF SettingsSound, SettingsTyped, Saving, SettingsKept, SavedIsKept
  <2>3. p.part = part /\ p.v = v /\ p.at = "sent" /\ p = [part |-> p.part, v |-> p.v, at |-> p.at, got |-> p.got]
    OBVIOUS
  <2> HIDE DEF p
  <2>4. Kept(p) \in Setting /\ Kept(p) = Meant(p) /\ LeavesSetup(p, Kept(p))
    BY <2>2, <2>3
  <2>5. section = "ai" => (Kept(p).main = 0 => Kept(p).key = 0)
    BY <2>2, <2>3, KeptFields
  <2>6. PutIsGood(p)
    BY <2>2, <2>3, <2>4, <2>5 DEF PutIsGood
  <2>7. \A q : PutIsGood(q)' <=> PutIsGood(q)
    BY PutStays
  <2> QED
    BY <2>1, <2>6, <2>7 DEF Saving
<1> QED
  BY <1>1, <1>2, <1>3 DEF SettingsSound, SettingsKept


LEMMA EditsAreSound ==
    ASSUME SettingsSound, ~spoilt,
           \/ \E s \in Forms : Edited(s) \/ SecretEdited(s)
           \/ EditProfile \/ ChooseProvider \/ EditTranscription
    PROVE  SettingsSound'
<1>1. SettingsTyped /\ SetupStays
  BY DEF SettingsSound, SettingsKept
<1>2. form \in Setting /\ edits \in Nat /\ edits # 0 /\ profile \in Nat /\ entered \in Nat
  BY <1>1 DEF SettingsTyped
<1>3. CASE \E s \in Forms : Edited(s) \/ SecretEdited(s)
  <2>1. edits' \in Nat /\ edits' # 0 /\ section \in Forms /\ section # "ai"
    BY <1>2, <1>3 DEF Edited, SecretEdited, NewEdit, Forms
  <2>2. form' = [form EXCEPT !.main = edits'] \/ form' = [form EXCEPT !.key = edits']
    BY <1>3 DEF Edited, SecretEdited
  <2>3. form' \in Setting /\ form'.other = form.other /\ form'.names = form.names
    BY <1>2, <2>1, <2>2 DEF Setting
  <2>4. UNCHANGED <<section, stored, known, load, profile, synced, puts, want, entered, spoilt>>
    BY <1>3 DEF Edited, SecretEdited
  <2>5. entered' = 0 \/ form'.other = entered'
    BY <1>1, <2>3, <2>4 DEF SetupStays
  <2> QED
    BY <1>2, <2>1, <2>3, <2>4, <2>5, EditIsSound
<1>4. CASE EditProfile
  <2>1. edits' \in Nat /\ edits' # 0 /\ profile' \in Nat
    BY <1>2, <1>4 DEF EditProfile, NewEdit
  <2>2. UNCHANGED <<section, stored, known, load, form, synced, puts, want, entered, spoilt>>
    BY <1>4 DEF EditProfile
  <2>3. entered' = 0 \/ form'.other = entered'
    BY <1>1, <2>2 DEF SetupStays
  <2> QED
    BY <1>2, <2>1, <2>2, <2>3, EditIsSound
<1>5. CASE ChooseProvider
  <2>1. form' = [form EXCEPT !.names = ~@] /\ section = "ai" /\ section \notin Forms
    BY <1>5 DEF ChooseProvider, Forms
  <2>2. form' \in Setting /\ form'.main = form.main /\ form'.other = form.other
    BY <1>2, <2>1 DEF Setting
  <2>3. UNCHANGED <<section, stored, known, load, profile, synced, puts, want, entered, edits, spoilt>>
    BY <1>5 DEF ChooseProvider
  <2>4. entered' = 0 \/ form'.other = entered'
    BY <1>1, <2>2, <2>3 DEF SetupStays
  <2> QED
    BY <1>2, <2>1, <2>2, <2>3, <2>4, EditIsSound
<1>6. CASE EditTranscription
  <2>1. edits' \in Nat /\ edits' # 0 /\ form' = [form EXCEPT !.other = edits'] /\ entered' = edits'
    BY <1>2, <1>6 DEF EditTranscription, NewEdit
  <2>2. section = "ai" /\ section \notin Forms
    BY <1>6 DEF EditTranscription, Forms
  <2>3. form' \in Setting /\ form'.main = form.main /\ form'.other = entered'
    BY <1>2, <2>1 DEF Setting
  <2>4. UNCHANGED <<section, stored, known, load, profile, synced, puts, want, spoilt>>
    BY <1>6 DEF EditTranscription
  <2> QED
    BY <1>2, <2>1, <2>2, <2>3, <2>4, EditIsSound
<1> QED
  BY <1>3, <1>4, <1>5, <1>6

\* What a save means is what the server makes of it, field by field.
LEMMA MeaningIsKept ==
    ASSUME SettingsSound, ~spoilt, NEW p, p.v \in Setting,
           known = Shown(stored), stored \in Setting, want = stored,
           \/ /\ section \in Forms /\ p.part = "form"
              /\ p.v.other = known.other /\ p.v.names = known.names
           \/ section \in Forms /\ p.part = "profile" /\ \E o \in Nat : p.v = [known EXCEPT !.other = o, !.key = 0]
           \/ section = "ai" /\ p.part = "provider"
              /\ \E n, c \in Nat : n # 0 /\ p.v = [known EXCEPT !.main = n, !.key = c]
           \/ section = "ai" /\ p.part = "delete"
              /\ p.v = IF known.names THEN NoProvider ELSE [known EXCEPT !.main = 0, !.key = 0]
           \/ section = "ai" /\ p.part = "transcription" /\ p.v.key = 0 /\ p.v.main = known.main
    PROVE  Kept(p) \in Setting /\ Kept(p) = Meant(p) /\ LeavesSetup(p, Kept(p))
<1>1. Kept(p) \in Setting
  BY KeptFields
<1>2. known.main = stored.main /\ known.other = stored.other /\ known.names = stored.names
  BY ShownFields
<1>3. known \in Setting /\ known.other \in Nat /\ known.names \in BOOLEAN
  BY ShownFields, SettingFields
<1>4. section = "ai" /\ stored.main = 0 => stored.key = 0
  BY DEF SettingsSound, FormFollows
<1>5. section \in Forms => section # "ai"
  BY DEF Forms
<1>6. CASE section \in Forms /\ p.part = "form" /\ p.v.other = known.other /\ p.v.names = known.names
  <2>1. Meant(p) = [stored EXCEPT !.main = p.v.main, !.key = IF p.v.key = 0 THEN @ ELSE p.v.key]
    BY <1>6 DEF Meant
  <2>2. /\ Meant(p) \in Setting /\ Meant(p).main = p.v.main /\ Meant(p).other = stored.other
        /\ Meant(p).names = stored.names /\ Meant(p).key = IF p.v.key = 0 THEN stored.key ELSE p.v.key
    BY <2>1 DEF Setting
  <2>3. /\ Kept(p).main = p.v.main /\ Kept(p).other = stored.other /\ Kept(p).names = stored.names
        /\ Kept(p).key = IF p.v.key # 0 THEN p.v.key ELSE stored.key
    BY <1>2, <1>5, <1>6, KeptFields
  <2>4. Kept(p) = Meant(p)
    BY <1>1, <2>2, <2>3, SameSetting
  <2> QED
    BY <1>1, <1>6, <2>4 DEF LeavesSetup
<1>7. CASE section \in Forms /\ p.part = "profile" /\ \E o \in Nat : p.v = [known EXCEPT !.other = o, !.key = 0]
  <2>1. Meant(p) = [stored EXCEPT !.other = p.v.other]
    BY <1>7 DEF Meant
  <2>2. p.v.main = stored.main /\ p.v.names = stored.names /\ p.v.key = 0
    BY <1>2, <1>3, <1>7 DEF Setting
  <2>3. /\ Meant(p) \in Setting /\ Meant(p).main = p.v.main /\ Meant(p).other = p.v.other
        /\ Meant(p).names = p.v.names /\ Meant(p).key = stored.key
    BY <2>1, <2>2 DEF Setting
  <2>4. Kept(p).main = p.v.main /\ Kept(p).other = p.v.other /\ Kept(p).names = p.v.names /\ Kept(p).key = stored.key
    BY <1>5, <1>7, <2>2, KeptFields
  <2>5. Kept(p) = Meant(p)
    BY <1>1, <2>3, <2>4, SameSetting
  <2> QED
    BY <1>1, <1>7, <2>5 DEF LeavesSetup
<1>8. CASE section = "ai" /\ p.part = "provider" /\ \E n, c \in Nat : n # 0 /\ p.v = [known EXCEPT !.main = n, !.key = c]
  <2>1. Meant(p) = [stored EXCEPT !.main = p.v.main, !.key = IF p.v.key = 0 THEN @ ELSE p.v.key]
    BY <1>8 DEF Meant
  <2>2. p.v.main # 0 /\ p.v.other = stored.other /\ p.v.names = stored.names
    BY <1>2, <1>3, <1>8 DEF Setting
  <2>3. /\ Meant(p) \in Setting /\ Meant(p).main = p.v.main /\ Meant(p).other = stored.other
        /\ Meant(p).names = stored.names /\ Meant(p).key = IF p.v.key = 0 THEN stored.key ELSE p.v.key
    BY <2>1 DEF Setting
  <2>4. /\ Kept(p).main = p.v.main /\ Kept(p).other = stored.other /\ Kept(p).names = stored.names
        /\ Kept(p).key = IF p.v.key # 0 THEN p.v.key ELSE stored.key
    BY <2>2, KeptFields
  <2>5. Kept(p) = Meant(p)
    BY <1>1, <2>3, <2>4, SameSetting
  <2> QED
    BY <1>1, <1>2, <2>4, <2>5 DEF LeavesSetup
<1>9. CASE section = "ai" /\ p.part = "delete" /\ p.v = IF known.names THEN NoProvider ELSE [known EXCEPT !.main = 0, !.key = 0]
  <2>1. Meant(p) = IF stored.names THEN NoProvider ELSE [stored EXCEPT !.main = 0, !.key = 0]
    BY <1>9 DEF Meant
  <2>2. /\ Meant(p) \in Setting /\ Meant(p).main = 0 /\ Meant(p).key = 0
        /\ Meant(p).other = IF stored.names THEN 0 ELSE stored.other
        /\ Meant(p).names = FALSE
    <3>1. CASE stored.names
      <4>1. Meant(p) = NoProvider
        BY <2>1, <3>1
      <4>2. /\ NoProvider.main = 0 /\ NoProvider.other = 0
            /\ NoProvider.names = FALSE /\ NoProvider.key = 0
        BY DEF NoProvider
      <4>3. NoProvider \in Setting
        BY SettingFields DEF NoProvider
      <4> QED
        BY <3>1, <4>1, <4>2, <4>3
    <3>2. CASE ~stored.names
      <4>1. Meant(p) = [stored EXCEPT !.main = 0, !.key = 0]
        BY <2>1, <3>2
      <4> QED
        BY <3>2, <4>1, SettingFields DEF Setting
    <3> QED
      BY <3>1, <3>2
  <2>3. p.v.main = 0 /\ p.v.key = 0 /\ p.v.other = (IF known.names THEN 0 ELSE known.other) /\ ~p.v.names
    BY <1>3, <1>9 DEF Setting, NoProvider
  <2>4. Kept(p).main = 0 /\ Kept(p).key = 0
    BY <1>9, <2>3, KeptFields
  <2>5. Kept(p).other = (IF stored.names THEN 0 ELSE stored.other) /\ ~Kept(p).names
    <3>1. CASE known.names
      BY <1>2, <1>3, <2>3, <3>1, <1>1, SettingFields, KeptFields
    <3>2. CASE ~known.names
      BY <1>2, <1>3, <2>3, <3>2, <1>1, SettingFields, KeptFields
    <3> QED
      BY <3>1, <3>2
  <2>6. Kept(p) = Meant(p)
    <3>1. Kept(p).names = FALSE /\ Meant(p).names = FALSE
      BY <1>1, <2>2, <2>5, SettingFields
    <3>2. Kept(p).other = Meant(p).other
      BY <2>2, <2>5
    <3> QED
      BY <1>1, <2>2, <2>4, <3>1, <3>2, SameSetting
  <2> QED
    BY <1>1, <1>2, <1>3, <1>9, <2>5, <2>6, SettingFields DEF LeavesSetup
<1>10. CASE section = "ai" /\ p.part = "transcription" /\ p.v.key = 0 /\ p.v.main = known.main
  <2>1. Meant(p) = [stored EXCEPT !.other = p.v.other, !.names = p.v.names]
    BY <1>10 DEF Meant
  <2>2. /\ Meant(p) \in Setting /\ Meant(p).main = stored.main /\ Meant(p).other = p.v.other
        /\ Meant(p).names = p.v.names /\ Meant(p).key = stored.key
    BY <2>1 DEF Setting
  <2>3. Kept(p).main = stored.main /\ Kept(p).other = p.v.other /\ Kept(p).names = p.v.names /\ Kept(p).key = stored.key
    BY <1>2, <1>4, <1>10, KeptFields
  <2>4. Kept(p) = Meant(p)
    BY <1>1, <2>2, <2>3, SameSetting
  <2> QED
    BY <1>1, <1>10, <2>4 DEF LeavesSetup
<1> QED
  BY <1>6, <1>7, <1>8, <1>9, <1>10


LEMMA SavesAreSound ==
    ASSUME SettingsSound, ~spoilt,
           \/ \E s \in Forms : SaveForm(s)
           \/ SaveProfile \/ SaveProvider \/ DeleteProvider \/ SaveTranscription
    PROVE  SettingsSound'
<1>1. SettingsTyped /\ FormFollows
  BY DEF SettingsSound
<1>2. form \in Setting /\ known \in Setting /\ edits \in Nat /\ edits # 0 /\ profile \in Nat
  BY <1>1 DEF SettingsTyped
<1>3. CASE \E s \in Forms : SaveForm(s)
  <2>1. section \in Forms /\ section # "ai" /\ Put("form", form)
    BY <1>3 DEF SaveForm, Forms
  <2>2. UNCHANGED <<section, stored, known, load, form, profile, synced, want, entered, edits>>
    BY <1>3 DEF SaveForm
  <2>3. form.other = known.other /\ form.names = known.names
    BY <1>1, <2>1 DEF FormFollows
  <2>4. ASSUME NEW p, p.part = "form", p.v = form,
               known = Shown(stored), stored \in Setting, want = stored
        PROVE  Kept(p) \in Setting /\ Kept(p) = Meant(p) /\ LeavesSetup(p, Kept(p))
    BY <1>2, <2>1, <2>3, <2>4, MeaningIsKept
  <2> QED
    BY <1>2, <2>1, <2>2, <2>4, PutIsSound
<1>4. CASE SaveProfile
  <2> DEFINE v == [known EXCEPT !.other = profile, !.key = 0]
  <2>1. section \in Forms /\ section # "ai" /\ Put("profile", v)
    BY <1>4 DEF SaveProfile, Forms
  <2>2. UNCHANGED <<section, stored, known, load, form, profile, synced, want, entered, edits>>
    BY <1>4 DEF SaveProfile
  <2>3. v \in Setting /\ \E o \in Nat : v = [known EXCEPT !.other = o, !.key = 0]
    BY <1>2 DEF Setting
  <2> HIDE DEF v
  <2>4. ASSUME NEW p, p.part = "profile", p.v = v,
               known = Shown(stored), stored \in Setting, want = stored
        PROVE  Kept(p) \in Setting /\ Kept(p) = Meant(p) /\ LeavesSetup(p, Kept(p))
    BY <2>1, <2>3, <2>4, MeaningIsKept
  <2> QED
    BY <1>2, <2>1, <2>2, <2>3, <2>4, PutIsSound
<1>5. CASE SaveProvider
  <2>1. PICK key \in 0 .. MaxEdits : FilledIn(key) /\ PersistAI("provider", [known EXCEPT !.main = edits', !.key = key])
    BY <1>5 DEF SaveProvider
  <2> DEFINE v == [known EXCEPT !.main = edits', !.key = key]
  <2>2. key \in Nat /\ edits' \in Nat /\ edits' # 0
    BY <1>2, <2>1, WebSettingsConstants DEF FilledIn, NewEdit
  <2>3. section = "ai" /\ Put("provider", v)
    BY <2>1 DEF PersistAI
  <2>4. UNCHANGED <<section, stored, known, load, form, profile, synced, want, entered>>
    BY <1>5 DEF SaveProvider
  <2>5. v \in Setting /\ \E n, c \in Nat : n # 0 /\ v = [known EXCEPT !.main = n, !.key = c]
    BY <1>2, <2>2 DEF Setting
  <2> HIDE DEF v
  <2>6. ASSUME NEW p, p.part = "provider", p.v = v,
               known = Shown(stored), stored \in Setting, want = stored
        PROVE  Kept(p) \in Setting /\ Kept(p) = Meant(p) /\ LeavesSetup(p, Kept(p))
    BY <2>3, <2>5, <2>6, MeaningIsKept
  <2> QED
    BY <1>2, <2>2, <2>3, <2>4, <2>5, <2>6, PutIsSound
<1>6. CASE DeleteProvider
  <2> DEFINE v == IF known.names THEN NoProvider ELSE [known EXCEPT !.main = 0, !.key = 0]
  <2>1. section = "ai" /\ Put("delete", v)
    BY <1>6 DEF DeleteProvider, PersistAI
  <2>2. UNCHANGED <<section, stored, known, load, form, profile, synced, want, entered, edits>>
    BY <1>6 DEF DeleteProvider
  <2>3. v \in Setting
    <3>1. NoProvider \in Setting
      BY SettingFields DEF NoProvider
    <3>2. [known EXCEPT !.main = 0, !.key = 0] \in Setting
      BY <1>2 DEF Setting
    <3> QED
      BY <3>1, <3>2
  <2>4. v = IF known.names THEN NoProvider ELSE [known EXCEPT !.main = 0, !.key = 0]
    OBVIOUS
  <2> HIDE DEF v
  <2>5. ASSUME NEW p, p.part = "delete", p.v = v,
               known = Shown(stored), stored \in Setting, want = stored
        PROVE  Kept(p) \in Setting /\ Kept(p) = Meant(p) /\ LeavesSetup(p, Kept(p))
    BY <2>1, <2>3, <2>4, <2>5, MeaningIsKept
  <2> QED
    BY <1>2, <2>1, <2>2, <2>3, <2>5, PutIsSound
<1>7. CASE SaveTranscription
  <2> DEFINE v == [form EXCEPT !.key = 0]
  <2>1. section = "ai" /\ Put("transcription", v)
    BY <1>7 DEF SaveTranscription, PersistAI
  <2>2. UNCHANGED <<section, stored, known, load, form, profile, synced, want, entered, edits>>
    BY <1>7 DEF SaveTranscription
  <2>3. form.main = known.main
    BY <1>1, <2>1 DEF FormFollows
  <2>4. v \in Setting /\ v.key = 0 /\ v.main = known.main
    BY <1>2, <2>3 DEF Setting
  <2> HIDE DEF v
  <2>5. ASSUME NEW p, p.part = "transcription", p.v = v,
               known = Shown(stored), stored \in Setting, want = stored
        PROVE  Kept(p) \in Setting /\ Kept(p) = Meant(p) /\ LeavesSetup(p, Kept(p))
    BY <2>1, <2>4, <2>5, MeaningIsKept
  <2> QED
    BY <1>2, <2>1, <2>2, <2>4, <2>5, PutIsSound
<1> QED
  BY <1>3, <1>4, <1>5, <1>6, <1>7


\* What an answer makes of the form.
LEMMA SyncedFields ==
    ASSUME NEW f \in Setting, NEW r \in Setting
    PROVE  /\ Synced(f, r) \in Setting /\ Synced(f, r).main = r.main
           /\ section # "ai" => Synced(f, r).other = r.other /\ Synced(f, r).names = r.names
           /\ section = "ai" /\ synced = [other |-> r.other, names |-> r.names] => Synced(f, r).other = f.other
<1>1. CASE section = "ai" /\ synced = [other |-> r.other, names |-> r.names]
  <2>1. Synced(f, r) = [main |-> r.main, key |-> 0, other |-> f.other, names |-> f.names]
    BY <1>1 DEF Synced
  <2> QED
    BY <1>1, <2>1 DEF Setting
<1>2. CASE section = "ai" /\ ~(synced = [other |-> r.other, names |-> r.names])
  <2>1. Synced(f, r) = [main |-> r.main, key |-> 0, other |-> r.other, names |-> r.names]
    BY <1>2 DEF Synced
  <2> QED
    BY <1>2, <2>1 DEF Setting
<1>3. CASE section # "ai"
  <2>1. Synced(f, r) = [r EXCEPT !.key = 0]
    BY <1>3 DEF Synced
  <2> QED
    BY <1>3, <2>1 DEF Setting
<1> QED
  BY <1>1, <1>2, <1>3

LEMMA LoadsAreSound ==
    ASSUME SettingsSound, ~spoilt,
           \/ \E s \in Forms \cup {"ai"} : OpenSection(s)
           \/ LoadAnswered \/ Loaded \/ LoadFails
    PROVE  SettingsSound'
<1>1. SettingsTyped /\ FormFollows /\ Saving /\ SavedIsKept /\ SetupStays
  BY DEF SettingsSound, SettingsKept
<1>2. CASE \E s \in Forms \cup {"ai"} : OpenSection(s)
  <2>1. PICK s \in Forms \cup {"ai"} : OpenSection(s)
    BY <1>2
  <2>2. section = "none" /\ load.at = "no" /\ synced = [other |-> 0, names |-> FALSE] /\ entered = 0
    BY <1>1, <2>1 DEF OpenSection, FormFollows
  <2>3. puts = {} /\ puts' = {}
    BY <1>1, <2>1, <2>2 DEF Saving, OpenSection
  <2>4. /\ section' = s /\ stored' \in {NoProvider, Existing} /\ want' = stored'
        /\ form' = [known' EXCEPT !.key = 0] /\ profile' = known'.other
        /\ UNCHANGED <<synced, entered, edits, spoilt>>
    BY <2>1 DEF OpenSection
  <2>5. /\ NoProvider \in Setting /\ Existing \in Setting
        /\ NoProvider.main = 0 /\ NoProvider.key = 0 /\ NoProvider.other = 0 /\ NoProvider.names = FALSE
        /\ Existing.main = 1
    BY SettingFields DEF NoProvider, Existing
  <2>6. Shown(NoProvider) = NoProvider /\ Shown(Existing) = Existing
    BY DEF NoProvider, Existing, Shown
  <2>7. \/ s # "ai" /\ known' = stored' /\ load' = [load EXCEPT !.at = "done"]
        \/ known' = NoProvider /\ load' = [load EXCEPT !.at = "asked"]
    BY <2>1 DEF OpenSection
  <2>8. /\ load' = [at |-> load'.at, got |-> load'.got] /\ load'.at # "answered"
        /\ load'.at = "done" => known' = stored'
    BY <1>1, <2>7 DEF SettingsTyped
  <2>9. known' \in Setting /\ stored' \in Setting
    BY <2>4, <2>5, <2>7
  <2>10. form' \in Setting /\ form'.main = known'.main /\ form'.other = known'.other /\ form'.names = known'.names
    BY <2>4, <2>9 DEF Setting
  <2>11. SettingsTyped'
    BY <1>1, <2>4, <2>8, <2>9, <2>10, SettingFields DEF SettingsTyped
  <2>12. FormFollows'
    <3>1. s \in Forms \cup {"ai"} /\ s # "none"
      BY DEF Forms
    <3>2. s = "ai" => known' = NoProvider
      BY <2>7
    <3>3. stored'.main = 0 => stored'.key = 0
      BY <2>4, <2>5
    <3> QED
      BY <2>2, <2>4, <2>5, <2>10, <3>1, <3>2, <3>3 DEF FormFollows
  <2>13. Shown(stored)' = stored'
    BY <2>4, <2>6 DEF Shown
  <2>14. Saving' /\ SavedIsKept' /\ SetupStays'
    BY <2>2, <2>3, <2>4, <2>8, <2>13 DEF Saving, SavedIsKept, SetupStays
  <2> QED
    BY <2>4, <2>11, <2>12, <2>14 DEF SettingsSound, SettingsKept
<1>3. CASE LoadAnswered
  <2>1. puts = {} /\ puts' = {} /\ section # "none"
    BY <1>1, <1>3 DEF Saving, FormFollows, LoadAnswered
  <2>2. load' = [at |-> "answered", got |-> Shown(stored)]
    BY <1>3 DEF LoadAnswered
  <2>3. UNCHANGED <<section, stored, known, form, profile, synced, want, entered, edits, spoilt>>
    BY <1>3 DEF LoadAnswered
  <2>4. SettingsTyped' /\ Saving'
    BY <1>1, <2>1, <2>2, <2>3 DEF SettingsTyped, Saving, Shown
  <2>5. FormFollows' /\ SavedIsKept' /\ SetupStays'
    BY <1>1, <2>1, <2>3 DEF FormFollows, SavedIsKept, SetupStays
  <2> QED
    BY <2>3, <2>4, <2>5 DEF SettingsSound, SettingsKept
<1>4. CASE Loaded
  <2>1. puts = {} /\ puts' = {} /\ section # "none" /\ load.got = Shown(stored)
    BY <1>1, <1>4 DEF Saving, FormFollows, Loaded, SettingsTyped
  <2>2. /\ load' = [load EXCEPT !.at = "done"] /\ known' = load.got /\ form' = Synced(form, load.got)
        /\ synced' = [other |-> load.got.other, names |-> load.got.names]
        /\ entered' = IF form'.other = form.other THEN entered ELSE 0
        /\ UNCHANGED <<section, stored, profile, want, edits, spoilt>>
    BY <1>4 DEF Loaded, Receive
  <2>3. form \in Setting /\ stored \in Setting /\ entered \in Nat
    BY <1>1 DEF SettingsTyped
  <2>4. load.got \in Setting
    BY <2>1, <2>3, ShownFields
  <2>5. /\ form' \in Setting /\ form'.main = known'.main
        /\ section # "ai" => form'.other = known'.other /\ form'.names = known'.names
    BY <2>2, <2>3, <2>4, SyncedFields
  <2>6. /\ load' = [at |-> load'.at, got |-> load'.got] /\ load'.at = "done"
    BY <1>1, <2>2 DEF SettingsTyped
  <2>7. SettingsTyped'
    BY <1>1, <2>2, <2>3, <2>4, <2>5, <2>6 DEF SettingsTyped
  <2>8. FormFollows'
    <3>1. section \in Forms => section # "ai"
      BY DEF Forms
    <3>2. section # "ai" => entered' = 0
      BY <1>1, <2>2 DEF FormFollows
    <3>3. section = "ai" => (stored.main = 0 => stored.key = 0)
      BY <1>1 DEF FormFollows
    <3> QED
      BY <2>1, <2>2, <2>5, <3>1, <3>2, <3>3 DEF FormFollows
  <2>9. Saving'
    <3>1. known' = Shown(stored)'
      BY <2>1, <2>2 DEF Shown
    <3> QED
      BY <2>1, <3>1 DEF Saving
  <2>10. SavedIsKept' /\ SetupStays'
    BY <1>1, <2>2 DEF SavedIsKept, SetupStays
  <2> QED
    BY <2>2, <2>7, <2>8, <2>9, <2>10 DEF SettingsSound, SettingsKept
<1>5. CASE LoadFails
  <2>1. puts = {} /\ puts' = {} /\ section # "none"
    BY <1>1, <1>5 DEF Saving, FormFollows, LoadFails
  <2>2. load' = [load EXCEPT !.at = "no"]
    BY <1>5 DEF LoadFails
  <2>3. UNCHANGED <<section, stored, known, form, profile, synced, want, entered, edits, spoilt>>
    BY <1>5 DEF LoadFails
  <2>4. load' = [at |-> load'.at, got |-> load'.got] /\ load'.at = "no"
    BY <1>1, <2>2 DEF SettingsTyped
  <2>5. SettingsTyped' /\ Saving'
    BY <1>1, <2>1, <2>3, <2>4 DEF SettingsTyped, Saving
  <2>6. FormFollows' /\ SavedIsKept' /\ SetupStays'
    BY <1>1, <2>1, <2>3 DEF FormFollows, SavedIsKept, SetupStays
  <2> QED
    BY <2>3, <2>5, <2>6 DEF SettingsSound, SettingsKept
<1> QED
  BY <1>2, <1>3, <1>4, <1>5


LEMMA AnswersAreSound ==
    ASSUME SettingsSound, ~spoilt, ServerSaves \/ Saved \/ SaveFailed
    PROVE  SettingsSound'
<1>1. SettingsTyped /\ FormFollows /\ Saving /\ SavedIsKept /\ SetupStays
  BY DEF SettingsSound, SettingsKept
<1>2. load.at = "done" /\ \E p \in puts : puts = {p} /\ PutIsGood(p)
  BY <1>1 DEF Saving, ServerSaves, Saved, SaveFailed
<1>3. PICK p \in puts : puts = {p} /\ PutIsGood(p)
  BY <1>2
<1>4. form \in Setting /\ known \in Setting /\ stored \in Setting /\ want = stored /\ entered \in Nat
  BY <1>1 DEF SettingsTyped, SavedIsKept
<1>5. CASE ServerSaves
  <2>1. /\ p.at = "sent" /\ stored' = Kept(p) /\ want' = Meant(p)
        /\ puts' = (puts \ {p}) \cup {[p EXCEPT !.at = "saved", !.got = Shown(Kept(p))]}
    BY <1>3, <1>5 DEF ServerSaves
  <2>2. UNCHANGED <<section, known, load, form, profile, synced, entered, edits, spoilt>>
    BY <1>5 DEF ServerSaves
  <2>3. p = [part |-> p.part, v |-> p.v, at |-> p.at, got |-> p.got]
    BY <1>3 DEF PutIsGood
  <2>4. /\ section = "ai" => p.part \in {"provider", "delete", "transcription"}
        /\ section \in Forms \cup {"ai"}
        /\ Kept(p) \in Setting /\ Kept(p) = Meant(p) /\ LeavesSetup(p, Kept(p))
        /\ section = "ai" => (Kept(p).main = 0 => Kept(p).key = 0)
    BY <1>3, <2>1 DEF PutIsGood
  <2>5. PICK q : q = [p EXCEPT !.at = "saved", !.got = Shown(Kept(p))]
    OBVIOUS
  <2>6. q.part = p.part /\ q.at = "saved" /\ q.got = Shown(Kept(p))
        /\ q = [part |-> q.part, v |-> q.v, at |-> q.at, got |-> q.got]
    <3>1. \A x : [p EXCEPT !.at = "saved", !.got = x] \in [part : {p.part}, v : {p.v}, at : {"saved"}, got : {x}]
      BY <2>3
    <3>2. q \in [part : {p.part}, v : {p.v}, at : {"saved"}, got : {Shown(Kept(p))}]
      BY <2>5, <3>1
    <3>3. ASSUME NEW r, NEW a, NEW b, NEW c, NEW d, r \in [part : {a}, v : {b}, at : {c}, got : {d}]
          PROVE  r.part = a /\ r.at = c /\ r.got = d /\ r = [part |-> r.part, v |-> r.v, at |-> r.at, got |-> r.got]
      BY <3>3
    <3> QED
      BY <3>2, <3>3
  <2>7. puts' = {q}
    BY <1>3, <2>1, <2>5
  <2>8. Shown(stored)' = q.got
    BY <2>1, <2>6 DEF Shown
  <2>9. LeavesSetup(q, q.got)
    BY <2>4, <2>6, ShownFields DEF LeavesSetup
  <2>10. Saving'
    <3>1. LeavesSetup(q, q.got)'
      BY <2>2, <2>9 DEF LeavesSetup
    <3>2. PutIsGood(q)'
      BY <2>2, <2>4, <2>6, <2>8, <3>1 DEF PutIsGood
    <3> QED
      BY <1>2, <2>2, <2>7, <3>2 DEF Saving
  <2>11. SettingsTyped' /\ FormFollows' /\ SavedIsKept' /\ SetupStays'
    <3>1. SettingsTyped'
      BY <1>1, <1>2, <2>1, <2>2, <2>4 DEF SettingsTyped
    <3>2. FormFollows'
      BY <1>1, <2>1, <2>2, <2>4 DEF FormFollows
    <3> QED
      BY <1>1, <2>1, <2>2, <2>4, <3>1, <3>2 DEF SavedIsKept, SetupStays
  <2> QED
    BY <2>2, <2>10, <2>11 DEF SettingsSound, SettingsKept
<1>6. CASE Saved
  <2> DEFINE f == IF p.part = "delete" THEN [form EXCEPT !.names = FALSE] ELSE form
  <2>1. /\ p.at = "saved" /\ puts' = puts \ {p}
        /\ known' = p.got /\ form' = Synced(f, p.got)
        /\ synced' = [other |-> p.got.other, names |-> p.got.names]
        /\ entered' = IF p.part = "transcription" \/ (p.part = "delete" /\ known.names) THEN 0 ELSE entered
        /\ load' = load
    BY <1>2, <1>3, <1>6 DEF Saved, Receive
  <2>2. UNCHANGED <<section, stored, profile, want, edits, spoilt>>
    BY <1>6 DEF Saved
  <2>3. f \in Setting /\ f.other = form.other
    BY <1>4 DEF Setting
  <2> HIDE DEF f
  <2>4. /\ section = "ai" => p.part \in {"provider", "delete", "transcription"}
        /\ section \in Forms \cup {"ai"}
        /\ p.got = Shown(stored) /\ LeavesSetup(p, p.got)
    BY <1>3, <2>1 DEF PutIsGood
  <2>5. p.got \in Setting
    BY <1>4, <2>4, ShownFields
  <2>6. /\ form' \in Setting /\ form'.main = known'.main
        /\ section # "ai" => form'.other = known'.other /\ form'.names = known'.names
    BY <2>1, <2>3, <2>5, SyncedFields
  <2>7. SettingsTyped'
    BY <1>1, <1>2, <2>1, <2>2, <2>5, <2>6 DEF SettingsTyped
  <2>8. section \in Forms => section # "ai" /\ section # "none"
    BY DEF Forms
  <2>9. section # "ai" => entered = 0
    BY <1>1 DEF FormFollows
  <2>10. FormFollows'
    <3>1. section = "ai" => (stored.main = 0 => stored.key = 0)
      BY <1>1 DEF FormFollows
    <3>2. section # "none"
      BY <2>4, <2>8
    <3> QED
      BY <2>1, <2>2, <2>6, <2>8, <2>9, <3>1, <3>2 DEF FormFollows
  <2>11. Saving'
    <3>1. Shown(stored)' = Shown(stored)
      BY <2>2 DEF Shown
    <3>2. puts' = {}
      BY <1>3, <2>1
    <3> QED
      BY <2>1, <2>4, <3>1, <3>2 DEF Saving
  <2>12. SetupStays'
    <3>1. ASSUME entered' # 0 PROVE form'.other = form.other
      <4>1. section = "ai"
        BY <2>1, <2>9, <3>1
      <4>2. p.got.other = known.other /\ p.got.names = known.names
        BY <2>1, <2>4, <3>1, <4>1 DEF LeavesSetup
      <4>3. synced = [other |-> p.got.other, names |-> p.got.names]
        BY <1>1, <4>1, <4>2 DEF FormFollows
      <4> QED
        BY <2>1, <2>3, <2>5, <4>1, <4>3, SyncedFields
    <3> QED
      BY <1>1, <2>1, <3>1 DEF SetupStays
  <2>13. SavedIsKept'
    BY <1>1, <2>2 DEF SavedIsKept
  <2> QED
    BY <2>2, <2>7, <2>10, <2>11, <2>12, <2>13 DEF SettingsSound, SettingsKept
<1>7. CASE SaveFailed
  <2>1. puts' = {} /\ spoilt' = (spoilt \/ p.at = "saved")
    BY <1>3, <1>7 DEF SaveFailed
  <2>2. UNCHANGED <<section, stored, known, load, form, profile, synced, want, entered, edits>>
    BY <1>7 DEF SaveFailed
  <2>3. spoilt' \in BOOLEAN
    BY <2>1 DEF SettingsSound
  <2>4. ASSUME ~spoilt' PROVE SettingsTyped' /\ FormFollows' /\ Saving' /\ SavedIsKept' /\ SetupStays'
    <3>1. known = Shown(stored)
      BY <1>3, <2>1, <2>4 DEF PutIsGood
    <3>2. known' = Shown(stored)'
      BY <2>2, <3>1 DEF Shown
    <3>3. Saving'
      BY <2>1, <3>2 DEF Saving
    <3>4. SettingsTyped'
      BY <1>1, <1>2, <2>2, <2>3 DEF SettingsTyped
    <3>5. FormFollows'
      BY <1>1, <2>2 DEF FormFollows
    <3> QED
      BY <1>1, <2>2, <3>3, <3>4, <3>5 DEF SavedIsKept, SetupStays
  <2> QED
    BY <2>3, <2>4 DEF SettingsSound, SettingsKept
<1> QED
  BY <1>5, <1>6, <1>7


\* The parts of a setting are saved apart although each save sends the whole of it: what the
\* profile dialog, the provider dialog, the deletion of a provider or the transcription form
\* (GeneralSection, AISection: persistAISetting) send of the other parts is what is stored of
\* them, and an answer replaces the transcription set-up being edited only if it was changed.
THEOREM SavedSettingsAreKept == SettingsSpec => []SettingsKept
<1>1. SettingsInit => SettingsSound
  <2> SUFFICES ASSUME SettingsInit PROVE SettingsSound
    OBVIOUS
  <2>1. NoProvider \in Setting /\ NoProvider.other = 0 /\ NoProvider.names = FALSE
    BY SettingFields DEF NoProvider
  <2>2. load = [at |-> load.at, got |-> load.got] /\ load.at = "no"
    BY DEF SettingsInit
  <2>3. SettingsTyped
    <3>1. /\ stored = NoProvider /\ known = NoProvider /\ form = NoProvider /\ want = NoProvider
          /\ profile = 0 /\ edits = 1 /\ entered = 0 /\ spoilt = FALSE
      BY DEF SettingsInit
    <3>2. load.at # "answered"
      BY <2>2
    <3>3. 0 \in Nat /\ 1 \in Nat /\ 1 # 0 /\ FALSE \in BOOLEAN
      OBVIOUS
    <3> QED
      BY <2>1, <2>2, <3>1, <3>2, <3>3, Zenon DEF SettingsTyped
  <2>4. FormFollows
    BY <2>2 DEF SettingsInit, FormFollows, Forms
  <2> QED
    BY <2>2, <2>3, <2>4 DEF SettingsInit, SettingsSound, Saving, SettingsKept, SavedIsKept, SetupStays
<1>2. SettingsSound /\ [SettingsNext]_settingsVars => SettingsSound'
  <2> SUFFICES ASSUME SettingsSound, [SettingsNext]_settingsVars PROVE SettingsSound'
    OBVIOUS
  <2>1. CASE SettingsNext
    <3>1. ~spoilt
      BY <2>1 DEF SettingsNext
    <3>2. CASE \/ \E s \in Forms \cup {"ai"} : OpenSection(s)
               \/ LoadAnswered \/ Loaded \/ LoadFails
      BY <3>1, <3>2, LoadsAreSound
    <3>3. CASE \/ EditGeneral \/ EditMemoRelated \/ AddReaction \/ AddTag \/ ChangeTag \/ RemoveTag
               \/ EditStorage \/ EditS3 \/ EditS3Secret \/ EditEmail \/ EditEmailPassword
      <4>1. \E s \in Forms : Edited(s) \/ SecretEdited(s)
        BY <3>3 DEF Forms, EditGeneral, EditMemoRelated, AddReaction, AddTag, ChangeTag, RemoveTag,
                    EditStorage, EditS3, EditS3Secret, EditEmail, EditEmailPassword
      <4> QED
        BY <3>1, <4>1, EditsAreSound
    <3>4. CASE EditProfile \/ ChooseProvider \/ EditTranscription
      BY <3>1, <3>4, EditsAreSound
    <3>5. CASE SaveGeneral \/ SaveMemoRelated \/ SaveTags \/ SaveStorage \/ SaveNotification
      <4>1. \E s \in Forms : SaveForm(s)
        BY <3>5 DEF Forms, SaveGeneral, SaveMemoRelated, SaveTags, SaveStorage, SaveNotification
      <4> QED
        BY <3>1, <4>1, SavesAreSound
    <3>6. CASE SaveProfile \/ SaveProvider \/ DeleteProvider \/ SaveTranscription
      BY <3>1, <3>6, SavesAreSound
    <3>7. CASE ServerSaves \/ Saved \/ SaveFailed
      BY <3>1, <3>7, AnswersAreSound
    <3> QED
      BY <2>1, <3>2, <3>3, <3>4, <3>5, <3>6, <3>7 DEF SettingsNext
  <2>2. CASE UNCHANGED settingsVars
    <3>1. UNCHANGED <<section, stored, known, load, form, profile, synced, puts, want, entered, edits, spoilt>>
      BY <2>2 DEF settingsVars
    <3>2. Saving => Saving'
      BY <3>1, SavingStays
    <3>3. SettingsTyped => SettingsTyped'
      BY <3>1 DEF SettingsTyped, Shown
    <3>4. FormFollows => FormFollows'
      BY <3>1 DEF FormFollows
    <3>5. SavedIsKept /\ SetupStays => SavedIsKept' /\ SetupStays'
      BY <3>1 DEF SavedIsKept, SetupStays
    <3> QED
      BY <3>1, <3>2, <3>3, <3>4, <3>5 DEF SettingsSound, SettingsKept
  <2> QED
    BY <2>1, <2>2
<1>3. SettingsSound => SettingsKept
  BY DEF SettingsSound, SettingsKept, SavedIsKept, SetupStays
<1> QED
  BY <1>1, <1>2, <1>3, PTL DEF SettingsSpec

-----------------------------------------------------------------------------
(* The memo in the cache of queries *)

Versions == SUBSET (0 .. MaxChanges)
Fetches == {"idle", "asked", "answered", "late"}
Entries == [data : Versions, invalid : BOOLEAN, fetch : Fetches, got : Versions]
ChangeKinds == {"updated", "archived", "reaction", "deleted"}
OpsInFlight == [at : {"sent", "taken", "read"}, kind : ChangeKinds, prev : Versions, resp : Versions]
Event == [kind : ChangeKinds, change : 1 .. MaxChanges]

QueriesTyped ==
    /\ truth \in SUBSET (1 .. MaxChanges) /\ deletions \in SUBSET (1 .. MaxChanges)
    /\ cache \in [Queries -> Entries] /\ shown \in Queries \cup {"none"}
    /\ ops \in [1 .. MaxChanges -> OpsInFlight \cup {NoOp}]
    /\ events \in Seq(Event) /\ stream \in [open : BOOLEAN, before : BOOLEAN]
    /\ made \in 0 .. MaxChanges /\ stale \in BOOLEAN
    /\ \A c \in 1 .. MaxChanges : c > made => ops[c] = NoOp

\* v lacks nothing that no event will tell, but what was dropped.
FreshFor(v, t, es, untold, open) ==
    /\ v \subseteq t
    /\ \A c \in t \ v : (\E i \in 1 .. Len(es) : es[i].change = c) \/ c \in untold \/ ~open

Fresh(v) == FreshFor(v, truth, events, dropped, stream.open)

Updating == \E c \in 1 .. MaxChanges : ops[c].kind \in Updates

ConnectedBeforeNews == ~stream.before => truth = {} /\ ~stream.open

AnswerIsFresh(q) == cache[q].fetch = "answered" => Fresh(cache[q].got)

Accounted(q) ==
    \/ ~Known(q) \/ (q = "detail" /\ Gone)
    \/ cache[q].fetch # "idle"
    \/ cache[q].invalid /\ q # shown
    \/ Fresh(cache[q].data)

CacheFollows ==
    /\ ConnectedBeforeNews
    /\ \A q \in Queries : AnswerIsFresh(q)
    /\ Updating \/ \A q \in Queries : Accounted(q)

CacheSound == QueriesTyped /\ (~stale => CacheFollows)

LEMMA EntryFields ==
    ASSUME NEW e \in Entries
    PROVE  /\ e.data \in Versions /\ e.invalid \in BOOLEAN /\ e.fetch \in Fetches /\ e.got \in Versions
           /\ \A f \in Fetches : [e EXCEPT !.fetch = f] \in Entries
           /\ \A f \in Fetches, v \in Versions : [e EXCEPT !.fetch = f, !.got = v] \in Entries
           /\ Refetched(e) \in Entries /\ Refetched(e).fetch = "asked"
           /\ LET i == [e EXCEPT !.fetch = "idle"] IN i \in Entries /\ i.fetch = "idle" /\ i.data = e.data
           /\ \A f \in Fetches, b \in BOOLEAN : [e EXCEPT !.invalid = b, !.fetch = f] \in Entries
BY DEF Entries, Set, Refetched, Fetches

LEMMA NoQueryIsTyped == NoQuery \in Entries /\ NoQuery.fetch = "idle" /\ NoQuery.data = Unknown
<1>1. {0} \in Versions /\ {} \in Versions
  BY WebQueriesConstants DEF Versions
<1> QED
  BY <1>1 DEF NoQuery, Entries, Fetches, Unknown

LEMMA SetFields ==
    ASSUME NEW e \in Entries, NEW v \in Versions
    PROVE  Set(e, v) \in Entries /\ Set(e, v).data = v /\ Set(e, v).fetch = e.fetch /\ Set(e, v).got = e.got
BY DEF Entries, Set

LEMMA InvalidatedFields ==
    ASSUME NEW cs \in [Queries -> Entries], NEW which \in SUBSET Queries
    PROVE  LET r == Invalidated(cs, which) IN
           /\ r \in [Queries -> Entries]
           /\ \A q \in Queries : r[q].data = cs[q].data /\ r[q].got = cs[q].got
           /\ \A q \in Queries : r[q].fetch = "answered" => cs[q].fetch = "answered"
           /\ \A q \in Queries : cs[q].fetch # "idle" => r[q].fetch # "idle"
           /\ \A q \in Queries \ which : r[q] = cs[q]
           /\ \A q \in which : \/ r[q] = NoQuery
                               \/ r[q].invalid /\ r[q].fetch # "answered" /\ (q = shown => r[q].fetch = "asked")
<1> DEFINE r == Invalidated(cs, which)
           mark(q) == [cs[q] EXCEPT !.invalid = TRUE,
                                   !.fetch = IF q = shown THEN "asked"
                                             ELSE IF @ = "answered" THEN "late" ELSE @]
<1>1. ASSUME NEW q \in Queries
      PROVE  /\ mark(q) \in Entries /\ mark(q).data = cs[q].data /\ mark(q).got = cs[q].got
             /\ mark(q).invalid /\ mark(q).fetch # "answered" /\ (q = shown => mark(q).fetch = "asked")
             /\ cs[q].fetch # "idle" => mark(q).fetch # "idle"
  <2>1. cs[q] \in Entries
    OBVIOUS
  <2> DEFINE e == cs[q]
             f == IF q = shown THEN "asked" ELSE IF e.fetch = "answered" THEN "late" ELSE e.fetch
  <2>2. f \in Fetches /\ f # "answered" /\ (q = shown => f = "asked") /\ (e.fetch # "idle" => f # "idle")
    BY <2>1 DEF Entries, Fetches
  <2>3. mark(q) = [e EXCEPT !.invalid = TRUE, !.fetch = f]
    BY DEF mark
  <2> HIDE DEF f
  <2>4. mark(q) \in Entries
    BY <2>1, <2>2, <2>3, EntryFields
  <2>5. mark(q).data = e.data /\ mark(q).got = e.got /\ mark(q).invalid /\ mark(q).fetch = f
    BY <2>1, <2>2, <2>3 DEF Entries
  <2> QED
    BY <2>2, <2>4, <2>5
<1>2. ASSUME NEW q \in Queries
      PROVE  r[q] = IF q \notin which \/ cs[q] = NoQuery THEN cs[q] ELSE mark(q)
  BY DEF Invalidated
<1>3. r \in [Queries -> Entries]
  <2>1. \A q \in Queries : r[q] \in Entries
    BY <1>1, <1>2
  <2>2. r = [q \in Queries |-> r[q]]
    BY DEF Invalidated
  <2> QED
    BY <2>1, <2>2
<1> HIDE DEF r, mark
<1>4. \A q \in Queries : r[q] = cs[q] \/ r[q] = mark(q)
  BY <1>2
<1>5. \A q \in which : r[q] = NoQuery \/ r[q] = mark(q)
  BY <1>2
<1>6. \A q \in Queries \ which : r[q] = cs[q]
  BY <1>2
<1>7. /\ \A q \in Queries : r[q].data = cs[q].data /\ r[q].got = cs[q].got
      /\ \A q \in Queries : r[q].fetch = "answered" => cs[q].fetch = "answered"
      /\ \A q \in Queries : cs[q].fetch # "idle" => r[q].fetch # "idle"
  BY <1>1, <1>4
<1>8. \A q \in which : \/ r[q] = NoQuery
                       \/ r[q].invalid /\ r[q].fetch # "answered" /\ (q = shown => r[q].fetch = "asked")
  BY <1>1, <1>5
<1> QED
  BY <1>3, <1>6, <1>7, <1>8 DEF r

LEMMA OpFields ==
    ASSUME NEW o \in OpsInFlight \cup {NoOp}, o.at # "none"
    PROVE  /\ o \in OpsInFlight /\ o # NoOp
           /\ o.at \in {"sent", "taken", "read"} /\ o.kind \in ChangeKinds
           /\ o.prev \in Versions /\ o.resp \in Versions
<1>1. NoOp.at = "none"
  BY DEF NoOp
<1>2. o \in OpsInFlight /\ o # NoOp
  BY <1>1
<1> QED
  BY <1>2 DEF OpsInFlight

LEMMA OpGoesOn ==
    ASSUME NEW o \in OpsInFlight, NEW phase \in {"sent", "taken", "read"}, NEW v \in Versions
    PROVE  [o EXCEPT !.at = phase, !.resp = v] \in OpsInFlight /\ [o EXCEPT !.at = phase, !.resp = v].kind = o.kind
BY DEF OpsInFlight

\* An operation goes on to another state with an answer.
OpTaken(os, c, phase, v) ==
    LET n == [os EXCEPT ![c].at = phase, ![c].resp = v] IN
    /\ n \in [1 .. MaxChanges -> OpsInFlight \cup {NoOp}]
    /\ \A d \in 1 .. MaxChanges : n[d].kind = os[d].kind /\ (os[d] = NoOp => n[d] = NoOp)

LEMMA OpIsTaken ==
    ASSUME NEW os \in [1 .. MaxChanges -> OpsInFlight \cup {NoOp}], NEW c \in 1 .. MaxChanges,
           os[c].at # "none", NEW phase \in {"sent", "taken", "read"}, NEW v \in Versions
    PROVE  OpTaken(os, c, phase, v)
<1> DEFINE o == os[c]
           m == [o EXCEPT !.at = phase, !.resp = v]
           n == [os EXCEPT ![c] = m]
<1>1. o \in OpsInFlight \cup {NoOp} /\ o.at # "none"
  OBVIOUS
<1>2. m \in OpsInFlight /\ m.kind = o.kind /\ o # NoOp
  <2>1. o \in OpsInFlight /\ o # NoOp
    BY <1>1, OpFields
  <2> HIDE DEF o
  <2> QED
    BY <2>1, OpGoesOn
<1>3. n = [os EXCEPT ![c].at = phase, ![c].resp = v]
  OBVIOUS
<1> HIDE DEF m
<1>4. /\ n \in [1 .. MaxChanges -> OpsInFlight \cup {NoOp}]
      /\ \A d \in 1 .. MaxChanges : n[d].kind = os[d].kind /\ (os[d] = NoOp => n[d] = NoOp)
  BY <1>2
<1> HIDE DEF n
<1> QED
  BY <1>3, <1>4 DEF OpTaken

LEMMA FreshAfterChange ==
    ASSUME NEW v, NEW t, NEW es \in Seq(Event), NEW open \in BOOLEAN, NEW e \in Event,
           NEW untold, FreshFor(v, t, es, untold, open)
    PROVE  FreshFor(v, t \cup {e.change}, Append(es, e), untold, open)
<1> DEFINE after == Append(es, e)
<1>1. Len(after) = Len(es) + 1 /\ Len(es) \in Nat
      /\ after[Len(es) + 1] = e /\ \A i \in 1 .. Len(es) : after[i] = es[i]
  OBVIOUS
<1> HIDE DEF after
<1>2. ASSUME NEW d \in (t \cup {e.change}) \ v, d \notin untold, open
      PROVE  \E i \in 1 .. Len(after) : after[i].change = d
  <2>1. CASE d = e.change
    <3>1. Len(es) + 1 \in 1 .. Len(after) /\ after[Len(es) + 1].change = d
      BY <1>1, <2>1
    <3> QED
      BY <3>1
  <2>2. CASE d # e.change
    <3>1. PICK i \in 1 .. Len(es) : es[i].change = d
      BY <1>2, <2>2 DEF FreshFor
    <3>2. i \in 1 .. Len(after) /\ after[i].change = d
      BY <3>1, <1>1
    <3> QED
      BY <3>2
  <2> QED
    BY <2>1, <2>2
<1>3. FreshFor(v, t \cup {e.change}, after, untold, open)
  BY <1>2 DEF FreshFor
<1> QED
  BY <1>3 DEF after

\* A step after which what was fresh still is.
NewsKept == \A v : FreshFor(v, truth, events, dropped, stream.open) => FreshFor(v, truth', events', dropped', stream'.open)

\* What the server or another client changes.
LEMMA ChangesAreAnnounced ==
    ASSUME QueriesTyped, NEW kind \in ChangeKinds, NEW c \in 1 .. MaxChanges, Change(kind, c), stream' = stream
    PROVE  /\ truth' \in SUBSET (1 .. MaxChanges) /\ deletions' \in SUBSET (1 .. MaxChanges)
           /\ events' \in Seq(Event) /\ stale' \in BOOLEAN
           /\ ~stale' => ~stale /\ stream.before
           /\ NewsKept
<1>1. /\ truth' = truth \cup {c}
      /\ \/ /\ events' = IF stream.open THEN Append(events, [kind |-> kind, change |-> c]) ELSE events
            /\ dropped' = dropped
         \/ stream.open /\ events' = events /\ dropped' = dropped \cup {c}
      /\ deletions' \in {deletions, deletions \cup {c}} /\ stale' = (stale \/ ~stream.before)
  BY DEF Change, Publish
<1>2. events \in Seq(Event) /\ stream.open \in BOOLEAN /\ stream.before \in BOOLEAN /\ stale \in BOOLEAN
  BY DEF QueriesTyped
<1>3. NewsKept
  <2> USE DEF NewsKept
  <2> SUFFICES ASSUME NEW v, FreshFor(v, truth, events, dropped, stream.open)
               PROVE  FreshFor(v, truth \cup {c}, events', dropped', stream.open)
    BY <1>1
  <2>3. CASE events' = events /\ dropped' = dropped \cup {c}
    BY <2>3 DEF FreshFor
  <2>1. CASE stream.open /\ events' = Append(events, [kind |-> kind, change |-> c]) /\ dropped' = dropped
    <3> DEFINE e == [kind |-> kind, change |-> c]
    <3>1. e \in Event /\ e.change = c /\ events' = Append(events, e)
      BY <1>1, <2>1 DEF Event
    <3> HIDE DEF e
    <3>2. FreshFor(v, truth \cup {e.change}, Append(events, e), dropped, stream.open)
      BY <3>1, <1>2, FreshAfterChange
    <3> QED
      BY <2>1, <3>1, <3>2
  <2>2. CASE ~stream.open
    BY <2>2 DEF FreshFor
  <2> QED
    BY <1>1, <2>1, <2>2, <2>3
<1>4. events' \in Seq(Event)
  <2>1. [kind |-> kind, change |-> c] \in Event
    BY DEF Event
  <2> QED
    BY <1>1, <1>2, <2>1
<1>5. truth' \in SUBSET (1 .. MaxChanges) /\ deletions' \in SUBSET (1 .. MaxChanges)
  BY <1>1 DEF QueriesTyped
<1> QED
  BY <1>1, <1>2, <1>3, <1>4, <1>5

\* What an answer that is not outdated carries is fresh.
LEMMA NotOutdated ==
    ASSUME NEW v, ~Outdated(v) PROVE Fresh(v)
BY DEF Outdated, Fresh, FreshFor

\* A step after which what was accounted for still is.
LEMMA EntryIsKept ==
    ASSUME NEW q \in Queries, cache'[q] = cache[q], q = shown' => q = shown, Gone => Gone', NewsKept
    PROVE  /\ Accounted(q) => Accounted(q)'
           /\ AnswerIsFresh(q) => AnswerIsFresh(q)'
BY DEF Accounted, AnswerIsFresh, Known, Fresh, NewsKept

LEMMA CacheIsKept ==
    ASSUME CacheFollows, ConnectedBeforeNews', Gone => Gone', Updating => Updating',
           NewsKept,
           \A q \in Queries : \/ cache'[q] = cache[q]
                              \/ cache'[q].fetch \in {"asked", "late"}
                              \/ cache'[q].fetch = "answered" /\ FreshFor(cache'[q].got, truth', events', dropped', stream'.open),
           shown' = shown \/ Updating \/ \A q \in Queries : q = shown' => Accounted(q)'
    PROVE  CacheFollows'
<1>1. ASSUME NEW q \in Queries PROVE AnswerIsFresh(q)'
  <2>1. CASE cache'[q] = cache[q]
    <3>1. AnswerIsFresh(q)
      BY DEF CacheFollows
    <3> QED
      BY <2>1, <3>1 DEF AnswerIsFresh, Fresh, NewsKept
  <2>2. CASE cache'[q].fetch \in {"asked", "late"}
    BY <2>2 DEF AnswerIsFresh
  <2>3. CASE cache'[q].fetch = "answered" /\ FreshFor(cache'[q].got, truth', events', dropped', stream'.open)
    BY <2>3 DEF AnswerIsFresh, Fresh
  <2> QED
    BY <2>1, <2>2, <2>3
<1>2. ASSUME NEW q \in Queries, Accounted(q), ~Updating PROVE Accounted(q)'
  <2>1. CASE cache'[q] = cache[q] /\ (q = shown' => shown' = shown)
    BY <1>2, <2>1, EntryIsKept
  <2>3. CASE q = shown' /\ shown' # shown
    BY <1>2, <2>3
  <2>2. CASE cache'[q].fetch \in {"asked", "late", "answered"}
    BY <2>2 DEF Accounted
  <2> QED
    BY <2>1, <2>2, <2>3
<1> QED
  BY <1>1, <1>2 DEF CacheFollows

\* A step that leaves the server, the stream and the operations alone.
Apart == UNCHANGED <<truth, deletions, ops, events, dropped, stream>>

LEMMA ApartKeeps ==
    ASSUME CacheFollows, Apart
    PROVE  /\ ConnectedBeforeNews' /\ (Gone => Gone') /\ (Updating => Updating')
           /\ NewsKept
<1>1. ConnectedBeforeNews
  BY DEF CacheFollows
<1> QED
  BY <1>1 DEF Apart, ConnectedBeforeNews, Gone, Updating, NewsKept

LEMMA ShowIsSound ==
    ASSUME CacheSound, ~stale, NEW q \in Queries, Show(q) PROVE CacheSound'
<1>1. cache[q] \in Entries /\ shown' = q /\ UNCHANGED <<truth, deletions, ops, events, dropped, stream, made, stale>>
      /\ cache \in [Queries -> Entries]
  BY DEF Show, CacheSound, QueriesTyped
<1>2. \/ cache' = cache /\ (cache[q].fetch # "idle" \/ (Known(q) /\ ~cache[q].invalid))
      \/ cache' = [cache EXCEPT ![q] = Refetched(@)] /\ cache[q].fetch = "idle"
  BY <1>1 DEF Show
<1>3. Refetched(cache[q]) \in Entries /\ Refetched(cache[q]).fetch = "asked"
  BY <1>1, EntryFields
<1>4. /\ cache' \in [Queries -> Entries]
      /\ \A p \in Queries : cache'[p] = cache[p] \/ cache'[p].fetch = "asked"
  BY <1>1, <1>2, <1>3
<1>5. QueriesTyped'
  BY <1>1, <1>4 DEF CacheSound, QueriesTyped
<1>6. CacheFollows
  BY DEF CacheSound
<1>7. Updating \/ Accounted(q)'
  <2>1. CASE cache' = cache /\ (cache[q].fetch # "idle" \/ (Known(q) /\ ~cache[q].invalid))
    <3>1. CASE cache[q].fetch # "idle"
      BY <2>1, <3>1 DEF Accounted
    <3>2. CASE Known(q) /\ ~cache[q].invalid /\ cache[q].fetch = "idle" /\ ~Updating
      <4>1. (q = "detail" /\ Gone) \/ FreshFor(cache[q].data, truth, events, dropped, stream.open)
        BY <1>6, <3>2 DEF Accounted, CacheFollows, Fresh
      <4> QED
        BY <1>1, <2>1, <4>1 DEF Accounted, Fresh, Gone
    <3> QED
      BY <2>1, <3>1, <3>2
  <2>2. CASE cache' = [cache EXCEPT ![q] = Refetched(@)]
    <3>1. cache'[q].fetch = "asked"
      BY <1>1, <1>3, <2>2
    <3> QED
      BY <3>1 DEF Accounted
  <2> QED
    BY <1>2, <2>1, <2>2
<1>8. Apart
  BY <1>1 DEF Apart
<1>9. CacheFollows'
  BY <1>1, <1>4, <1>6, <1>7, <1>8, ApartKeeps, CacheIsKept
<1> QED
  BY <1>5, <1>9 DEF CacheSound

LEMMA AnswersIsSound ==
    ASSUME CacheSound, ~stale, NEW q \in Queries, Answers(q) PROVE CacheSound'
<1>1. /\ cache[q] \in Entries /\ cache \in [Queries -> Entries] /\ truth \in Versions
      /\ cache' = [cache EXCEPT ![q].fetch = "answered", ![q].got = truth]
      /\ UNCHANGED <<truth, deletions, shown, ops, events, dropped, stream, made, stale>>
  BY DEF Answers, CacheSound, QueriesTyped, Versions
<1>2. \A v : [cache[q] EXCEPT !.fetch = "answered", !.got = v].fetch = "answered"
             /\ [cache[q] EXCEPT !.fetch = "answered", !.got = v].got = v
  BY <1>1 DEF Entries
<1>3. /\ cache' \in [Queries -> Entries] /\ cache'[q].fetch = "answered" /\ cache'[q].got = truth
      /\ \A p \in Queries : p # q => cache'[p] = cache[p]
  <2> DEFINE e == [cache[q] EXCEPT !.fetch = "answered", !.got = truth]
  <2>1. e \in Entries
    BY <1>1, EntryFields DEF Fetches
  <2>2. e.fetch = "answered" /\ e.got = truth
    BY <1>2
  <2>3. cache' = [cache EXCEPT ![q] = e]
    BY <1>1
  <2> HIDE DEF e
  <2> QED
    BY <1>1, <2>1, <2>2, <2>3
<1>4. QueriesTyped'
  BY <1>1, <1>3 DEF CacheSound, QueriesTyped
<1>5. CacheFollows /\ Apart
  BY <1>1 DEF CacheSound, Apart
<1>6. FreshFor(cache'[q].got, truth', events', dropped', stream'.open)
  BY <1>1, <1>3 DEF FreshFor
<1>7. CacheFollows'
  BY <1>1, <1>3, <1>5, <1>6, ApartKeeps, CacheIsKept
<1> QED
  BY <1>4, <1>7 DEF CacheSound

LEMMA NotFoundIsSound ==
    ASSUME CacheSound, ~stale, NotFound PROVE CacheSound'
<1>1. /\ cache \in [Queries -> Entries] /\ "detail" \in Queries /\ Gone
      /\ shown' = IF shown = "detail" THEN "none" ELSE shown
      /\ cache' = [cache EXCEPT !["detail"].fetch = "idle"]
      /\ UNCHANGED <<truth, deletions, ops, events, dropped, stream, made, stale>>
  BY DEF NotFound, CacheSound, QueriesTyped, Queries
<1>2. /\ cache' \in [Queries -> Entries] /\ cache'["detail"].fetch = "idle"
      /\ \A p \in Queries : p # "detail" => cache'[p] = cache[p]
  <2> DEFINE e == [cache["detail"] EXCEPT !.fetch = "idle"]
  <2>1. e \in Entries /\ e.fetch = "idle"
    BY <1>1, EntryFields
  <2>2. cache' = [cache EXCEPT !["detail"] = e]
    BY <1>1
  <2> HIDE DEF e
  <2> QED
    BY <1>1, <2>1, <2>2
<1>3. QueriesTyped'
  BY <1>1, <1>2 DEF CacheSound, QueriesTyped
<1>4. CacheFollows /\ Apart
  BY <1>1 DEF CacheSound, Apart
<1>5. ConnectedBeforeNews' /\ Gone' /\ (Updating => Updating') /\ NewsKept
  BY <1>1, <1>4, ApartKeeps
<1>6. ASSUME NEW p \in Queries PROVE AnswerIsFresh(p)'
  <2>1. AnswerIsFresh(p)
    BY <1>4 DEF CacheFollows
  <2> QED
    BY <1>1, <1>2, <2>1 DEF AnswerIsFresh, Fresh
<1>7. ASSUME NEW p \in Queries, Accounted(p) PROVE Accounted(p)'
  <2>1. CASE p = "detail"
    BY <1>5, <2>1 DEF Accounted
  <2>2. CASE p # "detail"
    <3>1. p = shown' => p = shown
      BY <1>1, <2>2 DEF Queries
    <3>2. cache'[p] = cache[p]
      BY <1>2, <2>2
    <3> QED
      BY <1>5, <1>7, <3>1, <3>2, EntryIsKept
  <2> QED
    BY <2>1, <2>2
<1>8. CacheFollows'
  BY <1>4, <1>5, <1>6, <1>7 DEF CacheFollows
<1> QED
  BY <1>3, <1>8 DEF CacheSound

LEMMA ArrivesIsSound ==
    ASSUME CacheSound, ~stale, NEW q \in Queries, Arrives(q) PROVE CacheSound'
<1>1. /\ cache[q] \in Entries /\ cache \in [Queries -> Entries]
      /\ cache[q].fetch \in {"answered", "late"}
      /\ cache' = [cache EXCEPT ![q] = [Set(@, @.got) EXCEPT !.fetch = "idle", !.got = {}]]
      /\ stale' = (stale \/ cache[q].fetch = "late")
      /\ UNCHANGED <<truth, deletions, shown, ops, events, dropped, stream, made>>
  BY DEF Arrives, CacheSound, QueriesTyped
<1>2. /\ cache' \in [Queries -> Entries] /\ cache'[q].fetch = "idle" /\ cache'[q].data = cache[q].got
      /\ \A p \in Queries : p # q => cache'[p] = cache[p]
  <2> DEFINE s == Set(cache[q], cache[q].got)
             e == [s EXCEPT !.fetch = "idle", !.got = {}]
  <2>1. s \in Entries /\ s.data = cache[q].got
    BY <1>1, EntryFields, SetFields
  <2>2. cache' = [cache EXCEPT ![q] = e]
    BY <1>1
  <2> HIDE DEF s
  <2>3. e \in Entries /\ e.fetch = "idle" /\ e.data = s.data
    <3>1. {} \in Versions /\ "idle" \in Fetches
      BY DEF Versions, Fetches
    <3> QED
      BY <2>1, <3>1 DEF Entries
  <2> HIDE DEF e
  <2> QED
    BY <1>1, <2>1, <2>2, <2>3
<1>3. QueriesTyped'
  BY <1>1, <1>2 DEF CacheSound, QueriesTyped
<1>4. CASE cache[q].fetch = "answered"
  <2>1. CacheFollows /\ Apart
    BY <1>1 DEF CacheSound, Apart
  <2>2. ConnectedBeforeNews' /\ (Gone => Gone') /\ (Updating => Updating')
    BY <2>1, ApartKeeps
  <2>3. ASSUME NEW p \in Queries PROVE AnswerIsFresh(p)'
    <3>1. AnswerIsFresh(p)
      BY <2>1 DEF CacheFollows
    <3> QED
      BY <1>1, <1>2, <3>1 DEF AnswerIsFresh, Fresh
  <2>4. ASSUME NEW p \in Queries, Accounted(p) PROVE Accounted(p)'
    <3>1. CASE p = q
      <4>1. AnswerIsFresh(q)
        BY <2>1 DEF CacheFollows
      <4>2. FreshFor(cache'[q].data, truth', events', dropped', stream'.open)
        BY <1>1, <1>2, <1>4, <4>1 DEF AnswerIsFresh, Fresh
      <4> QED
        BY <3>1, <4>2 DEF Accounted, Fresh
    <3>2. CASE p # q
      <4>1. cache'[p] = cache[p]
        BY <1>2, <3>2
      <4> QED
        BY <1>1, <2>1, <2>2, <2>4, <4>1, ApartKeeps, EntryIsKept
    <3> QED
      BY <3>1, <3>2
  <2>5. CacheFollows'
    BY <2>1, <2>2, <2>3, <2>4 DEF CacheFollows
  <2> QED
    BY <1>3, <2>5 DEF CacheSound
<1>5. CASE cache[q].fetch = "late"
  BY <1>1, <1>3, <1>5 DEF CacheSound
<1> QED
  BY <1>1, <1>4, <1>5

LEMMA FetchFailsIsSound ==
    ASSUME CacheSound, ~stale, NEW q \in Queries, FetchFails(q) PROVE CacheSound'
<1>1. /\ cache[q] \in Entries /\ cache \in [Queries -> Entries]
      /\ cache' = [cache EXCEPT ![q].fetch = "idle", ![q].got = {}] /\ stale' = TRUE
      /\ UNCHANGED <<truth, deletions, shown, ops, events, dropped, stream, made>>
  BY DEF FetchFails, CacheSound, QueriesTyped
<1>2. {} \in Versions /\ "idle" \in Fetches
  BY DEF Versions, Fetches
<1>3. cache' \in [Queries -> Entries]
  <2> DEFINE e == [cache[q] EXCEPT !.fetch = "idle", !.got = {}]
  <2>1. e \in Entries /\ cache' = [cache EXCEPT ![q] = e]
    BY <1>1, <1>2, EntryFields
  <2> HIDE DEF e
  <2> QED
    BY <1>1, <2>1
<1> QED
  BY <1>1, <1>3 DEF CacheSound, QueriesTyped

-----------------------------------------------------------------------------
LEMMA ServerStepIsSound ==
    ASSUME CacheSound, ~stale,
           \/ \E kind \in {"updated", "deleted"} : OtherChanges(kind)
           \/ \E c \in 1 .. MaxChanges : ServerTakes(c)
    PROVE CacheSound'
<1>1. ASSUME NEW kind \in {"updated", "deleted"}, OtherChanges(kind) PROVE CacheSound'
  <2>1. /\ made' \in 1 .. MaxChanges /\ made' = made + 1 /\ made \in 0 .. MaxChanges /\ Change(kind, made')
        /\ UNCHANGED <<cache, shown, ops, stream>> /\ kind \in ChangeKinds
    BY <1>1, WebQueriesConstants DEF OtherChanges, CacheSound, QueriesTyped, ChangeKinds
  <2> DEFINE c == made'
  <2>2. QueriesTyped /\ c \in 1 .. MaxChanges /\ Change(kind, c)
    BY <2>1 DEF CacheSound
  <2> HIDE DEF c
  <2>3. /\ truth' \in SUBSET (1 .. MaxChanges) /\ deletions' \in SUBSET (1 .. MaxChanges)
        /\ events' \in Seq(Event) /\ stale' \in BOOLEAN
        /\ ~stale' => ~stale /\ stream.before
        /\ NewsKept
        /\ Gone => Gone'
    BY <2>1, <2>2, ChangesAreAnnounced DEF Change
  <2>4. QueriesTyped'
    BY <2>1, <2>3 DEF CacheSound, QueriesTyped
  <2>5. ~stale' => CacheFollows'
    <3> SUFFICES ASSUME ~stale' PROVE CacheFollows'
      OBVIOUS
    <3>1. ConnectedBeforeNews' /\ (Updating => Updating') /\ CacheFollows
      BY <2>1, <2>3 DEF ConnectedBeforeNews, Updating, CacheSound
    <3> QED
      BY <2>1, <2>3, <3>1, CacheIsKept
  <2> QED
    BY <2>4, <2>5 DEF CacheSound
<1>2. ASSUME NEW c \in 1 .. MaxChanges, ServerTakes(c) PROVE CacheSound'
  <2>1. /\ QueriesTyped /\ ops[c] \in OpsInFlight \cup {NoOp} /\ ops[c].at = "sent"
        /\ Change(ops[c].kind, c) /\ c \in 1 .. MaxChanges
        /\ ops \in [1 .. MaxChanges -> OpsInFlight \cup {NoOp}]
        /\ ops' = [ops EXCEPT ![c].at = "taken", ![c].resp = truth']
        /\ UNCHANGED <<cache, shown, stream, made>>
    BY <1>2 DEF ServerTakes, CacheSound, QueriesTyped
  <2>2. ops[c] \in OpsInFlight /\ ops[c].kind \in ChangeKinds /\ ops[c] # NoOp
    BY <2>1, OpFields
  <2>3. /\ truth' \in SUBSET (1 .. MaxChanges) /\ deletions' \in SUBSET (1 .. MaxChanges)
        /\ events' \in Seq(Event) /\ stale' \in BOOLEAN
        /\ ~stale' => ~stale /\ stream.before
        /\ NewsKept
        /\ Gone => Gone'
    <3> DEFINE kind == ops[c].kind
    <3>1. kind \in ChangeKinds /\ Change(kind, c)
      BY <2>1, <2>2
    <3> HIDE DEF kind
    <3>2. Gone => Gone'
      BY <3>1 DEF Change
    <3> QED
      BY <2>1, <3>1, <3>2, ChangesAreAnnounced
  <2>4. /\ ops' \in [1 .. MaxChanges -> OpsInFlight \cup {NoOp}]
        /\ \A d \in 1 .. MaxChanges : ops'[d].kind = ops[d].kind /\ (ops[d] = NoOp => ops'[d] = NoOp)
    <3> DEFINE v == truth'
    <3>1. v \in Versions /\ ops[c].at # "none" /\ "taken" \in {"sent", "taken", "read"}
      BY <2>1, <2>3 DEF Versions
    <3> HIDE DEF v
    <3>2. OpTaken(ops, c, "taken", v)
      BY <2>1, <3>1, OpIsTaken
    <3>3. OpTaken(ops, c, "taken", truth')
      BY <3>2 DEF v
    <3> QED
      BY <2>1, <3>3 DEF OpTaken
  <2>5. QueriesTyped'
    BY <2>1, <2>3, <2>4 DEF QueriesTyped
  <2>6. ~stale' => CacheFollows'
    <3> SUFFICES ASSUME ~stale' PROVE CacheFollows'
      OBVIOUS
    <3>1. ConnectedBeforeNews' /\ (Updating => Updating') /\ CacheFollows
      BY <2>1, <2>3, <2>4 DEF ConnectedBeforeNews, Updating, CacheSound
    <3> QED
      BY <2>1, <2>3, <3>1, CacheIsKept
  <2> QED
    BY <2>5, <2>6 DEF CacheSound
<1> QED
  BY <1>1, <1>2

\* An operation starts.
LEMMA StartFields ==
    ASSUME QueriesTyped, NEW kind \in ChangeKinds, NEW prev \in Versions, Start(kind, prev)
    PROVE  /\ made' \in 1 .. MaxChanges /\ made' = made + 1 /\ shown \in Queries /\ Known(shown)
           /\ ops' \in [1 .. MaxChanges -> OpsInFlight \cup {NoOp}]
           /\ \A c \in 1 .. MaxChanges : c > made' => ops'[c] = NoOp
           /\ kind \in Updates => Updating'
           /\ Updating => Updating'
           /\ UNCHANGED <<truth, deletions, shown, events, dropped, stream, stale>>
<1> DEFINE op == [at |-> "sent", kind |-> kind, prev |-> prev, resp |-> {}]
<1>1. /\ made' \in 1 .. MaxChanges /\ made' = made + 1 /\ made \in 0 .. MaxChanges
      /\ shown # "none" /\ Known(shown)
      /\ ops' = [ops EXCEPT ![made'] = op]
      /\ UNCHANGED <<truth, deletions, shown, events, dropped, stream, stale>>
      /\ ops \in [1 .. MaxChanges -> OpsInFlight \cup {NoOp}] /\ shown \in Queries
      /\ ops[made'] = NoOp /\ \A c \in 1 .. MaxChanges : c > made => ops[c] = NoOp
  BY WebQueriesConstants DEF Start, QueriesTyped
<1>2. op \in OpsInFlight /\ op.kind = kind
  BY DEF OpsInFlight, Versions
<1>3. NoOp.kind \notin Updates
  BY DEF NoOp, Updates
<1> HIDE DEF op
<1>4. ops' \in [1 .. MaxChanges -> OpsInFlight \cup {NoOp}] /\ ops'[made'] = op
      /\ \A c \in 1 .. MaxChanges : c # made' => ops'[c] = ops[c]
  BY <1>1, <1>2
<1>5. \A c \in 1 .. MaxChanges : c > made' => ops'[c] = NoOp
  BY <1>1, <1>4
<1>6. ASSUME kind \in Updates PROVE Updating'
  BY <1>1, <1>2, <1>4, <1>6 DEF Updating
<1>7. ASSUME Updating PROVE Updating'
  BY <1>1, <1>3, <1>4, <1>7 DEF Updating
<1> QED
  BY <1>1, <1>4, <1>5, <1>6, <1>7

LEMMA UpdateIsSound ==
    ASSUME CacheSound, ~stale, NEW kind \in Updates, Update(kind) PROVE CacheSound'
<1> DEFINE prev == IF Known("detail") THEN cache["detail"].data ELSE cache["collection"].data
           kept == [q \in Queries |-> [cache[q] EXCEPT !.fetch = "idle", !.got = {}]]
<1>1. /\ QueriesTyped /\ cache \in [Queries -> Entries] /\ kind \in ChangeKinds
      /\ "detail" \in Queries /\ "collection" \in Queries
  BY DEF CacheSound, QueriesTyped, ChangeKinds, Updates, Queries
<1>2. prev \in Versions
  BY <1>1, EntryFields
<1>3. /\ Start(kind, prev)
      /\ cache' = [q \in Queries |-> IF q = "detail" THEN Set(kept[q], prev \cup {made'})
                                     ELSE IF Known(q) THEN Set(kept[q], kept[q].data \cup {made'})
                                     ELSE kept[q]]
  BY DEF Update
<1>7. ASSUME NEW q \in Queries PROVE kept[q] \in Entries /\ kept[q].fetch = "idle"
  BY <1>1 DEF Entries, Versions, Fetches
<1> HIDE DEF prev, kept
<1>4. \A q \in Queries :
        cache'[q] = IF q = "detail" THEN Set(kept[q], prev \cup {made'})
                    ELSE IF Known(q) THEN Set(kept[q], kept[q].data \cup {made'})
                    ELSE kept[q]
  BY <1>3
<1>5. cache' = [q \in Queries |-> cache'[q]]
  BY <1>3
<1>6. /\ made' \in 1 .. MaxChanges
      /\ ops' \in [1 .. MaxChanges -> OpsInFlight \cup {NoOp}]
      /\ \A c \in 1 .. MaxChanges : c > made' => ops'[c] = NoOp
      /\ Updating'
      /\ UNCHANGED <<truth, deletions, shown, events, dropped, stream, stale>>
  BY <1>1, <1>2, <1>3, StartFields
<1>8. ASSUME NEW q \in Queries PROVE cache'[q] \in Entries /\ cache'[q].fetch = "idle"
  <2>1. prev \cup {made'} \in Versions /\ kept[q].data \cup {made'} \in Versions
    <3>1. kept[q].data \in Versions
      BY <1>7, EntryFields
    <3> DEFINE p == prev
               h == kept[q].data
               c == made'
    <3>2. p \in Versions /\ h \in Versions /\ c \in 1 .. MaxChanges
      BY <1>2, <1>6, <3>1
    <3> HIDE DEF p, h, c
    <3>3. p \cup {c} \in Versions /\ h \cup {c} \in Versions
      BY <3>2 DEF Versions
    <3> QED
      BY <3>3 DEF p, h, c
  <2>2. \A v \in Versions : Set(kept[q], v) \in Entries /\ Set(kept[q], v).fetch = "idle"
    BY <1>7, SetFields
  <2> QED
    BY <1>4, <1>7, <2>1, <2>2
<1>9. cache' \in [Queries -> Entries]
  BY <1>5, <1>8
<1>10. QueriesTyped'
  BY <1>1, <1>6, <1>9 DEF QueriesTyped
<1>11. CacheFollows'
  <2>1. \A q \in Queries : AnswerIsFresh(q)'
    BY <1>8 DEF AnswerIsFresh
  <2>2. ConnectedBeforeNews'
    BY <1>6 DEF CacheSound, CacheFollows, ConnectedBeforeNews
  <2> QED
    BY <1>6, <2>1, <2>2 DEF CacheFollows
<1> QED
  BY <1>10, <1>11 DEF CacheSound

LEMMA RequestIsSound ==
    ASSUME CacheSound, ~stale, React \/ Delete PROVE CacheSound'
<1>1. PICK kind \in ChangeKinds : Start(kind, {}) /\ cache' = cache
  BY DEF React, Delete, ChangeKinds
<1>2. {} \in Versions /\ QueriesTyped /\ CacheFollows
  BY DEF Versions, CacheSound
<1>3. /\ made' \in 1 .. MaxChanges
      /\ ops' \in [1 .. MaxChanges -> OpsInFlight \cup {NoOp}]
      /\ \A c \in 1 .. MaxChanges : c > made' => ops'[c] = NoOp
      /\ Updating => Updating'
      /\ UNCHANGED <<truth, deletions, shown, events, dropped, stream, stale>>
  BY <1>1, <1>2, StartFields
<1>4. QueriesTyped'
  BY <1>1, <1>2, <1>3 DEF QueriesTyped
<1>5. ConnectedBeforeNews' /\ (Gone => Gone') /\ NewsKept
  BY <1>2, <1>3 DEF CacheFollows, ConnectedBeforeNews, Gone, NewsKept
<1>6. CacheFollows'
  BY <1>1, <1>2, <1>3, <1>5, CacheIsKept
<1> QED
  BY <1>4, <1>6 DEF CacheSound

-----------------------------------------------------------------------------
\* An operation ends.
LEMMA OverFields ==
    ASSUME QueriesTyped, NEW c \in 1 .. MaxChanges, Over(c), made' = made
    PROVE  /\ ops' \in [1 .. MaxChanges -> OpsInFlight \cup {NoOp}]
           /\ \A d \in 1 .. MaxChanges : d > made' => ops'[d] = NoOp
           /\ ops[c].kind \notin Updates => (Updating => Updating')
<1>1. /\ ops \in [1 .. MaxChanges -> OpsInFlight \cup {NoOp}]
      /\ ops' = [ops EXCEPT ![c] = NoOp]
      /\ \A d \in 1 .. MaxChanges : d > made => ops[d] = NoOp
  BY DEF Over, QueriesTyped
<1> QED
  BY <1>1 DEF Updating

\* A value is shown everywhere the memo is kept.
Spread(v) == [q \in Queries |-> IF q = "detail" \/ Known(q) THEN Set(cache[q], v) ELSE cache[q]]

LEMMA SpreadFields ==
    ASSUME QueriesTyped, NEW v \in Versions
    PROVE  /\ Spread(v) \in [Queries -> Entries]
           /\ \A q \in Queries : /\ Spread(v)[q].fetch = cache[q].fetch /\ Spread(v)[q].got = cache[q].got
                                 /\ Spread(v)[q].data = v \/ Spread(v)[q].data = Unknown
<1>1. cache \in [Queries -> Entries]
  BY DEF QueriesTyped
<1> DEFINE s == Spread(v)
<1>2. \A q \in Queries : s[q] = IF q = "detail" \/ Known(q) THEN Set(cache[q], v) ELSE cache[q]
  BY DEF Spread
<1>3. s = [q \in Queries |-> s[q]]
  BY DEF Spread
<1> HIDE DEF s
<1>4. ASSUME NEW q \in Queries
      PROVE  /\ s[q] \in Entries /\ s[q].fetch = cache[q].fetch /\ s[q].got = cache[q].got
             /\ s[q].data = v \/ s[q].data = Unknown
  <2>1. cache[q] \in Entries
    BY <1>1
  <2>2. CASE s[q] = Set(cache[q], v)
    BY <2>1, <2>2, SetFields
  <2>3. CASE s[q] = cache[q] /\ ~Known(q)
    BY <2>1, <2>3 DEF Known
  <2> QED
    BY <1>2, <2>2, <2>3
<1>5. s \in [Queries -> Entries]
  BY <1>3, <1>4
<1> QED
  BY <1>4, <1>5 DEF s

LEMMA UpdatedIsSound ==
    ASSUME CacheSound, ~stale, NEW c \in 1 .. MaxChanges, Updated(c) PROVE CacheSound'
<1> DEFINE v == ops[c].resp
           s == Spread(v)
<1>1. /\ QueriesTyped /\ CacheFollows /\ Over(c) /\ shown' \in {shown, "collection"}
      /\ cache' = Invalidated(s, {"collection"})
      /\ stale' = (stale \/ Outdated(v))
      /\ UNCHANGED <<truth, deletions, events, dropped, stream, made>>
      /\ {"collection"} \in SUBSET Queries /\ "collection" \in Queries
      /\ ops[c] \in OpsInFlight \cup {NoOp} /\ ops[c].at = "taken"
  BY DEF Updated, CacheSound, QueriesTyped, Spread, Queries
<1>2. v \in Versions
  BY <1>1, OpFields
<1> HIDE DEF v
<1>3. /\ s \in [Queries -> Entries]
      /\ \A q \in Queries : /\ s[q].fetch = cache[q].fetch /\ s[q].got = cache[q].got
                            /\ s[q].data = v \/ s[q].data = Unknown
  BY <1>1, <1>2, SpreadFields
<1> HIDE DEF s
<1>4. /\ cache' \in [Queries -> Entries]
      /\ \A q \in Queries : cache'[q].data = s[q].data /\ cache'[q].got = s[q].got
      /\ \A q \in Queries : cache'[q].fetch = "answered" => s[q].fetch = "answered"
  BY <1>1, <1>3, InvalidatedFields
<1>5. QueriesTyped'
  <2>1. /\ ops' \in [1 .. MaxChanges -> OpsInFlight \cup {NoOp}]
        /\ \A d \in 1 .. MaxChanges : d > made' => ops'[d] = NoOp
    BY <1>1, OverFields
  <2>2. stale' \in BOOLEAN
    BY <1>1 DEF Outdated
  <2> QED
    BY <1>1, <1>4, <2>1, <2>2 DEF QueriesTyped
<1>6. ASSUME ~stale' PROVE CacheFollows'
  <2>1. FreshFor(v, truth, events, dropped, stream.open)
    BY <1>1, <1>6, NotOutdated DEF Fresh
  <2>2. ASSUME NEW q \in Queries PROVE AnswerIsFresh(q)' /\ Accounted(q)'
    <3>1. AnswerIsFresh(q)
      BY <1>1 DEF CacheFollows
    <3>2. AnswerIsFresh(q)'
      BY <1>1, <1>3, <1>4, <3>1 DEF AnswerIsFresh, Fresh
    <3>3. cache'[q].data = v \/ cache'[q].data = Unknown
      BY <1>3, <1>4
    <3>4. Accounted(q)'
      BY <1>1, <2>1, <3>3 DEF Accounted, Fresh, Known
    <3> QED
      BY <3>2, <3>4
  <2>3. ConnectedBeforeNews'
    BY <1>1 DEF CacheFollows, ConnectedBeforeNews
  <2> QED
    BY <2>2, <2>3 DEF CacheFollows
<1> QED
  BY <1>5, <1>6 DEF CacheSound

LEMMA RolledBackIsSound ==
    ASSUME CacheSound, ~stale, NEW c \in 1 .. MaxChanges, RolledBack(c) PROVE CacheSound'
<1> DEFINE v == ops[c].prev
           s == Spread(v)
<1>1. /\ QueriesTyped /\ CacheFollows /\ Over(c)
      /\ cache' = s
      /\ stale' = (stale \/ Outdated(v))
      /\ UNCHANGED <<truth, deletions, shown, events, dropped, stream, made>>
      /\ ops[c] \in OpsInFlight \cup {NoOp} /\ ops[c].at \in {"sent", "taken"}
  BY DEF RolledBack, CacheSound, QueriesTyped, Spread
<1>2. v \in Versions
  BY <1>1, OpFields
<1> HIDE DEF v
<1>3. /\ s \in [Queries -> Entries]
      /\ \A q \in Queries : /\ s[q].fetch = cache[q].fetch /\ s[q].got = cache[q].got
                            /\ s[q].data = v \/ s[q].data = Unknown
  BY <1>1, <1>2, SpreadFields
<1> HIDE DEF s
<1>5. QueriesTyped'
  <2>1. /\ ops' \in [1 .. MaxChanges -> OpsInFlight \cup {NoOp}]
        /\ \A d \in 1 .. MaxChanges : d > made' => ops'[d] = NoOp
    BY <1>1, OverFields
  <2>2. stale' \in BOOLEAN
    BY <1>1 DEF Outdated
  <2> QED
    BY <1>1, <1>3, <2>1, <2>2 DEF QueriesTyped
<1>6. ASSUME ~stale' PROVE CacheFollows'
  <2>1. FreshFor(v, truth, events, dropped, stream.open)
    BY <1>1, <1>6, NotOutdated DEF Fresh
  <2>2. ASSUME NEW q \in Queries PROVE AnswerIsFresh(q)' /\ Accounted(q)'
    <3>1. AnswerIsFresh(q)
      BY <1>1 DEF CacheFollows
    <3>2. AnswerIsFresh(q)'
      BY <1>1, <1>3, <3>1 DEF AnswerIsFresh, Fresh
    <3>3. cache'[q].data = v \/ cache'[q].data = Unknown
      BY <1>1, <1>3
    <3>4. Accounted(q)'
      BY <1>1, <2>1, <3>3 DEF Accounted, Fresh, Known
    <3> QED
      BY <3>2, <3>4
  <2>3. ConnectedBeforeNews'
    BY <1>1 DEF CacheFollows, ConnectedBeforeNews
  <2> QED
    BY <2>2, <2>3 DEF CacheFollows
<1> QED
  BY <1>5, <1>6 DEF CacheSound

LEMMA FailedIsSound ==
    ASSUME CacheSound, ~stale, NEW c \in 1 .. MaxChanges, Failed(c) PROVE CacheSound'
<1> DEFINE v == ops[c].prev
           s == Spread(v)
<1>1. /\ QueriesTyped /\ CacheFollows /\ Over(c)
      /\ cache' = s \/ cache' = cache
      /\ ops[c].kind \notin Updates => cache' = cache
      /\ stale' = (stale \/ ops[c].at = "taken" \/ ops[c].kind \in Updates)
      /\ UNCHANGED <<truth, deletions, shown, events, dropped, stream, made>>
      /\ ops[c] \in OpsInFlight \cup {NoOp} /\ ops[c].at \in {"sent", "taken"}
      /\ cache \in [Queries -> Entries]
  BY DEF Failed, CacheSound, QueriesTyped, Spread
<1>2. v \in Versions
  BY <1>1, OpFields
<1> HIDE DEF v
<1>3. s \in [Queries -> Entries]
  BY <1>1, <1>2, SpreadFields
<1> HIDE DEF s
<1>4. /\ ops' \in [1 .. MaxChanges -> OpsInFlight \cup {NoOp}]
      /\ \A d \in 1 .. MaxChanges : d > made' => ops'[d] = NoOp
      /\ ops[c].kind \notin Updates => (Updating => Updating')
  BY <1>1, OverFields
<1>5. QueriesTyped'
  <2>1. stale' \in BOOLEAN
    BY <1>1
  <2>2. cache' \in [Queries -> Entries]
    BY <1>1, <1>3
  <2> QED
    BY <1>1, <1>4, <2>1, <2>2 DEF QueriesTyped
<1>6. ASSUME ~stale' PROVE CacheFollows'
  <2>1. cache' = cache /\ (Updating => Updating')
    BY <1>1, <1>4, <1>6
  <2>2. ConnectedBeforeNews' /\ (Gone => Gone') /\ NewsKept
    BY <1>1 DEF CacheFollows, ConnectedBeforeNews, Gone, NewsKept
  <2> QED
    BY <1>1, <2>1, <2>2, CacheIsKept
<1> QED
  BY <1>5, <1>6 DEF CacheSound

LEMMA ReadIsSound ==
    ASSUME CacheSound, ~stale, NEW c \in 1 .. MaxChanges, Read(c) PROVE CacheSound'
<1>1. /\ QueriesTyped /\ CacheFollows
      /\ ops \in [1 .. MaxChanges -> OpsInFlight \cup {NoOp}] /\ ops[c].at = "taken"
      /\ ops' = [ops EXCEPT ![c].at = "read", ![c].resp = truth]
      /\ UNCHANGED <<truth, deletions, cache, shown, events, dropped, stream, made, stale>>
      /\ truth \in Versions
  BY DEF Read, CacheSound, QueriesTyped, Versions
<1>2. OpTaken(ops, c, "read", truth)
  BY <1>1, OpIsTaken
<1>3. /\ ops' \in [1 .. MaxChanges -> OpsInFlight \cup {NoOp}]
      /\ \A d \in 1 .. MaxChanges : ops'[d].kind = ops[d].kind /\ (ops[d] = NoOp => ops'[d] = NoOp)
  BY <1>1, <1>2 DEF OpTaken
<1>4. QueriesTyped'
  BY <1>1, <1>3 DEF QueriesTyped
<1>5. ConnectedBeforeNews' /\ (Gone => Gone') /\ NewsKept /\ (Updating => Updating')
  BY <1>1, <1>3 DEF CacheFollows, ConnectedBeforeNews, Gone, NewsKept, Updating
<1>6. CacheFollows'
  BY <1>1, <1>5, CacheIsKept
<1> QED
  BY <1>4, <1>6 DEF CacheSound

\* What is invalidated is accounted for, and waits for no answer.
LEMMA InvalidatedIsAccounted ==
    ASSUME NEW q \in Queries, q = shown' => q = shown,
           \/ cache'[q] = NoQuery
           \/ cache'[q].invalid /\ cache'[q].fetch # "answered" /\ (q = shown => cache'[q].fetch = "asked")
    PROVE  AnswerIsFresh(q)' /\ Accounted(q)'
BY DEF AnswerIsFresh, Accounted, Known, NoQuery, Unknown

LEMMA ReactedIsSound ==
    ASSUME CacheSound, ~stale, NEW c \in 1 .. MaxChanges, Reacted(c) PROVE CacheSound'
<1> DEFINE v == ops[c].resp
           s == [cache EXCEPT !["detail"] = Set(@, v)]
<1>1. /\ QueriesTyped /\ CacheFollows /\ Over(c)
      /\ cache \in [Queries -> Entries]
      /\ cache' = Invalidated(s, {"collection"})
      /\ stale' = (stale \/ Outdated(v))
      /\ UNCHANGED <<truth, deletions, shown, events, dropped, stream, made>>
      /\ ops[c] \in OpsInFlight \cup {NoOp} /\ ops[c].at = "read"
  BY DEF Reacted, CacheSound, QueriesTyped
<1>2. v \in Versions /\ cache["detail"] \in Entries
  BY <1>1, OpFields DEF Queries
<1> HIDE DEF v
<1>3. /\ s \in [Queries -> Entries]
      /\ s["detail"].data = v /\ \A q \in Queries : s[q].fetch = cache[q].fetch /\ s[q].got = cache[q].got
  <2> DEFINE e == Set(cache["detail"], v)
  <2>1. e \in Entries /\ e.data = v /\ e.fetch = cache["detail"].fetch /\ e.got = cache["detail"].got
    BY <1>2, SetFields
  <2>2. s = [cache EXCEPT !["detail"] = e]
    OBVIOUS
  <2> HIDE DEF e, s
  <2> QED
    BY <1>1, <2>1, <2>2 DEF Queries
<1> HIDE DEF s
<1>4. /\ cache' \in [Queries -> Entries]
      /\ \A q \in Queries : cache'[q].data = s[q].data /\ cache'[q].got = s[q].got
      /\ \A q \in Queries : cache'[q].fetch = "answered" => s[q].fetch = "answered"
      /\ \A q \in {"collection"} :
            \/ cache'[q] = NoQuery
            \/ cache'[q].invalid /\ cache'[q].fetch # "answered" /\ (q = shown => cache'[q].fetch = "asked")
  <2>1. {"collection"} \in SUBSET Queries
    BY DEF Queries
  <2> QED
    BY <1>1, <1>3, <2>1, InvalidatedFields
<1>5. QueriesTyped'
  <2>1. /\ ops' \in [1 .. MaxChanges -> OpsInFlight \cup {NoOp}]
        /\ \A d \in 1 .. MaxChanges : d > made' => ops'[d] = NoOp
    BY <1>1, OverFields
  <2>2. stale' \in BOOLEAN
    BY <1>1 DEF Outdated
  <2> QED
    BY <1>1, <1>4, <2>1, <2>2 DEF QueriesTyped
<1>6. ASSUME ~stale' PROVE CacheFollows'
  <2>1. FreshFor(v, truth, events, dropped, stream.open)
    BY <1>1, <1>6, NotOutdated DEF Fresh
  <2>2. AnswerIsFresh("detail")' /\ Accounted("detail")'
    <3>1. AnswerIsFresh("detail") /\ "detail" \in Queries
      BY <1>1 DEF CacheFollows, Queries
    <3>2. AnswerIsFresh("detail")'
      BY <1>1, <1>3, <1>4, <3>1 DEF AnswerIsFresh, Fresh
    <3>3. cache'["detail"].data = v
      BY <1>3, <1>4, <3>1
    <3> QED
      BY <1>1, <2>1, <3>2, <3>3 DEF Accounted, Fresh
  <2>3. AnswerIsFresh("collection")' /\ Accounted("collection")'
    BY <1>1, <1>4, InvalidatedIsAccounted DEF Queries
  <2>4. ConnectedBeforeNews'
    BY <1>1 DEF CacheFollows, ConnectedBeforeNews
  <2> QED
    BY <2>2, <2>3, <2>4 DEF CacheFollows, Queries
<1> QED
  BY <1>5, <1>6 DEF CacheSound

LEMMA DeletedIsSound ==
    ASSUME CacheSound, ~stale, NEW c \in 1 .. MaxChanges, Deleted(c) PROVE CacheSound'
<1> DEFINE r == Invalidated(cache, {"collection"})
<1>1. /\ QueriesTyped /\ CacheFollows /\ Over(c) /\ shown' = "collection"
      /\ cache \in [Queries -> Entries]
      /\ cache' = [r EXCEPT !["detail"] = NoQuery, !["collection"].fetch = "asked"]
      /\ UNCHANGED <<truth, deletions, events, dropped, stream, made, stale>>
  BY DEF Deleted, CacheSound, QueriesTyped
<1>2. {"collection"} \in SUBSET Queries /\ "collection" \in Queries /\ "detail" \in Queries
  BY DEF Queries
<1>3. r \in [Queries -> Entries] /\ r["collection"] \in Entries
  BY <1>1, <1>2, InvalidatedFields
<1> HIDE DEF r
<1>4. /\ cache' \in [Queries -> Entries] /\ cache'["detail"] = NoQuery
      /\ cache'["collection"].fetch = "asked"
  <2> DEFINE e == [r["collection"] EXCEPT !.fetch = "asked"]
  <2>1. e \in Entries /\ e.fetch = "asked"
    BY <1>3 DEF Entries, Fetches
  <2>2. cache' = [r EXCEPT !["detail"] = NoQuery, !["collection"] = e]
    BY <1>1
  <2>3. NoQuery \in Entries
    BY NoQueryIsTyped
  <2> HIDE DEF e
  <2> QED
    BY <1>2, <1>3, <2>1, <2>2, <2>3
<1>5. QueriesTyped'
  <2>1. /\ ops' \in [1 .. MaxChanges -> OpsInFlight \cup {NoOp}]
        /\ \A d \in 1 .. MaxChanges : d > made' => ops'[d] = NoOp
    BY <1>1, OverFields
  <2> QED
    BY <1>1, <1>2, <1>4, <2>1 DEF QueriesTyped
<1>6. CacheFollows'
  <2>1. AnswerIsFresh("detail")' /\ Accounted("detail")'
    BY <1>4 DEF AnswerIsFresh, Accounted, Known, NoQuery
  <2>2. AnswerIsFresh("collection")' /\ Accounted("collection")'
    BY <1>4 DEF AnswerIsFresh, Accounted
  <2>3. ConnectedBeforeNews'
    BY <1>1 DEF CacheFollows, ConnectedBeforeNews
  <2> QED
    BY <2>1, <2>2, <2>3 DEF CacheFollows, Queries
<1> QED
  BY <1>5, <1>6 DEF CacheSound

-----------------------------------------------------------------------------
LEMMA ConnectIsSound ==
    ASSUME CacheSound, ~stale, Connect PROVE CacheSound'
<1>1. /\ QueriesTyped /\ CacheFollows /\ cache \in [Queries -> Entries]
      /\ stream' = [open |-> TRUE, before |-> TRUE] /\ ~stream.open /\ dropped' = {}
      /\ cache' = IF stream.before THEN Invalidated(cache, Queries) ELSE cache
      /\ UNCHANGED <<truth, deletions, shown, ops, events, made, stale>>
  BY DEF Connect, CacheSound, QueriesTyped
<1>2. CASE stream.before
  <2>1. /\ cache' \in [Queries -> Entries]
        /\ \A q \in Queries :
              \/ cache'[q] = NoQuery
              \/ cache'[q].invalid /\ cache'[q].fetch # "answered" /\ (q = shown => cache'[q].fetch = "asked")
    <3>1. Queries \in SUBSET Queries
      OBVIOUS
    <3> QED
      BY <1>1, <1>2, <3>1, InvalidatedFields
  <2>2. QueriesTyped'
    BY <1>1, <2>1 DEF QueriesTyped
  <2>3. \A q \in Queries : AnswerIsFresh(q)' /\ Accounted(q)'
    BY <1>1, <2>1, InvalidatedIsAccounted
  <2>4. ConnectedBeforeNews'
    BY <1>1 DEF ConnectedBeforeNews
  <2> QED
    BY <2>2, <2>3, <2>4 DEF CacheSound, CacheFollows
<1>3. CASE ~stream.before
  <2>1. truth = {}
    BY <1>1, <1>3 DEF CacheFollows, ConnectedBeforeNews
  <2>2. QueriesTyped' /\ cache' = cache
    BY <1>1, <1>3 DEF QueriesTyped
  <2>3. ConnectedBeforeNews' /\ (Gone => Gone') /\ NewsKept /\ (Updating => Updating')
    BY <1>1, <2>1 DEF ConnectedBeforeNews, Gone, NewsKept, Updating, FreshFor
  <2>4. CacheFollows'
    BY <1>1, <2>2, <2>3, CacheIsKept
  <2> QED
    BY <2>2, <2>4 DEF CacheSound
<1> QED
  BY <1>2, <1>3

LEMMA DisconnectIsSound ==
    ASSUME CacheSound, ~stale, Disconnect PROVE CacheSound'
<1>1. /\ QueriesTyped /\ CacheFollows
      /\ stream' = [stream EXCEPT !.open = FALSE] /\ stream.open /\ events' = <<>>
      /\ UNCHANGED <<truth, deletions, dropped, cache, shown, ops, made, stale>>
      /\ stream \in [open : BOOLEAN, before : BOOLEAN]
  BY DEF Disconnect, CacheSound, QueriesTyped
<1>2. stream' \in [open : BOOLEAN, before : BOOLEAN] /\ ~stream'.open /\ stream'.before = stream.before
  BY <1>1
<1>3. events' \in Seq(Event)
  BY <1>1
<1>4. QueriesTyped'
  BY <1>1, <1>2, <1>3 DEF QueriesTyped
<1>5. stream.before
  BY <1>1 DEF CacheFollows, ConnectedBeforeNews
<1>6. ConnectedBeforeNews' /\ (Gone => Gone') /\ NewsKept /\ (Updating => Updating')
  <2>1. NewsKept
    BY <1>1, <1>2 DEF NewsKept, FreshFor
  <2> QED
    BY <1>1, <1>2, <1>5, <2>1 DEF ConnectedBeforeNews, Gone, Updating
<1>7. CacheFollows'
  BY <1>1, <1>6, CacheIsKept
<1> QED
  BY <1>4, <1>7 DEF CacheSound

LEMMA HandleSSEEventIsSound ==
    ASSUME CacheSound, ~stale, HandleSSEEvent PROVE CacheSound'
<1>1. /\ QueriesTyped /\ CacheFollows /\ cache \in [Queries -> Entries]
      /\ events # <<>> /\ events \in Seq(Event) /\ events' = Tail(events)
      /\ \/ cache' = Invalidated(cache, Queries)
         \/ cache' = [Invalidated(cache, {"collection"}) EXCEPT !["detail"] = NoQuery]
      /\ UNCHANGED <<truth, deletions, dropped, shown, ops, stream, made, stale>>
  BY DEF HandleSSEEvent, CacheSound, QueriesTyped
<1>2. events' \in Seq(Event)
  BY <1>1
<1>3. /\ cache' \in [Queries -> Entries]
      /\ \A q \in Queries :
            \/ cache'[q] = NoQuery
            \/ cache'[q].invalid /\ cache'[q].fetch # "answered" /\ (q = shown => cache'[q].fetch = "asked")
  <2>1. CASE cache' = Invalidated(cache, Queries)
    <3>1. Queries \in SUBSET Queries
      OBVIOUS
    <3> QED
      BY <1>1, <2>1, <3>1, InvalidatedFields
  <2>2. CASE cache' = [Invalidated(cache, {"collection"}) EXCEPT !["detail"] = NoQuery]
    <3> DEFINE r == Invalidated(cache, {"collection"})
    <3>1. {"collection"} \in SUBSET Queries
      BY DEF Queries
    <3>2. /\ r \in [Queries -> Entries]
          /\ \A q \in {"collection"} :
                \/ r[q] = NoQuery
                \/ r[q].invalid /\ r[q].fetch # "answered" /\ (q = shown => r[q].fetch = "asked")
      BY <1>1, <3>1, InvalidatedFields
    <3>3. NoQuery \in Entries
      BY NoQueryIsTyped
    <3>4. cache' = [r EXCEPT !["detail"] = NoQuery]
      BY <2>2
    <3> HIDE DEF r
    <3> QED
      BY <3>2, <3>3, <3>4 DEF Queries
  <2> QED
    BY <1>1, <2>1, <2>2
<1>4. QueriesTyped'
  BY <1>1, <1>2, <1>3 DEF QueriesTyped
<1>5. \A q \in Queries : AnswerIsFresh(q)' /\ Accounted(q)'
  BY <1>1, <1>3, InvalidatedIsAccounted
<1>6. ConnectedBeforeNews'
  BY <1>1 DEF CacheFollows, ConnectedBeforeNews
<1> QED
  BY <1>4, <1>5, <1>6 DEF CacheSound, CacheFollows

LEMMA QueriesStepIsSound == CacheSound /\ [QueriesNext]_queriesVars => CacheSound'
<1> SUFFICES ASSUME CacheSound, [QueriesNext]_queriesVars PROVE CacheSound'
  OBVIOUS
<1>1. CASE UNCHANGED queriesVars
  <2>1. /\ QueriesTyped' /\ (~stale => CacheFollows) /\ stale' = stale
        /\ Apart /\ shown' = shown /\ cache' = cache
    BY <1>1 DEF CacheSound, QueriesTyped, queriesVars, Apart
  <2>2. CacheFollows => CacheFollows'
    BY <2>1, ApartKeeps, CacheIsKept
  <2> QED
    BY <2>1, <2>2 DEF CacheSound
<1>2. CASE QueriesNext
  <2>1. ~stale
    BY <1>2 DEF QueriesNext
  <2>2. ASSUME TogglePin \/ CheckAllTasks \/ CheckTask \/ Archive PROVE CacheSound'
    BY <2>1, <2>2, UpdateIsSound DEF TogglePin, CheckAllTasks, CheckTask, Archive, Updates
  <2>3. ASSUME PickReaction \/ ToggleReaction \/ Delete PROVE CacheSound'
    BY <2>1, <2>3, RequestIsSound DEF PickReaction, ToggleReaction
  <2>4. ASSUME Connect \/ Disconnect \/ HandleSSEEvent PROVE CacheSound'
    BY <2>1, <2>4, ConnectIsSound, DisconnectIsSound, HandleSSEEventIsSound
  <2>5. ASSUME OpenList \/ OpenMemo PROVE CacheSound'
    BY <2>1, <2>5, ShowIsSound DEF OpenList, OpenMemo, Queries
  <2>6. ASSUME NotFound \/ \E q \in Queries : Answers(q) \/ Arrives(q) \/ FetchFails(q) PROVE CacheSound'
    BY <2>1, <2>6, NotFoundIsSound, AnswersIsSound, ArrivesIsSound, FetchFailsIsSound
  <2>7. ASSUME \/ \E kind \in {"updated", "deleted"} : OtherChanges(kind)
               \/ \E c \in 1 .. MaxChanges : ServerTakes(c)
        PROVE  CacheSound'
    BY <2>1, <2>7, ServerStepIsSound
  <2>8. ASSUME NEW c \in 1 .. MaxChanges, Updated(c) \/ RolledBack(c) \/ Failed(c) PROVE CacheSound'
    BY <2>1, <2>8, UpdatedIsSound, RolledBackIsSound, FailedIsSound
  <2>9. ASSUME NEW c \in 1 .. MaxChanges, Read(c) \/ Reacted(c) \/ Deleted(c) PROVE CacheSound'
    BY <2>1, <2>9, ReadIsSound, ReactedIsSound, DeletedIsSound
  <2> QED
    BY <1>2, <2>2, <2>3, <2>4, <2>5, <2>6, <2>7, <2>8, <2>9 DEF QueriesNext
<1> QED
  BY <1>1, <1>2

\* When every answer and every event has come, every query that is kept has what the server has,
\* but for the changes whose event was dropped since the stream opened, or is fetched again before
\* it is shown: CacheSettles (useMemoQueries, useLiveMemoRefresh.handleSSEEvent,
\* useReactionActions, SSEHub.Broadcast).
THEOREM CacheFollowsTheServer == QueriesSpec => []CacheSettles
<1>1. QueriesInit => CacheSound
  <2> SUFFICES ASSUME QueriesInit PROVE CacheSound
    OBVIOUS
  <2>1. NoQuery \in Entries /\ NoQuery.fetch = "idle" /\ NoQuery.data = Unknown
    BY NoQueryIsTyped
  <2>2. QueriesTyped
    <3>1. events \in Seq(Event) /\ made \in 0 .. MaxChanges
      BY WebQueriesConstants DEF QueriesInit
    <3> QED
      BY <2>1, <3>1 DEF QueriesInit, QueriesTyped
  <2>3. CacheFollows
    BY <2>1 DEF QueriesInit, CacheFollows, ConnectedBeforeNews, AnswerIsFresh, Accounted, Known
  <2> QED
    BY <2>2, <2>3 DEF CacheSound
<1>2. CacheSound /\ [QueriesNext]_queriesVars => CacheSound'
  BY QueriesStepIsSound
<1>3. CacheSound => CacheSettles
  <2> SUFFICES ASSUME CacheSound, Settled, ~stale, NEW q \in Queries
               PROVE  \/ ~Known(q)
                      \/ cache[q].data \subseteq truth /\ truth \ cache[q].data \subseteq dropped
                      \/ cache[q].invalid /\ q # shown
                      \/ q = "detail" /\ Gone
    BY DEF CacheSettles
  <2>1. stream.open /\ events = <<>> /\ cache[q].fetch = "idle" /\ ~Updating
    BY DEF Settled, Updating, NoOp, Updates
  <2>2. Accounted(q)
    BY <2>1 DEF CacheSound, CacheFollows
  <2>3. Fresh(cache[q].data) => cache[q].data \subseteq truth /\ truth \ cache[q].data \subseteq dropped
    <3>1. Len(events) = 0
      BY <2>1
    <3> QED
      BY <2>1, <3>1 DEF Fresh, FreshFor
  <2> QED
    BY <2>1, <2>2, <2>3 DEF Accounted
<1> QED
  BY <1>1, <1>2, <1>3, PTL DEF QueriesSpec

-----------------------------------------------------------------------------
(* The memo editor *)

EditorStates ==
    [content : Nat, changed : BOOLEAN, localFiles : SUBSET Nat, saving : BOOLEAN, recorderBusy : BOOLEAN]
Refs == [latest : Nat, discarded : Nat \cup {None}]
Jobs ==
    [at : {"idle", "upload", "compare", "write", "written", "refresh"}, kind : Kinds, text : Nat,
     changed : BOOLEAN, files : SUBSET Nat, mine : BOOLEAN]
NoEnding == ""
Recorders == [status : {"idle", "asking", "recording"}, id : Nat, ending : {NoEnding, "attach", "transcribe"}]

EditorTyped ==
    /\ view \in Kinds \cup {"closed"}
    /\ editor \in EditorStates /\ refs \in Refs
    /\ draft \in [Kinds -> Nat] /\ timer \in [Kinds -> Nat \cup {None}]
    /\ job \in Jobs /\ row \in Nat /\ saved \subseteq Nat
    /\ texts \in Nat /\ files \in Nat /\ mishaps \in Nat
    /\ owed \in [Kinds -> Nat]

RecorderTyped ==
    /\ rec \in Recorders /\ files \in Nat /\ speech \in Nat /\ speech <= files
    /\ \A r \in asks \cup void \cup left \cup mic : r \in Nat /\ 0 < r /\ r <= files

\* A recording that is asked for or heard is the one on the screen, or it was left or cancelled.
AsksKnown == \A r \in asks : r \in left \/ r \in void \/ (r = rec.id /\ rec.status = "asking")
IdleIsEmpty == rec.status = "idle" => rec.ending = NoEnding /\ ~(rec.id > 0)
AskingIsOpen == rec.status = "asking" => rec.id \in asks /\ rec.id \notin void /\ rec.ending = NoEnding
RecordingIsOpen ==
    rec.status = "recording" => rec.id > 0 /\ rec.id <= files /\ rec.id \notin void /\ rec.id \notin asks
\* What is recorded is shown, unless it began while another recording was being transcribed.
PanelShown ==
    rec.status # "idle" =>
        /\ panel \/ rec.id \in over
        /\ speech # 0 => rec.id \in over
MicSound == AsksKnown /\ IdleIsEmpty /\ AskingIsOpen /\ RecordingIsOpen /\ PanelShown /\ MicReleased

\* The save under way is of the open editor, or its editor was left and is not open again.
JobSound ==
    /\ job.at = "idle" => ~job.mine
    /\ job.mine => view = job.kind /\ editor.saving
    /\ ~job.mine /\ job.at # "idle" => view # job.kind
    /\ job.at = "compare" => job.kind = "edit"
    /\ job.at = "write" => job.kind \in Drafts
    /\ editor.saving => job.mine

\* What was entered for d is in the editor that is open, or in the draft.
Entered(d) ==
    IF view = d
    THEN /\ refs.latest = editor.content /\ editor.content <= texts /\ refs.discarded \in {None, refs.latest}
         /\ timer[d] \in {None, refs.latest}
         /\ editor.content = owed[d] \/ (job.at = "refresh" /\ job.mine /\ refs.discarded = refs.latest)
         /\ refs.discarded = refs.latest => draft[d] = 0 /\ owed[d] = 0 /\ timer[d] \in {None, 0}
    ELSE draft[d] = owed[d] /\ timer[d] \in {None, draft[d]}

\* A text is entered in one place and saved once.
TextsApart ==
    /\ \A d \in Drafts : owed[d] \in 0 .. texts
    /\ saved \subseteq 1 .. texts
    /\ owed["home"] = owed["comment"] => owed["home"] = 0
    /\ \A d \in Drafts : owed[d] \in saved => job.at = "written" /\ job.kind = d
    /\ job.at # "idle" /\ job.kind \in Drafts /\ job.text # 0 =>
          /\ job.text \in 1 .. texts
          /\ \A d \in Drafts \ {job.kind} : owed[d] # job.text
          /\ job.at \in {"upload", "write"} => job.text \notin saved

DraftSound == ~excuse => JobSound /\ (\A d \in Drafts : Entered(d)) /\ TextsApart /\ ~twice

\* What is in the editor, or owed, and not what is being saved, was entered while that was awaited.
Unsaved == {"upload", "compare", "write", "written"}
LateSound ==
    /\ lost \subseteq late
    /\ ~excuse => /\ owed["edit"] = 0
                  /\ job.mine => editor.content \in {0, job.text} \cup late
                  /\ job.at \in Unsaved => owed[job.kind] \in {0, job.text} \cup late

EditorSound == EditorTyped /\ RecorderTyped /\ MicSound /\ DraftSound /\ LateSound

LEMMA EditorFields ==
    ASSUME NEW e \in EditorStates
    PROVE  e.content \in Nat /\ e.localFiles \in SUBSET Nat /\ e.saving \in BOOLEAN
BY DEF EditorStates

LEMMA ContentIsSet ==
    ASSUME NEW e \in EditorStates, NEW t \in Nat, NEW n, n = [e EXCEPT !.content = t]
    PROVE  n \in EditorStates /\ n.content = t /\ n.saving = e.saving
BY DEF EditorStates

\* The editor's state n is e, but for its files, what was chosen, or the recorder.
Chosen(e, n, fs, b) ==
    \/ n = [e EXCEPT !.localFiles = fs] \/ n = [e EXCEPT !.recorderBusy = b, !.localFiles = fs]
    \/ n = [e EXCEPT !.recorderBusy = b] \/ n = [e EXCEPT !.changed = b] \/ n = e

LEMMA FilesAreSet ==
    ASSUME NEW e \in EditorStates, NEW fs \in SUBSET Nat, NEW b \in BOOLEAN, NEW n, Chosen(e, n, fs, b)
    PROVE  n \in EditorStates /\ n.content = e.content /\ n.saving = e.saving
<1>1. CASE n = [e EXCEPT !.localFiles = fs]
  BY <1>1 DEF EditorStates
<1>2. CASE n = [e EXCEPT !.recorderBusy = b, !.localFiles = fs]
  BY <1>2 DEF EditorStates
<1>3. CASE n = [e EXCEPT !.recorderBusy = b]
  BY <1>3 DEF EditorStates
<1>4. CASE n = [e EXCEPT !.changed = b]
  BY <1>4 DEF EditorStates
<1> QED
  BY <1>1, <1>2, <1>3, <1>4 DEF Chosen

LEMMA SavingIsSet ==
    ASSUME NEW e \in EditorStates, NEW b \in BOOLEAN, NEW n, n = [e EXCEPT !.saving = b]
    PROVE  n \in EditorStates /\ n.content = e.content /\ n.saving = b
BY DEF EditorStates

LEMMA Initials ==
    /\ InitialState \in EditorStates /\ InitialState.content = 0 /\ ~InitialState.saving
    /\ NoJob \in Jobs /\ NoJob.at = "idle" /\ ~NoJob.mine /\ NoJob.kind = "home" /\ NoJob.text = 0
    /\ NoRefs \in Refs /\ NoRefs.latest = 0 /\ NoRefs.discarded = None
    /\ None \notin Nat /\ Drafts = {"home", "comment"} /\ Kinds = {"home", "comment", "edit"}
BY DEF InitialState, EditorStates, NoJob, Jobs, NoRefs, Refs, None, Kinds, Drafts

LEMMA NoRecorderFields ==
    NoRecorder \in Recorders /\ NoRecorder.status = "idle" /\ ~(NoRecorder.id > 0) /\ NoRecorder.ending = NoEnding
<1>1. NoRecorder \in Recorders /\ NoRecorder.status = "idle" /\ NoRecorder.id = 0 /\ NoRecorder.ending = NoEnding
  BY DEF NoRecorder, Recorders, NoEnding
<1> QED
  BY <1>1

LEMMA JobFields ==
    ASSUME NEW j \in Jobs
    PROVE  /\ j.at \in {"idle", "upload", "compare", "write", "written", "refresh"} /\ j.kind \in Kinds
           /\ j.text \in Nat /\ j.mine \in BOOLEAN
BY DEF Jobs

LEMMA JobIsLeft ==
    ASSUME NEW j \in Jobs, NEW n, n = [j EXCEPT !.mine = FALSE]
    PROVE  n \in Jobs /\ ~n.mine /\ n.at = j.at /\ n.kind = j.kind /\ n.text = j.text
BY DEF Jobs

LEMMA JobGoesOn ==
    ASSUME NEW j \in Jobs, NEW phase \in {"compare", "write", "written", "refresh"},
           NEW n, n = [j EXCEPT !.at = phase]
    PROVE  n \in Jobs /\ n.mine = j.mine /\ n.at = phase /\ n.kind = j.kind /\ n.text = j.text
BY DEF Jobs

LEMMA RefsFields ==
    ASSUME NEW r \in Refs
    PROVE  r.latest \in Nat /\ r.discarded \in Nat \cup {None}
BY DEF Refs

LEMMA LatestIsSet ==
    ASSUME NEW r \in Refs, NEW t \in Nat, NEW n, n = [r EXCEPT !.latest = t]
    PROVE  n \in Refs /\ n.latest = t /\ n.discarded = r.discarded
BY DEF Refs

LEMMA LatestIsDiscarded ==
    ASSUME NEW r \in Refs, NEW n, n = [r EXCEPT !.discarded = r.latest]
    PROVE  n \in Refs /\ n.latest = r.latest /\ n.discarded = n.latest
BY DEF Refs

LEMMA RecorderFields ==
    ASSUME NEW r \in Recorders
    PROVE  r.status \in {"idle", "asking", "recording"} /\ r.id \in Nat
BY DEF Recorders

LEMMA RecorderStarts ==
    ASSUME NEW r \in Recorders, NEW n, n = [r EXCEPT !.status = "recording"]
    PROVE  n \in Recorders /\ n.status = "recording" /\ n.id = r.id
BY DEF Recorders

LEMMA RecorderEnds ==
    ASSUME NEW r \in Recorders, NEW way \in {"attach", "transcribe"}, NEW n, n = [r EXCEPT !.ending = way]
    PROVE  n \in Recorders /\ n.status = r.status /\ n.id = r.id
BY DEF Recorders

\* What the editor's recorder leaves when the editor closes.
RecorderCloses ==
    rec' = NoRecorder /\ mic' = mic \ {rec.id} /\ left' = left \cup asks /\ speech' = 0
    /\ panel' = FALSE /\ UNCHANGED <<asks, void, over, files>>

LEMMA CloseKeepsMic ==
    ASSUME RecorderTyped, MicSound, RecorderCloses PROVE RecorderTyped' /\ MicSound'
<1>1. RecorderTyped'
  BY NoRecorderFields DEF RecorderTyped, RecorderCloses
<1>2. MicSound'
  BY NoRecorderFields DEF RecorderTyped, RecorderCloses, MicSound, AsksKnown, IdleIsEmpty, AskingIsOpen, RecordingIsOpen, PanelShown, MicReleased
<1> QED
  BY <1>1, <1>2

LEMMA SameMic ==
    ASSUME RecorderTyped, MicSound, files' \in Nat, files \in Nat, files <= files', UNCHANGED <<rec, asks, void, left, mic, speech, panel, over>>
    PROVE  RecorderTyped' /\ MicSound'
<1>1. RecorderTyped'
  BY DEF RecorderTyped
<1>2. AsksKnown' /\ IdleIsEmpty' /\ AskingIsOpen' /\ PanelShown' /\ MicReleased'
  BY DEF MicSound, AsksKnown, IdleIsEmpty, AskingIsOpen, PanelShown, MicReleased
<1>3. RecordingIsOpen'
  <2>1. rec.id \in Nat
    BY RecorderFields DEF RecorderTyped
  <2> QED
    BY <2>1 DEF MicSound, RecordingIsOpen
<1> QED
  BY <1>1, <1>2, <1>3 DEF MicSound

-----------------------------------------------------------------------------
(* The recorder *)

LEMMA RecordingKeepsMic ==
    ASSUME EditorTyped, RecorderTyped, MicSound, Recording PROVE RecorderTyped' /\ MicSound'
<1> USE NoRecorderFields
<1>0. /\ files \in Nat /\ rec \in Recorders /\ speech \in Nat
      /\ rec.status \in {"idle", "asking", "recording"} /\ rec.id \in Nat
  BY RecorderFields DEF RecorderTyped
<1>1. CASE Record
  <2>1. /\ files' = files + 1 /\ rec' = [status |-> "asking", id |-> files', ending |-> NoEnding]
        /\ asks' = asks \cup {files'} /\ UNCHANGED <<void, left, mic, speech>> /\ rec.status = "idle"
        /\ panel' = TRUE /\ (speech # 0 => over' = over \cup {files'})
    BY <1>1 DEF Record, NewFile, NoEnding, Transcribing
  <2>2. rec' \in Recorders /\ rec'.status = "asking" /\ rec'.id = files + 1 /\ rec'.ending = NoEnding
    BY <2>1, <1>0 DEF Recorders
  <2>3. RecorderTyped'
    BY <1>0, <2>1, <2>2 DEF RecorderTyped
  <2>4. MicSound'
    BY <1>0, <2>1, <2>2 DEF RecorderTyped, MicSound, AsksKnown, IdleIsEmpty, AskingIsOpen, RecordingIsOpen, PanelShown, MicReleased
  <2> QED
    BY <2>3, <2>4
<1>2. CASE Stopped
  <2>0. rec.ending # NoEnding
    BY <1>2 DEF Stopped, NoEnding
  <2>1. /\ rec' = NoRecorder /\ mic' = mic \ {rec.id} /\ speech' \in {rec.id, speech} /\ rec.ending # NoEnding
        /\ UNCHANGED <<asks, void, left, over, files>>
    BY <1>2, <2>0 DEF Stopped, counters
  <2>2. rec.status = "recording"
    BY <1>0, <2>1 DEF MicSound, IdleIsEmpty, AskingIsOpen, RecordingIsOpen
  <2>3. RecorderTyped'
    BY <1>0, <2>1, <2>2 DEF RecorderTyped, MicSound, IdleIsEmpty, AskingIsOpen, RecordingIsOpen
  <2>4. MicSound'
    BY <1>0, <2>1, <2>2 DEF RecorderTyped, MicSound, AsksKnown, IdleIsEmpty, AskingIsOpen, RecordingIsOpen, PanelShown, MicReleased
  <2> QED
    BY <2>3, <2>4
<1>3. CASE CancelRecording
  <2>1. /\ rec' = NoRecorder /\ void' = void \cup {rec.id} /\ mic' = mic \ {rec.id} /\ rec.status # "idle"
        /\ panel' = FALSE /\ UNCHANGED <<asks, left, speech, over, files>>
    BY <1>3 DEF CancelRecording, counters
  <2>2. rec.id \in Nat /\ rec.id > 0 /\ rec.id <= files
    BY <1>0, <2>1 DEF RecorderTyped, MicSound, IdleIsEmpty, AskingIsOpen, RecordingIsOpen
  <2>3. RecorderTyped'
    BY <1>0, <2>1, <2>2 DEF RecorderTyped
  <2>4. MicSound'
    BY <1>0, <2>1, <2>2 DEF RecorderTyped, MicSound, AsksKnown, IdleIsEmpty, AskingIsOpen, RecordingIsOpen, PanelShown, MicReleased
  <2> QED
    BY <2>3, <2>4
<1>4. CASE Transcribed
  <2>1. speech # 0 /\ speech' = 0 /\ panel' = FALSE /\ UNCHANGED <<rec, asks, void, left, mic, over, files>>
    BY <1>4 DEF Transcribed, counters, NewText
  <2>2. RecorderTyped'
    BY <1>0, <2>1 DEF RecorderTyped
  <2>3. MicSound'
    BY <2>1 DEF MicSound, AsksKnown, IdleIsEmpty, AskingIsOpen, RecordingIsOpen, PanelShown, MicReleased
  <2> QED
    BY <2>2, <2>3
<1>5. ASSUME NEW r \in asks, Granted(r) PROVE RecorderTyped' /\ MicSound'
  <2>1. /\ asks' = asks \ {r} /\ mic' = (IF r \in void THEN mic ELSE mic \cup {r})
        /\ rec' = IF rec.id = r THEN [rec EXCEPT !.status = "recording"] ELSE rec
        /\ UNCHANGED <<void, left, speech, panel, over, files>> /\ r \in Nat /\ r > 0 /\ r <= files
    BY <1>5 DEF Granted, Answered, counters, RecorderTyped
  <2>2. rec' \in Recorders
    BY <1>0, <2>1, RecorderStarts
  <2>3. RecorderTyped'
    BY <1>0, <2>1, <2>2 DEF RecorderTyped
  <2>4. CASE rec.id = r
    <3>1. rec.status = "asking" /\ r \notin void
      BY <1>0, <2>1, <2>4 DEF MicSound, IdleIsEmpty, AskingIsOpen, RecordingIsOpen
    <3>2. rec'.status = "recording" /\ rec'.id = r
      BY <1>0, <2>1, <2>4, RecorderStarts
    <3> QED
      BY <1>0, <2>1, <2>3, <2>4, <3>1, <3>2 DEF MicSound, AsksKnown, IdleIsEmpty, AskingIsOpen, RecordingIsOpen, PanelShown, MicReleased
  <2>5. CASE rec.id # r
    BY <1>0, <2>1, <2>3, <2>5 DEF MicSound, AsksKnown, IdleIsEmpty, AskingIsOpen, RecordingIsOpen, PanelShown, MicReleased
  <2> QED
    BY <2>4, <2>5
<1>6. ASSUME NEW r \in asks, Denied(r) PROVE RecorderTyped' /\ MicSound'
  <2>1. /\ asks' = asks \ {r} /\ mic' = mic
        /\ rec' = IF rec.id = r THEN NoRecorder ELSE rec
        /\ panel' = (IF rec.id = r THEN FALSE ELSE panel)
        /\ UNCHANGED <<void, left, speech, over, files>> /\ r \in Nat /\ r > 0 /\ r <= files
    BY <1>6 DEF Denied, Answered, counters, RecorderTyped
  <2>2. RecorderTyped'
    BY <1>0, <2>1 DEF RecorderTyped
  <2>3. CASE rec.id = r
    <3>1. rec.status = "asking" /\ r \notin void
      BY <1>0, <2>1, <2>3 DEF MicSound, IdleIsEmpty, AskingIsOpen, RecordingIsOpen
    <3> QED
      BY <1>0, <2>1, <2>2, <2>3, <3>1 DEF MicSound, AsksKnown, IdleIsEmpty, AskingIsOpen, RecordingIsOpen, PanelShown, MicReleased
  <2>4. CASE rec.id # r
    BY <1>0, <2>1, <2>2, <2>4 DEF MicSound, AsksKnown, IdleIsEmpty, AskingIsOpen, RecordingIsOpen, PanelShown, MicReleased
  <2> QED
    BY <2>3, <2>4
<1>7. ASSUME NEW way \in {"attach", "transcribe"}, Stop(way) PROVE RecorderTyped' /\ MicSound'
  <2>1. /\ rec' = [rec EXCEPT !.ending = way] /\ rec.status = "recording"
        /\ UNCHANGED <<asks, void, left, mic, speech, panel, over, files>>
    BY <1>7 DEF Stop, counters
  <2>2. rec' \in Recorders /\ rec'.status = "recording" /\ rec'.id = rec.id
    BY <1>0, <2>1, <1>7, RecorderEnds
  <2>3. RecorderTyped'
    BY <1>0, <2>1, <2>2 DEF RecorderTyped
  <2>4. MicSound'
    BY <1>0, <2>1, <2>2 DEF MicSound, AsksKnown, IdleIsEmpty, AskingIsOpen, RecordingIsOpen, PanelShown, MicReleased
  <2> QED
    BY <2>3, <2>4
<1> QED
  BY <1>1, <1>2, <1>3, <1>4, <1>5, <1>6, <1>7 DEF Recording, StopToAttach, StopToTranscribe

-----------------------------------------------------------------------------
(* The drafts *)

\* A step that only touches what is not the text.
LEMMA TextIsApart ==
    ASSUME DraftSound, editor.content \in Nat, texts \in Nat, texts' \in Nat, texts <= texts',
           UNCHANGED <<view, refs, draft, timer, job, saved, twice, owed>>, excuse' => excuse, excuse => excuse',
           editor'.content = editor.content, editor'.saving = editor.saving
    PROVE  DraftSound'
<1> SUFFICES ASSUME ~excuse' PROVE JobSound' /\ (\A d \in Drafts : Entered(d)') /\ TextsApart' /\ ~twice'
  BY DEF DraftSound
<1>1. JobSound'
  BY DEF DraftSound, JobSound
<1>2. ASSUME NEW d \in Drafts PROVE Entered(d)'
  BY DEF DraftSound, Entered
<1>3. TextsApart'
  BY DEF DraftSound, TextsApart
<1> QED
  BY <1>1, <1>2, <1>3 DEF DraftSound

LEMMA EnterIsSound ==
    ASSUME EditorTyped, DraftSound, ~excuse, ~excuse', NEW t \in Nat, Enter(t),
           \/ t = texts + 1 /\ texts' = texts + 1
           \/ t = 0 /\ texts' = texts,
           editor'.content = t, editor'.saving = editor.saving,
           UNCHANGED <<view, job, saved, twice>>
    PROVE  DraftSound' /\ refs' \in Refs /\ timer' \in [Kinds -> Nat \cup {None}] /\ draft' = draft
           /\ owed' \in [Kinds -> Nat]
<1>1. /\ JobSound /\ (\A d \in Drafts : Entered(d)) /\ TextsApart /\ ~twice
      /\ refs \in Refs /\ draft \in [Kinds -> Nat] /\ timer \in [Kinds -> Nat \cup {None}] /\ owed \in [Kinds -> Nat]
      /\ view \in Kinds \cup {"closed"} /\ texts \in Nat /\ editor \in EditorStates /\ job \in Jobs
  BY DEF DraftSound, EditorTyped
<1>2. JobSound'
  BY <1>1 DEF JobSound
<1>3. CASE view \notin Drafts
  <2>1. UNCHANGED <<refs, draft, timer, owed>>
    BY <1>3 DEF Enter, Drafting, Drafts, storage
  <2>2. ASSUME NEW d \in Drafts PROVE Entered(d)'
    BY <1>1, <1>3, <2>1 DEF Entered, Drafts
  <2>3. TextsApart'
    BY <1>1, <2>1 DEF TextsApart
  <2> QED
    BY <1>1, <1>2, <2>1, <2>2, <2>3 DEF DraftSound
<1>4. CASE view \in Drafts
  <2>1. view \in Drafts /\ view \in Kinds
    BY <1>1, <1>4 DEF Kinds, Drafts
  <2>2. /\ refs' = [latest |-> t, discarded |-> IF refs.discarded = t THEN t ELSE None]
        /\ timer' = [timer EXCEPT ![view] = t] /\ draft' = draft /\ owed' = [owed EXCEPT ![view] = t]
    BY <2>1 DEF Enter, Persist, Drafting
  <2>3. refs' \in Refs /\ refs'.latest = t /\ refs'.discarded = (IF refs.discarded = t THEN t ELSE None)
    BY <2>2 DEF Refs
  <2>4. timer' \in [Kinds -> Nat \cup {None}] /\ owed' \in [Kinds -> Nat] /\ timer'[view] = t /\ owed'[view] = t
        /\ \A d \in Kinds : d # view => timer'[d] = timer[d] /\ owed'[d] = owed[d]
    BY <1>1, <2>1, <2>2
  <2>5. Entered(view)'
    <3>1. /\ refs.latest = editor.content /\ editor.content <= texts
          /\ refs.discarded \in {None, refs.latest}
          /\ refs.discarded = refs.latest => draft[view] = 0
      BY <1>1, <2>1 DEF Entered
    <3>2. CASE t = texts + 1
      <4>1. /\ refs'.discarded = None /\ None # t /\ t \in Nat
            /\ refs'.latest = t /\ timer'[view] = t /\ owed'[view] = t
            /\ editor'.content = t /\ t <= texts' /\ view' = view
        <5>1. editor.content \in Nat
          BY <1>1, EditorFields
        <5>2. refs.discarded # t /\ None # t
          BY <1>1, <3>1, <3>2, <5>1 DEF None
        <5> QED
          BY <2>3, <2>4, <3>2, <1>1, <5>2
      <4> QED
        BY <4>1 DEF Entered
    <3>3. CASE t = 0
      <4>1. refs'.discarded = t => draft[view] = 0
        BY <2>3, <3>1, <3>3 DEF None
      <4> QED
        BY <1>1, <2>2, <2>3, <2>4, <2>1, <3>3, <4>1 DEF Entered
    <3> QED
      BY <3>2, <3>3
  <2>6. ASSUME NEW d \in Drafts, d # view PROVE Entered(d)'
    BY <1>1, <2>2, <2>4, <2>6 DEF Entered, Kinds, Drafts
  <2>7. TextsApart'
    <3>1. texts' \in Nat /\ texts <= texts'
      BY <1>1
    <3>2. /\ \A d \in Drafts : owed[d] \in 0 .. texts
          /\ saved \subseteq 1 .. texts
          /\ owed["home"] = owed["comment"] => owed["home"] = 0
      BY <1>1 DEF TextsApart
    <3>3. t = 0 \/ (t \in 1 .. texts' /\ t \notin 0 .. texts)
      BY <1>1
    <3>4. \A d \in Drafts : owed'[d] = IF d = view THEN t ELSE owed[d]
      BY <2>1, <2>4 DEF Drafts, Kinds
    <3>5. owed'["home"] = owed'["comment"] => owed'["home"] = 0
      BY <2>1, <3>2, <3>3, <3>4 DEF Drafts
    <3>6. \A d \in Drafts : owed'[d] \in 0 .. texts'
      BY <1>1, <3>1, <3>2, <3>3, <3>4
    <3>7. saved' \subseteq 1 .. texts' /\ t \notin saved
      BY <1>1, <3>1, <3>2, <3>3
    <3>8. \A d \in Drafts : owed'[d] \in saved' => job'.at = "written" /\ job'.kind = d
      BY <1>1, <3>4, <3>7 DEF TextsApart
    <3>9. job'.at # "idle" /\ job'.kind \in Drafts /\ job'.text # 0 =>
              /\ job'.text \in 1 .. texts'
              /\ \A d \in Drafts \ {job'.kind} : owed'[d] # job'.text
              /\ job'.at \in {"upload", "write"} => job'.text \notin saved'
      <4> SUFFICES ASSUME job.at # "idle", job.kind \in Drafts, job.text # 0
                   PROVE  /\ job.text \in 1 .. texts'
                          /\ \A d \in Drafts \ {job.kind} : owed'[d] # job.text
                          /\ job.at \in {"upload", "write"} => job.text \notin saved
        OBVIOUS
      <4>1. /\ job.text \in 1 .. texts
            /\ \A d \in Drafts \ {job.kind} : owed[d] # job.text
            /\ job.at \in {"upload", "write"} => job.text \notin saved
        BY <1>1 DEF TextsApart
      <4> QED
        BY <1>1, <3>1, <3>3, <3>4, <4>1
    <3> QED
      BY <3>5, <3>6, <3>7, <3>8, <3>9 DEF TextsApart
  <2> QED
    BY <1>1, <1>2, <2>2, <2>3, <2>4, <2>5, <2>6, <2>7 DEF DraftSound
<1> QED
  BY <1>3, <1>4

LEMMA SameTexts ==
    ASSUME TextsApart, texts' = texts, owed' = owed, saved' = saved,
           \/ job'.at = job.at /\ job'.kind = job.kind /\ job'.text = job.text
           \/ job'.at = "idle" /\ job.at # "written"
    PROVE  TextsApart'
BY DEF TextsApart

LEMMA OtherDraft ==
    ASSUME NEW d \in Drafts, Entered(d), d # view, d # view', draft'[d] = draft[d],
           timer'[d] = timer[d] \/ timer'[d] = None, owed'[d] = owed[d]
    PROVE  Entered(d)'
BY DEF Entered

LEMMA TimerIsSound ==
    ASSUME EditorTyped, DraftSound, ~excuse, NEW k \in Kinds, TimerFires(k)
    PROVE  EditorTyped' /\ DraftSound'
<1>1. /\ draft' = [draft EXCEPT ![k] = timer[k]] /\ timer' = [timer EXCEPT ![k] = None] /\ timer[k] # None
      /\ UNCHANGED <<view, editor, refs, job, row, saved, twice, texts, files, mishaps, owed, excuse>>
      /\ draft \in [Kinds -> Nat] /\ timer \in [Kinds -> Nat \cup {None}] /\ timer[k] \in Nat
  BY DEF TimerFires, server, counters, EditorTyped, drafted
<1>2. EditorTyped'
  BY <1>1 DEF EditorTyped
<1>3. JobSound /\ (\A d \in Drafts : Entered(d)) /\ TextsApart /\ ~twice
  BY DEF DraftSound
<1>4. JobSound' /\ TextsApart' /\ ~twice'
  BY <1>1, <1>3, SameTexts DEF JobSound
<1>5. ASSUME NEW d \in Drafts PROVE Entered(d)'
  <2>1. d \in Kinds /\ Entered(d)
    BY <1>3 DEF Kinds
  <2>2. CASE d = k
    BY <1>1, <2>1, <2>2 DEF Entered
  <2>3. CASE d # k
    BY <1>1, <2>1, <2>3 DEF Entered
  <2> QED
    BY <2>2, <2>3
<1> QED
  BY <1>2, <1>4, <1>5 DEF DraftSound

LEMMA OpenIsSound ==
    ASSUME EditorTyped, DraftSound, ~excuse, NEW kind \in Kinds, Open(kind)
    PROVE  EditorTyped' /\ DraftSound'
<1> DEFINE content == IF kind = "edit" THEN row ELSE draft[kind]
<1>1. /\ view = "closed" /\ view' = kind
      /\ editor' = [InitialState EXCEPT !.content = content]
      /\ refs' = [NoRefs EXCEPT !.latest = content]
      /\ timer' = IF kind = "edit" THEN timer ELSE [timer EXCEPT ![kind] = content]
      /\ excuse' = (excuse \/ (job.at # "idle" /\ job.kind = kind))
      /\ UNCHANGED <<draft, job, row, saved, twice, texts, files, mishaps, owed>>
      /\ draft \in [Kinds -> Nat] /\ timer \in [Kinds -> Nat \cup {None}] /\ row \in Nat
  BY DEF Open, server, counters, EditorTyped, drafted
<1>2. content \in Nat
  BY <1>1
<1> HIDE DEF content
<1>3. editor' \in EditorStates /\ editor'.content = content /\ ~editor'.saving
  BY <1>1, <1>2, Initials, ContentIsSet
<1>4. refs' \in Refs /\ refs'.latest = content /\ refs'.discarded = None
  BY <1>1, <1>2, Initials, LatestIsSet
<1>5. EditorTyped'
  BY <1>1, <1>2, <1>3, <1>4 DEF EditorTyped
<1>6. JobSound /\ (\A d \in Drafts : Entered(d)) /\ TextsApart /\ ~twice
  BY DEF DraftSound
<1> SUFFICES ASSUME ~excuse' PROVE DraftSound'
  BY <1>5 DEF DraftSound
<1>7. JobSound'
  <2>1. job.at # "idle" => job.kind # kind
    BY <1>1
  <2>2. ~job.mine
    BY <1>1, <1>6, Initials DEF JobSound, EditorTyped, Jobs
  <2> QED
    BY <1>1, <1>3, <1>6, <2>1, <2>2 DEF JobSound
<1>8. TextsApart' /\ ~twice'
  BY <1>1, <1>6, SameTexts
<1>9. ASSUME NEW d \in Drafts PROVE Entered(d)'
  <2>1. d \in Kinds /\ Entered(d) /\ draft[d] = owed[d] /\ owed[d] <= texts
    BY <1>1, <1>6 DEF Kinds, Drafts, Entered, TextsApart
  <2>2. CASE d = kind
    <3>1. kind # "edit" /\ content = draft[d]
      BY <2>2 DEF content, Drafts
    <3>2. timer'[d] = content /\ None # content
      BY <1>1, <1>2, <2>1, <2>2, <3>1, Initials
    <3> QED
      BY <1>1, <1>3, <1>4, <2>1, <2>2, <3>1, <3>2 DEF Entered
  <2>3. CASE d # kind
    <3>1. timer'[d] = timer[d] /\ draft'[d] = draft[d] /\ owed'[d] = owed[d] /\ d # view' /\ d # view
      BY <1>1, <2>1, <2>3 DEF Drafts
    <3> QED
      BY <2>1, <3>1, OtherDraft
  <2> QED
    BY <2>2, <2>3
<1> QED
  BY <1>7, <1>8, <1>9 DEF DraftSound

\* What was entered last is the draft, once it is flushed.
LEMMA FlushedIsEntered ==
    ASSUME EditorTyped, DraftSound, ~excuse, view \in Drafts, FlushDraft(view)
    PROVE  /\ draft' \in [Kinds -> Nat] /\ timer' \in [Kinds -> Nat \cup {None}]
           /\ \A d \in Drafts : d # view => draft'[d] = draft[d] /\ timer'[d] = timer[d]
           /\ draft'[view] = owed[view] /\ timer'[view] \in {None, draft'[view]}
           /\ refs.discarded = refs.latest => UNCHANGED <<draft, timer>>
           /\ refs.discarded # refs.latest => timer'[view] = None
<1>1. /\ draft \in [Kinds -> Nat] /\ timer \in [Kinds -> Nat \cup {None}] /\ refs.latest \in Nat
      /\ view \in Kinds /\ \A d \in Drafts : d \in Kinds
  BY RefsFields DEF EditorTyped, Kinds
<1>2. Entered(view)
  BY DEF DraftSound
<1>3. CASE refs.discarded = refs.latest
  BY <1>1, <1>2, <1>3 DEF FlushDraft, storage, Entered
<1>4. CASE refs.discarded # refs.latest
  <2>1. draft' = [draft EXCEPT ![view] = refs.latest] /\ timer' = [timer EXCEPT ![view] = None]
    BY <1>4 DEF FlushDraft
  <2>2. refs.latest = owed[view]
    BY <1>2, <1>4 DEF Entered
  <2> QED
    BY <1>1, <1>4, <2>1, <2>2
<1> QED
  BY <1>3, <1>4

LEMMA LeaveIsSound ==
    ASSUME EditorTyped, DraftSound, ~excuse, Leave
    PROVE  EditorTyped' /\ DraftSound' /\ RecorderCloses
<1>1. /\ view' = "closed" /\ view # "closed" /\ editor' = InitialState
      /\ IF view \in Drafts THEN FlushDraft(view) ELSE UNCHANGED storage
      /\ job' = [job EXCEPT !.mine = FALSE]
      /\ RecorderCloses
      /\ mishaps' = mishaps + 1
      /\ UNCHANGED <<refs, row, saved, twice, texts, files, owed, excuse>>
  BY DEF Leave, Unmount, Mishap, RecorderCloses, server, Drafting, drafted
<1>2. job' \in Jobs /\ ~job'.mine /\ job'.at = job.at /\ job'.kind = job.kind /\ job'.text = job.text
  BY <1>1, JobIsLeft DEF EditorTyped
<1>3. JobSound /\ (\A d \in Drafts : Entered(d)) /\ TextsApart /\ ~twice
  BY DEF DraftSound
<1>4. /\ draft' \in [Kinds -> Nat] /\ timer' \in [Kinds -> Nat \cup {None}]
      /\ \A d \in Drafts : d # view => draft'[d] = draft[d] /\ timer'[d] = timer[d]
      /\ view \in Drafts => draft'[view] = owed[view] /\ timer'[view] \in {None, draft'[view]}
  <2>1. CASE view \in Drafts
    BY <1>1, <2>1, FlushedIsEntered
  <2>2. CASE view \notin Drafts
    BY <1>1, <2>2 DEF storage, EditorTyped
  <2> QED
    BY <2>1, <2>2
<1>5. EditorTyped'
  <2>1. mishaps' \in Nat
    BY <1>1 DEF EditorTyped
  <2> QED
    BY <1>1, <1>2, <1>4, <2>1, Initials DEF EditorTyped
<1>6. JobSound'
  <2>1. job'.kind # "closed"
    BY <1>2, JobFields DEF Kinds, Drafts
  <2> QED
    BY <1>1, <1>2, <1>3, <2>1, Initials DEF JobSound
<1>7. TextsApart' /\ ~twice'
  BY <1>1, <1>2, <1>3, SameTexts
<1>8. ASSUME NEW d \in Drafts PROVE Entered(d)'
  <2>1. d # view'
    BY <1>1 DEF Drafts
  <2>2. CASE d = view
    BY <1>1, <1>4, <2>1, <2>2 DEF Entered
  <2>3. CASE d # view
    BY <1>1, <1>3, <1>4, <2>1, <2>3, OtherDraft
  <2> QED
    BY <2>2, <2>3
<1> QED
  BY <1>1, <1>5, <1>6, <1>7, <1>8 DEF DraftSound

LEMMA HideIsSound ==
    ASSUME EditorTyped, DraftSound, ~excuse, Hide
    PROVE  EditorTyped' /\ DraftSound' /\ UNCHANGED <<rec, asks, void, left, mic, speech, panel, over, files>>
<1>1. /\ view \in Drafts /\ FlushDraft(view) /\ mishaps' = mishaps + 1
      /\ UNCHANGED <<view, editor, refs, job, row, saved, twice, texts, files, owed, excuse>>
      /\ UNCHANGED <<rec, asks, void, left, mic, speech, panel, over, files>>
  BY DEF Hide, Drafting, Mishap, server, microphone, drafted
<1>2. /\ draft' \in [Kinds -> Nat] /\ timer' \in [Kinds -> Nat \cup {None}]
      /\ \A d \in Drafts : d # view => draft'[d] = draft[d] /\ timer'[d] = timer[d]
      /\ refs.discarded = refs.latest => UNCHANGED <<draft, timer>>
      /\ refs.discarded # refs.latest => timer'[view] = None
  BY <1>1, FlushedIsEntered
<1>3. JobSound /\ (\A d \in Drafts : Entered(d)) /\ TextsApart /\ ~twice
  BY DEF DraftSound
<1>4. EditorTyped'
  <2>1. mishaps' \in Nat
    BY <1>1 DEF EditorTyped
  <2> QED
    BY <1>1, <1>2, <2>1 DEF EditorTyped
<1>5. JobSound' /\ TextsApart' /\ ~twice'
  BY <1>1, <1>3, SameTexts DEF JobSound
<1>6. ASSUME NEW d \in Drafts PROVE Entered(d)'
  <2>1. CASE d = view
    BY <1>1, <1>2, <1>3, <2>1 DEF Entered
  <2>2. CASE d # view
    BY <1>1, <1>2, <1>3, <2>2, OtherDraft
  <2> QED
    BY <2>1, <2>2
<1> QED
  BY <1>1, <1>4, <1>5, <1>6 DEF DraftSound

LEMMA DiscardedIsSound ==
    ASSUME EditorTyped, DraftSound, ~excuse, RecorderTyped, MicSound, Discarded
    PROVE  EditorTyped' /\ DraftSound' /\ RecorderTyped' /\ MicSound'
<1>1. /\ view \in Drafts /\ view' = "closed" /\ editor' = InitialState /\ refs' = NoRefs
      /\ draft' = IF refs.discarded = refs.latest THEN draft ELSE [draft EXCEPT ![view] = refs.latest]
      /\ timer' = [k \in Kinds |-> None]
      /\ job' = NoJob /\ excuse' = (excuse \/ job.at # "idle") /\ mishaps' = mishaps + 1
      /\ UNCHANGED <<row, saved, twice, texts, files, owed>>
  BY DEF Discarded, Drafting, Mishap, server, drafted
<1>2. /\ rec' = NoRecorder /\ asks' = {} /\ mic' = {} /\ speech' = 0 /\ panel' = FALSE
      /\ UNCHANGED <<void, left, over, files>>
  BY DEF Discarded, Mishap
<1>3. RecorderTyped'
  BY <1>2, NoRecorderFields DEF RecorderTyped
<1>4. MicSound'
  BY <1>2, NoRecorderFields DEF MicSound, AsksKnown, IdleIsEmpty, AskingIsOpen, RecordingIsOpen, PanelShown, MicReleased
<1>5. JobSound /\ (\A d \in Drafts : Entered(d)) /\ TextsApart /\ ~twice
  BY DEF DraftSound
<1>6. draft \in [Kinds -> Nat] /\ refs.latest \in Nat /\ view \in Kinds /\ mishaps' \in Nat
  BY <1>1, RefsFields DEF EditorTyped, Kinds
<1>7. EditorTyped'
  <2>1. draft' \in [Kinds -> Nat] /\ timer' \in [Kinds -> Nat \cup {None}]
    BY <1>1, <1>6
  <2> QED
    BY <1>1, <1>6, <2>1, Initials DEF EditorTyped
<1> SUFFICES ASSUME ~excuse' PROVE DraftSound'
  BY <1>3, <1>4, <1>7 DEF DraftSound
<1>8. JobSound'
  BY <1>1, Initials DEF JobSound
<1>9. job.at = "idle"
  BY <1>1
<1>10. TextsApart' /\ ~twice'
  BY <1>1, <1>5, <1>9, Initials, SameTexts
<1>11. ASSUME NEW d \in Drafts PROVE Entered(d)'
  <2>1. d # view' /\ d \in Kinds /\ timer'[d] = None
    BY <1>1 DEF Drafts, Kinds
  <2>2. draft'[d] = owed[d]
    <3>1. Entered(d)
      BY <1>5
    <3>2. CASE d = view
      BY <1>1, <1>6, <1>9, <2>1, <3>1, <3>2 DEF Entered
    <3>3. CASE d # view
      BY <1>1, <1>6, <2>1, <3>1, <3>3 DEF Entered
    <3> QED
      BY <3>2, <3>3
  <2> QED
    BY <1>1, <2>1, <2>2 DEF Entered
<1> QED
  BY <1>8, <1>10, <1>11 DEF DraftSound

-----------------------------------------------------------------------------
(* The save *)

LEMMA SaveIsSound ==
    ASSUME EditorTyped, DraftSound, ~excuse, Save
    PROVE  EditorTyped' /\ DraftSound'
<1>1. /\ view # "closed" /\ ~editor.saving
      /\ editor' = [editor EXCEPT !.saving = TRUE]
      /\ job' = [at |-> "upload", kind |-> view, text |-> editor.content,
                 changed |-> editor.changed, files |-> editor.localFiles, mine |-> TRUE]
      /\ twice' = (twice \/ job.at # "idle") /\ (job.at = "idle" \/ job.mine)
      /\ UNCHANGED <<view, refs, draft, timer, row, saved, texts, files, mishaps, owed, excuse>>
  BY DEF Save, CanSave, storage, counters, drafted
<1>2. JobSound /\ (\A d \in Drafts : Entered(d)) /\ TextsApart /\ ~twice
  BY DEF DraftSound
<1>3. job.at = "idle"
  BY <1>1, <1>2 DEF JobSound
<1>4. editor' \in EditorStates /\ editor'.content = editor.content /\ editor'.saving = TRUE /\ editor.content \in Nat
  BY <1>1, SavingIsSet, EditorFields DEF EditorTyped
<1>5. /\ job' \in Jobs /\ job'.at = "upload" /\ job'.kind = view /\ job'.text = editor.content /\ job'.mine = TRUE
  BY <1>1 DEF EditorTyped, Jobs, EditorStates
<1>6. EditorTyped'
  BY <1>1, <1>4, <1>5 DEF EditorTyped
<1>7. JobSound'
  BY <1>1, <1>4, <1>5 DEF JobSound
<1>8. ASSUME NEW d \in Drafts PROVE Entered(d)'
  <2>1. Entered(d)
    BY <1>2
  <2> QED
    BY <1>1, <1>3, <1>4, <2>1 DEF Entered
<1>9. TextsApart'
  <2>1. ASSUME view \in Drafts, editor.content # 0
        PROVE  /\ editor.content \in 1 .. texts /\ editor.content \notin saved
               /\ \A d \in Drafts \ {view} : owed[d] # editor.content
    <3>1. Entered(view)
      BY <1>2, <2>1
    <3>2. editor.content = owed[view]
      BY <1>3, <3>1 DEF Entered
    <3> QED
      BY <1>2, <1>3, <1>4, <2>1, <3>2 DEF TextsApart, Drafts
  <2>2. \A d \in Drafts : owed[d] \notin saved
    BY <1>2, <1>3 DEF TextsApart
  <2> QED
    BY <1>1, <1>2, <1>5, <2>1, <2>2 DEF TextsApart
<1>10. ~twice'
  BY <1>1, <1>2, <1>3
<1> QED
  BY <1>6, <1>7, <1>8, <1>9, <1>10 DEF DraftSound

\* A step of the save that leaves the editor and the drafts as they are.
LEMMA JobAloneIsSound ==
    ASSUME EditorTyped, DraftSound, ~excuse, NEW phase \in {"compare", "write", "written"},
           job' = [job EXCEPT !.at = phase], job.at \notin {"idle", "refresh"},
           phase = "compare" => job.kind = "edit", phase = "write" => job.kind \in Drafts,
           UNCHANGED <<view, editor, refs, draft, timer, texts, files, mishaps, owed, excuse>>,
           TextsApart', row' \in Nat, saved' \subseteq Nat, ~twice'
    PROVE  EditorTyped' /\ DraftSound'
<1>1. job' \in Jobs /\ job'.mine = job.mine /\ job'.at = phase /\ job'.kind = job.kind
  BY JobGoesOn DEF EditorTyped
<1>2. EditorTyped'
  BY <1>1 DEF EditorTyped
<1>3. JobSound /\ (\A d \in Drafts : Entered(d))
  BY DEF DraftSound
<1>4. JobSound'
  BY <1>1, <1>3 DEF JobSound
<1>5. ASSUME NEW d \in Drafts PROVE Entered(d)'
  <2>1. Entered(d)
    BY <1>3
  <2> QED
    BY <2>1 DEF Entered
<1> QED
  BY <1>2, <1>4, <1>5 DEF DraftSound

LEMMA UploadedIsSound ==
    ASSUME EditorTyped, DraftSound, ~excuse, Uploaded
    PROVE  EditorTyped' /\ DraftSound'
<1> DEFINE phase == IF job.kind = "edit" THEN "compare" ELSE "write"
<1>1. /\ job.at = "upload" /\ job' = [job EXCEPT !.at = phase] /\ job \in Jobs
      /\ UNCHANGED <<view, editor, refs, draft, timer, row, saved, twice, texts, files, mishaps, owed, excuse>>
  BY DEF Uploaded, storage, server, counters, EditorTyped, drafted
<1>2. /\ phase \in {"compare", "write", "written"} /\ (phase = "compare" => job.kind = "edit")
      /\ (phase = "write" => job.kind \in Drafts) /\ phase \notin {"idle", "written"}
      /\ phase \in {"upload", "write"} => phase = "write"
  BY <1>1, JobFields DEF Kinds
<1> HIDE DEF phase
<1>3. job'.at = phase /\ job'.kind = job.kind /\ job'.text = job.text
  BY <1>1, <1>2, JobGoesOn
<1>4. TextsApart /\ ~twice /\ row \in Nat /\ saved \subseteq Nat
  BY DEF DraftSound, EditorTyped
<1>5. TextsApart'
  BY <1>1, <1>2, <1>3, <1>4 DEF TextsApart
<1> QED
  BY <1>1, <1>2, <1>4, <1>5, JobAloneIsSound

LEMMA WrittenIsSound ==
    ASSUME EditorTyped, DraftSound, ~excuse, Written
    PROVE  EditorTyped' /\ DraftSound'
<1>1. /\ job' = [job EXCEPT !.at = "written"] /\ job \in Jobs
      /\ UNCHANGED <<view, editor, refs, draft, timer, texts, files, mishaps, owed, excuse>>
      /\ row \in Nat /\ saved \subseteq Nat
  BY DEF Written, storage, counters, EditorTyped, drafted
<1>2. job'.at = "written" /\ job'.kind = job.kind /\ job'.text = job.text /\ job.text \in Nat
  BY <1>1, JobGoesOn, JobFields
<1>3. JobSound /\ TextsApart /\ ~twice
  BY DEF DraftSound
<1>4. CASE job.at = "compare" /\ row' = job.text /\ UNCHANGED <<saved, twice>>
  <2>1. job.kind = "edit" /\ job.kind \notin Drafts
    BY <1>3, <1>4 DEF JobSound, Drafts
  <2>2. TextsApart'
    BY <1>1, <1>2, <1>3, <1>4, <2>1 DEF TextsApart
  <2> QED
    BY <1>1, <1>2, <1>3, <1>4, <2>1, <2>2, JobAloneIsSound
<1>5. CASE /\ job.at = "write" /\ saved' = saved \cup ({job.text} \ {0})
           /\ twice' = (twice \/ job.text \in saved) /\ row' = row
  <2>1. job.kind \in Drafts
    BY <1>3, <1>5 DEF JobSound
  <2>2. 0 \notin saved
    BY <1>3 DEF TextsApart
  <2>3. ~twice'
    BY <1>3, <1>5, <2>1, <2>2 DEF TextsApart
  <2>4. TextsApart'
    <3>1. /\ \A d \in Drafts : owed[d] \in 0 .. texts
          /\ saved \subseteq 1 .. texts
          /\ owed["home"] = owed["comment"] => owed["home"] = 0
          /\ \A d \in Drafts : owed[d] \notin saved
          /\ job.text # 0 => job.text \in 1 .. texts /\ \A d \in Drafts \ {job.kind} : owed[d] # job.text
      BY <1>3, <1>5, <2>1 DEF TextsApart
    <3>2. saved' \subseteq 1 .. texts
      BY <1>5, <3>1
    <3>3. \A d \in Drafts : owed[d] \in saved' => job'.kind = d
      BY <1>2, <1>5, <3>1
    <3> QED
      BY <1>1, <1>2, <3>1, <3>2, <3>3 DEF TextsApart
  <2>5. saved' \subseteq Nat
    BY <1>1, <1>2, <1>5
  <2> QED
    BY <1>1, <1>2, <1>3, <1>5, <2>1, <2>3, <2>4, <2>5, JobAloneIsSound
<1> QED
  BY <1>4, <1>5 DEF Written

LEMMA SaveFailsIsSound ==
    ASSUME EditorTyped, DraftSound, ~excuse, SaveFails
    PROVE  EditorTyped' /\ DraftSound'
<1>1. /\ job.at \in {"upload", "compare", "write", "written"} /\ mishaps' = mishaps + 1
      /\ job' = NoJob /\ editor' = (IF job.mine THEN [editor EXCEPT !.saving = FALSE] ELSE editor)
      /\ excuse' = (excuse \/ job.at = "written")
      /\ UNCHANGED <<view, refs, draft, timer, row, saved, twice, texts, files, owed>>
      /\ editor \in EditorStates
  BY DEF SaveFails, Mishap, storage, server, EditorTyped, drafted
<1>2. JobSound /\ (\A d \in Drafts : Entered(d)) /\ TextsApart /\ ~twice
  BY DEF DraftSound
<1>3. editor' \in EditorStates /\ editor'.content = editor.content /\ ~editor'.saving
  BY <1>1, <1>2, SavingIsSet DEF JobSound
<1>4. EditorTyped'
  <2>1. mishaps' \in Nat
    BY <1>1 DEF EditorTyped
  <2> QED
    BY <1>1, <1>3, <2>1, Initials DEF EditorTyped
<1> SUFFICES ASSUME ~excuse' PROVE DraftSound'
  BY <1>4 DEF DraftSound
<1>5. JobSound'
  BY <1>1, <1>3, Initials DEF JobSound
<1>6. TextsApart' /\ ~twice'
  BY <1>1, <1>2, Initials, SameTexts
<1>7. ASSUME NEW d \in Drafts PROVE Entered(d)'
  <2>1. Entered(d)
    BY <1>2
  <2> QED
    BY <1>1, <1>3, <2>1 DEF Entered
<1> QED
  BY <1>5, <1>6, <1>7 DEF DraftSound

LEMMA NoChangesIsSound ==
    ASSUME EditorTyped, DraftSound, ~excuse, NoChanges
    PROVE  /\ EditorTyped' /\ DraftSound'
           /\ RecorderCloses \/ UNCHANGED <<rec, asks, void, left, mic, speech, panel, over, files>>
<1>1. /\ job.at = "compare" /\ job' = NoJob
      /\ \/ job.mine /\ view' = "closed" /\ editor' = InitialState
         \/ ~job.mine /\ UNCHANGED <<view, editor>>
      /\ UNCHANGED <<refs, draft, timer, row, saved, twice, texts, files, mishaps, owed, excuse>>
  BY DEF NoChanges, storage, server, counters, drafted
<1>2. RecorderCloses \/ UNCHANGED <<rec, asks, void, left, mic, speech, panel, over, files>>
  BY DEF NoChanges, RecorderCloses, counters
<1>3. JobSound /\ (\A d \in Drafts : Entered(d)) /\ TextsApart /\ ~twice
  BY DEF DraftSound
<1>4. EditorTyped'
  BY <1>1, Initials DEF EditorTyped
<1>5. JobSound'
  BY <1>1, <1>3, Initials DEF JobSound
<1>6. TextsApart' /\ ~twice'
  BY <1>1, <1>3, Initials, SameTexts
<1>7. ASSUME NEW d \in Drafts PROVE Entered(d)'
  <2>1. Entered(d)
    BY <1>3
  <2>2. CASE job.mine
    <3>1. view = "edit" /\ view' = "closed"
      BY <1>1, <1>3, <2>2 DEF JobSound
    <3> QED
      BY <1>1, <2>1, <3>1, OtherDraft DEF Drafts
  <2>3. CASE ~job.mine
    <3>1. UNCHANGED <<view, editor>>
      BY <1>1, <2>3
    <3> QED
      BY <1>1, <2>1, <3>1 DEF Entered
  <2> QED
    BY <2>2, <2>3
<1> QED
  BY <1>2, <1>4, <1>5, <1>6, <1>7 DEF DraftSound

LEMMA DiscardDraftIsSound ==
    ASSUME EditorTyped, DraftSound, ~excuse, DiscardDraft
    PROVE  EditorTyped' /\ DraftSound'
<1>1. /\ job.at = "written" /\ job' = [job EXCEPT !.at = "refresh"] /\ job \in Jobs
      /\ refs' = IF job.mine THEN [refs EXCEPT !.discarded = refs.latest] ELSE refs
      /\ draft' = [draft EXCEPT ![job.kind] = 0] /\ timer' = [timer EXCEPT ![job.kind] = None]
      /\ owed' = [owed EXCEPT ![job.kind] = 0]
      /\ UNCHANGED <<view, editor, row, saved, twice, texts, files, mishaps, excuse>>
      /\ draft \in [Kinds -> Nat] /\ timer \in [Kinds -> Nat \cup {None}] /\ owed \in [Kinds -> Nat]
      /\ refs \in Refs
  BY DEF DiscardDraft, server, counters, EditorTyped
<1>2. /\ job' \in Jobs /\ job'.at = "refresh" /\ job'.kind = job.kind /\ job'.text = job.text
      /\ job'.mine = job.mine /\ job.kind \in Kinds /\ job.text \in Nat
  BY <1>1, JobGoesOn, JobFields
<1>3. JobSound /\ (\A d \in Drafts : Entered(d)) /\ TextsApart /\ ~twice
  BY DEF DraftSound
<1>4. refs' \in Refs /\ refs'.latest = refs.latest
      /\ refs'.discarded = IF job.mine THEN refs'.latest ELSE refs.discarded
  BY <1>1, LatestIsDiscarded
<1>5. draft' \in [Kinds -> Nat] /\ timer' \in [Kinds -> Nat \cup {None}] /\ owed' \in [Kinds -> Nat]
      /\ \A d \in Kinds : /\ draft'[d] = IF d = job.kind THEN 0 ELSE draft[d]
                          /\ timer'[d] = IF d = job.kind THEN None ELSE timer[d]
                          /\ owed'[d] = IF d = job.kind THEN 0 ELSE owed[d]
  BY <1>1, <1>2
<1>6. EditorTyped'
  BY <1>1, <1>2, <1>4, <1>5 DEF EditorTyped
<1>7. JobSound'
  BY <1>1, <1>2, <1>3 DEF JobSound
<1>8. ASSUME NEW d \in Drafts PROVE Entered(d)'
  <2>1. Entered(d) /\ d \in Kinds
    BY <1>3 DEF Kinds
  <2>2. CASE d = view /\ job.mine
    <3>1. d = job.kind
      BY <1>3, <2>2 DEF JobSound
    <3>2. draft'[d] = 0 /\ timer'[d] = None /\ owed'[d] = 0
      BY <1>5, <2>1, <3>1
    <3> QED
      BY <1>1, <1>2, <1>4, <2>1, <2>2, <3>2 DEF Entered
  <2>3. CASE d = view /\ ~job.mine
    <3>1. d # job.kind
      BY <1>1, <1>3, <2>3 DEF JobSound
    <3> QED
      BY <1>1, <1>2, <1>4, <1>5, <2>1, <2>3, <3>1 DEF Entered
  <2>4. CASE d # view
    BY <1>1, <1>5, <2>1, <2>4 DEF Entered
  <2> QED
    BY <2>2, <2>3, <2>4
<1>9. TextsApart'
  <2>1. \A d \in Drafts : owed'[d] = IF d = job.kind THEN 0 ELSE owed[d]
    BY <1>5 DEF Kinds
  <2>2. /\ \A d \in Drafts : owed[d] \in 0 .. texts
        /\ saved \subseteq 1 .. texts
        /\ owed["home"] = owed["comment"] => owed["home"] = 0
        /\ \A d \in Drafts : owed[d] \in saved => job.kind = d
        /\ job.kind \in Drafts /\ job.text # 0 =>
              job.text \in 1 .. texts /\ \A d \in Drafts \ {job.kind} : owed[d] # job.text
    BY <1>1, <1>3 DEF TextsApart
  <2>3. texts \in Nat /\ 0 \notin saved
    BY <2>2 DEF EditorTyped
  <2>4. \A d \in Drafts : owed'[d] \in 0 .. texts /\ owed'[d] \notin saved
    BY <2>1, <2>2, <2>3
  <2>5. owed'["home"] = owed'["comment"] => owed'["home"] = 0
    BY <2>1, <2>2 DEF Drafts
  <2> QED
    BY <1>1, <1>2, <2>1, <2>2, <2>4, <2>5 DEF TextsApart
<1> QED
  BY <1>1, <1>3, <1>6, <1>7, <1>8, <1>9 DEF DraftSound

LEMMA ResetIsSound ==
    ASSUME EditorTyped, DraftSound, ~excuse, Reset
    PROVE  /\ EditorTyped' /\ DraftSound'
           /\ RecorderCloses \/ UNCHANGED <<rec, asks, void, left, mic, speech, panel, over, files>>
<1>1. /\ job.at = "refresh" /\ job' = NoJob /\ job \in Jobs
      /\ owed' = (IF job.mine THEN [owed EXCEPT ![job.kind] = 0] ELSE owed)
      /\ editor' = (IF job.mine THEN InitialState ELSE editor)
      /\ UNCHANGED <<row, saved, twice, texts, files, mishaps, excuse>>
      /\ draft \in [Kinds -> Nat] /\ timer \in [Kinds -> Nat \cup {None}] /\ owed \in [Kinds -> Nat]
      /\ refs \in Refs
  BY DEF Reset, server, counters, EditorTyped
<1>2. RecorderCloses \/ UNCHANGED <<rec, asks, void, left, mic, speech, panel, over, files>>
  BY DEF Reset, RecorderCloses, counters
<1>3. JobSound /\ (\A d \in Drafts : Entered(d)) /\ TextsApart /\ ~twice
  BY DEF DraftSound
<1>4. CASE ~job.mine
  <2>1. UNCHANGED <<view, editor, refs, draft, timer, owed>>
    BY <1>1, <1>4 DEF Reset, storage
  <2>2. EditorTyped'
    BY <1>1, <2>1, Initials DEF EditorTyped
  <2>3. JobSound'
    BY <1>1, <1>3, <1>4, <2>1, Initials DEF JobSound
  <2>4. TextsApart' /\ ~twice'
    BY <1>1, <1>3, <2>1, Initials, SameTexts
  <2>5. ASSUME NEW d \in Drafts PROVE Entered(d)'
    <3>1. Entered(d)
      BY <1>3
    <3> QED
      BY <1>1, <1>4, <2>1, <3>1 DEF Entered
  <2> QED
    BY <1>2, <2>2, <2>3, <2>4, <2>5 DEF DraftSound
<1>5. CASE job.mine
  <2>1. view = job.kind /\ job.kind \in Kinds /\ editor' = InitialState /\ owed' = [owed EXCEPT ![view] = 0]
    BY <1>1, <1>3, <1>5, JobFields DEF JobSound
  <2>2. owed' \in [Kinds -> Nat] /\ \A d \in Kinds : owed'[d] = IF d = view THEN 0 ELSE owed[d]
    BY <1>1, <2>1
  <2>3. \/ view = "home" /\ Persist("home", 0) /\ view' = view
        \/ /\ view = "comment" /\ refs' = NoRefs /\ view' = "closed"
           /\ draft' = [draft EXCEPT !["comment"] = 0] /\ timer' = [timer EXCEPT !["comment"] = None]
        \/ view = "edit" /\ UNCHANGED <<refs, draft, timer>> /\ view' = "closed"
    BY <1>5 DEF Reset, storage
  <2>4. refs' \in Refs /\ draft' \in [Kinds -> Nat] /\ timer' \in [Kinds -> Nat \cup {None}]
    <3>1. CASE view = "home" /\ Persist("home", 0)
      <4>1. /\ refs' = [latest |-> 0, discarded |-> IF refs.discarded = 0 THEN 0 ELSE None]
            /\ timer' = [timer EXCEPT !["home"] = 0] /\ draft' = draft
        BY <3>1 DEF Persist
      <4> QED
        BY <1>1, <4>1 DEF Refs
    <3>2. CASE view # "home"
      BY <1>1, <2>3, <3>2, Initials
    <3> QED
      BY <2>3, <3>1, <3>2
  <2>5. EditorTyped'
    BY <1>1, <2>1, <2>2, <2>3, <2>4, Initials DEF EditorTyped
  <2>6. JobSound'
    BY <1>1, <2>1, Initials DEF JobSound
  <2>7. TextsApart'
    <3>1. /\ \A d \in Drafts : owed[d] \in 0 .. texts
          /\ saved \subseteq 1 .. texts
          /\ owed["home"] = owed["comment"] => owed["home"] = 0
          /\ \A d \in Drafts : owed[d] \notin saved
      BY <1>1, <1>3 DEF TextsApart
    <3>2. texts \in Nat /\ 0 \notin saved
      BY <3>1 DEF EditorTyped
    <3>3. \A d \in Drafts : owed'[d] = IF d = view THEN 0 ELSE owed[d]
      BY <2>2 DEF Kinds
    <3>4. \A d \in Drafts : owed'[d] \in 0 .. texts /\ owed'[d] \notin saved
      BY <3>1, <3>2, <3>3
    <3>5. owed'["home"] = owed'["comment"] => owed'["home"] = 0
      BY <3>1, <3>3 DEF Drafts
    <3> QED
      BY <1>1, <3>1, <3>4, <3>5, Initials DEF TextsApart
  <2>8. ASSUME NEW d \in Drafts PROVE Entered(d)'
    <3>1. Entered(d) /\ d \in Kinds
      BY <1>3 DEF Kinds
    <3>2. CASE d = "home" /\ view = "home"
      <4>1. /\ refs' = [latest |-> 0, discarded |-> IF refs.discarded = 0 THEN 0 ELSE None]
            /\ timer' = [timer EXCEPT !["home"] = 0] /\ draft' = draft /\ view' = "home"
        BY <2>3, <3>2 DEF Persist
      <4>2. refs'.latest = 0 /\ refs'.discarded = IF refs.discarded = 0 THEN 0 ELSE None
        BY <4>1
      <4>3. refs.discarded = 0 => draft["home"] = 0
        BY <3>1, <3>2 DEF Entered, None
      <4>4. editor'.content = 0 /\ owed'["home"] = 0 /\ timer'["home"] = 0 /\ 0 <= texts'
        <5>1. texts \in Nat
          BY DEF EditorTyped
        <5> QED
          BY <1>1, <2>1, <2>2, <3>1, <3>2, <4>1, <5>1, Initials
      <4>5. refs'.discarded = 0 => draft["home"] = 0
        BY <4>2, <4>3 DEF None
      <4> QED
        BY <3>2, <4>1, <4>2, <4>4, <4>5 DEF Entered
    <3>3. CASE d = "home" /\ view # "home"
      <4>1. view' # "home" /\ draft'["home"] = draft["home"] /\ timer'["home"] = timer["home"] /\ owed'["home"] = owed["home"]
        BY <1>1, <2>2, <2>3, <3>1, <3>3
      <4> QED
        BY <3>1, <3>3, <4>1, OtherDraft
    <3>4. CASE d = "comment" /\ view = "comment"
      <4>1. view' # "comment" /\ draft'["comment"] = 0 /\ timer'["comment"] = None /\ owed'["comment"] = 0
        BY <1>1, <2>2, <2>3, <3>1, <3>4
      <4> QED
        BY <3>4, <4>1 DEF Entered
    <3>5. CASE d = "comment" /\ view # "comment"
      <4>1. view' # "comment" /\ draft'["comment"] = draft["comment"] /\ timer'["comment"] = timer["comment"]
            /\ owed'["comment"] = owed["comment"]
        <5>1. timer' = [timer EXCEPT !["home"] = 0] \/ timer' = timer
          BY <2>3, <3>5 DEF Persist
        <5>2. view' # "comment" /\ draft' = draft
          BY <2>3, <3>5 DEF Persist
        <5> QED
          BY <1>1, <2>2, <3>1, <3>5, <5>1, <5>2
      <4> QED
        BY <3>1, <3>5, <4>1, OtherDraft
    <3> QED
      BY <3>2, <3>3, <3>4, <3>5 DEF Drafts
  <2> QED
    BY <1>1, <1>2, <1>3, <2>5, <2>6, <2>7, <2>8 DEF DraftSound
<1> QED
  BY <1>4, <1>5

-----------------------------------------------------------------------------
(* Editing *)

\* A text is entered, by hand or by a transcription.
LEMMA TextIsEntered ==
    ASSUME EditorTyped, DraftSound, ~excuse, NEW t \in Nat, Enter(t),
           \/ t = texts + 1 /\ texts' = texts + 1
           \/ t = 0 /\ texts' = texts,
           editor' = [editor EXCEPT !.content = t],
           UNCHANGED <<view, job, row, saved, twice, mishaps, excuse>>, files' \in Nat
    PROVE  EditorTyped' /\ DraftSound'
<1>1. editor' \in EditorStates /\ editor'.content = t /\ editor'.saving = editor.saving
  BY ContentIsSet DEF EditorTyped
<1>2. DraftSound' /\ refs' \in Refs /\ timer' \in [Kinds -> Nat \cup {None}] /\ draft' = draft
      /\ owed' \in [Kinds -> Nat]
  BY <1>1, EnterIsSound
<1>3. texts' \in Nat
  BY DEF EditorTyped
<1> QED
  BY <1>1, <1>2, <1>3 DEF EditorTyped

LEMMA TypedIsSound ==
    ASSUME EditorTyped, DraftSound, ~excuse, Typed
    PROVE  EditorTyped' /\ DraftSound' /\ UNCHANGED <<rec, asks, void, left, mic, speech, panel, over, files>>
<1>1. /\ view # "closed" /\ UNCHANGED <<view, job, row, saved, twice, mishaps, files, excuse>>
      /\ UNCHANGED <<rec, asks, void, left, mic, speech, panel, over, files>> /\ files' \in Nat /\ texts \in Nat
  BY DEF Typed, server, microphone, NewText, counters, EditorTyped
<1>2. CASE NewText /\ Enter(texts') /\ editor' = [editor EXCEPT !.content = texts']
  <2> DEFINE t == texts + 1
  <2>1. t \in Nat /\ texts' = t /\ Enter(t) /\ editor' = [editor EXCEPT !.content = t]
    BY <1>1, <1>2 DEF NewText
  <2> QED
    BY <1>1, <2>1, TextIsEntered
<1>3. CASE Enter(0) /\ editor' = [editor EXCEPT !.content = 0] /\ UNCHANGED counters
  <2>1. texts' = texts /\ 0 \in Nat
    BY <1>3 DEF counters
  <2> QED
    BY <1>1, <1>3, <2>1, TextIsEntered
<1> QED
  BY <1>2, <1>3 DEF Typed

\* What is chosen or attached does not touch the text.
LEMMA AttachedIsSound ==
    ASSUME EditorTyped, DraftSound, ~excuse, NEW fs \in SUBSET Nat, NEW b \in BOOLEAN,
           Chosen(editor, editor', fs, b),
           texts' \in Nat, texts <= texts', files' \in Nat, mishaps' \in Nat, row' \in Nat,
           UNCHANGED <<view, refs, draft, timer, job, saved, twice, owed, excuse>>
    PROVE  EditorTyped' /\ DraftSound'
<1>1. editor \in EditorStates /\ texts \in Nat
  BY DEF EditorTyped
<1>2. editor' \in EditorStates /\ editor'.content = editor.content /\ editor'.saving = editor.saving
  BY <1>1, FilesAreSet
<1>3. editor.content \in Nat
  BY <1>1, EditorFields
<1>4. DraftSound'
  BY <1>1, <1>2, <1>3, TextIsApart
<1> QED
  BY <1>2, <1>4 DEF EditorTyped

LEMMA ChoiceIsSound ==
    ASSUME EditorTyped, DraftSound, ~excuse,
           SetMetadata \/ Attached \/ RemoteUpdate \/ \E f \in editor.localFiles : RemoveLocalFile(f)
    PROVE  EditorTyped' /\ DraftSound' /\ UNCHANGED <<rec, asks, void, left, mic, speech, panel, over>>
           /\ files' \in Nat /\ files <= files'
<1>0. /\ editor \in EditorStates /\ texts \in Nat /\ files \in Nat /\ mishaps \in Nat /\ row \in Nat
      /\ editor.localFiles \in SUBSET Nat /\ MaxTexts \in Nat
  BY EditorFields, WebEditorConstants DEF EditorTyped
<1>1. CASE SetMetadata
  <2> DEFINE b == ~editor.changed
  <2>1. /\ texts' = texts + 1 /\ editor' = [editor EXCEPT !.changed = b] /\ b \in BOOLEAN
        /\ UNCHANGED <<view, refs, draft, timer, job, row, saved, twice, owed, excuse, files, mishaps>>
        /\ UNCHANGED <<rec, asks, void, left, mic, speech, panel, over>>
    BY <1>1 DEF SetMetadata, NewText, storage, server, microphone, drafted
  <2> HIDE DEF b
  <2>2. texts' \in Nat /\ texts <= texts' /\ files <= files'
    BY <1>0, <2>1
  <2> QED
    BY <1>0, <2>1, <2>2, AttachedIsSound DEF Chosen
<1>2. CASE Attached
  <2> DEFINE fs == editor.localFiles \cup {files'}
  <2>1. /\ files' = files + 1 /\ editor' = [editor EXCEPT !.localFiles = fs]
        /\ UNCHANGED <<view, refs, draft, timer, job, row, saved, twice, owed, excuse, texts, mishaps>>
        /\ UNCHANGED <<rec, asks, void, left, mic, speech, panel, over>>
    BY <1>2 DEF Attached, NewFile, storage, server, microphone, drafted
  <2>2. fs \in SUBSET Nat /\ files' \in Nat /\ files <= files' /\ texts <= texts'
    BY <1>0, <2>1
  <2> HIDE DEF fs
  <2> QED
    BY <1>0, <2>1, <2>2, AttachedIsSound DEF Chosen
<1>3. CASE RemoteUpdate
  <2>1. /\ mishaps' = mishaps + 1 /\ row' = MaxTexts + 1 + mishaps' /\ editor' = editor
        /\ UNCHANGED <<view, refs, draft, timer, job, saved, twice, owed, excuse, texts, files>>
        /\ UNCHANGED <<rec, asks, void, left, mic, speech, panel, over>>
    BY <1>3 DEF RemoteUpdate, Mishap, storage, microphone, drafted
  <2>2. mishaps' \in Nat /\ row' \in Nat /\ files <= files' /\ texts <= texts'
    BY <1>0, <2>1
  <2> QED
    BY <1>0, <2>1, <2>2, AttachedIsSound DEF Chosen
<1>4. ASSUME NEW f \in editor.localFiles, RemoveLocalFile(f)
      PROVE  EditorTyped' /\ DraftSound' /\ UNCHANGED <<rec, asks, void, left, mic, speech, panel, over>>
             /\ files' \in Nat /\ files <= files'
  <2> DEFINE fs == editor.localFiles \ {f}
  <2>1. /\ editor' = [editor EXCEPT !.localFiles = fs]
        /\ UNCHANGED <<view, refs, draft, timer, job, row, saved, twice, owed, excuse, texts, files, mishaps>>
        /\ UNCHANGED <<rec, asks, void, left, mic, speech, panel, over>>
    BY <1>4 DEF RemoveLocalFile, storage, server, microphone, counters, drafted
  <2>2. fs \in SUBSET Nat /\ files <= files' /\ texts <= texts'
    BY <1>0, <2>1
  <2> HIDE DEF fs
  <2> QED
    BY <1>0, <2>1, <2>2, AttachedIsSound DEF Chosen
<1> QED
  BY <1>1, <1>2, <1>3, <1>4

LEMMA RecordingIsSound ==
    ASSUME EditorTyped, RecorderTyped, DraftSound, ~excuse, Recording
    PROVE  EditorTyped' /\ DraftSound'
<1>0. /\ editor \in EditorStates /\ texts \in Nat /\ files \in Nat /\ mishaps \in Nat /\ row \in Nat
      /\ editor.localFiles \in SUBSET Nat /\ rec.id \in Nat /\ speech \in Nat
      /\ texts <= texts
  BY EditorFields, RecorderFields DEF EditorTyped, RecorderTyped
<1> DEFINE Same == UNCHANGED <<view, refs, draft, timer, job, row, saved, twice, owed, excuse, texts, mishaps>>
<1>1. CASE Record
  <2>1. files' = files + 1 /\ editor' = [editor EXCEPT !.recorderBusy = TRUE] /\ Same
    BY <1>1 DEF Record, NewFile, storage, server, drafted
  <2>2. files' \in Nat
    BY <1>0, <2>1
  <2> QED
    BY <1>0, <2>1, <2>2, AttachedIsSound DEF Chosen
<1>2. CASE Stopped
  <2>1. PICK empty \in BOOLEAN, transcribed \in BOOLEAN :
          editor' = [editor EXCEPT !.recorderBusy = FALSE,
                                   !.localFiles = IF empty \/ transcribed THEN @ ELSE @ \cup {rec.id}]
    BY <1>2 DEF Stopped
  <2> DEFINE fs == IF empty \/ transcribed THEN editor.localFiles ELSE editor.localFiles \cup {rec.id}
  <2>2. editor' = [editor EXCEPT !.recorderBusy = FALSE, !.localFiles = fs]
    BY <2>1
  <2>3. fs \in SUBSET Nat
    BY <1>0
  <2> HIDE DEF fs
  <2>4. Same /\ files' = files
    BY <1>2 DEF Stopped, storage, server, counters, drafted
  <2> QED
    BY <1>0, <2>2, <2>3, <2>4, AttachedIsSound DEF Chosen
<1>3. CASE CancelRecording
  <2>1. files' = files /\ editor' = [editor EXCEPT !.recorderBusy = FALSE] /\ Same
    BY <1>3 DEF CancelRecording, storage, server, counters, drafted
  <2> QED
    BY <1>0, <2>1, AttachedIsSound DEF Chosen
<1>4. CASE Transcribed
  <2>1. speech # 0 /\ UNCHANGED <<view, job, row, saved, twice, excuse>>
    BY <1>4 DEF Transcribed, server
  <2>2. CASE NewText /\ Enter(texts') /\ editor' = [editor EXCEPT !.content = texts']
    <3> DEFINE t == texts + 1
    <3>1. /\ t \in Nat /\ texts' = t /\ Enter(t) /\ editor' = [editor EXCEPT !.content = t]
          /\ UNCHANGED <<files, mishaps>>
      BY <1>0, <2>2 DEF NewText
    <3> QED
      BY <1>0, <2>1, <3>1, TextIsEntered
  <2>3. CASE editor' = [editor EXCEPT !.localFiles = @ \cup {speech}] /\ UNCHANGED <<refs, storage, drafted, counters>>
    <3> DEFINE fs == editor.localFiles \cup {speech}
    <3>1. editor' = [editor EXCEPT !.localFiles = fs] /\ Same /\ files' = files
      BY <2>1, <2>3 DEF storage, counters, drafted
    <3>2. fs \in SUBSET Nat
      BY <1>0
    <3> HIDE DEF fs
    <3> QED
      BY <1>0, <3>1, <3>2, AttachedIsSound DEF Chosen
  <2> QED
    BY <1>4, <2>2, <2>3 DEF Transcribed
<1>5. ASSUME NEW r \in asks, Granted(r) \/ Denied(r) PROVE EditorTyped' /\ DraftSound'
  <2>1. (editor' = editor \/ editor' = [editor EXCEPT !.recorderBusy = FALSE]) /\ Same /\ files' = files
    BY <1>5 DEF Granted, Denied, Answered, storage, server, counters, drafted
  <2> QED
    BY <1>0, <2>1, AttachedIsSound DEF Chosen
<1>6. ASSUME NEW way, Stop(way) PROVE EditorTyped' /\ DraftSound'
  <2>1. editor' = editor /\ Same /\ files' = files
    BY <1>6 DEF Stop, storage, server, counters, drafted
  <2> QED
    BY <1>0, <2>1, AttachedIsSound DEF Chosen
<1> QED
  BY <1>1, <1>2, <1>3, <1>4, <1>5, <1>6 DEF Recording, StopToAttach, StopToTranscribe

-----------------------------------------------------------------------------
(* What the end of a save throws away *)

\* A step that enters nothing, and leaves the save where it is, moves it on or ends it.
LEMMA NothingIsLate ==
    ASSUME LateSound, ~excuse, UNCHANGED drafted,
           \/ job'.mine = job.mine /\ job'.text = job.text /\ job'.kind = job.kind /\ editor'.content = editor.content
           \/ ~job'.mine /\ job'.text = job.text /\ job'.kind = job.kind
           \/ ~job'.mine /\ job'.at = "idle",
           job'.at \in Unsaved => job.at \in Unsaved
    PROVE  LateSound'
BY DEF LateSound, drafted, Unsaved

LEMMA EnterIsLate ==
    ASSUME EditorTyped, JobSound, LateSound, ~excuse, NEW t \in Nat, Enter(t), editor'.content = t, UNCHANGED job
    PROVE  LateSound'
<1>1. /\ owed \in [Kinds -> Nat] /\ job.kind \in Kinds /\ lost' = lost
      /\ late' = IF job.mine THEN late \cup {t} ELSE late
  BY JobFields DEF EditorTyped, Enter
<1>2. owed'["edit"] = 0
  <2>1. (owed' = [owed EXCEPT ![view] = t] /\ view # "edit") \/ owed' = owed
    BY DEF Enter, Drafting, Drafts
  <2> QED
    BY <1>1, <2>1, Initials DEF LateSound
<1>3. ASSUME job.at \in Unsaved PROVE owed'[job.kind] \in {0, job.text} \cup late'
  <2>1. job.at # "idle" /\ owed[job.kind] \in {0, job.text} \cup late
    BY <1>3 DEF LateSound, Unsaved
  <2>2. CASE view = job.kind
    <3>1. job.mine
      BY <2>1, <2>2 DEF JobSound
    <3>2. owed' = [owed EXCEPT ![view] = t] \/ owed' = owed
      BY DEF Enter
    <3>3. owed'[job.kind] \in {t, owed[job.kind]}
      BY <1>1, <2>2, <3>2
    <3> QED
      BY <1>1, <2>1, <3>1, <3>3
  <2>3. CASE view # job.kind
    <3>1. owed' = [owed EXCEPT ![view] = t] \/ owed' = owed
      BY DEF Enter
    <3>2. owed'[job.kind] = owed[job.kind]
      BY <1>1, <2>3, <3>1
    <3> QED
      BY <1>1, <2>1, <3>2
  <2> QED
    BY <2>2, <2>3
<1>4. job.mine => editor'.content \in {0, job.text} \cup late'
  BY <1>1
<1> QED
  BY <1>1, <1>2, <1>3, <1>4 DEF LateSound

LEMMA LateStepIsSound ==
    ASSUME EditorTyped, DraftSound, LateSound, ~excuse, EditorNext PROVE LateSound'
<1>1. /\ job \in Jobs /\ editor \in EditorStates /\ JobSound /\ owed \in [Kinds -> Nat] /\ texts \in Nat
      /\ job.kind \in Kinds
  BY JobFields DEF EditorTyped, DraftSound
<1>2. ASSUME \/ \E k \in Kinds : TimerFires(k)
             \/ Hide \/ RemoteUpdate
      PROVE  LateSound'
  BY <1>2, NothingIsLate DEF TimerFires, Hide, RemoteUpdate
<1>3. ASSUME \E kind \in Kinds : Open(kind) PROVE LateSound'
  <2>1. job' = job /\ UNCHANGED drafted /\ view = "closed"
    BY <1>3 DEF Open
  <2>2. ~job.mine
    BY <1>1, <2>1 DEF JobSound, Kinds, Drafts
  <2> QED
    BY <2>1, <2>2, NothingIsLate
<1>4. ASSUME Leave PROVE LateSound'
  <2>1. job' = [job EXCEPT !.mine = FALSE] /\ UNCHANGED drafted
    BY <1>4 DEF Leave, Unmount
  <2> QED
    BY <1>1, <2>1, JobIsLeft, NothingIsLate
<1>5. ASSUME Discarded \/ NoChanges \/ SaveFails PROVE LateSound'
  <2>1. job' = NoJob /\ UNCHANGED drafted
    BY <1>5 DEF Discarded, NoChanges, SaveFails
  <2> QED
    BY <2>1, Initials, NothingIsLate DEF Unsaved
<1>6. ASSUME Typed PROVE LateSound'
  <2>1. PICK t \in Nat : Enter(t) /\ editor' = [editor EXCEPT !.content = t] /\ job' = job
    BY <1>1, <1>6 DEF Typed, NewText
  <2> QED
    BY <1>1, <2>1, ContentIsSet, EnterIsLate
<1>7. ASSUME SetMetadata \/ Attached \/ \E f \in editor.localFiles : RemoveLocalFile(f) PROVE LateSound'
  <2>1. job' = job /\ UNCHANGED drafted
    BY <1>7 DEF SetMetadata, Attached, RemoveLocalFile
  <2>2. editor'.content = editor.content
    BY <1>1, <1>7 DEF SetMetadata, Attached, RemoveLocalFile, EditorStates
  <2> QED
    BY <2>1, <2>2, NothingIsLate
<1>8. ASSUME Save PROVE LateSound'
  <2>1. /\ view # "closed" /\ ~editor.saving /\ editor' = [editor EXCEPT !.saving = TRUE] /\ UNCHANGED drafted
        /\ job' = [at |-> "upload", kind |-> view, text |-> editor.content,
                   changed |-> editor.changed, files |-> editor.localFiles, mine |-> TRUE]
        /\ job.at = "idle" \/ job.mine
    BY <1>8 DEF Save, CanSave
  <2>2. job'.kind = view /\ job'.text = editor.content /\ editor'.content = editor.content
    BY <1>1, <2>1, SavingIsSet
  <2>3. job.at = "idle"
    BY <1>1, <2>1 DEF JobSound
  <2>4. owed'[view] \in {0, editor.content}
    <3>1. CASE view \in Drafts
      <4>1. Entered(view)
        BY <3>1 DEF DraftSound
      <4> QED
        BY <2>1, <2>3, <4>1 DEF Entered, drafted
    <3>2. CASE view = "edit"
      BY <2>1, <3>2 DEF LateSound, drafted
    <3> QED
      BY <2>1, <3>1, <3>2 DEF EditorTyped, Kinds
  <2> QED
    BY <2>1, <2>2, <2>4 DEF LateSound, drafted
<1>9. ASSUME Uploaded \/ Written PROVE LateSound'
  <2>1. /\ job.at \in Unsaved /\ editor' = editor /\ UNCHANGED drafted
        /\ \E phase \in {"compare", "write", "written", "refresh"} : job' = [job EXCEPT !.at = phase]
    BY <1>9 DEF Uploaded, Written, Unsaved
  <2>2. job'.mine = job.mine /\ job'.text = job.text /\ job'.kind = job.kind
    BY <1>1, <2>1, JobGoesOn
  <2> QED
    BY <2>1, <2>2, NothingIsLate
<1>10. ASSUME DiscardDraft PROVE LateSound'
  <2>1. /\ job.at = "written" /\ job' = [job EXCEPT !.at = "refresh"] /\ editor' = editor /\ late' = late
        /\ lost' = lost \cup ({owed[job.kind]} \ {0, job.text}) /\ owed' = [owed EXCEPT ![job.kind] = 0]
    BY <1>10 DEF DiscardDraft
  <2>2. job'.mine = job.mine /\ job'.text = job.text /\ job'.at = "refresh"
    BY <1>1, <2>1, JobGoesOn
  <2>3. owed'["edit"] = 0
    BY <1>1, <2>1, Initials DEF LateSound
  <2>4. lost' \subseteq late'
    BY <2>1 DEF LateSound, Unsaved
  <2> QED
    BY <2>1, <2>2, <2>3, <2>4 DEF LateSound, Unsaved
<1>11. ASSUME Reset PROVE LateSound'
  <2>1. /\ job' = NoJob /\ late' = late
        /\ \/ /\ job.mine /\ owed' = [owed EXCEPT ![job.kind] = 0]
              /\ lost' = lost \cup ({editor.content} \ {0, job.text})
           \/ UNCHANGED <<owed, lost>>
    BY <1>11 DEF Reset
  <2>2. lost' \subseteq late'
    BY <2>1 DEF LateSound
  <2>3. owed'["edit"] = 0
    BY <1>1, <2>1, Initials DEF LateSound
  <2> QED
    BY <2>1, <2>2, <2>3, Initials DEF LateSound, Unsaved
<1>12. ASSUME Recording PROVE LateSound'
  <2>1. CASE Transcribed
    <3>1. job' = job
      BY <2>1 DEF Transcribed
    <3>2. CASE NewText /\ Enter(texts') /\ editor' = [editor EXCEPT !.content = texts']
      <4>1. texts' \in Nat
        BY <1>1, <3>2 DEF NewText
      <4> DEFINE t == texts'
      <4>2. t \in Nat /\ Enter(t) /\ editor'.content = t
        BY <1>1, <3>2, <4>1, ContentIsSet
      <4> QED
        BY <1>1, <3>1, <4>2, EnterIsLate
    <3>3. CASE editor' = [editor EXCEPT !.localFiles = @ \cup {speech}] /\ UNCHANGED drafted
      <4>1. editor'.content = editor.content
        BY <1>1, <3>3 DEF EditorStates
      <4> QED
        BY <3>1, <3>3, <4>1, NothingIsLate
    <3> QED
      BY <2>1, <3>2, <3>3 DEF Transcribed
  <2>2. ASSUME Record \/ Stopped \/ CancelRecording PROVE LateSound'
    <3>1. job' = job /\ UNCHANGED drafted
      BY <2>2 DEF Record, Stopped, CancelRecording
    <3>2. editor'.content = editor.content
      BY <1>1, <2>2 DEF Record, Stopped, CancelRecording, EditorStates
    <3> QED
      BY <3>1, <3>2, NothingIsLate
  <2>3. ASSUME NEW r \in asks, Granted(r) \/ Denied(r) PROVE LateSound'
    <3>1. job' = job /\ UNCHANGED drafted
      BY <2>3 DEF Granted, Denied, Answered
    <3>2. editor'.content = editor.content
      BY <1>1, <2>3 DEF Granted, Denied, EditorStates
    <3> QED
      BY <3>1, <3>2, NothingIsLate
  <2>4. ASSUME NEW way, Stop(way) PROVE LateSound'
    <3>1. job' = job /\ editor' = editor /\ UNCHANGED drafted
      BY <2>4 DEF Stop
    <3> QED
      BY <3>1, NothingIsLate
  <2> QED
    BY <1>12, <2>1, <2>2, <2>3, <2>4 DEF Recording, StopToAttach, StopToTranscribe
<1> QED
  BY <1>2, <1>3, <1>4, <1>5, <1>6, <1>7, <1>8, <1>9, <1>10, <1>11, <1>12
     DEF EditorNext, TypePlain, TypeRich, Format, Suggest, SetVisibility, SetLocation, LinkMemo,
         SetTimestamps, MoveAttachments, PickFile, PasteFile, DropFile

LEMMA EditorStepIsSound == EditorSound /\ [EditorNext]_editorVars => EditorSound'
<1> SUFFICES ASSUME EditorSound, [EditorNext]_editorVars PROVE EditorSound'
  OBVIOUS
<1>1. EditorTyped /\ RecorderTyped /\ MicSound /\ DraftSound /\ LateSound
  BY DEF EditorSound
<1>2. files \in Nat /\ editor.content \in Nat /\ texts \in Nat /\ files <= files
  BY <1>1, EditorFields DEF EditorTyped
<1>3. CASE UNCHANGED editorVars
  <2>1. EditorTyped'
    BY <1>1, <1>3 DEF EditorTyped, editorVars
  <2>2. RecorderTyped' /\ MicSound'
    BY <1>1, <1>2, <1>3, SameMic DEF editorVars
  <2>3. DraftSound'
    BY <1>1, <1>2, <1>3, TextIsApart DEF editorVars
  <2>4. LateSound'
    BY <1>1, <1>3 DEF LateSound, editorVars
  <2> QED
    BY <2>1, <2>2, <2>3, <2>4 DEF EditorSound
<1>4. CASE EditorNext
  <2>1. ~excuse
    BY <1>4 DEF EditorNext
  <2>0. LateSound'
    BY <1>1, <1>4, <2>1, LateStepIsSound
  <2>2. ASSUME \/ \E k \in Kinds : TimerFires(k)
               \/ \E kind \in Kinds : Open(kind)
               \/ Hide \/ Typed \/ Save \/ Uploaded \/ Written \/ SaveFails \/ DiscardDraft
        PROVE  EditorSound'
    <3>1. EditorTyped' /\ DraftSound'
      BY <1>1, <2>1, <2>2, TimerIsSound, OpenIsSound, HideIsSound, TypedIsSound, SaveIsSound, UploadedIsSound,
         WrittenIsSound, SaveFailsIsSound, DiscardDraftIsSound
    <3>2. UNCHANGED <<rec, asks, void, left, mic, speech, panel, over, files>>
      BY <2>2 DEF TimerFires, Open, Hide, Typed, Save, Uploaded, Written, SaveFails, DiscardDraft,
         microphone, counters, Mishap, NewText
    <3>3. RecorderTyped' /\ MicSound'
      BY <1>1, <1>2, <3>2, SameMic
    <3> QED
      BY <2>0, <3>1, <3>3 DEF EditorSound
  <2>3. ASSUME Leave \/ NoChanges \/ Reset PROVE EditorSound'
    <3>1. /\ EditorTyped' /\ DraftSound'
          /\ RecorderCloses \/ UNCHANGED <<rec, asks, void, left, mic, speech, panel, over, files>>
      BY <1>1, <2>1, <2>3, LeaveIsSound, NoChangesIsSound, ResetIsSound
    <3>2. RecorderTyped' /\ MicSound'
      BY <1>1, <1>2, <3>1, SameMic, CloseKeepsMic
    <3> QED
      BY <2>0, <3>1, <3>2 DEF EditorSound
  <2>4. ASSUME Discarded PROVE EditorSound'
    BY <1>1, <2>0, <2>1, <2>4, DiscardedIsSound DEF EditorSound
  <2>5. ASSUME SetMetadata \/ Attached \/ RemoteUpdate \/ \E f \in editor.localFiles : RemoveLocalFile(f)
        PROVE  EditorSound'
    <3>1. /\ EditorTyped' /\ DraftSound' /\ UNCHANGED <<rec, asks, void, left, mic, speech, panel, over>>
          /\ files' \in Nat /\ files <= files'
      BY <1>1, <2>1, <2>5, ChoiceIsSound
    <3>2. RecorderTyped' /\ MicSound'
      BY <1>1, <1>2, <3>1, SameMic
    <3> QED
      BY <2>0, <3>1, <3>2 DEF EditorSound
  <2>6. ASSUME Recording PROVE EditorSound'
    BY <1>1, <2>0, <2>1, <2>6, RecordingIsSound, RecordingKeepsMic DEF EditorSound
  <2>7. \/ \E k \in Kinds : TimerFires(k)
        \/ \E kind \in Kinds : Open(kind)
        \/ Leave \/ Hide \/ Discarded \/ RemoteUpdate \/ Typed \/ SetMetadata \/ Attached
        \/ \E f \in editor.localFiles : RemoveLocalFile(f)
        \/ Save \/ Uploaded \/ NoChanges \/ Written \/ SaveFails \/ DiscardDraft \/ Reset
        \/ Recording
    BY <1>4 DEF EditorNext, TypePlain, TypeRich, Format, Suggest, SetVisibility, SetLocation, LinkMemo,
       SetTimestamps, MoveAttachments, PickFile, PasteFile, DropFile
  <2> QED
    BY <2>2, <2>3, <2>4, <2>5, <2>6, <2>7
<1> QED
  BY <1>3, <1>4

\* What is entered is kept until it is saved, unless it was entered while a save was awaited; no
\* text becomes two memos, and the microphone is live only for the recording on the screen, but for
\* the two exceptions that MicReleased names: EditorIsKept (useAutoSave, cacheService, discardDraft,
\* RESET, handleAudioRecorderClick, useAudioRecorder).
THEOREM EnteredTextIsKept == EditorSpec => []EditorIsKept
<1>1. EditorInit => EditorSound
  <2> SUFFICES ASSUME EditorInit PROVE EditorSound
    OBVIOUS
  <2>1. EditorTyped
    BY Initials, WebEditorConstants DEF EditorInit, EditorTyped
  <2>2. RecorderTyped
    BY NoRecorderFields DEF EditorInit, RecorderTyped
  <2>3. MicSound
    BY NoRecorderFields DEF EditorInit, MicSound, AsksKnown, IdleIsEmpty, AskingIsOpen, RecordingIsOpen, PanelShown, MicReleased
  <2>4. DraftSound
    <3>1. JobSound
      BY Initials DEF EditorInit, JobSound
    <3>2. \A d \in Drafts : Entered(d)
      BY Initials DEF EditorInit, Entered
    <3>3. TextsApart
      BY Initials DEF EditorInit, TextsApart
    <3> QED
      BY <3>1, <3>2, <3>3 DEF DraftSound, EditorInit
  <2>5. LateSound
    BY Initials DEF EditorInit, LateSound, Unsaved
  <2> QED
    BY <2>1, <2>2, <2>3, <2>4, <2>5 DEF EditorSound
<1>2. EditorSound /\ [EditorNext]_editorVars => EditorSound'
  BY EditorStepIsSound
<1>3. EditorSound => EditorIsKept
  <2> SUFFICES ASSUME EditorSound PROVE EditorIsKept
    OBVIOUS
  <2>1. DraftKept
    BY DEF EditorSound, DraftSound, Entered, DraftKept
  <2>2. SavedOnce /\ MicReleased
    BY DEF EditorSound, DraftSound, SavedOnce, MicSound
  <2>3. OnlyLateIsLost
    BY DEF EditorSound, LateSound, OnlyLateIsLost
  <2> QED
    BY <2>1, <2>2, <2>3 DEF EditorIsKept
<1> QED
  BY <1>1, <1>2, <1>3, PTL DEF EditorSpec

-----------------------------------------------------------------------------
(* The lists with dialogs *)

Contents == [Rows -> Nat]
ListFetches ==
    [at : {"asked", "answered"}, got : Contents,
     then : {"nothing", "close", "clear", "closeedit", "closecreate", "confirmed"}]
Dialogs == [open : BOOLEAN, row : Rows \cup {0}, text : Nat, shows : BOOLEAN]
Confirmations == [row : Rows \cup {0}, op : {"set", "delete"}, busy : BOOLEAN]
ListCalls ==
    [op : {"create", "update", "set", "delete"}, row : Rows \cup {0}, text : Nat, from : 0 .. MaxForms,
     at : {"sent", "done"}]

ListsTyped ==
    /\ board \in Boards \cup {"none"}
    /\ rows \in Contents /\ list \in Contents /\ fetch \in SUBSET ListFetches
    /\ dialog \in Dialogs /\ confirm \in Confirmations /\ calls \in SUBSET ListCalls
    /\ forms \in 0 .. MaxForms /\ born \in 1 .. MaxRows /\ yield \in [1 .. MaxForms -> Nat]

\* Rows are made once, and a deleted one never comes back.
RowsKnown ==
    /\ \A r \in Rows : rows[r] # 0 => r <= born
    /\ \A c \in calls : c.op = "delete" /\ c.at = "done" => rows[c.row] = 0 /\ c.row <= born

\* What is asked for and sent comes from the board that is open.
SentFromBoard ==
    /\ board = "none" => calls = {} /\ fetch = {} /\ confirm.row = 0
    /\ confirm.row # 0 /\ confirm.op = "set" => board = "members"
    /\ dialog.open => forms > 0 /\ board \notin {"inbox", "none"}
    /\ dialog.shows => dialog.open
    /\ \A c \in calls : /\ IF c.op = "create" THEN c.row = 0 /\ c.from \in 1 .. forms ELSE c.row \in Rows
                        /\ c.op = "set" => board \in {"members", "inbox"}

OneFetch == crossed \/ \A f, g \in fetch : f = g

\* The answer makes the list be fetched again.
Relisted(c) == c.op # "delete" \/ board \notin {"tokens", "webhooks"}

\* Another fetch is coming.
Covered ==
    \/ \E c \in calls : c.at = "done" /\ Relisted(c)
    \/ \E f \in fetch : f.at = "asked"
    \/ board = "webhooks" /\ dialog.shows

\* Otherwise this row is going to be taken out, or what is shown, or about to be, is the server's.
RowAccounted(r) ==
    \/ \E c \in calls : c.op = "delete" /\ c.at = "done" /\ c.row = r
    \/ /\ fetch = {} => list[r] = rows[r]
       /\ \A f \in fetch : f.got[r] = rows[r]

ListAccounted == crossed \/ board \in {"none", "inbox"} \/ Covered \/ \A r \in Rows : RowAccounted(r)

\* This call was confirmed in the form for new rows.
FormCall(c) == c.op \in {"create", "update"} /\ Form(c.row) = "create"

\* The form could be confirmed, were it not busy, for a new row.
Slot == dialog.open /\ dialog.row = 0 /\ ~dialog.shows

Used ==
    \/ \E c \in calls : c.op = "create" /\ c.at = "done"
    \/ \E f \in fetch : f.then = "clear"

\* One form call is under way at a time, and the form is busy until what followed it is over.
BusyAccounted ==
    /\ \A c \in calls : FormCall(c) => "create" \in busy
    /\ \A c, d \in calls : FormCall(c) /\ FormCall(d) => c = d
    /\ \A f \in fetch : f.then = "clear" =>
          board = "shortcuts" /\ "create" \in busy /\ \A c \in calls : ~FormCall(c)
    /\ \A f, g \in fetch : f.then = "clear" /\ g.then = "clear" => f = g

YieldAccounted ==
    /\ \A n \in 1 .. MaxForms : yield[n] <= 1 /\ (n > forms => yield[n] = 0)
    /\ \A c \in calls : c.op = "create" /\ c.at = "sent" => yield[c.from] = 0
    /\ Slot /\ yield[forms] # 0 => Used

ListsSound ==
    /\ ListsTyped
    /\ missed \/ (RowsKnown /\ SentFromBoard /\ OneFetch /\ ListAccounted /\ BusyAccounted /\ YieldAccounted)

LEMMA AskedFields ==
    ASSUME NEW then \in {"nothing", "close", "clear", "closeedit", "closecreate", "confirmed"}
    PROVE  Asked(then) \in ListFetches /\ Asked(then).at = "asked" /\ Asked(then).then = then
BY DEF Asked, ListFetches, Contents, Nothing

\* A fetch is asked for: it is the only one, or it crosses another.
LEMMA AskIsSound ==
    ASSUME NEW then \in {"nothing", "close", "clear", "closeedit", "closecreate", "confirmed"}, Ask(then),
           fetch \in SUBSET ListFetches, board' = board, OneFetch
    PROVE  /\ fetch' \in SUBSET ListFetches /\ OneFetch' /\ ListAccounted'
           /\ \A f \in fetch' : f.then = "clear" => f \in fetch \/ then = "clear"
           /\ board = "shortcuts" => fetch \subseteq fetch' /\ \E f \in fetch' : f.then = then
<1> DEFINE x == IF \E f \in fetch : f.then = "confirmed" THEN "confirmed" ELSE then
<1>1. CASE board \in Queried
  <2>1. fetch' = {Asked(x)} /\ x \in {"confirmed", then}
    BY <1>1 DEF Ask
  <2>2. x \in {"nothing", "close", "clear", "closeedit", "closecreate", "confirmed"}
    BY <2>1
  <2> HIDE DEF x
  <2>3. Asked(x) \in ListFetches /\ Asked(x).at = "asked" /\ Asked(x).then = x
    BY <2>2, AskedFields
  <2> HIDE DEF x
  <2>4. OneFetch' /\ Covered'
    BY <2>1, <2>3 DEF OneFetch, Covered
  <2> QED
    BY <1>1, <2>1, <2>3, <2>4 DEF ListAccounted, Queried
<1>2. CASE board \notin Queried
  <2>1. fetch' = fetch \cup {Asked(then)} /\ crossed' = (crossed \/ fetch # {})
    BY <1>2 DEF Ask
  <2>2. Asked(then) \in ListFetches /\ Asked(then).at = "asked" /\ Asked(then).then = then
    BY AskedFields
  <2>3. OneFetch' /\ Covered'
    BY <2>1, <2>2 DEF OneFetch, Covered
  <2> QED
    BY <2>1, <2>2, <2>3 DEF ListAccounted
<1> QED
  BY <1>1, <1>2

\* Nothing has come and nothing is lost.
LEMMA SameList ==
    ASSUME ListAccounted, UNCHANGED <<board, rows, list, fetch>>, crossed => crossed',
           \A c \in calls : c.at = "done" => c \in calls',
           board = "webhooks" /\ dialog.shows => dialog'.shows
    PROVE  ListAccounted'
<1>1. CASE Covered
  <2>1. Covered'
    BY <1>1 DEF Covered, Relisted
  <2> QED
    BY <2>1 DEF ListAccounted
<1>2. CASE \A r \in Rows : RowAccounted(r)
  <2>1. \A r \in Rows : RowAccounted(r)'
    BY <1>2 DEF RowAccounted
  <2> QED
    BY <2>1 DEF ListAccounted
<1> QED
  BY <1>1, <1>2 DEF ListAccounted

\* The answer of a call, unless it is followed by a fetch that empties the form.
LEMMA BusyIsAnswered ==
    ASSUME BusyAccounted, calls' \subseteq calls, board' = board,
           \A f \in fetch' : f.then = "clear" => f \in fetch,
           "create" \in busy => "create" \in busy' \/ \E c \in calls \ calls' : FormCall(c)
    PROVE  BusyAccounted'
<1>0. \A d : FormCall(d)' <=> FormCall(d)
  BY DEF FormCall, Form
<1>1. (\A d \in calls : FormCall(d) => "create" \in busy)'
  BY <1>0 DEF BusyAccounted
<1>2. (\A d, e \in calls : FormCall(d) /\ FormCall(e) => d = e)'
  BY <1>0 DEF BusyAccounted
<1>3. (\A f \in fetch : f.then = "clear" =>
         board = "shortcuts" /\ "create" \in busy /\ \A d \in calls : ~FormCall(d))'
  BY <1>0 DEF BusyAccounted
<1>4. (\A f, g \in fetch : f.then = "clear" /\ g.then = "clear" => f = g)'
  BY DEF BusyAccounted
<1> QED
  BY <1>1, <1>2, <1>3, <1>4 DEF BusyAccounted

LEMMA YieldIsAnswered ==
    ASSUME YieldAccounted, calls' \subseteq calls, UNCHANGED <<yield, forms>>,
           \A f \in fetch : f.then = "clear" => f \in fetch',
           Slot' => Slot /\ \A c \in calls \ calls' : c.op # "create" \/ c.at = "sent"
    PROVE  YieldAccounted'
<1>1. (\A n \in 1 .. MaxForms : yield[n] <= 1 /\ (n > forms => yield[n] = 0))'
  BY DEF YieldAccounted
<1>2. (\A d \in calls : d.op = "create" /\ d.at = "sent" => yield[d.from] = 0)'
  BY DEF YieldAccounted
<1>3. (Slot /\ yield[forms] # 0 => Used)'
  <2> SUFFICES ASSUME Slot', yield[forms] # 0 PROVE Used'
    OBVIOUS
  <2>1. Used /\ \A c \in calls \ calls' : c.op # "create" \/ c.at = "sent"
    BY DEF YieldAccounted
  <2>2. CASE \E d \in calls : d.op = "create" /\ d.at = "done"
    BY <2>1, <2>2 DEF Used
  <2>3. CASE \E f \in fetch : f.then = "clear"
    BY <2>3 DEF Used
  <2> QED
    BY <2>1, <2>2, <2>3 DEF Used
<1> QED
  BY <1>1, <1>2, <1>3 DEF YieldAccounted

\* What a user does with dialogs: nothing of it reaches the server, and a form that is opened is new.
Locally ==
    /\ UNCHANGED <<board, rows, list, fetch, calls, yield, born, crossed, missed>>
    /\ dialog' \in Dialogs /\ confirm' \in Confirmations /\ forms' \in 0 .. MaxForms
    /\ "create" \in busy => "create" \in busy'
    /\ dialog'.open => forms' > 0 /\ board \notin {"inbox", "none"}
    /\ dialog'.shows => dialog'.open
    /\ board = "webhooks" /\ dialog.shows => dialog'.shows
    /\ confirm'.row # 0 => board # "none" /\ (confirm'.op = "set" => board = "members")
    /\ forms' = forms + 1 \/ (forms' = forms /\ (Slot' => Slot))

LEMMA LocallyIsSound == ASSUME ListsSound, ~missed, Locally PROVE ListsSound'
<1> USE DEF Locally
<1>1. ListsTyped'
  BY DEF ListsSound, ListsTyped
<1>2. RowsKnown'
  BY DEF ListsSound, RowsKnown
<1>3. SentFromBoard'
  <2>1. forms \in Nat /\ (forms' = forms \/ forms' = forms + 1) /\ SentFromBoard
    BY DEF ListsSound, ListsTyped
  <2>2. \A n \in 1 .. forms : n \in 1 .. forms'
    BY <2>1
  <2>3. (\A c \in calls : /\ IF c.op = "create" THEN c.row = 0 /\ c.from \in 1 .. forms ELSE c.row \in Rows
                          /\ c.op = "set" => board \in {"members", "inbox"})'
    BY <2>1, <2>2 DEF SentFromBoard
  <2> QED
    BY <2>1, <2>3 DEF SentFromBoard
<1>4. OneFetch'
  BY DEF ListsSound, OneFetch
<1>5. ListAccounted'
  BY SameList DEF ListsSound
<1>6. BusyAccounted'
  BY BusyIsAnswered DEF ListsSound
<1>7. YieldAccounted'
  <2>1. CASE forms' = forms
    BY <2>1, YieldIsAnswered DEF ListsSound
  <2>2. CASE forms' = forms + 1
    BY <2>2 DEF ListsSound, YieldAccounted, ListsTyped
  <2> QED
    BY <2>1, <2>2
<1> QED
  BY <1>1, <1>2, <1>3, <1>4, <1>5, <1>6, <1>7 DEF ListsSound

LEMMA DialogFields ==
    /\ \A d \in Dialogs : d.open \in BOOLEAN /\ d.row \in Rows \cup {0} /\ d.text \in Nat /\ d.shows \in BOOLEAN
    /\ NoForm \in Dialogs /\ ~NoForm.open /\ ~NoForm.shows /\ NoForm.row = 0
    /\ \A c \in Confirmations : c.row \in Rows \cup {0} /\ c.op \in {"set", "delete"} /\ c.busy \in BOOLEAN
    /\ NoConfirm \in Confirmations /\ NoConfirm.row = 0 /\ NoConfirm.op = "delete"
    /\ \A c \in Contents, r \in Rows : c[r] \in Nat
BY DEF Dialogs, NoForm, Confirmations, NoConfirm, Contents

LEMMA DialogIsNew ==
    ASSUME NEW r \in Rows \cup {0}, NEW t \in Nat, NEW n, n = [open |-> TRUE, row |-> r, text |-> t, shows |-> FALSE]
    PROVE  n \in Dialogs /\ n.open /\ ~n.shows
BY DEF Dialogs

LEMMA DialogIsFilled ==
    ASSUME NEW d \in Dialogs, NEW t \in Nat, NEW n, n = [d EXCEPT !.text = t]
    PROVE  n \in Dialogs /\ n.open = d.open /\ n.row = d.row /\ n.shows = d.shows
BY DEF Dialogs

LEMMA DialogShows ==
    ASSUME NEW d \in Dialogs, NEW b \in BOOLEAN, NEW n, n = [d EXCEPT !.shows = b]
    PROVE  n \in Dialogs /\ n.open = d.open /\ n.row = d.row /\ n.shows = b
BY DEF Dialogs

LEMMA ConfirmIsSet ==
    ASSUME NEW d \in Confirmations, NEW b \in BOOLEAN, NEW n, n = [d EXCEPT !.busy = b]
    PROVE  n \in Confirmations /\ n.row = d.row /\ n.op = d.op
BY DEF Confirmations

LEMMA ConfirmIsNew ==
    ASSUME NEW r \in Rows, NEW op \in {"set", "delete"}, NEW n, n = [row |-> r, op |-> op, busy |-> FALSE]
    PROVE  n \in Confirmations /\ n.row = r /\ n.op = op
BY DEF Confirmations

\* Opening, filling and dismissing forms, and asking for confirmations, is local.
LEMMA FormOpensLocally ==
    ASSUME ListsSound, ~missed, NEW b \in Boards \ {"inbox", "none"}, Creates(b) \/ Edits(b)
    PROVE  Locally
<1>0. /\ dialog \in Dialogs /\ confirm \in Confirmations /\ forms \in Nat /\ list \in Contents /\ MaxForms \in Nat
      /\ dialog.shows => dialog.open
      /\ confirm.row # 0 => board # "none" /\ (confirm.op = "set" => board = "members")
  BY WebListsConstants DEF ListsSound, ListsTyped, SentFromBoard
<1>1. ASSUME NEW r \in Rows \cup {0}, NEW t \in Nat, NewForm(r, t), b # "shortcuts" => ~dialog.open, board = b,
             UNCHANGED <<board, rows, list, fetch, busy, confirm, calls, sends, yield, born, breaks, crossed, missed>>
      PROVE  Locally
  <2>1. dialog' = [open |-> TRUE, row |-> r, text |-> t, shows |-> FALSE] /\ forms' = forms + 1 /\ forms < MaxForms
    BY <1>1 DEF NewForm
  <2>2. dialog' \in Dialogs /\ dialog'.open /\ ~dialog'.shows
    BY <2>1, DialogIsNew
  <2>3. forms' \in 0 .. MaxForms /\ forms' > 0
    BY <1>0, <2>1
  <2> QED
    BY <1>0, <1>1, <2>1, <2>2, <2>3 DEF Locally
<1>2. CASE Creates(b)
  BY <1>1, <1>2 DEF Creates
<1>3. CASE Edits(b)
  <2>1. PICK r \in Rows : NewForm(r, IF b = "webhooks" THEN 0 ELSE list[r])
    BY <1>3 DEF Edits
  <2> DEFINE t == IF b = "webhooks" THEN 0 ELSE list[r]
  <2>2. t \in Nat /\ NewForm(r, t)
    BY <1>0, <2>1, DialogFields
  <2> HIDE DEF t
  <2> QED
    BY <1>1, <1>3, <2>2 DEF Edits
<1> QED
  BY <1>2, <1>3

LEMMA FormFillsLocally ==
    ASSUME ListsSound, ~missed, LoadWebhook \/ \E b \in Boards : Fills(b)
    PROVE  Locally
<1>0. /\ dialog \in Dialogs /\ confirm \in Confirmations /\ forms \in 0 .. MaxForms /\ rows \in Contents
      /\ dialog.shows => dialog.open
      /\ dialog.open => forms > 0 /\ board \notin {"inbox", "none"}
      /\ confirm.row # 0 => board # "none" /\ (confirm.op = "set" => board = "members")
  BY WebListsConstants DEF ListsSound, ListsTyped, SentFromBoard
<1>1. ASSUME NEW t \in Nat, dialog' = [dialog EXCEPT !.text = t],
             UNCHANGED <<board, rows, list, fetch, busy, confirm, calls, forms, sends, yield, born, breaks, crossed, missed>>
      PROVE  Locally
  <2>1. dialog' \in Dialogs /\ dialog'.open = dialog.open /\ dialog'.row = dialog.row /\ dialog'.shows = dialog.shows
    BY <1>0, <1>1, DialogIsFilled
  <2> QED
    BY <1>0, <1>1, <2>1 DEF Locally, Slot
<1>2. CASE LoadWebhook
  <2>1. rows[dialog.row] \in Nat
    BY <1>0, <1>2, DialogFields DEF LoadWebhook
  <2> QED
    BY <1>1, <1>2, <2>1 DEF LoadWebhook
<1>3. ASSUME NEW b \in Boards, Fills(b) PROVE Locally
  <2>1. forms + 1 \in Nat
    BY <1>0
  <2> QED
    BY <1>1, <1>3, <2>1 DEF Fills
<1> QED
  BY <1>2, <1>3

LEMMA ConfirmationLocally ==
    ASSUME ListsSound, ~missed,
           CancelDelete \/ (\E b \in Boards : AsksTo("delete", b)) \/ AsksTo("set", "members")
    PROVE  Locally
<1>0. /\ dialog \in Dialogs /\ forms \in 0 .. MaxForms
      /\ dialog.shows => dialog.open
      /\ dialog.open => forms > 0 /\ board \notin {"inbox", "none"}
  BY DEF ListsSound, ListsTyped, SentFromBoard
<1>1. ASSUME confirm' \in Confirmations, confirm'.row # 0 => board # "none" /\ (confirm'.op = "set" => board = "members"),
             UNCHANGED <<board, rows, list, fetch, dialog, busy, calls, forms, sends, yield, born, breaks, crossed, missed>>
      PROVE  Locally
  BY <1>0, <1>1 DEF Locally, Slot
<1>2. CASE CancelDelete
  BY <1>1, <1>2, DialogFields DEF CancelDelete
<1>3. ASSUME NEW op \in {"set", "delete"}, NEW b \in Boards, op = "set" => b = "members", AsksTo(op, b)
      PROVE  Locally
  <2>1. PICK r \in Rows : confirm' = [row |-> r, op |-> op, busy |-> FALSE]
    BY <1>3 DEF AsksTo
  <2>2. confirm' \in Confirmations /\ confirm'.op = op
    BY <2>1, ConfirmIsNew
  <2> QED
    BY <1>1, <1>3, <2>2 DEF AsksTo, Boards
<1> QED
  BY <1>2, <1>3 DEF Boards

LEMMA DismissLocally ==
    ASSUME ListsSound, ~missed, Dismiss, ~(board = "webhooks" /\ dialog.shows)
    PROVE  Locally
<1>1. /\ confirm \in Confirmations /\ forms \in 0 .. MaxForms
      /\ confirm.row # 0 => board # "none" /\ (confirm.op = "set" => board = "members")
  BY DEF ListsSound, ListsTyped, SentFromBoard
<1> QED
  BY <1>1, DialogFields DEF Locally, Dismiss, Slot

\* What has been made and sent stays accounted for when calls leave, and dialogs close.
LEMMA FewerCalls ==
    ASSUME SentFromBoard, RowsKnown, calls' \subseteq calls, UNCHANGED <<board, rows, born, forms>>, board # "none",
           confirm'.row # 0 => confirm'.row = confirm.row /\ confirm'.op = confirm.op,
           dialog'.open => dialog.open, dialog'.shows => dialog'.open
    PROVE  SentFromBoard' /\ RowsKnown'
<1>1. RowsKnown'
  BY DEF RowsKnown
<1>2. SentFromBoard'
  BY DEF SentFromBoard
<1> QED
  BY <1>1, <1>2

\* An answer, or the dismissal of a secret, that has the list fetched again.
LEMMA RefetchIsSound ==
    ASSUME ListsSound, ~missed, NEW then \in {"nothing", "close", "closeedit", "closecreate", "confirmed"}, Ask(then),
           board # "none", calls' \subseteq calls, UNCHANGED <<board, rows, list, forms, yield, born>>, ~missed',
           dialog' \in Dialogs, confirm' \in Confirmations,
           confirm'.row # 0 => confirm'.row = confirm.row /\ confirm'.op = confirm.op,
           dialog'.open => dialog.open, dialog'.shows => dialog'.open,
           "create" \in busy => "create" \in busy' \/ \E c \in calls \ calls' : FormCall(c),
           Slot' => Slot /\ \A c \in calls \ calls' : c.op # "create" \/ c.at = "sent"
    PROVE  ListsSound'
<1>1. fetch \in SUBSET ListFetches /\ OneFetch /\ BusyAccounted /\ YieldAccounted /\ SentFromBoard /\ RowsKnown
  BY DEF ListsSound, ListsTyped
<1>2. /\ fetch' \in SUBSET ListFetches /\ OneFetch' /\ ListAccounted'
      /\ \A f \in fetch' : f.then = "clear" => f \in fetch
      /\ board = "shortcuts" => fetch \subseteq fetch'
  BY <1>1, AskIsSound
<1>3. \A f \in fetch : f.then = "clear" => f \in fetch'
  BY <1>1, <1>2 DEF BusyAccounted
<1>4. BusyAccounted'
  BY <1>1, <1>2, BusyIsAnswered
<1>5. YieldAccounted'
  BY <1>1, <1>3, YieldIsAnswered
<1>6. SentFromBoard' /\ RowsKnown'
  BY <1>1, FewerCalls
<1>7. ListsTyped'
  BY <1>2 DEF ListsSound, ListsTyped
<1> QED
  BY <1>2, <1>4, <1>5, <1>6, <1>7 DEF ListsSound

LEMMA SecretIsDismissed ==
    ASSUME ListsSound, ~missed, Dismiss, board = "webhooks", dialog.shows
    PROVE  ListsSound'
<1>1. /\ Ask("closecreate") /\ dialog' = NoForm /\ ("create" \in busy => "create" \in busy')
      /\ UNCHANGED <<board, rows, list, confirm, calls, forms, yield, born, missed>>
  BY DEF Dismiss
<1>2. confirm \in Confirmations
  BY DEF ListsSound, ListsTyped
<1>3. ~Slot'
  BY <1>1, DialogFields DEF Slot
<1>4. dialog' \in Dialogs /\ ~dialog'.open /\ ~dialog'.shows
  BY <1>1, DialogFields
<1> QED
  BY <1>1, <1>2, <1>3, <1>4, RefetchIsSound

LEMMA MemberAnswers ==
    ASSUME ListsSound, ~missed, MemberSaved \/ MemberArchived \/ MemberDeleted
    PROVE  ListsSound'
<1>0. /\ dialog \in Dialogs /\ confirm \in Confirmations /\ calls \in SUBSET ListCalls
      /\ dialog.shows => dialog.open
      /\ \A c \in calls : c.op = "create" => c.row = 0
  BY DEF ListsSound, ListsTyped, SentFromBoard
<1>1. CASE MemberSaved
  <2>1. PICK c \in calls :
          /\ board = "members" /\ c.op \in {"create", "update"} /\ calls' = calls \ {c}
          /\ Ask("nothing") /\ busy' = busy \ {Form(c.row)}
          /\ dialog' = IF Form(dialog.row) = Form(c.row) THEN NoForm ELSE dialog
          /\ UNCHANGED <<board, rows, list, confirm, forms, sends, yield, born, breaks, missed>>
    BY <1>1 DEF MemberSaved, Finish
  <2>2. "create" \in busy => "create" \in busy' \/ \E d \in calls \ calls' : FormCall(d)
    BY <2>1 DEF FormCall
  <2>3. Slot' => Slot /\ \A d \in calls \ calls' : d.op # "create" \/ d.at = "sent"
    <3> SUFFICES ASSUME Slot' PROVE Slot /\ c.op # "create"
      BY <2>1
    <3>1. dialog' = dialog /\ Form(dialog.row) # Form(c.row)
      BY <2>1, DialogFields DEF Slot
    <3> QED
      BY <1>0, <3>1 DEF Slot
  <2>4. dialog' \in Dialogs /\ (dialog'.open => dialog.open) /\ (dialog'.shows => dialog'.open)
    BY <1>0, <2>1, DialogFields
  <2> QED
    BY <1>0, <2>1, <2>2, <2>3, <2>4, RefetchIsSound
<1>2. ASSUME NEW c \in calls, calls' = calls \ {c}, board = "members", c.op \in {"set", "delete"},
             NEW then \in {"nothing", "confirmed"}, Ask(then), confirm' \in {confirm, NoConfirm},
             UNCHANGED <<board, rows, list, dialog, busy, forms, sends, yield, born, breaks, missed>>
      PROVE  ListsSound'
  <2>1. Slot' => Slot /\ \A d \in calls \ calls' : d.op # "create" \/ d.at = "sent"
    BY <1>2 DEF Slot
  <2>2. confirm' \in Confirmations /\ (confirm'.row # 0 => confirm'.row = confirm.row /\ confirm'.op = confirm.op)
    BY <1>0, <1>2, DialogFields
  <2> QED
    BY <1>0, <1>2, <2>1, <2>2, RefetchIsSound
<1>3. CASE MemberArchived
  BY <1>2, <1>3 DEF MemberArchived, Finish
<1>4. CASE MemberDeleted
  BY <1>2, <1>4 DEF MemberDeleted, Finish
<1> QED
  BY <1>1, <1>3, <1>4

\* A form of its own is saved, and closed, or shows what was made.
LEMMA FormAnswers ==
    ASSUME ListsSound, ~missed, ProviderSaved \/ TokenSaved \/ ShareChanged
    PROVE  ListsSound'
<1>0. /\ dialog \in Dialogs /\ confirm \in Confirmations /\ calls \in SUBSET ListCalls
      /\ dialog.shows => dialog.open
      /\ \A c \in calls : (c.op = "create" => c.row = 0) /\ (c.op = "set" => board \in {"members", "inbox"})
      /\ \A c \in calls : c.op \in {"create", "update", "set", "delete"}
  BY DEF ListsSound, ListsTyped, SentFromBoard, ListCalls
<1>1. ASSUME NEW c \in calls, calls' = calls \ {c}, c.op # "delete", board \in {"providers", "tokens", "shares"},
             NEW then \in {"nothing", "close"}, Ask(then),
             dialog' \in Dialogs, dialog'.open => dialog.open, dialog'.shows => dialog'.open, ~Slot',
             UNCHANGED <<board, rows, list, confirm, forms, sends, yield, born, breaks, missed>>
      PROVE  ListsSound'
  <2>1. FormCall(c)
    BY <1>0, <1>1 DEF FormCall, Form
  <2>2. \E d \in calls \ calls' : FormCall(d)
    BY <1>1, <2>1
  <2> QED
    BY <1>0, <1>1, <2>2, RefetchIsSound
<1>2. CASE ProviderSaved
  <2>1. PICK c \in calls : board = "providers" /\ c.op # "delete" /\ Finish(c) /\ Ask("close") /\ dialog' = NoForm
    BY <1>2 DEF ProviderSaved
  <2> QED
    BY <1>1, <1>2, <2>1, DialogFields DEF ProviderSaved, Finish, Slot
<1>3. CASE TokenSaved
  <2>1. PICK c \in calls : /\ board = "tokens" /\ c.op = "create" /\ Finish(c) /\ Ask("nothing")
                           /\ dialog' = IF dialog.open THEN [dialog EXCEPT !.shows = TRUE] ELSE dialog
    BY <1>3 DEF TokenSaved
  <2>2. dialog' \in Dialogs /\ dialog'.open = dialog.open /\ dialog'.row = dialog.row /\ ~Slot'
    BY <1>0, <2>1, DialogShows, DialogFields DEF Slot
  <2>3. UNCHANGED <<board, rows, list, confirm, forms, sends, yield, born, breaks, missed>>
    BY <1>3 DEF TokenSaved
  <2>4. calls' = calls \ {c} /\ c.op # "delete" /\ (dialog'.open => dialog.open) /\ (dialog'.shows => dialog'.open)
    <3>1. dialog'.shows => dialog'.open
      BY <1>0, <2>1, <2>2, DialogFields
    <3> QED
      BY <2>1, <2>2, <3>1 DEF Finish
  <2> QED
    BY <1>1, <2>1, <2>2, <2>3, <2>4
<1>4. CASE ShareChanged
  <2>1. PICK c \in calls :
          /\ board = "shares" /\ Finish(c) /\ Ask("nothing")
          /\ busy' = (IF c.op = "create" THEN {} ELSE busy)
          /\ dialog' = IF c.op = "create" THEN NoForm ELSE dialog
    BY <1>4 DEF ShareChanged
  <2>2. UNCHANGED <<board, rows, list, confirm, forms, sends, yield, born, breaks, missed>>
    BY <1>4 DEF ShareChanged
  <2>3. CASE c.op = "create"
    BY <1>1, <2>1, <2>2, <2>3, DialogFields DEF Finish, Slot
  <2>4. CASE c.op # "create"
    <3>1. Slot' => Slot /\ \A d \in calls \ calls' : d.op # "create" \/ d.at = "sent"
      BY <2>1, <2>4 DEF Slot, Finish
    <3> QED
      BY <1>0, <2>1, <2>2, <2>4, <3>1, RefetchIsSound DEF Finish
  <2> QED
    BY <2>3, <2>4
<1> QED
  BY <1>2, <1>3, <1>4

\* An answer after which nothing is fetched.
LEMMA SilenceIsSound ==
    ASSUME ListsSound, ~missed, ~missed', ListAccounted', list' \in Contents, board # "none",
           calls' \subseteq calls, UNCHANGED <<board, rows, fetch, forms, yield, born>>, crossed => crossed',
           dialog' \in Dialogs, confirm' \in Confirmations,
           confirm'.row # 0 => confirm'.row = confirm.row /\ confirm'.op = confirm.op,
           dialog'.open => dialog.open, dialog'.shows => dialog'.open,
           "create" \in busy => "create" \in busy' \/ \E c \in calls \ calls' : FormCall(c),
           Slot' => Slot /\ \A c \in calls \ calls' : c.op # "create" \/ c.at = "sent"
    PROVE  ListsSound'
<1>1. fetch \in SUBSET ListFetches /\ OneFetch /\ BusyAccounted /\ YieldAccounted /\ SentFromBoard /\ RowsKnown
  BY DEF ListsSound, ListsTyped
<1>2. BusyAccounted'
  BY <1>1, BusyIsAnswered
<1>3. YieldAccounted'
  BY <1>1, YieldIsAnswered
<1>4. SentFromBoard' /\ RowsKnown'
  BY <1>1, FewerCalls
<1>5. ListsTyped'
  BY DEF ListsSound, ListsTyped
<1>6. OneFetch'
  BY <1>1 DEF OneFetch
<1> QED
  BY <1>2, <1>3, <1>4, <1>5, <1>6 DEF ListsSound

LEMMA WebhookAnswers == ASSUME ListsSound, ~missed, WebhookSaved PROVE ListsSound'
<1>0. /\ dialog \in Dialogs /\ confirm \in Confirmations /\ calls \in SUBSET ListCalls /\ list \in Contents
      /\ dialog.shows => dialog.open
      /\ \A c \in calls : (c.op = "create" => c.row = 0) /\ (c.op = "set" => board \in {"members", "inbox"})
      /\ \A c \in calls : c.op \in {"create", "update", "set", "delete"}
  BY DEF ListsSound, ListsTyped, SentFromBoard, ListCalls
<1>1. PICK c \in calls :
        /\ board = "webhooks" /\ c.op # "delete" /\ Finish(c) /\ busy' = busy \ {Form(c.row)}
        /\ \/ /\ c.op = "create"
              /\ dialog' = [dialog EXCEPT !.shows = dialog.open /\ dialog.row = 0]
              /\ missed' = (missed \/ ~dialog'.shows)
              /\ UNCHANGED <<fetch, crossed>>
           \/ /\ dialog' = IF Form(dialog.row) = Form(c.row) THEN NoForm ELSE dialog
              /\ Ask(IF c.op = "create" THEN "closecreate" ELSE "closeedit") /\ UNCHANGED missed
        /\ UNCHANGED <<board, rows, list, confirm, forms, sends, yield, born, breaks>>
  BY DEF WebhookSaved
<1>2. c.op \in {"create", "update"} /\ calls' = calls \ {c}
  BY <1>0, <1>1 DEF Finish
<1>3. "create" \in busy => "create" \in busy' \/ \E d \in calls \ calls' : FormCall(d)
  BY <1>1, <1>2 DEF FormCall
<1>4. CASE /\ c.op = "create" /\ dialog' = [dialog EXCEPT !.shows = dialog.open /\ dialog.row = 0]
           /\ missed' = (missed \/ ~dialog'.shows) /\ UNCHANGED <<fetch, crossed>>
  <2> DEFINE b == dialog.open /\ dialog.row = 0
  <2>1. b \in BOOLEAN /\ dialog' = [dialog EXCEPT !.shows = b]
    BY <1>4
  <2>2. dialog' \in Dialogs /\ dialog'.open = dialog.open /\ dialog'.row = dialog.row /\ dialog'.shows = b
    <3> HIDE DEF b
    <3> QED
      BY <1>0, <2>1, DialogShows
  <2>3. CASE missed'
    <3>1. ListsTyped'
      BY <1>0, <1>1, <1>2, <1>4, <2>2 DEF ListsSound, ListsTyped
    <3> QED
      BY <2>3, <3>1 DEF ListsSound
  <2>4. CASE ~missed'
    <3>1. dialog'.shows /\ ListAccounted' /\ ~Slot'
      BY <1>1, <1>4, <2>4 DEF ListAccounted, Covered, Slot
    <3>2. (dialog'.open => dialog.open) /\ (dialog'.shows => dialog'.open)
      BY <2>2
    <3> HIDE DEF b
    <3> QED
      BY <1>0, <1>1, <1>2, <1>3, <1>4, <2>2, <2>4, <3>1, <3>2, SilenceIsSound
  <2> QED
    BY <2>3, <2>4
<1>5. CASE /\ dialog' = IF Form(dialog.row) = Form(c.row) THEN NoForm ELSE dialog
           /\ Ask(IF c.op = "create" THEN "closecreate" ELSE "closeedit") /\ UNCHANGED missed
  <2>1. PICK then \in {"closecreate", "closeedit"} : Ask(then)
    BY <1>5
  <2>2. Slot' => Slot /\ \A d \in calls \ calls' : d.op # "create" \/ d.at = "sent"
    <3> SUFFICES ASSUME Slot' PROVE Slot /\ c.op # "create"
      BY <1>2
    <3>1. dialog' = dialog /\ Form(dialog.row) # Form(c.row)
      BY <1>5, DialogFields DEF Slot
    <3> QED
      BY <1>0, <3>1 DEF Slot
  <2>3. dialog' \in Dialogs /\ (dialog'.open => dialog.open) /\ (dialog'.shows => dialog'.open)
    BY <1>0, <1>5, DialogFields
  <2> QED
    BY <1>0, <1>1, <1>2, <1>3, <1>5, <2>1, <2>2, <2>3, RefetchIsSound
<1> QED
  BY <1>1, <1>4, <1>5

LEMMA ShortcutAnswers == ASSUME ListsSound, ~missed, ShortcutSaved PROVE ListsSound'
<1>0. /\ dialog \in Dialogs /\ confirm \in Confirmations /\ calls \in SUBSET ListCalls /\ fetch \in SUBSET ListFetches
      /\ dialog.shows => dialog.open
      /\ \A c \in calls : c.op = "set" => board \in {"members", "inbox"}
      /\ \A c \in calls : c.op \in {"create", "update", "set", "delete"}
      /\ OneFetch /\ BusyAccounted /\ YieldAccounted /\ SentFromBoard /\ RowsKnown
  BY DEF ListsSound, ListsTyped, SentFromBoard, ListCalls
<1>1. PICK c \in calls : /\ board = "shortcuts" /\ c.op # "delete" /\ calls' = calls \ {c} /\ Ask("clear")
                         /\ UNCHANGED <<board, rows, list, dialog, busy, confirm, forms, sends, yield, born, breaks, missed>>
  BY DEF ShortcutSaved, Finish
<1>2. FormCall(c)
  BY <1>0, <1>1 DEF FormCall, Form
<1>3. /\ fetch' \in SUBSET ListFetches /\ OneFetch' /\ ListAccounted'
      /\ \E f \in fetch' : f.then = "clear"
  BY <1>0, <1>1, AskIsSound
<1>4. "create" \in busy' /\ (\A f \in fetch : f.then # "clear") /\ \A d \in calls' : ~FormCall(d)
  BY <1>0, <1>1, <1>2 DEF BusyAccounted
<1>5. fetch' = fetch \cup {Asked("clear")}
  BY <1>1 DEF Ask, Queried
<1>6. BusyAccounted'
  <2>0. \A d : FormCall(d)' <=> FormCall(d)
    BY <1>1 DEF FormCall, Form
  <2>1. (\A d \in calls : FormCall(d) => "create" \in busy)' /\ (\A d, e \in calls : FormCall(d) /\ FormCall(e) => d = e)'
    BY <1>4, <2>0
  <2>2. (\A f \in fetch : f.then = "clear" =>
           board = "shortcuts" /\ "create" \in busy /\ \A d \in calls : ~FormCall(d))'
    BY <1>1, <1>4, <2>0
  <2>3. (\A f, g \in fetch : f.then = "clear" /\ g.then = "clear" => f = g)'
    BY <1>4, <1>5
  <2> QED
    BY <2>1, <2>2, <2>3 DEF BusyAccounted
<1>7. YieldAccounted'
  BY <1>0, <1>1, <1>3 DEF YieldAccounted, Used
<1>8. SentFromBoard' /\ RowsKnown'
  BY <1>0, <1>1, FewerCalls
<1>9. ListsTyped'
  BY <1>1, <1>3 DEF ListsSound, ListsTyped
<1> QED
  BY <1>3, <1>6, <1>7, <1>8, <1>9 DEF ListsSound

LEMMA RowIsRemoved == ASSUME ListsSound, ~missed, RowRemoved PROVE ListsSound'
<1>0. /\ dialog \in Dialogs /\ calls \in SUBSET ListCalls /\ list \in Contents
      /\ dialog.shows => dialog.open
      /\ \A c \in calls : IF c.op = "create" THEN c.row = 0 /\ c.from \in 1 .. forms ELSE c.row \in Rows
      /\ ListAccounted /\ RowsKnown
  BY DEF ListsSound, ListsTyped, SentFromBoard
<1>1. PICK c \in calls :
        /\ board \in {"tokens", "webhooks"} /\ c.op = "delete" /\ c.at = "done" /\ calls' = calls \ {c}
        /\ list' = [list EXCEPT ![c.row] = 0] /\ crossed' = (crossed \/ fetch # {}) /\ confirm' = NoConfirm
        /\ UNCHANGED <<board, rows, fetch, dialog, busy, forms, sends, yield, born, breaks, missed>>
  BY DEF RowRemoved, Finish
<1>2. c.row \in Rows /\ rows[c.row] = 0
  BY <1>0, <1>1 DEF RowsKnown
<1>3. list' \in Contents /\ list'[c.row] = 0 /\ \A r \in Rows \ {c.row} : list'[r] = list[r]
  BY <1>0, <1>1, <1>2 DEF Contents
<1>4. ListAccounted'
  <2>1. CASE crossed \/ fetch # {}
    BY <1>1, <2>1 DEF ListAccounted
  <2>2. CASE Covered
    <3>1. Covered'
      <4>1. CASE \E d \in calls : d.at = "done" /\ Relisted(d)
        BY <1>1, <4>1 DEF Covered, Relisted
      <4> QED
        BY <1>1, <2>2, <4>1 DEF Covered
    <3> QED
      BY <3>1 DEF ListAccounted
  <2>3. CASE fetch = {} /\ \A r \in Rows : RowAccounted(r)
    <3>1. ASSUME NEW r \in Rows PROVE RowAccounted(r)'
      <4>1. CASE r = c.row
        BY <1>1, <1>2, <1>3, <2>3, <4>1 DEF RowAccounted
      <4>2. CASE r # c.row
        BY <1>1, <1>3, <2>3, <4>2 DEF RowAccounted
      <4> QED
        BY <4>1, <4>2
    <3> QED
      BY <3>1 DEF ListAccounted
  <2> QED
    BY <1>0, <1>1, <2>1, <2>2, <2>3 DEF ListAccounted
<1>5. confirm' \in Confirmations /\ confirm'.row = 0
  BY <1>1, DialogFields
<1>6. Slot' => Slot /\ \A d \in calls \ calls' : d.op # "create" \/ d.at = "sent"
  BY <1>1 DEF Slot
<1>7. dialog' \in Dialogs /\ (dialog'.open => dialog.open) /\ (dialog'.shows => dialog'.open)
  BY <1>0, <1>1
<1> QED
  BY <1>1, <1>3, <1>4, <1>5, <1>6, <1>7, SilenceIsSound

LEMMA DeletionAnswers == ASSUME ListsSound, ~missed, RowDeleted \/ NotificationChanged PROVE ListsSound'
<1>0. /\ dialog \in Dialogs /\ confirm \in Confirmations /\ list \in Contents /\ (dialog.shows => dialog.open)
      /\ dialog.open => board \notin {"inbox", "none"}
  BY DEF ListsSound, ListsTyped, SentFromBoard
<1>1. CASE RowDeleted
  <2>1. PICK c \in calls :
          /\ board \in {"providers", "shortcuts", "identities"} /\ c.op = "delete" /\ calls' = calls \ {c}
          /\ Ask(IF board = "identities" THEN "nothing" ELSE "confirmed")
          /\ UNCHANGED <<board, rows, list, dialog, busy, confirm, forms, sends, yield, born, breaks, missed>>
    BY <1>1 DEF RowDeleted, Finish
  <2>2. PICK then \in {"nothing", "confirmed"} : Ask(then)
    BY <2>1
  <2>3. Slot' => Slot /\ \A d \in calls \ calls' : d.op # "create" \/ d.at = "sent"
    BY <2>1 DEF Slot
  <2> QED
    BY <1>0, <2>1, <2>2, <2>3, RefetchIsSound
<1>2. CASE NotificationChanged
  <2>1. PICK c \in calls :
          /\ board = "inbox" /\ calls' = calls \ {c}
          /\ UNCHANGED <<board, rows, list, fetch, dialog, busy, confirm, forms, sends, yield, born, breaks, crossed, missed>>
    BY <1>2 DEF NotificationChanged, Finish
  <2>3. ~Slot'
    BY <1>0, <2>1 DEF Slot
  <2>4. ListAccounted'
    BY <2>1 DEF ListAccounted
  <2> QED
    BY <1>0, <2>1, <2>3, <2>4, SilenceIsSound
<1> QED
  BY <1>1, <1>2

LEMMA FailureIsSound == ASSUME ListsSound, ~missed, ChangeFails PROVE ListsSound'
<1>0. /\ dialog \in Dialogs /\ confirm \in Confirmations /\ calls \in SUBSET ListCalls /\ list \in Contents
      /\ fetch \in SUBSET ListFetches /\ OneFetch /\ ListAccounted
      /\ dialog.shows => dialog.open
      /\ board = "none" => calls = {}
      /\ \A c \in calls : c.at \in {"sent", "done"} /\ c.op \in {"create", "update", "set", "delete"}
  BY DEF ListsSound, ListsTyped, SentFromBoard, ListCalls
<1>1. PICK c \in calls :
        /\ calls' = calls \ {c}
        /\ missed' = (missed \/ c.at = "done" \/ (c.op # "create" /\ rows[c.row] = 0))
        /\ busy' = (IF c.op \in {"delete", "set"} THEN busy ELSE busy \ {Form(c.row)})
        /\ IF board = "providers" /\ c.op = "delete" THEN Ask("confirmed") ELSE UNCHANGED <<fetch, crossed>>
        /\ confirm' = IF confirm.row # c.row \/ board = "providers" THEN confirm
                      ELSE IF board \in {"tokens", "webhooks"} THEN [confirm EXCEPT !.busy = FALSE]
                      ELSE NoConfirm
        /\ UNCHANGED <<board, rows, list, dialog, forms, sends, yield, born>>
  BY DEF ChangeFails
<1>2. confirm' \in Confirmations /\ (confirm'.row # 0 => confirm'.row = confirm.row /\ confirm'.op = confirm.op)
  <2> DEFINE s == [confirm EXCEPT !.busy = FALSE]
  <2>1. s \in Confirmations /\ s.row = confirm.row /\ s.op = confirm.op
    BY <1>0, ConfirmIsSet
  <2>2. confirm' \in {confirm, s, NoConfirm}
    BY <1>1
  <2> HIDE DEF s
  <2> QED
    BY <1>0, <2>1, <2>2, DialogFields
<1>3. CASE missed'
  <2>1. fetch' \in SUBSET ListFetches
    BY <1>0, <1>1, AskIsSound
  <2>2. ListsTyped'
    BY <1>1, <1>2, <2>1 DEF ListsSound, ListsTyped
  <2> QED
    BY <1>3, <2>2 DEF ListsSound
<1>4. CASE ~missed'
  <2>1. board # "none" /\ c.at = "sent"
    BY <1>0, <1>1, <1>4
  <2>2. "create" \in busy => "create" \in busy' \/ \E d \in calls \ calls' : FormCall(d)
    BY <1>0, <1>1 DEF FormCall
  <2>3. Slot' => Slot /\ \A d \in calls \ calls' : d.op # "create" \/ d.at = "sent"
    BY <1>1, <2>1 DEF Slot
  <2>4. CASE board = "providers" /\ c.op = "delete"
    <3>1. Ask("confirmed")
      BY <1>1, <2>4
    <3> QED
      BY <1>0, <1>1, <1>2, <1>4, <2>1, <2>2, <2>3, <3>1, RefetchIsSound
  <2>5. CASE ~(board = "providers" /\ c.op = "delete")
    <3>1. UNCHANGED <<fetch, crossed>>
      BY <1>1, <2>5
    <3>2. ListAccounted'
      BY <1>0, <1>1, <2>1, <3>1, SameList
    <3> QED
      BY <1>0, <1>1, <1>2, <1>4, <2>1, <2>2, <2>3, <3>1, <3>2, SilenceIsSound
  <2> QED
    BY <2>4, <2>5
<1> QED
  BY <1>3, <1>4

-----------------------------------------------------------------------------

\* A board is opened.
LEMMA OpeningIsSound ==
    ASSUME ListsSound, ~missed, OpenShortcuts \/ \E b \in Boards : Opens(b)
    PROVE  ListsSound'
<1>0. /\ board = "none" => calls = {} /\ fetch = {} /\ confirm.row = 0 /\ ~dialog.open
      /\ dialog.shows => dialog.open
      /\ RowsKnown /\ YieldAccounted /\ ListsTyped
  BY DEF ListsSound, SentFromBoard
<1>1. ASSUME board = "none", board' \in Boards, ListAccounted', OneFetch', list' \in Contents,
             fetch' \in SUBSET ListFetches, \A f \in fetch' : f.then # "clear",
             UNCHANGED <<rows, dialog, busy, confirm, calls, forms, sends, yield, born, breaks, crossed, missed>>
      PROVE  ListsSound'
  <2>1. ListsTyped'
    BY <1>0, <1>1 DEF ListsTyped
  <2>2. RowsKnown' /\ SentFromBoard'
    BY <1>0, <1>1 DEF RowsKnown, SentFromBoard, Boards
  <2>3. BusyAccounted'
    BY <1>0, <1>1 DEF BusyAccounted
  <2>4. YieldAccounted'
    BY <1>0, <1>1 DEF YieldAccounted, Slot
  <2> QED
    BY <1>1, <2>1, <2>2, <2>3, <2>4 DEF ListsSound
<1>2. CASE OpenShortcuts
  <2>1. /\ board = "none" /\ board' = "shortcuts" /\ list' = rows /\ fetch' = {} /\ rows \in Contents
        /\ UNCHANGED <<rows, dialog, busy, confirm, calls, forms, sends, yield, born, breaks, crossed, missed>>
    BY <1>0, <1>2 DEF OpenShortcuts, ListsTyped
  <2>2. OneFetch' /\ ListAccounted'
    BY <2>1 DEF OneFetch, ListAccounted, RowAccounted
  <2> QED
    BY <1>1, <2>1, <2>2 DEF Boards
<1>3. ASSUME NEW b \in Boards, Opens(b) PROVE ListsSound'
  <2>1. /\ board = "none" /\ board' = b /\ fetch' = {Asked("nothing")} /\ list \in Contents
        /\ UNCHANGED <<rows, list, dialog, busy, confirm, calls, forms, sends, yield, born, breaks, crossed, missed>>
    BY <1>0, <1>3 DEF Opens, ListsTyped
  <2>2. Asked("nothing") \in ListFetches /\ Asked("nothing").at = "asked" /\ Asked("nothing").then = "nothing"
    BY AskedFields
  <2>3. OneFetch' /\ Covered'
    BY <2>1, <2>2 DEF OneFetch, Covered
  <2>4. ListAccounted'
    BY <2>3 DEF ListAccounted
  <2> QED
    BY <1>1, <2>1, <2>2, <2>3, <2>4
<1> QED
  BY <1>2, <1>3

\* The query is fetched again when the window has the focus.
LEMMA FocusIsSound == ASSUME ListsSound, ~missed, FocusBack PROVE ListsSound'
<1>1. /\ board \in Queried /\ fetch = {} /\ fetch' = {Asked("nothing")}
      /\ UNCHANGED <<board, rows, list, dialog, busy, confirm, calls, forms, sends, yield, born, breaks, crossed, missed>>
  BY DEF FocusBack
<1>2. Asked("nothing") \in ListFetches /\ Asked("nothing").at = "asked" /\ Asked("nothing").then = "nothing"
  BY AskedFields
<1>3. OneFetch' /\ Covered'
  BY <1>1, <1>2 DEF OneFetch, Covered
<1>4. BusyAccounted'
  BY <1>1, <1>2, BusyIsAnswered DEF ListsSound
<1>5. YieldAccounted'
  BY <1>1, <1>2, YieldIsAnswered DEF ListsSound, Slot
<1>6. RowsKnown' /\ SentFromBoard' /\ ListAccounted'
  BY <1>1, <1>3 DEF ListsSound, RowsKnown, SentFromBoard, Queried, ListAccounted
<1>7. ListsTyped'
  BY <1>1, <1>2 DEF ListsSound, ListsTyped
<1> QED
  BY <1>3, <1>4, <1>5, <1>6, <1>7 DEF ListsSound

\* The server has read the rows.
LEMMA FetchIsRead ==
    ASSUME NEW f \in ListFetches, NEW g, rows \in Contents, g = [f EXCEPT !.at = "answered", !.got = rows]
    PROVE  g \in ListFetches /\ g.at = "answered" /\ g.got = rows /\ g.then = f.then
BY DEF ListFetches

LEMMA ListAnsweredIsSound == ASSUME ListsSound, ~missed, ListAnswered PROVE ListsSound'
<1>0. /\ rows \in Contents /\ fetch \in SUBSET ListFetches
      /\ RowsKnown /\ SentFromBoard /\ OneFetch /\ ListAccounted /\ BusyAccounted /\ YieldAccounted
  BY DEF ListsSound, ListsTyped
<1>1. PICK f \in fetch : f.at = "asked" /\ fetch' = (fetch \ {f}) \cup {[f EXCEPT !.at = "answered", !.got = rows]}
  BY DEF ListAnswered
<1> DEFINE g == [f EXCEPT !.at = "answered", !.got = rows]
<1>2. fetch' = (fetch \ {f}) \cup {g} /\ g \in ListFetches /\ g.at = "answered" /\ g.got = rows /\ g.then = f.then
  <2>1. g \in ListFetches /\ g.at = "answered" /\ g.got = rows /\ g.then = f.then
    BY <1>0, FetchIsRead
  <2> QED
    BY <1>1, <2>1
<1> HIDE DEF g
<1>3. UNCHANGED <<board, rows, list, dialog, busy, confirm, calls, forms, sends, yield, born, breaks, crossed, missed>>
  BY DEF ListAnswered
<1>4. OneFetch'
  BY <1>0, <1>1, <1>2, <1>3 DEF OneFetch
<1>5. ListAccounted'
  <2>1. CASE crossed
    BY <1>3, <2>1 DEF ListAccounted
  <2>2. CASE ~crossed
    <3>1. fetch' = {g}
      BY <1>0, <1>1, <1>2, <2>2 DEF OneFetch
    <3>2. \A r \in Rows : RowAccounted(r)'
      BY <1>2, <1>3, <3>1 DEF RowAccounted
    <3> QED
      BY <3>2 DEF ListAccounted
  <2> QED
    BY <2>1, <2>2
<1>6. BusyAccounted'
  <2>0. \A d : FormCall(d)' <=> FormCall(d)
    BY <1>3 DEF FormCall, Form
  <2>1. (\A c \in calls : FormCall(c) => "create" \in busy)' /\ (\A c, d \in calls : FormCall(c) /\ FormCall(d) => c = d)'
    BY <1>0, <1>3, <2>0 DEF BusyAccounted
  <2>2. (\A h \in fetch : h.then = "clear" =>
           board = "shortcuts" /\ "create" \in busy /\ \A c \in calls : ~FormCall(c))'
    BY <1>0, <1>1, <1>2, <1>3, <2>0 DEF BusyAccounted
  <2>3. (\A h, k \in fetch : h.then = "clear" /\ k.then = "clear" => h = k)'
    BY <1>0, <1>1, <1>2 DEF BusyAccounted
  <2> QED
    BY <2>1, <2>2, <2>3 DEF BusyAccounted
<1>7. YieldAccounted'
  <2>1. Used => Used'
    BY <1>2, <1>3 DEF Used
  <2> QED
    BY <1>0, <1>3, <2>1 DEF YieldAccounted, Slot
<1>8. RowsKnown' /\ SentFromBoard'
  BY <1>0, <1>1, <1>3 DEF RowsKnown, SentFromBoard
<1>9. ListsTyped'
  BY <1>0, <1>2, <1>3 DEF ListsSound, ListsTyped
<1> QED
  BY <1>4, <1>5, <1>6, <1>7, <1>8, <1>9 DEF ListsSound

\* The list shows what the fetch has got, and what awaited it goes on.
LEMMA ArrivalIsSound == ASSUME ListsSound, ~missed, ListArrives PROVE ListsSound'
<1>0. /\ rows \in Contents /\ fetch \in SUBSET ListFetches /\ dialog \in Dialogs /\ confirm \in Confirmations
      /\ dialog.shows => dialog.open
      /\ RowsKnown /\ SentFromBoard /\ OneFetch /\ ListAccounted /\ BusyAccounted /\ YieldAccounted
  BY DEF ListsSound, ListsTyped, SentFromBoard
<1>1. PICK f \in fetch :
        /\ f.at = "answered" /\ fetch' = fetch \ {f} /\ list' = f.got /\ Follow(f.then)
        /\ missed' = (missed \/ (dialog.shows /\ ~dialog'.open))
        /\ UNCHANGED <<board, rows, calls, forms, sends, yield, born, breaks, crossed>>
  BY DEF ListArrives
<1>2. /\ dialog' \in {dialog, NoForm} /\ confirm' \in {confirm, NoConfirm}
      /\ f.then = "clear" => dialog' = NoForm
      /\ f.then # "clear" => busy' = busy
  BY <1>1 DEF Follow
<1>3. f \in ListFetches /\ f.got \in Contents
  <2>1. f \in ListFetches
    BY <1>0
  <2> QED
    BY <2>1 DEF ListFetches
<1>4. dialog' \in Dialogs /\ confirm' \in Confirmations
  BY <1>0, <1>2, DialogFields
<1>5. ListsTyped'
  BY <1>0, <1>1, <1>3, <1>4 DEF ListsSound, ListsTyped
<1>6. CASE ~missed'
  <2>1. ListAccounted'
    <3>1. CASE crossed \/ board \in {"none", "inbox"}
      BY <1>1, <3>1 DEF ListAccounted
    <3>2. CASE ~crossed /\ ~Covered /\ \A r \in Rows : RowAccounted(r)
      <4>1. fetch' = {}
        BY <1>0, <1>1, <3>2 DEF OneFetch
      <4>2. \A r \in Rows : RowAccounted(r)'
        BY <1>1, <3>2, <4>1 DEF RowAccounted
      <4> QED
        BY <4>2 DEF ListAccounted
    <3>3. CASE Covered
      <4>1. CASE \E g \in fetch : g.at = "asked"
        BY <1>1, <4>1 DEF ListAccounted, Covered
      <4>2. CASE \E c \in calls : c.at = "done" /\ Relisted(c)
        BY <1>1, <4>2 DEF ListAccounted, Covered, Relisted
      <4>3. CASE board = "webhooks" /\ dialog.shows
        <5>1. dialog' = dialog
          BY <1>1, <1>2, <1>6, <4>3, DialogFields
        <5> QED
          BY <1>1, <4>3, <5>1 DEF ListAccounted, Covered
      <4> QED
        BY <3>3, <4>1, <4>2, <4>3 DEF Covered
    <3> QED
      BY <1>0, <3>1, <3>2, <3>3 DEF ListAccounted
  <2>2. BusyAccounted'
    <3>1. CASE f.then = "clear"
      <4>0. \A d : FormCall(d)' <=> FormCall(d)
        BY <1>1 DEF FormCall, Form
      <4>1. (\A d \in calls : ~FormCall(d)) /\ \A g \in fetch' : g.then # "clear"
        BY <1>0, <1>1, <3>1 DEF BusyAccounted
      <4> QED
        BY <1>1, <4>0, <4>1 DEF BusyAccounted
    <3>2. CASE f.then # "clear"
      BY <1>0, <1>1, <1>2, <3>2, BusyIsAnswered
    <3> QED
      BY <3>1, <3>2
  <2>3. YieldAccounted'
    <3>1. CASE f.then = "clear"
      <4>1. ~Slot'
        BY <1>2, <3>1, DialogFields DEF Slot
      <4> QED
        BY <1>0, <1>1, <4>1 DEF YieldAccounted
    <3>2. CASE f.then # "clear"
      <4>1. Slot' => Slot
        BY <1>2, DialogFields DEF Slot
      <4>2. \A g \in fetch : g.then = "clear" => g \in fetch'
        BY <1>1, <3>2
      <4> QED
        BY <1>0, <1>1, <4>1, <4>2, YieldIsAnswered
    <3> QED
      BY <3>1, <3>2
  <2>4. OneFetch'
    BY <1>0, <1>1 DEF OneFetch
  <2>5. RowsKnown' /\ SentFromBoard'
    <3>1. board # "none"
      BY <1>0, <1>1 DEF SentFromBoard
    <3>2. (dialog'.open => dialog.open) /\ (dialog'.shows => dialog'.open)
      BY <1>0, <1>2, DialogFields
    <3>3. confirm'.row # 0 => confirm'.row = confirm.row /\ confirm'.op = confirm.op
      BY <1>2, DialogFields
    <3> QED
      BY <1>0, <1>1, <3>1, <3>2, <3>3, FewerCalls
  <2> QED
    BY <1>5, <2>1, <2>2, <2>3, <2>4, <2>5 DEF ListsSound
<1> QED
  BY <1>5, <1>6 DEF ListsSound

LEMMA LostFetchIsSound == ASSUME ListsSound, ~missed, ListFails PROVE ListsSound'
<1>0. fetch \in SUBSET ListFetches /\ dialog \in Dialogs /\ confirm \in Confirmations
  BY DEF ListsSound, ListsTyped
<1>1. /\ missed' = TRUE /\ fetch' \subseteq fetch /\ dialog' \in {dialog, NoForm} /\ confirm' \in {confirm, NoConfirm}
      /\ UNCHANGED <<board, rows, list, calls, forms, sends, yield, crossed, born>>
  BY DEF ListFails
<1>2. dialog' \in Dialogs /\ confirm' \in Confirmations
  BY <1>0, <1>1, DialogFields
<1>3. ListsTyped'
  BY <1>0, <1>1, <1>2 DEF ListsSound, ListsTyped
<1> QED
  BY <1>1, <1>3 DEF ListsSound

\* A change is sent: by a form that was not busy, for a row that it has not made, or for a row of the list.
LEMMA SendingIsSound ==
    ASSUME ListsSound, ~missed, ~missed', NEW c \in ListCalls, c.at = "sent", calls' = calls \cup {c},
           UNCHANGED <<board, rows, list, fetch, dialog, forms, yield, born, crossed>>,
           confirm' \in Confirmations, confirm'.row # 0 => confirm'.row = confirm.row /\ confirm'.op = confirm.op,
           board # "none", IF c.op = "create" THEN c.row = 0 /\ c.from = forms ELSE c.row \in Rows,
           c.op = "set" => board \in {"members", "inbox"},
           "create" \in busy => "create" \in busy',
           FormCall(c) => "create" \notin busy /\ "create" \in busy',
           c.op = "create" => Slot
    PROVE  ListsSound'
<1>0. /\ calls \in SUBSET ListCalls /\ forms \in 0 .. MaxForms /\ MaxForms \in Nat
      /\ RowsKnown /\ SentFromBoard /\ OneFetch /\ ListAccounted /\ BusyAccounted /\ YieldAccounted
  BY WebListsConstants DEF ListsSound, ListsTyped
<1>1. c.op = "create" => FormCall(c) /\ forms > 0
  BY <1>0 DEF FormCall, Form, Slot, SentFromBoard
<1>2. FormCall(c) => (\A d \in calls : ~FormCall(d)) /\ \A f \in fetch : f.then # "clear"
  BY <1>0 DEF BusyAccounted
<1>3. c.op = "create" => yield[forms] = 0
  <2> SUFFICES ASSUME c.op = "create" PROVE yield[forms] = 0
    OBVIOUS
  <2>1. \A d \in calls : d.op # "create"
    <3> SUFFICES ASSUME NEW d \in calls, d.op = "create" PROVE FALSE
      OBVIOUS
    <3>1. d.row = 0
      BY <1>0 DEF SentFromBoard
    <3> QED
      BY <1>1, <1>2, <3>1 DEF FormCall, Form
  <2> QED
    BY <1>0, <1>1, <1>2, <2>1 DEF YieldAccounted, Used
<1>4. BusyAccounted'
  <2>0. \A d : FormCall(d)' <=> FormCall(d)
    BY DEF FormCall, Form
  <2>1. (\A d \in calls : FormCall(d) => "create" \in busy)'
    BY <1>0, <2>0 DEF BusyAccounted
  <2>2. (\A d, e \in calls : FormCall(d) /\ FormCall(e) => d = e)'
    BY <1>0, <1>2, <2>0 DEF BusyAccounted
  <2>3. (\A f \in fetch : f.then = "clear" =>
           board = "shortcuts" /\ "create" \in busy /\ \A d \in calls : ~FormCall(d))'
    BY <1>0, <1>2, <2>0 DEF BusyAccounted
  <2>4. (\A f, g \in fetch : f.then = "clear" /\ g.then = "clear" => f = g)'
    BY <1>0 DEF BusyAccounted
  <2> QED
    BY <2>1, <2>2, <2>3, <2>4 DEF BusyAccounted
<1>5. YieldAccounted'
  <2>1. (\A d \in calls : d.op = "create" /\ d.at = "sent" => yield[d.from] = 0)'
    BY <1>0, <1>3 DEF YieldAccounted
  <2>2. (Slot /\ yield[forms] # 0 => Used)'
    BY <1>0 DEF YieldAccounted, Slot, Used
  <2>3. (\A n \in 1 .. MaxForms : yield[n] <= 1 /\ (n > forms => yield[n] = 0))'
    BY <1>0 DEF YieldAccounted
  <2> QED
    BY <2>1, <2>2, <2>3 DEF YieldAccounted
<1>6. ListAccounted'
  BY <1>0, SameList
<1>7. RowsKnown' /\ OneFetch'
  BY <1>0 DEF RowsKnown, OneFetch
<1>8. SentFromBoard'
  BY <1>0, <1>1 DEF SentFromBoard
<1>9. ListsTyped'
  BY DEF ListsSound, ListsTyped
<1> QED
  BY <1>4, <1>5, <1>6, <1>7, <1>8, <1>9 DEF ListsSound

LEMMA CallIsNew ==
    ASSUME NEW op \in {"create", "update", "set", "delete"}, NEW r \in Rows \cup {0}, NEW t \in Nat, forms \in 0 .. MaxForms,
           Send(op, r, t)
    PROVE  \E c \in ListCalls : /\ c.op = op /\ c.row = r /\ c.from = forms /\ c.at = "sent"
                                /\ calls' = calls \cup {c}
<1> DEFINE c == [op |-> op, row |-> r, text |-> t, from |-> forms, at |-> "sent"]
<1>1. c \in ListCalls /\ c.op = op /\ c.row = r /\ c.from = forms /\ c.at = "sent"
  BY DEF ListCalls
<1>2. calls' = calls \cup {c}
  BY DEF Send
<1> HIDE DEF c
<1> QED
  BY <1>1, <1>2

LEMMA ChangeIsSent ==
    ASSUME ListsSound, ~missed,
           \/ \E b \in Boards : Confirms(b)
           \/ ConfirmDelete
           \/ \E b \in Boards : Sends(b, "delete")
           \/ \E b \in {"members", "inbox"} : Sends(b, "set")
    PROVE  ListsSound'
<1>0. /\ dialog \in Dialogs /\ confirm \in Confirmations /\ forms \in 0 .. MaxForms /\ list \in Contents
      /\ MaxForms + 2 \in Nat /\ "none" \notin Boards
      /\ board = "none" => confirm.row = 0
      /\ confirm.row # 0 /\ confirm.op = "set" => board = "members"
  BY WebListsConstants DEF ListsSound, ListsTyped, SentFromBoard, Boards
<1>1. ASSUME NEW b \in Boards, Confirms(b) PROVE ListsSound'
  <2>1. /\ board = b /\ Enabled /\ busy' = busy \cup {Form(dialog.row)}
        /\ UNCHANGED <<board, rows, list, fetch, dialog, confirm, forms, yield, born, breaks, crossed, missed>>
    BY <1>1 DEF Confirms
  <2>2. dialog.row \in Rows \cup {0} /\ dialog.text \in Nat
    BY <1>0, DialogFields
  <2> DEFINE op == IF dialog.row = 0 THEN "create" ELSE "update"
  <2>3. Send(op, dialog.row, dialog.text) /\ op \in {"create", "update", "set", "delete"}
    BY <1>1 DEF Confirms
  <2>4. PICK c \in ListCalls : /\ c.op = op /\ c.row = dialog.row /\ c.from = forms /\ c.at = "sent"
                               /\ calls' = calls \cup {c}
    <3> HIDE DEF op
    <3> QED
      BY <1>0, <2>2, <2>3, CallIsNew
  <2>5. (IF c.op = "create" THEN c.row = 0 /\ c.from = forms ELSE c.row \in Rows) /\ c.op # "set"
    BY <2>2, <2>4
  <2>6. FormCall(c) => "create" \notin busy /\ "create" \in busy'
    BY <2>1, <2>4 DEF FormCall, Enabled
  <2>7. c.op = "create" => Slot
    BY <2>1, <2>4 DEF Slot, Enabled
  <2>8. "create" \in busy => "create" \in busy'
    BY <2>1
  <2> HIDE DEF op
  <2> QED
    BY <1>0, <2>1, <2>4, <2>5, <2>6, <2>7, <2>8, SendingIsSound
<1>2. ASSUME NEW op \in {"set", "delete"}, NEW r \in Rows, NEW t \in Nat, Send(op, r, t),
             board # "none", op = "set" => board \in {"members", "inbox"}, confirm' \in Confirmations,
             confirm'.row # 0 => confirm'.row = confirm.row /\ confirm'.op = confirm.op,
             UNCHANGED <<board, rows, list, fetch, dialog, busy, forms, yield, born, breaks, crossed, missed>>
      PROVE  ListsSound'
  <2>1. PICK c \in ListCalls : c.op = op /\ c.row = r /\ c.from = forms /\ c.at = "sent" /\ calls' = calls \cup {c}
    BY <1>0, <1>2, CallIsNew
  <2>2. ~FormCall(c) /\ c.op # "create"
    BY <1>2, <2>1 DEF FormCall
  <2> QED
    BY <1>2, <2>1, <2>2, SendingIsSound
<1>3. CASE ConfirmDelete
  <2> DEFINE t == IF confirm.op = "set" THEN MaxForms + 2 ELSE 0
             s == [confirm EXCEPT !.busy = TRUE]
  <2>1. /\ confirm.row # 0 /\ Send(confirm.op, confirm.row, t) /\ confirm' \in {NoConfirm, s}
        /\ UNCHANGED <<board, rows, list, fetch, dialog, busy, forms, yield, born, breaks, crossed, missed>>
    BY <1>3 DEF ConfirmDelete, Modal
  <2>2. t \in Nat /\ confirm.op \in {"set", "delete"} /\ confirm.row \in Rows
    BY <1>0, <2>1, DialogFields
  <2>3. s \in Confirmations /\ s.row = confirm.row /\ s.op = confirm.op
    BY <1>0, ConfirmIsSet
  <2> HIDE DEF s, t
  <2>4. confirm' \in Confirmations /\ (confirm'.row # 0 => confirm'.row = confirm.row /\ confirm'.op = confirm.op)
    BY <2>1, <2>3, DialogFields
  <2> QED
    BY <1>0, <1>2, <2>1, <2>2, <2>4
<1>4. ASSUME NEW b \in Boards, NEW op \in {"set", "delete"}, op = "set" => b \in {"members", "inbox"}, Sends(b, op)
      PROVE  ListsSound'
  <2>1. PICK r \in Rows : Send(op, r, MaxForms + 2)
    BY <1>4 DEF Sends
  <2>2. /\ board = b
        /\ UNCHANGED <<board, rows, list, fetch, dialog, busy, confirm, forms, yield, born, breaks, crossed, missed>>
    BY <1>4 DEF Sends
  <2> QED
    BY <1>0, <1>2, <1>4, <2>1, <2>2
<1> QED
  BY <1>1, <1>3, <1>4 DEF Boards

-----------------------------------------------------------------------------

\* The server has made, changed or deleted the row, and answers.
LEMMA CallIsDone ==
    ASSUME NEW c \in ListCalls, NEW d, d = [c EXCEPT !.at = "done"]
    PROVE  d \in ListCalls /\ d.at = "done" /\ d.op = c.op /\ d.row = c.row /\ d.from = c.from /\ d.text = c.text
BY DEF ListCalls

LEMMA ServerIsSound == ASSUME ListsSound, ~missed, ServerChanges PROVE ListsSound'
<1>0. /\ calls \in SUBSET ListCalls /\ rows \in Contents /\ forms \in 0 .. MaxForms /\ born \in 1 .. MaxRows
      /\ yield \in [1 .. MaxForms -> Nat] /\ MaxForms \in Nat /\ MaxRows \in Nat
      /\ RowsKnown /\ SentFromBoard /\ OneFetch /\ ListAccounted /\ BusyAccounted /\ YieldAccounted
  BY WebListsConstants DEF ListsSound, ListsTyped
<1>1. PICK c \in calls :
        /\ c.at = "sent"
        /\ \/ /\ c.op = "create"
              /\ born < MaxRows /\ born' = born + 1
              /\ rows' = [rows EXCEPT ![born'] = c.text]
              /\ yield' = [yield EXCEPT ![c.from] = @ + 1]
           \/ /\ c.op \in {"update", "set"} /\ rows[c.row] # 0
              /\ rows' = [rows EXCEPT ![c.row] = c.text] /\ UNCHANGED <<yield, born>>
           \/ /\ c.op = "delete" /\ rows[c.row] # 0
              /\ rows' = [rows EXCEPT ![c.row] = 0] /\ UNCHANGED <<yield, born>>
        /\ calls' = (calls \ {c}) \cup {[c EXCEPT !.at = "done"]}
        /\ UNCHANGED <<board, list, fetch, dialog, busy, confirm, forms, sends, breaks, crossed, missed>>
  BY DEF ServerChanges
<1> DEFINE d == [c EXCEPT !.at = "done"]
<1>2. /\ c \in ListCalls /\ calls' = (calls \ {c}) \cup {d}
      /\ d \in ListCalls /\ d.at = "done" /\ d.op = c.op /\ d.row = c.row /\ d.from = c.from
  BY <1>0, <1>1, CallIsDone
<1> HIDE DEF d
<1>3. c.text \in Nat /\ c.op \in {"create", "update", "set", "delete"}
  BY <1>2 DEF ListCalls
<1>4. IF c.op = "create" THEN c.row = 0 /\ c.from \in 1 .. forms ELSE c.row \in Rows
  BY <1>0, <1>1 DEF SentFromBoard
\* One row changes.
<1>5. PICK r \in Rows, v \in Nat :
        /\ rows' = [rows EXCEPT ![r] = v] /\ r <= born' /\ born <= born' /\ born' \in 1 .. MaxRows
        /\ c.op = "create" => r = born + 1
        /\ c.op # "create" => r = c.row /\ rows[r] # 0 /\ born' = born
        /\ c.op = "delete" => v = 0
  <2>1. CASE c.op = "create"
    <3>1. born' = born + 1 /\ born' \in Rows /\ rows' = [rows EXCEPT ![born'] = c.text] /\ born' \in 1 .. MaxRows
      BY <1>0, <1>1, <2>1 DEF Rows
    <3>2. born' <= born' /\ born <= born' /\ c.text \in Nat
      BY <1>0, <1>3, <3>1
    <3> QED
      BY <2>1, <3>1, <3>2
  <2>2. CASE c.op # "create"
    <3>1. c.row <= born
      BY <1>0, <1>1, <1>4, <2>2 DEF RowsKnown
    <3>2. born' = born /\ rows[c.row] # 0
      BY <1>1, <2>2
    <3>3. CASE c.op = "delete"
      BY <1>0, <1>1, <1>4, <2>2, <3>1, <3>2, <3>3
    <3>4. CASE c.op # "delete"
      BY <1>0, <1>1, <1>3, <1>4, <2>2, <3>1, <3>2, <3>4
    <3> QED
      BY <3>3, <3>4
  <2> QED
    BY <2>1, <2>2
<1>6. rows' \in Contents /\ rows'[r] = v /\ \A q \in Rows \ {r} : rows'[q] = rows[q]
  BY <1>0, <1>5 DEF Contents
<1>7. RowsKnown'
  <2>1. (\A q \in Rows : rows[q] # 0 => q <= born)'
    <3> SUFFICES ASSUME NEW q \in Rows, rows'[q] # 0 PROVE q <= born'
      OBVIOUS
    <3>1. CASE q = r
      BY <1>5, <3>1
    <3>2. CASE q # r
      <4>1. q <= born
        BY <1>0, <1>6, <3>2 DEF RowsKnown
      <4> QED
        BY <1>0, <1>5, <4>1 DEF Rows
    <3> QED
      BY <3>1, <3>2
  <2>2. ASSUME NEW e \in calls', e.op = "delete", e.at = "done" PROVE rows'[e.row] = 0 /\ e.row <= born'
    <3>1. CASE e = d
      BY <1>2, <1>5, <1>6, <2>2, <3>1
    <3>2. CASE e # d
      <4>1. e \in calls /\ e.row \in Rows
        BY <1>0, <1>2, <2>2, <3>2 DEF SentFromBoard
      <4>2. rows[e.row] = 0 /\ e.row <= born
        BY <1>0, <2>2, <4>1 DEF RowsKnown
      <4>3. e.row # r /\ e.row <= born'
        BY <1>0, <1>5, <4>1, <4>2 DEF Rows
      <4> QED
        BY <1>6, <4>1, <4>2, <4>3
    <3> QED
      BY <3>1, <3>2
  <2> QED
    BY <2>1, <2>2 DEF RowsKnown
<1>8. SentFromBoard'
  BY <1>0, <1>1, <1>2, <1>4 DEF SentFromBoard
<1>9. OneFetch'
  BY <1>0, <1>1 DEF OneFetch
<1>10. ListAccounted'
  <2>1. CASE Relisted(d)
    BY <1>1, <1>2, <2>1 DEF ListAccounted, Covered, Relisted
  <2>2. CASE ~Relisted(d)
    <3>1. c.op = "delete" /\ r = c.row
      BY <1>2, <1>5, <2>2 DEF Relisted
    <3>2. CASE Covered
      <4>1. Covered'
        BY <1>1, <1>2, <3>2 DEF Covered, Relisted
      <4> QED
        BY <4>1 DEF ListAccounted
    <3>3. CASE \A q \in Rows : RowAccounted(q)
      <4>1. ASSUME NEW q \in Rows PROVE RowAccounted(q)'
        <5>1. CASE q = r
          BY <1>2, <3>1, <5>1 DEF RowAccounted
        <5>2. CASE q # r
          <6>1. rows'[q] = rows[q] /\ RowAccounted(q)
            BY <1>6, <3>3, <5>2
          <6>2. \A e \in calls : e.at = "done" => e \in calls'
            BY <1>1, <1>2
          <6> QED
            BY <1>1, <6>1, <6>2 DEF RowAccounted
        <5> QED
          BY <5>1, <5>2
      <4> QED
        BY <4>1 DEF ListAccounted
    <3> QED
      BY <1>0, <1>1, <3>2, <3>3 DEF ListAccounted
  <2> QED
    BY <2>1, <2>2
<1>11. BusyAccounted'
  <2>0. (\A e : FormCall(e)' <=> FormCall(e)) /\ (FormCall(d) <=> FormCall(c))
    BY <1>1, <1>2 DEF FormCall, Form
  <2>1. (\A e \in calls : FormCall(e) => "create" \in busy)'
    BY <1>0, <1>1, <1>2, <2>0 DEF BusyAccounted
  <2>2. (\A e, f \in calls : FormCall(e) /\ FormCall(f) => e = f)'
    BY <1>0, <1>1, <1>2, <2>0 DEF BusyAccounted
  <2>3. (\A f \in fetch : f.then = "clear" =>
           board = "shortcuts" /\ "create" \in busy /\ \A e \in calls : ~FormCall(e))'
    BY <1>0, <1>1, <1>2, <2>0 DEF BusyAccounted
  <2>4. (\A f, g \in fetch : f.then = "clear" /\ g.then = "clear" => f = g)'
    BY <1>0, <1>1 DEF BusyAccounted
  <2> QED
    BY <2>1, <2>2, <2>3, <2>4 DEF BusyAccounted
<1>12. YieldAccounted' /\ yield' \in [1 .. MaxForms -> Nat]
  <2>1. CASE c.op # "create"
    <3>1. UNCHANGED <<yield, forms, dialog, fetch>>
      BY <1>1, <2>1
    <3>2. Used => Used'
      BY <1>1, <1>2, <3>1 DEF Used
    <3>3. (\A e \in calls : e.op = "create" /\ e.at = "sent" => yield[e.from] = 0)'
      BY <1>0, <1>2, <2>1, <3>1 DEF YieldAccounted
    <3>4. (\A n \in 1 .. MaxForms : yield[n] <= 1 /\ (n > forms => yield[n] = 0))' /\ (Slot /\ yield[forms] # 0 => Used)'
      BY <1>0, <3>1, <3>2 DEF YieldAccounted, Slot
    <3> QED
      BY <1>0, <3>1, <3>3, <3>4 DEF YieldAccounted
  <2>2. CASE c.op = "create"
    <3>1. yield' = [yield EXCEPT ![c.from] = @ + 1] /\ c.from \in 1 .. forms /\ c.from \in 1 .. MaxForms /\ yield[c.from] = 0
      BY <1>0, <1>1, <1>4, <2>2 DEF YieldAccounted
    <3>2. yield' \in [1 .. MaxForms -> Nat] /\ yield'[c.from] = 1 /\ \A n \in (1 .. MaxForms) \ {c.from} : yield'[n] = yield[n]
      <4>1. yield' = [yield EXCEPT ![c.from] = 1]
        BY <3>1
      <4> QED
        BY <1>0, <3>1, <4>1
    <3>3. \A e \in calls' : e.op = "create" => e = d
      <4> SUFFICES ASSUME NEW e \in calls, e.op = "create" PROVE e = c
        BY <1>2
      <4>1. e.row = 0
        BY <1>0 DEF SentFromBoard
      <4>2. FormCall(e) /\ FormCall(c)
        BY <1>4, <2>2, <4>1 DEF FormCall, Form
      <4> QED
        BY <1>0, <4>2 DEF BusyAccounted
    <3>4. Used'
      BY <1>2, <2>2 DEF Used
    <3>5. (\A n \in 1 .. MaxForms : yield[n] <= 1 /\ (n > forms => yield[n] = 0))'
      <4> SUFFICES ASSUME NEW n \in 1 .. MaxForms PROVE yield'[n] <= 1 /\ (n > forms => yield'[n] = 0)
        BY <1>1
      <4>1. CASE n = c.from
        BY <1>0, <3>1, <3>2, <4>1
      <4>2. CASE n # c.from
        BY <1>0, <3>2, <4>2 DEF YieldAccounted
      <4> QED
        BY <4>1, <4>2
    <3>6. (\A e \in calls : e.op = "create" /\ e.at = "sent" => yield[e.from] = 0)'
      BY <1>2, <3>3
    <3> QED
      BY <3>2, <3>4, <3>5, <3>6 DEF YieldAccounted
  <2> QED
    BY <2>1, <2>2
<1>13. ListsTyped'
  BY <1>1, <1>2, <1>5, <1>6, <1>12 DEF ListsSound, ListsTyped
<1> QED
  BY <1>7, <1>8, <1>9, <1>10, <1>11, <1>12, <1>13 DEF ListsSound

LEMMA ListsStepIsSound == ListsSound /\ [ListsNext]_listsVars => ListsSound'
<1> SUFFICES ASSUME ListsSound, [ListsNext]_listsVars PROVE ListsSound'
  OBVIOUS
<1>1. CASE UNCHANGED listsVars
  BY <1>1 DEF listsVars, ListsSound, ListsTyped, RowsKnown, SentFromBoard, OneFetch, ListAccounted, Covered,
              Relisted, RowAccounted, BusyAccounted, FormCall, Form, YieldAccounted, Slot, Used
<1>2. CASE ListsNext
  <2>0. ~missed
    BY <1>2 DEF ListsNext
  <2>1. ASSUME OpenMembers \/ OpenShares \/ OpenInbox \/ OpenProviders \/ OpenTokens \/ OpenWebhooks
               \/ OpenIdentities \/ OpenShortcuts
        PROVE  ListsSound'
    <3>1. OpenShortcuts \/ \E b \in Boards : Opens(b)
      BY <2>1 DEF OpenMembers, OpenShares, OpenInbox, OpenProviders, OpenTokens, OpenWebhooks, OpenIdentities, Boards
    <3> QED
      BY <2>0, <3>1, OpeningIsSound
  <2>2. CASE FocusBack
    BY <2>0, <2>2, FocusIsSound
  <2>3. CASE ListAnswered
    BY <2>0, <2>3, ListAnsweredIsSound
  <2>4. CASE ListArrives
    BY <2>0, <2>4, ArrivalIsSound
  <2>5. CASE ListFails
    BY <2>0, <2>5, LostFetchIsSound
  <2>6. ASSUME CreateMember \/ CreateProvider \/ CreateToken \/ CreateWebhook \/ CreateShortcut \/ CreateShare
               \/ EditMember \/ EditProvider \/ EditWebhook \/ EditShortcut
        PROVE  ListsSound'
    <3>1. \E b \in Boards \ {"inbox", "none"} : Creates(b) \/ Edits(b)
      BY <2>6 DEF CreateMember, CreateProvider, CreateToken, CreateWebhook, CreateShortcut, CreateShare,
                  EditMember, EditProvider, EditWebhook, EditShortcut, Boards
    <3>2. Locally
      BY <2>0, <3>1, FormOpensLocally
    <3> QED
      BY <2>0, <3>2, LocallyIsSound
  <2>7. ASSUME FillMember \/ FillProvider \/ PickTemplate \/ FillToken \/ FillWebhook \/ FillShare
               \/ FillShortcut \/ UseExample \/ LoadWebhook
        PROVE  ListsSound'
    <3>1. LoadWebhook \/ \E b \in Boards : Fills(b)
      BY <2>7 DEF FillMember, FillProvider, PickTemplate, FillToken, FillWebhook, FillShare, FillShortcut, UseExample, Boards
    <3>2. Locally
      BY <2>0, <3>1, FormFillsLocally
    <3> QED
      BY <2>0, <3>2, LocallyIsSound
  <2>8. CASE Dismiss
    BY <2>0, <2>8, DismissLocally, LocallyIsSound, SecretIsDismissed
  <2>9. ASSUME AskToArchiveMember \/ AskToDeleteMember \/ AskToDeleteProvider \/ AskToDeleteToken
               \/ AskToDeleteWebhook \/ AskToDeleteShortcut \/ CancelDelete
        PROVE  ListsSound'
    <3>1. CancelDelete \/ (\E b \in Boards : AsksTo("delete", b)) \/ AsksTo("set", "members")
      BY <2>9 DEF AskToArchiveMember, AskToDeleteMember, AskToDeleteProvider, AskToDeleteToken,
                  AskToDeleteWebhook, AskToDeleteShortcut, Boards
    <3>2. Locally
      BY <2>0, <3>1, ConfirmationLocally
    <3> QED
      BY <2>0, <3>2, LocallyIsSound
  <2>10. ASSUME ConfirmMember \/ ConfirmProvider \/ ConfirmToken \/ ConfirmWebhook \/ ConfirmShortcut \/ ConfirmShare
                \/ RestoreMember \/ Unlink \/ RevokeShare \/ ArchiveComment \/ DeleteComment \/ ArchiveMention
                \/ DeleteMention \/ ConfirmDelete
         PROVE  ListsSound'
    <3>1. \/ \E b \in Boards : Confirms(b)
          \/ ConfirmDelete
          \/ \E b \in Boards : Sends(b, "delete")
          \/ \E b \in {"members", "inbox"} : Sends(b, "set")
      BY <2>10 DEF ConfirmMember, ConfirmProvider, ConfirmToken, ConfirmWebhook, ConfirmShortcut, ConfirmShare,
                   RestoreMember, Unlink, RevokeShare, ArchiveComment, DeleteComment, ArchiveMention, DeleteMention, Boards
    <3> QED
      BY <2>0, <3>1, ChangeIsSent
  <2>11. CASE ServerChanges
    BY <2>0, <2>11, ServerIsSound
  <2>12. CASE MemberSaved \/ MemberArchived \/ MemberDeleted
    BY <2>0, <2>12, MemberAnswers
  <2>13. CASE ProviderSaved \/ TokenSaved \/ ShareChanged
    BY <2>0, <2>13, FormAnswers
  <2>14. CASE WebhookSaved
    BY <2>0, <2>14, WebhookAnswers
  <2>15. CASE ShortcutSaved
    BY <2>0, <2>15, ShortcutAnswers
  <2>16. CASE RowRemoved
    BY <2>0, <2>16, RowIsRemoved
  <2>17. CASE RowDeleted \/ NotificationChanged
    BY <2>0, <2>17, DeletionAnswers
  <2>18. CASE ChangeFails
    BY <2>0, <2>18, FailureIsSound
  <2> QED
    BY <1>2, <2>1, <2>2, <2>3, <2>4, <2>5, <2>6, <2>7, <2>8, <2>9, <2>10, <2>11, <2>12, <2>13, <2>14,
       <2>15, <2>16, <2>17, <2>18 DEF ListsNext
<1> QED
  BY <1>1, <1>2

\* Of every list with dialogs: when nothing is under way it shows what the server has, and what a form
\* was confirmed for is made once: ListsAreKept (the settings sections, useUserQueries, ConfirmDialog).
THEOREM ListsFollowTheServer == ListsSpec => []ListsAreKept
<1>1. ListsInit => ListsSound
  <2> SUFFICES ASSUME ListsInit PROVE ListsSound
    OBVIOUS
  <2>1. /\ 1 \in 1 .. MaxRows /\ Nothing \in Contents /\ rows \in Contents
        /\ \A r \in Rows : rows[r] # 0 => r <= born
        /\ forms \in 0 .. MaxForms /\ born \in 1 .. MaxRows /\ yield \in [1 .. MaxForms -> Nat]
    BY WebListsConstants DEF ListsInit, Rows, Contents, Nothing
  <2>2. ListsTyped /\ RowsKnown
    BY <2>1, DialogFields DEF ListsInit, ListsTyped, RowsKnown
  <2>3. SentFromBoard /\ OneFetch /\ ListAccounted /\ BusyAccounted
    BY DialogFields DEF ListsInit, SentFromBoard, OneFetch, ListAccounted, BusyAccounted
  <2>4. YieldAccounted
    BY DialogFields DEF ListsInit, YieldAccounted, Slot
  <2> QED
    BY <2>2, <2>3, <2>4 DEF ListsSound
<1>2. ListsSound /\ [ListsNext]_listsVars => ListsSound'
  BY ListsStepIsSound
<1>3. ListsSound => ListsAreKept
  <2> SUFFICES ASSUME ListsSound PROVE ListsAreKept
    OBVIOUS
  <2>1. OneRowEach
    BY DEF ListsSound, YieldAccounted, OneRowEach
  <2>2. ListSettles
    <3> SUFFICES ASSUME ~crossed, ~missed, board \notin {"none", "inbox"}, fetch = {}, calls = {}, ~dialog.shows
                 PROVE  list = rows
      BY DEF ListSettles
    <3>1. ~Covered /\ ListAccounted
      BY DEF ListsSound, Covered
    <3>2. \A r \in Rows : list[r] = rows[r]
      BY <3>1 DEF ListAccounted, RowAccounted
    <3>3. list \in Contents /\ rows \in Contents
      BY DEF ListsSound, ListsTyped
    <3> QED
      BY <3>2, <3>3 DEF Contents
  <2> QED
    BY <2>1, <2>2 DEF ListsAreKept
<1> QED
  BY <1>1, <1>2, <1>3, PTL DEF ListsSpec

===============================================================================
