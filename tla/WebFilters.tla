------------------------------ MODULE WebFilters ------------------------------
(***************************************************************************)
(* The memo filters of the web client, which live twice: in the state of   *)
(* MemoFilterProvider and in the address.  Two effects carry them over,    *)
(* one in each direction, with two refs that remember what was carried     *)
(* last.  A third, of RootLayout, empties them when the page changes.      *)
(* With them the layout's profile user, whose statistics it shows, and     *)
(* the display settings, which live in the state and in local storage.     *)
(*                                                                         *)
(* Filters are a set: parse and stringify are each other's inverse.  The   *)
(* router (external) has an address of its own, and a later render shows   *)
(* it.  What a handler changes is rendered, with its effects, before the   *)
(* next event; what an effect changes is rendered some time later.         *)
(***************************************************************************)
EXTENDS Naturals, FiniteSets

CONSTANTS MaxClicks,  \* bound on what the user does
          MaxReloads  \* bound on reloads and requests that fail

ASSUME WebFiltersConstants == MaxClicks \in Nat /\ MaxReloads \in Nat

VARIABLES
    router,    \* the address: page, filter, view (map or memos)
    seen,      \* the address last rendered
    filters,   \* the state, with the changes not rendered yet
    rendered,     \* the state last rendered
    lastUrl, lastStore, \* lastSyncedUrlRef, lastSyncedStoreRef
    shortcut,  \* is one selected
    asked,     \* getUser requests of MainLayout in flight
    profileUser,
    sorting, storedView, \* display settings, and what local storage has of them
    clicks, reloads,
    writes,    \* times the effect has written the address since the user did something
    overtook   \* an address was replaced before it was rendered, or an answer by a later one

filtersVars == <<router, seen, filters, rendered, lastUrl, lastStore, shortcut, asked, profileUser,
                 sorting, storedView, clicks, reloads, writes, overtook>>

Profiles == {"ann", "ben"}
Pages == {"home", "explore", "archived", "memo"} \cup Profiles
Tags == {"tag1", "tag2"}
Values == Tags \cup {"word", "day"}
InitialView == [asc |-> FALSE, basis |-> "create"]

At(page, filter) == [page |-> page, filter |-> filter, view |-> "memos"]
Calm == seen = router /\ rendered = filters

FiltersInit ==
    /\ router = At("home", {}) /\ seen = router /\ filters = {} /\ rendered = {}
    /\ lastUrl = {} /\ lastStore = {} /\ shortcut = FALSE /\ asked = {} /\ profileUser = "none"
    /\ sorting = InitialView /\ storedView = InitialView
    /\ clicks = 0 /\ reloads = 0 /\ writes = 0 /\ overtook = FALSE

-----------------------------------------------------------------------------
(* The effects *)

\* The page changes and the address has no filter: all filters are removed.
RootLayout(old, new) ==
    IF old.page # new.page /\ new.filter = {} THEN {} ELSE filters

\* Mutant: empty filters are not written.
StateToUrlUnlessEmpty(f, url, store, where, n) ==
    IF f # store /\ f # url /\ f # {}
    THEN /\ router' = [page |-> router.page, filter |-> f, view |-> where.view]
         /\ lastUrl' = f /\ lastStore' = f /\ writes' = n + 1
         /\ overtook' = (overtook \/ router # where)
    ELSE /\ lastUrl' = url /\ lastStore' = store /\ writes' = n
         /\ UNCHANGED <<router, overtook>>

\* "Sync state to URL when state changes": f is the rendered state, url and store the refs, where
\* the address rendered, n the writes so far.  The parameters written are those rendered, the path
\* is the router's.
StateToUrl(f, url, store, where, n) ==
    IF f # store /\ f # url
    THEN /\ router' = [page |-> router.page, filter |-> f, view |-> where.view]
         /\ lastUrl' = f /\ lastStore' = f /\ writes' = n + 1
         /\ overtook' = (overtook \/ router # where)
    ELSE /\ lastUrl' = url /\ lastStore' = store /\ writes' = n
         /\ UNCHANGED <<router, overtook>>

\* Profile pages ask for their user; on every other page there is none.
ProfileOf(old, new) ==
    IF old.page = new.page THEN UNCHANGED <<asked, profileUser>>
    ELSE IF new.page \in Profiles
         THEN asked' = asked \cup {new.page} /\ UNCHANGED profileUser
         ELSE profileUser' = "none" /\ UNCHANGED asked

\* The address is rendered.  "Sync URL to state when URL changes externally" only queues the new
\* state, so that the effect after it still has the old one.
ShowAddress ==
    /\ seen # router /\ seen' = router /\ rendered' = filters
    /\ LET new == router.filter
           external == seen.filter # new /\ new # lastUrl
       IN  /\ filters' = IF external THEN new ELSE RootLayout(seen, router)
           /\ IF external THEN StateToUrl(filters, new, new, router, writes)
              ELSE IF rendered # filters \/ seen.filter # new \/ seen.view # router.view
              THEN StateToUrl(filters, lastUrl, lastStore, router, writes)
              ELSE UNCHANGED <<router, lastUrl, lastStore, writes, overtook>>
    /\ ProfileOf(seen, router)
    /\ UNCHANGED <<shortcut, sorting, storedView, clicks, reloads>>

\* What an effect changed in the state is rendered.
ShowState ==
    /\ rendered # filters /\ rendered' = filters
    /\ StateToUrl(filters, lastUrl, lastStore, seen, writes)
    /\ UNCHANGED <<seen, filters, shortcut, asked, profileUser, sorting, storedView, clicks, reloads>>

-----------------------------------------------------------------------------
(* The user *)

Click == clicks < MaxClicks /\ clicks' = clicks + 1

\* A handler changes the state, which is rendered at once.
ChangeFilters(f) ==
    /\ Click
    /\ filters' = f /\ rendered' = f
    /\ IF f = rendered THEN UNCHANGED <<router, lastUrl, lastStore, writes, overtook>>
       ELSE StateToUrl(f, lastUrl, lastStore, seen, 0)
    /\ UNCHANGED <<seen, asked, profileUser, sorting, storedView, reloads>>

\* handleTagClick: the tag is taken off, or replaces the tags that are on.
Toggled(tag) == IF tag \in filters THEN filters \ {tag} ELSE (filters \ Tags) \cup {tag}

\* In the flat list of the explorer, in its tree, and in a memo of a list.
ClickTag(tag) == seen.page # "memo" /\ ChangeFilters(Toggled(tag)) /\ UNCHANGED shortcut
ClickTagInTree(tag) == seen.page # "memo" /\ ChangeFilters(Toggled(tag)) /\ UNCHANGED shortcut
ClickTagInMemo(tag) == seen.page # "memo" /\ ChangeFilters(Toggled(tag)) /\ UNCHANGED shortcut

\* SearchBar: Enter adds the words.
Search == seen.page # "memo" /\ ChangeFilters(filters \cup {"word"}) /\ UNCHANGED shortcut

\* MemoFilters: the cross of a filter.
RemoveFilter(f) == seen.page # "memo" /\ f \in rendered /\ ChangeFilters(filters \ {f}) /\ UNCHANGED shortcut

\* ShortcutsSection, on the home page: selecting a shortcut drops the words searched for.
SelectShortcut ==
    /\ seen.page = "home" /\ shortcut' = ~shortcut
    /\ ChangeFilters(IF shortcut' THEN filters \ {"word"} ELSE filters)

\* The router has a new address: navigate, a link, the browser's back and forward.
GoTo(address) ==
    /\ Click /\ address # router
    /\ router' = address /\ writes' = 0
    /\ overtook' = (overtook \/ seen # router)
    /\ UNCHANGED <<seen, filters, rendered, lastUrl, lastStore, shortcut, asked, profileUser, sorting, storedView, reloads>>

Visit(page) == page # seen.page /\ GoTo(At(page, {}))
Back(page, filter) == GoTo(At(page, filter))

\* useDateFilterNavigation: a day of the calendar is the only filter.
PickDay == seen.page # "memo" /\ GoTo(At(seen.page, {"day"}))

\* A tag of a memo on its own page leads to the list.
LeaveMemoForTag(tag) == seen.page = "memo" /\ GoTo(At("home", {tag}))

\* UserProfile.toggleTab.
ToggleTab ==
    /\ seen.page \in Profiles
    /\ GoTo([At(router.page, seen.filter) EXCEPT !.view = IF seen.view = "map" THEN "memos" ELSE "map"])

-----------------------------------------------------------------------------
(* The layout's user and the display settings *)

ServerNames ==
    \E u \in asked :
        /\ asked' = asked \ {u} /\ profileUser' = u
        /\ overtook' = (overtook \/ asked # {u} \/ seen.page # u)
        /\ UNCHANGED <<router, seen, filters, rendered, lastUrl, lastStore, shortcut, sorting, storedView, clicks, reloads, writes>>

NamingFails ==
    \E u \in asked :
        /\ reloads < MaxReloads /\ reloads' = reloads + 1
        /\ asked' = asked \ {u} /\ profileUser' = "none" /\ overtook' = TRUE
        /\ UNCHANGED <<router, seen, filters, rendered, lastUrl, lastStore, shortcut, sorting, storedView, clicks, writes>>

\* ViewContext.updateState stores what it sets.
SetView(v) ==
    /\ Click /\ v # sorting
    /\ sorting' = v /\ storedView' = v
    /\ UNCHANGED <<router, seen, filters, rendered, lastUrl, lastStore, shortcut, asked, profileUser, reloads, writes, overtook>>

ToggleSortOrder == SetView([sorting EXCEPT !.asc = ~@])
SetTimeBasis == \E b \in {"create", "update"} : SetView([sorting EXCEPT !.basis = b])

\* The page is loaded again: the state comes from the address and from local storage.
LoadAgain ==
    /\ reloads < MaxReloads /\ reloads' = reloads + 1
    /\ seen' = router
    /\ filters' = router.filter /\ rendered' = router.filter
    /\ lastUrl' = router.filter /\ lastStore' = router.filter
    /\ shortcut' = FALSE /\ profileUser' = "none" /\ sorting' = storedView
    /\ asked' = {router.page} \cap Profiles
    /\ UNCHANGED <<router, storedView, clicks, writes, overtook>>

\* The list a page asks for: useMemoFilters and useMemoSorting with the options of the page.
ListOf(creator, state, withShortcut) ==
    [creator |-> creator, filters |-> state, shortcut |-> withShortcut /\ shortcut, order |-> sorting]

HomeList(state) == ListOf("me", state, TRUE)
ExploreList(state) == ListOf("all", state, FALSE)
ArchivedList(state) == ListOf("me", state, FALSE)
ProfileList(page, state) == ListOf(page, state, FALSE)

Conditions(address, state) ==
    [page |-> address.page,
     list |-> CASE address.page = "home" -> HomeList(state)
                [] address.page = "explore" -> ExploreList(state)
                [] address.page = "archived" -> ArchivedList(state)
                [] OTHER -> ProfileList(address.page, state)]

\* useFilteredMemoStats: whose memos are counted beside the list.
CountedFor(page) ==
    CASE page = "home" -> "me"
      [] page \in Profiles -> profileUser
      [] OTHER -> "all"

FiltersNext ==
    \/ ShowAddress \/ ShowState
    \/ \E t \in Tags : ClickTag(t) \/ ClickTagInTree(t) \/ ClickTagInMemo(t) \/ LeaveMemoForTag(t)
    \/ Search \/ SelectShortcut \/ PickDay \/ ToggleTab
    \/ \E v \in Values : RemoveFilter(v)
    \/ \E p \in Pages : Visit(p) \/ \E f \in {{}, {"tag1"}, {"tag2", "word"}} : Back(p, f)
    \/ ServerNames \/ NamingFails \/ ToggleSortOrder \/ SetTimeBasis \/ LoadAgain

FiltersSpec == FiltersInit /\ [][FiltersNext]_filtersVars

-----------------------------------------------------------------------------

\* At rest the list asked for is the one the address names: it can be bookmarked, reloaded and
\* gone back to.  Not if an address was replaced before it was rendered.
ListIsAddressed == Calm /\ ~overtook => Conditions(seen, rendered) = Conditions(router, router.filter)

\* The two effects do not answer each other for ever: one change writes the address twice at most.
AddressCalms == writes <= 2

\* The statistics of a profile are its user's.
ProfileMatches == seen.page \in Profiles /\ asked = {} /\ Calm /\ ~overtook => CountedFor(seen.page) = seen.page

\* All three: the page, its address and its state come to agree, and stay so.
PageIsAddressed == ListIsAddressed /\ AddressCalms /\ ProfileMatches

=============================================================================
