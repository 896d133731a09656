# Specifications of Memos

TLA+ models of what is in `src/`: of the server, its concurrency, its persistence
and the order in which it starts and stops; and of the web client, whose tabs,
forms, caches and players wait for answers that come late, twice or not at all.
TLC checks them on small instances; for every part of the server that is modelled
and for four parts of the client, TLAPS proves what matters for any number of
clients, requests, rows, keys and edits.

The models follow the code: an action is one atomic step of a function (a
database call together with what the function does until the next one, an
operation on a `sync.Map`, a critical section, a turn of the browser's event
loop up to the next `await`), its guard the function's conditions and early
returns. `PROJECT.json` maps each definition to its lines.

Every module holds a few operators whose comment starts with "Mutant". They are
used by no other definition: each is what a definition would be with a plausible
bug in the code behind it, and a property fails with it.

## The system

One Go process, `cmd/memos`, serves an API (Connect and gRPC-gateway over
`net/http`), a stream of live events, RSS, files and the web client. It keeps its
data in SQLite, MySQL or PostgreSQL behind `store.Store`, which puts three
in-memory caches in front of some tables.

| component | state | operations | hard part | what makes it correct |
|---|---|---|---|---|
| TTL cache, `store/cache` | a `sync.Map`, a counter, two channels | Set, Get, Delete, Clear, Close, periodic cleanup | map and counter change in separate steps; cleanup runs by itself; expiry | the counter is the number of items, or is off by known races; the oldest go first; Close returns |
| credentials, `store/user*.go`, `server/auth`, `auth_service.go` | rows and cached copies of the user and of two lists of tokens | sign in and out, refresh, create, delete and use a token, archive and delete a user | read-modify-write without a lock; caches filled from old reads | a revoked token is refused and no session lost, but for named races and failures; caches come to agree with the rows |
| event hub, `sse_hub.go`, `sse_handler.go` | registered clients, one buffered channel each, `closed` | Subscribe, Unsubscribe, Broadcast, Close, one loop per stream | closing and sending on channels; full buffers; subscribing while closing | no panic; those meant to get an event get it, once and in order; streams end |
| server, `server/server.go`, `main.go` | stages of start and shutdown, HTTP server, runner | Start, Shutdown with a deadline | order of the stages; a deadline that passes; goroutines nobody waits for | the database is closed after all that is waited for; shutdown ends |
| presign runner, `server/runner/s3presign` | a ticker and a context | RunOnce, Run | stopping in the middle of a batch | as above |
| migrations, `store/migrator.go` | the schema and a stored version | initialise, check, upgrade, downgrade refusal | stopping between a commit and the new version; order of files | each file once, in order; serving only on the right schema; refusing for a reason |
| accounts, `auth_service.go`, `user_service.go`, `store/user_identity.go` | users, links to identity providers, one mutex | sign up, first administrator, login by SSO, link, unlink, delete | check-then-act against unique columns; provisional rows | one administrator; logins as linked; nothing left over |
| memos, `memo_*_service.go`, `store/memo.go`, `store/attachment.go` | rows of memos, relations and attachments; files | create, comment, update, delete; delete attachments | many calls, no transaction, no foreign keys; limits of listings | nothing dangles; comments stay comments; files go with rows, a repeated deletion heals |
| sessions of tabs, `web/src/connect.ts`, `auth-state.ts`, `AuthContext.tsx` | a token in memory, in localStorage and in other tabs; a cookie | request, refresh once, retry, start up, sign in and out | several tabs and a rotating refresh token | nobody is signed out for nothing; signed out means out; requests end |
| editor, `components/MemoEditor` | content, files, a draft, a recording | type, attach, record, save, leave | a debounce, uploads and a permission prompt that are answered after one moved on | a text is kept, and becomes one memo |
| query cache, `useMemoQueries`, `useLiveMemoRefresh` | what is known of lists and memos | fetch, optimistic update, rollback, events, reconnect | answers older than news | the page comes to show what the server has, but for dropped events |
| settings, lists, sign-in through a provider, filters, player | forms, dialogs, a stored attempt, two copies of the filters, a queue | fetch, edit, confirm, refetch; leave and come back; navigate; play | dialogs closed and opened meanwhile; effects that answer each other | what was confirmed is made, once, and shown |
| library, account, insert menu, media, memo page | pages and an editor's files; preferences; a location; elements that play; what a viewer may do | delete, choose, locate, play and stop, offer | batches that fail half way; four places for one choice; late answers of the browser | nothing used is deleted; choices settle; offers are granted |
| texts and layouts | tags, mentions, tasks; months, headings, collages, lists | lex, escape, tick, arrange | three lexers for one grammar; boundaries | readers agree; nothing is lost or doubled |

The rest of the server is pure (filters, the rest of Markdown, memo payloads),
calls other services (mail, AI, OAuth), reads only (RSS, files, MCP) or is
generated; of the client what remains only shows what it is given.
`PROJECT.json` lists every part, and every hazard at its line.

**How the parts meet.** Requests call the store and may broadcast an event after
the database call returned. The store calls a driver, then a cache. Streams hold
a connection open, which `http.Server.Shutdown` would wait for; that is why
Shutdown closes the hub first. The runner works with the store in a goroutine of
its own, and so does the update of a token's last use, which outlives its request
and is not waited for. The caches lose entries
by themselves, which to their users is one step, `CacheDrop` in `SessionStore`.
The client's requests pass one interceptor (`WebAuth`), which refreshes what
`SessionStore` rotates. Its views read a query cache that the event stream
invalidates (`WebQueries`); forms and dialogs fetch for themselves.

## Modules

| module | models | `EXTENDS` / `INSTANCE` |
|---|---|---|
| `TTLMap` | what a bounded TTL cache promises a single caller | |
| `MemoryCache` | `store/cache/cache.go`, access by access | implements `TTLMap` through `View` |
| `SessionStore` | credentials of one user, with their caches | |
| `SSEHub` | the hub and its streams | |
| `Server` | start, shutdown, requests, runner | composes `SSEHub` |
| `Migrator` | start-up of processes on one database | |
| `Accounts` | accounts and their links | |
| `Memos` | memos, relations, attachments, files | |
| `WebAuth` | tabs of a browser, their tokens, requests and redirects | |
| `WebEditor`, `WebQueries`, `WebSettings`, `WebOAuth`, `WebLists`, `WebFilters`, `WebPlayer` | what talks to the server over several turns | |
| `WebLibrary`, `WebAccount`, `WebInsertMenu`, `WebText`, `WebMedia`, `WebMemoPage`, `WebLayout` | views and helpers | |
| `ServerProofs`, `MemoryCacheProofs`, `SessionStoreProofs`, `AccountsProofs`, `WebAuthProofs` | theorems | the module of that name, `TLAPS`; `ServerProofs` also has those of `SSEHub` |
| `StoreProofs` | theorems | `Migrator`, `Memos`, `TLAPS` |
| `WebProofs` | theorems | `WebOAuth`, `WebFilters`, `WebPlayer`, `WebSettings`, `WebQueries`, `WebEditor`, `WebLists`, `TLAPS` |
| `WebViewProofs` | theorems | `WebAccount`, `WebInsertMenu`, `WebMedia`, `WebMemoPage`, `TLAPS` |
| `MC...` | values of constants for TLC | the module of that name |
| `MCSessionStore` | two goroutines, or (`solo`) one that serves everything alone | `SessionStore` |
| `MCStore` | `Migrator` or `Memos`, chosen at the start | `MCMigrator`, `MCMemos` |
| `MCWebPages`, `MCWebViews` | one of the seven client parts of each row above, chosen at the start | those modules |

Parts that share a run share no state: none of the rules of one depends on a
variable of another, so that running them one at a time loses nothing of what is
said of them.

**MemoryCache.** `pc` and `loc` are where a goroutine is and the locals of its
call; `jpc` and `jloc` those of the cleanup goroutine. `SetLoad`, `SetDelete` or
`SetAdd`, `SetStore`, `SetCheck` and the `Evict...` actions are the statements of
`SetWithTTL` and `cleanupOldest`; `Range` visits keys in any order. Time is a
counter. `drift` is history: a step that stores where it had found nothing and now
something is, or the reverse, or that deletes what is gone, or clears what others
have still to count, adds to it what it puts the counter off by. `met` in the locals
of an eviction is what `Range` has handed over. `View` is the map a caller sees
while a call is half done.

**SessionStore.** A request is a list of store calls in `calls`, the first of
which the goroutine is in; `phase` is where. `CacheGet`, `ListRow`, `CacheFill`,
`CacheRefill` are the steps of a cached read, `Upsert` and `CacheStore` those of
a write. The row a read-modify-write has read is in `val`. `revoked` and `live`
are history: tokens whose revocation was answered, tokens a client holds.
`late` in a request says that it came in after that answer. A database error ends
a request, but for the removals whose error the code drops (`auth_service.go:423`,
`:492`) and the sign-in whose storing is only logged: they go on and answer success,
and the token is in `failed`. `raced` is what a write or a cache fill got wrong
because the row had changed since it was read.

**SSEHub.** `handler[c]` is the place of a stream's loop; `channel` and `buf`
are its channel. Subscribe, Unsubscribe and Close hold the write lock from start
to end and are one step each. Broadcast holds the read lock while it goes
through `todo`, so the three wait for it and other broadcasts do not. `select`
without a default is a choice; with one it drops. `since`, `sent` and `dropped`
are history, and so is `after` in an event: the broadcasts that were over when its
own began. A client may hang up (`PeersGone`) or stop reading (`PeerStalls`).

**Server.** `stage` is how far `main` and the goroutine of Shutdown are; each
function Shutdown calls is a stage. A request is `working` while it may use the
store, and `sending` while it broadcasts. A request or stream of one of `Scripts`
leaves the write of its token's last use behind in `touching`, which goes on after
the response and of which no stage of Shutdown knows. `Drained`, `Request` and `Respond`
stand for `net/http`.

**Migrator.** A migration is `<<minor, patch>>`, the schema the set of those
whose effect it has. `tx` holds what is executed and not committed. `Boot`
starts a process of any release, `Crash` and an error in any call stop it, also
between the commit and the new version, which `torn` remembers.
`PathBefore` compares paths as `slices.Sort` does, so that 0.10 comes before 0.9.

**Accounts.** `request[w].at` is the next call of a worker. `Tie` inserts the
link of a first login; it, `Bind` and the deletions meet the unique columns.
`setup`, `provisional`, `everLinked` and `removals` are history, and `strays` the
provisional users whose deletion failed.

**Memos.** A request walks through `at`: a deletion severs the memo's relations
one way, then the other, lists its attachments, deletes each, then the row. An
update goes through `plan`, its mask in order. `Abort` is an error or a panic
that the interceptor recovers from. `commentOf`, `aborted` and `overlapped` are
history, and so is `split`: the attachments that a failed request left with only
their row or only their file, until another request deletes what is left.

**WebAuth.** `token`, `refresh` and `inbox` are a tab's memory, its refresh under
way and its broadcast channel; `cookie`, `stored` and `session` are shared. Each
tab has one call of the application and one query. JavaScript runs to its next
`await`: the places of `Quiet` are passed before another tab or timer goes on.
The server issues a pair of tokens at each refresh and forgets the one before,
as `RefreshToken` of `SessionStore` does. Tokens do not age while a request is on
the wire.

**Views and pages.** One variable per React state or ref that matters, one per
kind of request in flight (a set where answers overtake each other), one action
per handler, effect and answer. An event, its render and its effects are one
step unless the code awaits something in between. The libraries (React Query,
the router, `dayjs`, media elements, the map) are external, modelled by what
the code relies on. Some ghosts (`excuse`, `spoilt`, `crossed`, `missed`,
`stale`, `overtook`, `broken`, `confused`, `hurried`, `outdated`)
note that the code has met a race it really loses. Each is set by the handler
that loses it, for the reasons under *What was met* and no others; from then on
the property says nothing, and in the editor, the settings and the lists the run
is not followed further.

- `WebEditor`: `editor` is the store, `draft` and `timer` the debounced draft,
  `job` the save with its uploads, `rec` and `mic` the recorder and what is live,
  `panel` whether its panel is on the screen. `late` are texts entered while a save
  was awaited, `lost` those of them that its end threw away, `over` recordings begun
  while another was being transcribed: the property excuses what is in `lost` and,
  for the panel, in `over`, and goes on to hold the rest to what it says.
- `WebQueries`: the value of a memo is the set of changes made to it, so that
  "older" is "lacks a change"; `ops` are own changes with what they would roll
  back to, `events` what the stream is about to deliver. `Publish` is
  `Broadcast` of `sse_hub.go` as one client sees it: it delivers, or drops because
  the buffer is full and leaves the stream open. `dropped` are those changes, until
  the stream is opened again and everything is refetched.
- `WebSettings`: one setting in four parts, as stored, as fetched and as edited.
- `WebOAuth`: the stored attempt, and the callback's effect that runs again.
- `WebLists`: eight boards that differ in how they fetch; `yield` counts the rows
  that one opening of a form has made.
- `WebFilters`: the address as rendered and as the router has it, the state, and
  the two refs of the effects between them.
- `WebPlayer`: `resolved` is what the element has, `going` whether it is heard.
- `WebLibrary`: pages of a growing list, a deletion in batches, the viewer, and
  the items of an editor.
- `WebAccount`: a preference is chosen, applied, stored, sent and fetched; five
  variables that have to come to agree.
- `WebInsertMenu`: position, its two inputs and its name, with the timers.
- `WebText`: texts grow letter by letter, line by line or tag by tag; the lexers
  are operators over them, `TagsOfServer` and `MentionsOfServer` those of
  `internal/markdown/parser`. The server has a class of letters of its own
  (`ServerTagChars`): it takes the zero width joiner, the client does not.
- `WebMedia`: seven machines that each wait for the browser; an element queues
  its events in `tasks`.
- `WebMemoPage`: `Offered` is what the page derives from memo, page and viewer,
  `Grants` what the services check, each from its own code.
- `WebLayout`: days are numbers; the month's grid, ids of headings, the collage
  and the split lists are operators, `calendar` what the navigator keeps.

## Runs

`tlc -config <cfg> <MC module>`. Deadlock is not checked where the model stops
at a bound on requests, or the process at its end; it is for the cache and in
`migrator_crash`, which never stop.

| run | instance | what it shows | states |
|---|---|---|---|
| `cache_one` | one goroutine, 3 keys, limit 2, TTL 0 to 2, cleanup between calls, clock to 2 | `ExactAlone`; `ImplementsTTLMap`; `CloseReturns` | 26,562 |
| `cache_two` | two goroutines and a cleanup that overlaps them, 2 keys, limit 1, clock to 1, calls begun at a drift of -1 to 1 | `Accounted`, `OldestEvicted` | 2,263,217 |
| `session_all` | two goroutines, or one alone, 2 + 1 tokens, 4 requests that write (or 3 and an error), any number that read, entries leave the cache at will | `Consistent`, `SessionsKept`, `NothingRaced`, `RevokedIsRejected`; `StaleCopiesGo` | 1,394,251 |
| `server_all` | two streams, one serving goroutine, 2 events, buffer of 1, access tokens | `NoPanic`, `Delivery`, `StoreClosedLast` | 3,488,412 |
| `server_stops` | one stream, two serving goroutines, 2 events | `InOrder`; `ShutdownCompletes`, `StreamsEnd` | 89,220 |
| `store_all` | databases of any age, releases 0.23, 0.24 and 0.30; or two workers, 2 memos, 1 attachment, 4 requests, 1 error | `SchemaServed`; `RelationsAreTrue`, `FilesMatchRows` | 634,510 |
| `migrator_crash` | databases of any age, stopping anywhere | refutes `RejectedOnlyIfLegacy` | |
| `accounts_races` | two workers, 3 accounts, 2 subjects, 5 requests, 1 error, also in a cleanup | `OneSetupAdmin`, `LinkedLogins`, `RaceIsResolved` | 2,633,304 |
| `web_auth` | two tabs, skewed clocks, 3 things that users, clocks and the network do | `NoNeedlessLogout`, `NoGuestRead`, `SignOutSticks`; `RequestsEnd` | 290,488 |
| `web_pages` | each part of a page by itself, a short visit with a mishap or two | `EditorIsKept`, `CacheSettles`, `SettingsKept`, `AnswerIsUsed`, `ListsAreKept`, `PageIsAddressed`, `HeardIsShown` | 3,554,386 |
| `player_restored` | the player on its own | refutes `PlayerRestored` | |
| `web_views` | each view by itself, a few clicks with one mishap; texts of 6 letters or 4 lines | `LibraryIsTrue`, `AccountIsKept`, `InsertIsMeant`, `TextIsRead`, `MediaIsShown`, `LayoutIsWhole`, `MemoPageIsTrue` | 1,167,422 |

A property that has several parts is the conjunction of definitions above it,
each with what it says; those of the cache, the sessions, the migrator, the
accounts and the memos include the module's type invariant.

**Why these bounds.** The cache needs one key more than its limit to evict; alone,
a clock long enough for an item to outlive another, and a limit and a fraction
that choose more than one item. With two goroutines every pair of calls meets at
every two places on one key or on two; `MaxDrift` keeps the counter from being put
off without end, by letting no call begin that could add to a drift past it. A lost
session takes two requests, a replayed token a sign-in, its rotation, a request that
overlaps it and one that presents the token; a failure takes the place of one of
the four. With two streams one can be full, hung up or not meant while the other is
served; events beyond the buffer of 1 overflow it, and two goroutines broadcast them
one after the other or at once. Releases 0.23 and 0.24 are neighbours, 0.30 comes after
0.24 in both orders, and the files span patch numbers of one and of two digits.
Three accounts are two that race and one that either meets. In `store_all` a memo
with a comment, or with a reference, is two memos. `MaxRequests` and `MaxErrors`
bound what comes in: enough for a request to overlap one and be followed by
another. In the client a race takes two requests and something between them:
the bounds on clicks allow three to five, those on mishaps one to three, and each
module's comment on a bound says what it bounds. `WebQueries` lets own operations
overlap or something fail, not both in one run. In the editor `MaxEntries` is
three texts, files and recordings together: two texts, one of them late, around a
file, or two recordings around a text. Six letters are a hash, a tag of
the greatest length (2 for 100), one letter too many, and a neighbour on each
side; three headings are two of one slug and one that looks like the second's
number; eight attachments are two more than a collage shows; four clicks lead
from a month to another year's and on.

**Fairness.** Goroutines that can run do run: `WF` on each goroutine's steps, in
the cache, the sessions and the server. `CleanupExit` has `SF`: a `select` with
a closed channel and a ticker picks the former sooner or later. The hub's lock
is fair to a waiting writer (`sync.RWMutex`), which is why `Subscribe`,
`Unsubscribe` and `CloseHub` have `SF`, and `Receive` and `ContextDone` are arms
of a `select`. No fairness for clients, requests (which may take forever), the
runner's batch, or signals. `ShutdownCompletes` assumes that the deadline
passes; `StreamsEnd` does not. In `SessionStore` entries leave the cache
eventually, because they expire. In `WebAuth` each tab's own steps have `WF`:
the event loop runs what is due, and a request is answered or fails, since
`fetch` does not wait for ever; users, clocks and timers have none.

## Theorems

All are proved for every value of the constants, under the `ASSUME`s of the
modules: bounds are natural numbers, sets of requests may be of any size, and the
markers that stand for "no row", "not cached" or "no item" are not themselves
rows, tokens or items (`NoItemIsNone`, `SessionMarkers`). `MigratorReleases` says
of the migration files that each release has some of its own, none older than the
minimum version that can be upgraded, and that this is past 0.9, from where on the
directories sort as their numbers do.

| theorem | says | under |
|---|---|---|
| `HubTypes`, `ServerTypes` | type correctness | |
| `HubNoPanic`, `ServerNoPanic` | nobody sends on or closes a closed channel | |
| `HubDelivery`, `ServerDelivery` | events reach exactly those they are meant for, or find their buffer full | |
| `HubInOrder`, `ServerInOrder` | a stream is sent no event twice, and none whose broadcast was over before that of an event it has began | |
| `ServerImplementsHub` | the server uses the hub as its specification allows: `Spec => HubSpec` | |
| `ServerStoreClosedLast` | the database is closed when nobody that Shutdown waits for is left to use it, unless the deadline passed; the writes of last uses (`touching`) it does not wait for | |
| `CacheIsAccounted`, `OldestGoFirst` | `Accounted`, `OldestEvicted`, for any goroutines at once | |
| `SessionsAreConsistent`, `SessionsAreKept`, `RevokedTokensAreRejected` | `Consistent`, `SessionsKept`, `RevokedIsRejected`, for any requests at once | |
| `ServedSchemaIsWhole`, `RefusalHasAReason` | `SchemaServed`, and the part of it on refusals, wherever processes stop | |
| `AccountsTypeCorrect`, `LoginsAreLinked`, `OneAdminOfSetup` | type correctness, `LinkedLogins`, `OneSetupAdmin` | |
| `RacesAreResolved` | `RaceIsResolved`, with cleanups that fail | |
| `MemosTypeCorrect`, `FilesFollowRows`, `CommentsStayComments` | type correctness, `FilesMatchRows`, `CommentKeepsPlace` | |
| `DeletionLeavesNothing` | `RelationsAreTrue` | `[]FewAttachments` |
| `WebAuthTypes`, `SignedOutStays` | type correctness, `SignOutSticks` | |
| `LogoutIsNeeded`, `QueriesAreTheUsers` | the action properties `NoNeedlessLogout`, `NoGuestRead` | |
| `ProviderAnswerIsUsed`, `PageShowsItsAddress`, `WhatIsHeardIsShown`, `SavedSettingsAreKept` | `AnswerIsUsed`, `PageIsAddressed`, `HeardIsShown`, `SettingsKept` | |
| `CacheFollowsTheServer`, `EnteredTextIsKept`, `ListsFollowTheServer` | `CacheSettles`, `EditorIsKept`, `ListsAreKept` | |
| `ChoiceIsMeant`, `MediaShowWhatIs` | `InsertIsMeant`, `MediaIsShown` | |
| `PageIsTrue`, `ChoicesAreKept` | `MemoPageIsTrue`, `AccountIsKept` | |

*The only hypothesis* beside the `ASSUME`s is `FewAttachments`: no memo has more
attachments than a listing returns, beyond which a deletion leaves some (the run has
one attachment). Elsewhere the code loses what a first reading of it promises, when
calls overlap, a call fails, or a process stops at the wrong place, and no hypothesis
excludes that: a history variable names what was lost (`drift`, `raced`, `failed`,
`torn`, `strays`, `split`, `touching`), set by the very step that loses it, and the
theorem says that nothing else is. That a lone caller has no drift and requests in
sequence no race (`ExactAlone`, `NothingRaced`) is checked by TLC.

*The arguments.* A property is seldom kept by each step on its own; what has to be
added to it says why the code works.

- Hub. That a send is safe depends on the client being registered, hence
  `ChannelsOpen`: registered clients have open channels, a closed hub has none,
  and a broadcast has only registered clients left to visit. The last holds
  because nobody changes the registry while a broadcast has the lock. `Delivery`
  speaks of broadcasts that are over; `Owed` says of one under way that whoever is
  meant and was not visited is still in `todo`. `ServerImplementsHub` then makes
  each of these a fact about the server, with no second proof. `InOrder` needs `Numbered`: no
  two broadcasts have one number, those an event is `after` are finished, and a client
  that is still to be visited was not sent the event.
- Server. `StagesInOrder` is what each stage of Shutdown left behind, in particular
  that once nobody is connected nobody gets connected (`StaysDrained`). What a request or
  stream leaves behind in `touching` is in no stage, and nothing is claimed of it.
- Cache. `Books`: the counter is the number of items, and of what each goroutine has
  taken out or put in and not settled yet (`Claims`, one element for each so that
  any number of goroutines can be summed), and of the drift (`Balanced`); it takes that
  the locals of a call fit its place (`Meant`) and that `Close` waits for a cleanup
  pass (`Swept`). What another call does to a key between the reading and the writing
  of it is exactly what `drift` adds. For `OldestEvicted`, `Candidates`: of what a scan has
  been handed over the candidates are those that expire first, whatever has become
  of them in the map.
- Sessions. `Sound` has a part for each thing a request relies on: the plan of
  calls that is left (`Planned`), what the row read for the call at hand can be
  (`Stage`), whose the tokens of a request are (`Asked`, `NoClash`), that a token
  it minted is in its row from the addition on (`Stored`) and one it removed in none
  (`Removed`), that a request with a revoked token gets no further than looking it up
  (`Turned`), that a cached copy differs from its row only between the write and the
  store of the copy (`Caching`), that what a client holds is in a row (`Kept`) and
  what was reported revoked in none (`Gone`). Each but the first three is said of
  tokens that are neither in `failed` nor in `raced`: the proof is that a step which
  would break one of them works with a reading that is outdated, and so puts the token
  there.
- Migrator. `Migrating` ties schema, version and remaining files at each place of
  `Migrate`: outside a transaction the schema is the effect of all files up to
  the stored version (`Recorded`); inside one, executed and remaining files are
  those pending, in order (`Applying`). A process that stopped in between leaves
  `torn`, after which the schema may have more than the version says, never less.
- Accounts. `SetupInv`: while somebody is about to create the first administrator
  no earlier one is left, because the mutex is held from the second count to the
  insertion. `GrantsAreLinked` is about the places from which a login can only
  succeed. `LosersKnow`: who runs into a unique column meets the row again when it
  looks, unless something was removed meanwhile; `NoneLeftOver`: whoever made a
  provisional user has linked it, is about to link or to delete it, or failed to (`strays`).
- Memos. `FilesKnown` adds to `FilesMatchRows` why a request that is half-way
  catches up, and why what one leaves half gone when it fails is in `split` until
  another has deleted the rest. `LoneRequests`, for requests that do not overlap, says what a
  deletion has cut off when it arrives at each call; with `FewAttachments` the
  lemma `ListingIsComplete` makes the listing the whole set.
- Tabs. `SignOutHolds`: from the revocation on nothing comes (`NothingComes`): the
  cookie's token is in no session, so that a refresh on its way, or one started
  until the cookie is cleared, is refused. A sign-in the server grants while the answer
  of a sign-out is still on its way makes that sign-out not the latest word.
  `StaysSignedIn`, for both action properties: as long as nothing has gone wrong at
  most one tab refreshes, with the token that counts (`OneRefresh`), every tab has
  its user or is asking for it, and a call is sent again only with a token the
  server accepts (`Steady`); so nothing that ends a session can happen
  (`NoneEndsIt`).
- Sign-in through a provider. `OAuthSound`: every attempt named anywhere was
  started, and an exchange was sent by the one who started it, after the effect
  marked itself as over.
- Filters. `FiltersSound`: the two refs always agree; until an address is
  overtaken, either everything agrees, or the address rendered last is about
  to win, or one that is not rendered yet is (`Waiting`); and two writes settle it, which is why the effects
  do not answer each other for ever.
- Player. `PlayerSound`: every answer that is still wanted is to the track on
  display in the session at hand (`WireIsCurrent`), and the element follows the
  button and the address (`ElementFollows`).
- Settings. `SettingsSound`: while a save is under way the copy in the client is
  what is stored, and what the server will make of the save is what it means
  (`PutIsGood`, by cases in `MeaningIsKept`); a form shows of the parts it does not
  edit what the copy has (`FormFollows`).
- Queries. `CacheSound`: until a race is lost, every change the server has made is
  either in a value or is news to come for it: an event that is not handled yet, a
  stream that will refetch when it opens again, or one that dropped it (`FreshFor`). An answer on its way is
  fresh in that sense (`AnswerIsFresh`), and an entry is fresh, or is being fetched,
  or is known to be stale and not on the page (`Accounted`), but for the time an own
  update is under way (`Updating`), whose optimistic value the server does not have
  and whose rollback is stale, and whose end refetches.
- Editor. `EditorSound`: the recorder's parts (`MicSound`) say whose every prompt and
  every live microphone is, and that the panel is on the screen unless another recording's
  transcription closed it (`PanelShown`). For the texts, `Entered` says where the last one is and
  that the debounce, if it still runs, would store that one and no other, or that it was entered during a save (`LateSound`); `JobSound`,
  that the save under way is of the open editor, or its editor was left and is not open
  again; `TextsApart`, that a text is entered in one place and saved once.
- Lists. `ListsSound`: unless another fetch is to come (`Covered`), each row is about to
  be taken out by the answer to its deletion, or what is shown of it, or fetched and not
  shown yet, is the server's (`RowAccounted`). A form that has been sent is busy until its answer
  (`BusyAccounted`), which is why one opening makes one row (`YieldAccounted`).
- Insert menu. `InsertSound`: the geocoder has been asked for the position or the timer
  is still to ask (`AskedAbout`), an answer for the point asked about last has become
  the name (`NameAccounted`), and the search asked last is for the text of the field
  (`SearchSound`).
- Media. `MediaSound`: the tasks still to be told decide what the button will say
  (`WillSay`) and how far it is; an answer to `play()` among
  them that tells of the last start is the last of the answers, and while the photo is
  to move it plays (`AnswersKnown`); unless styles were mixed up, the last one to come is of the theme
  wanted (`Coloured`); of a diagram's runs only the last is not cancelled, and is for
  the text and theme of now (`OneRunCounts`).
- Page of a memo. `PageSound`: a copy is of the owner's memo, and a private one is seen
  only by those who may, or through a link (`CopiesKnown`); where nobody else has
  changed anything and no fetch is to come, the card without what is shown in advance
  (`Undone`) is the server's (`MemoFollows`, `ReplyFollows`), which is why undoing after
  a failure is right; and an answer is what the server has (`AnswerFits`). Then an offer
  is granted because the card that makes it equals the row that the server asks, right
  by right.
- Account. `AccountSound`: the screen has what was chosen, or the page is yet to learn of
  the choice (`ScreenSound`). While no request or answer has overtaken another and none
  has failed, requests are served in their order, and `RowFollows` says that the last one
  for a field that is not served yet carries the choice, or the server has it;
  `SettingFollows`, that after the last request for a field a fetch is still to come, or
  one is on its way that brings the choice, or it has arrived; `NameIsFollowed`, the same
  of the user's name. What the dialog sends is edited, or the dialog has missed a change
  (`DialogSound`).

*Only model-checked:* liveness (`CloseReturns`, `StaleCopiesGo`, `ShutdownCompletes`,
`StreamsEnd`, `RequestsEnd`), which the prover does not reach; what is said of one
caller (`ExactAlone`, `ImplementsTTLMap`, `NothingRaced`); and `LibraryIsTrue`, `TextIsRead` and `LayoutIsWhole`,
which are about what is computed over pages, texts and days, by folds and recursion
for which there is no induction here.

## What was met on the way

Two runs refute a statement of the code.

* `migrator_crash`: a first start that stops between the commit of `LATEST.sql`
  and the upsert of the version leaves a database that every later start refuses
  as a pre-0.22 one.
* `player_restored`: the effect that saves the player stores its empty state when
  it is mounted, before `initPlayer` has awaited the cookie and reads what the
  last visit left: "Load player state on mount" never finds anything.

No run is kept for the rest; where a property excuses it, the variable that names
the excuse is given. The server:

* Two goroutines that find the same expired item both take it off the counter
  (`cache.go:136`), which stays below the number of items, so that the cache holds
  more than `MaxItems`; two first Sets of a key count it twice; a `Clear` forgets what
  overlapping calls have still to count (`drift`). "Size returns the number of items
  in the cache" (`cache.go:181`) holds for one goroutine. The cleanup pass removes by
  key and may take a fresh item (`cache.go:228`).
* A sign-in reads the list of refresh tokens, another device rotates or drops its
  token, and the sign-in stores the list it read (`user_setting.go:169`): the token
  works again, or a session is lost (`raced`), against "stolen refresh tokens become
  invalid after legitimate refresh" and "active users stay logged in indefinitely"
  (`auth_service.go:446-447`). So does `UpdatePATLastUsed` with a deleted access token.
* `SignOut` and the rotation drop the error of removing the refresh token
  (`auth_service.go:423`, `:492`) and answer success: the token stays accepted
  (`failed`).
* The goroutine that notes a token's last use has a context of its own
  (`authenticator.go:200`) and may find the database closed (`touching`).
* Deleting a memo leaves those of its attachments beyond the default limit of a
  listing, 100, with their files (`store/memo.go:149`; hypothesis `FewAttachments`).
* A deletion that fails half way leaves a row without its file, or a file without
  its row, until another request deletes the rest (`attachment.go:141`; `split`).
* A first login that loses the race deletes its provisional user under the
  request's context and ignores the error; if the client has gone the user stays
  (`strays`).
* Migrations committed without their version are executed again (`torn`). MySQL
  commits at each statement (`migrator.go:190`).
* An event for a stream whose buffer is full is dropped and the stream stays open
  (`sse_hub.go:126`), so that the page shows old memos until something else makes it
  fetch (`dropped`): the resync that `useLiveMemoRefresh.ts:123` speaks of comes with
  the next connection.
* Overlapping requests may leave a relation or an attachment that names a memo
  which is gone: there are no foreign keys. `NothingLeft` is stated for requests
  that do not overlap; `CommentKeepsPlace` and `FilesMatchRows` hold when they do.
* Read, not modelled: the presign runner overwrites a payload changed meanwhile
  (`runner.go:116`); `Schedule` sends on an unbuffered channel under the mutex that
  `Stop` needs (`cron.go:152`); a restarted scheduler's jobs return at once
  (`scheduler.go:188`); the webhook queue drops what four slow receivers hold up.

The client, sessions: a refresh in flight undoes a sign-out; a lost answer to a
refresh ends the session; the interceptor sends to the sign-in page for any error
of the retried request, though the redirect is "Intended for hard-fail auth
paths"; two tabs that refresh at once present one token, of which the server
accepts the first. A second OAuth attempt overwrites the pending one, and an old
callback address wipes it.

Editor: a recording that starts while a save runs loses its busy mark with the
`RESET`, and can be saved half way; what is entered during a save is wiped by it
(`late`, `lost`); a recording begun while another is transcribed loses its panel, and
the microphone stays live (`over`); leaving during the permission prompt leaves the microphone on; a save that is
retried uploads its files again, and after a lost answer makes a second memo; an
edit overwrites another client's; two tabs share one draft; a saved text comes
back as a draft when the page is left and entered during the save.

Query cache: a rollback of one of two overlapping updates, or a late answer,
puts an old value over a newer one; a cancelled fetch loses the news it was to
fetch; `setQueriesData` makes a stale entry look fresh; events before the first
connection are lost; the event of a deleted comment does not name its parent,
whose comments are not refetched; a deleted memo stays on the screen.

Forms and lists: two administrators overwrite each other's settings ("TODO:
Apply update_mask", `instance_service.go:192`), and a form saved before its
setting was fetched stores the defaults; saving the profile wipes unsaved edits
beside it, deleting a provider the transcription being set up; a dialog dismissed
while its request runs leaves the list as it was, against the comment of
`CreateWebhookDialog.tsx:119`; an answer closes the form that was opened since; the
inbox is not refetched; a mutation is retried once, so that a lost answer makes
two share links.

Filters and player: a navigation before the last address was rendered leaves
state and address apart; late answers show another profile's statistics. A track
that follows itself stays silent with the button on "pause"; answers of an old
session fill the queue or sign the new one out.

Library and account: an attachment taken into a memo after the deletion of unused ones was confirmed is
deleted with the others (`taken`); a failed refetch replaces the library by the error; a
saved Photoshop file has no item in the editor and is dropped by any move. Two
saves of preferences may settle on the older; a theme whose save failed stays,
while the selector shows the other and so cannot choose it back; the listener
for the system's theme outlives an explicit choice; a profile dialog filled
before another device's change writes the old values back; a guest's language is
lost at the first sign-in.

Insert menu: without a position typed coordinates never become one, though the
dialog says that they can be entered; a memo's own location is not in the dialog;
a late answer of the device or the geocoder replaces what was chosen or typed;
confirming within a second saves the name of the place before.

Texts: three lexers differ "so they can't drift" notwithstanding. `##x` has a tag
for the server and the editor, none on the page; `#a#b` has two, one in the
editor, so that opening and saving it there loses one; a joiner ends a tag of emoji for the client and not for the
server (`tag.go:57`); of a run that is too long
the server tags the first 100 letters; `#x\#` loses its tag after saving; the
server takes letters of any script in mentions, the client ASCII. Ticking a
numbered or quoted task saves the memo unchanged. Heading ids are not unique
("A", "A", "A 1"), and the outline numbers them without the deeper ones. A split
numbered list starts at the same number twice.

Media: an audio source that fails while `play()` waits needs two clicks; a live
photo stopped at that moment shows the paused video; a waveform ended before its
context resumed ticks on; a style that arrives out of turn wins.

Memo page: readers of a pinned memo are offered an unpin that the server refuses;
an administrator may change a private memo but not read it, so the editor's save
fails; a reader by share link is offered reactions and comments that are refused,
and no answer reaches that page; double click and task boxes edit an archived
memo; an administrator's comment on a private memo cannot be read by its owner.

## Not modelled, and why

Inside the modelled parts: token signatures and expiry, passwords (functions of a
request, not of an order of events); MySQL's implicit commits, which would need a
state per statement; the demo seed; uploads, motion photos and S3 objects; SQL
itself; fields of forms one by one, sizes, colours and wording. Outside: drivers
(one statement per call, three dialects), instance settings and statistics,
webhooks, cron and scheduler (the last two are used by nothing), filters to SQL,
Markdown but for tags, mentions and tasks, mail, AI, RSS, files, MCP; generated
code. See `components` in `PROJECT.json`.

## Plan

1. *Done:* cache, sessions, hub and server with their proofs, migrator, accounts,
   memos.
2. *Done:* the web client, in fifteen modules.
3. *Done:* proofs for every module of the server and for twelve of the client's.
