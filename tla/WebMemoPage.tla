------------------------------ MODULE WebMemoPage ------------------------------
(***************************************************************************)
(* What a page offers to do with a memo and with a comment on it, to a     *)
(* viewer who is its owner, someone else, an administrator or a guest, and *)
(* what the server grants: two sets of rules, in two languages.  The page  *)
(* may be the memo's own, one opened by a share link, the owner's profile, *)
(* or the lists one lands on afterwards.                                   *)
(*                                                                         *)
(* The viewer has one request under way at a time, and a fetch that follows *)
(* an answer is one step with it: WebQueries has the races between them.   *)
(* Left out: the covers over sensitive text, and sizes and times.          *)
(***************************************************************************)
EXTENDS Naturals

CONSTANTS
    MaxPresses,  \* bound on the viewer's requests
    MaxBlunders  \* bound on the changes of others, and requests that fail, served or not

ASSUME WebMemoPageConstants == {MaxPresses, MaxBlunders} \subseteq Nat

VARIABLES
    visitor,   \* who looks at the page
    page,     \* where: see MemoPages
    shared,   \* whether the share link is still good
    store,    \* the server's memo and comment
    card,     \* the page's copies of the two
    opened,   \* the editor that is open: of a "memo", a "reply" or a new "comment"
    call,  \* the viewer's request, if any
    behind,   \* the cards whose memo others have changed since it was fetched
    presses, blunders

pageVars == <<visitor, page, shared, store, card, opened, call, behind, presses, blunders>>

Visitors == {"guest", "owner", "other", "admin"}
MemoPages == {"memo", "link", "profile", "home", "archived", "lost"}
Cards == {"memo", "reply"}
Visibilities == {"public", "protected", "private"}
Memo == [there : BOOLEAN, by : Visitors \ {"guest"}, visibility : Visibilities,
         archived : BOOLEAN, pinned : BOOLEAN, text : 0 .. 1, reacted : BOOLEAN]
NoMemo == [there |-> FALSE, by |-> "owner", visibility |-> "private", archived |-> FALSE, pinned |-> FALSE,
         text |-> 0, reacted |-> FALSE]

Reply(by, visibility) == [NoMemo EXCEPT !.there = TRUE, !.by = by, !.visibility = visibility]

NoCall == [op |-> "none", on |-> "memo", from |-> NoMemo, at |-> "idle", answer |-> NoMemo]

-----------------------------------------------------------------------------
(* What the server grants *)

\* canModifyMemo: its creator and administrators.
CanModify(m) == visitor \in {m.by, "admin"}

\* checkMemoReadAccess, and with a comment of its memo too.
ReadAccess(m) ==
    /\ m.there
    /\ m.archived => visitor = m.by
    /\ m.visibility = "protected" => visitor # "guest"
    /\ m.visibility = "private" => visitor = m.by

Readable(c) == ReadAccess(store[c]) /\ ReadAccess(store["memo"])

\* UpdateMemo, DeleteMemo, CreateMemoShare.
GrantsChange(c) == store[c].there /\ CanModify(store[c])

\* UpsertMemoReaction and CreateMemoComment: a private memo is its creator's and the administrators'.
GrantsReaction(c) ==
    /\ store[c].there /\ visitor # "guest"
    /\ store[c].visibility = "private" => CanModify(store[c])

\* DeleteMemoReaction finds the reaction that the card shows.
GrantsTakingBack(c) == visitor # "guest" /\ store[c].reacted

\* An edit first reads the memo again (memoService.save).
Grants(op, c) ==
    CASE op = "edit" -> GrantsChange(c) /\ Readable(c)
      [] op = "react" -> IF card[c].reacted THEN GrantsTakingBack(c) ELSE GrantsReaction(c)
      [] op = "comment" -> GrantsReaction(c)
      [] OTHER -> GrantsChange(c)

-----------------------------------------------------------------------------
(* What the page shows *)

\* The memos of a list are filtered once more by their state (useMemoSorting), after the cards were patched.
OnPage(c) ==
    /\ card["memo"].there /\ card[c].there
    /\ page \in {"profile", "home"} => ~card["memo"].archived
    /\ page = "archived" => card["memo"].archived

\* What the page's query brings: nothing if it is not in the list, or the list is refused.
Fetched(p) ==
    CASE p = "link" -> store["memo"]
      [] p = "profile" -> IF ReadAccess(store["memo"]) /\ ~store["memo"].archived THEN store["memo"] ELSE NoMemo
      [] p \in {"home", "archived"} ->
            IF visitor = store["memo"].by /\ store["memo"].archived = (p = "archived") THEN store["memo"] ELSE NoMemo
      [] OTHER -> IF ReadAccess(store["memo"]) THEN store["memo"] ELSE NoMemo

\* MemoDetail in its two modes: the memo by its name, or by a link that is good and not of an archived one.
Found(p) == IF p = "link" THEN shared /\ store["memo"].there /\ ~store["memo"].archived
            ELSE p = "memo" => ReadAccess(store["memo"])

\* useInfiniteMemoComments: if they are refused, those it had stay.
FetchedReply(before) ==
    IF ~ReadAccess(store["memo"]) THEN before
    ELSE IF ReadAccess(store["reply"]) THEN store["reply"] ELSE NoMemo

\* MemoCommentListView: under the card of a list there is a preview of the comments, which offers nothing.
PreviewedMemo(c) == c = "reply" /\ page \notin {"memo", "link"}

-----------------------------------------------------------------------------
(* What it offers *)

\* Mutant: whoever is signed in.
ReadonlyForGuests(c) == visitor = "guest"

\* MemoView
Readonly(c) == card[c].by # visitor /\ visitor # "admin"

\* MemoActionMenu
MenuOffers(c) ==
    {op \in {"pin", "edit", "tick", "state", "delete"} :
        /\ ~Readonly(c)
        /\ op \in {"pin", "edit", "tick"} => ~card[c].archived
        /\ op \in {"pin", "state"} => c = "memo"}

\* MemoHeader: the selector of reactions, and the bookmark of a pinned memo, which unpins it.
HeaderOffers(c) ==
    {op \in {"react", "bookmark"} :
        IF op = "react" THEN visitor # "guest" /\ ~card[c].archived
        ELSE c = "memo" /\ card[c].pinned /\ page \in {"memo", "link", "profile", "home"}}

\* MemoBody, useMemoHandlers: a double click opens the editor, of an archived memo as well, where the
\* instance has it so; the boxes of tasks are ticked there.
BodyOffers(c) == {op \in {"edit", "tick"} : ~Readonly(c)}

\* MemoDetailSidebar, which only the two pages of a single memo have.
SidebarOffers(c) ==
    {op \in {"share"} : c = "memo" /\ page \in {"memo", "link"} /\ visitor \in {card[c].by, "admin"}}

\* MemoCommentSection
SectionOffers(c) ==
    {op \in {"comment"} : c = "memo" /\ page \in {"memo", "link"} /\ visitor # "guest" /\ opened # "comment"}

\* MemoView shows the card, or in its place the editor.
Offered(c) ==
    IF ~OnPage(c) \/ PreviewedMemo(c) THEN {}
    ELSE SidebarOffers(c) \cup SectionOffers(c)
         \cup (IF opened = c THEN {} ELSE MenuOffers(c) \cup HeaderOffers(c) \cup BodyOffers(c))

-----------------------------------------------------------------------------
(* The viewer *)

\* What others changed stays unseen only as long as a card differs.
Catch == behind' = {c \in behind : card'[c] # store'[c]}

\* All of the page is fetched again; if its memo is not found, the page gives way (useMemoDetailError).
ShowPage(p) ==
    /\ page' = IF Found(p) THEN p ELSE "lost"
    /\ card' = IF Found(p) THEN [memo |-> Fetched(p), reply |-> FetchedReply(IF p = page THEN card["reply"] ELSE NoMemo)]
               ELSE [c \in Cards |-> NoMemo]
    /\ opened' = IF page' = page THEN opened ELSE "none"

PageInit ==
    /\ visitor \in Visitors /\ page \in {"memo", "link", "profile"} /\ shared = TRUE
    /\ \E visibility \in Visibilities, archived, pinned, replied \in BOOLEAN :
          LET m == [NoMemo EXCEPT !.there = TRUE, !.visibility = visibility, !.archived = archived, !.pinned = pinned]
          IN store = [memo |-> m, reply |-> IF replied THEN Reply("other", visibility) ELSE NoMemo]
    /\ Found(page)
    /\ card = [memo |-> Fetched(page), reply |-> FetchedReply(NoMemo)]
    /\ opened = "none" /\ call = NoCall /\ behind = {} /\ presses = 0 /\ blunders = 0

\* Updates are shown before they are answered, in the memo's own query and in lists, not in a link's.
Shows(c) == ~(page = "link" /\ c = "memo")

Patched(op, m) ==
    CASE op = "pin" -> [m EXCEPT !.pinned = ~@]
      [] op = "bookmark" -> [m EXCEPT !.pinned = FALSE]
      [] op = "tick" -> [m EXCEPT !.text = 1 - @]
      [] op = "state" -> [m EXCEPT !.archived = ~@]
      [] OTHER -> m

SendCall(op, c) ==
    /\ call = NoCall /\ presses < MaxPresses /\ presses' = presses + 1
    /\ call' = [NoCall EXCEPT !.op = op, !.on = c, !.from = card[c], !.at = "sent"]
    /\ card' = IF Shows(c) THEN [card EXCEPT ![c] = Patched(op, @)] ELSE card
    /\ UNCHANGED <<visitor, page, shared, store, opened, behind, blunders>>

Press(c) == \E op \in Offered(c) \ {"edit", "comment"} : SendCall(op, c)

\* The editor of a memo that is no longer on the page went with its card.
SaveEditor ==
    \/ opened \in Cards /\ OnPage(opened) /\ SendCall("edit", opened)
    \/ opened = "comment" /\ SendCall("comment", "memo")

OpenCardEditor(c) ==
    /\ opened = "none" /\ call = NoCall
    /\ \/ "edit" \in Offered(c) /\ opened' = c
       \/ "comment" \in Offered(c) /\ opened' = "comment"
    /\ UNCHANGED <<visitor, page, shared, store, card, call, behind, presses, blunders>>

\* closeEditor
CloseEditor ==
    /\ opened # "none" /\ call = NoCall /\ opened' = "none"
    /\ UNCHANGED <<visitor, page, shared, store, card, call, behind, presses, blunders>>

\* What the server makes of a request; an update carries the value that the card suggested.
Served(r) ==
    CASE r.op \in {"pin", "bookmark"} -> [store EXCEPT ![r.on].pinned = Patched(r.op, r.from).pinned]
      [] r.op = "state" -> [store EXCEPT ![r.on].archived = ~r.from.archived]
      [] r.op \in {"tick", "edit"} -> [store EXCEPT ![r.on].text = 1 - r.from.text]
      [] r.op = "react" -> [store EXCEPT ![r.on].reacted = ~r.from.reacted]
      [] r.op = "delete" -> [c \in Cards |-> IF r.on \in {c, "memo"} THEN NoMemo ELSE store[c]]
      [] r.op = "comment" -> IF store["reply"].there THEN store
                             ELSE [store EXCEPT !["reply"] = Reply(visitor, store["memo"].visibility)]
      [] OTHER -> store

ServerAnswers ==
    /\ call.at = "sent"
    /\ \/ /\ Grants(call.op, call.on) /\ store' = Served(call)
          /\ call' = [call EXCEPT !.at = "granted", !.answer = store'[call.on]]
       \/ ~Grants(call.op, call.on) /\ call' = [call EXCEPT !.at = "refused"] /\ UNCHANGED store
    /\ UNCHANGED <<visitor, page, shared, card, opened, behind, presses, blunders>>

\* The retry's answer is lost as well: to the page it is a refusal.
AnswerLost ==
    /\ call.at \in {"sent", "granted"} /\ blunders < MaxBlunders /\ blunders' = blunders + 1
    /\ call' = [call EXCEPT !.at = "refused"]
    /\ behind' = IF call.at = "granted" THEN Cards ELSE behind
    /\ UNCHANGED <<visitor, page, shared, store, card, opened, presses>>

\* useUpdateMemo.onError, and where nothing was shown in advance nothing is to undo.
Refused ==
    /\ call.at = "refused" /\ call' = NoCall
    /\ card' = IF call.op \in {"pin", "bookmark", "tick", "state"} /\ Shows(call.on)
               THEN [card EXCEPT ![call.on] = call.from] ELSE card
    /\ UNCHANGED <<visitor, page, shared, store, opened, behind, presses, blunders>>

\* The memo is set in its own query; lists and comments are fetched again.
Refresh(answer) ==
    /\ card' = IF call.on = "reply" THEN [card EXCEPT !["reply"] = FetchedReply(@)]
               ELSE CASE page = "memo" -> [card EXCEPT !["memo"] = answer]
                      [] page = "link" -> card
                      [] OTHER -> [card EXCEPT !["memo"] = Fetched(page)]
    /\ UNCHANGED page

\* Mutant: the list is chosen by what the card shows by now.
UpdatedByCard ==
    /\ call.at = "granted" /\ call.op \in {"pin", "bookmark", "tick", "state"}
    /\ call' = NoCall
    /\ IF call.op = "state" /\ page = "memo"
       THEN ShowPage(IF card["memo"].archived THEN "home" ELSE "archived")
       ELSE Refresh(call.answer) /\ UNCHANGED opened
    /\ UNCHANGED <<visitor, shared, store, presses, blunders>>
    /\ Catch

\* handleToggleMemoStatusClick: from the memo's own page to the list that it has moved to.
UpdatedMemo ==
    /\ call.at = "granted" /\ call.op \in {"pin", "bookmark", "tick", "state"}
    /\ call' = NoCall
    /\ IF call.op = "state" /\ page = "memo"
       THEN ShowPage(IF call.from.archived THEN "home" ELSE "archived")
       ELSE Refresh(call.answer) /\ UNCHANGED opened
    /\ UNCHANGED <<visitor, shared, store, presses, blunders>>
    /\ Catch

\* confirmDeleteMemo: from the memo's own page to the home list; a link's page keeps the card.
Removed ==
    /\ call.at = "granted" /\ call.op = "delete" /\ call' = NoCall
    /\ IF call.on = "memo" /\ page = "memo" THEN ShowPage("home")
       ELSE Refresh(NoMemo) /\ UNCHANGED opened
    /\ UNCHANGED <<visitor, shared, store, presses, blunders>>
    /\ Catch

\* useReactionActions reads the memo back; if that is refused the card stays as it is.
ReactedTo ==
    /\ call.at = "granted" /\ call.op = "react" /\ call' = NoCall
    /\ IF Readable(call.on) THEN Refresh(store["memo"]) ELSE UNCHANGED <<card, page>>
    /\ UNCHANGED <<visitor, shared, store, opened, presses, blunders>>
    /\ Catch

\* handleCommentCreated, closeEditor: after the queries were fetched again.
SavedMemo ==
    /\ call.at = "granted" /\ call.op \in {"edit", "comment"} /\ call' = NoCall
    /\ IF page = "memo" THEN ShowPage("memo") ELSE UNCHANGED page
    /\ page # "memo" => card' = IF page = "link" THEN [card EXCEPT !["reply"] = FetchedReply(@)]
                                ELSE [card EXCEPT !["memo"] = Fetched(page)]
    /\ opened' = "none"
    /\ UNCHANGED <<visitor, shared, store, presses, blunders>>
    /\ Catch

\* The share panel has opened.
Shared ==
    /\ call.at = "granted" /\ call.op = "share" /\ call' = NoCall
    /\ UNCHANGED <<visitor, page, shared, store, card, opened, behind, presses, blunders>>

\* From a list to the memo's page: by its time, or by its comments (handleGotoMemoDetailPage).
GotoMemoDetailPage ==
    /\ page \in {"profile", "home", "archived"} /\ OnPage("memo") /\ call = NoCall
    /\ ShowPage("memo")
    /\ UNCHANGED <<visitor, shared, store, call, presses, blunders>>
    /\ Catch

\* The window is looked at again, or the server told of a change.
RefetchCards ==
    /\ behind # {} /\ page # "lost" /\ call = NoCall
    /\ ShowPage(page)
    /\ UNCHANGED <<visitor, shared, store, call, presses, blunders>>
    /\ Catch

\* Others, or the viewer on another device.
Meddle ==
    /\ page # "lost" /\ blunders < MaxBlunders /\ blunders' = blunders + 1
    /\ \/ /\ store["memo"].there /\ UNCHANGED shared
          /\ \/ store' = [store EXCEPT !["memo"].pinned = ~@]
             \/ store' = [store EXCEPT !["memo"].archived = ~@]
             \/ store' = [store EXCEPT !["memo"].reacted = visitor # "guest" /\ ~@]
             \/ \E v \in Visibilities : store' = [store EXCEPT !["memo"].visibility = v]
       \/ store' = [c \in Cards |-> NoMemo] /\ UNCHANGED shared
       \/ store' = [store EXCEPT !["reply"] = NoMemo] /\ UNCHANGED shared
       \/ shared' = FALSE /\ UNCHANGED store
    /\ behind' = Cards
    /\ UNCHANGED <<visitor, page, card, opened, call, presses>>

PageNext ==
    \/ \E c \in Cards : Press(c) \/ OpenCardEditor(c)
    \/ SaveEditor \/ CloseEditor \/ ServerAnswers \/ AnswerLost \/ Refused
    \/ UpdatedMemo \/ Removed \/ ReactedTo \/ SavedMemo \/ Shared
    \/ GotoMemoDetailPage \/ RefetchCards \/ Meddle

PageSpec == PageInit /\ [][PageNext]_pageVars

-----------------------------------------------------------------------------
(* Properties *)

\* Three offers are not kept: the bookmark that readers of a pinned memo see (MemoHeader does not ask
\* for readonly), the edit of what one may change but not read (an administrator's, or of one's own
\* comment by the memo's link), and a reaction to, or a comment on, a private memo by its link.
NeverKept(op, c) ==
    \/ op = "bookmark" /\ Readonly(c)
    \/ op = "edit" /\ CanModify(card[c]) /\ ~Readable(c)
    \/ op \in {"react", "comment"} /\ page = "link" /\ card["memo"].visibility = "private" /\ visitor = "other"

\* What a page that is up to date offers, the server grants.
OffersAreGranted ==
    behind = {} /\ call = NoCall /\ (\A c \in Cards : OnPage(c) => card[c] = store[c])
    => \A c \in Cards : \A op \in Offered(c) : Grants(op, c) \/ NeverKept(op, c)

\* If nobody else has changed anything, the cards that one may read are what one's requests left, but
\* for the memo on the page of a link, which no answer reaches.
OwnChangesAreShown ==
    call = NoCall /\ behind = {}
    => \A c \in Cards : OnPage(c) /\ Shows(c) /\ Readable(c) => card[c] = store[c]

\* An owner who archives or restores a memo on its page lands on the list that has it.
LandsWithIt ==
    page = "memo" /\ page' \in {"home", "archived"} /\ call.op = "state" /\ visitor = "owner" /\ behind = {}
    => OnPage("memo")'

(* What a memo's page offers is granted, what was done there is shown, and where it leads the memo is:
   MemoView, MemoActionMenu, MemoHeader and MemoCommentSection, against the checks of memo_service.go
   and reaction_service.go. *)
MemoPageIsTrue == [][(OffersAreGranted /\ OwnChangesAreShown)' /\ LandsWithIt]_pageVars
================================================================================
