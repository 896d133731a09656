------------------------------ MODULE WebLibrary ------------------------------
(***************************************************************************)
(* Attachments in the web client: the library with its pages, tabs and the *)
(* deletion of what no memo uses, the viewer with its keys and zoom, and   *)
(* the list of an editor, whose items are moved and removed.  The paged    *)
(* list of memos fetches its pages the same way.                           *)
(*                                                                         *)
(* An attachment is the number of its upload.  A live photo is a still and *)
(* a clip of one group: two attachments, one item.  An item is the set of  *)
(* its attachments.  A page is read and arrives in one step; a fetch takes *)
(* a step for each of its pages.  Of two deletions of unused attachments   *)
(* at once, and of the window, only one is modelled.                       *)
(***************************************************************************)
EXTENDS Naturals, Sequences, FiniteSets

LOCAL INSTANCE SequencesExt
LOCAL INSTANCE FiniteSetsExt
LOCAL INSTANCE Functions

CONSTANTS
    Uploads,       \* sequences of kinds: what has been uploaded, oldest first
    PageSize,     \* rows of a page (50), and of a page of unused ones (1000)
    ChunkSize,    \* names in a batch (BATCH_DELETE_SIZE)
    MaxElsewhere, \* bound on the changes other devices make
    MaxSnags,     \* bound on requests that fail
    MaxTurns      \* bound on moves of items and of the viewer

AttachmentKinds == {"still", "clip", "container", "image", "video", "audio", "document", "psd"}

ASSUME WebLibraryConstants ==
    /\ Uploads \subseteq Seq(AttachmentKinds)
    /\ {PageSize, ChunkSize} \subseteq Nat \ {0} /\ {MaxElsewhere, MaxSnags, MaxTurns} \subseteq Nat

VARIABLES
    scene,     \* what is on the screen: "library", "memos" or an "editor"
    uploads,     \* the kinds of all attachments
    attachments, \* the server's rows, newest first
    memoed,    \* those some memo has
    pages,     \* the pages of the infinite query
    query,     \* its fetch: for all pages or one more, with what came so far
    outdated, \* something changed elsewhere, or a fetch gave way, since all pages were last asked for
    deletion, \* the deletion of all unused attachments
    viewer,    \* PreviewImageDialog
    unfolded,  \* showUnusedSection
    arranged,  \* the editor's attachments, and its files not uploaded yet
    kept,      \* those of them the user has not removed
    elsewhere, snags, turns

libraryVars == <<scene, uploads, attachments, memoed, pages, query, outdated, deletion, viewer, unfolded, arranged, kept, elsewhere, snags, turns>>

Ids == 1 .. Len(uploads)
Idle == [at |-> "idle", got |-> <<>>, error |-> FALSE]
NoDeletion == [at |-> "none", names |-> <<>>, from |-> 0, alone |-> TRUE, taken |-> {}]
NoViewer == [open |-> FALSE, index |-> 1, zoomed |-> FALSE, picked |-> {}, over |-> <<>>]

LibraryInit ==
    /\ scene = "none" /\ uploads \in Uploads
    /\ attachments = [i \in 1 .. Len(uploads) |-> Len(uploads) + 1 - i] /\ memoed \in SUBSET Ids
    /\ pages = <<>> /\ query = Idle /\ outdated = FALSE /\ deletion = NoDeletion /\ viewer = NoViewer /\ unfolded = FALSE
    /\ arranged = [saved |-> <<>>, local |-> <<>>] /\ kept = {}
    /\ elsewhere = 0 /\ snags = 0 /\ turns = 0

Snag == snags < MaxSnags /\ snags' = snags + 1
TakeTurn == turns < MaxTurns /\ turns' = turns + 1

-----------------------------------------------------------------------------
(* Items *)

\* isVisualAttachment; getAttachmentType does not take a Photoshop file for an image.
IsVisual(a) == uploads[a] \in {"still", "clip", "container", "image", "video"}

LivePhoto(s) == SelectSeq(s, LAMBDA a : uploads[a] \in {"still", "clip"})

\* "still && video && group.length === 2"
Paired(s) ==
    LET live == LivePhoto(s) IN Len(live) = 2 /\ uploads[live[1]] # uploads[live[2]]

\* buildAttachmentVisualItems: the two halves of a live photo are one item, all else single, and
\* what is there twice once.
VisualItems(s) ==
    LET live == IF Paired(s) THEN ToSet(LivePhoto(s)) ELSE {}
    IN {{a} : a \in ToSet(s) \ live} \cup {g \in {live} : g # {}}

\* Its still stands for a live photo.
Primary(item) == CHOOSE a \in item : Cardinality(item) = 1 \/ uploads[a] = "still"

\* The names of an item, the still first.
Members(item) == SetToSortSeq(item, LAMBDA a, b : uploads[a] = "still")

FirstAt(s, item) == CHOOSE i \in DOMAIN s : s[i] \in item /\ \A j \in 1 .. i - 1 : s[j] \notin item

InOrder(s, items) == SetToSortSeq(items, LAMBDA x, y : FirstAt(s, x) < FirstAt(s, y))

-----------------------------------------------------------------------------
(* The infinite query *)

AsRows(s) == [i \in DOMAIN s |-> [id |-> s[i], linked |-> s[i] \in memoed]]

\* ListAttachments: the token of the next page is an offset, given when the page is full.
Page(from, s) ==
    LET to == Min({from + PageSize, Len(s)})
    IN [rows |-> SubSeq(AsRows(s), from + 1, to), next |-> IF to = from + PageSize THEN to ELSE 0]

HasNextPage == pages # <<>> /\ Last(pages).next # 0

\* useInfiniteQuery fetches all the pages it has once more, and drops what it is fetching.
PagesRefetched == query' = [query EXCEPT !.at = "all", !.got = <<>>] /\ outdated' = FALSE

Refetch ==
    /\ PagesRefetched
    /\ UNCHANGED <<scene, uploads, attachments, memoed, pages, deletion, viewer, unfolded, arranged, kept, elsewhere, snags, turns>>

\* The library or a list of memos is shown for the first time, its error is retried, or the
\* window gets the focus and the pages are old.
OpenPage(s) ==
    /\ scene = "none" /\ scene' = s /\ PagesRefetched
    /\ UNCHANGED <<uploads, attachments, memoed, pages, deletion, viewer, unfolded, arranged, kept, elsewhere, snags, turns>>
OpenLibrary == OpenPage("library")
OpenMemos == OpenPage("memos")
Retry == scene = "library" /\ query.error /\ Refetch
FocusWindow == scene # "none" /\ scene # "editor" /\ query.at = "idle" /\ outdated /\ Refetch

\* fetchNextPage drops a fetch of all the pages, and with it the news that asked for it.
FetchNextPage ==
    /\ HasNextPage
    /\ outdated' = (outdated \/ query.at = "all")
    /\ query' = [query EXCEPT !.at = "more", !.got = <<>>]
    /\ UNCHANGED <<scene, uploads, attachments, memoed, pages, deletion, viewer, unfolded, arranged, kept, elsewhere, snags, turns>>

\* "Load more" is disabled while it works; the other lists fetch when their end comes into view.
LoadMore == scene = "library" /\ query.at # "more" /\ FetchNextPage
ScrollToEnd == scene = "memos" /\ query.at # "more" /\ FetchNextPage

\* "fetches more content when page isn't scrollable": its timers act on what they saw when they
\* were set, whatever is fetched meanwhile.
CheckAndFetchIfNeeded == scene = "memos" /\ Len(pages) = 1 /\ FetchNextPage

\* What the page shows of a list: the rows of its pages.
Flat(ps) == FlattenSeq([i \in DOMAIN ps |-> ps[i].rows])
ShownRows == Flat(pages)
Linked(rows) == LET hit == SelectSeq(rows, LAMBDA r : r.linked) IN [i \in DOMAIN hit |-> hit[i].id]

\* The media of the library, newest first.
MediaItems(rows) ==
    SetToSortSeq(VisualItems(SelectSeq(Linked(rows), IsVisual)), LAMBDA x, y : Primary(x) > Primary(y))

DocumentItems(rows) == SelectSeq(Linked(rows), LAMBDA a : uploads[a] \in {"document", "psd"})
AudioItems(rows) == SelectSeq(Linked(rows), LAMBDA a : uploads[a] = "audio")
UnusedItems(rows) == SelectSeq(rows, LAMBDA r : ~r.linked)

\* The tabs count their items, not their attachments.
Stats(rows) ==
    [unused |-> Len(UnusedItems(rows)), media |-> Len(MediaItems(rows)),
     documents |-> Len(DocumentItems(rows)), audio |-> Len(AudioItems(rows))]

-----------------------------------------------------------------------------
(* PreviewImageDialog: over the library's media, or over an editor's items *)

\* toLocalMotionItems: groups come before single files, each of any kind.
LocalItems(s) ==
    LET items == {{a} : a \in ToSet(s) \ (IF Paired(s) THEN ToSet(LivePhoto(s)) ELSE {})}
                 \cup {g \in {ToSet(LivePhoto(s))} : Paired(s)}
        grouped == {i \in items : i \cap ToSet(LivePhoto(s)) # {}}
    IN InOrder(s, grouped) \o InOrder(s, items \ grouped)

\* toAttachmentItems: media first, then audio and documents.  categorizeFile takes a Photoshop
\* file for an image, so that it is neither.
SavedItems(s) ==
    InOrder(s, VisualItems(SelectSeq(s, IsVisual)))
    \o InOrder(s, {{a} : a \in {b \in ToSet(s) : uploads[b] \in {"audio", "document"}}})

IsPreviewed(item) == \A a \in item : IsVisual(a)

\* A local Photoshop file is previewed as an image.
EditorMedia ==
    SelectSeq(SavedItems(arranged.saved), IsPreviewed)
    \o SelectSeq(LocalItems(arranged.local), LAMBDA x : IsPreviewed(x) \/ \A a \in x : uploads[a] = "psd")

Previewed(ps) == IF scene = "editor" THEN EditorMedia ELSE MediaItems(Flat(ps))

\* safeIndex: the list may have become shorter.
Safe(index, items) == IF Len(items) = 0 THEN {} ELSE items[Max({1, Min({index, Len(items)})})]
CurrentItem == Safe(viewer.index, Previewed(pages))
IsImage(item) == item # {} /\ Cardinality(item) = 1 /\ \A a \in item : uploads[a] \in {"still", "image", "psd"}

\* Another item, zoomScale 1: the effect on currentItem.id.
Zooming(index, items) == viewer.zoomed /\ Safe(index, items) = CurrentItem

ViewerStays ==
    UNCHANGED <<scene, uploads, attachments, memoed, pages, query, outdated, deletion, unfolded, arranged, kept, elsewhere, snags>>

FirstIn(s, x) == Min({i \in DOMAIN s : s[i] = x})

\* handlePreview, handlePreviewItem: opened at the index of the item.
HandlePreview(item) ==
    LET items == Previewed(pages)
    IN /\ ~viewer.open /\ item \in ToSet(items) /\ ~query.error
       /\ viewer' = [open |-> TRUE, index |-> FirstIn(items, item), zoomed |-> FALSE,
                     picked |-> item, over |-> items]
       /\ TakeTurn /\ ViewerStays

\* Arrow keys and buttons; then nothing is said of what was picked.
Browse(step) ==
    LET items == Previewed(pages)
        to == IF step = "next" THEN Min({viewer.index + 1, Max({Len(items), 1})}) ELSE Max({viewer.index - 1, 1})
    IN /\ viewer.open /\ items # <<>>
       /\ viewer' = [viewer EXCEPT !.index = to, !.zoomed = Zooming(to, items), !.picked = {}]
       /\ TakeTurn /\ ViewerStays
HandleNext == Browse("next")
HandlePrevious == Browse("previous")

\* The wheel, the buttons and the double click are there for images only.
UpdateZoom ==
    /\ viewer.open /\ IsImage(CurrentItem)
    /\ viewer' = [viewer EXCEPT !.zoomed = ~@]
    /\ TakeTurn /\ ViewerStays

\* Escape, the button, or a click next to an image that is not zoomed.
HandleClose ==
    /\ viewer.open /\ viewer' = [viewer EXCEPT !.open = FALSE, !.zoomed = FALSE, !.picked = {}, !.over = <<>>]
    /\ UNCHANGED turns /\ ViewerStays

\* The pages change under an open viewer.
Reshow(ps) ==
    /\ viewer' = [viewer EXCEPT !.zoomed = Zooming(viewer.index, Previewed(ps))]
    /\ unfolded' = (unfolded /\ Stats(Flat(ps)).unused > 0)

-----------------------------------------------------------------------------
(* Answers *)

\* The next page of a fetch of all: as many as there were, while there are more.
PageArrives ==
    LET from == IF query.got = <<>> THEN 0 ELSE Last(query.got).next
        got == Append(query.got, Page(from, attachments))
        done == Last(got).next = 0 \/ Len(got) >= Len(pages)
    IN /\ query.at = "all"
       /\ pages' = IF done THEN got ELSE pages
       /\ query' = IF done THEN Idle ELSE [query EXCEPT !.got = got]
       /\ deletion' = IF done /\ deletion.at = "refetch" THEN [deletion EXCEPT !.at = "done"] ELSE deletion
       /\ Reshow(pages')
       /\ UNCHANGED <<scene, uploads, attachments, memoed, outdated, arranged, kept, elsewhere, snags, turns>>

MoreArrives ==
    /\ query.at = "more"
    /\ pages' = Append(pages, Page(Last(pages).next, attachments))
    /\ query' = Idle
    /\ Reshow(pages')
    /\ UNCHANGED <<scene, uploads, attachments, memoed, outdated, deletion, arranged, kept, elsewhere, snags, turns>>

\* The pages stay, but the library shows the error in their place, whichever fetch it was.
PageFails ==
    /\ query.at # "idle" /\ Snag
    /\ query' = [Idle EXCEPT !.error = TRUE]
    /\ outdated' = TRUE
    /\ deletion' = IF deletion.at = "refetch" THEN [deletion EXCEPT !.at = "done"] ELSE deletion
    /\ UNCHANGED <<scene, uploads, attachments, memoed, pages, viewer, unfolded, arranged, kept, elsewhere, turns>>

-----------------------------------------------------------------------------
(* handleDeleteUnusedAttachments *)

JobStays == UNCHANGED <<scene, uploads, pages, viewer, unfolded, arranged, kept, elsewhere, turns>>

ConfirmDeletion ==
    /\ scene = "library" /\ deletion.at \in {"none", "done", "failed"} /\ Stats(ShownRows).unused > 0
    /\ deletion' = [NoDeletion EXCEPT !.at = "list"]
    /\ UNCHANGED <<attachments, memoed, query, outdated, snags>> /\ JobStays

Unused == SelectSeq(attachments, LAMBDA a : a \notin memoed)

\* After the names: none, or the first batch.
Listed(names, next) ==
    IF next # 0 THEN [deletion EXCEPT !.names = names, !.from = next]
    ELSE [deletion EXCEPT !.names = names, !.from = 0, !.at = IF names = <<>> THEN "refetch" ELSE "delete"]

\* Mutant: each page is deleted before the next one is read, at an offset that has moved.
ListAndDelete ==
    LET page == Page(deletion.from, Unused)
        names == deletion.names \o [i \in DOMAIN page.rows |-> page.rows[i].id]
        gone == {page.rows[i].id : i \in DOMAIN page.rows}
    IN /\ deletion.at = "list"
       /\ attachments' = SelectSeq(attachments, LAMBDA a : a \notin gone)
       /\ deletion' = Listed(<<>>, page.next)
       /\ IF deletion'.at = "refetch" THEN PagesRefetched ELSE UNCHANGED <<query, outdated>>
       /\ UNCHANGED <<memoed, snags>> /\ JobStays

\* listUnusedAttachmentNames: every page, before anything is deleted.
ListUnusedAttachmentNames ==
    LET page == Page(deletion.from, Unused)
        names == deletion.names \o [i \in DOMAIN page.rows |-> page.rows[i].id]
    IN /\ deletion.at = "list"
       /\ deletion' = Listed(names, page.next)
       /\ IF deletion'.at = "refetch" THEN PagesRefetched ELSE UNCHANGED <<query, outdated>>
       /\ UNCHANGED <<attachments, memoed, snags>> /\ JobStays

Chunk == SubSeq(deletion.names, 1, Min({ChunkSize, Len(deletion.names)}))

\* useBatchDeleteAttachments: a batch goes whole or not at all, linked meanwhile or not, and the
\* list is fetched again after each; after the last the handler does so once more.
BatchDelete ==
    LET rest == SubSeq(deletion.names, Len(Chunk) + 1, Len(deletion.names))
    IN /\ deletion.at = "delete" /\ ToSet(Chunk) \subseteq ToSet(attachments)
       /\ attachments' = SelectSeq(attachments, LAMBDA a : a \notin ToSet(Chunk))
       /\ memoed' = memoed \ ToSet(Chunk)
       /\ deletion' = [deletion EXCEPT !.names = rest, !.at = IF rest = <<>> THEN "refetch" ELSE "delete"]
       /\ PagesRefetched
       /\ UNCHANGED snags /\ JobStays

\* One of the batch is gone: the request is refused, and the rest stays.
BatchRefused ==
    /\ deletion.at = "delete" /\ ~(ToSet(Chunk) \subseteq ToSet(attachments))
    /\ deletion' = [NoDeletion EXCEPT !.at = "failed"]
    /\ UNCHANGED <<attachments, memoed, query, outdated, snags>> /\ JobStays

\* A request fails before or after it was served; served once more it finds nothing.
DeletionFails ==
    /\ deletion.at \in {"list", "delete"} /\ Snag
    /\ deletion' = [NoDeletion EXCEPT !.at = "failed"]
    /\ \/ UNCHANGED <<attachments, memoed, outdated>>
       \/ /\ deletion.at = "delete" /\ outdated' = TRUE
          /\ attachments' = SelectSeq(attachments, LAMBDA a : a \notin ToSet(Chunk))
          /\ memoed' = memoed \ ToSet(Chunk)
    /\ UNCHANGED query /\ JobStays

ToggleUnused ==
    /\ scene = "library" /\ Stats(ShownRows).unused > 0 /\ unfolded' = ~unfolded
    /\ TakeTurn
    /\ UNCHANGED <<scene, uploads, attachments, memoed, pages, query, outdated, deletion, viewer, arranged, kept, elsewhere, snags>>

\* Another device deletes an attachment, or takes one into a memo or out of it, or uploads one.
ChangeElsewhere ==
    /\ scene # "none" /\ scene # "editor" /\ elsewhere < MaxElsewhere /\ elsewhere' = elsewhere + 1
    /\ \/ \E a \in ToSet(attachments) :
            \/ attachments' = SelectSeq(attachments, LAMBDA b : b # a) /\ memoed' = memoed \ {a} /\ UNCHANGED uploads
            \/ memoed' = (memoed \ {a}) \cup ({a} \ memoed) /\ UNCHANGED <<uploads, attachments>>
       \/ /\ uploads' = Append(uploads, "document") /\ attachments' = <<Len(uploads) + 1>> \o attachments /\ UNCHANGED memoed
    /\ outdated' = TRUE /\ deletion' = [deletion EXCEPT !.alone = FALSE, !.taken = @ \cup (memoed' \ memoed)]
    /\ UNCHANGED <<scene, pages, query, viewer, unfolded, arranged, kept, snags, turns>>

-----------------------------------------------------------------------------
(* AttachmentListEditor *)

EditorStays == UNCHANGED <<uploads, attachments, memoed, pages, query, outdated, deletion, viewer, unfolded, elsewhere, snags>>

\* The editor of a memo that has the linked attachments, and of files not uploaded yet.
OpenEditor ==
    /\ scene = "none" /\ scene' = "editor"
    /\ arranged' = [saved |-> Linked(AsRows(attachments)), local |-> Unused]
    /\ kept' = ToSet(arranged'.saved) \cup ToSet(arranged'.local)
    /\ UNCHANGED turns /\ EditorStays

ItemsOf(list) == IF list = "saved" THEN SavedItems(arranged.saved) ELSE LocalItems(arranged.local)

\* handleMoveAttachments and handleMoveLocalFiles: two items change places, and the files are
\* those of the items.
Move(list, i) ==
    LET items == ItemsOf(list)
        swapped == [items EXCEPT ![i] = items[i + 1], ![i + 1] = items[i]]
    IN /\ scene = "editor" /\ ~viewer.open /\ {i, i + 1} \subseteq DOMAIN items
       /\ arranged' = [arranged EXCEPT ![list] = FlattenSeq([k \in DOMAIN swapped |-> Members(swapped[k])])]
       /\ TakeTurn /\ UNCHANGED <<scene, kept>> /\ EditorStays
HandleMoveAttachments == \E i \in 1 .. Len(arranged.saved) : Move("saved", i)
HandleMoveLocalFiles == \E i \in 1 .. Len(arranged.local) : Move("local", i)

\* handleRemoveItem: both halves of a live photo.
HandleRemoveItem(list, item) ==
    /\ scene = "editor" /\ ~viewer.open /\ item \in ToSet(ItemsOf(list))
    /\ arranged' = [arranged EXCEPT ![list] = SelectSeq(@, LAMBDA a : a \notin item)]
    /\ kept' = kept \ item
    /\ TakeTurn /\ UNCHANGED scene /\ EditorStays

LibraryNext ==
    \/ OpenLibrary \/ OpenMemos \/ OpenEditor \/ Retry \/ FocusWindow \/ LoadMore \/ ScrollToEnd \/ CheckAndFetchIfNeeded
    \/ PageArrives \/ MoreArrives \/ PageFails
    \/ ConfirmDeletion \/ ListUnusedAttachmentNames \/ BatchDelete \/ BatchRefused \/ DeletionFails
    \/ ToggleUnused \/ ChangeElsewhere
    \/ \E item \in ToSet(Previewed(pages)) : HandlePreview(item)
    \/ HandleNext \/ HandlePrevious \/ UpdateZoom \/ HandleClose
    \/ HandleMoveAttachments \/ HandleMoveLocalFiles
    \/ \E list \in {"saved", "local"}, item \in SUBSET Ids : HandleRemoveItem(list, item)

-----------------------------------------------------------------------------
(* Properties *)

\* With nothing under way the pages are the server's first rows as they are, each once, however
\* fetches, batches and failures interleaved; unless another device changed them, an answer was
\* lost, or a page more was asked for in place of all (useAttachmentLibrary, useInfiniteMemos).
LibraryIsFresh ==
    /\ query.at = "idle" /\ pages # <<>> /\ ~outdated /\ deletion.at \notin {"list", "delete", "refetch"}
    => Len(ShownRows) <= Len(attachments) /\ ShownRows = SubSeq(AsRows(attachments), 1, Len(ShownRows))

\* A deletion of all unused attachments that went well left none (handleDeleteUnusedAttachments).
NoneUnused == deletion.at = "done" /\ deletion.alone => Unused = <<>>

\* "delete all unused resources" (locales/en.json): none that a memo has goes with them, unless it
\* was taken into one after the deletion was confirmed: the names are not looked at again.
BatchIsUnused == deletion.at = "delete" => ToSet(deletion.names) \cap memoed \subseteq deletion.taken

\* The viewer shows the item it was opened on until the user moves on or the items change, and no
\* item but an image is ever enlarged (PreviewImageDialog).
ViewerIsRight ==
    viewer.open =>
        /\ viewer.picked # {} /\ Previewed(pages) = viewer.over => CurrentItem = viewer.picked
        /\ viewer.zoomed => IsImage(CurrentItem)

\* Moving items about loses none of the editor's files, but for saved Photoshop files, which have
\* no item there (AttachmentListEditor, toAttachmentItems).
MovesKeepFiles ==
    {a \in kept : uploads[a] # "psd"} \subseteq ToSet(arranged.saved) \cup ToSet(arranged.local)

\* Every row is under one tab or unused, and counted there, but that the halves of a live photo
\* are one (useAttachmentLibrary).
RowsHaveAPlace ==
    LET stats == Stats(ShownRows)
        halves == IF Paired(Linked(ShownRows)) THEN 1 ELSE 0
    IN IsInjective(Linked(ShownRows))
       => stats.unused + stats.media + stats.documents + stats.audio + halves = Len(ShownRows)

\* RowsHaveAPlace, LibraryIsFresh, NoneUnused, BatchIsUnused, ViewerIsRight and MovesKeepFiles.
LibraryIsTrue ==
    RowsHaveAPlace /\ LibraryIsFresh /\ NoneUnused /\ BatchIsUnused /\ ViewerIsRight /\ MovesKeepFiles

===============================================================================
