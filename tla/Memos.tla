-------------------------------- MODULE Memos ---------------------------------
(***************************************************************************)
(* Memos with what hangs on them: comments and references, which are rows  *)
(* of memo_relation, and attachments, whose files lie beside the database. *)
(* server/router/api/v1/memo_service.go and its helpers, store/memo.go,    *)
(* store/attachment.go.                                                    *)
(*                                                                         *)
(* Requests run concurrently and no transaction spans their calls; a step  *)
(* is one call that changes something, or one whose answer is used later.  *)
(* There are no foreign keys.  A call may fail, which ends the request     *)
(* where it is; so does a panic, which the server recovers from.           *)
(*                                                                         *)
(* Left out: content, visibility and access checks; reactions, shares and  *)
(* inboxes; uploads (every attachment is there at first); motion photos;   *)
(* attachments that are stored elsewhere.  Lists come in any order.        *)
(***************************************************************************)
EXTENDS Naturals, Sequences, FiniteSets

CONSTANTS
    Workers,      \* goroutines that serve requests
    MemoIds, AttachmentIds,
    Paths,        \* update masks, in the order of their paths
    ListLimit,    \* what ListAttachments returns at most, 100 in the code
    MaxRequests,  \* bound on requests
    MaxErrors,    \* bound on failing calls
    None          \* neither a memo nor an attachment

ASSUME MemosConstants ==
    /\ Paths \subseteq Seq({"attach", "relate"})
    /\ ListLimit \in Nat /\ MaxRequests \in Nat /\ MaxErrors \in Nat
    /\ None \notin MemoIds \cup AttachmentIds

VARIABLES
    memos,        \* the ids of the rows of memo
    used,         \* ids that are taken for good (AUTOINCREMENT)
    relations,    \* the rows of memo_relation
    attachments,  \* the ids of the rows of attachment
    memoOf,       \* their memo_id
    files,        \* of which attachment there is a file
    request,      \* what each worker is about
    requests,     \* requests that came in
    errors,       \* failed calls
    commentOf,    \* the memo each one was made a comment of
    aborted,      \* memos whose deletion was left half way
    overlapped,   \* two requests ran at the same time
    split         \* attachments left with only their row, or only their file

rows == <<memos, used, relations, attachments, memoOf>>
bounds == <<requests, errors>>
history == <<commentOf, aborted, overlapped, split>>
memosVars == <<rows, files, request, bounds, history>>

Relation == [memo : MemoIds, related : MemoIds, type : {"COMMENT", "REFERENCE"}]

Idle == [at |-> "idle", memo |-> None, plan |-> <<>>, want |-> {}, refs |-> {},
         parent |-> None, drop |-> {}, one |-> None, then |-> "idle",
         victims |-> {}, other |-> None]

MemosInit ==
    /\ memos = {} /\ used = {} /\ relations = {}
    /\ attachments = AttachmentIds
    /\ memoOf = [a \in AttachmentIds |-> None]
    /\ files = AttachmentIds
    /\ request = [w \in Workers |-> Idle]
    /\ requests = 0 /\ errors = 0
    /\ commentOf = [m \in MemoIds |-> None]
    /\ aborted = {} /\ overlapped = FALSE /\ split = {}

\* ListAttachments with its default limit.
Listings(m) ==
    LET all == {a \in attachments : memoOf[a] = m} IN
    {s \in SUBSET all :
        Cardinality(s) = IF Cardinality(all) < ListLimit THEN Cardinality(all) ELSE ListLimit}

-----------------------------------------------------------------------------

At(w, stage) == request[w].at = stage

\* The request goes on as r, or is over.
Do(w, r) == request' = [request EXCEPT ![w] = IF r.at = "idle" THEN Idle ELSE r]

\* The next part of CreateMemo or UpdateMemo.
Proceed(r) ==
    IF r.plan = <<>> THEN Idle
    ELSE [r EXCEPT !.at = Head(r.plan), !.plan = Tail(r.plan)]

AfterKeep(r) == IF r.want # {} THEN [r EXCEPT !.at = "keep"] ELSE Proceed(r)

AfterDrop(r) ==
    IF r.drop # {} THEN [r EXCEPT !.at = "drop"]
    ELSE IF r.then = "keep" THEN AfterKeep(r)
    ELSE [r EXCEPT !.at = r.then]

AfterRefer(r) == IF r.refs \ {r.memo} # {} THEN [r EXCEPT !.at = "refer"] ELSE Proceed(r)

Deleting == {"severTo", "list", "drop", "dropRow", "row"}

\* Worker w is in the middle of Store.DeleteMemo of m.
Cuts(w, m) == request[w].at \in Deleting /\ request[w].then = "row" /\ request[w].other = m

\* The attachments whose file or row is all that worker w has deleted so far.
HalfGone(w) ==
    {a \in AttachmentIds : request[w].one = a \/ (At(w, "unlink") /\ a \in request[w].drop)}

\* An error or a panic; a deletion under way stays where it is.
Abort(w) ==
    /\ Do(w, Idle)
    /\ aborted' = aborted \cup {m \in MemoIds : Cuts(w, m)}
    /\ split' = split \cup HalfGone(w)
    /\ UNCHANGED <<commentOf, overlapped>>

Begin(w, r) ==
    /\ At(w, "idle") /\ requests < MaxRequests
    /\ requests' = requests + 1
    /\ Do(w, r)
    /\ overlapped' = (overlapped \/ \E x \in Workers : ~At(x, "idle"))
    /\ UNCHANGED <<rows, files, errors, commentOf, aborted, split>>

\* CreateMemo, and CreateMemoComment of an existing memo.
CreateMemo(w, parent, want, refs) ==
    /\ parent \in memos \cup {None}
    /\ Begin(w, [Idle EXCEPT !.at = "create", !.parent = parent, !.want = want, !.refs = refs,
            !.plan = (IF want = {} THEN <<>> ELSE <<"attach">>)
                     \o (IF refs = {} THEN <<>> ELSE <<"relate">>)
                     \o (IF parent = None THEN <<>> ELSE <<"comment">>)])

\* UpdateMemo with paths "attachments" and "relations", SetMemoAttachments,
\* SetMemoRelations.
UpdateMemo(w, m, plan, want, refs) ==
    /\ m \in memos
    /\ Begin(w, Proceed([Idle EXCEPT !.memo = m, !.plan = plan, !.want = want, !.refs = refs]))

DeleteMemo(w, m) ==
    /\ m \in memos
    /\ Begin(w, [Idle EXCEPT !.at = "comments", !.memo = m])

DeleteAttachment(w, a) ==
    /\ a \in attachments
    /\ Begin(w, [Idle EXCEPT !.at = "drop", !.drop = {a}])

BatchDeleteAttachments(w, s) ==
    /\ s \subseteq attachments
    /\ Begin(w, [Idle EXCEPT !.at = "batch", !.drop = s])

(* CreateMemo, CreateMemoComment *)

InsertMemo(w, m) ==
    /\ At(w, "create") /\ m \in MemoIds \ used
    /\ used' = used \cup {m}
    /\ memos' = memos \cup {m}
    /\ Do(w, Proceed([request[w] EXCEPT !.memo = m]))
    /\ UNCHANGED <<relations, attachments, memoOf, files, bounds, history>>

\* The comment is looked up by its uid, ...
FindComment(w) ==
    /\ At(w, "comment")
    /\ IF request[w].memo \in memos
       THEN Do(w, [request[w] EXCEPT !.at = "tie"]) /\ UNCHANGED history
       ELSE Abort(w)
    /\ UNCHANGED <<rows, files, bounds>>

\* ... and tied to its parent.
Tie(w) ==
    /\ At(w, "tie")
    /\ LET r == request[w] IN
        /\ relations' = relations \cup {[memo |-> r.memo, related |-> r.parent, type |-> "COMMENT"]}
        /\ commentOf' = [commentOf EXCEPT ![r.memo] = r.parent]
    /\ Do(w, Idle)
    /\ UNCHANGED <<memos, used, attachments, memoOf, files, bounds, aborted, overlapped, split>>

(* setMemoAttachmentsInternal *)

\* What the memo has now, and the requested attachments.
ListCurrent(w) ==
    /\ At(w, "attach")
    /\ LET r == request[w] IN
        IF r.want \subseteq attachments
        THEN /\ \E current \in Listings(r.memo) :
                 Do(w, AfterDrop([r EXCEPT !.drop = current \ r.want, !.then = "keep"]))
             /\ UNCHANGED history
        ELSE Abort(w)
    /\ UNCHANGED <<rows, files, bounds>>

\* UpdateAttachment, whether or not there still is such a row or memo.
Keep(w, a) ==
    /\ At(w, "keep") /\ a \in request[w].want
    /\ memoOf' = [memoOf EXCEPT ![a] = IF a \in attachments THEN request[w].memo ELSE @]
    /\ Do(w, AfterKeep([request[w] EXCEPT !.want = @ \ {a}]))
    /\ UNCHANGED <<memos, used, relations, attachments, files, bounds, history>>

(* Store.DeleteAttachment; the memo_id it may be given is not looked at. *)

\* The row is read and the file deleted, which need not be there.
Drop(w, a) ==
    /\ At(w, "drop") /\ a \in request[w].drop
    /\ IF a \in attachments
       THEN /\ files' = files \ {a}
            /\ Do(w, [request[w] EXCEPT !.at = "dropRow", !.one = a])
            /\ UNCHANGED history
       ELSE Abort(w) /\ UNCHANGED files
    /\ UNCHANGED <<rows, bounds>>

DropRow(w) ==
    /\ At(w, "dropRow")
    /\ LET r == request[w] IN
        /\ attachments' = attachments \ {r.one}
        /\ memoOf' = [memoOf EXCEPT ![r.one] = None]
        /\ split' = split \ {r.one}
        /\ Do(w, AfterDrop([r EXCEPT !.drop = @ \ {r.one}, !.one = None]))
    /\ UNCHANGED <<memos, used, relations, files, bounds, commentOf, aborted, overlapped>>

(* Store.DeleteAttachments *)

\* Mutant: the files are left to nobody.
BatchRowsOnly(w) ==
    /\ At(w, "batch")
    /\ attachments' = attachments \ request[w].drop
    /\ memoOf' = [a \in AttachmentIds |-> IF a \in request[w].drop THEN None ELSE memoOf[a]]
    /\ Do(w, Idle)
    /\ UNCHANGED <<memos, used, relations, files, bounds, history>>

\* All rows in one transaction ...
BatchRows(w) ==
    /\ At(w, "batch")
    /\ attachments' = attachments \ request[w].drop
    /\ memoOf' = [a \in AttachmentIds |-> IF a \in request[w].drop THEN None ELSE memoOf[a]]
    /\ Do(w, [request[w] EXCEPT !.at = IF request[w].drop = {} THEN "idle" ELSE "unlink"])
    /\ UNCHANGED <<memos, used, relations, files, bounds, history>>

\* ... then their files.
BatchUnlink(w, a) ==
    /\ At(w, "unlink") /\ a \in request[w].drop
    /\ files' = files \ {a}
    /\ split' = split \ {a}
    /\ LET left == request[w].drop \ {a} IN
        Do(w, [request[w] EXCEPT !.drop = left, !.at = IF left = {} THEN "idle" ELSE @])
    /\ UNCHANGED <<rows, bounds, commentOf, aborted, overlapped>>

(* setMemoRelationsInternal *)

\* Mutant: comments are not told from references.
RelateAll(w) ==
    /\ At(w, "relate")
    /\ relations' = {i \in relations : i.memo # request[w].memo}
    /\ Do(w, AfterRefer(request[w]))
    /\ UNCHANGED <<memos, used, attachments, memoOf, files, bounds, history>>

Relate(w) ==
    /\ At(w, "relate")
    /\ relations' = {i \in relations : i.memo # request[w].memo \/ i.type # "REFERENCE"}
    /\ Do(w, AfterRefer(request[w]))
    /\ UNCHANGED <<memos, used, attachments, memoOf, files, bounds, history>>

\* GetMemo of a related memo; nothing asks whether it is there.
Refer(w, m) ==
    /\ At(w, "refer") /\ m \in request[w].refs \ {request[w].memo}
    /\ IF m \in memos
       THEN Do(w, [request[w] EXCEPT !.at = "insert", !.other = m]) /\ UNCHANGED history
       ELSE Abort(w)
    /\ UNCHANGED <<rows, files, bounds>>

InsertReference(w) ==
    /\ At(w, "insert")
    /\ LET r == request[w] IN
        /\ relations' = relations \cup {[memo |-> r.memo, related |-> r.other, type |-> "REFERENCE"]}
        /\ Do(w, AfterRefer([r EXCEPT !.refs = @ \ {r.other}, !.other = None]))
    /\ UNCHANGED <<memos, used, attachments, memoOf, files, bounds, history>>

(* DeleteMemo, and Store.DeleteMemo for each comment and the memo itself. *)

\* Direct comments only.
ListComments(w) ==
    /\ At(w, "comments")
    /\ LET m == request[w].memo IN
        Do(w, [request[w] EXCEPT !.at = "sever", !.victims =
                {i.memo : i \in {j \in relations : j.related = m /\ j.type = "COMMENT"}}])
    /\ UNCHANGED <<rows, files, bounds, history>>

\* The memo goes when its comments are gone.
Sever(w, m) ==
    /\ At(w, "sever")
    /\ m \in IF request[w].victims = {} THEN {request[w].memo} ELSE request[w].victims
    /\ relations' = {i \in relations : i.memo # m}
    /\ Do(w, [request[w] EXCEPT !.at = "severTo", !.other = m, !.then = "row"])
    /\ UNCHANGED <<memos, used, attachments, memoOf, files, bounds, history>>

\* Mutant: relations to the memo are left.
SeverToSkipped(w) ==
    /\ At(w, "severTo")
    /\ Do(w, [request[w] EXCEPT !.at = "list"])
    /\ UNCHANGED <<rows, files, bounds, history>>

SeverTo(w) ==
    /\ At(w, "severTo")
    /\ relations' = {i \in relations : i.related # request[w].other}
    /\ Do(w, [request[w] EXCEPT !.at = "list"])
    /\ UNCHANGED <<memos, used, attachments, memoOf, files, bounds, history>>

ListForDeletion(w) ==
    /\ At(w, "list")
    /\ \E all \in Listings(request[w].other) :
        Do(w, AfterDrop([request[w] EXCEPT !.drop = all]))
    /\ UNCHANGED <<rows, files, bounds, history>>

DeleteRow(w) ==
    /\ At(w, "row")
    /\ LET r == request[w] IN
        /\ memos' = memos \ {r.other}
        /\ Do(w, IF r.other = r.memo THEN Idle
                 ELSE [r EXCEPT !.at = "sever", !.victims = @ \ {r.other}, !.other = None])
    /\ UNCHANGED <<used, relations, attachments, memoOf, files, bounds, history>>

\* A call fails.
Fail(w) ==
    /\ errors < MaxErrors /\ errors' = errors + 1
    /\ ~At(w, "idle")
    /\ Abort(w)
    /\ UNCHANGED <<rows, files, requests>>

Requests(w) ==
    \/ \E parent \in MemoIds \cup {None}, want \in SUBSET AttachmentIds, refs \in SUBSET MemoIds :
        CreateMemo(w, parent, want, refs)
    \/ \E m \in MemoIds, plan \in Paths, want \in SUBSET AttachmentIds, refs \in SUBSET MemoIds :
        UpdateMemo(w, m, plan, want, refs)
    \/ \E m \in MemoIds : DeleteMemo(w, m)
    \/ \E a \in AttachmentIds : DeleteAttachment(w, a)
    \/ \E s \in SUBSET AttachmentIds : BatchDeleteAttachments(w, s)

MemoStep(w) ==
    \/ \E m \in MemoIds : InsertMemo(w, m) \/ Refer(w, m) \/ Sever(w, m)
    \/ FindComment(w) \/ Tie(w) \/ Relate(w) \/ InsertReference(w)
    \/ ListComments(w) \/ SeverTo(w) \/ ListForDeletion(w) \/ DeleteRow(w)

AttachmentStep(w) ==
    \/ \E a \in AttachmentIds : Keep(w, a) \/ Drop(w, a) \/ BatchUnlink(w, a)
    \/ ListCurrent(w) \/ DropRow(w) \/ BatchRows(w)

MemosNext == \E w \in Workers : Requests(w) \/ MemoStep(w) \/ AttachmentStep(w) \/ Fail(w)

MemosSpec == MemosInit /\ [][MemosNext]_memosVars

-----------------------------------------------------------------------------
(* Properties *)

MemosTypeOK ==
    /\ memos \subseteq used /\ used \subseteq MemoIds
    /\ relations \subseteq Relation
    /\ attachments \subseteq AttachmentIds /\ files \subseteq AttachmentIds
    /\ memoOf \in [AttachmentIds -> MemoIds \cup {None}]
    /\ \A a \in AttachmentIds \ attachments : memoOf[a] = None
    /\ commentOf \in [MemoIds -> MemoIds \cup {None}]
    /\ aborted \subseteq MemoIds /\ overlapped \in BOOLEAN
    /\ \A w \in Workers :
        /\ request[w].memo \in used \cup {None} /\ request[w].other \in used \cup {None}
        /\ request[w].drop \subseteq AttachmentIds

\* "store.DeleteMemo handles relation and attachment cleanup": nothing refers to
\* a memo that is gone, as long as requests do not overlap and whatever fails.
NothingLeft ==
    ~overlapped =>
        /\ \A a \in attachments : memoOf[a] \in memos \cup {None}
        /\ \A i \in relations : i.memo \in memos /\ i.related \in memos

BeingDeleted(m) == \E w \in Workers : Cuts(w, m)

\* "Inserting/Deleting a comment is handled elsewhere": whatever requests run, a
\* comment does not turn into a memo of its own unless a deletion of it or of its
\* parent is under way or was left half way.
CommentKeepsPlace ==
    \A c \in memos :
        commentOf[c] \in memos /\ {c, commentOf[c]} \cap aborted = {}
        /\ ~BeingDeleted(c) /\ ~BeingDeleted(commentOf[c])
        => [memo |-> c, related |-> commentOf[c], type |-> "COMMENT"] \in relations

\* Rows and requests are what the handlers make of them, deletion leaves nothing behind, and what
\* is a comment remains one.
RelationsAreTrue == MemosTypeOK /\ NothingLeft /\ CommentKeepsPlace

\* An attachment has a file exactly as long as it has a row, however many requests
\* delete it and whichever fail, up to requests that are about to catch up and to
\* what a failed one left half gone and no other has deleted since
\* (Store.DeleteAttachment, Store.DeleteAttachments).
FilesMatchRows ==
    \A a \in AttachmentIds :
        \/ a \in attachments <=> a \in files
        \/ a \in split
        \/ \E w \in Workers : a \in HalfGone(w)

=============================================================================
