------------------------------- MODULE WebLists -------------------------------
(***************************************************************************)
(* The lists the web client shows with dialogs to change them: members,    *)
(* identity providers, access tokens, webhooks, linked identities,         *)
(* shortcuts, share links and notifications.  A change is sent to the      *)
(* server and the list is fetched again, or a deleted row is taken out of  *)
(* it; dialogs can be dismissed and opened again meanwhile.                *)
(*                                                                         *)
(* A row is a number, its content another, 0 for a row that is not there.  *)
(* Members, share links and notifications are cached queries, where a new  *)
(* fetch cancels the one before; the other lists are local state, and      *)
(* every answer that arrives replaces them.  One window.  The server's     *)
(* steps are external.                                                     *)
(***************************************************************************)
EXTENDS Naturals, FiniteSets

CONSTANTS
    MaxRows,   \* bound on the rows ever made
    MaxForms,  \* bound on the times a form is opened
    MaxSends,  \* bound on the changes sent
    MaxBreaks  \* bound on requests that fail

ASSUME WebListsConstants == MaxRows \in Nat \ {0} /\ MaxForms \in Nat /\ MaxSends \in Nat /\ MaxBreaks \in Nat

VARIABLES
    board,   \* which list it is
    rows,    \* the server's rows
    list,    \* the rows shown
    fetch,   \* fetches of the list in flight, and what follows their arrival
    dialog,  \* the form: open, row edited (0 for a new one), content, shows (a token or a secret)
    busy,    \* the forms whose request is under way (useLoading, isSubmitting, isPending)
    confirm, \* the row the confirmation asks about, and is it under way
    calls,   \* changes in flight
    forms,   \* times the form was opened
    sends,   \* changes sent
    yield,   \* rows made from each of these openings
    born,    \* rows ever made
    breaks,
    crossed, \* answers of two fetches, or of a fetch and a removal, overtook each other
    missed   \* a fetch or the answer to a change was lost

listsVars == <<board, rows, list, fetch, dialog, busy, confirm, calls, forms, sends, yield, born, breaks, crossed, missed>>

Rows == 1 .. MaxRows
Boards == {"members", "providers", "tokens", "webhooks", "identities", "shortcuts", "shares", "inbox"}
Queried == {"members", "shares", "inbox"}
NoForm == [open |-> FALSE, row |-> 0, text |-> 0, shows |-> FALSE]
NoConfirm == [row |-> 0, op |-> "delete", busy |-> FALSE]
Nothing == [r \in Rows |-> 0]

\* The members' and the webhooks' forms for a new row and for an existing one are two dialogs.
Form(row) == IF row # 0 /\ board \in {"members", "webhooks"} THEN "edit" ELSE "create"
Closes(row) == IF Form(row) = "edit" THEN "closeedit" ELSE "closecreate"

ListsInit ==
    /\ board = "none" /\ rows = [r \in Rows |-> IF r = 1 THEN 1 ELSE 0] /\ list = Nothing
    /\ fetch = {} /\ dialog = NoForm /\ busy = {} /\ confirm = NoConfirm /\ calls = {}
    /\ born = 1 /\ forms = 0 /\ sends = 0 /\ yield = [n \in 1 .. MaxForms |-> 0]
    /\ breaks = 0 /\ crossed = FALSE /\ missed = FALSE

Break == breaks < MaxBreaks /\ breaks' = breaks + 1

-----------------------------------------------------------------------------
(* Fetching *)

Asked(then) == [at |-> "asked", got |-> Nothing, then |-> then]

\* A query cancels the fetch before it, and what awaited that one awaits the new one; a section
\* that fetches by itself does not.
Ask(then) ==
    IF board \in Queried
    THEN /\ fetch' = {Asked(IF \E f \in fetch : f.then = "confirmed" THEN "confirmed" ELSE then)}
         /\ UNCHANGED crossed
    ELSE fetch' = fetch \cup {Asked(then)} /\ crossed' = (crossed \/ fetch # {})

\* A section or page is opened: its effect fetches, or its query.
Opens(b) ==
    /\ board = "none" /\ board' = b
    /\ fetch' = {Asked("nothing")}
    /\ UNCHANGED <<rows, list, dialog, busy, confirm, calls, forms, sends, yield, born, breaks, crossed, missed>>

OpenMembers == Opens("members")
OpenShares == Opens("shares")
OpenInbox == Opens("inbox")
OpenProviders == Opens("providers")
OpenTokens == Opens("tokens")
OpenWebhooks == Opens("webhooks")
OpenIdentities == Opens("identities")

\* The shortcuts have come with the session.
OpenShortcuts ==
    /\ board = "none" /\ board' = "shortcuts"
    /\ list' = rows
    /\ UNCHANGED <<rows, fetch, dialog, busy, confirm, calls, forms, sends, yield, born, breaks, crossed, missed>>

\* The window gets the focus back: queries that are no longer fresh are fetched again.
FocusBack ==
    /\ board \in Queried /\ fetch = {}
    /\ fetch' = {Asked("nothing")}
    /\ UNCHANGED <<board, rows, list, dialog, busy, confirm, calls, forms, sends, yield, born, breaks, crossed, missed>>

ListAnswered ==
    /\ \E f \in fetch : f.at = "asked" /\ fetch' = (fetch \ {f}) \cup {[f EXCEPT !.at = "answered", !.got = rows]}
    /\ UNCHANGED <<board, rows, list, dialog, busy, confirm, calls, forms, sends, yield, born, breaks, crossed, missed>>

\* What a section does when the fetch it awaited is there: the identity provider and webhook
\* sections close their form, whatever it shows by then; the shortcuts page empties its own and
\* its save is over; the confirmation of a deletion is closed.
Follow(then) ==
    /\ dialog' = IF then \in {"close", "clear", Closes(dialog.row)} THEN NoForm ELSE dialog
    /\ busy' = (IF then = "clear" THEN {} ELSE busy)
    /\ confirm' = IF then = "confirmed" THEN NoConfirm ELSE confirm

ListArrives ==
    \E f \in fetch :
        /\ f.at = "answered" /\ fetch' = fetch \ {f}
        /\ list' = f.got /\ Follow(f.then)
        \* a new secret closed in this way is never told to the section
        /\ missed' = (missed \/ (dialog.shows /\ ~dialog'.open))
        /\ UNCHANGED <<board, rows, calls, forms, sends, yield, born, breaks, crossed>>

\* The list stays as it is.  What awaited the fetch is treated as a failure: the identity
\* provider section, which catches the error, closes its form all the same.
ListFails ==
    \E f \in fetch :
        /\ Break /\ missed' = TRUE
        /\ fetch' = fetch \ {f}
        /\ dialog' = IF board = "providers" /\ f.then = "close" THEN NoForm ELSE dialog
        /\ busy' = (IF f.then = "clear" THEN {} ELSE busy)
        /\ confirm' = IF f.then = "confirmed" THEN NoConfirm ELSE confirm
        /\ UNCHANGED <<board, rows, list, calls, forms, sends, yield, crossed, born>>

-----------------------------------------------------------------------------
(* Forms *)

Modal == confirm.row # 0

NewForm(row, text) ==
    /\ forms < MaxForms /\ forms' = forms + 1
    /\ dialog' = [open |-> TRUE, row |-> row, text |-> text, shows |-> FALSE]

\* handleCreate...: an empty form; the share panel is always one.
Creates(b) ==
    /\ board = b /\ ~Modal
    /\ b # "shortcuts" => ~dialog.open
    /\ NewForm(0, 0)
    /\ UNCHANGED <<board, rows, list, fetch, busy, confirm, calls, sends, yield, born, breaks, crossed, missed>>

CreateMember == Creates("members")
CreateProvider == Creates("providers")
CreateToken == Creates("tokens")
CreateWebhook == Creates("webhooks")
CreateShortcut == Creates("shortcuts")
CreateShare == Creates("shares")

\* handleEdit...: a form for a row of the list, with its content.
Edits(b) ==
    /\ board = b /\ ~Modal
    /\ b # "shortcuts" => ~dialog.open
    /\ \E r \in Rows : list[r] # 0 /\ NewForm(r, IF b = "webhooks" THEN 0 ELSE list[r])
    /\ UNCHANGED <<board, rows, list, fetch, busy, confirm, calls, sends, yield, born, breaks, crossed, missed>>

EditMember == Edits("members")
EditProvider == Edits("providers")
\* The form fetches the content by itself.
EditWebhook == Edits("webhooks")
\* From the page, where the user may pick another row while one is saved, or from the explorer.
EditShortcut == Edits("shortcuts")

\* The content becomes the user's own.
Fills(b) ==
    /\ board = b
    /\ dialog.open /\ ~dialog.shows /\ ~Modal
    /\ dialog.text # forms + 1
    /\ dialog' = [dialog EXCEPT !.text = forms + 1]
    /\ UNCHANGED <<board, rows, list, fetch, busy, confirm, calls, forms, sends, yield, born, breaks, crossed, missed>>

FillMember == Fills("members")
FillToken == Fills("tokens")
FillWebhook == Fills("webhooks")
FillShare == Fills("shares")
\* Typed, or taken from an example.
FillShortcut == Fills("shortcuts")
UseExample == Fills("shortcuts")
\* Typed, or taken from a template, which a new provider's form starts from.
FillProvider == Fills("providers")
PickTemplate == dialog.row = 0 /\ Fills("providers")

\* The webhook form's effect: the content arrives, also over what the user has typed by then.  The
\* dialog has the row for its key: what another row's form waited for does not reach it.
LoadWebhook ==
    /\ board = "webhooks" /\ dialog.row # 0 /\ rows[dialog.row] # 0
    /\ dialog.text # rows[dialog.row]
    /\ dialog' = [dialog EXCEPT !.text = rows[dialog.row]]
    /\ UNCHANGED <<board, rows, list, fetch, busy, confirm, calls, forms, sends, yield, born, breaks, crossed, missed>>

\* A form is dismissed, also by a key while its request is under way, but not the identity
\* provider's.  A webhook form that shows the new secret has its list fetched now.
Dismiss ==
    /\ dialog.open /\ ~Modal
    /\ board = "providers" => busy = {}
    /\ dialog' = NoForm
    /\ busy' = IF board = "webhooks" THEN busy \ {"edit"} ELSE busy
    /\ IF board = "webhooks" /\ dialog.shows THEN Ask("closecreate") ELSE UNCHANGED <<fetch, crossed>>
    /\ UNCHANGED <<board, rows, list, confirm, calls, forms, sends, yield, born, breaks, missed>>

Send(op, row, text) ==
    /\ sends < MaxSends /\ sends' = sends + 1
    /\ calls' = calls \cup {[op |-> op, row |-> row, text |-> text, from |-> forms, at |-> "sent"]}

\* The confirm button is enabled: allowConfirmAction, requestState.isLoading, isSaving, isPending.
EnabledAlways == dialog.open /\ ~dialog.shows /\ dialog.text # 0
Enabled == dialog.open /\ ~dialog.shows /\ dialog.text # 0 /\ Form(dialog.row) \notin busy

Confirms(b) ==
    /\ board = b /\ Enabled /\ ~Modal
    /\ busy' = busy \cup {Form(dialog.row)}
    /\ Send(IF dialog.row = 0 THEN "create" ELSE "update", dialog.row, dialog.text)
    /\ UNCHANGED <<board, rows, list, fetch, dialog, confirm, forms, yield, born, breaks, crossed, missed>>

ConfirmMember == Confirms("members")
ConfirmProvider == Confirms("providers")
ConfirmToken == Confirms("tokens")
ConfirmWebhook == Confirms("webhooks")
ConfirmShortcut == Confirms("shortcuts")
ConfirmShare == Confirms("shares")

\* A change of a row without a form or a confirmation ("set": it is archived or restored).
Sends(b, op) ==
    /\ board = b /\ ~Modal
    /\ \E r \in Rows :
        /\ list[r] # 0 /\ Send(op, r, MaxForms + 2)
        /\ \A c \in calls : c.row # r
    /\ UNCHANGED <<board, rows, list, fetch, dialog, busy, confirm, forms, yield, born, breaks, crossed, missed>>

RestoreMember == Sends("members", "set")
Unlink == Sends("identities", "delete")
RevokeShare == Sends("shares", "delete")
ArchiveComment == Sends("inbox", "set")
DeleteComment == Sends("inbox", "delete")
ArchiveMention == Sends("inbox", "set")
DeleteMention == Sends("inbox", "delete")

-----------------------------------------------------------------------------
(* Confirming a deletion, or that a member is archived *)

AsksTo(op, b) ==
    /\ board = b /\ ~Modal
    /\ b # "shortcuts" => ~dialog.open
    /\ \E r \in Rows : list[r] # 0 /\ confirm' = [row |-> r, op |-> op, busy |-> FALSE]
    /\ UNCHANGED <<board, rows, list, fetch, dialog, busy, calls, forms, sends, yield, born, breaks, crossed, missed>>

AskToArchiveMember == AsksTo("set", "members")
AskToDeleteMember == AsksTo("delete", "members")
AskToDeleteProvider == AsksTo("delete", "providers")
AskToDeleteToken == AsksTo("delete", "tokens")
AskToDeleteWebhook == AsksTo("delete", "webhooks")
AskToDeleteShortcut == AsksTo("delete", "shortcuts")

CancelDelete ==
    /\ Modal /\ ~confirm.busy /\ confirm' = NoConfirm
    /\ UNCHANGED <<board, rows, list, fetch, dialog, busy, calls, forms, sends, yield, born, breaks, crossed, missed>>

\* ConfirmDialog.handleConfirm awaits the section's handler, except that the deletion of a member
\* does not wait for its mutation.
ConfirmDelete ==
    /\ Modal /\ ~confirm.busy
    /\ Send(confirm.op, confirm.row, IF confirm.op = "set" THEN MaxForms + 2 ELSE 0)
    /\ confirm' = IF board = "members" /\ confirm.op = "delete" THEN NoConfirm ELSE [confirm EXCEPT !.busy = TRUE]
    /\ UNCHANGED <<board, rows, list, fetch, dialog, busy, forms, yield, born, breaks, crossed, missed>>

-----------------------------------------------------------------------------
(* The server and its answers *)

ServerChanges ==
    \E c \in calls :
        /\ c.at = "sent"
        /\ \/ /\ c.op = "create"
              /\ born < MaxRows /\ born' = born + 1
              /\ rows' = [rows EXCEPT ![born'] = c.text]
              /\ yield' = [yield EXCEPT ![c.from] = @ + 1]
           \/ /\ c.op \in {"update", "set"} /\ rows[c.row] # 0
              /\ rows' = [rows EXCEPT ![c.row] = c.text] /\ UNCHANGED <<yield, born>>
           \/ /\ c.op = "delete" /\ rows[c.row] # 0
              /\ rows' = [rows EXCEPT ![c.row] = 0] /\ UNCHANGED <<yield, born>>
        /\ calls' = (calls \ {c}) \cup {[c EXCEPT !.at = "done"]}
        /\ UNCHANGED <<board, list, fetch, dialog, busy, confirm, forms, sends, breaks, crossed, missed>>

Finish(c) == c.at = "done" /\ calls' = calls \ {c}

\* CreateUserDialog: the list is refetched, and the form is closed, whichever it is by now.
MemberSaved ==
    \E c \in calls :
        /\ board = "members" /\ c.op \in {"create", "update"} /\ Finish(c)
        /\ Ask("nothing") /\ busy' = busy \ {Form(c.row)}
        /\ dialog' = IF Form(dialog.row) = Form(c.row) THEN NoForm ELSE dialog
        /\ UNCHANGED <<board, rows, list, confirm, forms, sends, yield, born, breaks, missed>>

\* MemberSection: archived or restored: the query is fetched again, and a confirmation waits for it.
MemberArchived ==
    \E c \in calls :
        /\ board = "members" /\ c.op = "set" /\ Finish(c)
        /\ Ask(IF confirm.busy /\ confirm.row = c.row THEN "confirmed" ELSE "nothing")
        /\ UNCHANGED <<board, rows, list, dialog, busy, confirm, forms, sends, yield, born, breaks, missed>>

\* useDeleteUser invalidates the list; another deletion about to be confirmed by now is closed.
MemberDeleted ==
    \E c \in calls :
        /\ board = "members" /\ c.op = "delete" /\ Finish(c)
        /\ Ask("nothing")
        /\ confirm' = IF confirm.op = "delete" THEN NoConfirm ELSE confirm
        /\ UNCHANGED <<board, rows, list, dialog, busy, forms, sends, yield, born, breaks, missed>>

\* CreateIdentityProviderDialog closes itself, and the section does it again after its fetch.
ProviderSaved ==
    \E c \in calls :
        /\ board = "providers" /\ c.op # "delete" /\ Finish(c)
        /\ Ask("close") /\ dialog' = NoForm /\ busy' = {}
        /\ UNCHANGED <<board, rows, list, confirm, forms, sends, yield, born, breaks, missed>>

\* CreateAccessTokenDialog shows the token, in whatever form is open, and the section fetches.
TokenSaved ==
    \E c \in calls :
        /\ board = "tokens" /\ c.op = "create" /\ Finish(c)
        /\ Ask("nothing")
        /\ dialog' = IF dialog.open THEN [dialog EXCEPT !.shows = TRUE] ELSE dialog
        /\ busy' = {}
        /\ UNCHANGED <<board, rows, list, confirm, forms, sends, yield, born, breaks, missed>>

\* CreateWebhookDialog: after a creation the secret is read and shown, and the section fetches the
\* list when the form is dismissed: if it was dismissed before, the section is not told.  If the
\* secret cannot be read, or after an update, it is told at once and closes the form.
WebhookSaved ==
    \E c \in calls :
        /\ board = "webhooks" /\ c.op # "delete" /\ Finish(c) /\ busy' = busy \ {Form(c.row)}
        /\ \/ /\ c.op = "create"
              /\ dialog' = [dialog EXCEPT !.shows = dialog.open /\ dialog.row = 0]
              /\ missed' = (missed \/ ~dialog'.shows)
              /\ UNCHANGED <<fetch, crossed>>
           \/ /\ dialog' = IF Form(dialog.row) = Form(c.row) THEN NoForm ELSE dialog
              /\ Ask(IF c.op = "create" THEN "closecreate" ELSE "closeedit") /\ UNCHANGED missed
        /\ UNCHANGED <<board, rows, list, confirm, forms, sends, yield, born, breaks>>

\* handleCreateShortcut and handleUpdateShortcut await the settings, then empty the form.
ShortcutSaved ==
    \E c \in calls :
        /\ board = "shortcuts" /\ c.op # "delete" /\ Finish(c)
        /\ Ask("clear")
        /\ UNCHANGED <<board, rows, list, dialog, busy, confirm, forms, sends, yield, born, breaks, missed>>

RemovedNothing ==
    \E c \in calls :
        /\ board \in {"tokens", "webhooks"} /\ c.op = "delete" /\ Finish(c)
        /\ confirm' = NoConfirm
        /\ UNCHANGED <<board, rows, list, fetch, dialog, busy, forms, sends, yield, born, breaks, crossed, missed>>

\* confirmDeleteAccessToken and confirmDeleteWebhook take the row out of the list themselves.
RowRemoved ==
    \E c \in calls :
        /\ board \in {"tokens", "webhooks"} /\ c.op = "delete" /\ Finish(c)
        /\ list' = [list EXCEPT ![c.row] = 0]
        /\ crossed' = (crossed \/ fetch # {})
        /\ confirm' = NoConfirm
        /\ UNCHANGED <<board, rows, fetch, dialog, busy, forms, sends, yield, born, breaks, missed>>

\* confirmDeleteIdentityProvider, the shortcuts' confirmDeleteShortcut and the unlinking fetch.
RowDeleted ==
    \E c \in calls :
        /\ board \in {"providers", "shortcuts", "identities"} /\ c.op = "delete" /\ Finish(c)
        /\ Ask(IF board = "identities" THEN "nothing" ELSE "confirmed")
        /\ UNCHANGED <<board, rows, list, dialog, busy, confirm, forms, sends, yield, born, breaks, missed>>

\* useCreateMemoShare and useDeleteMemoShare invalidate the list of the memo's links; the panel is
\* ready for another link, which counts as another opening.
ShareChanged ==
    \E c \in calls :
        /\ board = "shares" /\ Finish(c) /\ Ask("nothing")
        /\ busy' = (IF c.op = "create" THEN {} ELSE busy)
        /\ dialog' = IF c.op = "create" THEN NoForm ELSE dialog
        /\ UNCHANGED <<board, rows, list, confirm, forms, sends, yield, born, breaks, missed>>

\* A notification is archived or deleted: the message says so, and nothing is fetched.
NotificationChanged ==
    \E c \in calls :
        /\ board = "inbox" /\ Finish(c)
        /\ UNCHANGED <<board, rows, list, fetch, dialog, busy, confirm, forms, sends, yield, born, breaks, crossed, missed>>

\* Refused (the row is gone), failed, or done with the answer lost.  The form stays and may be sent
\* again.  The token and webhook sections do not catch the error, and their confirmation stays;
\* the others close it, the identity provider section after its fetch.
ChangeFails ==
    \E c \in calls :
        /\ \/ c.at = "sent" /\ c.op # "create" /\ rows[c.row] = 0 /\ UNCHANGED breaks
           \/ Break
        /\ calls' = calls \ {c}
        /\ missed' = (missed \/ c.at = "done" \/ (c.op # "create" /\ rows[c.row] = 0))
        /\ busy' = (IF c.op \in {"delete", "set"} THEN busy ELSE busy \ {Form(c.row)})
        /\ IF board = "providers" /\ c.op = "delete" THEN Ask("confirmed") ELSE UNCHANGED <<fetch, crossed>>
        /\ confirm' = IF confirm.row # c.row \/ board = "providers" THEN confirm
                      ELSE IF board \in {"tokens", "webhooks"} THEN [confirm EXCEPT !.busy = FALSE]
                      ELSE NoConfirm
        /\ UNCHANGED <<board, rows, list, dialog, forms, sends, yield, born>>

\* A run is not followed further once an answer was missed: nothing is claimed of it.
ListsNext ==
    /\ ~missed
    /\ \/ OpenMembers \/ OpenShares \/ OpenInbox \/ OpenProviders
       \/ OpenTokens \/ OpenWebhooks \/ OpenIdentities \/ OpenShortcuts
       \/ FocusBack \/ ListAnswered \/ ListArrives \/ ListFails
       \/ CreateMember \/ CreateProvider \/ CreateToken \/ CreateWebhook \/ CreateShortcut \/ CreateShare
       \/ EditMember \/ EditProvider \/ EditWebhook \/ EditShortcut \/ LoadWebhook \/ Dismiss
       \/ FillMember \/ FillProvider \/ PickTemplate \/ FillToken \/ FillWebhook \/ FillShare
       \/ FillShortcut \/ UseExample
       \/ ConfirmMember \/ ConfirmProvider \/ ConfirmToken \/ ConfirmWebhook \/ ConfirmShortcut \/ ConfirmShare
       \/ RestoreMember \/ Unlink \/ RevokeShare
       \/ ArchiveComment \/ DeleteComment \/ ArchiveMention \/ DeleteMention
       \/ AskToArchiveMember \/ AskToDeleteMember \/ AskToDeleteProvider \/ AskToDeleteToken
       \/ AskToDeleteWebhook \/ AskToDeleteShortcut
       \/ CancelDelete \/ ConfirmDelete \/ ServerChanges
       \/ MemberSaved \/ MemberArchived \/ MemberDeleted \/ ProviderSaved \/ TokenSaved \/ WebhookSaved
       \/ ShortcutSaved \/ RowRemoved \/ RowDeleted \/ ShareChanged \/ NotificationChanged \/ ChangeFails

ListsSpec == ListsInit /\ [][ListsNext]_listsVars

-----------------------------------------------------------------------------

\* When nothing is under way the list shows the server's rows, unless answers crossed or were
\* lost, or the new secret of a webhook is still on the screen.  The inbox is not refetched after
\* a change and is left out.
ListSettles ==
    \/ crossed \/ missed \/ board \in {"none", "inbox"} \/ fetch # {} \/ calls # {} \/ dialog.shows
    \/ list = rows

\* One opening of a form makes one row, unless an answer was lost and the user tried again.
OneRowEach == missed \/ \A n \in 1 .. MaxForms : yield[n] <= 1

\* What a form was confirmed for is made once, and shown.
ListsAreKept == ListSettles /\ OneRowEach

=============================================================================
