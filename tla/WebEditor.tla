------------------------------- MODULE WebEditor -------------------------------
(***************************************************************************)
(* The memo editor: its store, the draft it keeps in localStorage, the     *)
(* save with its uploads, and the recorder.  There are three places to     *)
(* edit: "home" (a new memo; the editor stays), "comment" (it closes when  *)
(* saved) and "edit" (an existing memo; no draft).  Each has its key in    *)
(* localStorage; the update time in the comment's key is an object, which  *)
(* a template string makes "[object Object]", and changes nothing.         *)
(*                                                                         *)
(* A text is a number, 0 the empty one; every change of the document makes *)
(* a text nobody has seen.  A file or a recording is a number too.  An     *)
(* editor that is opened beside the running save of one that was left      *)
(* waits with its own.                                                     *)
(***************************************************************************)
EXTENDS Integers

CONSTANTS
    MaxTexts,   \* bound on the texts typed and the choices made
    MaxFiles,   \* bound on the files added and recordings made
    MaxEntries, \* bound on both together
    MaxMishaps  \* bound on what leaves the editor, fails or gets lost

ASSUME WebEditorConstants ==
    MaxTexts \in Nat /\ MaxFiles \in Nat /\ MaxEntries \in Nat /\ MaxMishaps \in Nat

VARIABLES
    view,     \* "closed" or the kind of editor that is open
    editor,   \* EditorState
    refs,     \* useAutoSave's latestContentRef and discardedContentRef
    draft,    \* localStorage, per key
    timer,    \* pendingSaves: the text a debounced save will write, per key
    job,      \* handleSave, where it awaits
    row,      \* the server's text of the memo being edited
    saved,    \* texts the server made memos of
    rec,      \* useAudioRecorder of the open editor
    asks,     \* getUserMedia calls that have not answered
    void,     \* recordings that were cancelled: startRequestIdRef moved on
    left,     \* permission prompts whose editor was left
    mic,      \* recordings whose tracks are live
    speech,   \* the recording being transcribed
    panel,    \* isAudioRecorderOpen: the recorder's panel is on the screen while there is something to show
    over,     \* recordings begun while another was being transcribed
    texts, files, mishaps,   \* counters
    owed,     \* what the user entered last and has not saved, per kind of draft
    late,     \* texts entered while the save of an earlier one was awaited
    lost,     \* texts not saved that the end of a save threw away
    twice,    \* a text became two memos
    excuse    \* a save whose outcome nobody learned, or whose editor was opened anew

editorVars == <<view, editor, refs, draft, timer, job, row, saved, rec, asks, void, left, mic,
                speech, panel, over, texts, files, mishaps, owed, late, lost, twice, excuse>>

None == -1   \* no text
Drafts == {"home", "comment"}
Kinds == Drafts \cup {"edit"}
Drafting == view \in Drafts

InitialState == [content |-> 0, changed |-> FALSE, localFiles |-> {}, saving |-> FALSE, recorderBusy |-> FALSE]
NoJob == [at |-> "idle", kind |-> "home", text |-> 0, changed |-> FALSE, files |-> {}, mine |-> FALSE]
NoRecorder == [status |-> "idle", id |-> 0, ending |-> ""]
NoRefs == [latest |-> 0, discarded |-> None]

EditorInit ==
    /\ view = "closed"
    /\ editor = InitialState /\ refs = NoRefs
    /\ draft = [k \in Kinds |-> 0] /\ timer = [k \in Kinds |-> None]
    /\ job = NoJob /\ row = MaxTexts + 1 /\ saved = {}
    /\ rec = NoRecorder /\ asks = {} /\ void = {} /\ left = {} /\ mic = {} /\ speech = 0
    /\ panel = FALSE /\ over = {}
    /\ texts = 0 /\ files = 0 /\ mishaps = 0
    /\ owed = [k \in Kinds |-> 0] /\ late = {} /\ lost = {} /\ twice = FALSE /\ excuse = FALSE

storage == <<draft, timer>>
server == <<row, saved, twice>>
counters == <<texts, files, mishaps>>
drafted == <<owed, late, lost>>
microphone == <<rec, asks, void, left, mic, speech, panel, over>>

NewText == texts < MaxTexts /\ texts + files < MaxEntries /\ texts' = texts + 1 /\ UNCHANGED <<files, mishaps>>
NewFile == files < MaxFiles /\ texts + files < MaxEntries /\ files' = files + 1 /\ UNCHANGED <<texts, mishaps>>
Mishap == mishaps < MaxMishaps /\ mishaps' = mishaps + 1 /\ UNCHANGED <<texts, files>>

-----------------------------------------------------------------------------
(* cacheService and useAutoSave *)

\* persist: remember the text, forget what was discarded if it differs, start the timer.
Persist(k, t) ==
    /\ refs' = [latest |-> t, discarded |-> IF refs.discarded = t THEN t ELSE None]
    /\ timer' = [timer EXCEPT ![k] = t]
    /\ UNCHANGED draft

\* Mutant: nothing is written on leaving; the timer may or may not come.
FlushLater(k) ==
    UNCHANGED storage

\* flushDraft: the text goes to localStorage at once, unless a save has just taken it.
FlushDraft(k) ==
    IF refs.discarded = refs.latest THEN UNCHANGED storage
    ELSE draft' = [draft EXCEPT ![k] = refs.latest] /\ timer' = [timer EXCEPT ![k] = None]

\* The debounced save; an empty text removes the draft.
TimerFires(k) ==
    /\ timer[k] # None
    /\ draft' = [draft EXCEPT ![k] = timer[k]] /\ timer' = [timer EXCEPT ![k] = None]
    /\ UNCHANGED <<view, editor, refs, job, server, microphone, counters, drafted, excuse>>

-----------------------------------------------------------------------------
(* Opening and closing *)

\* useMemoInit: the draft, or the memo; then autosave is enabled and persists what it finds.
Open(kind) ==
    /\ view = "closed" /\ view' = kind
    /\ LET content == IF kind = "edit" THEN row ELSE draft[kind] IN
       /\ editor' = [InitialState EXCEPT !.content = content]
       /\ refs' = [NoRefs EXCEPT !.latest = content]
       /\ timer' = IF kind = "edit" THEN timer ELSE [timer EXCEPT ![kind] = content]
       /\ excuse' = (excuse \/ (job.at # "idle" /\ job.kind = kind))
    /\ UNCHANGED <<draft, job, server, microphone, counters, drafted>>

\* The editor is unmounted: the draft is flushed, the recorder's tracks are stopped and the
\* attachments let go.  A prompt for the microphone stays open.
Unmount ==
    /\ view' = "closed" /\ editor' = InitialState
    /\ IF Drafting THEN FlushDraft(view) ELSE UNCHANGED storage
    /\ job' = [job EXCEPT !.mine = FALSE]
    /\ rec' = NoRecorder /\ mic' = mic \ {rec.id} /\ left' = left \cup asks
    /\ speech' = 0 /\ panel' = FALSE
    /\ UNCHANGED <<refs, asks, void, over>>

\* Navigation, or Cancel.
Leave ==
    /\ view # "closed" /\ Mishap /\ Unmount
    /\ UNCHANGED <<server, drafted, excuse>>

\* visibilitychange and pagehide.
Hide ==
    /\ Drafting /\ Mishap /\ FlushDraft(view)
    /\ UNCHANGED <<view, editor, refs, job, server, microphone, drafted, excuse>>

\* The hidden page is discarded, with its timers, its save and its microphone.
Discarded ==
    /\ Drafting /\ Mishap /\ view' = "closed" /\ editor' = InitialState /\ refs' = NoRefs
    /\ draft' = IF refs.discarded = refs.latest THEN draft ELSE [draft EXCEPT ![view] = refs.latest]
    /\ timer' = [k \in Kinds |-> None]
    /\ job' = NoJob /\ excuse' = (excuse \/ job.at # "idle")
    /\ rec' = NoRecorder /\ asks' = {} /\ mic' = {} /\ speech' = 0 /\ panel' = FALSE
    /\ UNCHANGED <<server, void, left, over, drafted>>

\* Another client changed the memo being edited; the editor has its text from when it was opened.
RemoteUpdate ==
    /\ view = "edit" /\ Mishap /\ row' = MaxTexts + 1 + mishaps'
    /\ UNCHANGED <<view, editor, refs, storage, job, saved, twice, microphone, drafted, excuse>>

-----------------------------------------------------------------------------
(* Editing *)

\* UPDATE_CONTENT; the store's subscriber persists it.  No editor is read-only while it saves.
Enter(t) ==
    /\ IF Drafting THEN Persist(view, t) /\ owed' = [owed EXCEPT ![view] = t]
                   ELSE UNCHANGED <<refs, storage, owed>>
    /\ late' = (IF job.mine THEN late \cup {t} ELSE late) /\ UNCHANGED lost

Typed ==
    /\ view # "closed"
    /\ \/ NewText /\ Enter(texts') /\ editor' = [editor EXCEPT !.content = texts']
       \/ editor.content # 0 /\ Enter(0) /\ editor' = [editor EXCEPT !.content = 0] /\ UNCHANGED counters
    /\ UNCHANGED <<view, job, server, microphone, excuse>>

\* In the plain editor, in the rich one, by a command of its toolbar, or by a suggestion taken.
TypePlain == Typed
TypeRich == Typed
Format == Typed
Suggest == Typed

\* SET_METADATA and SET_TIMESTAMPS.  What is chosen for a new memo only goes along with it; an
\* edited memo may be changed, and changed back, in nothing else.  (Counted with the texts.)
SetMetadata ==
    /\ view = "edit" /\ NewText /\ editor' = [editor EXCEPT !.changed = ~@]
    /\ UNCHANGED <<view, refs, storage, job, server, microphone, drafted, excuse>>

SetVisibility == SetMetadata
SetLocation == SetMetadata
LinkMemo == SetMetadata
SetTimestamps == SetMetadata
MoveAttachments == SetMetadata

\* ADD_LOCAL_FILE
Attached ==
    /\ view # "closed" /\ NewFile
    /\ editor' = [editor EXCEPT !.localFiles = @ \cup {files'}]
    /\ UNCHANGED <<view, refs, storage, job, server, microphone, drafted, excuse>>

PickFile == Attached
PasteFile == Attached
DropFile == Attached

\* SET_LOCAL_FILES, by the attachment list.
RemoveLocalFile(f) ==
    /\ f \in editor.localFiles
    /\ editor' = [editor EXCEPT !.localFiles = @ \ {f}]
    /\ UNCHANGED <<view, refs, storage, job, server, microphone, counters, drafted, excuse>>

-----------------------------------------------------------------------------
(* Saving *)

\* Mutant: a save under way does not keep another from starting.
CanSaveAgain ==
    (editor.content # 0 \/ editor.localFiles # {}) /\ ~editor.recorderBusy

\* validationService.canSave
CanSave ==
    (editor.content # 0 \/ editor.localFiles # {}) /\ ~editor.recorderBusy /\ ~editor.saving

\* handleSave, by the button or by Ctrl+Enter, reads the state of now.
Save ==
    /\ view # "closed" /\ CanSave
    /\ job.at = "idle" \/ job.mine
    /\ editor' = [editor EXCEPT !.saving = TRUE]
    /\ job' = [at |-> "upload", kind |-> view, text |-> editor.content,
               changed |-> editor.changed, files |-> editor.localFiles, mine |-> TRUE]
    /\ twice' = (twice \/ job.at # "idle")
    /\ UNCHANGED <<view, refs, storage, row, saved, microphone, counters, drafted, excuse>>

\* uploadFiles, one after the other; then the memo is read (edit), or made.
Uploaded ==
    /\ job.at = "upload"
    /\ job' = [job EXCEPT !.at = IF job.kind = "edit" THEN "compare" ELSE "write"]
    /\ UNCHANGED <<view, editor, refs, storage, server, microphone, counters, drafted, excuse>>

NothingToUpdate == job.text = row /\ ~job.changed /\ job.files = {}

\* buildUpdateMask finds nothing to send: onCancel closes the editor.
NoChanges ==
    /\ job.at = "compare" /\ NothingToUpdate
    /\ IF job.mine
       THEN /\ view' = "closed" /\ editor' = InitialState /\ rec' = NoRecorder
            /\ mic' = mic \ {rec.id} /\ left' = left \cup asks /\ speech' = 0 /\ panel' = FALSE
       ELSE UNCHANGED <<view, editor, rec, mic, left, speech, panel>>
    /\ job' = NoJob
    /\ UNCHANGED <<refs, storage, server, asks, void, over, counters, drafted, excuse>>

\* updateMemo, createMemo or createMemoComment reaches the server.
Written ==
    /\ \/ job.at = "compare" /\ ~NothingToUpdate
          /\ row' = job.text /\ UNCHANGED <<saved, twice>>
       \/ job.at = "write"
          /\ saved' = saved \cup ({job.text} \ {0})
          /\ twice' = (twice \/ job.text \in saved)
          /\ UNCHANGED row
    /\ job' = [job EXCEPT !.at = "written"]
    /\ UNCHANGED <<view, editor, refs, storage, microphone, counters, drafted, excuse>>

\* A request of the save fails, and the files stay in the editor; when it is the last request,
\* the server may have taken it.
SaveFails ==
    /\ job.at \in {"upload", "compare", "write", "written"} /\ Mishap
    /\ job' = NoJob
    /\ editor' = IF job.mine THEN [editor EXCEPT !.saving = FALSE] ELSE editor
    /\ excuse' = (excuse \/ job.at = "written")
    /\ UNCHANGED <<view, refs, storage, server, microphone, drafted>>

\* discardDraft: the draft goes, whatever was entered since the save began.
DiscardDraft ==
    /\ job.at = "written"
    /\ refs' = IF job.mine THEN [refs EXCEPT !.discarded = refs.latest] ELSE refs
    /\ draft' = [draft EXCEPT ![job.kind] = 0] /\ timer' = [timer EXCEPT ![job.kind] = None]
    /\ job' = [job EXCEPT !.at = "refresh"]
    /\ lost' = lost \cup ({owed[job.kind]} \ {0, job.text})
    /\ owed' = [owed EXCEPT ![job.kind] = 0]
    /\ UNCHANGED <<view, editor, server, microphone, late, counters, excuse>>

\* The lists are invalidated and have answered: RESET empties the store, with what was entered
\* since, and its subscriber persists the empty text; then the comment's or the edited memo's
\* editor closes, and flushes that.
Reset ==
    /\ job.at = "refresh" /\ job' = NoJob
    /\ IF job.mine
       THEN /\ editor' = InitialState /\ owed' = [owed EXCEPT ![job.kind] = 0]
            /\ lost' = lost \cup ({editor.content} \ {0, job.text})
       ELSE UNCHANGED <<editor, owed, lost>>
    /\ \/ /\ ~job.mine /\ UNCHANGED <<refs, storage>>
       \/ /\ job.mine /\ view = "home" /\ Persist("home", 0)
       \/ /\ job.mine /\ view = "comment" /\ refs' = NoRefs
          /\ draft' = [draft EXCEPT !["comment"] = 0] /\ timer' = [timer EXCEPT !["comment"] = None]
       \/ /\ job.mine /\ view = "edit" /\ UNCHANGED <<refs, storage>>
    /\ IF job.mine /\ view # "home"
       THEN view' = "closed" /\ rec' = NoRecorder /\ mic' = mic \ {rec.id} /\ left' = left \cup asks
            /\ speech' = 0 /\ panel' = FALSE
       ELSE UNCHANGED <<view, rec, mic, left, speech, panel>>
    /\ UNCHANGED <<server, asks, void, over, late, counters, excuse>>

-----------------------------------------------------------------------------
(* The recorder *)

\* isTranscribingAudio: from the stop to the answer.  The panel's buttons are disabled.
Transcribing == speech # 0 \/ rec.ending = "transcribe"

\* startRecording opens the panel, unless one is being made; that one is being transcribed does
\* not keep it.  The effect that mirrors isBusy dispatches when it changes.
Record ==
    /\ view # "closed" /\ rec.status = "idle" /\ NewFile
    /\ rec' = [status |-> "asking", id |-> files', ending |-> ""]
    /\ asks' = asks \cup {files'}
    /\ editor' = [editor EXCEPT !.recorderBusy = TRUE] /\ panel' = TRUE
    /\ over' = IF Transcribing THEN over \cup {files'} ELSE over
    /\ UNCHANGED <<view, refs, storage, job, server, void, left, mic, speech, drafted, excuse>>

Answered(r) ==
    /\ r \in asks /\ asks' = asks \ {r}
    /\ UNCHANGED <<view, refs, storage, job, server, void, left, speech, over, counters, drafted, excuse>>

\* Mutant: whoever asked, the stream is taken.
GrantedAnyway(r) ==
    /\ Answered(r)
    /\ mic' = mic \cup {r}
    /\ rec' = IF rec.id = r THEN [rec EXCEPT !.status = "recording"] ELSE rec
    /\ UNCHANGED <<editor, panel>>

\* getUserMedia gives a stream: it is stopped if the request was cancelled meanwhile.
Granted(r) ==
    /\ Answered(r)
    /\ mic' = IF r \in void THEN mic ELSE mic \cup {r}
    /\ rec' = IF rec.id = r THEN [rec EXCEPT !.status = "recording"] ELSE rec
    /\ UNCHANGED <<editor, panel>>

\* ... or an error, which closes the panel; a request that was cancelled says nothing of it.
Denied(r) ==
    /\ Answered(r)
    /\ IF rec.id = r
       THEN rec' = NoRecorder /\ editor' = [editor EXCEPT !.recorderBusy = FALSE] /\ panel' = FALSE
       ELSE UNCHANGED <<rec, editor, panel>>
    /\ UNCHANGED mic

\* stopRecording; the recorder's stop event follows.
Stop(mode) ==
    /\ panel /\ ~Transcribing
    /\ rec.status = "recording" /\ rec.ending = ""
    /\ rec' = [rec EXCEPT !.ending = mode]
    /\ UNCHANGED <<view, editor, refs, storage, job, server, asks, void, left, mic, speech,
                   panel, over, counters, drafted, excuse>>

\* The stop event: an empty recording is forgotten, another becomes a file or goes to be
\* transcribed, for which the panel stays.
Stopped ==
    /\ rec.ending # ""
    /\ rec' = NoRecorder /\ mic' = mic \ {rec.id}
    /\ \E empty \in BOOLEAN, transcribed \in BOOLEAN :
         /\ transcribed => rec.ending = "transcribe" /\ ~empty
         /\ speech' = IF transcribed THEN rec.id ELSE speech
         /\ panel' = (transcribed /\ panel)
         /\ editor' = [editor EXCEPT !.recorderBusy = FALSE,
                                     !.localFiles = IF empty \/ transcribed THEN @ ELSE @ \cup {rec.id}]
    /\ UNCHANGED <<view, refs, storage, job, server, asks, void, left, over, counters, drafted, excuse>>

\* resetRecording, by the panel's Cancel.
CancelRecording ==
    /\ panel /\ ~Transcribing /\ rec.status # "idle" /\ panel' = FALSE
    /\ rec' = NoRecorder /\ void' = void \cup {rec.id} /\ mic' = mic \ {rec.id}
    /\ editor' = [editor EXCEPT !.recorderBusy = FALSE]
    /\ UNCHANGED <<view, refs, storage, job, server, asks, left, speech, over, counters, drafted, excuse>>

\* transcribeFile answers with a text, or the recording is attached; the panel closes, whatever
\* is being recorded by then.
Transcribed ==
    /\ speech # 0 /\ speech' = 0 /\ panel' = FALSE
    /\ \/ NewText /\ Enter(texts') /\ editor' = [editor EXCEPT !.content = texts']
       \/ /\ editor' = [editor EXCEPT !.localFiles = @ \cup {speech}]
          /\ UNCHANGED <<refs, storage, drafted, counters>>
    /\ UNCHANGED <<view, job, server, rec, asks, void, left, mic, over, excuse>>

\* From the panel, by its two buttons.
StopToAttach == Stop("attach")
StopToTranscribe == Stop("transcribe")

Recording ==
    \/ Record \/ Stopped \/ CancelRecording \/ Transcribed
    \/ \E r \in asks : Granted(r) \/ Denied(r)
    \/ StopToAttach \/ StopToTranscribe

\* A run is not followed further once the outcome of a save is unknown: of its drafts nothing is claimed.
EditorNext ==
    /\ ~excuse
    /\ \/ \E k \in Kinds : TimerFires(k)
       \/ \E kind \in Kinds : Open(kind)
       \/ Leave \/ Hide \/ Discarded \/ RemoteUpdate
       \/ TypePlain \/ TypeRich \/ Format \/ Suggest
       \/ SetVisibility \/ SetLocation \/ LinkMemo \/ SetTimestamps \/ MoveAttachments
       \/ PickFile \/ PasteFile \/ DropFile \/ \E f \in editor.localFiles : RemoveLocalFile(f)
       \/ Save \/ Uploaded \/ NoChanges \/ Written \/ SaveFails \/ DiscardDraft \/ Reset
       \/ Recording

EditorSpec == EditorInit /\ [][EditorNext]_editorVars

-----------------------------------------------------------------------------
(* Properties *)

\* What was typed last for a new memo or a comment and not saved is in the open editor, or it is
\* the draft that the next editor will find; and a text that was saved, or deleted, is no draft
\* any more (useAutoSave, cacheService, useMemoInit, discardDraft).  The exception are the texts
\* in lost.
DraftKept ==
    \A d \in Drafts :
        excuse \/ IF view = d THEN editor.content = owed[d] \/ job.at = "refresh" ELSE draft[d] = owed[d]

\* The end of a save throws nothing away but what was entered while it was awaited, which it does
\* throw away (discardDraft, RESET).
OnlyLateIsLost == lost \subseteq late

\* However the buttons, the draft and the debounce interleave, no text becomes two memos, unless
\* the outcome of a save was unknown (validationService.canSave, discardDraft, flushDraft).
SavedOnce == twice => excuse

\* The microphone is live only for the recording that the open editor makes and shows, never for
\* one that was cancelled (useAudioRecorder).  There are two exceptions: a prompt whose editor was
\* left, and a recording begun while another was being transcribed, whose panel is closed by the
\* other's end (handleTranscribeRecordedAudio): nothing stops it but leaving the editor.
MicReleased ==
    \A r \in mic :
        r \in left \/ (r = rec.id /\ rec.status = "recording" /\ r \notin void /\ (panel \/ r \in over))

\* What was entered is kept, becomes one memo, and nothing is heard that is not shown.
EditorIsKept == DraftKept /\ OnlyLateIsLost /\ SavedOnce /\ MicReleased

===============================================================================
