----------------------------- MODULE WebSettings -----------------------------
(***************************************************************************)
(* The setting forms of the web client.  A setting is stored whole: every  *)
(* save sends all of it, and the server ignores the field mask, so that a  *)
(* form that edits one part must send the other parts as they are stored.  *)
(*                                                                         *)
(* Parts: "main" (the form's own fields, or the one AI provider), "other"  *)
(* (the profile shown in a dialog, or the transcription set-up), "names"   *)
(* (does the transcription set-up name the provider) and "key" (a secret   *)
(* that the server never shows: only whether it is set).  A value is the   *)
(* number of the edit it comes from, 0 for none.                           *)
(*                                                                         *)
(* One administrator, one window.  The server's answers are external.      *)
(***************************************************************************)
EXTENDS Naturals, FiniteSets

CONSTANTS
    MaxEdits,  \* bound on the user's edits
    MaxRefusals  \* bound on requests that fail

MaxPuts == 2  \* bound on saves under way

ASSUME WebSettingsConstants == MaxEdits \in Nat /\ MaxRefusals \in Nat

VARIABLES
    section, \* the section of the settings page that is open
    stored,  \* the setting the server holds
    known,   \* the client's copy (InstanceContext, or AuthContext for tags)
    load,    \* the fetch of the setting: at, and what the server answered
    form,    \* the section's local state
    profile, \* the dialog's own copy of the profile
    synced,  \* lastSyncedTranscription
    puts,    \* saves in flight
    want,    \* what the user has saved, part by part
    entered, \* the transcription set-up the user is in the middle of, 0 for none
    edits, misses,
    spoilt   \* saves overlapped, were made before the setting was loaded, or an answer was lost

settingsVars == <<section, stored, known, load, form, profile, synced, puts, want, entered, edits, misses, spoilt>>

Forms == {"general", "memo", "tags", "storage", "notification"}
NoProvider == [main |-> 0, other |-> 0, names |-> FALSE, key |-> 0]
Existing == [main |-> 1, other |-> 1, names |-> TRUE, key |-> 1]

SettingsInit ==
    /\ section = "none"
    /\ stored = NoProvider /\ known = NoProvider /\ form = NoProvider /\ want = NoProvider
    /\ load = [at |-> "no", got |-> NoProvider]
    /\ profile = 0 /\ synced = [other |-> 0, names |-> FALSE]
    /\ puts = {} /\ entered = 0 /\ edits = 1 /\ misses = 0 /\ spoilt = FALSE

-----------------------------------------------------------------------------
(* Loading *)

\* What the server shows of a setting: whether a secret is set, never the secret.
Shown(s) == [s EXCEPT !.key = IF @ = 0 THEN 0 ELSE 1]

\* The section is mounted.  General, memo and tag settings came with the application; the
\* settings page fetches the others (preloadSettingKeys) and the form starts with the defaults.
OpenSection(s) ==
    /\ section = "none" /\ section' = s
    /\ stored' \in {NoProvider, Existing} /\ want' = stored'
    /\ IF s \in {"general", "memo", "tags"}
       THEN known' = stored' /\ load' = [load EXCEPT !.at = "done"]
       ELSE known' = NoProvider /\ load' = [load EXCEPT !.at = "asked"]
    /\ form' = [known' EXCEPT !.key = 0]
    /\ profile' = known'.other
    /\ UNCHANGED <<synced, puts, entered, edits, misses, spoilt>>

\* The effects that copy the context into a form's local state: all of it in the plain forms;
\* in the AI section the transcription set-up only if its content differs from the last one copied.
Synced(f, r) ==
    IF section = "ai"
    THEN [main |-> r.main, key |-> 0,
          other |-> IF synced = [other |-> r.other, names |-> r.names] THEN f.other ELSE r.other,
          names |-> IF synced = [other |-> r.other, names |-> r.names] THEN f.names ELSE r.names]
    ELSE [r EXCEPT !.key = 0]

Receive(f, r) ==
    /\ known' = r
    /\ form' = Synced(f, r)
    /\ synced' = [other |-> r.other, names |-> r.names]

LoadAnswered ==
    /\ load.at = "asked"
    /\ load' = [at |-> "answered", got |-> Shown(stored)]
    /\ UNCHANGED <<section, stored, known, form, profile, synced, puts, want, entered, edits, misses, spoilt>>

\* fetchSettings and fetchSetting: the response replaces the copy.
Loaded ==
    /\ load.at = "answered"
    /\ load' = [load EXCEPT !.at = "done"]
    /\ Receive(form, load.got)
    /\ entered' = IF form'.other = form.other THEN entered ELSE 0
    /\ UNCHANGED <<section, stored, profile, puts, want, edits, misses, spoilt>>

\* A failed fetch takes the name out of fetchedSettingsRef again; the page does not retry.
LoadFails ==
    /\ load.at \in {"asked", "answered"} /\ misses < MaxRefusals /\ misses' = misses + 1
    /\ load' = [load EXCEPT !.at = "no"]
    /\ UNCHANGED <<section, stored, known, form, profile, synced, puts, want, entered, edits, spoilt>>

-----------------------------------------------------------------------------
(* Saving *)

\* A save is blind before the setting is loaded, and crosses another that is under way.
Put(part, v) ==
    /\ Cardinality(puts) < MaxPuts
    /\ puts' = puts \cup {[part |-> part, v |-> v, at |-> "sent", got |-> NoProvider]}
    /\ spoilt' = (spoilt \/ puts # {} \/ load.at # "done")

NewEdit == edits < MaxEdits /\ edits' = edits + 1

\* updatePartialSetting and its likes replace fields of the form's local state.
Edited(s) ==
    /\ section = s /\ NewEdit
    /\ form' = [form EXCEPT !.main = edits']
    /\ UNCHANGED <<section, stored, known, load, profile, synced, puts, want, entered, misses, spoilt>>

\* The secret of a set-up.
SecretEdited(s) ==
    /\ section = s /\ NewEdit
    /\ form' = [form EXCEPT !.key = edits']
    /\ UNCHANGED <<section, stored, known, load, profile, synced, puts, want, entered, misses, spoilt>>

EditGeneral == Edited("general")
EditMemoRelated == Edited("memo")
AddReaction == Edited("memo")
AddTag == Edited("tags")
ChangeTag == Edited("tags")
RemoveTag == Edited("tags")
EditStorage == Edited("storage")
EditS3 == Edited("storage")
EditS3Secret == SecretEdited("storage")
EditEmail == Edited("notification")
EditEmailPassword == SecretEdited("notification")

\* The save buttons: only of a form that was changed.
HasChanges == form # [known EXCEPT !.key = 0]

\* The local state is sent whole.
SaveForm(s) ==
    /\ section = s /\ HasChanges
    /\ Put("form", form)
    /\ UNCHANGED <<section, stored, known, load, form, profile, synced, want, entered, edits, misses>>

SaveGeneral == SaveForm("general")

\* Not without a reaction.
SaveMemoRelated == form.main # 0 /\ SaveForm("memo")

SaveTags == SaveForm("tags")

\* allowSaveStorageSetting: complete, with a secret unless an S3 set-up exists.
AllowSaveStorage == form.main # 0 /\ (known.main # 0 \/ form.key # 0)

SaveStorage == AllowSaveStorage /\ SaveForm("storage")

\* Notifications may be incomplete as long as they are not enabled.
SaveNotification == SaveForm("notification")

\* The profile dialog edits a copy made when the section was mounted ...
EditProfile ==
    /\ section = "general" /\ NewEdit
    /\ profile' = edits'
    /\ UNCHANGED <<section, stored, known, load, form, synced, puts, want, entered, misses, spoilt>>

\* ... and saves it with the rest of the setting as the context has it, not as the form has it.
\* Its button is disabled meanwhile.
SaveProfile ==
    /\ section = "general" /\ profile # 0
    /\ \A p \in puts : p.part # "profile"
    /\ Put("profile", [known EXCEPT !.other = profile, !.key = 0])
    /\ UNCHANGED <<section, stored, known, load, form, profile, synced, want, entered, edits, misses>>

\* persistAISetting: the providers and the transcription set-up go together.
PersistAI(part, v) == section = "ai" /\ Put(part, v)

\* AIProviderDialog: the provider is filled in, with a new key or without.
FilledIn(key) == NewEdit /\ key \in {0, edits'}

\* Mutant: the set-up on screen is sent with the provider.
SaveProviderWithDraft ==
    /\ \E key \in 0 .. MaxEdits :
        /\ FilledIn(key) /\ (form.main # 0 \/ key # 0)
        /\ PersistAI("provider", [form EXCEPT !.main = edits', !.key = key])
    /\ UNCHANGED <<section, stored, known, load, form, profile, synced, want, entered, misses>>

\* handleSaveProvider, with the dialog filled: a new provider needs a key, and the transcription
\* set-up sent is the context's.
SaveProvider ==
    /\ \E key \in 0 .. MaxEdits :
        /\ FilledIn(key) /\ (form.main # 0 \/ key # 0)
        /\ PersistAI("provider", [known EXCEPT !.main = edits', !.key = key])
    /\ UNCHANGED <<section, stored, known, load, form, profile, synced, want, entered, misses>>

\* handleDeleteProvider: a transcription set-up that names the provider is cleared with it.
DeleteProvider ==
    /\ form.main # 0
    /\ PersistAI("delete", IF known.names THEN NoProvider ELSE [known EXCEPT !.main = 0, !.key = 0])
    /\ UNCHANGED <<section, stored, known, load, form, profile, synced, want, entered, edits, misses>>

\* The transcription form: a provider is chosen from the list, the rest only with a provider.
ChooseProvider ==
    /\ section = "ai" /\ form.main # 0
    /\ form' = [form EXCEPT !.names = ~@]
    /\ UNCHANGED <<section, stored, known, load, profile, synced, puts, want, entered, edits, misses, spoilt>>

EditTranscription ==
    /\ section = "ai" /\ form.names /\ NewEdit
    /\ form' = [form EXCEPT !.other = edits'] /\ entered' = edits'
    /\ UNCHANGED <<section, stored, known, load, profile, synced, puts, want, misses, spoilt>>

\* handleSaveTranscription: not with a provider that is not in the list.
SaveTranscription ==
    /\ <<form.other, form.names>> # <<known.other, known.names>>
    /\ form.names => form.main # 0
    /\ PersistAI("transcription", [form EXCEPT !.key = 0])
    /\ UNCHANGED <<section, stored, known, load, form, profile, synced, want, entered, edits, misses>>

-----------------------------------------------------------------------------
(* The server's UpdateInstanceSetting *)

\* An absent transcription set-up is kept; so is a secret that is sent empty.
Kept(p) ==
    LET v == IF section = "ai" /\ p.part \in {"provider", "delete"} /\ p.v.other = 0 /\ ~p.v.names /\ ~known.names
             THEN [p.v EXCEPT !.other = stored.other, !.names = stored.names]
             ELSE p.v
    IN  [v EXCEPT !.key = IF section = "ai" /\ v.main = 0 THEN 0 ELSE IF @ # 0 THEN @ ELSE stored.key]

\* A provider needs a key, and the transcription set-up must name one that exists.
Valid(v) == section = "ai" => (v.main # 0 => v.key # 0) /\ (v.names => v.main # 0)

\* What the user meant to change with the save.
Meant(p) ==
    CASE p.part = "form" -> [want EXCEPT !.main = p.v.main, !.key = IF p.v.key = 0 THEN @ ELSE p.v.key]
      [] p.part = "profile" -> [want EXCEPT !.other = p.v.other]
      [] p.part = "provider" -> [want EXCEPT !.main = p.v.main, !.key = IF p.v.key = 0 THEN @ ELSE p.v.key]
      [] p.part = "delete" -> IF want.names THEN NoProvider ELSE [want EXCEPT !.main = 0, !.key = 0]
      [] OTHER -> [want EXCEPT !.other = p.v.other, !.names = p.v.names]

ServerSaves ==
    \E p \in puts :
        /\ p.at = "sent" /\ Valid(Kept(p))
        /\ stored' = Kept(p) /\ want' = Meant(p)
        /\ puts' = (puts \ {p}) \cup {[p EXCEPT !.at = "saved", !.got = Shown(Kept(p))]}
        /\ UNCHANGED <<section, known, load, form, profile, synced, entered, edits, misses, spoilt>>

-----------------------------------------------------------------------------
(* The answer *)

\* updateSetting puts the response into the context, then fetchSetting reads the setting if it
\* was not read yet.  A deletion first takes the provider out of the set-up being edited.
Saved ==
    \E p \in puts :
        /\ p.at = "saved" /\ puts' = puts \ {p}
        /\ Receive(IF p.part = "delete" THEN [form EXCEPT !.names = FALSE] ELSE form, p.got)
        /\ load' = IF load.at = "no" THEN [load EXCEPT !.at = "asked"] ELSE load
        /\ entered' = IF p.part = "transcription" \/ (p.part = "delete" /\ known.names) THEN 0 ELSE entered
        /\ UNCHANGED <<section, stored, profile, want, edits, misses, spoilt>>

\* Refused, failed, or saved with the answer lost: the error is shown and the form stays.
SaveFailed ==
    \E p \in puts :
        /\ \/ p.at = "sent" /\ ~Valid(Kept(p)) /\ UNCHANGED misses
           \/ misses < MaxRefusals /\ misses' = misses + 1
        /\ puts' = puts \ {p}
        /\ spoilt' = (spoilt \/ p.at = "saved")
        /\ UNCHANGED <<section, stored, known, load, form, profile, synced, want, entered, edits>>

\* A run is not followed further once it is spoilt: nothing is claimed of it.
SettingsNext ==
    /\ ~spoilt
    /\ \/ \E s \in Forms \cup {"ai"} : OpenSection(s)
       \/ LoadAnswered \/ Loaded \/ LoadFails
       \/ EditGeneral \/ EditMemoRelated \/ AddReaction \/ AddTag \/ ChangeTag \/ RemoveTag
       \/ EditStorage \/ EditS3 \/ EditS3Secret \/ EditEmail \/ EditEmailPassword
       \/ SaveGeneral \/ SaveMemoRelated \/ SaveTags \/ SaveStorage \/ SaveNotification
       \/ EditProfile \/ SaveProfile
       \/ SaveProvider \/ DeleteProvider \/ ChooseProvider \/ EditTranscription \/ SaveTranscription
       \/ ServerSaves \/ Saved \/ SaveFailed

SettingsSpec == SettingsInit /\ [][SettingsNext]_settingsVars

-----------------------------------------------------------------------------

\* The setting stored is, part by part, what the user last saved of it: saving one part neither
\* commits what is being edited in another nor takes back what was saved there.
SavedIsKept == spoilt \/ stored = want

\* A transcription set-up the user is editing is not replaced by an answer to another save.
SetupStays == spoilt \/ entered = 0 \/ form.other = entered

\* Both: what was saved is stored, and what is being set up stays on screen.
SettingsKept == SavedIsKept /\ SetupStays

=============================================================================
