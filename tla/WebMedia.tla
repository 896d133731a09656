-------------------------------- MODULE WebMedia --------------------------------
(***************************************************************************)
(* What plays and what is drawn in a memo while its reader moves on: the   *)
(* audio player, the moving part of a live photo, the poster of a video,   *)
(* the waveform of a recording, the colours of code blocks, a diagram, and *)
(* a memo shared as an image.  Each asks the browser for something that it *)
(* gets later, when it may have been told to stop or to show something     *)
(* else.  One of them, the medium, takes all the steps.                     *)
(*                                                                         *)
(* A media element tells what happens to it in tasks, handled in order.    *)
(* Names, times within a track, speeds and sizes are left out.             *)
(***************************************************************************)
EXTENDS Integers, Sequences, FiniteSets

LOCAL INSTANCE SequencesExt

CONSTANTS
    MaxPokes,  \* bound on what the user does
    MaxUpsets  \* bound on what fails

ASSUME WebMediaConstants == MaxPokes \in Nat /\ MaxUpsets \in Nat

Scenes == {"audio", "motion", "poster", "wave", "code", "diagram", "share"}
End == 2   \* the length of a track

VARIABLES
    medium,
    element,   \* the media element: paused, promises of play() open, tasks, position, no source to play
    button,    \* AudioAttachmentItem: isPlaying and currentTime
    motion,    \* MotionPhotoPreview and -Player: motionActive, isPlaying; starts, and an answer as it was stopped
    poster,    \* VideoPoster: sourceUrl, whether posterUrl is usable, capturedPosterUrl
    wave,      \* useAudioWaveform: the stream, the effect's runs, which of them set the levels last
    code,      \* CodeBlock: the theme chosen and the system's, each block's, style elements, imports
    copy,      \* CodeBlock: copied, and timers to end it
    diagram,   \* MermaidBlock: content, theme, runs of the effect, svg and error
    share,     \* MemoShareImageDialog: how often opened, whether open, the rendering, files saved
    pokes, upsets

mediaVars == <<medium, element, button, motion, poster, wave, code, copy, diagram, share, pokes, upsets>>

NoTheme == "none"
NoDrawing == [text |-> "", theme |-> NoTheme]
NoRendering == [stage |-> "none", opening |-> 0, whole |-> FALSE]

MediaInit ==
    /\ medium \in Scenes
    /\ element = [paused |-> TRUE, waiting |-> FALSE, tasks |-> <<>>, at |-> 0, broken |-> FALSE]
    /\ button = [playing |-> FALSE, time |-> 0]
    /\ motion = [active |-> FALSE, shown |-> FALSE, starts |-> 0, late |-> FALSE]
    /\ poster = [source |-> 1, given |-> FALSE, captured |-> 0]
    /\ wave = [stream |-> 0, runs |-> <<>>, levels |-> 0]
    /\ code = [chosen |-> "system", system |-> "light", blocks |-> <<>>, styles |-> <<>>, imports |-> <<>>,
               wanted |-> NoTheme, mixed |-> FALSE]
    /\ copy = [copied |-> FALSE, timers |-> 0]
    /\ diagram = [text |-> "", theme |-> "light", runs |-> <<>>, svg |-> NoDrawing, error |-> ""]
    /\ share = [openings |-> 0, open |-> FALSE, rendering |-> NoRendering, files |-> {}]
    /\ pokes = 0 /\ upsets = 0

Poke(s) == medium = s /\ pokes < MaxPokes /\ pokes' = pokes + 1 /\ UNCHANGED <<medium, upsets>>
Upset(s) == medium = s /\ upsets < MaxUpsets /\ upsets' = upsets + 1 /\ UNCHANGED <<medium, pokes>>
Answer(s) == medium = s /\ UNCHANGED <<medium, pokes, upsets>>

-----------------------------------------------------------------------------
(* The media element *)

Task(kind, start) == [kind |-> kind, start |-> start]

\* play(): from the beginning after the end; refused at once for what cannot be played.
Played(e) ==
    IF e.broken THEN e
    ELSE [e EXCEPT !.paused = FALSE, !.waiting = TRUE, !.at = IF @ = End THEN 0 ELSE @,
                   !.tasks = @ \o (IF e.at = End THEN <<Task("time", 0)>> ELSE <<>>)
                                \o (IF e.paused THEN <<Task("play", 0)>> ELSE <<>>)]

\* pause() refuses the promises that are open.
Paused(e, start) ==
    IF e.paused THEN e
    ELSE [e EXCEPT !.paused = TRUE, !.waiting = FALSE,
                   !.tasks = @ \o <<Task("pause", 0)>> \o (IF e.waiting THEN <<Task("reject", start)>> ELSE <<>>)]

ElementKept == UNCHANGED <<button, motion, poster, wave, code, copy, diagram, share>>

ElementStarts ==
    /\ element.waiting /\ (Answer("audio") \/ Answer("motion"))
    /\ element' = [element EXCEPT !.waiting = FALSE, !.tasks = Append(@, Task("resolve", motion.starts))]
    /\ ElementKept

\* A source that cannot be played is found out while play() waits: the element is not paused by it.
ElementFails ==
    /\ element.waiting /\ (Upset("audio") \/ Upset("motion"))
    /\ element' = [element EXCEPT !.waiting = FALSE, !.broken = TRUE, !.tasks = Append(@, Task("reject", motion.starts))]
    /\ ElementKept

ElementAdvances ==
    /\ ~element.paused /\ ~element.waiting /\ ~element.broken /\ (Answer("audio") \/ Answer("motion"))
    /\ element.at + 1 < End
    /\ element' = [element EXCEPT !.at = @ + 1, !.tasks = Append(@, Task("time", 0))]
    /\ ElementKept

\* One task pauses at the end and tells: onEnded of the audio and of the video.
AtEnd ==
    /\ ~element.paused /\ ~element.waiting /\ ~element.broken /\ element.tasks = <<>> /\ element.at + 1 >= End
    /\ \/ Answer("audio") /\ button' = [playing |-> FALSE, time |-> 0] /\ UNCHANGED motion
          /\ element' = [element EXCEPT !.paused = TRUE, !.at = End]
       \/ Answer("motion") /\ motion' = [motion EXCEPT !.shown = FALSE] /\ UNCHANGED button
          /\ element' = [element EXCEPT !.paused = TRUE, !.at = 0]
    /\ UNCHANGED <<poster, wave, code, copy, diagram, share>>

-----------------------------------------------------------------------------
(* AudioAttachmentItem *)

TogglePlayback ==
    /\ Poke("audio")
    /\ element' = IF element.paused THEN Played(element) ELSE Paused(element, 0)
    /\ button' = IF element.paused /\ element.broken THEN [button EXCEPT !.playing = FALSE] ELSE button
    /\ UNCHANGED <<motion, poster, wave, code, copy, diagram, share>>

HandleSeek(t) ==
    /\ Poke("audio") /\ element.at # t
    /\ element' = [element EXCEPT !.at = t] /\ button' = [button EXCEPT !.time = t]
    /\ UNCHANGED <<motion, poster, wave, code, copy, diagram, share>>

\* onPlay, onPause, onTimeUpdate, and the catch of play().
AudioAfter(kind) ==
    CASE kind = "play" -> [button EXCEPT !.playing = TRUE]
      [] kind \in {"pause", "reject"} -> [button EXCEPT !.playing = FALSE]
      [] kind = "time" -> [button EXCEPT !.time = element.at]
      [] OTHER -> button

AudioTask ==
    /\ element.tasks # <<>> /\ Answer("audio")
    /\ element' = [element EXCEPT !.tasks = Tail(@)]
    /\ button' = AudioAfter(Head(element.tasks).kind)
    /\ UNCHANGED <<motion, poster, wave, code, copy, diagram, share>>

-----------------------------------------------------------------------------
(* MotionPhotoPreview and MotionPhotoPlayer *)

\* The effect on motionActive: startPlayback from the moment of the still, or stopPlayback.
SetMotionActive(active) ==
    /\ Poke("motion") /\ motion.active # active
    /\ IF active
       THEN /\ element' = Played([element EXCEPT !.at = 0])
            /\ motion' = [motion EXCEPT !.active = TRUE, !.starts = @ + 1, !.shown = @ /\ ~element.broken]
       ELSE /\ element' = [Paused(element, motion.starts) EXCEPT !.at = 0]
            /\ motion' = [motion EXCEPT !.active = FALSE, !.shown = FALSE,
                                        !.late = \E i \in DOMAIN element.tasks : element.tasks[i].kind = "resolve"]
    /\ UNCHANGED <<button, poster, wave, code, copy, diagram, share>>

\* The promise of play() sets isPlaying, whether it is still wanted or not.
MotionTask ==
    LET task == Head(element.tasks)
    IN /\ element.tasks # <<>> /\ Answer("motion")
       /\ element' = [element EXCEPT !.tasks = Tail(@)]
       /\ motion' = [motion EXCEPT !.shown = (@ \/ task.kind = "resolve") /\ task.kind # "reject",
                                   !.late = @ /\ ~(task.kind \in {"resolve", "reject"} /\ motion.active /\ task.start = motion.starts)]
       /\ UNCHANGED <<button, poster, wave, code, copy, diagram, share>>

\* Another photo takes the place: the element loads anew, which answers every promise, and the
\* preview is set to rest; that stops the player if it was not at rest, or if its start differs.
ChangePhoto(sameStart) ==
    /\ Poke("motion")
    /\ element' = [element EXCEPT !.paused = TRUE, !.waiting = FALSE, !.tasks = <<>>, !.at = 0, !.broken = FALSE]
    /\ motion' = [motion EXCEPT !.active = FALSE,
                     !.shown = sameStart /\ ~motion.active /\ ~element.waiting
                               /\ (@ \/ \E i \in DOMAIN element.tasks : element.tasks[i].kind = "resolve"),
                     !.late = @ /\ sameStart /\ ~motion.active]
    /\ UNCHANGED <<button, poster, wave, code, copy, diagram, share>>

-----------------------------------------------------------------------------
(* VideoPoster *)

\* The effect drops the frame of the other video.
ShowVideo(source, given) ==
    /\ Poke("poster") /\ (source # poster.source \/ given # poster.given)
    /\ poster' = [source |-> source, given |-> given, captured |-> 0]
    /\ UNCHANGED <<element, button, motion, wave, code, copy, diagram, share>>

\* captureFrame, of a video that is there only without a poster.
CaptureFrame ==
    /\ Answer("poster") /\ ~poster.given /\ poster.captured = 0
    /\ poster' = [poster EXCEPT !.captured = poster.source]
    /\ UNCHANGED <<element, button, motion, wave, code, copy, diagram, share>>

-----------------------------------------------------------------------------
(* useAudioWaveform *)

WaveKept == UNCHANGED <<element, button, motion, poster, code, copy, diagram, share>>

\* The effect's run: until the context resumes there is no frame to cancel.
StreamStarts ==
    /\ Poke("wave") /\ wave.stream = 0
    /\ wave' = [wave EXCEPT !.stream = Len(wave.runs) + 1,
                            !.runs = Append(@, [resuming |-> TRUE, ticking |-> FALSE, hasty |-> FALSE])]
    /\ WaveKept

\* start, after resume: it looks at nothing that the cleanup could have set.
ContextResumes(n) ==
    /\ n \in DOMAIN wave.runs /\ wave.runs[n].resuming /\ Answer("wave")
    /\ wave' = [wave EXCEPT !.runs[n].resuming = FALSE, !.runs[n].ticking = TRUE]
    /\ WaveKept

\* A context that was closed may refuse to resume instead.
ContextRefuses(n) ==
    /\ n \in DOMAIN wave.runs /\ wave.runs[n].resuming /\ wave.stream # n /\ Answer("wave")
    /\ wave' = [wave EXCEPT !.runs[n].resuming = FALSE]
    /\ WaveKept

WaveTick(n) ==
    /\ n \in DOMAIN wave.runs /\ wave.runs[n].ticking /\ wave.levels # n /\ Answer("wave")
    /\ wave' = [wave EXCEPT !.levels = n]
    /\ WaveKept

\* Mutant: the frame is not cancelled.
StreamEndsTicking ==
    /\ Poke("wave") /\ wave.stream # 0
    /\ wave' = [wave EXCEPT !.stream = 0, !.levels = 0, !.runs[wave.stream].hasty = wave.runs[wave.stream].resuming]
    /\ WaveKept

\* The cleanup cancels the frame that is due, and the next effect makes the levels idle.
StreamEnds ==
    /\ Poke("wave") /\ wave.stream # 0
    /\ wave' = [wave EXCEPT !.stream = 0, !.levels = 0, !.runs[wave.stream].ticking = FALSE,
                            !.runs[wave.stream].hasty = wave.runs[wave.stream].resuming]
    /\ WaveKept

-----------------------------------------------------------------------------
(* CodeBlock *)

CodeKept == UNCHANGED <<element, button, motion, poster, wave, diagram, share>>

ResolvedTheme(c) == IF c.chosen = "system" THEN c.system ELSE c.chosen

\* dynamicImportStyle adds its style once imported.
StyleArrives(styles, theme) == Append(styles, theme)

\* Before, it removes the first style there is: as many blocks do, one after the other.
Styled(c, theme, times) ==
    IF times = 0 THEN c
    ELSE [c EXCEPT !.styles = SubSeq(@, times + 1, Len(@)), !.imports = @ \o [k \in 1 .. times |-> theme],
                   !.wanted = theme, !.mixed = @ /\ c.imports # <<>>]

\* The blocks, rendered again: the effect runs in each whose theme is another.
Rerendered(c) ==
    LET theme == ResolvedTheme(c)
    IN [Styled(c, theme, Cardinality({b \in DOMAIN c.blocks : c.blocks[b] # theme})) EXCEPT
           !.blocks = [b \in DOMAIN c.blocks |-> theme]]

MountBlock ==
    /\ Poke("code") /\ Len(code.blocks) < 2
    /\ code' = [Styled(code, ResolvedTheme(code), 1) EXCEPT !.blocks = Append(@, ResolvedTheme(code))]
    /\ UNCHANGED copy /\ CodeKept

UnmountBlock ==
    /\ Poke("code") /\ code.blocks # <<>>
    /\ code' = [code EXCEPT !.blocks = Tail(@)]
    /\ UNCHANGED copy /\ CodeKept

PickTheme(theme) ==
    /\ Poke("code") /\ code.chosen # theme
    /\ code' = Rerendered([code EXCEPT !.chosen = theme])
    /\ UNCHANGED copy /\ CodeKept

\* Nothing tells a block of the system's theme until it is rendered for another reason.
SystemThemeFlips ==
    /\ Poke("code")
    /\ \E rendered \in BOOLEAN :
          LET flipped == [code EXCEPT !.system = IF @ = "light" THEN "dark" ELSE "light"]
          IN code' = IF rendered THEN Rerendered(flipped) ELSE flipped
    /\ UNCHANGED copy /\ CodeKept

\* A module that is loaded twice comes in the order it was asked for.
StyleImported(i) ==
    /\ i \in DOMAIN code.imports /\ \A j \in 1 .. i - 1 : code.imports[j] # code.imports[i]
    /\ Answer("code")
    /\ code' = [code EXCEPT !.styles = StyleArrives(@, code.imports[i]), !.imports = RemoveAt(@, i), !.mixed = @ \/ i > 1]
    /\ UNCHANGED copy /\ CodeKept

StyleFails(i) ==
    /\ i \in DOMAIN code.imports /\ Upset("code")
    /\ code' = [code EXCEPT !.imports = RemoveAt(@, i), !.mixed = TRUE]
    /\ UNCHANGED copy /\ CodeKept

\* handleCopy, by the clipboard or else by the library: a timer for each.
HandleCopy ==
    /\ Poke("code") /\ code.blocks # <<>>
    /\ copy' = [copied |-> TRUE, timers |-> copy.timers + 1]
    /\ UNCHANGED code /\ CodeKept

CopiedEnds ==
    /\ copy.timers > 0 /\ Answer("code")
    /\ copy' = [copied |-> FALSE, timers |-> copy.timers - 1]
    /\ UNCHANGED code /\ CodeKept

-----------------------------------------------------------------------------
(* MermaidBlock *)

DiagramKept == UNCHANGED <<element, button, motion, poster, wave, code, copy, share>>

\* The effect: the cleanup cancels the run before, and a new one imports the library.
Draw(text, theme) ==
    LET cancelled == [i \in DOMAIN diagram.runs |-> [diagram.runs[i] EXCEPT !.cancelled = TRUE]]
        run == [text |-> text, theme |-> theme, stage |-> "import", cancelled |-> FALSE]
    IN diagram' = IF text = "" THEN [diagram EXCEPT !.text = "", !.theme = theme, !.runs = cancelled, !.svg = NoDrawing, !.error = ""]
                  ELSE [diagram EXCEPT !.text = text, !.theme = theme, !.runs = Append(cancelled, run)]

ContentChanges(text) == Poke("diagram") /\ diagram.text # text /\ Draw(text, diagram.theme) /\ DiagramKept
ThemeChanges ==
    Poke("diagram") /\ Draw(diagram.text, IF diagram.theme = "light" THEN "dark" ELSE "light") /\ DiagramKept

\* The library came: a cancelled run goes no further, the other draws in the theme it was begun for.
Imported(i) ==
    /\ i \in DOMAIN diagram.runs /\ diagram.runs[i].stage = "import" /\ Answer("diagram")
    /\ diagram' = IF diagram.runs[i].cancelled THEN [diagram EXCEPT !.runs = RemoveAt(@, i)]
                  ELSE [diagram EXCEPT !.runs[i].stage = "render"]
    /\ DiagramKept

\* Mutant: a run that was cancelled while it drew is not noticed.
AfterDrawingAny(i) ==
    LET run == diagram.runs[i]
    IN [diagram EXCEPT !.runs = RemoveAt(@, i), !.svg = [text |-> run.text, theme |-> run.theme], !.error = ""]

AfterDrawing(i) ==
    LET run == diagram.runs[i]
    IN IF run.cancelled THEN [diagram EXCEPT !.runs = RemoveAt(@, i)]
       ELSE [diagram EXCEPT !.runs = RemoveAt(@, i), !.svg = [text |-> run.text, theme |-> run.theme], !.error = ""]

Rendered(i) ==
    /\ i \in DOMAIN diagram.runs /\ diagram.runs[i].stage = "render" /\ diagram.runs[i].text # "bad"
    /\ Answer("diagram") /\ diagram' = AfterDrawing(i) /\ DiagramKept

\* A text that is no diagram, or a library that could not be loaded.
DrawingFails(i) ==
    /\ i \in DOMAIN diagram.runs
    /\ \/ diagram.runs[i].stage = "import" /\ Upset("diagram")
       \/ diagram.runs[i].stage = "render" /\ diagram.runs[i].text = "bad" /\ Answer("diagram")
    /\ diagram' = IF diagram.runs[i].cancelled THEN [diagram EXCEPT !.runs = RemoveAt(@, i)]
                  ELSE [diagram EXCEPT !.runs = RemoveAt(@, i), !.svg = NoDrawing, !.error = diagram.runs[i].text]
    /\ DiagramKept

-----------------------------------------------------------------------------
(* MemoShareImageDialog *)

ShareKept == UNCHANGED <<element, button, motion, poster, wave, code, copy, diagram>>

OpenShare ==
    /\ Poke("share") /\ ~share.open
    /\ share' = [share EXCEPT !.open = TRUE, !.openings = @ + 1]
    /\ ShareKept

\* The dialog can be left at any time; the rendering goes on.
CloseShare ==
    /\ Poke("share") /\ share.open
    /\ share' = [share EXCEPT !.open = FALSE]
    /\ ShareKept

\* handleDownload and handleNativeShare: the buttons are disabled while isRendering.
HandleDownload ==
    /\ Poke("share") /\ share.open /\ share.rendering.stage = "none"
    /\ share' = [share EXCEPT !.rendering = [stage |-> "assets", opening |-> share.openings, whole |-> FALSE]]
    /\ ShareKept

\* createMemoShareImageBlob measures the preview once its images are there, or gone: it has a size
\* only as long as that dialog is open.
AssetsReady ==
    /\ share.rendering.stage = "assets" /\ Answer("share")
    /\ share' = [share EXCEPT !.rendering.stage = "draw",
                              !.rendering.whole = share.open /\ share.rendering.opening = share.openings]
    /\ ShareKept

FilesWith(r) == IF r.whole THEN share.files \cup {r} ELSE share.files

\* A picture of no size has no blob, which is an error.
ImageDrawn ==
    /\ share.rendering.stage = "draw" /\ Answer("share")
    /\ share' = [share EXCEPT !.rendering = NoRendering, !.files = FilesWith(share.rendering)]
    /\ ShareKept

\* Drawing fails, the user breaks off sharing, or there is nothing to share with.
ImageFails ==
    /\ share.rendering.stage = "draw" /\ Upset("share")
    /\ share' = [share EXCEPT !.rendering = NoRendering]
    /\ ShareKept

MediaNext ==
    \/ ElementStarts \/ ElementFails \/ ElementAdvances \/ AtEnd \/ TogglePlayback \/ AudioTask \/ MotionTask
    \/ \E t \in 0 .. End : HandleSeek(t)
    \/ \E b \in BOOLEAN : SetMotionActive(b) \/ ChangePhoto(b)
    \/ CaptureFrame \/ \E source \in 1 .. 2, given \in BOOLEAN : ShowVideo(source, given)
    \/ StreamStarts \/ StreamEnds \/ \E n \in DOMAIN wave.runs : ContextResumes(n) \/ ContextRefuses(n) \/ WaveTick(n)
    \/ MountBlock \/ UnmountBlock \/ SystemThemeFlips \/ HandleCopy \/ CopiedEnds
    \/ \E theme \in {"light", "dark", "system"} : PickTheme(theme)
    \/ \E i \in DOMAIN code.imports : StyleImported(i) \/ StyleFails(i)
    \/ ThemeChanges \/ \E text \in {"", "graph", "bad"} : ContentChanges(text)
    \/ \E i \in DOMAIN diagram.runs : Imported(i) \/ Rendered(i) \/ DrawingFails(i)
    \/ OpenShare \/ CloseShare \/ HandleDownload \/ AssetsReady \/ ImageDrawn \/ ImageFails

MediaSpec == MediaInit /\ [][MediaNext]_mediaVars

-----------------------------------------------------------------------------
(* Properties *)

\* Once the element has told all, the button says whether it plays and how far it is; after the
\* end it says that it is at the start (AudioAttachmentItem).
ButtonTells ==
    medium = "audio" /\ element.tasks = <<>> /\ ~element.broken =>
        /\ button.playing = ~element.paused
        /\ button.time = element.at \/ (element.at = End /\ button.time = 0)

\* The video covers the still of a live photo exactly while it plays for someone who looks, unless
\* it was stopped with the answer to its start on the way (MotionPhotoPlayer).
StillReturns ==
    medium = "motion" /\ element.tasks = <<>> /\ ~element.broken /\ ~motion.late =>
        (motion.shown <=> motion.active /\ ~element.paused /\ ~element.waiting)

\* A frame for a poster is of the video it stands for (VideoPoster).
PosterIsOwn == poster.captured \in {0, poster.source}

\* Only the stream that is being recorded moves the waveform, but for a run that was ended before
\* its audio context had resumed (useAudioWaveform).
WaveIsLive ==
    /\ \A n \in DOMAIN wave.runs : wave.runs[n].ticking => n = wave.stream \/ wave.runs[n].hasty
    /\ wave.levels # 0 => wave.levels = wave.stream \/ wave.runs[wave.levels].hasty

\* When all styles are there the last, which wins, is of the theme last asked for, unless one came
\* out of turn or not at all; no mark of a copy stays (CodeBlock).
CodeIsColoured ==
    /\ code.imports = <<>> /\ code.wanted # NoTheme /\ ~code.mixed =>
          code.styles # <<>> /\ Last(code.styles) = code.wanted
    /\ copy.copied => copy.timers > 0

\* When it has been drawn, a diagram is of the present text and theme, or the error is; never are
\* both shown (MermaidBlock).
DiagramIsCurrent ==
    /\ (\A i \in DOMAIN diagram.runs : diagram.runs[i].cancelled) =>
          IF diagram.text = "" THEN diagram.svg = NoDrawing /\ diagram.error = ""
          ELSE diagram.svg = [text |-> diagram.text, theme |-> diagram.theme] \/ diagram.error = diagram.text
    /\ diagram.svg = NoDrawing \/ diagram.error = ""

\* A file is an image of a preview that was there, whole (createMemoShareImageBlob).
FilesAreWhole == \A f \in share.files : f.whole

\* Altogether.
MediaIsShown ==
    ButtonTells /\ StillReturns /\ PosterIsOwn /\ WaveIsLive /\ CodeIsColoured /\ DiagramIsCurrent /\ FilesAreWhole

===============================================================================
