------------------------------ MODULE MCWebViews ------------------------------
(* The parts of the web client that show and arrange things, for TLC: as in MCWebPages one of     *)
(* them, chosen at the start, takes all the steps.                                                *)
EXTENDS WebLibrary, WebAccount, WebInsertMenu, WebText, WebMedia, WebMemoPage, WebLayout

CONSTANT Parts  \* the parts to run

VARIABLE part

\* What has been uploaded, oldest first: a live photo with a document between its halves, a
\* Photoshop file, other media, the video of a live photo without its still, and nothing.
MCUploads ==
    {<<>>, <<"still", "document", "clip">>, <<"psd", "image">>, <<"video", "audio">>, <<"container">>}

\* A day before a leap day, the last of a year, and the last but one of a long month.
MCTodays == {FirstOf(12 * 2024 + 1) + 27, FirstOf(12 * 2023 + 11) + 30, FirstOf(12 * 2025) + 29}

\* Enough for every shade, and a busy day in another year.
MCPosts == (0 :> 1) @@ (3 :> 2) @@ (5 :> 3) @@ (9 :> 4) @@ (70 :> 9)

\* A part that does not run starts in one state only.
Init ==
    /\ part \in Parts
    /\ LibraryInit /\ (part # "library" => uploads = <<>>)
    /\ AccountInit /\ (part # "account" => general = NoRow /\ preferred.theme = "system")
    /\ InsertInit /\ (part # "insert" => location = NoPlace)
    /\ TextInit /\ (part # "text" => topic = "tags")
    /\ MediaInit /\ (part # "media" => medium = "audio")
    /\ PageInit
    /\ part # "memo" =>
         /\ visitor = "guest" /\ page = "memo" /\ ~store["reply"].there
         /\ store["memo"] = [NoMemo EXCEPT !.there = TRUE, !.visibility = "public"]
    /\ LayoutInit /\ (part # "layout" => subject = "gallery")

Next ==
    /\ UNCHANGED part
    /\ \/ /\ part = "library" /\ LibraryNext
          /\ UNCHANGED <<accountVars, insertVars, textVars, mediaVars, pageVars, layoutVars>>
       \/ /\ part = "account" /\ AccountNext
          /\ UNCHANGED <<libraryVars, insertVars, textVars, mediaVars, pageVars, layoutVars>>
       \/ /\ part = "insert" /\ InsertNext
          /\ UNCHANGED <<libraryVars, accountVars, textVars, mediaVars, pageVars, layoutVars>>
       \/ /\ part = "text" /\ TextNext
          /\ UNCHANGED <<libraryVars, accountVars, insertVars, mediaVars, pageVars, layoutVars>>
       \/ /\ part = "media" /\ MediaNext
          /\ UNCHANGED <<libraryVars, accountVars, insertVars, textVars, pageVars, layoutVars>>
       \/ /\ part = "memo" /\ PageNext
          /\ UNCHANGED <<libraryVars, accountVars, insertVars, textVars, mediaVars, layoutVars>>
       \/ /\ part = "layout" /\ LayoutNext
          /\ UNCHANGED <<libraryVars, accountVars, insertVars, textVars, mediaVars, pageVars>>

===============================================================================
