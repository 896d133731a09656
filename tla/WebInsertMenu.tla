----------------------------- MODULE WebInsertMenu -----------------------------
(***************************************************************************)
(* The dialogs of the editor's insert menu.  A location is chosen on the   *)
(* map, typed as coordinates or found by the device, named by a geocoder a *)
(* second after it last changed, and put into the memo when confirmed.  A  *)
(* memo to link is searched for, 300 ms after the text last changed.       *)
(* Neither question is taken back when the dialog moves on.                *)
(*                                                                         *)
(* A point has two coordinates; 120 is one for the longitude only, and     *)
(* 500, which stands for anything that is not a number too, for none.      *)
(***************************************************************************)
EXTENDS Integers, Sequences, FiniteSets

LOCAL INSTANCE SequencesExt

CONSTANTS
    MaxTouches,  \* bound on what the user does
    MaxGlitches  \* bound on answers that fail

ASSUME WebInsertMenuConstants == MaxTouches \in Nat /\ MaxGlitches \in Nat

Coordinates == {0, 120, 500}
MapPoints == [lat : {0}, lng : {0, 120}]
Here == [lat |-> 0, lng |-> 0]       \* what the device finds
NoPoint == [lat |-> 500, lng |-> 500]

\* A placeholder: empty, the user's own words, emptied by the user, or the name of a point.
Unnamed == NoPoint
OwnWords == [lat |-> 500, lng |-> 0]
Cleared == [lat |-> 500, lng |-> 120]
NoPlace == [at |-> NoPoint, called |-> Unnamed, hurried |-> FALSE]

SearchTexts == {"", "plain", "quoted"}   \* what is searched for, "quoted" with a quotation mark in it

VARIABLES
    location,   \* EditorState.metadata.location
    picked,      \* useLocation: position, placeholder, latInput and lngInput
    initialized,\* useLocation: locationInitialized
    locating,   \* requests to the device under way
    showing,    \* the dialog that is open
    debounce,   \* the timer of the position runs
    geocoded,   \* debouncedPosition
    geocodes,   \* the query cache of the geocoder, per point
    revived,    \* the position was cleared and set again before the timer had told
    search,     \* useLinkMemo: text, whether its timer runs, the text of the results, isFetching
    searches,   \* requests under way, in the order they were made
    confused,   \* an answer overtook another, or the last request failed
    touches, glitches

insertVars == <<location, picked, initialized, locating, showing, debounce, geocoded, geocodes, revived,
                search, searches, confused, touches, glitches>>

Untouched == [position |-> NoPoint, placeholder |-> Unnamed, lat |-> 500, lng |-> 500]

Touch == touches < MaxTouches /\ touches' = touches + 1
Glitch == glitches < MaxGlitches /\ glitches' = glitches + 1

\* useMemoInit fills the store after the first render, in which useLocation takes its initial
\* value: also for a memo with a location the dialog starts empty.
InsertInit ==
    /\ location \in {NoPlace, [at |-> Here, called |-> Here, hurried |-> FALSE]}
    /\ picked = Untouched /\ initialized = FALSE /\ locating = 0 /\ showing = "none"
    /\ debounce = FALSE /\ geocoded = NoPoint /\ geocodes = [p \in MapPoints |-> "unknown"] /\ revived = FALSE
    /\ search = [text |-> "", timer |-> FALSE, results |-> "", fetching |-> TRUE] /\ searches = <<>>
    /\ confused = FALSE /\ touches = 0 /\ glitches = 0

-----------------------------------------------------------------------------
(* useLocation *)

\* The timer of useDebouncedEffect starts anew with every other position.
Moved(new) ==
    /\ picked' = new
    /\ debounce' = (debounce \/ new.position # NoPoint \/ picked.position # NoPoint)

\* handlePositionChange
HandlePositionChange(p) ==
    /\ Moved([picked EXCEPT !.position = p, !.lat = p.lat, !.lng = p.lng])
    /\ initialized' = TRUE
    /\ revived' = (revived \/ (picked.position = NoPoint /\ geocoded # NoPoint))

\* Mutant: one range for both.
InRangeOfEither(f, value) == value \in 0 .. 180

InRange(f, value) == IF f = "lat" THEN value \in 0 .. 90 ELSE value \in 0 .. 180

\* updateCoordinate: both inputs are written anew when the position takes the number; without a
\* position it is only shown.
UpdateCoordinate(f, value) ==
    LET next == [picked.position EXCEPT ![f] = value]
    IN /\ showing = "location" /\ picked[f] # value /\ Touch
       /\ IF InRange(f, value) /\ picked.position # NoPoint
          THEN Moved([picked EXCEPT !.position = next, !.lat = next.lat, !.lng = next.lng])
          ELSE picked' = [picked EXCEPT ![f] = value] /\ UNCHANGED debounce
       /\ UNCHANGED <<location, initialized, locating, showing, geocoded, geocodes, revived, search,
                      searches, confused, glitches>>

\* setPlaceholder, by the user: the field is disabled without a position.
TypePlaceholder(words) ==
    /\ showing = "location" /\ picked.position # NoPoint /\ picked.placeholder # words /\ Touch
    /\ picked' = [picked EXCEPT !.placeholder = words]
    /\ revived' = FALSE
    /\ UNCHANGED <<location, initialized, locating, showing, debounce, geocoded, geocodes, search,
                   searches, confused, glitches>>

\* The picker is there only while the dialog is; a click sets the marker and tells.
ClickMap(p) ==
    /\ showing = "location" /\ Touch
    /\ HandlePositionChange(p)
    /\ UNCHANGED <<location, locating, showing, geocoded, geocodes, search, searches, confused, glitches>>

\* handleLocationClick asks the device unless there is a location or was a position.
HandleLocationClick ==
    /\ showing = "none" /\ Touch
    /\ showing' = "location"
    /\ locating' = IF location = NoPlace /\ ~initialized THEN locating + 1 ELSE locating
    /\ UNCHANGED <<location, picked, initialized, debounce, geocoded, geocodes, revived, search,
                   searches, confused, glitches>>

\* The answer counts whatever has been chosen meanwhile, and whether the dialog is open or not.
DeviceAnswers ==
    /\ locating > 0 /\ locating' = locating - 1
    /\ HandlePositionChange(Here)
    /\ UNCHANGED <<location, showing, geocoded, geocodes, search, searches, confused, touches, glitches>>

DeviceRefuses ==
    /\ locating > 0 /\ locating' = locating - 1 /\ Glitch
    /\ UNCHANGED <<location, picked, initialized, showing, debounce, geocoded, geocodes, revived,
                   search, searches, confused, touches>>

\* getLocation, behind a button disabled in the same case.
HandleLocationConfirm ==
    /\ showing = "location" /\ picked.position # NoPoint /\ picked.placeholder \notin {Unnamed, Cleared} /\ Touch
    /\ location' = [at |-> picked.position, called |-> picked.placeholder,
                    hurried |-> debounce \/ geocodes[geocoded] = "asked"]
    /\ showing' = "none"
    /\ UNCHANGED <<picked, initialized, locating, debounce, geocoded, geocodes, revived, search,
                   searches, confused, glitches>>

\* reset: also a position that the device has still to find will be shown.
HandleLocationCancel ==
    /\ showing = "location" /\ Touch
    /\ Moved(Untouched) /\ initialized' = FALSE /\ showing' = "none"
    /\ UNCHANGED <<location, locating, geocoded, geocodes, revived, search, searches, confused, glitches>>

\* A key or a click beside a dialog leaves everything as it is; so does the close of the link dialog.
DismissDialog ==
    /\ showing # "none" /\ Touch
    /\ showing' = "none"
    /\ search' = [search EXCEPT !.timer = @ \/ showing = "link"]
    /\ UNCHANGED <<location, picked, initialized, locating, debounce, geocoded, geocodes, revived,
                   searches, confused, glitches>>

\* The cross beside the memo's location; the reset of a saved editor, which keeps the dialogs' state.
LocationRemoved ==
    /\ location # NoPlace /\ Touch
    /\ location' = NoPlace
    /\ UNCHANGED <<picked, initialized, locating, showing, debounce, geocoded, geocodes, revived,
                   search, searches, confused, glitches>>

-----------------------------------------------------------------------------
(* The geocoder: a query per point, fetched once *)

DisplayName(point, cache) == IF point \in MapPoints /\ cache[point] = "known" THEN point ELSE Unnamed

\* The effect of InsertMenu: a name that is new replaces the placeholder.
Renamed(point, cache) ==
    LET name == DisplayName(point, cache)
    IN picked' = IF name # Unnamed /\ name # DisplayName(geocoded, geocodes)
                THEN [picked EXCEPT !.placeholder = name] ELSE picked

PositionSettles ==
    /\ debounce /\ debounce' = FALSE
    /\ geocoded' = picked.position
    /\ geocodes' = [p \in MapPoints |-> IF p = geocoded' /\ geocodes[p] = "unknown" THEN "asked" ELSE geocodes[p]]
    /\ Renamed(geocoded', geocodes')
    /\ revived' = (revived /\ geocoded' = geocoded)
    /\ UNCHANGED <<location, initialized, locating, showing, search, searches, confused, touches, glitches>>

\* A failure is answered too, with the coordinates for a name.
GeocoderAnswers(p) ==
    /\ geocodes[p] = "asked"
    /\ geocodes' = [geocodes EXCEPT ![p] = "known"]
    /\ Renamed(geocoded, geocodes')
    /\ UNCHANGED <<location, initialized, locating, showing, debounce, geocoded, revived, search,
                   searches, confused, touches, glitches>>

-----------------------------------------------------------------------------
(* useLinkMemo *)

\* isOpen clears the text.
HandleOpenLinkDialog ==
    /\ showing = "none" /\ Touch
    /\ showing' = "link" /\ search' = [search EXCEPT !.text = "", !.timer = TRUE]
    /\ UNCHANGED <<location, picked, initialized, locating, debounce, geocoded, geocodes, revived,
                   searches, confused, glitches>>

TypeSearch(text) ==
    /\ showing = "link" /\ search.text # text /\ Touch
    /\ search' = [search EXCEPT !.text = text, !.timer = TRUE]
    /\ UNCHANGED <<location, picked, initialized, locating, showing, debounce, geocoded, geocodes,
                   revived, searches, confused, glitches>>

\* The text as it is when the timer fires; nothing for a dialog that was closed.
SearchSettles ==
    /\ search.timer
    /\ search' = [search EXCEPT !.timer = FALSE, !.fetching = @ \/ showing = "link"]
    /\ searches' = IF showing = "link" THEN Append(searches, [text |-> search.text]) ELSE searches
    /\ confused' = (confused /\ (showing # "link" \/ searches # <<>>))
    /\ UNCHANGED <<location, picked, initialized, locating, showing, debounce, geocoded, geocodes,
                   revived, touches, glitches>>

\* Whatever was asked last.
SearchAnswered(i) ==
    /\ i \in DOMAIN searches /\ searches[i].text # "quoted"
    /\ search' = [search EXCEPT !.results = searches[i].text, !.fetching = FALSE]
    /\ searches' = RemoveAt(searches, i)
    /\ confused' = (confused \/ i > 1)
    /\ UNCHANGED <<location, picked, initialized, locating, showing, debounce, geocoded, geocodes,
                   revived, touches, glitches>>

\* A quotation mark ends the string of the filter, which the server refuses.
SearchFails(i) ==
    /\ i \in DOMAIN searches
    /\ Glitch \/ (searches[i].text = "quoted" /\ UNCHANGED glitches)
    /\ search' = [search EXCEPT !.fetching = FALSE]
    /\ searches' = RemoveAt(searches, i) /\ confused' = TRUE
    /\ UNCHANGED <<location, picked, initialized, locating, showing, debounce, geocoded, geocodes,
                   revived, touches>>

InsertNext ==
    \/ HandleLocationClick \/ DeviceAnswers \/ DeviceRefuses \/ HandleLocationConfirm \/ HandleLocationCancel
    \/ DismissDialog \/ LocationRemoved \/ PositionSettles \/ HandleOpenLinkDialog \/ SearchSettles
    \/ \E p \in MapPoints : ClickMap(p) \/ GeocoderAnswers(p)
    \/ \E f \in {"lat", "lng"}, value \in Coordinates : UpdateCoordinate(f, value)
    \/ \E words \in {Cleared, OwnWords} : TypePlaceholder(words)
    \/ \E text \in SearchTexts : TypeSearch(text)
    \/ \E i \in 1 .. Len(searches) : SearchAnswered(i) \/ SearchFails(i)

InsertSpec == InsertInit /\ [][InsertNext]_insertVars

-----------------------------------------------------------------------------
(* Properties *)

\* The position has a name on the map, and the inputs show it but for what is not a coordinate.
PositionIsReal ==
    picked.position = NoPoint \/ (/\ picked.position \in MapPoints
                                 /\ \A f \in {"lat", "lng"} : InRange(f, picked[f]) => picked[f] = picked.position[f])

\* Once the timer has fired and the geocoder answered, the placeholder names the position or is
\* the user's, unless the position had been cleared just before (InsertMenu, useReverseGeocoding).
NameFollows ==
    LET p == picked.position
    IN p # NoPoint /\ ~debounce /\ geocodes[p] = "known" /\ ~revived => picked.placeholder \in {p, OwnWords, Cleared}

\* What was confirmed without haste has its own name or the user's.
LocationIsNamed == location # NoPlace /\ ~location.hurried => location.called \in {location.at, OwnWords}

\* Once the answers are there, the list of memos to link is of the text in the field, unless an
\* answer was overtaken or failed (useLinkMemo); nothing looks as if it were still being fetched.
ResultsMatch ==
    showing = "link" /\ ~search.timer /\ searches = <<>> =>
        ~search.fetching /\ (~confused => search.results = search.text)

\* Altogether.
InsertIsMeant == PositionIsReal /\ NameFollows /\ LocationIsNamed /\ ResultsMatch

===============================================================================
