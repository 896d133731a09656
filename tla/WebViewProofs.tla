------------------------------ MODULE WebViewProofs ------------------------------
(***************************************************************************)
(* Views of the web client, for visits of any length: the dialogs of the   *)
(* insert menu (InsertIsMeant), what plays and is drawn in a memo          *)
(* (MediaIsShown), the page of a memo, with what it offers                 *)
(* (MemoPageIsTrue), and theme, language and profile (AccountIsKept).      *)
(***************************************************************************)
EXTENDS WebAccount, WebInsertMenu, WebMedia, WebMemoPage, FiniteSetTheorems, TLAPS

LOCAL INSTANCE SequencesExt

-----------------------------------------------------------------------------
(* The dialogs of the insert menu *)

Names == MapPoints \cup {Unnamed, OwnWords, Cleared}
Pickeds == [position : MapPoints \cup {NoPoint}, placeholder : Names, lat : Coordinates, lng : Coordinates]

LocationTyped ==
    /\ picked \in Pickeds /\ geocoded \in MapPoints \cup {NoPoint}
    /\ geocodes \in [MapPoints -> {"unknown", "asked", "known"}]
    /\ debounce \in BOOLEAN /\ revived \in BOOLEAN

\* When the timer is over the geocoder has been asked for the position.
AskedAbout ==
    /\ debounce \/ geocoded = picked.position
    /\ geocoded \in MapPoints => geocodes[geocoded] # "unknown"

\* The answer for the point asked about last is the name, unless the user's words or nothing is.
NameAccounted ==
    geocoded \in MapPoints /\ geocodes[geocoded] = "known" =>
        /\ picked.placeholder \in {geocoded, OwnWords, Cleared, Unnamed}
        /\ picked.position # NoPoint /\ ~revived => picked.placeholder # Unnamed

LocationSound == LocationTyped /\ PositionIsReal /\ AskedAbout /\ NameAccounted /\ LocationIsNamed

Asking == [text : SearchTexts]
Searching == [text : SearchTexts, timer : BOOLEAN, results : SearchTexts, fetching : BOOLEAN]
NoSearch == ""

\* The question asked last is about the text of the field.
SearchSound ==
    /\ search \in Searching /\ searches \in Seq(Asking)
    /\ showing = "link" => search.timer \/ searches # <<>> \/ ~search.fetching
    /\ showing = "link" /\ ~search.timer /\ ~confused =>
         search.text = IF searches = <<>> THEN search.results ELSE searches[Len(searches)].text

InsertSound == LocationSound /\ SearchSound

LEMMA PlaceFields ==
    /\ NoPoint \notin MapPoints /\ OwnWords \notin MapPoints /\ Cleared \notin MapPoints
    /\ OwnWords # Cleared /\ OwnWords # Unnamed /\ Cleared # Unnamed /\ Unnamed = NoPoint
    /\ Here \in MapPoints
    /\ \A p \in MapPoints : p.lat = 0 /\ p.lng \in {0, 120}
    /\ NoPoint.lat = 500 /\ NoPoint.lng = 500
BY DEF MapPoints, NoPoint, OwnWords, Cleared, Unnamed, Here

LEMMA PickedFields ==
    /\ Untouched \in Pickeds /\ Untouched.position = NoPoint /\ Untouched.placeholder = Unnamed
    /\ \A p \in Pickeds : /\ p.position \in MapPoints \cup {NoPoint} /\ p.placeholder \in Names
                          /\ p.lat \in Coordinates /\ p.lng \in Coordinates
<1>1. Untouched \in Pickeds
  <2>1. Unnamed \in Names /\ 500 \in Coordinates
    BY DEF Names, Coordinates
  <2> QED
    BY <2>1 DEF Pickeds, Untouched
<1>2. Untouched.position = NoPoint /\ Untouched.placeholder = Unnamed
  BY DEF Untouched
<1>3. \A p \in Pickeds : /\ p.position \in MapPoints \cup {NoPoint} /\ p.placeholder \in Names
                         /\ p.lat \in Coordinates /\ p.lng \in Coordinates
  BY DEF Pickeds
<1> QED
  BY <1>1, <1>2, <1>3

LEMMA PickedIsNamed ==
    ASSUME NEW p \in Pickeds, NEW w \in Names, NEW n, n = [p EXCEPT !.placeholder = w]
    PROVE  n \in Pickeds /\ n.placeholder = w /\ n.position = p.position /\ n.lat = p.lat /\ n.lng = p.lng
BY DEF Pickeds

\* The picked place with its position, and the inputs that show it.
MovedTo(p, q, n) == n = [p EXCEPT !.position = q, !.lat = q.lat, !.lng = q.lng]
TypedIn(p, f, v, n) == n = [p EXCEPT ![f] = v]

LEMMA PickedIsMoved ==
    ASSUME NEW p \in Pickeds, NEW q \in MapPoints, NEW n, MovedTo(p, q, n)
    PROVE  n \in Pickeds /\ n.placeholder = p.placeholder /\ n.position = q /\ n.lat = q.lat /\ n.lng = q.lng
<1>1. q.lat \in Coordinates /\ q.lng \in Coordinates
  BY DEF Coordinates, MapPoints
<1> DEFINE a == q.lat
           b == q.lng
<1>2. n = [p EXCEPT !.position = q, !.lat = a, !.lng = b] /\ a \in Coordinates /\ b \in Coordinates
  BY <1>1 DEF MovedTo
<1>3. a = q.lat /\ b = q.lng
  OBVIOUS
<1> HIDE DEF a, b
<1>4. n \in Pickeds /\ n.placeholder = p.placeholder /\ n.position = q /\ n.lat = a /\ n.lng = b
  BY <1>2 DEF Pickeds
<1> QED
  BY <1>3, <1>4

LEMMA InputIsSet ==
    ASSUME NEW p \in Pickeds, NEW f \in {"lat", "lng"}, NEW v \in Coordinates, NEW n, TypedIn(p, f, v, n)
    PROVE  /\ n \in Pickeds /\ n.placeholder = p.placeholder /\ n.position = p.position /\ n[f] = v
           /\ \A g \in {"lat", "lng"} : g # f => n[g] = p[g]
<1>1. CASE f = "lat"
  BY <1>1 DEF Pickeds, TypedIn
<1>2. CASE f = "lng"
  BY <1>2 DEF Pickeds, TypedIn
<1> QED
  BY <1>1, <1>2

\* A coordinate that is in range makes a point of the map of another.
LEMMA NextIsReal ==
    ASSUME NEW p \in MapPoints, NEW f \in {"lat", "lng"}, NEW v \in Coordinates, InRange(f, v)
    PROVE  [p EXCEPT ![f] = v] \in MapPoints
<1>1. CASE f = "lat"
  BY <1>1 DEF MapPoints, Coordinates, InRange
<1>2. CASE f = "lng"
  BY <1>2 DEF MapPoints, Coordinates, InRange
<1> QED
  BY <1>1, <1>2

LEMMA InputsShow ==
    ASSUME NEW p \in Pickeds, p.position \in MapPoints, p.lat = p.position.lat, p.lng = p.position.lng
    PROVE  \A f \in {"lat", "lng"} : p[f] = p.position[f]
<1>1. p["lat"] = p.position["lat"]
  BY DEF Pickeds, MapPoints
<1>2. p["lng"] = p.position["lng"]
  BY DEF Pickeds, MapPoints
<1> QED
  BY <1>1, <1>2

-----------------------------------------------------------------------------

\* The position moves, and its name stays for now: from a position, or from none with a point still known.
LEMMA MoveIsSound ==
    ASSUME LocationSound, NEW q \in MapPoints, Moved([picked EXCEPT !.position = q, !.lat = q.lat, !.lng = q.lng]),
           revived' = (revived \/ (picked.position = NoPoint /\ geocoded # NoPoint)), UNCHANGED <<geocoded, geocodes, location>>
    PROVE  LocationSound'
<1>0. picked \in Pickeds /\ LocationTyped /\ AskedAbout /\ NameAccounted /\ LocationIsNamed
  BY DEF LocationSound, LocationTyped
<1>1. /\ picked' \in Pickeds /\ picked'.placeholder = picked.placeholder /\ picked'.position = q
      /\ picked'.lat = q.lat /\ picked'.lng = q.lng /\ debounce'
  <2>1. MovedTo(picked, q, picked')
    BY DEF Moved, MovedTo
  <2>2. debounce' = (debounce \/ picked'.position # NoPoint \/ picked.position # NoPoint)
    <3> DEFINE new == [picked EXCEPT !.position = q, !.lat = q.lat, !.lng = q.lng]
    <3>1. Moved(new)
      OBVIOUS
    <3> HIDE DEF new
    <3> QED
      BY <3>1 DEF Moved
  <2>3. picked' \in Pickeds /\ picked'.placeholder = picked.placeholder /\ picked'.position = q
        /\ picked'.lat = q.lat /\ picked'.lng = q.lng
    BY <1>0, <2>1, PickedIsMoved
  <2>4. q # NoPoint
    BY PlaceFields
  <2>5. debounce'
    BY <2>2, <2>3, <2>4, Zenon
  <2> QED
    BY <2>3, <2>5
<1>2. LocationTyped'
  BY <1>0, <1>1 DEF LocationTyped
<1>3. PositionIsReal'
  BY <1>1, InputsShow DEF PositionIsReal
<1>4. AskedAbout'
  BY <1>0, <1>1 DEF AskedAbout
<1>5. NameAccounted'
  BY <1>0, <1>1, PlaceFields, ZenonT(40) DEF NameAccounted
<1>6. LocationIsNamed'
  BY <1>0 DEF LocationIsNamed
<1> QED
  BY <1>2, <1>3, <1>4, <1>5, <1>6 DEF LocationSound

LEMMA CoordinateIsSound ==
    ASSUME LocationSound, NEW f \in {"lat", "lng"}, NEW v \in Coordinates, UpdateCoordinate(f, v)
    PROVE  LocationSound'
<1>0. /\ picked \in Pickeds /\ LocationTyped /\ AskedAbout /\ NameAccounted /\ LocationIsNamed /\ PositionIsReal
      /\ picked.position \in MapPoints \cup {NoPoint}
  BY PickedFields DEF LocationSound, LocationTyped
<1> DEFINE next == [picked.position EXCEPT ![f] = v]
<1>1. CASE InRange(f, v) /\ picked.position # NoPoint
  <2>1. Moved([picked EXCEPT !.position = next, !.lat = next.lat, !.lng = next.lng])
    BY <1>1 DEF UpdateCoordinate
  <2>2. next \in MapPoints
    BY <1>0, <1>1, NextIsReal
  <2>3. UNCHANGED <<geocoded, geocodes, location, revived>>
    BY DEF UpdateCoordinate
  <2>4. revived' = (revived \/ (picked.position = NoPoint /\ geocoded # NoPoint))
    BY <1>0, <1>1, <2>3 DEF LocationTyped
  <2> HIDE DEF next
  <2> QED
    BY <2>1, <2>2, <2>3, <2>4, MoveIsSound
<1>2. CASE ~(InRange(f, v) /\ picked.position # NoPoint)
  <2>1. picked' = [picked EXCEPT ![f] = v] /\ UNCHANGED <<debounce, geocoded, geocodes, location, revived>>
    BY <1>2 DEF UpdateCoordinate
  <2>2. /\ picked' \in Pickeds /\ picked'.placeholder = picked.placeholder /\ picked'.position = picked.position
        /\ picked'[f] = v /\ \A g \in {"lat", "lng"} : g # f => picked'[g] = picked[g]
    <3>1. TypedIn(picked, f, v, picked')
      BY <2>1 DEF TypedIn
    <3> QED
      BY <1>0, <3>1, InputIsSet
  <2>3. LocationTyped'
    BY <1>0, <2>1, <2>2 DEF LocationTyped
  <2>4. PositionIsReal'
    BY <1>0, <1>2, <2>1, <2>2 DEF PositionIsReal, InRange
  <2>5. AskedAbout' /\ NameAccounted'
    BY <1>0, <2>1, <2>2 DEF AskedAbout, NameAccounted
  <2>6. LocationIsNamed'
    BY <1>0, <2>1 DEF LocationIsNamed
  <2> QED
    BY <2>3, <2>4, <2>5, <2>6 DEF LocationSound
<1> QED
  BY <1>1, <1>2

LEMMA WordsAreSound ==
    ASSUME LocationSound, NEW w \in {Cleared, OwnWords}, TypePlaceholder(w)
    PROVE  LocationSound'
<1>0. picked \in Pickeds /\ LocationTyped /\ AskedAbout /\ NameAccounted /\ LocationIsNamed /\ PositionIsReal
  BY DEF LocationSound, LocationTyped
<1>1. /\ picked' = [picked EXCEPT !.placeholder = w] /\ w \in Names /\ revived' = FALSE
      /\ UNCHANGED <<debounce, geocoded, geocodes, location>>
  BY DEF TypePlaceholder, Names
<1>2. /\ picked' \in Pickeds /\ picked'.placeholder = w /\ picked'.position = picked.position
      /\ picked'.lat = picked.lat /\ picked'.lng = picked.lng
  BY <1>0, <1>1, PickedIsNamed
<1>3. LocationTyped'
  BY <1>0, <1>1, <1>2 DEF LocationTyped
<1>4. PositionIsReal'
  BY <1>0, <1>1, <1>2 DEF PositionIsReal, InRange
<1>5. AskedAbout'
  BY <1>0, <1>1, <1>2 DEF AskedAbout
<1>6. NameAccounted'
  BY <1>0, <1>1, <1>2, PlaceFields DEF NameAccounted
<1>7. LocationIsNamed'
  BY <1>0, <1>1 DEF LocationIsNamed
<1> QED
  BY <1>3, <1>4, <1>5, <1>6, <1>7 DEF LocationSound

LEMMA ConfirmedIsSound == ASSUME LocationSound, HandleLocationConfirm PROVE LocationSound'
<1>0. picked \in Pickeds /\ LocationTyped /\ AskedAbout /\ NameAccounted /\ PositionIsReal
  BY DEF LocationSound, LocationTyped
<1>1. /\ picked.position # NoPoint /\ picked.placeholder \notin {Unnamed, Cleared}
      /\ location' = [at |-> picked.position, called |-> picked.placeholder, hurried |-> debounce \/ geocodes[geocoded] = "asked"]
      /\ UNCHANGED <<picked, debounce, geocoded, geocodes, revived>>
  BY DEF HandleLocationConfirm
<1>2. LocationIsNamed'
  <2> SUFFICES ASSUME ~location'.hurried PROVE location'.called \in {location'.at, OwnWords}
    BY DEF LocationIsNamed
  <2>1. ~debounce /\ geocodes[geocoded] # "asked"
    BY <1>1
  <2>2. geocoded = picked.position /\ geocoded \in MapPoints
    BY <1>0, <1>1, <2>1, PickedFields DEF AskedAbout
  <2>3. geocodes[geocoded] = "known"
    BY <1>0, <2>1, <2>2 DEF LocationTyped, AskedAbout
  <2>4. picked.placeholder \in {picked.position, OwnWords}
    BY <1>0, <1>1, <2>2, <2>3 DEF NameAccounted
  <2> QED
    BY <1>1, <2>4
<1>3. LocationTyped' /\ PositionIsReal' /\ AskedAbout' /\ NameAccounted'
  BY <1>0, <1>1 DEF LocationTyped, PositionIsReal, InRange, AskedAbout, NameAccounted
<1> QED
  BY <1>2, <1>3 DEF LocationSound

LEMMA CancelledIsSound == ASSUME LocationSound, HandleLocationCancel PROVE LocationSound'
<1>0. picked \in Pickeds /\ LocationTyped /\ AskedAbout /\ NameAccounted /\ LocationIsNamed
  BY DEF LocationSound, LocationTyped
<1>1. /\ picked' = Untouched /\ debounce' = (debounce \/ Untouched.position # NoPoint \/ picked.position # NoPoint)
      /\ UNCHANGED <<location, geocoded, geocodes, revived>>
  BY DEF HandleLocationCancel, Moved
<1>2. picked' \in Pickeds /\ picked'.position = NoPoint /\ picked'.placeholder = Unnamed
  BY <1>1, PickedFields
<1>3. LocationTyped' /\ PositionIsReal'
  BY <1>0, <1>1, <1>2 DEF LocationTyped, PositionIsReal
<1>4. AskedAbout'
  BY <1>0, <1>1, <1>2 DEF AskedAbout, LocationTyped
<1>5. NameAccounted' /\ LocationIsNamed'
  BY <1>0, <1>1, <1>2 DEF NameAccounted, LocationIsNamed
<1> QED
  BY <1>3, <1>4, <1>5 DEF LocationSound

\* The name shown changes to that of the point asked about, or stays.
LEMMA RenamedFields ==
    ASSUME LocationTyped, NEW g \in MapPoints \cup {NoPoint}, NEW names, Renamed(g, names)
    PROVE  /\ picked' \in Pickeds /\ picked'.position = picked.position /\ picked'.lat = picked.lat /\ picked'.lng = picked.lng
           /\ IF g \in MapPoints /\ names[g] = "known" /\ g # DisplayName(geocoded, geocodes)
              THEN picked'.placeholder = g ELSE picked'.placeholder = picked.placeholder
<1>0. picked \in Pickeds
  BY DEF LocationTyped
<1>1. CASE g \in MapPoints /\ names[g] = "known" /\ g # DisplayName(geocoded, geocodes)
  <2>1. picked' = [picked EXCEPT !.placeholder = g] /\ g \in Names
    BY <1>1, PlaceFields DEF Renamed, DisplayName, Names
  <2> QED
    BY <1>0, <1>1, <2>1, PickedIsNamed
<1>2. CASE ~(g \in MapPoints /\ names[g] = "known" /\ g # DisplayName(geocoded, geocodes))
  <2>1. picked' = picked
    BY <1>2, PlaceFields DEF Renamed, DisplayName
  <2> QED
    BY <1>0, <1>2, <2>1
<1> QED
  BY <1>1, <1>2

LEMMA SettlesIsSound == ASSUME LocationSound, PositionSettles PROVE LocationSound'
<1>0. /\ picked \in Pickeds /\ LocationTyped /\ AskedAbout /\ NameAccounted /\ LocationIsNamed /\ PositionIsReal
      /\ picked.position \in MapPoints \cup {NoPoint}
  BY PickedFields DEF LocationSound, LocationTyped
<1>1. /\ debounce' = FALSE /\ geocoded' = picked.position /\ Renamed(geocoded', geocodes')
      /\ geocodes' = [p \in MapPoints |-> IF p = geocoded' /\ geocodes[p] = "unknown" THEN "asked" ELSE geocodes[p]]
      /\ revived' = (revived /\ geocoded' = geocoded) /\ UNCHANGED location
  BY DEF PositionSettles
<1>2. /\ picked' \in Pickeds /\ picked'.position = picked.position /\ picked'.lat = picked.lat /\ picked'.lng = picked.lng
      /\ IF geocoded' \in MapPoints /\ geocodes'[geocoded'] = "known" /\ geocoded' # DisplayName(geocoded, geocodes)
         THEN picked'.placeholder = geocoded' ELSE picked'.placeholder = picked.placeholder
  BY <1>0, <1>1, RenamedFields
<1>3. geocodes' \in [MapPoints -> {"unknown", "asked", "known"}]
  BY <1>0, <1>1 DEF LocationTyped
<1>4. LocationTyped'
  BY <1>0, <1>1, <1>2, <1>3 DEF LocationTyped
<1>5. PositionIsReal'
  BY <1>0, <1>1, <1>2 DEF PositionIsReal, InRange
<1>6. AskedAbout'
  BY <1>0, <1>1, <1>2 DEF AskedAbout, LocationTyped
<1>7. NameAccounted'
  <2> SUFFICES ASSUME geocoded' \in MapPoints, geocodes'[geocoded'] = "known"
               PROVE  /\ picked'.placeholder \in {geocoded', OwnWords, Cleared, Unnamed}
                      /\ picked'.position # NoPoint /\ ~revived' => picked'.placeholder # Unnamed
    BY DEF NameAccounted
  <2>1. CASE geocoded' # DisplayName(geocoded, geocodes)
    BY <1>2, <2>1, PlaceFields
  <2>2. CASE geocoded' = DisplayName(geocoded, geocodes)
    <3>1. geocoded' = geocoded /\ geocodes[geocoded] = "known" /\ picked'.placeholder = picked.placeholder
      BY <1>2, <2>2, PlaceFields DEF DisplayName
    <3> QED
      BY <1>0, <1>1, <1>2, <3>1 DEF NameAccounted
  <2> QED
    BY <2>1, <2>2
<1>8. LocationIsNamed'
  BY <1>0, <1>1 DEF LocationIsNamed
<1> QED
  BY <1>4, <1>5, <1>6, <1>7, <1>8 DEF LocationSound

LEMMA GeocodedIsSound == ASSUME LocationSound, NEW p \in MapPoints, GeocoderAnswers(p) PROVE LocationSound'
<1>0. picked \in Pickeds /\ LocationTyped /\ AskedAbout /\ NameAccounted /\ LocationIsNamed /\ PositionIsReal
  BY DEF LocationSound, LocationTyped
<1>1. /\ geocodes[p] = "asked" /\ geocodes' = [geocodes EXCEPT ![p] = "known"] /\ Renamed(geocoded, geocodes')
      /\ UNCHANGED <<location, debounce, geocoded, revived>>
  BY DEF GeocoderAnswers
<1>2. /\ picked' \in Pickeds /\ picked'.position = picked.position /\ picked'.lat = picked.lat /\ picked'.lng = picked.lng
      /\ IF geocoded \in MapPoints /\ geocodes'[geocoded] = "known" /\ geocoded # DisplayName(geocoded, geocodes)
         THEN picked'.placeholder = geocoded ELSE picked'.placeholder = picked.placeholder
  BY <1>0, <1>1, RenamedFields DEF LocationTyped
<1>3. /\ geocodes' \in [MapPoints -> {"unknown", "asked", "known"}] /\ geocodes'[p] = "known"
      /\ \A q \in MapPoints \ {p} : geocodes'[q] = geocodes[q]
  BY <1>0, <1>1 DEF LocationTyped
<1>4. LocationTyped'
  BY <1>0, <1>1, <1>2, <1>3 DEF LocationTyped
<1>5. PositionIsReal'
  BY <1>0, <1>1, <1>2 DEF PositionIsReal, InRange
<1>6. AskedAbout'
  BY <1>0, <1>1, <1>2, <1>3 DEF AskedAbout
<1>7. NameAccounted'
  <2>1. CASE geocoded = p
    <3>1. DisplayName(geocoded, geocodes) = Unnamed
      BY <1>1, <2>1 DEF DisplayName
    <3> QED
      BY <1>1, <1>2, <1>3, <2>1, <3>1, PlaceFields DEF NameAccounted
  <2>2. CASE geocoded # p
    <3>1. geocoded \in MapPoints => geocodes'[geocoded] = geocodes[geocoded]
      BY <1>3, <2>2
    <3>2. picked'.placeholder = picked.placeholder
      BY <1>2, <3>1 DEF DisplayName
    <3> QED
      BY <1>0, <1>1, <1>2, <3>1, <3>2 DEF NameAccounted
  <2> QED
    BY <2>1, <2>2
<1>8. LocationIsNamed'
  BY <1>0, <1>1 DEF LocationIsNamed
<1> QED
  BY <1>4, <1>5, <1>6, <1>7, <1>8 DEF LocationSound

\* What does not touch the dialog of the location; the memo's location may go.
LEMMA LocationIsKept ==
    ASSUME LocationSound, UNCHANGED <<picked, debounce, geocoded, geocodes, revived>>, location' \in {location, NoPlace}
    PROVE  LocationSound'
<1>1. LocationTyped' /\ PositionIsReal' /\ AskedAbout' /\ NameAccounted'
  BY DEF LocationSound, LocationTyped, PositionIsReal, InRange, AskedAbout, NameAccounted
<1>2. LocationIsNamed'
  BY DEF LocationSound, LocationIsNamed
<1> QED
  BY <1>1, <1>2 DEF LocationSound

-----------------------------------------------------------------------------

\* How the state of the search is written.
LEMMA TextIsSearched ==
    ASSUME NEW s \in Searching, NEW t \in SearchTexts, NEW n, n = [s EXCEPT !.text = t, !.timer = TRUE]
    PROVE  n \in Searching /\ n.timer
BY DEF Searching

LEMMA TimerRuns ==
    ASSUME NEW s \in Searching, NEW b, NEW n, n = [s EXCEPT !.timer = @ \/ b]
    PROVE  n \in Searching
BY DEF Searching

LEMMA TextIsAsked ==
    ASSUME NEW s \in Searching, NEW b, NEW n, n = [s EXCEPT !.timer = FALSE, !.fetching = @ \/ b]
    PROVE  n \in Searching /\ n.text = s.text
BY DEF Searching

ShowsResults(s, t, n) == n = [s EXCEPT !.results = t, !.fetching = FALSE]

LEMMA ResultsAreShown ==
    ASSUME NEW s \in Searching, NEW t \in SearchTexts, NEW n, ShowsResults(s, t, n)
    PROVE  n \in Searching /\ n.text = s.text /\ n.timer = s.timer /\ n.results = t /\ ~n.fetching
BY DEF Searching, ShowsResults

LEMMA SearchIsOver ==
    ASSUME NEW s \in Searching, NEW n, n = [s EXCEPT !.fetching = FALSE]
    PROVE  n \in Searching /\ ~n.fetching
BY DEF Searching

LEMMA RequestIsAnswered ==
    ASSUME NEW S, NEW s \in Seq(S), NEW i \in 1 .. Len(s), NEW r, r = RemoveAt(s, i)
    PROVE  /\ r \in Seq(S) /\ Len(r) = Len(s) - 1
           /\ i = 1 /\ Len(s) > 1 => r[Len(r)] = s[Len(s)]
<1> DEFINE a == SubSeq(s, 1, i - 1)
           b == SubSeq(s, i + 1, Len(s))
<1>1. a \in Seq(S) /\ Len(a) = i - 1
  OBVIOUS
<1>2. b \in Seq(S) /\ Len(b) = Len(s) - i
  OBVIOUS
<1>6. ASSUME i = 1, Len(s) > 1 PROVE b[Len(s) - 1] = s[Len(s)]
  <2>1. Len(s) - 1 \in 1 .. Len(s) - 2 + 1 /\ 2 + (Len(s) - 1) - 1 = Len(s)
    BY <1>6
  <2>2. SubSeq(s, 2, Len(s))[Len(s) - 1] = s[2 + (Len(s) - 1) - 1]
    BY <1>6, <2>1
  <2>3. b = SubSeq(s, 2, Len(s))
    BY <1>6
  <2> QED
    BY <2>1, <2>2, <2>3
<1>3. r = a \o b
  BY DEF RemoveAt
<1> HIDE DEF a, b
<1>4. r \in Seq(S) /\ Len(r) = Len(a) + Len(b)
  <2>1. a \in Seq(S) /\ b \in Seq(S)
    BY <1>1, <1>2
  <2>2. a \o b \in Seq(S)
    BY <2>1
  <2>3. Len(a \o b) = Len(a) + Len(b)
    BY <2>1
  <2> QED
    BY <1>3, <2>2, <2>3
<1>5. ASSUME i = 1, Len(s) > 1 PROVE r[Len(r)] = s[Len(s)]
  <2>1. Len(a) = 0 /\ Len(b) = Len(s) - 1 /\ Len(b) \in 1 .. Len(b)
    BY <1>1, <1>2, <1>5
  <2>2. r[Len(r)] = b[Len(b)]
    BY <1>1, <1>2, <1>3, <1>4, <2>1
  <2> QED
    BY <1>6, <1>5, <2>1, <2>2
<1> QED
  BY <1>1, <1>2, <1>4, <1>5

LEMMA SearchIsKept ==
    ASSUME SearchSound, UNCHANGED <<search, searches, confused>>, showing' = showing \/ showing' # "link"
    PROVE  SearchSound'
BY DEF SearchSound

LEMMA DismissedIsSound == ASSUME SearchSound, DismissDialog PROVE SearchSound'
<1>1. search \in Searching /\ search' = [search EXCEPT !.timer = @ \/ showing = "link"]
  BY DEF SearchSound, DismissDialog
<1>2. search' \in Searching
  BY <1>1, TimerRuns
<1> QED
  BY <1>2 DEF SearchSound, DismissDialog

LEMMA OpenedIsSound == ASSUME SearchSound, HandleOpenLinkDialog PROVE SearchSound'
<1>1. search \in Searching /\ search' = [search EXCEPT !.text = NoSearch, !.timer = TRUE]
  BY DEF SearchSound, HandleOpenLinkDialog, NoSearch
<1>2. NoSearch \in SearchTexts
  BY DEF NoSearch, SearchTexts
<1>3. search' \in Searching /\ search'.timer
  BY <1>1, <1>2, TextIsSearched
<1>4. UNCHANGED <<searches, confused>>
  BY DEF HandleOpenLinkDialog
<1> QED
  BY <1>3, <1>4 DEF SearchSound

LEMMA SearchTypedIsSound == ASSUME SearchSound, NEW t \in SearchTexts, TypeSearch(t) PROVE SearchSound'
<1>1. search \in Searching /\ search' = [search EXCEPT !.text = t, !.timer = TRUE] /\ UNCHANGED <<searches, confused>>
  BY DEF SearchSound, TypeSearch
<1>2. search' \in Searching /\ search'.timer
  BY <1>1, TextIsSearched
<1> QED
  BY <1>1, <1>2 DEF SearchSound

LEMMA AskedIsSound == ASSUME SearchSound, SearchSettles PROVE SearchSound'
<1>1. /\ search \in Searching /\ search' = [search EXCEPT !.timer = FALSE, !.fetching = @ \/ showing = "link"]
      /\ searches \in Seq(Asking) /\ UNCHANGED showing
      /\ searches' = IF showing = "link" THEN Append(searches, [text |-> search.text]) ELSE searches
  BY DEF SearchSound, SearchSettles
<1>2. search' \in Searching /\ search'.text = search.text
  BY <1>1, TextIsAsked
<1>3. [text |-> search.text] \in Asking
  BY <1>1 DEF Searching, Asking
<1>4. CASE showing = "link"
  <2> DEFINE question == [text |-> search.text]
  <2>1. searches' = Append(searches, question) /\ question \in Asking /\ question.text = search.text
    BY <1>1, <1>3, <1>4
  <2> HIDE DEF question
  <2>2. searches' \in Seq(Asking) /\ searches' # <<>> /\ searches'[Len(searches')] = question
    BY <1>1, <2>1
  <2> QED
    BY <1>2, <2>1, <2>2 DEF SearchSound
<1>5. CASE showing # "link"
  BY <1>1, <1>2, <1>5 DEF SearchSound
<1> QED
  BY <1>4, <1>5

LEMMA AnsweredIsSound == ASSUME SearchSound, NEW i \in 1 .. Len(searches), SearchAnswered(i) PROVE SearchSound'
<1>1. /\ search \in Searching /\ searches \in Seq(Asking) /\ UNCHANGED showing
      /\ search' = [search EXCEPT !.results = searches[i].text, !.fetching = FALSE]
      /\ searches' = RemoveAt(searches, i) /\ confused' = (confused \/ i > 1)
  BY DEF SearchSound, SearchAnswered
<1>2. searches[i].text \in SearchTexts /\ Len(searches) \in Nat
  <2>1. searches \in Seq(Asking)
    BY <1>1
  <2>2. searches[i] \in Asking /\ Len(searches) \in Nat
    BY <2>1
  <2> QED
    BY <2>2 DEF Asking
<1>3. /\ search' \in Searching /\ search'.text = search.text /\ search'.timer = search.timer
      /\ search'.results = searches[i].text /\ ~search'.fetching
  <2>1. search \in Searching /\ ShowsResults(search, searches[i].text, search')
    BY <1>1 DEF ShowsResults
  <2> QED
    BY <1>2, <2>1, ResultsAreShown
<1>4. /\ searches' \in Seq(Asking) /\ Len(searches') = Len(searches) - 1
      /\ i = 1 /\ Len(searches) > 1 => searches'[Len(searches')] = searches[Len(searches)]
  BY <1>1, RequestIsAnswered
<1>5. ASSUME showing = "link", ~search.timer, ~confused'
      PROVE  search'.text = IF searches' = <<>> THEN search'.results ELSE searches'[Len(searches')].text
  <2>1. ~confused /\ i = 1
    <3>1. ~confused /\ ~(i > 1)
      BY <1>1, <1>5
    <3>2. i \in 1 .. Len(searches) /\ Len(searches) \in Nat
      BY <1>2
    <3> QED
      BY <3>1, <3>2
  <2>2. searches # <<>> /\ search.text = searches[Len(searches)].text
    BY <1>1, <1>5, <2>1 DEF SearchSound
  <2>3. CASE Len(searches) = 1
    <3>1. searches' = <<>>
      BY <1>4, <2>3
    <3> QED
      BY <1>3, <2>1, <2>2, <2>3, <3>1
  <2>4. CASE Len(searches) > 1
    <3>1. searches' # <<>>
      BY <1>4, <2>4
    <3> QED
      BY <1>3, <1>4, <2>1, <2>2, <2>4, <3>1
  <2>5. Len(searches) = 1 \/ Len(searches) > 1
    BY <1>2, <2>1
  <2> QED
    BY <2>3, <2>4, <2>5
<1> QED
  BY <1>1, <1>3, <1>4, <1>5 DEF SearchSound

LEMMA FailedSearchIsSound == ASSUME SearchSound, NEW i \in 1 .. Len(searches), SearchFails(i) PROVE SearchSound'
<1>1. /\ search \in Searching /\ searches \in Seq(Asking) /\ search' = [search EXCEPT !.fetching = FALSE]
      /\ searches' = RemoveAt(searches, i) /\ confused' = TRUE
  BY DEF SearchSound, SearchFails
<1>2. search' \in Searching /\ ~search'.fetching
  BY <1>1, SearchIsOver
<1>3. searches' \in Seq(Asking)
  BY <1>1, RequestIsAnswered
<1> QED
  BY <1>1, <1>2, <1>3 DEF SearchSound

LEMMA InsertStepIsSound == ASSUME InsertSound, [InsertNext]_insertVars PROVE InsertSound'
<1>0. LocationSound /\ SearchSound
  BY DEF InsertSound
<1>1. ASSUME NEW q \in MapPoints, HandlePositionChange(q), UNCHANGED <<geocoded, geocodes, location>> PROVE LocationSound'
  BY <1>0, <1>1, MoveIsSound DEF HandlePositionChange
<1>2. CASE HandleLocationClick \/ DeviceRefuses \/ LocationRemoved
  <2>1. /\ UNCHANGED <<picked, debounce, geocoded, geocodes, revived, search, searches, confused>>
        /\ location' \in {location, NoPlace} /\ (showing' = showing \/ showing' # "link")
    BY <1>2 DEF HandleLocationClick, DeviceRefuses, LocationRemoved
  <2> QED
    BY <1>0, <2>1, LocationIsKept, SearchIsKept DEF InsertSound
<1>3. CASE DeviceAnswers \/ \E p \in MapPoints : ClickMap(p)
  <2>1. PICK p \in MapPoints : HandlePositionChange(p) /\ UNCHANGED <<geocoded, geocodes, location, search, searches, confused, showing>>
    BY <1>3, PlaceFields DEF DeviceAnswers, ClickMap
  <2>2. LocationSound'
    BY <1>1, <2>1
  <2> QED
    BY <1>0, <2>1, <2>2, SearchIsKept DEF InsertSound
<1>4. CASE HandleLocationConfirm \/ HandleLocationCancel
  <2>1. UNCHANGED <<search, searches, confused>> /\ showing' # "link"
    BY <1>4 DEF HandleLocationConfirm, HandleLocationCancel
  <2> QED
    BY <1>0, <1>4, <2>1, SearchIsKept, ConfirmedIsSound, CancelledIsSound DEF InsertSound
<1>5. CASE PositionSettles \/ \E p \in MapPoints : GeocoderAnswers(p)
  <2>1. UNCHANGED <<search, searches, confused, showing>>
    BY <1>5 DEF PositionSettles, GeocoderAnswers
  <2> QED
    BY <1>0, <1>5, <2>1, SearchIsKept, SettlesIsSound, GeocodedIsSound DEF InsertSound
<1>6. CASE \E f \in {"lat", "lng"}, value \in Coordinates : UpdateCoordinate(f, value)
  <2>1. UNCHANGED <<search, searches, confused, showing>>
    BY <1>6 DEF UpdateCoordinate
  <2> QED
    BY <1>0, <1>6, <2>1, SearchIsKept, CoordinateIsSound DEF InsertSound
<1>7. CASE \E words \in {Cleared, OwnWords} : TypePlaceholder(words)
  <2>1. UNCHANGED <<search, searches, confused, showing>>
    BY <1>7 DEF TypePlaceholder
  <2> QED
    BY <1>0, <1>7, <2>1, SearchIsKept, WordsAreSound DEF InsertSound
<1>8. CASE DismissDialog \/ HandleOpenLinkDialog \/ SearchSettles
  <2>1. UNCHANGED <<picked, debounce, geocoded, geocodes, revived, location>>
    BY <1>8 DEF DismissDialog, HandleOpenLinkDialog, SearchSettles
  <2> QED
    BY <1>0, <1>8, <2>1, LocationIsKept, DismissedIsSound, OpenedIsSound, AskedIsSound DEF InsertSound
<1>9. CASE \E text \in SearchTexts : TypeSearch(text)
  <2>1. UNCHANGED <<picked, debounce, geocoded, geocodes, revived, location>>
    BY <1>9 DEF TypeSearch
  <2> QED
    BY <1>0, <1>9, <2>1, LocationIsKept, SearchTypedIsSound DEF InsertSound
<1>10. CASE \E i \in 1 .. Len(searches) : SearchAnswered(i) \/ SearchFails(i)
  <2>1. UNCHANGED <<picked, debounce, geocoded, geocodes, revived, location>>
    BY <1>10 DEF SearchAnswered, SearchFails
  <2> QED
    BY <1>0, <1>10, <2>1, LocationIsKept, AnsweredIsSound, FailedSearchIsSound DEF InsertSound
<1>11. CASE UNCHANGED insertVars
  BY <1>0, <1>11, LocationIsKept, SearchIsKept DEF InsertSound, insertVars
<1> QED
  BY <1>2, <1>3, <1>4, <1>5, <1>6, <1>7, <1>8, <1>9, <1>10, <1>11 DEF InsertNext

\* InsertIsMeant: the position the location dialog holds is a point of the map and the inputs show
\* it; once the timer has fired and the geocoder answered, its name is shown; what is confirmed
\* without haste carries that name or the user's; and the memos found are those searched for.
THEOREM ChoiceIsMeant == InsertSpec => []InsertIsMeant
<1>1. InsertInit => InsertSound
  <2> SUFFICES ASSUME InsertInit PROVE InsertSound
    OBVIOUS
  <2>1. /\ picked = Untouched /\ debounce = FALSE /\ geocoded = NoPoint /\ revived = FALSE
        /\ geocodes = [p \in MapPoints |-> "unknown"] /\ showing = "none" /\ searches = <<>>
    BY DEF InsertInit
  <2>2. LocationTyped /\ PositionIsReal /\ AskedAbout /\ NameAccounted
    BY <2>1, PickedFields, PlaceFields DEF LocationTyped, PositionIsReal, AskedAbout, NameAccounted
  <2>3. LocationIsNamed
    <3>1. location = NoPlace \/ location = [at |-> Here, called |-> Here, hurried |-> FALSE]
      BY DEF InsertInit
    <3>2. location = NoPlace \/ location.called = location.at
      BY <3>1
    <3> QED
      BY <3>2 DEF LocationIsNamed
  <2>4. search \in Searching
    BY DEF InsertInit, Searching, SearchTexts
  <2>5. SearchSound
    BY <2>1, <2>4 DEF SearchSound
  <2> QED
    BY <2>2, <2>3, <2>5 DEF InsertSound, LocationSound
<1>2. InsertSound /\ [InsertNext]_insertVars => InsertSound'
  BY InsertStepIsSound
<1>3. InsertSound => InsertIsMeant
  <2> SUFFICES ASSUME InsertSound PROVE InsertIsMeant
    OBVIOUS
  <2>1. LocationTyped /\ PositionIsReal /\ LocationIsNamed /\ AskedAbout /\ NameAccounted /\ SearchSound
    BY DEF InsertSound, LocationSound
  <2>2. NameFollows
    BY <2>1, PlaceFields DEF NameFollows, PositionIsReal, AskedAbout, NameAccounted
  <2>3. ResultsMatch
    BY <2>1 DEF ResultsMatch, SearchSound
  <2> QED
    BY <2>1, <2>2, <2>3 DEF InsertIsMeant
<1> QED
  BY <1>1, <1>2, <1>3, PTL DEF InsertSpec

-----------------------------------------------------------------------------
(* What plays and is drawn in a memo *)

TaskKinds == {"play", "pause", "time", "resolve", "reject"}
Tasks == [kind : TaskKinds, start : Nat]
Elements == [paused : BOOLEAN, waiting : BOOLEAN, tasks : Seq(Tasks), at : 0 .. End, broken : BOOLEAN]
Colours == {"light", "dark", "system", NoTheme}
Writings == {"", "graph", "bad"}
Drawings == [text : Writings, theme : Colours]
DrawingRuns == [text : Writings, theme : Colours, stage : {"import", "render"}, cancelled : BOOLEAN]

\* What a button says is to come, by the tasks that are still to be told.
Signals == {"play", "pause", "reject"}
Quiet(tasks, kinds) == \A i \in DOMAIN tasks : tasks[i].kind \notin kinds
WillSay(tasks, says, plays) ==
    \/ Quiet(tasks, Signals) /\ (says <=> plays)
    \/ \E i \in DOMAIN tasks : /\ tasks[i].kind \in Signals /\ (plays <=> tasks[i].kind = "play")
                               /\ \A j \in DOMAIN tasks : j > i => tasks[j].kind \notin Signals

ButtonSound ==
    medium = "audio" /\ ~element.broken =>
        /\ WillSay(element.tasks, button.playing, ~element.paused)
        /\ Quiet(element.tasks, {"time"}) => button.time = element.at \/ (element.at = End /\ button.time = 0)

Answers == {"resolve", "reject"}
Has(tasks, kind, start) == \E i \in DOMAIN tasks : tasks[i].kind = kind /\ tasks[i].start = start
NoneLater(tasks, start) == \A i \in DOMAIN tasks : tasks[i].kind \in Answers => tasks[i].start <= start
NoneOlder(tasks, start) == \A i \in DOMAIN tasks : tasks[i].kind = "resolve" => tasks[i].start = start
ResolvedLast(tasks, start) ==
    \A i \in DOMAIN tasks : tasks[i].kind = "resolve" /\ tasks[i].start = start =>
        \A j \in DOMAIN tasks : j > i => tasks[j].kind \notin Answers

Plays == motion.active /\ ~element.paused /\ ~element.waiting

AtRest ==
    /\ element.paused \/ element.broken => ~element.waiting
    /\ ~motion.active => element.paused
    /\ ~motion.active /\ ~motion.late => ~motion.shown /\ Quiet(element.tasks, {"resolve"})

AnswersKnown ==
    /\ NoneLater(element.tasks, motion.starts) /\ ResolvedLast(element.tasks, motion.starts)
    /\ motion.active => ~Has(element.tasks, "reject", motion.starts)
    /\ motion.active /\ Has(element.tasks, "resolve", motion.starts) => Plays
    /\ Plays => Has(element.tasks, "resolve", motion.starts) \/ (motion.shown /\ Quiet(element.tasks, Answers))
    /\ ~motion.late => NoneOlder(element.tasks, motion.starts) /\ (motion.shown => Plays)

StillSound == medium = "motion" => AtRest /\ (~element.broken => AnswersKnown)

WaveRuns == [resuming : BOOLEAN, ticking : BOOLEAN, hasty : BOOLEAN]
Waves == [stream : Nat, runs : Seq(WaveRuns), levels : Nat]
WaveSound ==
    /\ wave \in Waves
    /\ wave.stream <= Len(wave.runs) /\ wave.levels <= Len(wave.runs)
    /\ \A n \in DOMAIN wave.runs : wave.runs[n].resuming \/ wave.runs[n].ticking => n = wave.stream \/ wave.runs[n].hasty
    /\ wave.levels # 0 => wave.levels = wave.stream \/ wave.runs[wave.levels].hasty

Codes == [chosen : Colours, system : Colours, blocks : Seq(Colours), styles : Seq(Colours),
          imports : Seq(Colours), wanted : Colours, mixed : BOOLEAN]

Coloured(c) ==
    /\ c \in Codes
    /\ c.wanted # NoTheme /\ ~c.mixed =>
          IF c.imports = <<>> THEN c.styles # <<>> /\ Last(c.styles) = c.wanted ELSE Last(c.imports) = c.wanted

CodeSound ==
    /\ Coloured(code)
    /\ copy \in [copied : BOOLEAN, timers : Nat] /\ (copy.copied => copy.timers > 0)

Diagrams == [text : Writings, theme : Colours, runs : Seq(DrawingRuns), svg : Drawings, error : Writings]
NoText == ""
Drawing(text, theme) == [text |-> text, theme |-> theme]

\* A run that was not cancelled is the last one, and for what is to be shown.
OneRunCounts(d) ==
    \A i \in DOMAIN d.runs : ~d.runs[i].cancelled =>
        /\ i = Len(d.runs) /\ d.text # NoText
        /\ d.runs[i].text = d.text /\ d.runs[i].theme = d.theme
NoneCounts(d) == \A i \in DOMAIN d.runs : d.runs[i].cancelled
Drawn(d) ==
    IF d.text = NoText THEN d.svg = NoDrawing /\ d.error = NoText
    ELSE d.svg = Drawing(d.text, d.theme) \/ d.error = d.text
NotBoth(d) == d.svg = NoDrawing \/ d.error = NoText
DiagramSound ==
    diagram \in Diagrams /\ OneRunCounts(diagram) /\ (NoneCounts(diagram) => Drawn(diagram)) /\ NotBoth(diagram)

ElementTyped ==
    /\ element \in Elements /\ button \in [playing : BOOLEAN, time : 0 .. End]
    /\ motion \in [active : BOOLEAN, shown : BOOLEAN, starts : Nat, late : BOOLEAN]

Renderings == [stage : {"none", "assets", "draw"}, opening : Nat, whole : BOOLEAN]
PosterSound == poster \in [source : 1 .. 2, given : BOOLEAN, captured : 0 .. 2] /\ PosterIsOwn
ShareSound ==
    /\ share \in [openings : Nat, open : BOOLEAN, rendering : Renderings, files : SUBSET Renderings]
    /\ FilesAreWhole

ElementSound == ElementTyped /\ ButtonSound /\ StillSound
MediaSound == ElementSound /\ PosterSound /\ WaveSound /\ CodeSound /\ DiagramSound /\ ShareSound

-----------------------------------------------------------------------------

\* Tasks that are told, and new ones.
LEMMA TaskComes ==
    ASSUME NEW S, NEW s \in Seq(S), NEW t \in S, NEW r, r = Append(s, t)
    PROVE  /\ r \in Seq(S) /\ Len(r) = Len(s) + 1 /\ Len(s) \in Nat
           /\ \A i \in 1 .. Len(s) : r[i] = s[i]
           /\ r[Len(s) + 1] = t /\ r # <<>>
OBVIOUS

LEMMA TaskGoes ==
    ASSUME NEW S, NEW s \in Seq(S), s # <<>>, NEW r, r = Tail(s)
    PROVE  /\ r \in Seq(S) /\ Len(r) = Len(s) - 1 /\ Len(s) \in Nat \ {0}
           /\ \A i \in 1 .. Len(s) - 1 : r[i] = s[i + 1]
           /\ Head(s) = s[1] /\ s[1] \in S
OBVIOUS

LEMMA QuietWithTask ==
    ASSUME NEW s \in Seq(Tasks), NEW t \in Tasks, NEW r, r = Append(s, t), NEW kinds
    PROVE  Quiet(r, kinds) <=> Quiet(s, kinds) /\ t.kind \notin kinds
<1>1. /\ r \in Seq(Tasks) /\ Len(r) = Len(s) + 1 /\ Len(s) \in Nat
      /\ \A i \in 1 .. Len(s) : r[i] = s[i]
      /\ r[Len(s) + 1] = t
  BY TaskComes
<1>2. DOMAIN r = 1 .. Len(s) + 1 /\ DOMAIN s = 1 .. Len(s)
  BY <1>1
<1> QED
  BY <1>1, <1>2 DEF Quiet

LEMMA QuietWithoutTask ==
    ASSUME NEW s \in Seq(Tasks), s # <<>>, NEW kinds
    PROVE  Quiet(s, kinds) <=> Quiet(Tail(s), kinds) /\ Head(s).kind \notin kinds
<1> DEFINE r == Tail(s)
<1>1. /\ r \in Seq(Tasks) /\ Len(r) = Len(s) - 1 /\ Len(s) \in Nat \ {0}
      /\ \A i \in 1 .. Len(s) - 1 : r[i] = s[i + 1]
      /\ Head(s) = s[1]
  BY TaskGoes
<1>2. DOMAIN r = 1 .. Len(s) - 1 /\ DOMAIN s = 1 .. Len(s)
  BY <1>1
<1> HIDE DEF r
<1>3. ASSUME Quiet(s, kinds) PROVE Quiet(r, kinds) /\ Head(s).kind \notin kinds
  <2>1. 1 \in DOMAIN s /\ \A i \in 1 .. Len(s) - 1 : i + 1 \in DOMAIN s
    BY <1>1, <1>2
  <2>2. Head(s).kind \notin kinds
    BY <1>1, <1>3, <2>1 DEF Quiet
  <2>3. \A i \in 1 .. Len(s) - 1 : r[i].kind \notin kinds
    BY <1>1, <1>3, <2>1 DEF Quiet
  <2> QED
    BY <1>2, <2>2, <2>3 DEF Quiet
<1>4. ASSUME Quiet(r, kinds), Head(s).kind \notin kinds PROVE Quiet(s, kinds)
  <2> SUFFICES ASSUME NEW i \in 1 .. Len(s) PROVE s[i].kind \notin kinds
    BY <1>2 DEF Quiet
  <2>1. CASE i = 1
    BY <1>1, <1>4, <2>1
  <2>2. CASE i > 1
    <3>1. i - 1 \in 1 .. Len(s) - 1 /\ (i - 1) + 1 = i
      BY <1>1, <2>2
    <3>2. r[i - 1] = s[i]
      BY <1>1, <3>1
    <3> QED
      BY <1>2, <1>4, <3>1, <3>2 DEF Quiet
  <2> QED
    BY <1>1, <2>1, <2>2
<1> QED
  BY <1>3, <1>4, Zenon DEF r

LEMMA SignalIsSaid ==
    ASSUME NEW s \in Seq(Tasks), NEW t \in Tasks, t.kind \in Signals, NEW r, r = Append(s, t), NEW says, NEW plays,
           plays <=> t.kind = "play"
    PROVE  WillSay(r, says, plays)
<1>1. r[Len(s) + 1] = t /\ DOMAIN r = 1 .. Len(s) + 1 /\ Len(s) \in Nat
  BY TaskComes
<1> QED
  BY <1>1 DEF WillSay

LEMMA OtherIsSaid ==
    ASSUME NEW s \in Seq(Tasks), NEW t \in Tasks, t.kind \notin Signals, NEW r, r = Append(s, t), NEW says, NEW plays,
           WillSay(s, says, plays)
    PROVE  WillSay(r, says, plays)
<1>1. /\ r[Len(s) + 1] = t /\ Len(s) \in Nat /\ \A i \in 1 .. Len(s) : r[i] = s[i]
      /\ DOMAIN r = 1 .. Len(s) + 1 /\ DOMAIN s = 1 .. Len(s)
  BY TaskComes
<1>2. CASE Quiet(s, Signals) /\ (says <=> plays)
  BY <1>2, QuietWithTask DEF WillSay
<1>3. CASE ~(Quiet(s, Signals) /\ (says <=> plays))
  <2>1. PICK i \in DOMAIN s : /\ s[i].kind \in Signals /\ (plays <=> s[i].kind = "play")
                              /\ \A j \in DOMAIN s : j > i => s[j].kind \notin Signals
    BY <1>3 DEF WillSay
  <2>2. i \in DOMAIN r /\ r[i] = s[i]
    BY <1>1, <2>1
  <2>3. \A j \in DOMAIN r : j > i => r[j].kind \notin Signals
    BY <1>1, <2>1
  <2> QED
    BY <2>1, <2>2, <2>3 DEF WillSay
<1> QED
  BY <1>2, <1>3

\* What the button says when it has been told of the first task.
Told(says, kind) == (says \/ kind = "play") /\ kind \notin {"pause", "reject"}

LEMMA FirstIsSaid ==
    ASSUME NEW s \in Seq(Tasks), s # <<>>, NEW says, NEW plays, WillSay(s, says, plays), NEW new,
           new <=> Told(says, Head(s).kind)
    PROVE  WillSay(Tail(s), new, plays)
<1> DEFINE r == Tail(s)
<1>1. /\ r \in Seq(Tasks) /\ Len(r) = Len(s) - 1 /\ Len(s) \in Nat \ {0}
      /\ \A i \in 1 .. Len(s) - 1 : r[i] = s[i + 1]
      /\ Head(s) = s[1]
  BY TaskGoes
<1>2. DOMAIN r = 1 .. Len(s) - 1 /\ DOMAIN s = 1 .. Len(s)
  BY <1>1
<1>3. Quiet(s, Signals) <=> Quiet(r, Signals) /\ Head(s).kind \notin Signals
  BY QuietWithoutTask
<1> HIDE DEF r
<1>4. CASE Quiet(s, Signals) /\ (says <=> plays)
  <2>1. new <=> says
    BY <1>3, <1>4 DEF Told, Signals
  <2> QED
    BY <1>3, <1>4, <2>1 DEF WillSay, r
<1>5. CASE ~(Quiet(s, Signals) /\ (says <=> plays))
  <2>1. PICK i \in DOMAIN s : /\ s[i].kind \in Signals /\ (plays <=> s[i].kind = "play")
                              /\ \A j \in DOMAIN s : j > i => s[j].kind \notin Signals
    BY <1>5 DEF WillSay
  <2>2. CASE i = 1
    <3>1. Quiet(r, Signals)
      <4> SUFFICES ASSUME NEW j \in 1 .. Len(s) - 1 PROVE r[j].kind \notin Signals
        BY <1>2 DEF Quiet
      <4>1. j + 1 \in DOMAIN s /\ j + 1 > i /\ r[j] = s[j + 1]
        BY <1>1, <1>2, <2>2
      <4> QED
        BY <2>1, <4>1
    <3>2. new <=> plays
      BY <1>1, <2>1, <2>2 DEF Told, Signals
    <3> QED
      BY <3>1, <3>2 DEF WillSay, r
  <2>3. CASE i > 1
    <3>1. i - 1 \in DOMAIN r /\ r[i - 1] = s[i]
      <4>1. i - 1 \in 1 .. Len(s) - 1 /\ (i - 1) + 1 = i
        BY <1>1, <1>2, <2>3
      <4> QED
        BY <1>1, <1>2, <4>1
    <3>2. \A j \in DOMAIN r : j > i - 1 => r[j].kind \notin Signals
      <4> SUFFICES ASSUME NEW j \in 1 .. Len(s) - 1, j > i - 1 PROVE r[j].kind \notin Signals
        BY <1>2
      <4>1. j + 1 \in DOMAIN s /\ j + 1 > i /\ r[j] = s[j + 1]
        BY <1>1, <1>2, <2>3
      <4> QED
        BY <2>1, <4>1
    <3> QED
      BY <2>1, <3>1, <3>2 DEF WillSay, r
  <2> QED
    BY <1>1, <1>2, <2>2, <2>3
<1> QED
  BY <1>4, <1>5

-----------------------------------------------------------------------------
(* The media element *)

LEMMA TaskFields ==
    /\ \A kind \in TaskKinds, start \in Nat : Task(kind, start) \in Tasks
    /\ \A kind, start : Task(kind, start).kind = kind /\ Task(kind, start).start = start
    /\ \A t \in Tasks : t.kind \in TaskKinds /\ t.start \in Nat
BY DEF Task, Tasks

LEMMA ElementFields ==
    \A e \in Elements : /\ e.paused \in BOOLEAN /\ e.waiting \in BOOLEAN /\ e.broken \in BOOLEAN
                        /\ e.tasks \in Seq(Tasks) /\ e.at \in 0 .. End
BY DEF Elements

\* An element made of another by changing some of its fields.
Element(p, w, ts, t, b) == [paused |-> p, waiting |-> w, tasks |-> ts, at |-> t, broken |-> b]

Made(e, p, w, ts, t, b) == e = Element(p, w, ts, t, b)

LEMMA ElementMade ==
    ASSUME NEW e, NEW p, NEW w, NEW ts \in Seq(Tasks), NEW t \in 0 .. End, NEW b, Made(e, p, w, ts, t, b)
    PROVE  /\ p \in BOOLEAN /\ w \in BOOLEAN /\ b \in BOOLEAN => e \in Elements
           /\ e.tasks = ts /\ e.at = t
           /\ (e.paused <=> p) /\ (e.waiting <=> w) /\ (e.broken <=> b)
BY DEF Made, Element, Elements

LEMMA ElementIs == \A e \in Elements : e = Element(e.paused, e.waiting, e.tasks, e.at, e.broken)
BY DEF Element, Elements

\* The tasks of play() and of pause().
FromStart(e) == IF e.at = End THEN Append(e.tasks, Task("time", 0)) ELSE e.tasks
Playing(e) == IF e.paused THEN Append(FromStart(e), Task("play", 0)) ELSE FromStart(e)
Stopping(e) == Append(e.tasks, Task("pause", 0))
Stopped(e, start) == IF e.waiting THEN Append(Stopping(e), Task("reject", start)) ELSE Stopping(e)

LEMMA TaskAppended ==
    ASSUME NEW s \in Seq(Tasks), NEW t \in Tasks
    PROVE  s \o <<t>> = Append(s, t) /\ s \o <<>> = s
OBVIOUS

LEMMA TasksTold ==
    ASSUME NEW e \in Elements, NEW start \in Nat
    PROVE  /\ e.tasks \o (IF e.at = End THEN <<Task("time", 0)>> ELSE <<>>)
                     \o (IF e.paused THEN <<Task("play", 0)>> ELSE <<>>) = Playing(e)
           /\ e.tasks \o <<Task("pause", 0)>> \o (IF e.waiting THEN <<Task("reject", start)>> ELSE <<>>)
              = Stopped(e, start)
           /\ Playing(e) \in Seq(Tasks) /\ Stopped(e, start) \in Seq(Tasks)
           /\ FromStart(e) \in Seq(Tasks) /\ Stopping(e) \in Seq(Tasks)
<1>1. e.tasks \in Seq(Tasks) /\ \A kind \in TaskKinds, n \in Nat : Task(kind, n) \in Tasks
  BY ElementFields, TaskFields
<1>2. /\ Task("time", 0) \in Tasks /\ Task("play", 0) \in Tasks
      /\ Task("pause", 0) \in Tasks /\ Task("reject", start) \in Tasks
  BY <1>1 DEF TaskKinds
<1>3. /\ e.tasks \o (IF e.at = End THEN <<Task("time", 0)>> ELSE <<>>) = FromStart(e)
      /\ FromStart(e) \in Seq(Tasks)
  BY <1>1, <1>2, TaskAppended, TaskComes DEF FromStart
<1>4. FromStart(e) \o (IF e.paused THEN <<Task("play", 0)>> ELSE <<>>) = Playing(e) /\ Playing(e) \in Seq(Tasks)
  BY <1>2, <1>3, TaskAppended, TaskComes DEF Playing
<1>5. e.tasks \o <<Task("pause", 0)>> = Stopping(e) /\ Stopping(e) \in Seq(Tasks)
  BY <1>1, <1>2, TaskAppended, TaskComes DEF Stopping
<1>6. /\ Stopping(e) \o (IF e.waiting THEN <<Task("reject", start)>> ELSE <<>>) = Stopped(e, start)
      /\ Stopped(e, start) \in Seq(Tasks)
  BY <1>2, <1>5, TaskAppended, TaskComes DEF Stopped
<1> QED
  BY <1>3, <1>4, <1>5, <1>6

LEMMA PlayedIs ==
    ASSUME NEW e \in Elements, ~e.broken
    PROVE  Played(e) = Element(FALSE, TRUE, Playing(e), IF e.at = End THEN 0 ELSE e.at, FALSE)
<1> DEFINE ts == e.tasks \o (IF e.at = End THEN <<Task("time", 0)>> ELSE <<>>)
                        \o (IF e.paused THEN <<Task("play", 0)>> ELSE <<>>)
           t == IF e.at = End THEN 0 ELSE e.at
<1>1. Played(e) = [e EXCEPT !.paused = FALSE, !.waiting = TRUE, !.at = t, !.tasks = ts]
  BY DEF Played
<1>2. ts = Playing(e)
  BY TasksTold
<1>3. t = IF e.at = End THEN 0 ELSE e.at
  OBVIOUS
<1> HIDE DEF ts, t
<1>4. Played(e) = Element(FALSE, TRUE, ts, t, e.broken)
  BY <1>1 DEF Element, Elements
<1>5. e.broken = FALSE
  BY ElementFields
<1> QED
  BY <1>2, <1>3, <1>4, <1>5

LEMMA PausedIs ==
    ASSUME NEW e \in Elements, ~e.paused, NEW start \in Nat
    PROVE  Paused(e, start) = Element(TRUE, FALSE, Stopped(e, start), e.at, e.broken)
<1> DEFINE ts == e.tasks \o <<Task("pause", 0)>> \o (IF e.waiting THEN <<Task("reject", start)>> ELSE <<>>)
<1>1. Paused(e, start) = [e EXCEPT !.paused = TRUE, !.waiting = FALSE, !.tasks = ts]
  BY DEF Paused
<1>2. ts = Stopped(e, start)
  BY TasksTold
<1> HIDE DEF ts
<1>3. Paused(e, start) = Element(TRUE, FALSE, ts, e.at, e.broken)
  BY <1>1 DEF Element, Elements
<1> QED
  BY <1>2, <1>3

-----------------------------------------------------------------------------
(* The answers to play() among the tasks *)

Grown(s, t, r) == r = Append(s, t)
Shrunk(s, r) == s # <<>> /\ r = Tail(s)

LEMMA AnswerComes ==
    ASSUME NEW s \in Seq(Tasks), NEW t \in Tasks, NEW r, Grown(s, t, r), NEW n \in Nat
    PROVE  /\ \A kind : Has(r, kind, n) <=> Has(s, kind, n) \/ (t.kind = kind /\ t.start = n)
           /\ NoneLater(s, n) /\ (t.kind \in Answers => t.start <= n) => NoneLater(r, n)
           /\ NoneOlder(s, n) /\ (t.kind = "resolve" => t.start = n) => NoneOlder(r, n)
           /\ ResolvedLast(s, n) /\ t.kind \notin Answers => ResolvedLast(r, n)
           /\ ~Has(s, "resolve", n) => ResolvedLast(r, n)
<1>1. /\ DOMAIN r = 1 .. Len(s) + 1 /\ DOMAIN s = 1 .. Len(s) /\ Len(s) \in Nat
      /\ \A i \in 1 .. Len(s) : r[i] = s[i]
      /\ r[Len(s) + 1] = t
  BY TaskComes DEF Grown
<1>2. \A kind : Has(r, kind, n) <=> Has(s, kind, n) \/ (t.kind = kind /\ t.start = n)
  <2> SUFFICES ASSUME NEW kind PROVE Has(r, kind, n) <=> Has(s, kind, n) \/ (t.kind = kind /\ t.start = n)
    OBVIOUS
  <2>1. Has(s, kind, n) => Has(r, kind, n)
    BY <1>1 DEF Has
  <2>2. t.kind = kind /\ t.start = n => Has(r, kind, n)
    BY <1>1 DEF Has
  <2>3. Has(r, kind, n) => Has(s, kind, n) \/ (t.kind = kind /\ t.start = n)
    BY <1>1 DEF Has
  <2> QED
    BY <2>1, <2>2, <2>3
<1>3. NoneLater(s, n) /\ (t.kind \in Answers => t.start <= n) => NoneLater(r, n)
  BY <1>1 DEF NoneLater
<1>4. NoneOlder(s, n) /\ (t.kind = "resolve" => t.start = n) => NoneOlder(r, n)
  BY <1>1 DEF NoneOlder
<1>5. ResolvedLast(s, n) /\ t.kind \notin Answers => ResolvedLast(r, n)
  <2> SUFFICES ASSUME ResolvedLast(s, n), t.kind \notin Answers,
                      NEW i \in 1 .. Len(s) + 1, r[i].kind = "resolve", r[i].start = n,
                      NEW j \in 1 .. Len(s) + 1, j > i
               PROVE  r[j].kind \notin Answers
    BY <1>1 DEF ResolvedLast
  <2>1. i \in 1 .. Len(s) /\ r[i] = s[i]
    BY <1>1
  <2>2. CASE j = Len(s) + 1
    BY <1>1, <2>2
  <2>3. CASE j # Len(s) + 1
    <3>1. j \in 1 .. Len(s) /\ r[j] = s[j]
      BY <1>1, <2>3
    <3> QED
      BY <1>1, <2>1, <3>1 DEF ResolvedLast
  <2> QED
    BY <2>2, <2>3
<1>6. ~Has(s, "resolve", n) => ResolvedLast(r, n)
  <2> SUFFICES ASSUME ~Has(s, "resolve", n), NEW i \in 1 .. Len(s) + 1, r[i].kind = "resolve", r[i].start = n
               PROVE  i = Len(s) + 1
    BY <1>1 DEF ResolvedLast
  <2>1. i \notin 1 .. Len(s)
    BY <1>1 DEF Has
  <2> QED
    BY <1>1, <2>1
<1> QED
  BY <1>2, <1>3, <1>4, <1>5, <1>6

LEMMA AnswerGoes ==
    ASSUME NEW s \in Seq(Tasks), NEW r, Shrunk(s, r), NEW n \in Nat
    PROVE  /\ \A kind : Has(s, kind, n) <=> Has(r, kind, n) \/ (Head(s).kind = kind /\ Head(s).start = n)
           /\ NoneLater(s, n) => NoneLater(r, n)
           /\ NoneOlder(s, n) => NoneOlder(r, n) /\ (Head(s).kind = "resolve" => Head(s).start = n)
           /\ ResolvedLast(s, n) => ResolvedLast(r, n)
           /\ ResolvedLast(s, n) /\ Head(s).kind = "resolve" /\ Head(s).start = n => Quiet(r, Answers)
<1>1. /\ DOMAIN r = 1 .. Len(s) - 1 /\ DOMAIN s = 1 .. Len(s) /\ Len(s) \in Nat \ {0}
      /\ \A i \in 1 .. Len(s) - 1 : r[i] = s[i + 1]
      /\ Head(s) = s[1]
  BY TaskGoes DEF Shrunk
<1>0. 1 \in DOMAIN s /\ \A i \in 1 .. Len(s) - 1 : i + 1 \in DOMAIN s /\ i + 1 > 1
  BY <1>1
<1>2. \A kind : Has(s, kind, n) <=> Has(r, kind, n) \/ (Head(s).kind = kind /\ Head(s).start = n)
  <2> SUFFICES ASSUME NEW kind PROVE Has(s, kind, n) <=> Has(r, kind, n) \/ (Head(s).kind = kind /\ Head(s).start = n)
    OBVIOUS
  <2>1. Has(r, kind, n) => Has(s, kind, n)
    BY <1>0, <1>1 DEF Has
  <2>2. Head(s).kind = kind /\ Head(s).start = n => Has(s, kind, n)
    BY <1>0, <1>1 DEF Has
  <2>3. ASSUME NEW i \in DOMAIN s, s[i].kind = kind, s[i].start = n
        PROVE  Has(r, kind, n) \/ (Head(s).kind = kind /\ Head(s).start = n)
    <3>1. CASE i = 1
      BY <1>1, <2>3, <3>1
    <3>2. CASE i > 1
      <4>1. i - 1 \in 1 .. Len(s) - 1 /\ (i - 1) + 1 = i
        BY <1>1, <3>2
      <4>2. i - 1 \in DOMAIN r /\ r[i - 1] = s[i]
        BY <1>1, <4>1
      <4> QED
        BY <2>3, <4>2 DEF Has
    <3> QED
      BY <1>1, <3>1, <3>2
  <2> QED
    BY <2>1, <2>2, <2>3 DEF Has
<1>3. NoneLater(s, n) => NoneLater(r, n)
  BY <1>0, <1>1 DEF NoneLater
<1>4. NoneOlder(s, n) => NoneOlder(r, n) /\ (Head(s).kind = "resolve" => Head(s).start = n)
  BY <1>0, <1>1 DEF NoneOlder
<1>5. ResolvedLast(s, n) => ResolvedLast(r, n)
  <2> SUFFICES ASSUME ResolvedLast(s, n), NEW i \in 1 .. Len(s) - 1, r[i].kind = "resolve", r[i].start = n,
                      NEW j \in 1 .. Len(s) - 1, j > i
               PROVE  r[j].kind \notin Answers
    BY <1>1 DEF ResolvedLast
  <2>1. r[i] = s[i + 1] /\ r[j] = s[j + 1] /\ i + 1 \in DOMAIN s /\ j + 1 \in DOMAIN s /\ j + 1 > i + 1
    BY <1>0, <1>1
  <2> QED
    BY <2>1 DEF ResolvedLast
<1>6. ResolvedLast(s, n) /\ Head(s).kind = "resolve" /\ Head(s).start = n => Quiet(r, Answers)
  <2> SUFFICES ASSUME ResolvedLast(s, n), s[1].kind = "resolve", s[1].start = n, NEW j \in 1 .. Len(s) - 1
               PROVE  r[j].kind \notin Answers
    BY <1>1 DEF Quiet
  <2>1. r[j] = s[j + 1] /\ j + 1 \in DOMAIN s /\ j + 1 > 1 /\ 1 \in DOMAIN s
    BY <1>0, <1>1
  <2> QED
    BY <2>1 DEF ResolvedLast
<1> QED
  BY <1>2, <1>3, <1>4, <1>5, <1>6

LEMMA NewStart ==
    ASSUME NEW s \in Seq(Tasks), NEW n \in Nat, NoneLater(s, n)
    PROVE  /\ NoneLater(s, n + 1) /\ ~Has(s, "reject", n + 1) /\ ~Has(s, "resolve", n + 1)
<1>1. \A i \in DOMAIN s : s[i] \in Tasks
  OBVIOUS
<1>2. \A i \in DOMAIN s : s[i].start \in Nat
  BY <1>1, TaskFields
<1> QED
  BY <1>2 DEF NoneLater, Has, Answers

LEMMA QuietOnes ==
    ASSUME NEW s
    PROVE  /\ Quiet(s, {"resolve"}) => \A n : NoneOlder(s, n) /\ ~Has(s, "resolve", n) /\ ResolvedLast(s, n)
           /\ Quiet(s, Answers) => Quiet(s, {"resolve"}) /\ \A n : ~Has(s, "reject", n)
           /\ Quiet(<<>>, {"resolve"}) /\ Quiet(<<>>, Answers)
           /\ \A n : NoneLater(<<>>, n)
BY DEF Quiet, NoneOlder, Has, ResolvedLast, Answers, NoneLater

-----------------------------------------------------------------------------
(* The audio player, and the moving part of a live photo *)

LEMMA ElementForms ==
    ASSUME NEW e \in Elements, NEW ts, NEW t
    PROVE  /\ [e EXCEPT !.tasks = ts] = Element(e.paused, e.waiting, ts, e.at, e.broken)
           /\ [e EXCEPT !.at = t] = Element(e.paused, e.waiting, e.tasks, t, e.broken)
           /\ [e EXCEPT !.waiting = FALSE, !.tasks = ts] = Element(e.paused, FALSE, ts, e.at, e.broken)
           /\ [e EXCEPT !.waiting = FALSE, !.broken = TRUE, !.tasks = ts] = Element(e.paused, FALSE, ts, e.at, TRUE)
           /\ [e EXCEPT !.at = t, !.tasks = ts] = Element(e.paused, e.waiting, ts, t, e.broken)
           /\ [e EXCEPT !.paused = TRUE, !.at = t] = Element(TRUE, e.waiting, e.tasks, t, e.broken)
           /\ [e EXCEPT !.paused = TRUE, !.waiting = FALSE, !.tasks = ts, !.at = t, !.broken = FALSE]
              = Element(TRUE, FALSE, ts, t, FALSE)
<1>1. [e EXCEPT !.tasks = ts] = Element(e.paused, e.waiting, ts, e.at, e.broken)
  BY DEF Element, Elements
<1>2. [e EXCEPT !.at = t] = Element(e.paused, e.waiting, e.tasks, t, e.broken)
  BY DEF Element, Elements
<1>3. [e EXCEPT !.waiting = FALSE, !.tasks = ts] = Element(e.paused, FALSE, ts, e.at, e.broken)
  <2> DEFINE n == [e EXCEPT !.waiting = FALSE, !.tasks = ts]
  <2>1. n = [e EXCEPT !.waiting = FALSE, !.tasks = ts]
    OBVIOUS
  <2> HIDE DEF n
  <2>2. n = Element(e.paused, FALSE, ts, e.at, e.broken)
    BY <2>1 DEF Element, Elements
  <2> QED
    BY <2>1, <2>2
<1>4. [e EXCEPT !.waiting = FALSE, !.broken = TRUE, !.tasks = ts] = Element(e.paused, FALSE, ts, e.at, TRUE)
  <2> DEFINE n == [e EXCEPT !.waiting = FALSE, !.broken = TRUE, !.tasks = ts]
  <2>1. n = [e EXCEPT !.waiting = FALSE, !.broken = TRUE, !.tasks = ts]
    OBVIOUS
  <2> HIDE DEF n
  <2>2. n = Element(e.paused, FALSE, ts, e.at, TRUE)
    BY <2>1 DEF Element, Elements
  <2> QED
    BY <2>1, <2>2
<1>5. [e EXCEPT !.at = t, !.tasks = ts] = Element(e.paused, e.waiting, ts, t, e.broken)
  <2> DEFINE n == [e EXCEPT !.at = t, !.tasks = ts]
  <2>1. n = [e EXCEPT !.at = t, !.tasks = ts]
    OBVIOUS
  <2> HIDE DEF n
  <2>2. n = Element(e.paused, e.waiting, ts, t, e.broken)
    BY <2>1 DEF Element, Elements
  <2> QED
    BY <2>1, <2>2
<1>6. [e EXCEPT !.paused = TRUE, !.at = t] = Element(TRUE, e.waiting, e.tasks, t, e.broken)
  <2> DEFINE n == [e EXCEPT !.paused = TRUE, !.at = t]
  <2>1. n = [e EXCEPT !.paused = TRUE, !.at = t]
    OBVIOUS
  <2> HIDE DEF n
  <2>2. n = Element(TRUE, e.waiting, e.tasks, t, e.broken)
    BY <2>1 DEF Element, Elements
  <2> QED
    BY <2>1, <2>2
<1>7. [e EXCEPT !.paused = TRUE, !.waiting = FALSE, !.tasks = ts, !.at = t, !.broken = FALSE] = Element(TRUE, FALSE, ts, t, FALSE)
  <2> DEFINE n == [e EXCEPT !.paused = TRUE, !.waiting = FALSE, !.tasks = ts, !.at = t, !.broken = FALSE]
  <2>1. n = [e EXCEPT !.paused = TRUE, !.waiting = FALSE, !.tasks = ts, !.at = t, !.broken = FALSE]
    OBVIOUS
  <2> HIDE DEF n
  <2>2. n = Element(TRUE, FALSE, ts, t, FALSE)
    BY <2>1 DEF Element, Elements
  <2> QED
    BY <2>1, <2>2
<1> QED
  BY <1>1, <1>2, <1>3, <1>4, <1>5, <1>6, <1>7

LEMMA MotionFields ==
    ElementTyped => /\ element \in Elements /\ motion.starts \in Nat
                    /\ motion.active \in BOOLEAN /\ motion.shown \in BOOLEAN /\ motion.late \in BOOLEAN
                    /\ button.playing \in BOOLEAN /\ button.time \in 0 .. End /\ End = 2
BY DEF ElementTyped, End

LEMMA StartsIsSound == ASSUME ElementSound, ElementStarts PROVE ElementSound'
<1> DEFINE task == Task("resolve", motion.starts)
           queue == Append(element.tasks, task)
<1>0. ElementTyped /\ ButtonSound /\ StillSound /\ element \in Elements /\ motion.starts \in Nat /\ element.tasks \in Seq(Tasks)
  BY MotionFields, ElementFields DEF ElementSound
<1>1. task \in Tasks /\ task.kind = "resolve" /\ task.start = motion.starts
  BY <1>0, TaskFields, SMTT(30) DEF TaskKinds
<1>2. element' = Element(element.paused, FALSE, queue, element.at, element.broken) /\ queue \in Seq(Tasks)
  BY <1>0, <1>1, ElementForms, TaskComes DEF ElementStarts
<1>3. element.waiting /\ UNCHANGED <<button, motion, medium>>
  BY DEF ElementStarts, ElementKept, Answer
<1> HIDE DEF task, queue
<1>4. /\ element' \in Elements /\ (element'.paused <=> element.paused) /\ ~element'.waiting
      /\ element'.tasks = queue /\ element'.at = element.at /\ (element'.broken <=> element.broken)
  <2>1. element.paused \in BOOLEAN /\ element.at \in 0 .. End /\ element.broken \in BOOLEAN /\ FALSE \in BOOLEAN
    BY <1>0, ElementFields
  <2>2. Made(element', element.paused, FALSE, queue, element.at, element.broken)
    BY <1>2 DEF Made
  <2>3. (element'.paused <=> element.paused) /\ element'.tasks = queue /\ element'.at = element.at
    BY <1>2, <2>1, <2>2, ElementMade
  <2>4. ~element'.waiting /\ (element'.broken <=> element.broken)
    BY <1>2, <2>1, <2>2, ElementMade, ZenonT(60)
  <2>5. element' \in Elements
    BY <1>2, <2>1, <2>2, ElementMade
  <2> QED
    BY <2>3, <2>4, <2>5
<1>5. ElementTyped'
  BY <1>0, <1>3, <1>4 DEF ElementTyped
<1>6. ButtonSound'
  <2> SUFFICES ASSUME medium = "audio", ~element.broken
               PROVE  /\ WillSay(queue, button.playing, ~element.paused)
                      /\ Quiet(queue, {"time"}) => button.time = element.at \/ (element.at = End /\ button.time = 0)
    BY <1>3, <1>4 DEF ButtonSound
  <2>1. WillSay(element.tasks, button.playing, ~element.paused)
    BY <1>0 DEF ButtonSound
  <2>2. WillSay(queue, button.playing, ~element.paused)
    BY <1>0, <1>1, <2>1, OtherIsSaid DEF queue, Signals
  <2>3. Quiet(queue, {"time"}) => Quiet(element.tasks, {"time"})
    BY <1>0, <1>1, QuietWithTask DEF queue
  <2> QED
    BY <1>0, <2>2, <2>3 DEF ButtonSound
<1>7. StillSound'
  <2> SUFFICES ASSUME medium = "motion" PROVE AtRest' /\ (~element.broken => AnswersKnown')
    BY <1>3, <1>4 DEF StillSound
  <2>1. AtRest /\ motion.active /\ ~element.broken /\ ~element.paused /\ AnswersKnown
    BY <1>0, <1>3, ElementFields DEF StillSound, AtRest
  <2>2. AtRest'
    BY <1>3, <1>4, <2>1 DEF AtRest
  <2>3. ~Has(element.tasks, "resolve", motion.starts) /\ ~Has(element.tasks, "reject", motion.starts) /\ Plays'
    BY <1>3, <1>4, <2>1 DEF AnswersKnown, Plays
  <2>4. /\ NoneLater(queue, motion.starts) /\ ResolvedLast(queue, motion.starts)
        /\ Has(queue, "resolve", motion.starts) /\ ~Has(queue, "reject", motion.starts)
        /\ NoneOlder(element.tasks, motion.starts) => NoneOlder(queue, motion.starts)
    <3>1. NoneLater(element.tasks, motion.starts) /\ task.start <= motion.starts /\ task.kind # "reject"
      BY <1>0, <1>1, <2>1 DEF AnswersKnown
    <3>2. Grown(element.tasks, task, queue)
      BY DEF queue, Grown
    <3>3. /\ Has(queue, "resolve", motion.starts) /\ ~Has(queue, "reject", motion.starts)
      BY <1>0, <1>1, <2>3, <3>1, <3>2, AnswerComes
    <3>4. /\ NoneLater(queue, motion.starts) /\ ResolvedLast(queue, motion.starts)
          /\ NoneOlder(element.tasks, motion.starts) => NoneOlder(queue, motion.starts)
      BY <1>0, <1>1, <2>3, <3>1, <3>2, AnswerComes
    <3> QED
      BY <3>3, <3>4
  <2>5. AnswersKnown'
    BY <1>3, <1>4, <2>1, <2>3, <2>4 DEF AnswersKnown
  <2> QED
    BY <2>2, <2>5
<1> QED
  BY <1>5, <1>6, <1>7 DEF ElementSound

LEMMA FailsIsSound == ASSUME ElementSound, ElementFails PROVE ElementSound'
<1> DEFINE task == Task("reject", motion.starts)
           queue == Append(element.tasks, task)
<1>0. ElementTyped /\ ButtonSound /\ StillSound /\ element \in Elements /\ motion.starts \in Nat /\ element.tasks \in Seq(Tasks)
  BY MotionFields, ElementFields DEF ElementSound
<1>1. task \in Tasks /\ task.kind = "reject"
  BY <1>0, TaskFields, SMTT(30) DEF TaskKinds
<1>2. element' = Element(element.paused, FALSE, queue, element.at, TRUE) /\ queue \in Seq(Tasks)
  BY <1>0, <1>1, ElementForms, TaskComes DEF ElementFails
<1>3. element.waiting /\ UNCHANGED <<button, motion, medium>>
  BY DEF ElementFails, ElementKept, Upset
<1> HIDE DEF task, queue
<1>4. /\ element' \in Elements /\ (element'.paused <=> element.paused) /\ ~element'.waiting
      /\ element'.tasks = queue /\ element'.at = element.at /\ element'.broken
  <2>1. element.paused \in BOOLEAN /\ element.at \in 0 .. End /\ FALSE \in BOOLEAN /\ TRUE \in BOOLEAN
    BY <1>0, ElementFields
  <2>2. Made(element', element.paused, FALSE, queue, element.at, TRUE)
    BY <1>2 DEF Made
  <2>3. (element'.paused <=> element.paused) /\ element'.tasks = queue /\ element'.at = element.at
    BY <1>2, <2>1, <2>2, ElementMade
  <2>4. ~element'.waiting /\ element'.broken
    BY <1>2, <2>1, <2>2, ElementMade
  <2>5. element' \in Elements
    BY <1>2, <2>1, <2>2, ElementMade
  <2> QED
    BY <2>3, <2>4, <2>5
<1>5. ElementTyped' /\ ButtonSound'
  BY <1>0, <1>3, <1>4 DEF ElementTyped, ButtonSound
<1>6. StillSound'
  <2> SUFFICES ASSUME medium = "motion" PROVE AtRest'
    BY <1>3, <1>4 DEF StillSound
  <2>1. AtRest /\ motion.active
    BY <1>0, <1>3 DEF StillSound, AtRest
  <2> QED
    BY <1>3, <1>4, <2>1 DEF AtRest
<1> QED
  BY <1>5, <1>6 DEF ElementSound

\* A task that is no answer changes nothing of the still.
LEMMA OtherTaskIsSound ==
    ASSUME ElementTyped, AtRest, AnswersKnown, NEW t \in Tasks, t.kind \notin Answers,
           element' \in Elements, Grown(element.tasks, t, element'.tasks), UNCHANGED motion,
           element'.paused <=> element.paused, element'.waiting <=> element.waiting, ~element.broken, ~element'.broken
    PROVE  AtRest' /\ AnswersKnown'
<1>1. motion.starts \in Nat /\ element.tasks \in Seq(Tasks) /\ element'.tasks \in Seq(Tasks)
  BY MotionFields, ElementFields
<1>2. /\ \A kind : Has(element'.tasks, kind, motion.starts) <=>
                     Has(element.tasks, kind, motion.starts) \/ (t.kind = kind /\ t.start = motion.starts)
      /\ NoneLater(element.tasks, motion.starts) => NoneLater(element'.tasks, motion.starts)
      /\ NoneOlder(element.tasks, motion.starts) => NoneOlder(element'.tasks, motion.starts)
      /\ ResolvedLast(element.tasks, motion.starts) => ResolvedLast(element'.tasks, motion.starts)
  BY <1>1, AnswerComes DEF Answers
<1>3. /\ Has(element'.tasks, "resolve", motion.starts) <=> Has(element.tasks, "resolve", motion.starts)
      /\ Has(element'.tasks, "reject", motion.starts) <=> Has(element.tasks, "reject", motion.starts)
  BY <1>2 DEF Answers
<1>4. /\ Quiet(element'.tasks, Answers) <=> Quiet(element.tasks, Answers)
      /\ Quiet(element'.tasks, {"resolve"}) <=> Quiet(element.tasks, {"resolve"})
  BY <1>1, QuietWithTask DEF Grown, Answers
<1>5. Plays' <=> Plays
  BY DEF Plays
<1>6. AtRest'
  BY <1>4 DEF AtRest
<1> QED
  BY <1>2, <1>3, <1>4, <1>5, <1>6 DEF AnswersKnown

LEMMA AdvancesIsSound == ASSUME ElementSound, ElementAdvances PROVE ElementSound'
<1> DEFINE task == Task("time", 0)
           queue == Append(element.tasks, task)
<1>0. ElementTyped /\ ButtonSound /\ StillSound /\ element \in Elements /\ motion.starts \in Nat /\ element.tasks \in Seq(Tasks)
  BY MotionFields, ElementFields DEF ElementSound
<1>1. task \in Tasks /\ task.kind = "time"
  BY <1>0, TaskFields DEF TaskKinds
<1>2. element' = Element(element.paused, element.waiting, queue, element.at + 1, element.broken) /\ queue \in Seq(Tasks)
  <2>1. element' = [element EXCEPT !.at = element.at + 1, !.tasks = queue]
    BY DEF ElementAdvances
  <2>2. queue \in Seq(Tasks)
    BY <1>0, <1>1
  <2> HIDE DEF task, queue
  <2>3. element' = Element(element.paused, element.waiting, queue, element.at + 1, element.broken)
    BY <1>0, <2>1 DEF Element, Elements
  <2> QED
    BY <2>2, <2>3
<1>3. UNCHANGED <<button, motion, medium>> /\ ~element.broken /\ element.at + 1 < End /\ ~element.paused
  BY DEF ElementAdvances, ElementKept, Answer
<1>4. Grown(element.tasks, task, queue)
  BY DEF Grown
<1>5. Quiet(queue, {"time"}) => task.kind # "time"
  BY <1>0, <1>1, QuietWithTask, ZenonT(60)
<1> HIDE DEF task, queue
<1>6. /\ element' \in Elements /\ (element'.paused <=> element.paused) /\ (element'.waiting <=> element.waiting)
      /\ element'.tasks = queue /\ (element'.broken <=> element.broken)
  <2>1. element.paused \in BOOLEAN /\ element.at + 1 \in 0 .. End /\ element.broken \in BOOLEAN /\ element.waiting \in BOOLEAN
    BY <1>0, <1>3, ElementFields DEF End
  <2>2. Made(element', element.paused, element.waiting, queue, element.at + 1, element.broken)
    BY <1>2 DEF Made
  <2>3. element'.tasks = queue
    BY <1>2, <2>1, <2>2, ElementMade
  <2>6. element'.paused <=> element.paused
    <3>1. element'.paused = element.paused
      BY <1>2 DEF Element
    <3> QED
      BY <3>1
  <2>4. (element'.waiting <=> element.waiting) /\ (element'.broken <=> element.broken)
    <3>1. element'.waiting = element.waiting /\ element'.broken = element.broken
      BY <1>2 DEF Element
    <3> QED
      BY <3>1
  <2>5. element' \in Elements
    BY <1>2, <2>1, <2>2, ElementMade
  <2> QED
    BY <2>3, <2>4, <2>5, <2>6
<1>7. ElementTyped'
  BY <1>0, <1>3, <1>6 DEF ElementTyped
<1>8. ButtonSound'
  <2> SUFFICES ASSUME medium = "audio"
               PROVE  WillSay(queue, button.playing, ~element.paused) /\ ~Quiet(queue, {"time"})
    BY <1>3, <1>6 DEF ButtonSound
  <2>1. WillSay(element.tasks, button.playing, ~element.paused)
    BY <1>0, <1>3 DEF ButtonSound
  <2>2. WillSay(queue, button.playing, ~element.paused)
    BY <1>0, <1>1, <2>1, OtherIsSaid DEF queue, Signals
  <2> QED
    BY <1>1, <1>5, <2>2
<1>9. StillSound'
  <2> SUFFICES ASSUME medium = "motion" PROVE AtRest' /\ AnswersKnown'
    BY <1>3, <1>6 DEF StillSound
  <2>1. AtRest /\ AnswersKnown
    BY <1>0, <1>3 DEF StillSound
  <2>2. task.kind \notin Answers /\ Grown(element.tasks, task, element'.tasks) /\ ~element'.broken
    BY <1>1, <1>3, <1>4, <1>6 DEF Answers
  <2> QED
    BY <1>0, <1>1, <1>3, <1>6, <2>1, <2>2, OtherTaskIsSound
<1> QED
  BY <1>7, <1>8, <1>9 DEF ElementSound

LEMMA EmptyQueue ==
    /\ <<>> \in Seq(Tasks)
    /\ \A kinds : Quiet(<<>>, kinds)
    /\ \A n : NoneLater(<<>>, n) /\ NoneOlder(<<>>, n) /\ ResolvedLast(<<>>, n)
    /\ \A kind, n : ~Has(<<>>, kind, n)
<1>1. DOMAIN <<>> = {} /\ <<>> \in Seq(Tasks)
  OBVIOUS
<1> QED
  BY <1>1 DEF Quiet, NoneLater, NoneOlder, ResolvedLast, Has

\* Without a task and paused, nothing is told and nothing plays.
LEMMA EmptyIsSound ==
    ASSUME element' \in Elements, element'.paused, ~element'.waiting, element'.tasks = <<>>, ElementTyped',
           ~motion'.late => ~motion'.shown
    PROVE  AtRest' /\ AnswersKnown'
<1>1. ~Plays'
  BY DEF Plays
<1> QED
  BY <1>1, EmptyQueue DEF AtRest, AnswersKnown

LEMMA AtEndIsSound == ASSUME ElementSound, AtEnd PROVE ElementSound'
<1>0. ElementTyped /\ ButtonSound /\ StillSound /\ element \in Elements /\ element.tasks = <<>> /\ ~element.waiting /\ ~element.broken
  BY MotionFields, ElementFields DEF ElementSound, AtEnd
<1>1. CASE Answer("audio") /\ button' = [playing |-> FALSE, time |-> 0] /\ UNCHANGED motion
           /\ element' = [element EXCEPT !.paused = TRUE, !.at = End]
  <2>1. /\ element' \in Elements /\ element'.paused /\ element'.tasks = <<>> /\ element'.at = End
        /\ button' \in [playing : BOOLEAN, time : 0 .. End] /\ ~button'.playing /\ button'.time = 0
    <3>1. element' \in Elements /\ element'.tasks = element.tasks /\ element'.at = End
      <4>1. element' = [element EXCEPT !.paused = TRUE, !.at = End] /\ element \in Elements /\ End \in 0 .. End
        BY <1>0, <1>1 DEF End
      <4> QED
        BY <4>1 DEF Elements
    <3>2. element'.paused
      BY <1>0, <1>1 DEF Elements
    <3>3. button' \in [playing : BOOLEAN, time : 0 .. End] /\ ~button'.playing /\ button'.time = 0
      BY <1>1 DEF End
    <3> QED
      BY <1>0, <3>1, <3>2, <3>3
  <2>2. WillSay(<<>>, button'.playing, ~element'.paused)
    BY <2>1, EmptyQueue DEF WillSay
  <2>3. medium' = "audio" /\ ElementTyped'
    BY <1>0, <1>1, <2>1 DEF Answer, ElementTyped
  <2> QED
    BY <2>1, <2>2, <2>3 DEF ElementSound, ButtonSound, StillSound
<1>2. CASE Answer("motion") /\ motion' = [motion EXCEPT !.shown = FALSE] /\ UNCHANGED button
           /\ element' = [element EXCEPT !.paused = TRUE, !.at = 0]
  <2>1. element' \in Elements /\ element'.paused /\ element'.tasks = <<>> /\ ~element'.waiting
    <3>1. element' \in Elements /\ element'.tasks = element.tasks
      <4>1. element' = [element EXCEPT !.paused = TRUE, !.at = 0] /\ element \in Elements /\ 0 \in 0 .. End
        BY <1>0, <1>2 DEF End
      <4> QED
        BY <4>1 DEF Elements
    <3>2. element'.paused /\ ~element'.waiting
      BY <1>0, <1>2 DEF Elements
    <3> QED
      BY <1>0, <3>1, <3>2
  <2>2. motion' \in [active : BOOLEAN, shown : BOOLEAN, starts : Nat, late : BOOLEAN] /\ ~motion'.shown
    BY <1>0, <1>2 DEF ElementTyped
  <2>3. medium' = "motion" /\ ElementTyped'
    BY <1>0, <1>2, <2>1, <2>2 DEF Answer, ElementTyped
  <2>4. AtRest' /\ AnswersKnown'
    BY <2>1, <2>2, <2>3, EmptyIsSound
  <2> QED
    BY <2>3, <2>4 DEF ElementSound, ButtonSound, StillSound
<1> QED
  BY <1>1, <1>2 DEF AtEnd

LEMMA SeekIsSound == ASSUME ElementSound, NEW t \in 0 .. End, HandleSeek(t) PROVE ElementSound'
<1>0. ElementTyped /\ ButtonSound /\ element \in Elements
  BY MotionFields DEF ElementSound
<1>1. /\ element' \in Elements /\ (element'.paused <=> element.paused) /\ (element'.broken <=> element.broken)
      /\ element'.tasks = element.tasks /\ element'.at = t
  BY <1>0 DEF HandleSeek, Elements
<1>2. button' \in [playing : BOOLEAN, time : 0 .. End] /\ (button'.playing <=> button.playing) /\ button'.time = t
  BY <1>0 DEF HandleSeek, ElementTyped
<1>3. medium = "audio" /\ medium' = "audio" /\ UNCHANGED motion
  BY DEF HandleSeek, Poke
<1>4. ElementTyped' /\ ButtonSound'
  BY <1>0, <1>1, <1>2, <1>3 DEF ElementTyped, ButtonSound, WillSay
<1> QED
  BY <1>3, <1>4 DEF ElementSound, StillSound

\* What play() and pause() promise the button.
LEMMA PlaySays ==
    ASSUME NEW e \in Elements, NEW says \in BOOLEAN, WillSay(e.tasks, says, ~e.paused)
    PROVE  /\ WillSay(Playing(e), says, TRUE)
           /\ Quiet(Playing(e), {"time"}) => Quiet(e.tasks, {"time"}) /\ e.at # End
<1>1. /\ e.tasks \in Seq(Tasks) /\ FromStart(e) \in Seq(Tasks)
      /\ Task("time", 0) \in Tasks /\ Task("time", 0).kind = "time"
      /\ Task("play", 0) \in Tasks /\ Task("play", 0).kind = "play"
  BY ElementFields, TaskFields, TasksTold DEF TaskKinds
<1>2. Quiet(FromStart(e), {"time"}) => Quiet(e.tasks, {"time"}) /\ e.at # End
  <2>1. CASE e.at = End
    <3>1. FromStart(e) = Append(e.tasks, Task("time", 0))
      BY <2>1 DEF FromStart
    <3> QED
      BY <1>1, <3>1, QuietWithTask
  <2>2. CASE e.at # End
    BY <2>2 DEF FromStart
  <2> QED
    BY <2>1, <2>2
<1>3. WillSay(FromStart(e), says, ~e.paused)
  <2>1. CASE e.at = End
    <3>1. FromStart(e) = Append(e.tasks, Task("time", 0)) /\ Task("time", 0).kind \notin Signals
      BY <1>1, <2>1 DEF FromStart, Signals
    <3> QED
      BY <1>1, <3>1, OtherIsSaid
  <2>2. CASE e.at # End
    BY <2>2 DEF FromStart
  <2> QED
    BY <2>1, <2>2
<1>4. CASE e.paused
  <2>1. Playing(e) = Append(FromStart(e), Task("play", 0))
    BY <1>4 DEF Playing
  <2>2. WillSay(Playing(e), says, TRUE)
    BY <1>1, <2>1, SignalIsSaid DEF Signals
  <2>3. Quiet(Playing(e), {"time"}) => Quiet(FromStart(e), {"time"})
    BY <1>1, <2>1, QuietWithTask
  <2> QED
    BY <1>2, <2>2, <2>3
<1>5. CASE ~e.paused
  BY <1>2, <1>3, <1>5 DEF Playing, WillSay
<1> QED
  BY <1>4, <1>5

LEMMA PauseSays ==
    ASSUME NEW e \in Elements, NEW says, NEW start \in Nat
    PROVE  /\ WillSay(Stopped(e, start), says, FALSE)
           /\ Quiet(Stopped(e, start), {"time"}) => Quiet(e.tasks, {"time"})
<1>1. /\ e.tasks \in Seq(Tasks) /\ Stopping(e) \in Seq(Tasks)
      /\ Task("pause", 0) \in Tasks /\ Task("pause", 0).kind = "pause"
      /\ Task("reject", start) \in Tasks /\ Task("reject", start).kind = "reject"
  BY ElementFields, TaskFields, TasksTold DEF TaskKinds
<1>2. WillSay(Stopping(e), says, FALSE)
  BY <1>1, SignalIsSaid DEF Stopping, Signals
<1>3. Quiet(Stopping(e), {"time"}) => Quiet(e.tasks, {"time"})
  <2>1. Stopping(e) = Append(e.tasks, Task("pause", 0))
    BY DEF Stopping
  <2> QED
    BY <1>1, <2>1, QuietWithTask
<1>4. CASE e.waiting
  <2>1. Stopped(e, start) = Append(Stopping(e), Task("reject", start))
    BY <1>4 DEF Stopped
  <2>2. WillSay(Stopped(e, start), says, FALSE)
    BY <1>1, <2>1, SignalIsSaid DEF Signals
  <2>3. Quiet(Stopped(e, start), {"time"}) => Quiet(Stopping(e), {"time"})
    BY <1>1, <2>1, QuietWithTask
  <2> QED
    BY <1>3, <2>2, <2>3
<1>5. CASE ~e.waiting
  BY <1>2, <1>3, <1>5 DEF Stopped
<1> QED
  BY <1>4, <1>5

LEMMA ToggleIsSound == ASSUME ElementSound, TogglePlayback PROVE ElementSound'
<1>0. /\ ElementTyped /\ ButtonSound /\ element \in Elements /\ medium = "audio" /\ medium' = "audio"
      /\ UNCHANGED motion /\ button.playing \in BOOLEAN
  BY MotionFields DEF ElementSound, TogglePlayback, Poke
<1>1. CASE element.paused /\ element.broken
  <2>1. element' = element
    BY <1>1 DEF TogglePlayback, Played
  <2>2. button' \in [playing : BOOLEAN, time : 0 .. End]
    BY <1>0, <1>1 DEF TogglePlayback, ElementTyped
  <2> QED
    BY <1>0, <1>1, <2>1, <2>2 DEF ElementSound, ElementTyped, ButtonSound, StillSound
<1>2. CASE element.paused /\ ~element.broken
  <2> DEFINE queue == Playing(element)
             t == IF element.at = End THEN 0 ELSE element.at
  <2>1. element' = Element(FALSE, TRUE, queue, t, FALSE) /\ queue \in Seq(Tasks)
    BY <1>0, <1>2, PlayedIs, TasksTold DEF TogglePlayback
  <2>2. t \in 0 .. End /\ (element.at # End => t = element.at)
    BY <1>0, ElementFields DEF End
  <2>3. UNCHANGED button
    BY <1>2 DEF TogglePlayback
  <2>4. WillSay(element.tasks, button.playing, ~element.paused)
        /\ (Quiet(element.tasks, {"time"}) => button.time = element.at \/ (element.at = End /\ button.time = 0))
    BY <1>0, <1>2 DEF ButtonSound
  <2>5. WillSay(queue, button.playing, TRUE)
        /\ (Quiet(queue, {"time"}) => Quiet(element.tasks, {"time"}) /\ element.at # End)
    BY <1>0, <2>4, PlaySays
  <2> HIDE DEF queue, t
  <2>6. Made(element', FALSE, TRUE, queue, t, FALSE)
    BY <2>1 DEF Made
  <2>7. element' \in Elements /\ element'.tasks = queue /\ element'.at = t
    BY <2>1, <2>2, <2>6, ElementMade
  <2>8. ~element'.paused /\ ~element'.broken
    BY <2>1, <2>2, <2>6, ElementMade
  <2>9. WillSay(element'.tasks, button'.playing, ~element'.paused)
    BY <2>3, <2>5, <2>7, <2>8 DEF WillSay
  <2>10. Quiet(element'.tasks, {"time"}) => button'.time = element'.at
    BY <2>2, <2>3, <2>4, <2>5, <2>7
  <2> QED
    BY <1>0, <2>3, <2>7, <2>9, <2>10 DEF ElementSound, ElementTyped, ButtonSound, StillSound
<1>3. CASE ~element.paused
  <2> DEFINE queue == Stopped(element, 0)
  <2>1. element' = Element(TRUE, FALSE, queue, element.at, element.broken) /\ queue \in Seq(Tasks)
    BY <1>0, <1>3, PausedIs, TasksTold DEF TogglePlayback
  <2>2. UNCHANGED button /\ element.at \in 0 .. End /\ element.broken \in BOOLEAN
    BY <1>0, <1>3, ElementFields DEF TogglePlayback
  <2>3. WillSay(queue, button.playing, FALSE) /\ (Quiet(queue, {"time"}) => Quiet(element.tasks, {"time"}))
    BY <1>0, PauseSays
  <2> HIDE DEF queue
  <2>4. Made(element', TRUE, FALSE, queue, element.at, element.broken)
    BY <2>1 DEF Made
  <2>5. element' \in Elements /\ element'.tasks = queue /\ element'.at = element.at
    BY <2>1, <2>2, <2>4, ElementMade
  <2>6. element'.paused /\ (element'.broken <=> element.broken)
    BY <2>1, <2>2, <2>4, ElementMade
  <2>7. WillSay(element'.tasks, button'.playing, ~element'.paused)
    BY <2>2, <2>3, <2>5, <2>6 DEF WillSay
  <2>8. ElementTyped' /\ ButtonSound'
    BY <1>0, <2>2, <2>3, <2>5, <2>6, <2>7 DEF ElementTyped, ButtonSound
  <2> QED
    BY <1>0, <2>8 DEF ElementSound, StillSound
<1> QED
  BY <1>1, <1>2, <1>3

LEMMA TaskTaken ==
    ASSUME element \in Elements, element.tasks # <<>>, element' = [element EXCEPT !.tasks = Tail(@)]
    PROVE  /\ element' \in Elements /\ Shrunk(element.tasks, element'.tasks)
           /\ (element'.paused <=> element.paused) /\ (element'.waiting <=> element.waiting)
           /\ (element'.broken <=> element.broken) /\ element'.at = element.at
           /\ Head(element.tasks) \in Tasks
<1> DEFINE queue == Tail(element.tasks)
<1>1. element' = [element EXCEPT !.tasks = queue] /\ queue \in Seq(Tasks) /\ Head(element.tasks) \in Tasks
  BY ElementFields, TaskGoes
<1>2. queue = Tail(element.tasks)
  OBVIOUS
<1> HIDE DEF queue
<1>3. element' \in Elements /\ element'.tasks = queue /\ element'.at = element.at
  BY <1>1 DEF Elements
<1>4. /\ (element'.paused <=> element.paused) /\ (element'.waiting <=> element.waiting)
      /\ (element'.broken <=> element.broken)
  BY <1>1 DEF Elements
<1> QED
  BY <1>1, <1>2, <1>3, <1>4 DEF Shrunk

LEMMA AudioTaskIsSound == ASSUME ElementSound, AudioTask PROVE ElementSound'
<1> DEFINE kind == Head(element.tasks).kind
<1>0. /\ ElementTyped /\ ButtonSound /\ element \in Elements /\ medium = "audio" /\ medium' = "audio"
      /\ UNCHANGED motion /\ element.tasks # <<>> /\ button' = AudioAfter(kind)
      /\ element.tasks \in Seq(Tasks) /\ button.playing \in BOOLEAN
  BY MotionFields, ElementFields DEF ElementSound, AudioTask, Answer
<1>1. /\ element' \in Elements /\ element'.tasks = Tail(element.tasks)
      /\ (element'.paused <=> element.paused) /\ (element'.broken <=> element.broken) /\ element'.at = element.at
      /\ kind \in TaskKinds
  BY <1>0, TaskTaken, TaskFields DEF AudioTask, Shrunk
<1>2. /\ Quiet(element.tasks, {"time"}) <=> Quiet(Tail(element.tasks), {"time"}) /\ kind # "time"
  BY <1>0, QuietWithoutTask
<1>3. ~element.broken => \A new : (new <=> Told(button.playing, kind)) => WillSay(Tail(element.tasks), new, ~element.paused)
  <2>1. ~element.broken => WillSay(element.tasks, button.playing, ~element.paused)
    BY <1>0 DEF ButtonSound
  <2> QED
    BY <1>0, <2>1, FirstIsSaid
<1> HIDE DEF kind
<1>4. button \in [playing : BOOLEAN, time : 0 .. End] /\ element.at \in 0 .. End
  BY <1>0, ElementFields DEF ElementTyped
<1>5. /\ button' \in [playing : BOOLEAN, time : 0 .. End] /\ (button'.playing <=> Told(button.playing, kind))
      /\ button'.time = IF kind = "time" THEN element.at ELSE button.time
  <2>1. CASE kind = "play"
    BY <1>0, <1>4, <2>1 DEF AudioAfter, Told
  <2>2. CASE kind \in {"pause", "reject"}
    BY <1>0, <1>4, <2>2 DEF AudioAfter, Told
  <2>3. CASE kind = "time"
    BY <1>0, <1>4, <2>3 DEF AudioAfter, Told
  <2>4. CASE kind = "resolve"
    BY <1>0, <1>4, <2>4 DEF AudioAfter, Told
  <2> QED
    BY <1>1, <2>1, <2>2, <2>3, <2>4 DEF TaskKinds
<1>6. ~element.broken => WillSay(element'.tasks, button'.playing, ~element'.paused)
  BY <1>1, <1>3, <1>5 DEF WillSay
<1>7. ButtonSound'
  BY <1>0, <1>1, <1>2, <1>5, <1>6 DEF ButtonSound
<1> QED
  BY <1>0, <1>1, <1>5, <1>7 DEF ElementSound, ElementTyped, StillSound

LEMMA MotionTaskIsSound == ASSUME ElementSound, MotionTask PROVE ElementSound'
<1> DEFINE kind == Head(element.tasks).kind
           start == Head(element.tasks).start
           n == motion.starts
           rest == Tail(element.tasks)
<1>0. /\ ElementTyped /\ StillSound /\ element \in Elements /\ medium = "motion" /\ medium' = "motion"
      /\ UNCHANGED button /\ element.tasks # <<>> /\ element.tasks \in Seq(Tasks) /\ n \in Nat
      /\ motion.active \in BOOLEAN /\ motion.shown \in BOOLEAN /\ motion.late \in BOOLEAN
  BY MotionFields, ElementFields DEF ElementSound, MotionTask, Answer
<1>1. /\ element' \in Elements /\ Shrunk(element.tasks, rest) /\ element'.tasks = rest
      /\ (element'.paused <=> element.paused) /\ (element'.waiting <=> element.waiting)
      /\ (element'.broken <=> element.broken) /\ kind \in TaskKinds
  BY <1>0, TaskTaken, TaskFields DEF MotionTask, Shrunk
<1>2. /\ \A k : Has(element.tasks, k, n) <=> Has(rest, k, n) \/ (kind = k /\ start = n)
      /\ NoneLater(element.tasks, n) => NoneLater(rest, n)
      /\ NoneOlder(element.tasks, n) => NoneOlder(rest, n) /\ (kind = "resolve" => start = n)
      /\ ResolvedLast(element.tasks, n) => ResolvedLast(rest, n)
      /\ ResolvedLast(element.tasks, n) /\ kind = "resolve" /\ start = n => Quiet(rest, Answers)
  BY <1>0, <1>1, AnswerGoes
<1>3. /\ Has(element.tasks, "resolve", n) <=> Has(rest, "resolve", n) \/ (kind = "resolve" /\ start = n)
      /\ Has(element.tasks, "reject", n) <=> Has(rest, "reject", n) \/ (kind = "reject" /\ start = n)
  BY <1>2
<1>4. /\ Quiet(element.tasks, Answers) <=> Quiet(rest, Answers) /\ kind \notin Answers
      /\ Quiet(element.tasks, {"resolve"}) <=> Quiet(rest, {"resolve"}) /\ kind # "resolve"
      /\ Quiet(rest, Answers) => NoneOlder(rest, n)
  BY <1>0, QuietWithoutTask, QuietOnes
<1>5. motion' = [motion EXCEPT !.shown = (@ \/ kind = "resolve") /\ kind # "reject",
                               !.late = @ /\ ~(kind \in {"resolve", "reject"} /\ motion.active /\ start = n)]
  BY DEF MotionTask
<1> HIDE DEF kind, start, rest
<1>6. /\ motion' \in [active : BOOLEAN, shown : BOOLEAN, starts : Nat, late : BOOLEAN]
      /\ (motion'.active <=> motion.active) /\ motion'.starts = n
      /\ motion'.shown <=> (motion.shown \/ kind = "resolve") /\ kind # "reject"
      /\ motion'.late <=> motion.late /\ ~(kind \in Answers /\ motion.active /\ start = n)
  <2> DEFINE s == (motion.shown \/ kind = "resolve") /\ kind # "reject"
             l == motion.late /\ ~(kind \in {"resolve", "reject"} /\ motion.active /\ start = n)
  <2>1. motion' = [motion EXCEPT !.shown = s, !.late = l] /\ s \in BOOLEAN /\ l \in BOOLEAN
    BY <1>5
  <2>2. motion \in [active : BOOLEAN, shown : BOOLEAN, starts : Nat, late : BOOLEAN]
    BY <1>0 DEF ElementTyped
  <2> HIDE DEF s, l
  <2>3. /\ motion' \in [active : BOOLEAN, shown : BOOLEAN, starts : Nat, late : BOOLEAN]
        /\ (motion'.active <=> motion.active) /\ motion'.starts = n
        /\ (motion'.shown <=> s) /\ (motion'.late <=> l)
    BY <2>1, <2>2
  <2> QED
    BY <2>3 DEF s, l, Answers
<1>7. AtRest /\ (~element.broken => AnswersKnown)
  BY <1>0 DEF StillSound
<1>8. AtRest'
  BY <1>1, <1>4, <1>6, <1>7 DEF AtRest
<1>9. ASSUME ~element.broken PROVE AnswersKnown'
  <2>1. Plays' <=> Plays
    BY <1>1, <1>6 DEF Plays
  <2>2. NoneLater(rest, n) /\ ResolvedLast(rest, n) /\ ResolvedLast(element.tasks, n)
    BY <1>2, <1>7, <1>9 DEF AnswersKnown
  <2>3. motion.active => ~Has(element.tasks, "reject", n) /\ (Has(element.tasks, "resolve", n) => Plays)
    BY <1>7, <1>9 DEF AnswersKnown
  <2>4. Plays => Has(rest, "resolve", n) \/ (motion'.shown /\ Quiet(rest, Answers))
    <3>1. CASE Has(element.tasks, "resolve", n)
      BY <1>2, <1>3, <1>6, <2>2, <3>1
    <3>2. CASE motion.shown /\ Quiet(element.tasks, Answers)
      BY <1>4, <1>6, <3>2 DEF Answers
    <3> QED
      BY <1>7, <1>9, <3>1, <3>2 DEF AnswersKnown
  <2>5. ~motion'.late => NoneOlder(rest, n) /\ (motion'.shown => Plays)
    <3>1. CASE ~motion.late
      <4>1. NoneOlder(element.tasks, n) /\ (motion.shown => Plays) /\ (kind = "resolve" => Has(element.tasks, "resolve", n))
        BY <1>2, <1>3, <1>7, <1>9, <3>1 DEF AnswersKnown
      <4>2. kind = "resolve" => motion.active
        BY <1>4, <1>7, <3>1 DEF AtRest
      <4> QED
        BY <1>2, <1>6, <2>3, <4>1, <4>2
    <3>2. CASE kind \in Answers /\ motion.active /\ start = n
      BY <1>2, <1>3, <1>4, <2>2, <2>3, <3>2 DEF Answers
    <3> QED
      BY <1>6, <3>1, <3>2
  <2> QED
    BY <1>1, <1>3, <1>6, <2>1, <2>2, <2>3, <2>4, <2>5 DEF AnswersKnown
<1>10. ElementTyped'
  BY <1>0, <1>1, <1>6 DEF ElementTyped
<1> QED
  BY <1>0, <1>1, <1>8, <1>9, <1>10 DEF ElementSound, ButtonSound, StillSound

\* Playing and pausing, as the answers to play() go.
LEMMA PlayKeepsAnswers ==
    ASSUME NEW e \in Elements, NEW n \in Nat, NoneLater(e.tasks, n)
    PROVE  /\ NoneLater(Playing(e), n + 1) /\ ResolvedLast(Playing(e), n + 1)
           /\ ~Has(Playing(e), "resolve", n + 1) /\ ~Has(Playing(e), "reject", n + 1)
           /\ Quiet(e.tasks, {"resolve"}) => Quiet(Playing(e), {"resolve"})
<1> DEFINE begun == Task("time", 0)
           plays == Task("play", 0)
<1>1. /\ e.tasks \in Seq(Tasks) /\ FromStart(e) \in Seq(Tasks) /\ n + 1 \in Nat
      /\ begun \in Tasks /\ begun.kind = "time" /\ plays \in Tasks /\ plays.kind = "play"
  <2>1. e.tasks \in Seq(Tasks) /\ n + 1 \in Nat
    BY ElementFields
  <2>2. begun \in Tasks /\ begun.kind = "time"
    BY TaskFields DEF TaskKinds
  <2>4. FromStart(e) \in Seq(Tasks)
    <3>1. FromStart(e) = IF e.at = End THEN Append(e.tasks, begun) ELSE e.tasks
      BY DEF FromStart
    <3> HIDE DEF begun
    <3> QED
      BY <2>1, <2>2, <3>1
  <2>3. plays \in Tasks /\ plays.kind = "play"
    BY TaskFields DEF TaskKinds
  <2> QED
    BY <2>1, <2>2, <2>3, <2>4
<1>2. NoneLater(e.tasks, n + 1) /\ ~Has(e.tasks, "resolve", n + 1) /\ ~Has(e.tasks, "reject", n + 1)
  BY <1>1, NewStart
<1>3. /\ e.at = End => Grown(e.tasks, begun, FromStart(e))
      /\ e.at # End => FromStart(e) = e.tasks
      /\ e.paused => Grown(FromStart(e), plays, Playing(e))
      /\ ~e.paused => Playing(e) = FromStart(e)
  BY DEF FromStart, Playing, Grown
<1> HIDE DEF begun, plays
<1>4. /\ NoneLater(FromStart(e), n + 1)
      /\ ~Has(FromStart(e), "resolve", n + 1) /\ ~Has(FromStart(e), "reject", n + 1)
  <2>1. CASE e.at = End
    <3>1. begun.kind \notin Answers /\ begun.kind # "resolve" /\ begun.kind # "reject"
      BY <1>1 DEF Answers
    <3>2. NoneLater(FromStart(e), n + 1)
      BY <1>1, <1>2, <1>3, <2>1, <3>1, AnswerComes
    <3>3. ~Has(FromStart(e), "resolve", n + 1) /\ ~Has(FromStart(e), "reject", n + 1)
      BY <1>1, <1>2, <1>3, <2>1, <3>1, AnswerComes
    <3> QED
      BY <3>2, <3>3
  <2>2. CASE e.at # End
    BY <1>2, <1>3, <2>2
  <2> QED
    BY <2>1, <2>2
<1>5. NoneLater(Playing(e), n + 1) /\ ~Has(Playing(e), "resolve", n + 1) /\ ~Has(Playing(e), "reject", n + 1)
  <2>1. CASE e.paused
    <3>1. plays.kind \notin Answers /\ plays.kind # "resolve" /\ plays.kind # "reject"
      BY <1>1 DEF Answers
    <3>2. NoneLater(Playing(e), n + 1)
      BY <1>1, <1>3, <1>4, <2>1, <3>1, AnswerComes
    <3>3. ~Has(Playing(e), "resolve", n + 1) /\ ~Has(Playing(e), "reject", n + 1)
      BY <1>1, <1>3, <1>4, <2>1, <3>1, AnswerComes
    <3> QED
      BY <3>2, <3>3
  <2>2. CASE ~e.paused
    BY <1>3, <1>4, <2>2
  <2> QED
    BY <2>1, <2>2
<1>6. ResolvedLast(Playing(e), n + 1)
  BY <1>5 DEF ResolvedLast, Has
<1>7. Quiet(e.tasks, {"resolve"}) => Quiet(FromStart(e), {"resolve"})
  BY <1>1, <1>3, QuietWithTask DEF Grown
<1>8. Quiet(FromStart(e), {"resolve"}) => Quiet(Playing(e), {"resolve"})
  BY <1>1, <1>3, QuietWithTask DEF Grown
<1> QED
  BY <1>5, <1>6, <1>7, <1>8

LEMMA PauseKeepsAnswers ==
    ASSUME NEW e \in Elements, NEW n \in Nat, NoneLater(e.tasks, n), ResolvedLast(e.tasks, n),
           e.waiting => ~Has(e.tasks, "resolve", n)
    PROVE  NoneLater(Stopped(e, n), n) /\ ResolvedLast(Stopped(e, n), n)
<1> DEFINE pause == Task("pause", 0)
           reject == Task("reject", n)
<1>1. /\ e.tasks \in Seq(Tasks) /\ Stopping(e) \in Seq(Tasks)
      /\ pause \in Tasks /\ pause.kind = "pause" /\ reject \in Tasks /\ reject.kind = "reject" /\ reject.start = n
  BY ElementFields, TaskFields, TasksTold DEF TaskKinds
<1>2. /\ Grown(e.tasks, pause, Stopping(e))
      /\ e.waiting => Grown(Stopping(e), reject, Stopped(e, n))
      /\ ~e.waiting => Stopped(e, n) = Stopping(e)
  BY DEF Stopping, Stopped, Grown
<1> HIDE DEF pause, reject
<1>3. pause.kind \notin Answers /\ pause.kind # "resolve" /\ reject.kind # "resolve" /\ reject.start <= n
  BY <1>1 DEF Answers
<1>4. NoneLater(Stopping(e), n) /\ ResolvedLast(Stopping(e), n)
  <2>1. NoneLater(Stopping(e), n)
    BY <1>1, <1>2, <1>3, AnswerComes
  <2>2. ResolvedLast(Stopping(e), n)
    BY <1>1, <1>2, <1>3, AnswerComes
  <2> QED
    BY <2>1, <2>2
<1>5. e.waiting => ~Has(Stopping(e), "resolve", n)
  BY <1>1, <1>2, <1>3, AnswerComes
<1>6. CASE e.waiting
  <2>1. NoneLater(Stopped(e, n), n)
    BY <1>1, <1>2, <1>3, <1>4, <1>6, AnswerComes
  <2>2. ResolvedLast(Stopped(e, n), n)
    BY <1>1, <1>2, <1>3, <1>5, <1>6, AnswerComes
  <2> QED
    BY <2>1, <2>2
<1>7. CASE ~e.waiting
  BY <1>2, <1>4, <1>7
<1> QED
  BY <1>6, <1>7

LEMMA PauseKeepsQuiet ==
    ASSUME NEW e \in Elements, NEW n \in Nat
    PROVE  Quiet(e.tasks, {"resolve"}) => Quiet(Stopped(e, n), {"resolve"})
<1> DEFINE pause == Task("pause", 0)
           reject == Task("reject", n)
<1>1. /\ e.tasks \in Seq(Tasks) /\ Stopping(e) \in Seq(Tasks)
      /\ pause \in Tasks /\ pause.kind = "pause" /\ reject \in Tasks /\ reject.kind = "reject"
  BY ElementFields, TaskFields, TasksTold DEF TaskKinds
<1>2. /\ Stopping(e) = Append(e.tasks, pause)
      /\ e.waiting => Stopped(e, n) = Append(Stopping(e), reject)
      /\ ~e.waiting => Stopped(e, n) = Stopping(e)
  BY DEF Stopping, Stopped
<1> HIDE DEF pause, reject
<1>3. Quiet(e.tasks, {"resolve"}) => Quiet(Stopping(e), {"resolve"})
  BY <1>1, <1>2, QuietWithTask
<1>4. Quiet(Stopping(e), {"resolve"}) => Quiet(Stopped(e, n), {"resolve"})
  <2>1. CASE e.waiting
    BY <1>1, <1>2, <2>1, QuietWithTask
  <2>2. CASE ~e.waiting
    BY <1>2, <2>2
  <2> QED
    BY <2>1, <2>2
<1> QED
  BY <1>3, <1>4

LEMMA StartPlaybackIsSound == ASSUME ElementSound, SetMotionActive(TRUE) PROVE ElementSound'
<1> DEFINE e == [element EXCEPT !.at = 0]
           n == motion.starts
<1>0. /\ ElementTyped /\ AtRest /\ (~element.broken => AnswersKnown) /\ element \in Elements
      /\ medium = "motion" /\ medium' = "motion" /\ UNCHANGED button /\ n \in Nat
      /\ ~motion.active /\ motion.shown \in BOOLEAN /\ motion.late \in BOOLEAN
  BY MotionFields DEF ElementSound, StillSound, SetMotionActive, Poke
<1>1. /\ e \in Elements /\ e.tasks = element.tasks /\ e.at = 0
      /\ (e.paused <=> element.paused) /\ (e.waiting <=> element.waiting) /\ (e.broken <=> element.broken)
  BY <1>0 DEF Elements, End
<1>2. element' = Played(e) /\ element.paused /\ ~element.waiting
  BY <1>0 DEF SetMotionActive, AtRest
<1>3. /\ motion' \in [active : BOOLEAN, shown : BOOLEAN, starts : Nat, late : BOOLEAN]
      /\ motion'.active /\ motion'.starts = n + 1
      /\ (motion'.shown <=> motion.shown /\ ~element.broken) /\ (motion'.late <=> motion.late)
  <2> DEFINE s == motion.shown /\ ~element.broken
             m == n + 1
  <2>1. motion' = [motion EXCEPT !.active = TRUE, !.starts = m, !.shown = s] /\ s \in BOOLEAN /\ m \in Nat
    BY <1>0 DEF SetMotionActive
  <2>2. motion \in [active : BOOLEAN, shown : BOOLEAN, starts : Nat, late : BOOLEAN]
    BY <1>0 DEF ElementTyped
  <2>3. (s <=> motion.shown /\ ~element.broken) /\ m = n + 1
    OBVIOUS
  <2> HIDE DEF s, m, n
  <2>4. /\ motion' \in [active : BOOLEAN, shown : BOOLEAN, starts : Nat, late : BOOLEAN]
        /\ motion'.active /\ motion'.starts = m
        /\ (motion'.shown <=> s) /\ (motion'.late <=> motion.late)
    BY <2>1, <2>2
  <2> QED
    BY <2>3, <2>4
<1> HIDE DEF e
<1>4. CASE element.broken
  <2>1. element' = e
    BY <1>1, <1>2, <1>4 DEF Played
  <2>2. AtRest'
    BY <1>1, <1>2, <1>3, <2>1 DEF AtRest
  <2>3. ElementTyped' /\ element'.broken
    BY <1>0, <1>1, <1>3, <1>4, <2>1 DEF ElementTyped
  <2> QED
    BY <1>0, <2>2, <2>3 DEF ElementSound, ButtonSound, StillSound
<1>5. CASE ~element.broken
  <2>1. AnswersKnown
    BY <1>0, <1>5
  <2> DEFINE queue == Playing(e)
  <2>2. element' = Element(FALSE, TRUE, queue, 0, FALSE) /\ queue \in Seq(Tasks)
    BY <1>1, <1>2, <1>5, PlayedIs, TasksTold DEF End
  <2>3. /\ NoneLater(queue, n + 1) /\ ResolvedLast(queue, n + 1)
        /\ ~Has(queue, "resolve", n + 1) /\ ~Has(queue, "reject", n + 1)
        /\ Quiet(element.tasks, {"resolve"}) => Quiet(queue, {"resolve"})
    <3>1. NoneLater(e.tasks, n)
      BY <1>1, <2>1 DEF AnswersKnown
    <3> QED
      BY <1>0, <1>1, <3>1, PlayKeepsAnswers
  <2> HIDE DEF queue
  <2>4. Made(element', FALSE, TRUE, queue, 0, FALSE) /\ 0 \in 0 .. End
    BY <2>2 DEF Made, End
  <2>5. element' \in Elements /\ element'.tasks = queue
    BY <2>2, <2>4, ElementMade
  <2>6. ~element'.paused /\ element'.waiting /\ ~element'.broken
    BY <2>2, <2>4, ElementMade
  <2>7. ~motion'.late => NoneOlder(queue, n + 1) /\ ~motion'.shown
    BY <1>0, <1>3, <2>3, QuietOnes DEF AtRest
  <2>8. AtRest' /\ ~Plays'
    BY <1>3, <2>6 DEF AtRest, Plays
  <2>9. AnswersKnown'
    BY <1>3, <2>3, <2>5, <2>7, <2>8 DEF AnswersKnown
  <2>10. ElementTyped'
    BY <1>0, <1>3, <2>5 DEF ElementTyped
  <2> QED
    BY <1>0, <2>8, <2>9, <2>10 DEF ElementSound, ButtonSound, StillSound
<1> QED
  BY <1>4, <1>5

LEMMA StopPlaybackIsSound == ASSUME ElementSound, SetMotionActive(FALSE) PROVE ElementSound'
<1> DEFINE n == motion.starts
           p == Paused(element, n)
           queue == IF element.paused THEN element.tasks ELSE Stopped(element, n)
<1>0. /\ ElementTyped /\ AtRest /\ (~element.broken => AnswersKnown) /\ element \in Elements
      /\ medium = "motion" /\ medium' = "motion" /\ UNCHANGED button /\ n \in Nat
      /\ motion.active /\ motion.shown \in BOOLEAN /\ motion.late \in BOOLEAN
      /\ element.at \in 0 .. End /\ element.broken \in BOOLEAN /\ element.paused \in BOOLEAN
  BY MotionFields, ElementFields DEF ElementSound, StillSound, SetMotionActive, Poke
<1>1. queue \in Seq(Tasks)
  BY <1>0, ElementFields, TasksTold
<1>2. p \in Elements /\ p.paused /\ ~p.waiting /\ p.tasks = queue /\ (p.broken <=> element.broken)
  <2>1. CASE element.paused
    BY <1>0, <2>1 DEF Paused, AtRest
  <2>2. CASE ~element.paused
    <3>1. Made(p, TRUE, FALSE, Stopped(element, n), element.at, element.broken)
      BY <1>0, <2>2, PausedIs DEF Made
    <3>2. queue = Stopped(element, n)
      BY <2>2
    <3> HIDE DEF p, queue
    <3>3. p \in Elements /\ p.tasks = queue
      BY <1>0, <1>1, <3>1, <3>2, ElementMade
    <3>4. p.paused /\ ~p.waiting /\ (p.broken <=> element.broken)
      BY <1>0, <1>1, <3>1, <3>2, ElementMade
    <3> QED
      BY <3>3, <3>4
  <2> QED
    BY <1>0, <2>1, <2>2
<1>3. Quiet(element.tasks, {"resolve"}) => Quiet(queue, {"resolve"})
  BY <1>0, PauseKeepsQuiet
<1>4. ~element.broken => NoneLater(queue, n) /\ ResolvedLast(queue, n)
  <2> SUFFICES ASSUME ~element.broken PROVE NoneLater(queue, n) /\ ResolvedLast(queue, n)
    OBVIOUS
  <2>1. /\ NoneLater(element.tasks, n) /\ ResolvedLast(element.tasks, n)
        /\ element.waiting => ~Has(element.tasks, "resolve", n)
    BY <1>0 DEF AnswersKnown, Plays
  <2> QED
    BY <1>0, <2>1, PauseKeepsAnswers
<1>5. element' = [p EXCEPT !.at = 0]
  BY <1>0 DEF SetMotionActive
<1>6. /\ motion' \in [active : BOOLEAN, shown : BOOLEAN, starts : Nat, late : BOOLEAN]
      /\ ~motion'.active /\ motion'.starts = n /\ ~motion'.shown
      /\ (motion'.late <=> ~Quiet(element.tasks, {"resolve"}))
  <2> DEFINE l == \E i \in DOMAIN element.tasks : element.tasks[i].kind = "resolve"
  <2>1. motion' = [motion EXCEPT !.active = FALSE, !.shown = FALSE, !.late = l] /\ l \in BOOLEAN
    BY DEF SetMotionActive
  <2>2. motion \in [active : BOOLEAN, shown : BOOLEAN, starts : Nat, late : BOOLEAN]
    BY <1>0 DEF ElementTyped
  <2>3. l <=> ~Quiet(element.tasks, {"resolve"})
    BY DEF Quiet
  <2> HIDE DEF l
  <2>4. /\ motion' \in [active : BOOLEAN, shown : BOOLEAN, starts : Nat, late : BOOLEAN]
        /\ ~motion'.active /\ motion'.starts = n /\ ~motion'.shown /\ (motion'.late <=> l)
    BY <2>1, <2>2
  <2> QED
    BY <2>3, <2>4
<1> HIDE DEF p, queue
<1>7. /\ element' \in Elements /\ element'.paused /\ ~element'.waiting /\ element'.tasks = queue
      /\ (element'.broken <=> element.broken)
  <2>1. element' \in Elements /\ element'.tasks = p.tasks
    BY <1>2, <1>5 DEF Elements, End
  <2>2. (element'.paused <=> p.paused) /\ (element'.waiting <=> p.waiting) /\ (element'.broken <=> p.broken)
    BY <1>2, <1>5 DEF Elements
  <2> QED
    BY <1>2, <2>1, <2>2
<1>8. ~motion'.late => Quiet(queue, {"resolve"}) /\ NoneOlder(queue, n)
  BY <1>3, <1>6, QuietOnes
<1>9. AtRest' /\ ~Plays'
  BY <1>6, <1>7, <1>8 DEF AtRest, Plays
<1>10. ~element.broken => AnswersKnown'
  BY <1>4, <1>6, <1>7, <1>8, <1>9 DEF AnswersKnown
<1>11. ElementTyped'
  BY <1>0, <1>6, <1>7 DEF ElementTyped
<1> QED
  BY <1>0, <1>7, <1>9, <1>10, <1>11 DEF ElementSound, ButtonSound, StillSound

LEMMA ChangeIsSound == ASSUME ElementSound, NEW same \in BOOLEAN, ChangePhoto(same) PROVE ElementSound'
<1>0. /\ ElementTyped /\ AtRest /\ element \in Elements
      /\ medium = "motion" /\ medium' = "motion" /\ UNCHANGED button
      /\ motion.active \in BOOLEAN /\ motion.shown \in BOOLEAN /\ motion.late \in BOOLEAN
  BY MotionFields DEF ElementSound, StillSound, ChangePhoto, Poke
<1>1. element' = Element(TRUE, FALSE, <<>>, 0, FALSE)
  <2> DEFINE t == 0
             ts == <<>>
  <2>1. element' = [element EXCEPT !.paused = TRUE, !.waiting = FALSE, !.tasks = ts, !.at = t, !.broken = FALSE]
    BY DEF ChangePhoto
  <2>2. ts = <<>> /\ t = 0
    OBVIOUS
  <2> HIDE DEF t, ts
  <2>3. element' = Element(TRUE, FALSE, ts, t, FALSE)
    BY <1>0, <2>1 DEF Element, Elements
  <2> QED
    BY <2>2, <2>3
<1>2. /\ element' \in Elements /\ element'.tasks = <<>> /\ element'.paused /\ ~element'.waiting /\ ~element'.broken
  <2>1. Made(element', TRUE, FALSE, <<>>, 0, FALSE) /\ <<>> \in Seq(Tasks) /\ 0 \in 0 .. End
    BY <1>1 DEF Made, End
  <2>2. element' \in Elements /\ element'.tasks = <<>>
    BY <2>1, ElementMade
  <2>3. element'.paused /\ ~element'.waiting /\ ~element'.broken
    BY <2>1, ElementMade
  <2> QED
    BY <2>2, <2>3
<1>3. /\ motion' \in [active : BOOLEAN, shown : BOOLEAN, starts : Nat, late : BOOLEAN]
      /\ motion'.shown => same /\ ~motion.active /\ (motion.shown \/ ~Quiet(element.tasks, {"resolve"}))
      /\ motion'.late <=> motion.late /\ same /\ ~motion.active
  <2> DEFINE s == same /\ ~motion.active /\ ~element.waiting
                  /\ (motion.shown \/ \E i \in DOMAIN element.tasks : element.tasks[i].kind = "resolve")
             l == motion.late /\ same /\ ~motion.active
  <2>1. motion' = [motion EXCEPT !.active = FALSE, !.shown = s, !.late = l] /\ s \in BOOLEAN /\ l \in BOOLEAN
    BY DEF ChangePhoto
  <2>2. motion \in [active : BOOLEAN, shown : BOOLEAN, starts : Nat, late : BOOLEAN]
    BY <1>0 DEF ElementTyped
  <2>3. s => same /\ ~motion.active /\ (motion.shown \/ ~Quiet(element.tasks, {"resolve"}))
    BY DEF Quiet
  <2>4. l <=> motion.late /\ same /\ ~motion.active
    OBVIOUS
  <2> HIDE DEF s, l
  <2>5. /\ motion' \in [active : BOOLEAN, shown : BOOLEAN, starts : Nat, late : BOOLEAN]
        /\ (motion'.shown <=> s) /\ (motion'.late <=> l)
    BY <2>1, <2>2
  <2> QED
    BY <2>3, <2>4, <2>5
<1>4. ~motion'.late => ~motion'.shown
  BY <1>0, <1>3 DEF AtRest
<1>5. ElementTyped'
  BY <1>0, <1>2, <1>3 DEF ElementTyped
<1>6. AtRest' /\ AnswersKnown'
  BY <1>2, <1>4, <1>5, EmptyIsSound
<1> QED
  BY <1>0, <1>5, <1>6 DEF ElementSound, ButtonSound, StillSound

-----------------------------------------------------------------------------
(* The waveform *)

LEMMA WaveFields ==
    ASSUME NEW w \in Waves
    PROVE  /\ w.stream \in Nat /\ w.levels \in Nat /\ w.runs \in Seq(WaveRuns)
           /\ DOMAIN w.runs = 1 .. Len(w.runs) /\ Len(w.runs) \in Nat
           /\ \A n \in DOMAIN w.runs : /\ w.runs[n] \in WaveRuns /\ w.runs[n].resuming \in BOOLEAN
                                       /\ w.runs[n].ticking \in BOOLEAN /\ w.runs[n].hasty \in BOOLEAN
<1>1. w.stream \in Nat /\ w.levels \in Nat /\ w.runs \in Seq(WaveRuns)
  BY DEF Waves
<1>2. DOMAIN w.runs = 1 .. Len(w.runs) /\ Len(w.runs) \in Nat /\ \A n \in DOMAIN w.runs : w.runs[n] \in WaveRuns
  BY <1>1
<1> QED
  BY <1>1, <1>2 DEF WaveRuns

\* One run changes.
ChangedRun(w, n, r, v) == v = [w EXCEPT !.runs = [w.runs EXCEPT ![n] = r]]

LEMMA RunChanges ==
    ASSUME NEW w \in Waves, NEW n \in DOMAIN w.runs, NEW r \in WaveRuns, NEW v, ChangedRun(w, n, r, v)
    PROVE  /\ v \in Waves /\ v.stream = w.stream /\ v.levels = w.levels
           /\ DOMAIN v.runs = DOMAIN w.runs /\ Len(v.runs) = Len(w.runs) /\ v.runs[n] = r
           /\ \A m \in DOMAIN w.runs : m # n => v.runs[m] = w.runs[m]
<1> DEFINE rs == [w.runs EXCEPT ![n] = r]
<1>1. /\ rs \in Seq(WaveRuns) /\ Len(rs) = Len(w.runs) /\ rs[n] = r /\ DOMAIN rs = DOMAIN w.runs
      /\ \A m \in DOMAIN w.runs : m # n => rs[m] = w.runs[m]
  BY WaveFields
<1>2. v = [w EXCEPT !.runs = rs]
  BY DEF ChangedRun
<1> HIDE DEF rs
<1>3. v \in Waves /\ v.stream = w.stream /\ v.levels = w.levels /\ v.runs = rs
  BY <1>1, <1>2 DEF Waves
<1> QED
  BY <1>1, <1>3

LEMMA RunResumes ==
    ASSUME NEW w \in Waves, NEW n \in DOMAIN w.runs, NEW r, r = [w.runs[n] EXCEPT !.resuming = FALSE, !.ticking = TRUE]
    PROVE  /\ r \in WaveRuns /\ ~r.resuming /\ r.ticking /\ (r.hasty <=> w.runs[n].hasty)
           /\ ChangedRun(w, n, r, [w EXCEPT !.runs[n].resuming = FALSE, !.runs[n].ticking = TRUE])
<1>1. r \in WaveRuns /\ ~r.resuming /\ r.ticking /\ (r.hasty <=> w.runs[n].hasty)
  BY WaveFields DEF WaveRuns
<1>2. [w EXCEPT !.runs[n].resuming = FALSE, !.runs[n].ticking = TRUE] =
      [w EXCEPT !.runs = [w.runs EXCEPT ![n] = [w.runs[n] EXCEPT !.resuming = FALSE, !.ticking = TRUE]]]
  BY DEF Waves
<1> QED
  BY <1>1, <1>2 DEF ChangedRun

LEMMA RunRefused ==
    ASSUME NEW w \in Waves, NEW n \in DOMAIN w.runs, NEW r, r = [w.runs[n] EXCEPT !.resuming = FALSE]
    PROVE  /\ r \in WaveRuns /\ ~r.resuming /\ (r.ticking <=> w.runs[n].ticking) /\ (r.hasty <=> w.runs[n].hasty)
           /\ ChangedRun(w, n, r, [w EXCEPT !.runs[n].resuming = FALSE])
<1>1. r \in WaveRuns /\ ~r.resuming /\ (r.ticking <=> w.runs[n].ticking) /\ (r.hasty <=> w.runs[n].hasty)
  BY WaveFields DEF WaveRuns
<1>2. [w EXCEPT !.runs[n].resuming = FALSE] =
      [w EXCEPT !.runs = [w.runs EXCEPT ![n] = [w.runs[n] EXCEPT !.resuming = FALSE]]]
  BY DEF Waves
<1> QED
  BY <1>1, <1>2 DEF ChangedRun

LEMMA RunEnds ==
    ASSUME NEW w \in Waves, NEW n \in DOMAIN w.runs, NEW r \in WaveRuns,
           r = [w.runs[n] EXCEPT !.ticking = FALSE, !.hasty = w.runs[n].resuming]
    PROVE  /\ ~r.ticking /\ (r.resuming <=> w.runs[n].resuming) /\ (r.hasty <=> w.runs[n].resuming)
           /\ ChangedRun([w EXCEPT !.stream = 0, !.levels = 0], n, r,
                         [w EXCEPT !.stream = 0, !.levels = 0, !.runs[n].ticking = FALSE,
                                   !.runs[n].hasty = w.runs[n].resuming])
<1> DEFINE u == [w EXCEPT !.stream = 0, !.levels = 0]
<1>1. ~r.ticking /\ (r.resuming <=> w.runs[n].resuming) /\ (r.hasty <=> w.runs[n].resuming)
  BY WaveFields DEF WaveRuns
<1>2. [w EXCEPT !.stream = 0, !.levels = 0, !.runs[n].ticking = FALSE, !.runs[n].hasty = w.runs[n].resuming] =
      [w EXCEPT !.stream = 0, !.levels = 0,
                !.runs = [w.runs EXCEPT ![n] = [w.runs[n] EXCEPT !.ticking = FALSE, !.hasty = w.runs[n].resuming]]]
  BY DEF Waves
<1>3. u.runs = w.runs /\ [w EXCEPT !.stream = 0, !.levels = 0, !.runs = [w.runs EXCEPT ![n] = r]]
                         = [u EXCEPT !.runs = [w.runs EXCEPT ![n] = r]]
  BY DEF Waves
<1> QED
  BY <1>1, <1>2, <1>3 DEF ChangedRun

LEMMA WaveIsSound ==
    ASSUME WaveSound,
           \/ StreamStarts \/ StreamEnds
           \/ \E n \in DOMAIN wave.runs : ContextResumes(n) \/ ContextRefuses(n) \/ WaveTick(n)
    PROVE  WaveSound'
<1>0. /\ wave \in Waves /\ wave.stream \in Nat /\ wave.levels \in Nat
      /\ DOMAIN wave.runs = 1 .. Len(wave.runs) /\ Len(wave.runs) \in Nat
  BY WaveFields DEF WaveSound
<1>1. CASE StreamStarts
  <2> DEFINE r == [resuming |-> TRUE, ticking |-> FALSE, hasty |-> FALSE]
             rs == Append(wave.runs, r)
             k == Len(wave.runs) + 1
  <2>1. r \in WaveRuns
    BY DEF WaveRuns
  <2>2. /\ rs \in Seq(WaveRuns) /\ Len(rs) = k /\ DOMAIN rs = 1 .. k
        /\ \A m \in DOMAIN wave.runs : rs[m] = wave.runs[m]
    BY <1>0, <2>1, WaveFields
  <2>3. wave' = [wave EXCEPT !.stream = k, !.runs = rs] /\ wave.stream = 0
    BY <1>1 DEF StreamStarts
  <2>0. k \in Nat
    BY <1>0
  <2> HIDE DEF r, rs, k
  <2>4. wave' \in Waves /\ wave'.stream = k /\ wave'.levels = wave.levels /\ wave'.runs = rs
    BY <1>0, <2>0, <2>2, <2>3 DEF Waves
  <2>5. \A n \in DOMAIN rs : rs[n].resuming \/ rs[n].ticking => n = k \/ rs[n].hasty
    <3> SUFFICES ASSUME NEW n \in DOMAIN rs, n # k, rs[n].resuming \/ rs[n].ticking PROVE rs[n].hasty
      OBVIOUS
    <3>1. n \in DOMAIN wave.runs /\ rs[n] = wave.runs[n] /\ n # wave.stream
      BY <1>0, <2>2, <2>3 DEF k
    <3> QED
      BY <3>1 DEF WaveSound
  <2>6. wave.levels # 0 => wave.levels \in DOMAIN wave.runs /\ rs[wave.levels].hasty
    BY <1>0, <2>2, <2>3 DEF WaveSound
  <2> QED
    BY <1>0, <2>2, <2>4, <2>5, <2>6 DEF WaveSound, k
<1>2. CASE StreamEnds
  <2> DEFINE n == wave.stream
             r == [wave.runs[n] EXCEPT !.ticking = FALSE, !.hasty = wave.runs[n].resuming]
             u == [wave EXCEPT !.stream = 0, !.levels = 0]
  <2>1. n \in DOMAIN wave.runs
    BY <1>0, <1>2 DEF WaveSound, StreamEnds
  <2>2. wave' = [wave EXCEPT !.stream = 0, !.levels = 0, !.runs[n].ticking = FALSE,
                               !.runs[n].hasty = wave.runs[n].resuming]
    BY <1>2 DEF StreamEnds
  <2>3. r \in WaveRuns
    BY <1>0, <2>1, WaveFields, ZenonT(40) DEF WaveRuns
  <2>4. ~r.ticking /\ (r.resuming <=> wave.runs[n].resuming) /\ (r.hasty <=> wave.runs[n].resuming)
    BY <1>0, <2>1, <2>3, RunEnds
  <2>5. ChangedRun(u, n, r, wave')
    BY <1>0, <2>1, <2>2, <2>3, RunEnds
  <2>6. u \in Waves /\ u.stream = 0 /\ u.levels = 0 /\ u.runs = wave.runs
    BY <1>0 DEF Waves
  <2> HIDE DEF r, u
  <2>7. /\ wave' \in Waves /\ wave'.stream = 0 /\ wave'.levels = 0
        /\ DOMAIN wave'.runs = DOMAIN wave.runs /\ wave'.runs[n] = r
        /\ \A m \in DOMAIN wave.runs : m # n => wave'.runs[m] = wave.runs[m]
        /\ Len(wave'.runs) = Len(wave.runs)
    BY <2>1, <2>3, <2>5, <2>6, RunChanges
  <2>8. \A m \in DOMAIN wave.runs : wave'.runs[m].resuming \/ wave'.runs[m].ticking => wave'.runs[m].hasty
    <3> SUFFICES ASSUME NEW m \in DOMAIN wave.runs, wave'.runs[m].resuming \/ wave'.runs[m].ticking
                 PROVE  wave'.runs[m].hasty
      OBVIOUS
    <3>1. CASE m = n
      BY <2>4, <2>7, <3>1
    <3>2. CASE m # n
      BY <2>7, <3>2 DEF WaveSound
    <3> QED
      BY <3>1, <3>2
  <2> QED
    BY <1>0, <2>7, <2>8 DEF WaveSound
<1>3. ASSUME NEW n \in DOMAIN wave.runs, ContextResumes(n) PROVE WaveSound'
  <2> DEFINE r == [wave.runs[n] EXCEPT !.resuming = FALSE, !.ticking = TRUE]
  <2>1. wave' = [wave EXCEPT !.runs[n].resuming = FALSE, !.runs[n].ticking = TRUE] /\ wave.runs[n].resuming
    BY <1>3 DEF ContextResumes
  <2>2. r \in WaveRuns /\ (r.hasty <=> wave.runs[n].hasty) /\ ChangedRun(wave, n, r, wave')
    BY <1>0, <2>1, RunResumes
  <2> HIDE DEF r
  <2>3. /\ wave' \in Waves /\ wave'.stream = wave.stream /\ wave'.levels = wave.levels
        /\ DOMAIN wave'.runs = DOMAIN wave.runs /\ wave'.runs[n] = r /\ Len(wave'.runs) = Len(wave.runs)
        /\ \A m \in DOMAIN wave.runs : m # n => wave'.runs[m] = wave.runs[m]
    BY <1>0, <2>2, RunChanges
  <2>4. \A m \in DOMAIN wave.runs : wave'.runs[m].hasty <=> wave.runs[m].hasty
    BY <2>2, <2>3
  <2>5. n = wave.stream \/ wave.runs[n].hasty
    BY <2>1 DEF WaveSound
  <2>6. \A m \in DOMAIN wave.runs : wave'.runs[m].resuming \/ wave'.runs[m].ticking => m = wave.stream \/ wave'.runs[m].hasty
    BY <2>3, <2>4, <2>5 DEF WaveSound
  <2>7. wave.levels # 0 => wave.levels = wave.stream \/ wave'.runs[wave.levels].hasty
    BY <1>0, <2>4 DEF WaveSound
  <2> QED
    BY <2>3, <2>6, <2>7 DEF WaveSound
<1>4. ASSUME NEW n \in DOMAIN wave.runs, ContextRefuses(n) PROVE WaveSound'
  <2> DEFINE r == [wave.runs[n] EXCEPT !.resuming = FALSE]
  <2>1. wave' = [wave EXCEPT !.runs[n].resuming = FALSE] /\ wave.runs[n].resuming
    BY <1>4 DEF ContextRefuses
  <2>2. r \in WaveRuns /\ (r.hasty <=> wave.runs[n].hasty) /\ ChangedRun(wave, n, r, wave')
    BY <1>0, <2>1, RunRefused
  <2> HIDE DEF r
  <2>3. /\ wave' \in Waves /\ wave'.stream = wave.stream /\ wave'.levels = wave.levels
        /\ DOMAIN wave'.runs = DOMAIN wave.runs /\ wave'.runs[n] = r /\ Len(wave'.runs) = Len(wave.runs)
        /\ \A m \in DOMAIN wave.runs : m # n => wave'.runs[m] = wave.runs[m]
    BY <1>0, <2>2, RunChanges
  <2>4. \A m \in DOMAIN wave.runs : wave'.runs[m].hasty <=> wave.runs[m].hasty
    BY <2>2, <2>3
  <2>5. n = wave.stream \/ wave.runs[n].hasty
    BY <2>1 DEF WaveSound
  <2>6. \A m \in DOMAIN wave.runs : wave'.runs[m].resuming \/ wave'.runs[m].ticking => m = wave.stream \/ wave'.runs[m].hasty
    BY <2>3, <2>4, <2>5 DEF WaveSound
  <2>7. wave.levels # 0 => wave.levels = wave.stream \/ wave'.runs[wave.levels].hasty
    BY <1>0, <2>4 DEF WaveSound
  <2> QED
    BY <2>3, <2>6, <2>7 DEF WaveSound
<1>5. ASSUME NEW n \in DOMAIN wave.runs, WaveTick(n) PROVE WaveSound'
  <2>1. wave' = [wave EXCEPT !.levels = n] /\ wave.runs[n].ticking /\ n \in Nat /\ n <= Len(wave.runs)
    BY <1>0, <1>5 DEF WaveTick
  <2>2. wave' \in Waves /\ wave'.stream = wave.stream /\ wave'.levels = n /\ wave'.runs = wave.runs
    BY <1>0, <2>1 DEF Waves
  <2> QED
    BY <2>1, <2>2 DEF WaveSound
<1> QED
  BY <1>1, <1>2, <1>3, <1>4, <1>5

-----------------------------------------------------------------------------
(* The colours of code *)

LEMMA CodeFields ==
    ASSUME NEW c \in Codes
    PROVE  /\ c.chosen \in Colours /\ c.system \in Colours /\ c.wanted \in Colours /\ c.mixed \in BOOLEAN
           /\ c.blocks \in Seq(Colours) /\ c.styles \in Seq(Colours) /\ c.imports \in Seq(Colours)
BY DEF Codes

LEMMA ThemesAreColours ==
    /\ "light" \in Colours /\ "dark" \in Colours /\ "system" \in Colours
    /\ \A c \in Codes : ResolvedTheme(c) \in Colours
<1>1. "light" \in Colours /\ "dark" \in Colours /\ "system" \in Colours
  BY DEF Colours
<1> QED
  BY <1>1, CodeFields DEF ResolvedTheme

\* Neither the blocks nor the themes chosen are about the styles.
LEMMA BlocksAreApart ==
    ASSUME NEW c, Coloured(c), NEW bs \in Seq(Colours), NEW d, d = [c EXCEPT !.blocks = bs]
    PROVE  Coloured(d) /\ d.blocks = bs
<1>1. d \in Codes /\ d.blocks = bs
  BY DEF Coloured, Codes
<1>2. d.wanted = c.wanted /\ d.imports = c.imports /\ d.styles = c.styles
  BY DEF Coloured, Codes
<1>3. d.mixed <=> c.mixed
  BY DEF Coloured, Codes
<1> QED
  BY <1>1, <1>2, <1>3 DEF Coloured

LEMMA ThemesAreApart ==
    ASSUME NEW c, Coloured(c), NEW t \in Colours, NEW d, d = [c EXCEPT !.chosen = t] \/ d = [c EXCEPT !.system = t]
    PROVE  Coloured(d) /\ d.blocks = c.blocks
<1>1. d \in Codes /\ d.blocks = c.blocks
  BY DEF Coloured, Codes
<1>2. d.wanted = c.wanted /\ d.imports = c.imports /\ d.styles = c.styles
  BY DEF Coloured, Codes
<1>3. d.mixed <=> c.mixed
  BY DEF Coloured, Codes
<1> QED
  BY <1>1, <1>2, <1>3 DEF Coloured

LEMMA StyledIsSound ==
    ASSUME NEW c, Coloured(c), NEW theme \in Colours, NEW times \in Nat
    PROVE  Coloured(Styled(c, theme, times)) /\ Styled(c, theme, times).blocks = c.blocks
<1>1. CASE times = 0
  BY <1>1 DEF Styled
<1>2. CASE times # 0
  <2> DEFINE asked == [k \in 1 .. times |-> theme]
             imports == c.imports \o asked
             styles == SubSeq(c.styles, times + 1, Len(c.styles))
             mixed == c.mixed /\ c.imports # <<>>
             d == Styled(c, theme, times)
  <2>1. c \in Codes /\ c.imports \in Seq(Colours) /\ c.styles \in Seq(Colours)
    BY CodeFields DEF Coloured
  <2>2. d = [c EXCEPT !.styles = styles, !.imports = imports, !.wanted = theme, !.mixed = mixed]
    BY <1>2 DEF Styled
  <2>3. asked \in Seq(Colours) /\ Len(asked) = times
    OBVIOUS
  <2>4. /\ imports \in Seq(Colours) /\ Len(imports) = Len(c.imports) + times /\ Len(imports) > 0
        /\ imports[Len(imports)] = theme
    <3>1. imports \in Seq(Colours) /\ Len(imports) = Len(c.imports) + times /\ Len(c.imports) \in Nat
      BY <2>1, <2>3
    <3>2. imports[Len(imports)] = asked[times]
      BY <1>2, <2>1, <2>3, <3>1
    <3> QED
      BY <1>2, <3>1, <3>2
  <2>5. styles \in Seq(Colours) /\ mixed \in BOOLEAN
    BY <2>1
  <2> HIDE DEF imports, styles, mixed, asked, d
  <2>6. d \in Codes /\ d.imports = imports /\ d.wanted = theme /\ d.blocks = c.blocks
    BY <2>1, <2>2, <2>4, <2>5 DEF Codes
  <2>7. imports # <<>> /\ Last(imports) = theme
    BY <2>4 DEF Last
  <2> QED
    BY <2>6, <2>7 DEF Coloured, d
<1> QED
  BY <1>1, <1>2

LEMMA RerenderedIsSound ==
    ASSUME NEW c, Coloured(c)
    PROVE  Coloured(Rerendered(c))
<1> DEFINE theme == ResolvedTheme(c)
           others == {b \in DOMAIN c.blocks : c.blocks[b] # theme}
           d == Styled(c, theme, Cardinality(others))
           bs == [b \in DOMAIN c.blocks |-> theme]
<1>1. c.blocks \in Seq(Colours) /\ theme \in Colours
  BY CodeFields, ThemesAreColours DEF Coloured
<1>2. DOMAIN c.blocks = 1 .. Len(c.blocks) /\ Len(c.blocks) \in Nat
  BY <1>1
<1>3. Cardinality(others) \in Nat
  <2>1. IsFiniteSet(1 .. Len(c.blocks))
    BY <1>2, FS_Interval
  <2>2. others \subseteq 1 .. Len(c.blocks)
    BY <1>2
  <2> QED
    BY <2>1, <2>2, FS_Subset, FS_CardinalityType
<1>4. bs \in Seq(Colours)
  BY <1>1, <1>2
<1>5. Rerendered(c) = [d EXCEPT !.blocks = bs]
  BY DEF Rerendered
<1> HIDE DEF theme, others, bs
<1>6. Coloured(d)
  BY <1>1, <1>3, StyledIsSound
<1> HIDE DEF d
<1> QED
  BY <1>4, <1>5, <1>6, BlocksAreApart

LEMMA ImportGoes ==
    ASSUME NEW s \in Seq(Colours), NEW i \in DOMAIN s, NEW r, r = RemoveAt(s, i)
    PROVE  /\ r \in Seq(Colours) /\ Len(r) = Len(s) - 1 /\ Len(s) \in Nat \ {0}
           /\ i = 1 /\ r # <<>> => Last(r) = Last(s)
           /\ i = 1 /\ r = <<>> => s[i] = Last(s)
<1>1. i \in 1 .. Len(s) /\ Len(s) \in Nat \ {0}
  OBVIOUS
<1>2. r \in Seq(Colours) /\ Len(r) = Len(s) - 1 /\ (i = 1 /\ Len(s) > 1 => r[Len(r)] = s[Len(s)])
  BY <1>1, RequestIsAnswered
<1>3. r # <<>> => Len(s) > 1
  BY <1>1, <1>2
<1>4. r = <<>> => Len(s) = 1
  BY <1>1, <1>2
<1> QED
  BY <1>1, <1>2, <1>3, <1>4 DEF Last

LEMMA CodeIsSound ==
    ASSUME CodeSound,
           \/ MountBlock \/ UnmountBlock \/ SystemThemeFlips \/ HandleCopy \/ CopiedEnds
           \/ \E theme \in {"light", "dark", "system"} : PickTheme(theme)
           \/ \E i \in DOMAIN code.imports : StyleImported(i) \/ StyleFails(i)
    PROVE  CodeSound'
<1>0. /\ Coloured(code) /\ code \in Codes /\ code.blocks \in Seq(Colours) /\ code.imports \in Seq(Colours)
      /\ code.styles \in Seq(Colours) /\ ResolvedTheme(code) \in Colours
  BY CodeFields, ThemesAreColours DEF CodeSound, Coloured
<1>1. ASSUME Coloured(code'), UNCHANGED copy PROVE CodeSound'
  BY <1>1 DEF CodeSound, Coloured
<1>2. CASE MountBlock
  <2> DEFINE d == Styled(code, ResolvedTheme(code), 1)
             bs == Append(d.blocks, ResolvedTheme(code))
  <2>1. Coloured(d) /\ d.blocks = code.blocks
    BY <1>0, StyledIsSound
  <2>2. bs \in Seq(Colours)
    BY <1>0, <2>1
  <2>3. code' = [d EXCEPT !.blocks = bs] /\ UNCHANGED copy
    BY <1>2 DEF MountBlock
  <2> HIDE DEF d, bs
  <2> QED
    BY <1>1, <2>1, <2>2, <2>3, BlocksAreApart
<1>3. CASE UnmountBlock
  <2> DEFINE bs == Tail(code.blocks)
  <2>1. bs \in Seq(Colours)
    BY <1>0, <1>3 DEF UnmountBlock
  <2>2. code' = [code EXCEPT !.blocks = bs] /\ UNCHANGED copy
    BY <1>3 DEF UnmountBlock
  <2> HIDE DEF bs
  <2> QED
    BY <1>0, <1>1, <2>1, <2>2, BlocksAreApart
<1>4. CASE SystemThemeFlips
  <2> DEFINE t == IF code.system = "light" THEN "dark" ELSE "light"
             d == [code EXCEPT !.system = t]
  <2>1. t \in Colours
    BY ThemesAreColours
  <2>2. (code' = d \/ code' = Rerendered(d)) /\ UNCHANGED copy
    BY <1>4 DEF SystemThemeFlips
  <2> HIDE DEF t
  <2>3. Coloured(d)
    BY <1>0, <2>1, ThemesAreApart
  <2> HIDE DEF d
  <2> QED
    BY <1>1, <2>2, <2>3, RerenderedIsSound
<1>5. ASSUME NEW theme \in {"light", "dark", "system"}, PickTheme(theme) PROVE CodeSound'
  <2> DEFINE d == [code EXCEPT !.chosen = theme]
  <2>1. theme \in Colours
    BY ThemesAreColours
  <2>2. code' = Rerendered(d) /\ UNCHANGED copy
    BY <1>5 DEF PickTheme
  <2>3. Coloured(d)
    BY <1>0, <2>1, ThemesAreApart
  <2> HIDE DEF d
  <2> QED
    BY <1>1, <2>2, <2>3, RerenderedIsSound
<1>6. ASSUME NEW i \in DOMAIN code.imports, StyleImported(i) PROVE CodeSound'
  <2> DEFINE style == code.imports[i]
             styles == Append(code.styles, style)
             imports == RemoveAt(code.imports, i)
             mixed == code.mixed \/ i > 1
  <2>1. code' = [code EXCEPT !.styles = styles, !.imports = imports, !.mixed = mixed] /\ UNCHANGED copy
    BY <1>6 DEF StyleImported, StyleArrives
  <2>2. /\ imports \in Seq(Colours) /\ code.imports # <<>> /\ i \in 1 .. Len(code.imports) /\ style \in Colours
        /\ i = 1 /\ imports # <<>> => Last(imports) = Last(code.imports)
        /\ i = 1 /\ imports = <<>> => style = Last(code.imports)
    BY <1>0, ImportGoes
  <2>3. styles \in Seq(Colours) /\ styles # <<>> /\ Last(styles) = style
    BY <1>0, <2>2 DEF Last
  <2>4. mixed \in BOOLEAN /\ (~mixed => ~code.mixed /\ i = 1)
    BY <1>0, <2>2, CodeFields
  <2> HIDE DEF style, styles, imports, mixed
  <2>5. /\ code' \in Codes /\ code'.styles = styles /\ code'.imports = imports /\ code'.wanted = code.wanted
    BY <1>0, <2>1, <2>2, <2>3, <2>4 DEF Codes
  <2>6. code'.mixed <=> mixed
    BY <1>0, <2>1, <2>4 DEF Codes
  <2>7. code.wanted # NoTheme /\ ~code.mixed => Last(code.imports) = code.wanted
    BY <1>0, <2>2 DEF Coloured
  <2>8. Coloured(code')
    BY <2>2, <2>3, <2>4, <2>5, <2>6, <2>7 DEF Coloured
  <2> QED
    BY <1>1, <2>1, <2>8
<1>7. ASSUME NEW i \in DOMAIN code.imports, StyleFails(i) PROVE CodeSound'
  <2> DEFINE imports == RemoveAt(code.imports, i)
  <2>1. code' = [code EXCEPT !.imports = imports, !.mixed = TRUE] /\ UNCHANGED copy
    BY <1>7 DEF StyleFails
  <2>2. imports \in Seq(Colours)
    BY <1>0, ImportGoes
  <2> HIDE DEF imports
  <2>3. code' \in Codes /\ code'.mixed
    BY <1>0, <2>1, <2>2 DEF Codes
  <2>4. Coloured(code')
    BY <2>3 DEF Coloured
  <2> QED
    BY <1>1, <2>1, <2>4
<1>8. CASE HandleCopy \/ CopiedEnds
  <2>1. UNCHANGED code /\ copy' \in [copied : BOOLEAN, timers : Nat] /\ (copy'.copied => copy'.timers > 0)
    <3>1. copy.timers \in Nat
      BY DEF CodeSound
    <3>2. CASE HandleCopy
      BY <3>1, <3>2 DEF HandleCopy
    <3>3. CASE CopiedEnds
      BY <3>1, <3>3 DEF CopiedEnds
    <3> QED
      BY <1>8, <3>2, <3>3
  <2> QED
    BY <1>0, <2>1 DEF CodeSound, Coloured
<1> QED
  BY <1>2, <1>3, <1>4, <1>5, <1>6, <1>7, <1>8

-----------------------------------------------------------------------------
(* The diagram *)

LEMMA DiagramFields ==
    ASSUME NEW d \in Diagrams
    PROVE  /\ d.text \in Writings /\ d.theme \in Colours /\ d.runs \in Seq(DrawingRuns)
           /\ d.svg \in Drawings /\ d.error \in Writings
           /\ DOMAIN d.runs = 1 .. Len(d.runs) /\ Len(d.runs) \in Nat /\ \A i \in DOMAIN d.runs : d.runs[i] \in DrawingRuns
<1>1. d.text \in Writings /\ d.theme \in Colours /\ d.runs \in Seq(DrawingRuns) /\ d.svg \in Drawings /\ d.error \in Writings
  BY DEF Diagrams
<1> QED
  BY <1>1

LEMMA DrawingFields ==
    /\ \A r \in DrawingRuns : r.text \in Writings /\ r.theme \in Colours /\ r.cancelled \in BOOLEAN
    /\ \A text \in Writings, theme \in Colours : Drawing(text, theme) \in Drawings
    /\ NoDrawing \in Drawings /\ NoText \in Writings
<1>1. \A r \in DrawingRuns : r.text \in Writings /\ r.theme \in Colours /\ r.cancelled \in BOOLEAN
  BY DEF DrawingRuns
<1>2. \A text \in Writings, theme \in Colours : Drawing(text, theme) \in Drawings
  BY DEF Drawing, Drawings
<1>3. NoText \in Writings /\ NoTheme \in Colours /\ NoDrawing = Drawing(NoText, NoTheme)
  BY DEF Writings, Colours, NoText, NoDrawing, Drawing
<1> QED
  BY <1>1, <1>2, <1>3

\* A run is taken out of the list of runs.
LEMMA RunGoes ==
    ASSUME NEW s \in Seq(DrawingRuns), NEW i \in 1 .. Len(s), NEW r, r = RemoveAt(s, i)
    PROVE  /\ r \in Seq(DrawingRuns) /\ Len(r) = Len(s) - 1 /\ DOMAIN r = 1 .. Len(s) - 1
           /\ \A j \in 1 .. Len(s) - 1 : r[j] = IF j < i THEN s[j] ELSE s[j + 1]
<1> DEFINE a == SubSeq(s, 1, i - 1)
           b == SubSeq(s, i + 1, Len(s))
<1>1. a \in Seq(DrawingRuns) /\ Len(a) = i - 1 /\ \A j \in 1 .. i - 1 : a[j] = s[j]
  <2>1. \A j \in 1 .. i - 1 : a[j] = s[1 + j - 1]
    OBVIOUS
  <2> QED
    BY <2>1
<1>2. b \in Seq(DrawingRuns) /\ Len(b) = Len(s) - i /\ \A j \in 1 .. Len(s) - i : b[j] = s[i + j]
  <2>1. \A j \in 1 .. Len(s) - i : b[j] = s[(i + 1) + j - 1]
    OBVIOUS
  <2> QED
    BY <2>1
<1>3. r = a \o b
  BY DEF RemoveAt
<1> HIDE DEF a, b
<1>4. /\ r \in Seq(DrawingRuns) /\ Len(r) = Len(a) + Len(b)
      /\ \A j \in 1 .. Len(r) : r[j] = IF j <= Len(a) THEN a[j] ELSE b[j - Len(a)]
  <2>1. a \in Seq(DrawingRuns) /\ b \in Seq(DrawingRuns)
    BY <1>1, <1>2
  <2>2. a \o b \in Seq(DrawingRuns) /\ Len(a \o b) = Len(a) + Len(b)
    BY <2>1
  <2>3. \A j \in 1 .. Len(a) + Len(b) : (a \o b)[j] = IF j <= Len(a) THEN a[j] ELSE b[j - Len(a)]
    BY <2>1
  <2> QED
    BY <1>3, <2>2, <2>3
<1>5. Len(r) = Len(s) - 1 /\ DOMAIN r = 1 .. Len(s) - 1
  BY <1>1, <1>2, <1>4
<1>6. ASSUME NEW j \in 1 .. Len(s) - 1 PROVE r[j] = IF j < i THEN s[j] ELSE s[j + 1]
  <2>1. CASE j < i
    <3>1. j \in 1 .. i - 1 /\ j <= Len(a) /\ j \in 1 .. Len(r)
      BY <1>1, <1>5, <2>1
    <3> QED
      BY <1>1, <1>4, <2>1, <3>1
  <2>2. CASE j >= i
    <3>1. j - Len(a) \in 1 .. Len(s) - i /\ ~(j <= Len(a)) /\ i + (j - Len(a)) = j + 1 /\ j \in 1 .. Len(r)
      BY <1>1, <1>5, <2>2
    <3>2. r[j] = b[j - Len(a)] /\ b[j - Len(a)] = s[i + (j - Len(a))]
      BY <1>2, <1>4, <3>1
    <3> QED
      BY <2>2, <3>1, <3>2
  <2> QED
    BY <2>1, <2>2
<1> QED
  BY <1>4, <1>5, <1>6

\* What is left of the runs is about the same diagram, which may have been drawn.
LEMMA RunLeaves ==
    ASSUME NEW d \in Diagrams, OneRunCounts(d), NEW i \in DOMAIN d.runs,
           NEW e \in Diagrams, e.runs = RemoveAt(d.runs, i), e.text = d.text, e.theme = d.theme
    PROVE  /\ OneRunCounts(e)
           /\ d.runs[i].cancelled /\ NoneCounts(e) => NoneCounts(d)
<1> DEFINE s == d.runs
           r == e.runs
<1>1. s \in Seq(DrawingRuns) /\ DOMAIN s = 1 .. Len(s) /\ Len(s) \in Nat /\ i \in 1 .. Len(s)
  BY DiagramFields
<1>2. /\ r \in Seq(DrawingRuns) /\ Len(r) = Len(s) - 1 /\ DOMAIN r = 1 .. Len(s) - 1
      /\ \A j \in 1 .. Len(s) - 1 : r[j] = IF j < i THEN s[j] ELSE s[j + 1]
  BY <1>1, RunGoes
<1>3. ASSUME NEW j \in DOMAIN r, ~r[j].cancelled
      PROVE  /\ j = Len(r) /\ e.text # NoText
             /\ r[j].text = e.text /\ r[j].theme = e.theme
  <2>1. CASE j < i
    <3>1. r[j] = s[j] /\ j \in DOMAIN s /\ j # Len(s)
      BY <1>1, <1>2, <2>1
    <3> QED
      BY <1>3, <3>1 DEF OneRunCounts
  <2>2. CASE j >= i
    <3>1. r[j] = s[j + 1] /\ j + 1 \in DOMAIN s
      BY <1>1, <1>2, <2>2
    <3>2. j + 1 = Len(s) /\ d.text # NoText /\ s[j + 1].text = d.text /\ s[j + 1].theme = d.theme
      BY <1>3, <3>1 DEF OneRunCounts
    <3> QED
      BY <1>1, <1>2, <3>1, <3>2
  <2> QED
    BY <1>1, <1>2, <2>1, <2>2
<1>4. ASSUME d.runs[i].cancelled, NoneCounts(e), NEW j \in DOMAIN s PROVE s[j].cancelled
  <2>1. CASE j < i
    <3>1. j \in DOMAIN r /\ r[j] = s[j]
      BY <1>1, <1>2, <2>1
    <3> QED
      BY <1>4, <3>1 DEF NoneCounts
  <2>2. CASE j = i
    BY <1>4, <2>2
  <2>3. CASE j > i
    <3>1. j - 1 \in 1 .. Len(s) - 1 /\ ~(j - 1 < i) /\ (j - 1) + 1 = j
      BY <1>1, <2>3
    <3>2. j - 1 \in DOMAIN r /\ r[j - 1] = s[j]
      BY <1>2, <3>1
    <3> QED
      BY <1>4, <3>2 DEF NoneCounts
  <2> QED
    BY <1>1, <2>1, <2>2, <2>3
<1> QED
  BY <1>3, <1>4 DEF OneRunCounts, NoneCounts

LEMMA RunsCancelled ==
    ASSUME NEW s \in Seq(DrawingRuns), NEW cs, cs = [i \in DOMAIN s |-> [s[i] EXCEPT !.cancelled = TRUE]]
    PROVE  cs \in Seq(DrawingRuns) /\ Len(cs) = Len(s) /\ \A i \in DOMAIN cs : cs[i].cancelled
<1>1. DOMAIN s = 1 .. Len(s) /\ Len(s) \in Nat /\ \A i \in DOMAIN s : s[i] \in DrawingRuns
  OBVIOUS
<1>2. \A r \in DrawingRuns : [r EXCEPT !.cancelled = TRUE] \in DrawingRuns /\ [r EXCEPT !.cancelled = TRUE].cancelled
  BY DEF DrawingRuns
<1>3. DOMAIN cs = 1 .. Len(s) /\ \A i \in 1 .. Len(s) : cs[i] = [s[i] EXCEPT !.cancelled = TRUE]
  BY <1>1
<1>4. \A i \in 1 .. Len(s) : cs[i] \in DrawingRuns /\ cs[i].cancelled
  BY <1>1, <1>2, <1>3
<1>5. cs = [i \in 1 .. Len(s) |-> cs[i]]
  BY <1>1
<1> HIDE DEF DrawingRuns
<1>6. cs \in Seq(DrawingRuns) /\ Len(cs) = Len(s)
  BY <1>1, <1>3, <1>4, <1>5
<1> QED
  BY <1>3, <1>4, <1>6

LEMMA DrawIsSound ==
    ASSUME DiagramSound, NEW text \in Writings, NEW theme \in Colours, Draw(text, theme)
    PROVE  DiagramSound'
<1> DEFINE cs == [i \in DOMAIN diagram.runs |-> [diagram.runs[i] EXCEPT !.cancelled = TRUE]]
           run == [text |-> text, theme |-> theme, stage |-> "import", cancelled |-> FALSE]
           rs == Append(cs, run)
<1>0. diagram \in Diagrams /\ diagram.runs \in Seq(DrawingRuns) /\ NotBoth(diagram)
  BY DiagramFields DEF DiagramSound
<1>1. cs \in Seq(DrawingRuns) /\ \A i \in DOMAIN cs : cs[i].cancelled
  BY <1>0, RunsCancelled
<1>2. run \in DrawingRuns /\ run.text = text /\ run.theme = theme /\ ~run.cancelled
  BY DEF DrawingRuns
<1>3. /\ text = NoText => diagram' = [diagram EXCEPT !.text = NoText, !.theme = theme, !.runs = cs,
                                                     !.svg = NoDrawing, !.error = NoText]
      /\ text # NoText => diagram' = [diagram EXCEPT !.text = text, !.theme = theme, !.runs = rs]
  BY DEF Draw, NoText
<1>4. /\ rs \in Seq(DrawingRuns) /\ Len(rs) \in Nat \ {0} /\ DOMAIN rs = 1 .. Len(rs)
      /\ rs[Len(rs)] = run
      /\ \A i \in DOMAIN rs : i = Len(rs) \/ (i \in DOMAIN cs /\ rs[i] = cs[i])
  BY <1>1, <1>2
<1> HIDE DEF cs, run, rs
<1>5. CASE text = NoText
  <2>1. /\ diagram' \in Diagrams /\ diagram'.text = NoText /\ diagram'.runs = cs
        /\ diagram'.svg = NoDrawing /\ diagram'.error = NoText
    <3> DEFINE blank == NoText
    <3>1. diagram' = [diagram EXCEPT !.text = blank, !.theme = theme, !.runs = cs, !.svg = NoDrawing, !.error = blank]
      BY <1>3, <1>5
    <3>2. blank \in Writings /\ blank = NoText /\ NoDrawing \in Drawings
      BY DrawingFields
    <3> HIDE DEF blank
    <3> QED
      BY <1>0, <1>1, <3>1, <3>2 DEF Diagrams
  <2> QED
    BY <1>1, <2>1 DEF DiagramSound, OneRunCounts, Drawn, NotBoth
<1>6. CASE text # NoText
  <2>1. /\ diagram' \in Diagrams /\ diagram'.text = text /\ diagram'.theme = theme /\ diagram'.runs = rs
        /\ diagram'.svg = diagram.svg /\ diagram'.error = diagram.error
    <3>1. diagram' = [diagram EXCEPT !.text = text, !.theme = theme, !.runs = rs]
      BY <1>3, <1>6
    <3> QED
      BY <1>0, <1>4, <3>1 DEF Diagrams
  <2>2. OneRunCounts(diagram')
    BY <1>1, <1>2, <1>4, <1>6, <2>1 DEF OneRunCounts
  <2>3. ~NoneCounts(diagram') /\ NotBoth(diagram')
    BY <1>0, <1>2, <1>4, <2>1 DEF NoneCounts, NotBoth
  <2> QED
    BY <2>1, <2>2, <2>3 DEF DiagramSound
<1> QED
  BY <1>5, <1>6

\* A cancelled run goes, and nothing is drawn by it.
LEMMA CancelledGoes ==
    ASSUME DiagramSound, NEW i \in DOMAIN diagram.runs, diagram.runs[i].cancelled,
           diagram' = [diagram EXCEPT !.runs = RemoveAt(@, i)]
    PROVE  DiagramSound'
<1> DEFINE rs == RemoveAt(diagram.runs, i)
<1>0. diagram \in Diagrams /\ i \in 1 .. Len(diagram.runs) /\ diagram.runs \in Seq(DrawingRuns)
  BY DiagramFields DEF DiagramSound
<1>1. rs \in Seq(DrawingRuns) /\ diagram' = [diagram EXCEPT !.runs = rs]
  BY <1>0, RunGoes
<1>2. rs = RemoveAt(diagram.runs, i)
  OBVIOUS
<1> HIDE DEF rs
<1>3. /\ diagram' \in Diagrams /\ diagram'.text = diagram.text /\ diagram'.theme = diagram.theme
      /\ diagram'.runs = rs /\ diagram'.svg = diagram.svg /\ diagram'.error = diagram.error
  BY <1>0, <1>1 DEF Diagrams
<1>4. OneRunCounts(diagram') /\ (NoneCounts(diagram') => NoneCounts(diagram))
  BY <1>0, <1>2, <1>3, RunLeaves DEF DiagramSound
<1> QED
  BY <1>3, <1>4 DEF DiagramSound, Drawn, NotBoth

\* The run that counts is over: what it drew is there, or its error.
LEMMA LastIsDone ==
    ASSUME DiagramSound, NEW i \in DOMAIN diagram.runs, ~diagram.runs[i].cancelled,
           NEW p \in Drawings, NEW x \in Writings,
           \/ p = Drawing(diagram.runs[i].text, diagram.runs[i].theme) /\ x = NoText
           \/ p = NoDrawing /\ x = diagram.runs[i].text,
           diagram' = [diagram EXCEPT !.runs = RemoveAt(@, i), !.svg = p, !.error = x]
    PROVE  DiagramSound'
<1> DEFINE rs == RemoveAt(diagram.runs, i)
<1>0. diagram \in Diagrams /\ i \in 1 .. Len(diagram.runs) /\ diagram.runs \in Seq(DrawingRuns)
  BY DiagramFields DEF DiagramSound
<1>1. rs \in Seq(DrawingRuns) /\ diagram' = [diagram EXCEPT !.runs = rs, !.svg = p, !.error = x]
  BY <1>0, RunGoes
<1>2. rs = RemoveAt(diagram.runs, i)
  OBVIOUS
<1> HIDE DEF rs
<1>3. /\ diagram' \in Diagrams /\ diagram'.text = diagram.text /\ diagram'.theme = diagram.theme
      /\ diagram'.runs = rs /\ diagram'.svg = p /\ diagram'.error = x
  BY <1>0, <1>1 DEF Diagrams
<1>4. OneRunCounts(diagram')
  BY <1>0, <1>2, <1>3, RunLeaves DEF DiagramSound
<1>5. /\ diagram.text # NoText
      /\ diagram.runs[i].text = diagram.text /\ diagram.runs[i].theme = diagram.theme
  BY DEF DiagramSound, OneRunCounts
<1>6. Drawn(diagram') /\ NotBoth(diagram')
  BY <1>3, <1>5 DEF Drawn, NotBoth
<1> QED
  BY <1>3, <1>4, <1>6 DEF DiagramSound

LEMMA ImportedIsSound ==
    ASSUME DiagramSound, NEW i \in DOMAIN diagram.runs, Imported(i)
    PROVE  DiagramSound'
<1>0. diagram \in Diagrams /\ diagram.runs \in Seq(DrawingRuns) /\ diagram.runs[i] \in DrawingRuns
  BY DiagramFields DEF DiagramSound
<1>1. CASE diagram.runs[i].cancelled
  BY <1>1, CancelledGoes DEF Imported
<1>2. CASE ~diagram.runs[i].cancelled
  <2> DEFINE r == [diagram.runs[i] EXCEPT !.stage = "render"]
             rs == [diagram.runs EXCEPT ![i] = r]
  <2>1. diagram' = [diagram EXCEPT !.runs = rs]
    <3>1. diagram' = [diagram EXCEPT !.runs[i].stage = "render"]
      BY <1>2 DEF Imported
    <3>2. [diagram EXCEPT !.runs[i].stage = "render"] = [diagram EXCEPT !.runs = rs]
      BY <1>0 DEF Diagrams
    <3> QED
      BY <3>1, <3>2
  <2>2. /\ r \in DrawingRuns /\ r.text = diagram.runs[i].text /\ r.theme = diagram.runs[i].theme /\ ~r.cancelled
    BY <1>0, <1>2 DEF DrawingRuns
  <2> HIDE DEF r
  <2>3. /\ rs \in Seq(DrawingRuns) /\ Len(rs) = Len(diagram.runs) /\ DOMAIN rs = DOMAIN diagram.runs /\ rs[i] = r
        /\ \A j \in DOMAIN rs : j # i => rs[j] = diagram.runs[j]
    BY <1>0, <2>2
  <2> HIDE DEF rs
  <2>4. /\ diagram' \in Diagrams /\ diagram'.text = diagram.text /\ diagram'.theme = diagram.theme
        /\ diagram'.runs = rs /\ diagram'.svg = diagram.svg /\ diagram'.error = diagram.error
    BY <1>0, <2>1, <2>3 DEF Diagrams
  <2>5. OneRunCounts(diagram')
    <3> SUFFICES ASSUME NEW j \in DOMAIN rs, ~rs[j].cancelled
                 PROVE  j = Len(rs) /\ diagram.text # NoText /\ rs[j].text = diagram.text /\ rs[j].theme = diagram.theme
      BY <2>4 DEF OneRunCounts
    <3>1. ~diagram.runs[j].cancelled /\ rs[j].text = diagram.runs[j].text /\ rs[j].theme = diagram.runs[j].theme
      BY <1>2, <2>2, <2>3
    <3> QED
      BY <2>3, <3>1 DEF DiagramSound, OneRunCounts
  <2>6. ~NoneCounts(diagram') /\ NotBoth(diagram')
    BY <2>2, <2>3, <2>4 DEF NoneCounts, NotBoth, DiagramSound
  <2> QED
    BY <2>4, <2>5, <2>6 DEF DiagramSound
<1> QED
  BY <1>1, <1>2

LEMMA DiagramIsSound ==
    ASSUME DiagramSound,
           \/ ThemeChanges \/ \E text \in {"", "graph", "bad"} : ContentChanges(text)
           \/ \E i \in DOMAIN diagram.runs : Imported(i) \/ Rendered(i) \/ DrawingFails(i)
    PROVE  DiagramSound'
<1>0. diagram \in Diagrams /\ diagram.text \in Writings /\ diagram.theme \in Colours
  BY DiagramFields DEF DiagramSound
<1>1. CASE ThemeChanges
  <2> DEFINE theme == IF diagram.theme = "light" THEN "dark" ELSE "light"
  <2>1. theme \in Colours /\ Draw(diagram.text, theme)
    BY <1>1, ThemesAreColours DEF ThemeChanges
  <2> HIDE DEF theme
  <2> QED
    BY <1>0, <2>1, DrawIsSound
<1>2. ASSUME NEW text \in Writings, ContentChanges(text) PROVE DiagramSound'
  BY <1>0, <1>2, DrawIsSound DEF ContentChanges
<1>3. ASSUME NEW i \in DOMAIN diagram.runs, Rendered(i) PROVE DiagramSound'
  <2>1. diagram.runs[i].text \in Writings /\ diagram.runs[i].theme \in Colours
    BY <1>0, DiagramFields, DrawingFields
  <2>2. CASE diagram.runs[i].cancelled
    BY <1>3, <2>2, CancelledGoes DEF Rendered, AfterDrawing
  <2>3. CASE ~diagram.runs[i].cancelled
    <3> DEFINE p == Drawing(diagram.runs[i].text, diagram.runs[i].theme)
    <3>1. diagram' = [diagram EXCEPT !.runs = RemoveAt(@, i), !.svg = p, !.error = NoText]
      BY <1>3, <2>3 DEF Rendered, AfterDrawing, NoText, Drawing
    <3>2. p \in Drawings /\ NoText \in Writings /\ p = Drawing(diagram.runs[i].text, diagram.runs[i].theme)
      BY <2>1, DrawingFields
    <3> HIDE DEF p
    <3> QED
      BY <2>3, <3>1, <3>2, LastIsDone
  <2> QED
    BY <2>2, <2>3
<1>4. ASSUME NEW i \in DOMAIN diagram.runs, DrawingFails(i) PROVE DiagramSound'
  <2>1. diagram.runs[i].text \in Writings /\ NoDrawing \in Drawings
    BY <1>0, DiagramFields, DrawingFields
  <2>2. CASE diagram.runs[i].cancelled
    BY <1>4, <2>2, CancelledGoes DEF DrawingFails
  <2>3. CASE ~diagram.runs[i].cancelled
    <3>1. diagram' = [diagram EXCEPT !.runs = RemoveAt(@, i), !.svg = NoDrawing, !.error = diagram.runs[i].text]
      BY <1>4, <2>3 DEF DrawingFails
    <3> QED
      BY <2>1, <2>3, <3>1, LastIsDone
  <2> QED
    BY <2>2, <2>3
<1> QED
  BY <1>1, <1>2, <1>3, <1>4, ImportedIsSound DEF Writings

-----------------------------------------------------------------------------
(* The poster and the shared image *)

LEMMA PosterIsSound ==
    ASSUME PosterSound, CaptureFrame \/ \E source \in 1 .. 2, given \in BOOLEAN : ShowVideo(source, given)
    PROVE  PosterSound'
<1>1. poster \in [source : 1 .. 2, given : BOOLEAN, captured : 0 .. 2]
  BY DEF PosterSound
<1>2. CASE CaptureFrame
  BY <1>1, <1>2 DEF PosterSound, PosterIsOwn, CaptureFrame
<1>3. ASSUME NEW source \in 1 .. 2, NEW given \in BOOLEAN, ShowVideo(source, given) PROVE PosterSound'
  BY <1>3 DEF PosterSound, PosterIsOwn, ShowVideo
<1> QED
  BY <1>2, <1>3

LEMMA ShareIsSound ==
    ASSUME ShareSound, OpenShare \/ CloseShare \/ HandleDownload \/ AssetsReady \/ ImageDrawn \/ ImageFails
    PROVE  ShareSound'
<1> DEFINE Shares == [openings : Nat, open : BOOLEAN, rendering : Renderings, files : SUBSET Renderings]
<1>1. share \in Shares /\ \A f \in share.files : f.whole
  BY DEF ShareSound, FilesAreWhole
<1>2. ASSUME share' \in Shares, \A f \in share'.files : f.whole PROVE ShareSound'
  BY <1>2 DEF ShareSound, FilesAreWhole
<1>3. share.rendering \in Renderings /\ share.openings \in Nat /\ share.open \in BOOLEAN /\ share.files \subseteq Renderings
  BY <1>1
<1>4. NoRendering \in Renderings
  BY DEF NoRendering, Renderings
<1>5. CASE OpenShare
  <2> DEFINE m == share.openings + 1
             open == TRUE
  <2>1. m \in Nat /\ open \in BOOLEAN /\ share' = [share EXCEPT !.open = open, !.openings = m]
    BY <1>3, <1>5 DEF OpenShare
  <2> HIDE DEF m, open
  <2>2. share' \in Shares /\ share'.files = share.files
    BY <1>1, <2>1
  <2> QED
    BY <1>1, <1>2, <2>2
<1>10. CASE CloseShare
  <2> DEFINE open == FALSE
  <2>1. open \in BOOLEAN /\ share' = [share EXCEPT !.open = open]
    BY <1>10 DEF CloseShare
  <2> HIDE DEF open
  <2>2. share' \in Shares /\ share'.files = share.files
    BY <1>1, <2>1
  <2> QED
    BY <1>1, <1>2, <2>2
<1>6. CASE HandleDownload
  <2> DEFINE r == [stage |-> "assets", opening |-> share.openings, whole |-> FALSE]
  <2>1. r \in Renderings /\ share' = [share EXCEPT !.rendering = r]
    BY <1>3, <1>6 DEF HandleDownload, Renderings
  <2> HIDE DEF r
  <2>2. share' \in Shares /\ share'.files = share.files
    BY <1>1, <2>1
  <2> QED
    BY <1>1, <1>2, <2>2
<1>7. CASE AssetsReady
  <2> DEFINE b == share.open /\ share.rendering.opening = share.openings
             r == [share.rendering EXCEPT !.stage = "draw", !.whole = b]
  <2>1. r \in Renderings
    BY <1>3 DEF Renderings
  <2>2. share' = [share EXCEPT !.rendering = r]
    <3>1. share' = [share EXCEPT !.rendering.stage = "draw", !.rendering.whole = b]
      BY <1>7 DEF AssetsReady
    <3> HIDE DEF b
    <3>2. [share EXCEPT !.rendering.stage = "draw", !.rendering.whole = b] = [share EXCEPT !.rendering = r]
      BY <1>1
    <3> QED
      BY <3>1, <3>2
  <2> HIDE DEF r, b
  <2>3. share' \in Shares /\ share'.files = share.files
    BY <1>1, <2>1, <2>2
  <2> QED
    BY <1>1, <1>2, <2>3
<1>8. CASE ImageDrawn
  <2> DEFINE fs == FilesWith(share.rendering)
  <2>1. share' = [share EXCEPT !.rendering = NoRendering, !.files = fs]
    BY <1>8 DEF ImageDrawn
  <2>2. fs \subseteq Renderings /\ \A f \in fs : f.whole
    BY <1>1, <1>3 DEF FilesWith
  <2> HIDE DEF fs
  <2>3. share' \in Shares /\ share'.files = fs
    BY <1>1, <1>4, <2>1, <2>2
  <2> QED
    BY <1>2, <2>2, <2>3
<1>9. CASE ImageFails
  <2>1. share' = [share EXCEPT !.rendering = NoRendering]
    BY <1>9 DEF ImageFails
  <2>2. share' \in Shares /\ share'.files = share.files
    BY <1>1, <1>4, <2>1
  <2> QED
    BY <1>1, <1>2, <2>2
<1> QED
  BY <1>5, <1>6, <1>7, <1>8, <1>9, <1>10

-----------------------------------------------------------------------------
(* Altogether *)

ElementActs ==
    \/ ElementStarts \/ ElementFails \/ ElementAdvances \/ AtEnd \/ TogglePlayback \/ AudioTask \/ MotionTask
    \/ \E t \in 0 .. End : HandleSeek(t)
    \/ \E b \in BOOLEAN : SetMotionActive(b) \/ ChangePhoto(b)
PosterActs == CaptureFrame \/ \E source \in 1 .. 2, given \in BOOLEAN : ShowVideo(source, given)
WaveActs ==
    StreamStarts \/ StreamEnds \/ \E n \in DOMAIN wave.runs : ContextResumes(n) \/ ContextRefuses(n) \/ WaveTick(n)
CodeActs ==
    \/ MountBlock \/ UnmountBlock \/ SystemThemeFlips \/ HandleCopy \/ CopiedEnds
    \/ \E theme \in {"light", "dark", "system"} : PickTheme(theme)
    \/ \E i \in DOMAIN code.imports : StyleImported(i) \/ StyleFails(i)
DiagramActs ==
    \/ ThemeChanges \/ \E text \in {"", "graph", "bad"} : ContentChanges(text)
    \/ \E i \in DOMAIN diagram.runs : Imported(i) \/ Rendered(i) \/ DrawingFails(i)
ShareActs == OpenShare \/ CloseShare \/ HandleDownload \/ AssetsReady \/ ImageDrawn \/ ImageFails

LEMMA ElementIsSound == ASSUME ElementSound, ElementActs PROVE ElementSound'
<1>1. ASSUME NEW b \in BOOLEAN, SetMotionActive(b) PROVE ElementSound'
  <2>1. CASE b
    BY <1>1, <2>1, StartPlaybackIsSound
  <2>2. CASE ~b
    BY <1>1, <2>2, StopPlaybackIsSound
  <2> QED
    BY <2>1, <2>2
<1> QED
  BY <1>1, StartsIsSound, FailsIsSound, AdvancesIsSound, AtEndIsSound, ToggleIsSound, AudioTaskIsSound,
     MotionTaskIsSound, SeekIsSound, ChangeIsSound DEF ElementActs

\* What one medium does leaves the others alone.
ElementRests == UNCHANGED <<medium, element, button, motion>>
CodeRests == UNCHANGED <<code, copy>>

LEMMA MediaApart ==
    /\ ElementActs => UNCHANGED <<poster, wave, code, copy, diagram, share>>
    /\ PosterActs => ElementRests /\ CodeRests /\ UNCHANGED <<wave, diagram, share>>
    /\ WaveActs => ElementRests /\ CodeRests /\ UNCHANGED <<poster, diagram, share>>
    /\ CodeActs => ElementRests /\ UNCHANGED <<poster, wave, diagram, share>>
    /\ DiagramActs => ElementRests /\ CodeRests /\ UNCHANGED <<poster, wave, share>>
    /\ ShareActs => ElementRests /\ CodeRests /\ UNCHANGED <<poster, wave, diagram>>
<1>1. ElementActs => UNCHANGED <<poster, wave, code, copy, diagram, share>>
  BY DEF ElementActs, ElementStarts, ElementFails, ElementAdvances, AtEnd, TogglePlayback, AudioTask, MotionTask,
         HandleSeek, SetMotionActive, ChangePhoto, ElementKept
<1>2. PosterActs => ElementRests /\ CodeRests /\ UNCHANGED <<wave, diagram, share>>
  BY DEF PosterActs, CaptureFrame, ShowVideo, Poke, Answer, ElementRests, CodeRests
<1>3. WaveActs => ElementRests /\ CodeRests /\ UNCHANGED <<poster, diagram, share>>
  BY DEF WaveActs, StreamStarts, StreamEnds, ContextResumes, ContextRefuses, WaveTick, WaveKept, Poke, Answer,
         ElementRests, CodeRests
<1>4. CodeActs => ElementRests /\ UNCHANGED <<poster, wave, diagram, share>>
  BY DEF CodeActs, MountBlock, UnmountBlock, SystemThemeFlips, HandleCopy, CopiedEnds, PickTheme, StyleImported,
         StyleFails, CodeKept, Poke, Upset, Answer, ElementRests
<1>5. DiagramActs => ElementRests /\ CodeRests /\ UNCHANGED <<poster, wave, share>>
  BY DEF DiagramActs, ThemeChanges, ContentChanges, Imported, Rendered, DrawingFails, DiagramKept, Poke, Upset,
         Answer, ElementRests, CodeRests
<1>6. ShareActs => ElementRests /\ CodeRests /\ UNCHANGED <<poster, wave, diagram>>
  BY DEF ShareActs, OpenShare, CloseShare, HandleDownload, AssetsReady, ImageDrawn, ImageFails, ShareKept, Poke,
         Upset, Answer, ElementRests, CodeRests
<1> QED
  BY <1>1, <1>2, <1>3, <1>4, <1>5, <1>6

LEMMA MediaKept ==
    /\ ElementSound /\ ElementRests => ElementSound'
    /\ PosterSound /\ UNCHANGED poster => PosterSound'
    /\ WaveSound /\ UNCHANGED wave => WaveSound'
    /\ CodeSound /\ CodeRests => CodeSound'
    /\ DiagramSound /\ UNCHANGED diagram => DiagramSound'
    /\ ShareSound /\ UNCHANGED share => ShareSound'
<1>1. ElementSound /\ ElementRests => ElementSound'
  BY DEF ElementSound, ElementRests, ElementTyped, ButtonSound, StillSound, AtRest, AnswersKnown, Plays
<1>2. PosterSound /\ UNCHANGED poster => PosterSound'
  BY DEF PosterSound, PosterIsOwn
<1>3. WaveSound /\ UNCHANGED wave => WaveSound'
  BY DEF WaveSound
<1>4. CodeSound /\ CodeRests => CodeSound'
  BY DEF CodeSound, CodeRests
<1>5. DiagramSound /\ UNCHANGED diagram => DiagramSound'
  BY DEF DiagramSound
<1>6. ShareSound /\ UNCHANGED share => ShareSound'
  BY DEF ShareSound, FilesAreWhole
<1> QED
  BY <1>1, <1>2, <1>3, <1>4, <1>5, <1>6

LEMMA MediaSoundKept == MediaSound /\ [MediaNext]_mediaVars => MediaSound'
<1> SUFFICES ASSUME MediaSound, [MediaNext]_mediaVars PROVE MediaSound'
  OBVIOUS
<1>0. ElementSound /\ PosterSound /\ WaveSound /\ CodeSound /\ DiagramSound /\ ShareSound
  BY DEF MediaSound
<1>1. CASE ElementActs
  BY <1>0, <1>1, ElementIsSound, MediaApart, MediaKept DEF MediaSound, CodeRests
<1>2. CASE PosterActs
  <2>1. PosterSound'
    BY <1>0, <1>2, PosterIsSound DEF PosterActs
  <2> QED
    BY <1>0, <1>2, <2>1, MediaApart, MediaKept DEF MediaSound
<1>3. CASE WaveActs
  <2>1. WaveSound'
    BY <1>0, <1>3, WaveIsSound DEF WaveActs
  <2> QED
    BY <1>0, <1>3, <2>1, MediaApart, MediaKept DEF MediaSound
<1>4. CASE CodeActs
  <2>1. CodeSound'
    BY <1>0, <1>4, CodeIsSound DEF CodeActs
  <2> QED
    BY <1>0, <1>4, <2>1, MediaApart, MediaKept DEF MediaSound
<1>5. CASE DiagramActs
  <2>1. DiagramSound'
    BY <1>0, <1>5, DiagramIsSound DEF DiagramActs
  <2> QED
    BY <1>0, <1>5, <2>1, MediaApart, MediaKept DEF MediaSound
<1>6. CASE ShareActs
  <2>1. ShareSound'
    BY <1>0, <1>6, ShareIsSound DEF ShareActs
  <2> QED
    BY <1>0, <1>6, <2>1, MediaApart, MediaKept DEF MediaSound
<1>7. CASE UNCHANGED mediaVars
  BY <1>0, <1>7, MediaKept DEF MediaSound, mediaVars, ElementRests, CodeRests
<1>8. MediaNext => ElementActs \/ PosterActs \/ WaveActs \/ CodeActs \/ DiagramActs \/ ShareActs
  BY DEF MediaNext, ElementActs, PosterActs, WaveActs, CodeActs, DiagramActs, ShareActs
<1> QED
  BY <1>1, <1>2, <1>3, <1>4, <1>5, <1>6, <1>7, <1>8

LEMMA MediaSoundAtFirst == MediaInit => MediaSound
<1> SUFFICES ASSUME MediaInit PROVE MediaSound
  OBVIOUS
<1>1. ElementSound
  <2>1. /\ element.tasks = <<>> /\ element.paused /\ ~element.waiting /\ ~element.broken
        /\ ~motion.active /\ ~motion.shown /\ ~motion.late /\ motion.starts = 0
        /\ ~button.playing /\ button.time = 0 /\ element.at = 0
    BY DEF MediaInit
  <2>2. element \in Elements
    <3> DEFINE ts == <<>>
               t == 0
    <3>1. ts \in Seq(Tasks) /\ t \in 0 .. End
      BY EmptyQueue DEF End
    <3>2. element = [paused |-> TRUE, waiting |-> FALSE, tasks |-> ts, at |-> t, broken |-> FALSE]
      BY DEF MediaInit
    <3> HIDE DEF ts, t
    <3> QED
      BY <3>1, <3>2 DEF Elements
  <2>3. ElementTyped
    <3>1. button \in [playing : BOOLEAN, time : 0 .. End]
      <4> DEFINE playing == FALSE
                 t == 0
      <4>1. playing \in BOOLEAN /\ t \in 0 .. End
        BY DEF End
      <4>2. button = [playing |-> playing, time |-> t]
        BY DEF MediaInit
      <4> HIDE DEF playing, t
      <4> QED
        BY <4>1, <4>2
    <3>2. motion \in [active : BOOLEAN, shown : BOOLEAN, starts : Nat, late : BOOLEAN]
      BY DEF MediaInit
    <3> QED
      BY <2>2, <3>1, <3>2 DEF ElementTyped
  <2>4. ButtonSound
    BY <2>1, EmptyQueue DEF ButtonSound, WillSay
  <2>5. AtRest /\ AnswersKnown
    BY <2>1, EmptyQueue DEF AtRest, AnswersKnown, Plays
  <2> QED
    BY <2>3, <2>4, <2>5 DEF ElementSound, StillSound
<1>2. PosterSound
  <2> DEFINE n == 1
             given == FALSE
             z == 0
  <2>1. n \in 1 .. 2 /\ given \in BOOLEAN /\ z \in 0 .. 2 /\ z = 0
    OBVIOUS
  <2>2. poster = [source |-> n, given |-> given, captured |-> z]
    BY DEF MediaInit
  <2> HIDE DEF n, given, z
  <2>3. poster \in [source : 1 .. 2, given : BOOLEAN, captured : 0 .. 2] /\ poster.captured = 0
    BY <2>1, <2>2
  <2> QED
    BY <2>3 DEF PosterSound, PosterIsOwn
<1>3. WaveSound
  <2> DEFINE z == 0
             runs == <<>>
  <2>1. z \in Nat /\ z = 0 /\ runs \in Seq(WaveRuns) /\ runs = <<>>
    OBVIOUS
  <2>2. wave = [stream |-> z, runs |-> runs, levels |-> z]
    BY DEF MediaInit
  <2> HIDE DEF z, runs
  <2>3. wave \in Waves /\ wave.runs = <<>> /\ wave.stream = 0 /\ wave.levels = 0
    BY <2>1, <2>2 DEF Waves
  <2> QED
    BY <2>3 DEF WaveSound
<1>4. CodeSound
  <2> DEFINE none == <<>>
             system == "system"
             light == "light"
             mixed == FALSE
  <2>1. /\ none \in Seq(Colours) /\ system \in Colours /\ light \in Colours
        /\ NoTheme \in Colours /\ mixed \in BOOLEAN
    BY ThemesAreColours DEF Colours
  <2>2. code = [chosen |-> system, system |-> light, blocks |-> none, styles |-> none, imports |-> none,
                wanted |-> NoTheme, mixed |-> mixed]
    BY DEF MediaInit
  <2> HIDE DEF none, system, light, mixed
  <2>3. code \in Codes /\ code.wanted = NoTheme
    BY <2>1, <2>2 DEF Codes
  <2>4. copy \in [copied : BOOLEAN, timers : Nat] /\ ~copy.copied
    BY DEF MediaInit
  <2> QED
    BY <2>3, <2>4 DEF CodeSound, Coloured
<1>5. DiagramSound
  <2> DEFINE blank == NoText
             light == "light"
  <2>1. diagram = [text |-> blank, theme |-> light, runs |-> <<>>, svg |-> NoDrawing, error |-> blank]
    BY DEF MediaInit, NoText
  <2>2. blank \in Writings /\ light \in Colours /\ NoDrawing \in Drawings /\ blank = NoText
    BY DrawingFields, ThemesAreColours
  <2> HIDE DEF blank, light
  <2>3. /\ diagram \in Diagrams /\ diagram.text = NoText /\ diagram.runs = <<>>
        /\ diagram.svg = NoDrawing /\ diagram.error = NoText
    BY <2>1, <2>2 DEF Diagrams
  <2> QED
    BY <2>3 DEF DiagramSound, OneRunCounts, Drawn, NotBoth
<1>6. ShareSound
  BY DEF MediaInit, ShareSound, FilesAreWhole, NoRendering, Renderings
<1> QED
  BY <1>1, <1>2, <1>3, <1>4, <1>5, <1>6 DEF MediaSound

LEMMA MediaSoundShows == MediaSound => MediaIsShown
<1> SUFFICES ASSUME MediaSound PROVE MediaIsShown
  OBVIOUS
<1>0. ElementSound /\ PosterSound /\ WaveSound /\ CodeSound /\ DiagramSound /\ ShareSound
  BY DEF MediaSound
<1>1. ButtonTells
  <2> SUFFICES ASSUME medium = "audio", element.tasks = <<>>, ~element.broken
               PROVE  /\ button.playing = ~element.paused
                      /\ button.time = element.at \/ (element.at = End /\ button.time = 0)
    BY DEF ButtonTells
  <2>1. button.playing \in BOOLEAN
    BY <1>0, MotionFields DEF ElementSound
  <2>2. /\ WillSay(<<>>, button.playing, ~element.paused)
        /\ button.time = element.at \/ (element.at = End /\ button.time = 0)
    BY <1>0, EmptyQueue DEF ElementSound, ButtonSound
  <2>3. button.playing <=> ~element.paused
    BY <2>2 DEF WillSay
  <2> QED
    BY <2>1, <2>2, <2>3
<1>2. StillReturns
  <2> SUFFICES ASSUME medium = "motion", element.tasks = <<>>, ~element.broken, ~motion.late
               PROVE  motion.shown <=> motion.active /\ ~element.paused /\ ~element.waiting
    BY DEF StillReturns
  <2>1. AnswersKnown
    BY <1>0 DEF ElementSound, StillSound
  <2>2. motion.shown <=> Plays
    BY <2>1, EmptyQueue DEF AnswersKnown
  <2> QED
    BY <2>2 DEF Plays
<1>3. PosterIsOwn /\ WaveIsLive /\ FilesAreWhole
  BY <1>0 DEF PosterSound, WaveSound, WaveIsLive, ShareSound
<1>4. CodeIsColoured
  BY <1>0 DEF CodeSound, Coloured, CodeIsColoured
<1>5. DiagramIsCurrent
  BY <1>0 DEF DiagramSound, DiagramIsCurrent, NoneCounts, Drawn, NotBoth, Drawing, NoText
<1> QED
  BY <1>1, <1>2, <1>3, <1>4, <1>5 DEF MediaIsShown

\* For any number of clicks and failures, in any order of what the browser answers: what a control
\* says, what covers a photo, what moves, and the colours, diagrams and images shown are those of
\* what is played, recorded, chosen and written now (AudioAttachmentItem, MotionPhotoPlayer,
\* VideoPoster, useAudioWaveform, CodeBlock, MermaidBlock, createMemoShareImageBlob).
THEOREM MediaShowWhatIs == MediaSpec => []MediaIsShown
<1> QED
  BY MediaSoundAtFirst, MediaSoundKept, MediaSoundShows, PTL DEF MediaSpec

-----------------------------------------------------------------------------
(* The page of a memo *)

Requests == {"pin", "bookmark", "tick", "state", "react", "delete", "edit", "comment", "share"}
Shown == {"pin", "bookmark", "tick", "state"}  \* those whose outcome is shown before the answer
Calls == [op : Requests \cup {"none"}, on : Cards, from : Memo, at : {"idle", "sent", "granted", "refused"},
          answer : Memo]

PageTyped ==
    /\ visitor \in Visitors /\ page \in MemoPages /\ shared \in BOOLEAN
    /\ store \in [Cards -> Memo] /\ card \in [Cards -> Memo] /\ call \in Calls
    /\ opened \in Cards \cup {"none", "comment"} /\ behind \subseteq Cards

\* A comment is written and changed where it can be seen.
Placed ==
    /\ opened \in {"reply", "comment"} => page \in {"memo", "link"}
    /\ call.on = "reply" \/ call.op = "comment" => page \in {"memo", "link"}
    /\ page = "lost" => opened = "none" /\ call = NoCall /\ \A c \in Cards : ~card[c].there
    /\ call.op \in {"comment", "state"} => call.on = "memo"
    /\ call.op = "none" => call = NoCall
    /\ call.at = "idle" => call = NoCall

\* What a copy of the memo, or of its comment, can be.
KnownMemo(m) ==
    /\ m.by = "owner"
    /\ m.there /\ m.visibility = "private" /\ page # "link" => visitor \in {"owner", "admin"}
    /\ m.there /\ page \in {"home", "archived"} => visitor = "owner"
KnownReply(m) == m.there /\ m.visibility = "private" => visitor = m.by

CopiesKnown ==
    /\ store["memo"].by = "owner"
    /\ KnownMemo(card["memo"]) /\ KnownReply(card["reply"])
    /\ call.on = "memo" => KnownMemo(call.from)
    /\ call.on = "reply" => KnownReply(call.from)
    /\ page = "link" => ~card["memo"].archived
    /\ call.op = "state" /\ page # "memo" /\ visitor # "owner" => ~call.from.archived

\* What an answer brings if nobody else has changed anything.
AnswerFits ==
    call.at = "granted" =>
        /\ call.on \notin behind => call.answer = store[call.on]
        /\ call.on = "memo" => call.answer.by = "owner"
        /\ call.on = "memo" /\ call.op \in Shown => visitor \in {"owner", "admin"}
        /\ call.op = "state" /\ "memo" \notin behind =>
               store["memo"].there /\ (store["memo"].archived <=> ~call.from.archived)

\* The card as it is without what is shown in advance.
Undone(c) == IF call.on = c /\ call.op \in Shown /\ Shows(c) THEN call.from ELSE card[c]

\* Changed by a request, and to be fetched with its answer.
Unsettled(c) ==
    /\ call.at = "granted" /\ call.op # "share"
    /\ call.on = c \/ (c = "reply" /\ (call.op = "comment" \/ (call.op = "state" /\ page = "memo")))

MemoFollows ==
    /\ "memo" \notin behind /\ ~Unsettled("memo") /\ ReadAccess(store["memo"])
    /\ page = "memo" \/ (page \notin {"link", "lost"} /\ Undone("memo").there)
    => Undone("memo") = store["memo"]
ReplyFollows ==
    "reply" \notin behind /\ ~Unsettled("reply") /\ Readable("reply") /\ page # "lost" => Undone("reply") = store["reply"]

PageSound == PageTyped /\ Placed /\ CopiesKnown /\ AnswerFits /\ MemoFollows /\ ReplyFollows

-----------------------------------------------------------------------------

LEMMA MemoFields ==
    \A m \in Memo : /\ m.there \in BOOLEAN /\ m.by \in Visitors \ {"guest"} /\ m.visibility \in Visibilities
                    /\ m.archived \in BOOLEAN /\ m.pinned \in BOOLEAN /\ m.text \in 0 .. 1 /\ m.reacted \in BOOLEAN
BY DEF Memo

LEMMA NothingKnown == NoMemo \in Memo /\ ~NoMemo.there /\ NoMemo.by = "owner" /\ ~NoMemo.archived
<1> DEFINE z == 0
           f == FALSE
           by == "owner"
           private == "private"
<1>1. z \in 0 .. 1 /\ f \in BOOLEAN /\ by \in Visitors \ {"guest"} /\ private \in Visibilities
  BY DEF Visitors, Visibilities
<1>2. NoMemo = [there |-> f, by |-> by, visibility |-> private, archived |-> f, pinned |-> f, text |-> z, reacted |-> f]
  BY DEF NoMemo
<1>3. ~f /\ by = "owner"
  OBVIOUS
<1> HIDE DEF z, f, by, private
<1> QED
  BY <1>1, <1>2, <1>3 DEF Memo

LEMMA ReplyFields ==
    ASSUME NEW by \in Visitors \ {"guest"}, NEW visibility \in Visibilities
    PROVE  Reply(by, visibility) \in Memo /\ Reply(by, visibility).by = by
<1> DEFINE t == TRUE
<1>1. t \in BOOLEAN /\ Reply(by, visibility) = [NoMemo EXCEPT !.there = t, !.by = by, !.visibility = visibility]
  BY DEF Reply
<1> HIDE DEF t
<1> QED
  BY <1>1, NothingKnown DEF Memo

LEMMA PatchedFields ==
    ASSUME NEW op, NEW m \in Memo
    PROVE  /\ Patched(op, m) \in Memo
           /\ Patched(op, m).by = m.by /\ Patched(op, m).visibility = m.visibility
           /\ Patched(op, m).there = m.there
           /\ op # "state" => Patched(op, m).archived = m.archived
           /\ op \notin Shown => Patched(op, m) = m
<1> DEFINE p == Patched(op, m)
<1>0. m.pinned \in BOOLEAN /\ m.text \in 0 .. 1 /\ m.archived \in BOOLEAN
  BY MemoFields
<1>1. CASE op = "pin"
  <2> DEFINE v == ~m.pinned
  <2>1. p = [m EXCEPT !.pinned = v] /\ v \in BOOLEAN
    BY <1>0, <1>1 DEF Patched
  <2> HIDE DEF v, p
  <2>2. p \in Memo /\ p.by = m.by /\ p.visibility = m.visibility /\ p.there = m.there /\ p.archived = m.archived
    BY <2>1 DEF Memo
  <2> QED
    BY <1>1, <2>2 DEF Shown, p
<1>2. CASE op = "bookmark"
  <2> DEFINE v == FALSE
  <2>1. p = [m EXCEPT !.pinned = v] /\ v \in BOOLEAN
    BY <1>2 DEF Patched
  <2> HIDE DEF v, p
  <2>2. p \in Memo /\ p.by = m.by /\ p.visibility = m.visibility /\ p.there = m.there /\ p.archived = m.archived
    BY <2>1 DEF Memo
  <2> QED
    BY <1>2, <2>2 DEF Shown, p
<1>3. CASE op = "tick"
  <2> DEFINE v == 1 - m.text
  <2>1. p = [m EXCEPT !.text = v] /\ v \in 0 .. 1
    BY <1>0, <1>3 DEF Patched
  <2> HIDE DEF v, p
  <2>2. p \in Memo /\ p.by = m.by /\ p.visibility = m.visibility /\ p.there = m.there /\ p.archived = m.archived
    BY <2>1 DEF Memo
  <2> QED
    BY <1>3, <2>2 DEF Shown, p
<1>4. CASE op = "state"
  <2> DEFINE v == ~m.archived
  <2>1. p = [m EXCEPT !.archived = v] /\ v \in BOOLEAN
    BY <1>0, <1>4 DEF Patched
  <2> HIDE DEF v, p
  <2>2. p \in Memo /\ p.by = m.by /\ p.visibility = m.visibility /\ p.there = m.there
    BY <2>1 DEF Memo
  <2> QED
    BY <1>4, <2>2 DEF Shown, p
<1>5. CASE op \notin Shown
  <2>1. p = m
    BY <1>5 DEF Patched, Shown
  <2> QED
    BY <1>5, <2>1 DEF Shown
<1> QED
  BY <1>1, <1>2, <1>3, <1>4, <1>5 DEF Shown

LEMMA CallFields ==
    /\ \A r \in Calls : /\ r.op \in Requests \cup {"none"} /\ r.on \in Cards /\ r.from \in Memo /\ r.answer \in Memo
                        /\ r.at \in {"idle", "sent", "granted", "refused"}
    /\ NoCall \in Calls /\ NoCall.op = "none" /\ NoCall.on = "memo" /\ NoCall.from = NoMemo /\ NoCall.at = "idle"
    /\ NoCall.answer = NoMemo
<1>1. \A r \in Calls : /\ r.op \in Requests \cup {"none"} /\ r.on \in Cards /\ r.from \in Memo /\ r.answer \in Memo
                       /\ r.at \in {"idle", "sent", "granted", "refused"}
  BY DEF Calls
<1>2. /\ NoCall.op = "none" /\ NoCall.on = "memo" /\ NoCall.from = NoMemo /\ NoCall.at = "idle"
      /\ NoCall.answer = NoMemo
  BY DEF NoCall
<1>3. NoCall \in Calls
  <2> DEFINE none == "none"
             memo == "memo"
             idle == "idle"
  <2>1. none \in Requests \cup {"none"} /\ memo \in Cards /\ idle \in {"idle", "sent", "granted", "refused"}
    BY DEF Cards
  <2>2. NoCall = [op |-> none, on |-> memo, from |-> NoMemo, at |-> idle, answer |-> NoMemo]
    BY DEF NoCall
  <2> HIDE DEF none, memo, idle
  <2> QED
    BY <2>1, <2>2, NothingKnown DEF Calls
<1> QED
  BY <1>1, <1>2, <1>3

\* Access to the memo does not depend on anything but the fields of it.
LEMMA FetchedFields ==
    ASSUME PageTyped, store["memo"].by = "owner", NEW p \in MemoPages \ {"lost"}, Found(p)
    PROVE  /\ Fetched(p) \in Memo /\ Fetched(p).by = "owner"
           /\ p # "link" /\ Fetched(p).there => ReadAccess(store["memo"]) /\ Fetched(p) = store["memo"]
           /\ p = "memo" => Fetched(p) = store["memo"]
           /\ p = "link" => ~Fetched(p).archived
           /\ p \in {"home", "archived"} /\ Fetched(p).there => visitor = "owner"
<1>1. store["memo"] \in Memo /\ store["memo"].there \in BOOLEAN /\ store["memo"].archived \in BOOLEAN
  BY MemoFields DEF PageTyped, Cards
<1>2. CASE p = "link"
  <2>1. Fetched(p) = store["memo"] /\ ~store["memo"].archived
    BY <1>2 DEF Fetched, Found
  <2> QED
    BY <1>1, <1>2, <2>1
<1>3. CASE p = "profile"
  <2>1. Fetched(p) = IF ReadAccess(store["memo"]) /\ ~store["memo"].archived THEN store["memo"] ELSE NoMemo
    BY <1>3 DEF Fetched
  <2> QED
    BY <1>1, <1>3, <2>1, NothingKnown
<1>4. CASE p \in {"home", "archived"}
  <2>1. Fetched(p) = IF visitor = store["memo"].by /\ store["memo"].archived = (p = "archived") THEN store["memo"] ELSE NoMemo
    BY <1>4 DEF Fetched
  <2>2. visitor = "owner" /\ store["memo"].there => ReadAccess(store["memo"])
    BY DEF ReadAccess
  <2> QED
    BY <1>1, <1>4, <2>1, <2>2, NothingKnown
<1>5. CASE p = "memo"
  <2>1. Fetched(p) = IF ReadAccess(store["memo"]) THEN store["memo"] ELSE NoMemo
    BY <1>5 DEF Fetched
  <2>2. ReadAccess(store["memo"])
    BY <1>5 DEF Found
  <2> QED
    BY <1>1, <1>5, <2>1, <2>2
<1> QED
  BY <1>2, <1>3, <1>4, <1>5 DEF MemoPages

LEMMA FetchedReplyFields ==
    ASSUME PageTyped, NEW before \in Memo, KnownReply(before)
    PROVE  /\ FetchedReply(before) \in Memo /\ KnownReply(FetchedReply(before))
           /\ Readable("reply") => FetchedReply(before) = store["reply"]
<1>1. store["reply"] \in Memo
  BY DEF PageTyped, Cards
<1>2. CASE ~ReadAccess(store["memo"])
  <2>1. FetchedReply(before) = before
    BY <1>2 DEF FetchedReply
  <2> QED
    BY <1>2, <2>1 DEF Readable
<1>3. CASE ReadAccess(store["memo"]) /\ ReadAccess(store["reply"])
  <2>1. FetchedReply(before) = store["reply"]
    BY <1>3 DEF FetchedReply
  <2> QED
    BY <1>1, <1>3, <2>1 DEF KnownReply, ReadAccess
<1>4. CASE ReadAccess(store["memo"]) /\ ~ReadAccess(store["reply"])
  <2>1. FetchedReply(before) = NoMemo
    BY <1>4 DEF FetchedReply
  <2> QED
    BY <1>4, <2>1, NothingKnown DEF KnownReply, Readable
<1> QED
  BY <1>2, <1>3, <1>4

\* Without a request under way the cards are what they are.
LEMMA NothingAsked ==
    ASSUME call' = NoCall
    PROVE  /\ call'.op \notin Shown /\ call'.on = "memo" /\ call'.at = "idle" /\ ~call'.from.there
           /\ call'.from.by = "owner" /\ ~call'.from.archived
           /\ KnownMemo(call.from)' /\ call'.op = "none"
           /\ \A c : Undone(c)' = card'[c] /\ ~Unsettled(c)'
<1>1. /\ call'.op \notin Shown /\ call'.on = "memo" /\ call'.at = "idle" /\ ~call'.from.there
      /\ call'.from.by = "owner" /\ ~call'.from.archived /\ call'.op = "none"
  BY CallFields, NothingKnown DEF Shown
<1>2. KnownMemo(call.from)'
  BY <1>1 DEF KnownMemo
<1>3. \A c : Undone(c)' = card'[c] /\ ~Unsettled(c)'
  BY <1>1 DEF Undone, Unsettled
<1> QED
  BY <1>1, <1>2, <1>3

\* What the page shows is sound if it follows the store wherever nobody else has changed anything.
LEMMA SoundAtRest ==
    ASSUME PageTyped', call' = NoCall, store'["memo"].by = "owner",
           opened' \in {"reply", "comment"} => page' \in {"memo", "link"},
           page' = "lost" => opened' = "none" /\ \A c \in Cards : ~card'[c].there,
           KnownMemo(card["memo"])', KnownReply(card["reply"])',
           page' = "link" => ~card'["memo"].archived,
           /\ "memo" \notin behind' /\ ReadAccess(store["memo"])'
           /\ page' = "memo" \/ (page' \notin {"link", "lost"} /\ card'["memo"].there)
           => card'["memo"] = store'["memo"],
           "reply" \notin behind' /\ Readable("reply")' /\ page' # "lost" => card'["reply"] = store'["reply"]
    PROVE  PageSound'
<1>1. Placed'
  BY NothingAsked DEF Placed
<1>2. CopiesKnown'
  BY NothingAsked DEF CopiesKnown
<1>3. AnswerFits'
  BY NothingAsked DEF AnswerFits
<1>4. MemoFollows' /\ ReplyFollows'
  BY NothingAsked DEF MemoFollows, ReplyFollows
<1> QED
  BY <1>1, <1>2, <1>3, <1>4 DEF PageSound

LEMMA PageIsFetched ==
    ASSUME PageSound, NEW p \in MemoPages \ {"lost"}, ShowPage(p), UNCHANGED <<visitor, shared, store>>,
           call' = NoCall, Catch
    PROVE  PageSound'
<1>0. PageTyped /\ Placed /\ store["memo"].by = "owner" /\ KnownReply(card["reply"]) /\ card["reply"] \in Memo
  BY DEF PageSound, CopiesKnown, PageTyped, Cards
<1>1. behind' \subseteq behind /\ call' \in Calls /\ store' = store /\ visitor' = visitor
  BY CallFields DEF Catch
<1>2. CASE ~Found(p)
  <2>1. page' = "lost" /\ card' = [c \in Cards |-> NoMemo] /\ (opened' = opened \/ opened' = "none")
    BY <1>2 DEF ShowPage
  <2>2. opened' = "none"
    BY <1>0, <2>1 DEF ShowPage, Placed
  <2>3. card'["memo"] = NoMemo /\ card'["reply"] = NoMemo /\ \A c \in Cards : card'[c] = NoMemo
    BY <2>1 DEF Cards
  <2>4. PageTyped'
    BY <1>0, <1>1, <2>1, <2>2, NothingKnown DEF PageTyped, MemoPages
  <2>5. KnownMemo(card["memo"])' /\ KnownReply(card["reply"])'
    BY <2>3, NothingKnown DEF KnownMemo, KnownReply
  <2> QED
    BY <1>0, <1>1, <2>1, <2>2, <2>3, <2>4, <2>5, NothingKnown, SoundAtRest
<1>3. CASE Found(p)
  <2> DEFINE before == IF p = page THEN card["reply"] ELSE NoMemo
             m == Fetched(p)
             r == FetchedReply(before)
  <2>1. page' = p /\ card' = [memo |-> m, reply |-> r] /\ opened' = IF p = page THEN opened ELSE "none"
    BY <1>3 DEF ShowPage
  <2>2. before \in Memo /\ KnownReply(before)
    BY <1>0, NothingKnown DEF KnownReply
  <2>3. /\ m \in Memo /\ m.by = "owner"
        /\ p # "link" /\ m.there => ReadAccess(store["memo"]) /\ m = store["memo"]
        /\ p = "memo" => m = store["memo"]
        /\ p = "link" => ~m.archived
        /\ p \in {"home", "archived"} /\ m.there => visitor = "owner"
    BY <1>0, <1>3, FetchedFields
  <2> HIDE DEF before, m
  <2>4. r \in Memo /\ KnownReply(r) /\ (Readable("reply") => r = store["reply"])
    BY <1>0, <2>2, FetchedReplyFields
  <2> HIDE DEF r
  <2>5. card'["memo"] = m /\ card'["reply"] = r /\ card' \in [Cards -> Memo]
    BY <2>1, <2>3, <2>4 DEF Cards
  <2>6. PageTyped'
    <3>1. opened' \in Cards \cup {"none", "comment"}
      BY <1>0, <2>1 DEF PageTyped
    <3> QED
      BY <1>0, <1>1, <2>1, <2>5, <3>1 DEF PageTyped
  <2>7. m.there /\ p # "link" /\ m.visibility = "private" => visitor = "owner"
    BY <2>3 DEF ReadAccess
  <2>8. KnownMemo(card["memo"])' /\ KnownReply(card["reply"])'
    BY <1>1, <2>1, <2>3, <2>4, <2>5, <2>7 DEF KnownMemo, KnownReply
  <2>9. ReadAccess(store["memo"])' = ReadAccess(store["memo"]) /\ Readable("reply")' = Readable("reply")
    BY <1>1 DEF ReadAccess, Readable
  <2>10. opened' \in {"reply", "comment"} => page' \in {"memo", "link"}
    BY <1>0, <2>1 DEF Placed
  <2> QED
    BY <1>0, <1>1, <2>1, <2>3, <2>4, <2>5, <2>6, <2>8, <2>9, <2>10, SoundAtRest
<1> QED
  BY <1>2, <1>3

\* A card that has been fetched is no longer behind.
LEMMA CaughtUp ==
    ASSUME Catch, NEW c \in Cards
    PROVE  c \notin behind' => c \notin behind \/ card'[c] = store'[c]
BY DEF Catch

LEMMA RefreshIsSound ==
    ASSUME PageSound, UNCHANGED <<visitor, shared, store, opened>>, call' = NoCall, Catch, page # "lost",
           call.op # "comment", call.op = "state" => page # "memo",
           NEW answer \in Memo, Refresh(answer),
           call.on = "memo" /\ page = "memo" =>
               KnownMemo(answer) /\ ("memo" \notin behind => answer = store["memo"])
    PROVE  PageSound'
<1>0. /\ PageTyped /\ Placed /\ store["memo"].by = "owner" /\ KnownMemo(card["memo"]) /\ KnownReply(card["reply"])
      /\ card["reply"] \in Memo /\ card["memo"] \in Memo /\ (page = "link" => ~card["memo"].archived)
      /\ call.on \in Cards /\ page \in MemoPages
  BY CallFields DEF PageSound, CopiesKnown, PageTyped, Cards
<1>1. /\ behind' \subseteq behind /\ call' \in Calls /\ store' = store /\ visitor' = visitor /\ page' = page
      /\ opened' = opened
  BY CallFields DEF Catch, Refresh
<1>2. ReadAccess(store["memo"])' = ReadAccess(store["memo"]) /\ Readable("reply")' = Readable("reply")
  BY <1>1 DEF ReadAccess, Readable
<1>3. opened' \in {"reply", "comment"} => page' \in {"memo", "link"}
  BY <1>0, <1>1 DEF Placed
<1>4. ASSUME NEW m \in Memo, NEW r \in Memo, card' = [[card EXCEPT !["memo"] = m] EXCEPT !["reply"] = r],
             KnownMemo(m), KnownReply(r), page = "link" => ~m.archived,
             /\ "memo" \notin behind' /\ ReadAccess(store["memo"])
             /\ page = "memo" \/ (page \notin {"link", "lost"} /\ m.there)
             => m = store["memo"],
             "reply" \notin behind' /\ Readable("reply") => r = store["reply"]
      PROVE  PageSound'
  <2>1. card' \in [Cards -> Memo] /\ card'["memo"] = m /\ card'["reply"] = r
    BY <1>0, <1>4 DEF PageTyped, Cards
  <2>2. PageTyped'
    BY <1>0, <1>1, <2>1 DEF PageTyped
  <2>3. KnownMemo(card["memo"])' /\ KnownReply(card["reply"])'
    BY <1>1, <1>4, <2>1 DEF KnownMemo, KnownReply
  <2> QED
    BY <1>0, <1>1, <1>2, <1>3, <1>4, <2>1, <2>2, <2>3, SoundAtRest
<1>5. call.on = "reply" => Undone("memo") = card["memo"] /\ ~Unsettled("memo")
  BY DEF Undone, Unsettled
<1>6. call.on = "memo" => Undone("reply") = card["reply"] /\ ~Unsettled("reply")
  BY DEF Undone, Unsettled
<1>7. "reply" \notin behind' => "reply" \notin behind \/ card'["reply"] = store["reply"]
  BY <1>1, CaughtUp DEF Cards
<1>8. "memo" \notin behind' => "memo" \notin behind \/ card'["memo"] = store["memo"]
  BY <1>1, CaughtUp DEF Cards
<1>9. card = [[card EXCEPT !["memo"] = card["memo"]] EXCEPT !["reply"] = card["reply"]]
  BY <1>0 DEF PageTyped, Cards
<1>10. /\ call.on = "reply" /\ "memo" \notin behind /\ ReadAccess(store["memo"])
       /\ page = "memo" \/ (page \notin {"link", "lost"} /\ card["memo"].there)
       => card["memo"] = store["memo"]
  BY <1>5 DEF PageSound, MemoFollows
<1>11. call.on = "memo" /\ "reply" \notin behind /\ Readable("reply") => card["reply"] = store["reply"]
  BY <1>6 DEF PageSound, ReplyFollows
<1>12. CASE call.on = "reply"
  <2> DEFINE r == FetchedReply(card["reply"])
  <2>1. card' = [card EXCEPT !["reply"] = r]
    BY <1>12 DEF Refresh
  <2>2. r \in Memo /\ KnownReply(r) /\ (Readable("reply") => r = store["reply"])
    BY <1>0, FetchedReplyFields
  <2> HIDE DEF r
  <2>3. card' = [[card EXCEPT !["memo"] = card["memo"]] EXCEPT !["reply"] = r] /\ card'["memo"] = card["memo"]
    BY <1>0, <2>1 DEF PageTyped, Cards
  <2> QED
    BY <1>0, <1>4, <1>8, <1>10, <1>12, <2>2, <2>3
<1>13. ASSUME call.on = "memo", NEW m \in Memo, card' = [card EXCEPT !["memo"] = m], KnownMemo(m),
              page = "link" => ~m.archived,
              /\ "memo" \notin behind' /\ ReadAccess(store["memo"])
              /\ page = "memo" \/ (page \notin {"link", "lost"} /\ m.there)
              => m = store["memo"]
       PROVE  PageSound'
  <2>1. card' = [[card EXCEPT !["memo"] = m] EXCEPT !["reply"] = card["reply"]] /\ card'["reply"] = card["reply"]
    BY <1>0, <1>13 DEF PageTyped, Cards
  <2> QED
    BY <1>0, <1>4, <1>7, <1>11, <1>13, <2>1
<1>14. CASE call.on = "memo" /\ page = "memo"
  <2>1. card' = [card EXCEPT !["memo"] = answer]
    BY <1>14 DEF Refresh
  <2>2. card'["memo"] = answer
    BY <1>0, <2>1 DEF PageTyped, Cards
  <2> QED
    BY <1>8, <1>13, <1>14, <2>1, <2>2
<1>15. CASE call.on = "memo" /\ page = "link"
  <2>1. card' = card
    BY <1>15 DEF Refresh
  <2>2. card' = [card EXCEPT !["memo"] = card["memo"]]
    BY <1>0, <2>1 DEF PageTyped, Cards
  <2> QED
    BY <1>0, <1>13, <1>15, <2>2
<1>16. CASE call.on = "memo" /\ page \notin {"memo", "link"}
  <2> DEFINE m == Fetched(page)
  <2>1. card' = [card EXCEPT !["memo"] = m]
    BY <1>16 DEF Refresh
  <2>2. Found(page)
    BY <1>16 DEF Found
  <2>3. /\ m \in Memo /\ m.by = "owner" /\ (m.there => ReadAccess(store["memo"]) /\ m = store["memo"])
        /\ page \in {"home", "archived"} /\ m.there => visitor = "owner"
    BY <1>0, <1>16, <2>2, FetchedFields
  <2> HIDE DEF m
  <2>4. KnownMemo(m)
    BY <2>3 DEF KnownMemo, ReadAccess
  <2> QED
    BY <1>13, <1>16, <2>1, <2>3, <2>4
<1> QED
  BY <1>0, <1>12, <1>14, <1>15, <1>16 DEF Cards

\* The steps that end a request.

LEMMA UpdatedIsSound == ASSUME PageSound, UpdatedMemo PROVE PageSound'
<1>0. /\ PageTyped /\ Placed /\ CopiesKnown /\ AnswerFits /\ call.op \in Shown /\ call.op # "comment" /\ call.at = "granted"
      /\ call.answer \in Memo /\ call' = NoCall /\ Catch /\ UNCHANGED <<visitor, shared, store>> /\ call.on \in Cards
  BY CallFields DEF PageSound, PageTyped, UpdatedMemo, Shown
<1>1. page # "lost"
  BY <1>0, CallFields DEF Placed
<1>2. CASE call.op = "state" /\ page = "memo"
  <2>1. \E p \in {"home", "archived"} : ShowPage(p)
    BY <1>2 DEF UpdatedMemo
  <2>2. PICK p \in {"home", "archived"} : ShowPage(p)
    BY <2>1
  <2> QED
    BY <1>0, <2>2, PageIsFetched DEF MemoPages
<1>3. CASE ~(call.op = "state" /\ page = "memo")
  <2>1. Refresh(call.answer) /\ UNCHANGED opened
    BY <1>3 DEF UpdatedMemo
  <2>2. ASSUME call.on = "memo", page = "memo"
        PROVE  KnownMemo(call.answer) /\ ("memo" \notin behind => call.answer = store["memo"])
    BY <1>0, <2>2 DEF AnswerFits, KnownMemo
  <2> QED
    BY <1>0, <1>1, <1>3, <2>1, <2>2, RefreshIsSound
<1> QED
  BY <1>2, <1>3

LEMMA RemovedIsSound == ASSUME PageSound, Removed PROVE PageSound'
<1>0. /\ Placed /\ call.op = "delete" /\ call' = NoCall /\ Catch /\ UNCHANGED <<visitor, shared, store>>
  BY DEF PageSound, Removed
<1>1. page # "lost"
  BY <1>0, CallFields DEF Placed
<1>2. CASE call.on = "memo" /\ page = "memo"
  BY <1>0, <1>2, PageIsFetched DEF MemoPages, Removed
<1>3. CASE ~(call.on = "memo" /\ page = "memo")
  <2>1. Refresh(NoMemo) /\ UNCHANGED opened
    BY <1>3 DEF Removed
  <2> QED
    BY <1>0, <1>1, <1>3, <2>1, RefreshIsSound, NothingKnown
<1> QED
  BY <1>2, <1>3

\* Nothing is fetched, or what is fetched may not be read.
LEMMA UnchangedIsSound ==
    ASSUME PageSound, UNCHANGED <<visitor, page, shared, store>>, call' = NoCall, behind' \subseteq behind,
           \A c \in Cards : c \notin behind' => c \notin behind \/ card'[c] = store'[c],
           opened' = opened \/ opened' = "none" \/ (opened' \in Cards \cup {"comment"} /\ page # "lost" /\
                                                    (opened' \in {"reply", "comment"} => page \in {"memo", "link"})),
           card' \in [Cards -> Memo], \A c \in Cards : card'[c] = Undone(c),
           ReadAccess(store["memo"]) => ~Unsettled("memo"), Readable("reply") => ~Unsettled("reply")
    PROVE  PageSound'
<1>0. /\ PageTyped /\ Placed /\ CopiesKnown /\ MemoFollows /\ ReplyFollows /\ store["memo"].by = "owner"
  BY DEF PageSound, CopiesKnown
<1>1. /\ call' \in Calls /\ store' = store /\ visitor' = visitor /\ page' = page
      /\ card'["memo"] = Undone("memo") /\ card'["reply"] = Undone("reply")
  BY CallFields DEF Cards
<1>2. ReadAccess(store["memo"])' = ReadAccess(store["memo"]) /\ Readable("reply")' = Readable("reply")
  BY <1>1 DEF ReadAccess, Readable
<1>3. opened' \in {"reply", "comment"} => page' \in {"memo", "link"}
  BY <1>0, <1>1 DEF Placed
<1>4. PageTyped'
  <2>1. opened' \in Cards \cup {"none", "comment"}
    BY <1>0 DEF PageTyped
  <2> QED
    BY <1>0, <1>1, <2>1 DEF PageTyped
<1>5. KnownMemo(Undone("memo")) /\ KnownReply(Undone("reply"))
  BY <1>0 DEF CopiesKnown, Undone
<1>6. KnownMemo(card["memo"])' /\ KnownReply(card["reply"])'
  BY <1>1, <1>5 DEF KnownMemo, KnownReply
<1>7. page' = "lost" => opened' = "none" /\ \A c \in Cards : ~card'[c].there
  <2>1. page = "lost" => call.op \notin Shown /\ opened' = "none"
    BY <1>0, CallFields DEF Placed, Shown
  <2>2. page = "lost" => \A c \in Cards : Undone(c) = card[c]
    BY <2>1 DEF Undone
  <2> QED
    BY <1>0, <1>1, <2>1, <2>2 DEF Placed
<1>8. page' = "link" => ~card'["memo"].archived
  <2>1. page = "link" => Undone("memo") = card["memo"]
    BY DEF Undone, Shows
  <2> QED
    BY <1>0, <1>1, <2>1 DEF CopiesKnown
<1>9. "memo" \notin behind' => "memo" \notin behind \/ card'["memo"] = store'["memo"]
  BY DEF Cards
<1>10. "reply" \notin behind' => "reply" \notin behind \/ card'["reply"] = store'["reply"]
  BY DEF Cards
<1>11. /\ "memo" \notin behind' /\ ReadAccess(store["memo"])'
       /\ page' = "memo" \/ (page' \notin {"link", "lost"} /\ card'["memo"].there)
       => card'["memo"] = store'["memo"]
  BY <1>0, <1>1, <1>2, <1>9 DEF MemoFollows
<1>12. "reply" \notin behind' /\ Readable("reply")' /\ page' # "lost" => card'["reply"] = store'["reply"]
  BY <1>0, <1>1, <1>2, <1>10 DEF ReplyFollows
<1> QED
  BY <1>0, <1>1, <1>3, <1>4, <1>6, <1>7, <1>8, <1>11, <1>12, SoundAtRest

LEMMA ReactedIsSound == ASSUME PageSound, ReactedTo PROVE PageSound'
<1>0. /\ PageTyped /\ Placed /\ call.op = "react" /\ call' = NoCall /\ Catch /\ UNCHANGED <<visitor, shared, store, opened>>
      /\ call.on \in Cards /\ store["memo"] \in Memo /\ store["memo"].by = "owner"
  BY CallFields DEF PageSound, CopiesKnown, PageTyped, Cards, ReactedTo
<1>1. page # "lost"
  BY <1>0, CallFields DEF Placed
<1>2. CASE Readable(call.on)
  <2>1. Refresh(store["memo"])
    BY <1>2 DEF ReactedTo
  <2>2. KnownMemo(store["memo"]) \/ ~(page = "memo")
    BY <1>0, <1>2 DEF KnownMemo, Readable, ReadAccess
  <2> QED
    BY <1>0, <1>1, <2>1, <2>2, RefreshIsSound
<1>3. CASE ~Readable(call.on)
  <2>1. UNCHANGED <<card, page>>
    BY <1>3 DEF ReactedTo
  <2>2. \A c \in Cards : card'[c] = Undone(c)
    BY <1>0, <2>1 DEF Undone, Shown
  <2>3. ReadAccess(store["memo"]) => ~Unsettled("memo")
    BY <1>3 DEF Readable, Unsettled
  <2>4. Readable("reply") => ~Unsettled("reply")
    BY <1>0, <1>3 DEF Unsettled
  <2>5. behind' \subseteq behind /\ card' \in [Cards -> Memo]
    BY <1>0, <2>1 DEF Catch, PageTyped
  <2>6. \A c \in Cards : c \notin behind' => c \notin behind \/ card'[c] = store'[c]
    BY <1>0, CaughtUp
  <2> QED
    BY <1>0, <2>1, <2>2, <2>3, <2>4, <2>5, <2>6, UnchangedIsSound
<1> QED
  BY <1>2, <1>3

LEMMA SharedIsSound == ASSUME PageSound, Shared PROVE PageSound'
<1>1. call.op = "share" /\ call' = NoCall /\ UNCHANGED <<visitor, page, shared, store, card, opened, behind>>
  BY DEF Shared
<1>2. \A c \in Cards : card'[c] = Undone(c)
  BY <1>1 DEF Undone, Shown
<1>3. ~Unsettled("memo") /\ ~Unsettled("reply") /\ card \in [Cards -> Memo]
  BY <1>1 DEF Unsettled, PageSound, PageTyped
<1> QED
  BY <1>1, <1>2, <1>3, UnchangedIsSound

LEMMA RefusedIsSound == ASSUME PageSound, Refused PROVE PageSound'
<1>0. /\ PageTyped /\ call.at = "refused" /\ call' = NoCall /\ UNCHANGED <<visitor, page, shared, store, opened, behind>>
      /\ call.on \in Cards /\ call.from \in Memo
  BY CallFields DEF PageSound, PageTyped, Refused
<1>1. ~Unsettled("memo") /\ ~Unsettled("reply")
  BY <1>0 DEF Unsettled
<1>2. card' = IF call.op \in Shown /\ Shows(call.on) THEN [card EXCEPT ![call.on] = call.from] ELSE card
  BY DEF Refused, Shown
<1>3. card' \in [Cards -> Memo] /\ \A c \in Cards : card'[c] = Undone(c)
  BY <1>0, <1>2 DEF PageTyped, Undone
<1> QED
  BY <1>0, <1>1, <1>3, UnchangedIsSound

LEMMA SavedIsSound == ASSUME PageSound, SavedMemo PROVE PageSound'
<1>0. /\ PageTyped /\ Placed /\ CopiesKnown /\ MemoFollows /\ ReplyFollows
      /\ call.at = "granted" /\ call.op \in {"edit", "comment"} /\ call' = NoCall
      /\ Catch /\ UNCHANGED <<visitor, shared, store>> /\ opened' = "none"
      /\ call.on \in Cards /\ page \in MemoPages /\ call' \in Calls
  BY CallFields DEF PageSound, PageTyped, SavedMemo
<1>1. page # "lost" /\ (call.on = "reply" \/ call.op = "comment" => page \in {"memo", "link"}) /\ behind' \subseteq behind
  BY <1>0, CallFields DEF Placed, Catch
<1>2. CASE page = "memo"
  BY <1>0, <1>2, PageIsFetched DEF SavedMemo, MemoPages
<1>3. CASE page # "memo"
  <2>0. /\ page' = page /\ store' = store /\ visitor' = visitor /\ store["memo"].by = "owner"
        /\ card["memo"] \in Memo /\ card["reply"] \in Memo /\ KnownReply(card["reply"]) /\ KnownMemo(card["memo"])
    BY <1>0, <1>3 DEF SavedMemo, CopiesKnown, PageTyped, Cards
  <2>1. ReadAccess(store["memo"])' = ReadAccess(store["memo"]) /\ Readable("reply")' = Readable("reply")
    BY <2>0 DEF ReadAccess, Readable
  <2>2. CASE page = "link"
    <3> DEFINE r == FetchedReply(card["reply"])
    <3>1. card' = [card EXCEPT !["reply"] = r]
      BY <1>3, <2>2 DEF SavedMemo
    <3>2. r \in Memo /\ KnownReply(r) /\ (Readable("reply") => r = store["reply"])
      BY <1>0, <2>0, FetchedReplyFields
    <3> HIDE DEF r
    <3>3. card' \in [Cards -> Memo] /\ card'["memo"] = card["memo"] /\ card'["reply"] = r
      BY <1>0, <3>1, <3>2 DEF PageTyped, Cards
    <3>4. PageTyped'
      BY <1>0, <1>1, <2>0, <3>3 DEF PageTyped
    <3>5. KnownMemo(card["memo"])' /\ KnownReply(card["reply"])'
      BY <2>0, <3>2, <3>3 DEF KnownMemo, KnownReply
    <3> QED
      BY <1>0, <1>1, <2>0, <2>1, <2>2, <3>2, <3>3, <3>4, <3>5, SoundAtRest DEF CopiesKnown
  <2>3. CASE page # "link"
    <3> DEFINE m == Fetched(page)
    <3>1. card' = [card EXCEPT !["memo"] = m]
      BY <1>3, <2>3 DEF SavedMemo
    <3>2. Found(page)
      BY <1>3, <2>3 DEF Found
    <3>3. /\ m \in Memo /\ m.by = "owner" /\ (m.there => ReadAccess(store["memo"]) /\ m = store["memo"])
          /\ page \in {"home", "archived"} /\ m.there => visitor = "owner"
      BY <1>0, <1>1, <2>0, <2>3, <3>2, FetchedFields
    <3> HIDE DEF m
    <3>4. card' \in [Cards -> Memo] /\ card'["memo"] = m /\ card'["reply"] = card["reply"]
      BY <1>0, <3>1, <3>3 DEF PageTyped, Cards
    <3>5. PageTyped'
      BY <1>0, <1>1, <2>0, <3>4 DEF PageTyped
    <3>6. KnownMemo(m)
      BY <3>3 DEF KnownMemo, ReadAccess
    <3>7. KnownMemo(card["memo"])' /\ KnownReply(card["reply"])'
      BY <2>0, <3>4, <3>6 DEF KnownMemo, KnownReply
    <3>8. call.on = "memo" /\ call.op = "edit"
      BY <1>0, <1>1, <1>3, <2>3 DEF Cards
    <3>9. "reply" \notin behind' => "reply" \notin behind \/ card'["reply"] = store["reply"]
      BY <1>0, <2>0, CaughtUp DEF Cards
    <3>10. Undone("reply") = card["reply"] /\ ~Unsettled("reply")
      BY <3>8 DEF Undone, Unsettled
    <3>11. "reply" \notin behind' /\ Readable("reply") => card'["reply"] = store["reply"]
      BY <1>0, <1>1, <3>4, <3>9, <3>10 DEF ReplyFollows
    <3> QED
      BY <1>0, <1>1, <1>3, <2>0, <2>1, <2>3, <3>3, <3>4, <3>5, <3>7, <3>11, SoundAtRest
  <2> QED
    BY <2>2, <2>3
<1> QED
  BY <1>2, <1>3

\* What can be offered, and where.
LEMMA OfferedFields ==
    ASSUME NEW c \in Cards, NEW op \in Offered(c)
    PROVE  /\ op \in Requests /\ OnPage(c) /\ card["memo"].there /\ (c = "reply" => page \in {"memo", "link"})
           /\ op = "comment" => page \in {"memo", "link"} /\ c = "memo"
           /\ op = "state" => c = "memo"
<1>1. OnPage(c) /\ ~PreviewedMemo(c)
  BY DEF Offered
<1>2. op \in SidebarOffers(c) \cup SectionOffers(c) \cup MenuOffers(c) \cup HeaderOffers(c) \cup BodyOffers(c)
  BY DEF Offered
<1>3. /\ op \in Requests
      /\ op = "comment" => page \in {"memo", "link"} /\ c = "memo"
      /\ op = "state" => c = "memo"
  BY <1>2 DEF SidebarOffers, SectionOffers, MenuOffers, HeaderOffers, BodyOffers, Requests
<1> QED
  BY <1>1, <1>3 DEF OnPage, PreviewedMemo

LEMMA OpenIsSound == ASSUME PageSound, NEW c \in Cards, OpenCardEditor(c) PROVE PageSound'
<1>1. /\ call = NoCall /\ call' = NoCall /\ UNCHANGED <<visitor, page, shared, store, card, behind>>
      /\ ("edit" \in Offered(c) /\ opened' = c) \/ ("comment" \in Offered(c) /\ opened' = "comment")
  BY DEF OpenCardEditor
<1>2. card["memo"].there /\ opened' \in Cards \cup {"comment"} /\ (opened' \in {"reply", "comment"} => page \in {"memo", "link"})
  BY <1>1, OfferedFields DEF Cards
<1>3. page # "lost" /\ card \in [Cards -> Memo]
  BY <1>2 DEF PageSound, PageTyped, Placed, Cards
<1>4. call.op = "none" /\ call.at = "idle"
  BY <1>1, CallFields
<1>5. \A d \in Cards : card'[d] = Undone(d)
  BY <1>1, <1>4 DEF Undone, Shown
<1>6. ~Unsettled("memo") /\ ~Unsettled("reply")
  BY <1>4 DEF Unsettled
<1> QED
  BY <1>1, <1>2, <1>3, <1>5, <1>6, UnchangedIsSound

LEMMA CloseIsSound == ASSUME PageSound, CloseEditor PROVE PageSound'
<1>1. /\ call = NoCall /\ call' = NoCall /\ UNCHANGED <<visitor, page, shared, store, card, behind>> /\ opened' = "none"
  BY DEF CloseEditor
<1>3. card \in [Cards -> Memo]
  BY DEF PageSound, PageTyped
<1>4. call.op = "none" /\ call.at = "idle"
  BY <1>1, CallFields
<1>5. \A d \in Cards : card'[d] = Undone(d)
  BY <1>1, <1>4 DEF Undone, Shown
<1>6. ~Unsettled("memo") /\ ~Unsettled("reply")
  BY <1>4 DEF Unsettled
<1> QED
  BY <1>1, <1>3, <1>5, <1>6, UnchangedIsSound

LEMMA FetchIsSound == ASSUME PageSound, GotoMemoDetailPage \/ RefetchCards PROVE PageSound'
<1>1. page \in MemoPages
  BY DEF PageSound, PageTyped
<1>2. CASE GotoMemoDetailPage
  BY <1>2, PageIsFetched DEF GotoMemoDetailPage, MemoPages
<1>3. CASE RefetchCards
  BY <1>1, <1>3, PageIsFetched DEF RefetchCards
<1> QED
  BY <1>2, <1>3

\* A request goes out.
LEMMA SentIsSound ==
    ASSUME PageSound, NEW op \in Requests, NEW c \in Cards, SendCall(op, c), page # "lost",
           c = "reply" \/ op = "comment" => page \in {"memo", "link"},
           op \in {"comment", "state"} => c = "memo",
           op = "state" /\ page # "memo" /\ visitor # "owner" => ~card["memo"].archived
    PROVE  PageSound'
<1>0. /\ PageTyped /\ Placed /\ CopiesKnown /\ MemoFollows /\ ReplyFollows /\ call = NoCall
      /\ UNCHANGED <<visitor, page, shared, store, opened, behind>> /\ card[c] \in Memo /\ op # "none"
  BY DEF PageSound, PageTyped, SendCall, Requests
<1> DEFINE sent == "sent"
<1>1. call' \in Calls /\ call'.op = op /\ call'.on = c /\ call'.from = card[c] /\ call'.at = "sent"
  <2>1. sent \in {"idle", "sent", "granted", "refused"} /\ sent = "sent"
    OBVIOUS
  <2>2. call' = [NoCall EXCEPT !.op = op, !.on = c, !.from = card[c], !.at = sent]
    BY DEF SendCall
  <2> HIDE DEF sent
  <2> QED
    BY <1>0, <2>1, <2>2, CallFields DEF Calls
<1> DEFINE p == Patched(op, card[c])
<1>2. /\ p \in Memo /\ p.by = card[c].by /\ p.visibility = card[c].visibility /\ p.there = card[c].there
      /\ op \notin Shown => p = card[c]
  BY <1>0, PatchedFields
<1>3. card' = IF Shows(c) THEN [card EXCEPT ![c] = p] ELSE card
  BY DEF SendCall
<1> HIDE DEF p
<1>4. /\ card' \in [Cards -> Memo] /\ \A d \in Cards : d # c => card'[d] = card[d]
      /\ card'[c] = (IF Shows(c) THEN p ELSE card[c])
  BY <1>0, <1>2, <1>3 DEF PageTyped
<1>5. PageTyped'
  BY <1>0, <1>1, <1>4 DEF PageTyped
<1>6. \A d \in Cards : Undone(d)' = card[d]
  <2> SUFFICES ASSUME NEW d \in Cards PROVE Undone(d)' = card[d]
    OBVIOUS
  <2>1. Shows(d)' = Shows(d)
    BY <1>0 DEF Shows
  <2> QED
    BY <1>1, <1>2, <1>4, <2>1 DEF Undone
<1>7. \A d \in Cards : Undone(d) = card[d] /\ ~Unsettled(d) /\ ~Unsettled(d)'
  BY <1>0, <1>1, CallFields DEF Undone, Unsettled, Shown
<1>8. ReadAccess(store["memo"])' = ReadAccess(store["memo"]) /\ Readable("reply")' = Readable("reply")
  BY <1>0 DEF ReadAccess, Readable
<1>9. Placed'
  BY <1>0, <1>1 DEF Placed
<1>10. CopiesKnown'
  <2>1. /\ card'["memo"].by = card["memo"].by /\ card'["memo"].there = card["memo"].there
        /\ card'["memo"].visibility = card["memo"].visibility
        /\ card'["reply"].by = card["reply"].by /\ card'["reply"].there = card["reply"].there
        /\ card'["reply"].visibility = card["reply"].visibility
    BY <1>2, <1>4 DEF Cards
  <2>2. page = "link" => card'["memo"] = card["memo"]
    BY <1>4 DEF Shows, Cards
  <2>3. KnownMemo(card["memo"])' /\ KnownReply(card["reply"])'
    BY <1>0, <2>1 DEF CopiesKnown, KnownMemo, KnownReply
  <2>4. c = "memo" => KnownMemo(call.from)'
    BY <1>0, <1>1 DEF CopiesKnown, KnownMemo
  <2>5. c = "reply" => KnownReply(call.from)'
    BY <1>0, <1>1 DEF CopiesKnown, KnownReply
  <2> QED
    BY <1>0, <1>1, <2>2, <2>3, <2>4, <2>5 DEF CopiesKnown
<1>11. AnswerFits'
  BY <1>1 DEF AnswerFits
<1>12. MemoFollows'
  BY <1>0, <1>6, <1>7, <1>8 DEF MemoFollows, Cards
<1>13. ReplyFollows'
  BY <1>0, <1>6, <1>7, <1>8 DEF ReplyFollows, Cards
<1> QED
  BY <1>5, <1>9, <1>10, <1>11, <1>12, <1>13 DEF PageSound

LEMMA PressIsSound == ASSUME PageSound, NEW c \in Cards, Press(c) PROVE PageSound'
<1>1. PICK op \in Offered(c) \ {"edit", "comment"} : SendCall(op, c)
  BY DEF Press
<1>2. /\ op \in Requests /\ OnPage(c) /\ card["memo"].there /\ (c = "reply" => page \in {"memo", "link"})
      /\ op # "comment" /\ (op = "state" => c = "memo")
  BY <1>1, OfferedFields
<1>3. page # "lost" /\ Placed /\ CopiesKnown /\ page \in MemoPages
  BY <1>2 DEF PageSound, PageTyped, Placed, Cards
<1>4. page # "memo" /\ visitor # "owner" => ~card["memo"].archived
  BY <1>2, <1>3 DEF CopiesKnown, KnownMemo, OnPage, MemoPages
<1> QED
  BY <1>1, <1>2, <1>3, <1>4, SentIsSound

LEMMA SaveIsSound == ASSUME PageSound, SaveEditor PROVE PageSound'
<1>0. Placed
  BY DEF PageSound
<1>1. CASE opened \in Cards /\ OnPage(opened) /\ SendCall("edit", opened)
  <2>1. "edit" \in Requests /\ page # "lost"
    BY <1>0, <1>1 DEF OnPage, Placed, Cards, Requests
  <2> QED
    BY <1>0, <1>1, <2>1, SentIsSound DEF Placed
<1>2. CASE opened = "comment" /\ SendCall("comment", "memo")
  <2>1. "comment" \in Requests /\ page \in {"memo", "link"} /\ "memo" \in Cards
    BY <1>0, <1>2 DEF Placed, Cards, Requests
  <2> QED
    BY <1>2, <2>1, SentIsSound
<1> QED
  BY <1>1, <1>2 DEF SaveEditor

\* The server has a memo or a comment with other fields.
ChangedTo(m) ==
    /\ m \in Memo /\ Served(call) = [store EXCEPT ![call.on] = m]
    /\ m.there = store[call.on].there /\ m.by = store[call.on].by /\ m.visibility = store[call.on].visibility
    /\ call.op # "state" => m.archived = store[call.on].archived
    /\ call.op = "state" => store[call.on].there /\ (m.archived <=> ~call.from.archived)
    /\ call.op \notin {"delete", "comment", "share"}

\* What a request leaves of the two.
LEMMA ServedFields ==
    ASSUME PageSound, call.op # "none", Grants(call.op, call.on)
    PROVE  /\ Served(call) \in [Cards -> Memo] /\ Served(call)["memo"].by = "owner"
           /\ call.on = "reply" \/ call.op = "comment" => Served(call)["memo"] = store["memo"]
           /\ call.op = "share" => Served(call) = store
           /\ call.on = "memo" /\ call.op \notin {"delete", "comment"} => Served(call)["reply"] = store["reply"]
           /\ call.on = "memo" /\ call.op = "delete" => ~Served(call)["memo"].there
           /\ call.op = "state" => /\ Served(call)["memo"].there /\ store["memo"].there
                                   /\ Served(call)["memo"].archived <=> ~call.from.archived
           /\ call.op # "delete" => /\ Served(call)["memo"].there = store["memo"].there
                                    /\ Served(call)["memo"].visibility = store["memo"].visibility
           /\ call.op \notin {"delete", "state"} => Served(call)["memo"].archived = store["memo"].archived
<1> DEFINE s == Served(call)
           on == call.on
<1>0. /\ PageTyped /\ Placed /\ store["memo"].by = "owner" /\ on \in Cards /\ call.op \in Requests /\ call.from \in Memo
      /\ store[on] \in Memo /\ store["memo"] \in Memo
  BY CallFields DEF PageSound, CopiesKnown, PageTyped, Cards
<1>1. ASSUME NEW m, ChangedTo(m)
      PROVE  /\ s \in [Cards -> Memo] /\ s["memo"].by = "owner"
             /\ on = "reply" \/ call.op = "comment" => s["memo"] = store["memo"]
             /\ call.op = "share" => s = store
             /\ on = "memo" /\ call.op \notin {"delete", "comment"} => s["reply"] = store["reply"]
             /\ on = "memo" /\ call.op = "delete" => ~s["memo"].there
             /\ call.op = "state" => s["memo"].there /\ store["memo"].there /\ (s["memo"].archived <=> ~call.from.archived)
             /\ call.op # "delete" => s["memo"].there = store["memo"].there /\ s["memo"].visibility = store["memo"].visibility
             /\ call.op \notin {"delete", "state"} => s["memo"].archived = store["memo"].archived
  <2> HIDE DEF s
  <2>1. s \in [Cards -> Memo] /\ s[on] = m /\ \A c \in Cards : c # on => s[c] = store[c]
    BY <1>0, <1>1 DEF PageTyped, ChangedTo, s
  <2>2. call.op = "state" => on = "memo"
    BY <1>0 DEF Placed
  <2>3. CASE on = "memo"
    BY <1>0, <1>1, <2>1, <2>3 DEF Cards, ChangedTo
  <2>4. CASE on = "reply"
    BY <1>0, <1>1, <2>1, <2>2, <2>4 DEF Cards, ChangedTo
  <2> QED
    BY <1>0, <2>3, <2>4 DEF Cards
<1>2. CASE call.op \in {"pin", "bookmark"}
  <2> DEFINE v == Patched(call.op, call.from).pinned
             m == [store[on] EXCEPT !.pinned = v]
  <2>1. s = [store EXCEPT ![on] = m]
    BY <1>0, <1>2 DEF Served, PageTyped
  <2>2. v \in BOOLEAN
    BY <1>0, PatchedFields, MemoFields
  <2> HIDE DEF v
  <2>3. m \in Memo /\ m.there = store[on].there /\ m.by = store[on].by /\ m.visibility = store[on].visibility /\ m.archived = store[on].archived
    BY <1>0, <2>2 DEF Memo
  <2>4. ChangedTo(m)
    BY <1>2, <2>1, <2>3 DEF ChangedTo
  <2> HIDE DEF m
  <2> QED
    BY <1>1, <2>4
<1>3. CASE call.op = "state"
  <2> DEFINE v == ~call.from.archived
             m == [store[on] EXCEPT !.archived = v]
  <2>1. s = [store EXCEPT ![on] = m]
    BY <1>0, <1>3 DEF Served, PageTyped
  <2>2. v \in BOOLEAN /\ (v <=> ~call.from.archived)
    BY <1>0, MemoFields
  <2> HIDE DEF v
  <2>3. m \in Memo /\ m.there = store[on].there /\ m.by = store[on].by /\ m.visibility = store[on].visibility /\ m.archived = v
    BY <1>0, <2>2 DEF Memo
  <2>4. store[on].there
    BY <1>3 DEF Grants, GrantsChange
  <2>5. ChangedTo(m)
    BY <1>3, <2>1, <2>2, <2>3, <2>4 DEF ChangedTo
  <2> HIDE DEF m
  <2> QED
    BY <1>1, <2>5
<1>4. CASE call.op \in {"tick", "edit"}
  <2> DEFINE v == 1 - call.from.text
             m == [store[on] EXCEPT !.text = v]
  <2>1. s = [store EXCEPT ![on] = m]
    BY <1>0, <1>4 DEF Served, PageTyped
  <2>2. v \in 0 .. 1
    BY <1>0, MemoFields
  <2> HIDE DEF v
  <2>3. m \in Memo /\ m.there = store[on].there /\ m.by = store[on].by /\ m.visibility = store[on].visibility /\ m.archived = store[on].archived
    BY <1>0, <2>2 DEF Memo
  <2>4. ChangedTo(m)
    BY <1>4, <2>1, <2>3 DEF ChangedTo
  <2> HIDE DEF m
  <2> QED
    BY <1>1, <2>4
<1>5. CASE call.op = "react"
  <2> DEFINE v == ~call.from.reacted
             m == [store[on] EXCEPT !.reacted = v]
  <2>1. s = [store EXCEPT ![on] = m]
    BY <1>0, <1>5 DEF Served, PageTyped
  <2>2. v \in BOOLEAN
    BY <1>0, MemoFields
  <2> HIDE DEF v
  <2>3. m \in Memo /\ m.there = store[on].there /\ m.by = store[on].by /\ m.visibility = store[on].visibility /\ m.archived = store[on].archived
    BY <1>0, <2>2 DEF Memo
  <2>4. ChangedTo(m)
    BY <1>5, <2>1, <2>3 DEF ChangedTo
  <2> HIDE DEF m
  <2> QED
    BY <1>1, <2>4
<1>6. CASE call.op = "delete"
  <2>1. s = [c \in Cards |-> IF on \in {c, "memo"} THEN NoMemo ELSE store[c]]
    BY <1>6 DEF Served
  <2> HIDE DEF s
  <2>2. s \in [Cards -> Memo]
    BY <1>0, <2>1, NothingKnown DEF PageTyped
  <2>3. s["memo"] = IF on = "memo" THEN NoMemo ELSE store["memo"]
    BY <2>1 DEF Cards
  <2> QED
    BY <1>0, <1>6, <2>2, <2>3, NothingKnown DEF s, Cards
<1>7. CASE call.op = "comment"
  <2>1. visitor \in Visitors \ {"guest"} /\ store["memo"].visibility \in Visibilities /\ on = "memo"
    BY <1>0, <1>7, MemoFields DEF Grants, GrantsReaction, PageTyped, Placed
  <2> DEFINE r == Reply(visitor, store["memo"].visibility)
  <2>2. s = IF store["reply"].there THEN store ELSE [store EXCEPT !["reply"] = r]
    BY <1>7 DEF Served
  <2>3. r \in Memo
    BY <2>1, ReplyFields
  <2> HIDE DEF r, s
  <2>4. s \in [Cards -> Memo] /\ s["memo"] = store["memo"]
    BY <1>0, <2>2, <2>3 DEF PageTyped, Cards
  <2> QED
    BY <1>0, <1>7, <2>1, <2>4 DEF s
<1>8. CASE call.op = "share"
  <2>1. s = store
    BY <1>8 DEF Served
  <2> QED
    BY <1>0, <1>8, <2>1 DEF PageTyped
<1> QED
  BY <1>0, <1>2, <1>3, <1>4, <1>5, <1>6, <1>7, <1>8 DEF Requests

LEMMA AnswersIsSound == ASSUME PageSound, ServerAnswers PROVE PageSound'
<1>0. /\ PageTyped /\ Placed /\ CopiesKnown /\ MemoFollows /\ ReplyFollows /\ call.at = "sent" /\ call \in Calls
      /\ UNCHANGED <<visitor, page, shared, card, opened, behind>> /\ store["memo"] \in Memo
  BY DEF PageSound, PageTyped, ServerAnswers, Cards
<1>1. call.op # "none" /\ call.on \in Cards /\ page # "lost"
  BY <1>0, CallFields DEF Placed
<1>2. \A c : ~Unsettled(c)
  BY <1>0 DEF Unsettled
<1>3. CASE ~Grants(call.op, call.on) /\ call' = [call EXCEPT !.at = "refused"] /\ UNCHANGED store
  <2> DEFINE at == "refused"
  <2>1. at \in {"idle", "sent", "granted", "refused"} /\ at = "refused" /\ call' = [call EXCEPT !.at = at]
    BY <1>3
  <2> HIDE DEF at
  <2>2. /\ call' \in Calls /\ call'.at = at /\ call'.op = call.op /\ call'.on = call.on /\ call'.from = call.from
        /\ call'.answer = call.answer
    BY <1>0, <2>1 DEF Calls
  <2>3. PageTyped'
    BY <1>0, <1>3, <2>2 DEF PageTyped
  <2>4. /\ \A c : Undone(c)' = Undone(c) /\ ~Unsettled(c)'
        /\ ReadAccess(store["memo"])' = ReadAccess(store["memo"]) /\ Readable("reply")' = Readable("reply")
    BY <1>0, <1>3, <2>1, <2>2 DEF Undone, Unsettled, Shows, ReadAccess, Readable
  <2>5. Placed'
    BY <1>0, <1>1, <2>1, <2>2 DEF Placed
  <2>6. CopiesKnown'
    BY <1>0, <1>3, <2>2 DEF CopiesKnown, KnownMemo, KnownReply
  <2>7. AnswerFits'
    BY <2>1, <2>2 DEF AnswerFits
  <2>8. MemoFollows' /\ ReplyFollows'
    BY <1>0, <1>2, <1>3, <2>4 DEF MemoFollows, ReplyFollows
  <2> QED
    BY <2>3, <2>5, <2>6, <2>7, <2>8 DEF PageSound
<1>4. CASE /\ Grants(call.op, call.on) /\ store' = Served(call)
           /\ call' = [call EXCEPT !.at = "granted", !.answer = store'[call.on]]
  <2> DEFINE at == "granted"
             answer == store'[call.on]
  <2>1. at \in {"idle", "sent", "granted", "refused"} /\ at = "granted" /\ call' = [call EXCEPT !.at = at, !.answer = answer]
    BY <1>4
  <2>2. /\ store' \in [Cards -> Memo] /\ store'["memo"].by = "owner"
        /\ call.on = "reply" \/ call.op = "comment" => store'["memo"] = store["memo"]
        /\ call.op = "share" => store' = store
        /\ call.on = "memo" /\ call.op \notin {"delete", "comment"} => store'["reply"] = store["reply"]
        /\ call.on = "memo" /\ call.op = "delete" => ~store'["memo"].there
        /\ call.op = "state" => /\ store'["memo"].there /\ store["memo"].there
                                /\ store'["memo"].archived <=> ~call.from.archived
        /\ call.op # "delete" => store'["memo"].there = store["memo"].there /\ store'["memo"].visibility = store["memo"].visibility
        /\ call.op \notin {"delete", "state"} => store'["memo"].archived = store["memo"].archived
    BY <1>1, <1>4, ServedFields
  <2>3. answer \in Memo
    BY <1>1, <2>2
  <2>4. /\ call' \in Calls /\ call'.at = at /\ call'.op = call.op /\ call'.on = call.on /\ call'.from = call.from
        /\ call'.answer = answer
    <3> HIDE DEF at, answer
    <3> QED
      BY <1>0, <2>1, <2>3 DEF Calls
  <2> HIDE DEF at
  <2>5. PageTyped'
    BY <1>0, <2>2, <2>4 DEF PageTyped
  <2>6. Placed'
    BY <1>0, <1>1, <2>1, <2>4 DEF Placed
  <2>7. CopiesKnown'
    BY <1>0, <2>2, <2>4 DEF CopiesKnown, KnownMemo, KnownReply
  <2>8. AnswerFits'
    <3>1. call.on = "memo" /\ call.op \in Shown => visitor \in {"owner", "admin"}
      BY <1>0, <1>4 DEF Grants, GrantsChange, CanModify, CopiesKnown, Shown
    <3>2. call.on = "memo" => answer.by = "owner"
      BY <2>2
    <3>3. call.op = "state" => store'["memo"].there /\ (store'["memo"].archived <=> ~call.from.archived)
      BY <2>2
    <3> QED
      BY <1>0, <2>4, <3>1, <3>2, <3>3 DEF AnswerFits
  <2>9. \A c : Undone(c)' = Undone(c)
    BY <1>0, <2>4 DEF Undone, Shows
  <2>10. MemoFollows'
    <3>1. ~Unsettled("memo")' => store'["memo"] = store["memo"]
      BY <1>1, <2>1, <2>2, <2>4 DEF Unsettled, Cards
    <3>2. store'["memo"] = store["memo"] => ReadAccess(store["memo"])' = ReadAccess(store["memo"])
      BY <1>0 DEF ReadAccess
    <3> QED
      BY <1>0, <1>2, <2>9, <3>1, <3>2 DEF MemoFollows
  <2>11. ReplyFollows'
    <3> SUFFICES ASSUME "reply" \notin behind, ~Unsettled("reply")', Readable("reply")', page # "lost"
                 PROVE  Undone("reply") = store'["reply"]
      BY <1>0, <2>9 DEF ReplyFollows
    <3>1. ReadAccess(store["memo"])' /\ ReadAccess(store["reply"])'
      BY DEF Readable
    <3>2. store'["memo"].there
      BY <3>1 DEF ReadAccess
    <3>3. CASE call.op = "share"
      <4>1. Readable("reply")' = Readable("reply") /\ store'["reply"] = store["reply"]
        BY <1>0, <2>2, <3>3 DEF Readable, ReadAccess
      <4> QED
        BY <1>0, <1>2, <4>1 DEF ReplyFollows
    <3>4. CASE call.op # "share"
      <4>1. /\ call.on = "memo" /\ call.op # "comment" /\ (call.op = "state" => page # "memo")
        BY <1>0, <1>1, <2>1, <2>4, <3>4 DEF Unsettled, Cards
      <4>2. call.op # "delete" /\ store'["reply"] = store["reply"]
        BY <2>2, <3>2, <4>1
      <4>3. ReadAccess(store["reply"])
        BY <1>0, <3>1, <4>2 DEF ReadAccess
      <4>4. ReadAccess(store["memo"])
        <5>1. /\ store["memo"].there /\ store["memo"].visibility = store'["memo"].visibility
              /\ store["memo"].by = "owner" /\ store'["memo"].by = "owner"
          BY <1>0, <2>2, <3>2, <4>2 DEF CopiesKnown
        <5>2. CASE call.op # "state"
          BY <1>0, <2>2, <3>1, <4>2, <5>1, <5>2 DEF ReadAccess
        <5>3. CASE call.op = "state"
          <6>1. visitor = "owner"
            <7>1. store'["memo"].archived <=> ~call.from.archived
              BY <2>2, <5>3
            <7>2. visitor # "owner" => ~store'["memo"].archived
              BY <1>0, <3>1, <5>1 DEF ReadAccess
            <7> QED
              BY <1>0, <4>1, <5>3, <7>1, <7>2 DEF CopiesKnown
          <6> QED
            BY <5>1, <6>1 DEF ReadAccess
        <5> QED
          BY <5>2, <5>3
      <4> QED
        BY <1>0, <1>2, <4>2, <4>3, <4>4 DEF ReplyFollows, Readable
    <3> QED
      BY <3>3, <3>4
  <2> QED
    BY <2>5, <2>6, <2>7, <2>8, <2>10, <2>11 DEF PageSound
<1> QED
  BY <1>3, <1>4 DEF ServerAnswers

LEMMA LostIsSound == ASSUME PageSound, AnswerLost PROVE PageSound'
<1>0. /\ PageTyped /\ Placed /\ CopiesKnown /\ MemoFollows /\ ReplyFollows /\ call.at \in {"sent", "granted"} /\ call \in Calls
      /\ UNCHANGED <<visitor, page, shared, store, card, opened>> /\ behind' = IF call.at = "granted" THEN Cards ELSE behind
  BY DEF PageSound, PageTyped, AnswerLost
<1> DEFINE at == "refused"
<1>1. at \in {"idle", "sent", "granted", "refused"} /\ at = "refused" /\ call' = [call EXCEPT !.at = at]
  BY DEF AnswerLost
<1> HIDE DEF at
<1>2. /\ call' \in Calls /\ call'.at = at /\ call'.op = call.op /\ call'.on = call.on /\ call'.from = call.from
      /\ call'.answer = call.answer /\ call.op # "none" /\ page # "lost"
  BY <1>0, <1>1, CallFields DEF Calls, Placed
<1>3. PageTyped'
  BY <1>0, <1>2 DEF PageTyped
<1>4. /\ \A c : Undone(c)' = Undone(c) /\ ~Unsettled(c)'
      /\ ReadAccess(store["memo"])' = ReadAccess(store["memo"]) /\ Readable("reply")' = Readable("reply")
  BY <1>0, <1>1, <1>2 DEF Undone, Unsettled, Shows, ReadAccess, Readable
<1>5. Placed'
  BY <1>0, <1>1, <1>2 DEF Placed
<1>6. CopiesKnown'
  BY <1>0, <1>2 DEF CopiesKnown, KnownMemo, KnownReply
<1>7. AnswerFits'
  BY <1>1, <1>2 DEF AnswerFits
<1>8. call.at = "sent" => \A c : ~Unsettled(c)
  BY DEF Unsettled
<1>9. MemoFollows' /\ ReplyFollows'
  BY <1>0, <1>4, <1>8 DEF MemoFollows, ReplyFollows, Cards
<1> QED
  BY <1>3, <1>5, <1>6, <1>7, <1>9 DEF PageSound

LEMMA MeddleIsSound == ASSUME PageSound, Meddle PROVE PageSound'
<1>0. /\ PageTyped /\ Placed /\ CopiesKnown /\ AnswerFits /\ store["memo"].by = "owner" /\ store["memo"] \in Memo
      /\ UNCHANGED <<visitor, page, card, opened, call>> /\ behind' = Cards /\ call.on \in Cards
  BY CallFields DEF PageSound, PageTyped, CopiesKnown, Meddle, Cards
<1>1. ASSUME NEW m \in Memo, m.by = "owner", store' = [store EXCEPT !["memo"] = m]
      PROVE  store' \in [Cards -> Memo] /\ store'["memo"].by = "owner"
  BY <1>0, <1>1 DEF PageTyped, Cards
<1>2. store' \in [Cards -> Memo] /\ store'["memo"].by = "owner"
  <2>1. CASE store' = [store EXCEPT !["memo"].pinned = ~@]
    <3> DEFINE v == ~store["memo"].pinned
               m == [store["memo"] EXCEPT !.pinned = v]
    <3>1. v \in BOOLEAN /\ store' = [store EXCEPT !["memo"] = m]
      BY <1>0, <2>1, MemoFields DEF PageTyped, Cards
    <3> HIDE DEF v
    <3>2. m \in Memo /\ m.by = "owner"
      BY <1>0, <3>1 DEF Memo
    <3> QED
      BY <1>1, <3>1, <3>2
  <2>2. CASE store' = [store EXCEPT !["memo"].archived = ~@]
    <3> DEFINE v == ~store["memo"].archived
               m == [store["memo"] EXCEPT !.archived = v]
    <3>1. v \in BOOLEAN /\ store' = [store EXCEPT !["memo"] = m]
      BY <1>0, <2>2, MemoFields DEF PageTyped, Cards
    <3> HIDE DEF v
    <3>2. m \in Memo /\ m.by = "owner"
      BY <1>0, <3>1 DEF Memo
    <3> QED
      BY <1>1, <3>1, <3>2
  <2>3. CASE store' = [store EXCEPT !["memo"].reacted = visitor # "guest" /\ ~@]
    <3> DEFINE v == visitor # "guest" /\ ~store["memo"].reacted
               m == [store["memo"] EXCEPT !.reacted = v]
    <3>1. v \in BOOLEAN /\ store' = [store EXCEPT !["memo"] = m]
      BY <1>0, <2>3, MemoFields DEF PageTyped, Cards
    <3> HIDE DEF v
    <3>2. m \in Memo /\ m.by = "owner"
      BY <1>0, <3>1 DEF Memo
    <3> QED
      BY <1>1, <3>1, <3>2
  <2>4. CASE \E v \in Visibilities : store' = [store EXCEPT !["memo"].visibility = v]
    <3> PICK v \in Visibilities : store' = [store EXCEPT !["memo"].visibility = v]
      BY <2>4
    <3> DEFINE m == [store["memo"] EXCEPT !.visibility = v]
    <3>1. store' = [store EXCEPT !["memo"] = m]
      BY <1>0 DEF PageTyped, Cards
    <3>2. m \in Memo /\ m.by = "owner"
      BY <1>0 DEF Memo
    <3> QED
      BY <1>1, <3>1, <3>2
  <2>5. CASE store' = [c \in Cards |-> NoMemo]
    BY <2>5, NothingKnown DEF Cards
  <2>6. CASE store' = [store EXCEPT !["reply"] = NoMemo]
    BY <1>0, <2>6, NothingKnown DEF PageTyped, Cards
  <2>7. CASE store' = store
    BY <1>0, <2>7 DEF PageTyped
  <2> QED
    BY <2>1, <2>2, <2>3, <2>4, <2>5, <2>6, <2>7 DEF Meddle
<1>3. shared' \in BOOLEAN
  BY <1>0 DEF Meddle, PageTyped
<1>4. PageTyped'
  BY <1>0, <1>2, <1>3 DEF PageTyped
<1>5. Placed'
  BY <1>0 DEF Placed
<1>6. CopiesKnown'
  BY <1>0, <1>2 DEF CopiesKnown, KnownMemo, KnownReply
<1>7. AnswerFits'
  BY <1>0 DEF AnswerFits, Cards
<1>8. MemoFollows' /\ ReplyFollows'
  BY <1>0 DEF MemoFollows, ReplyFollows, Cards
<1> QED
  BY <1>4, <1>5, <1>6, <1>7, <1>8 DEF PageSound

LEMMA PageSoundAtFirst == PageInit => PageSound
<1> SUFFICES ASSUME PageInit PROVE PageSound
  OBVIOUS
<1>1. store \in [Cards -> Memo] /\ store["memo"].by = "owner"
  <2>1. PICK visibility \in Visibilities, archived \in BOOLEAN, pinned \in BOOLEAN, replied \in BOOLEAN :
           LET m == [NoMemo EXCEPT !.there = TRUE, !.visibility = visibility, !.archived = archived, !.pinned = pinned]
           IN store = [memo |-> m, reply |-> IF replied THEN Reply("other", visibility) ELSE NoMemo]
    BY DEF PageInit
  <2> DEFINE t == TRUE
             m == [NoMemo EXCEPT !.there = t, !.visibility = visibility, !.archived = archived, !.pinned = pinned]
             other == "other"
             r == IF replied THEN Reply(other, visibility) ELSE NoMemo
  <2>2. t \in BOOLEAN /\ other \in Visitors \ {"guest"} /\ store = [memo |-> m, reply |-> r]
    BY <2>1 DEF Visitors
  <2> HIDE DEF t, other
  <2>3. m \in Memo /\ m.by = "owner"
    BY <2>2, NothingKnown DEF Memo
  <2>4. r \in Memo
    BY <2>2, ReplyFields, NothingKnown
  <2> HIDE DEF m, r
  <2> QED
    BY <2>2, <2>3, <2>4 DEF Cards
<1>2. /\ visitor \in Visitors /\ page \in MemoPages \ {"lost"} /\ shared \in BOOLEAN /\ Found(page)
      /\ opened = "none" /\ call = NoCall /\ behind = {}
      /\ card = [memo |-> Fetched(page), reply |-> FetchedReply(NoMemo)]
  BY DEF PageInit, MemoPages
<1> DEFINE m == Fetched(page)
           r == FetchedReply(NoMemo)
<1>3. /\ m \in Memo /\ m.by = "owner" /\ r \in Memo
  <2>1. /\ store["memo"] \in Memo /\ store["reply"] \in Memo
    BY <1>1 DEF Cards
  <2>2. m = store["memo"] \/ m = NoMemo
    BY <1>2 DEF Fetched, MemoPages
  <2>3. r = NoMemo \/ r = store["reply"]
    BY DEF FetchedReply
  <2> QED
    BY <1>1, <2>1, <2>2, <2>3, NothingKnown
<1> HIDE DEF m, r
<1>4. card \in [Cards -> Memo] /\ card["memo"] = m /\ card["reply"] = r
  BY <1>2, <1>3 DEF Cards, m, r
<1>5. PageTyped
  BY <1>1, <1>2, <1>4, CallFields DEF PageTyped
<1>6. /\ page # "link" /\ m.there => ReadAccess(store["memo"]) /\ m = store["memo"]
      /\ page = "memo" => m = store["memo"]
      /\ page = "link" => ~m.archived
      /\ page \in {"home", "archived"} /\ m.there => visitor = "owner"
  BY <1>1, <1>2, <1>5, FetchedFields DEF m
<1>7. KnownReply(r) /\ (Readable("reply") => r = store["reply"])
  <2>1. KnownReply(NoMemo)
    BY NothingKnown DEF KnownReply
  <2> QED
    BY <1>5, <2>1, FetchedReplyFields, NothingKnown DEF r
<1>8. KnownMemo(m)
  BY <1>3, <1>6 DEF KnownMemo, ReadAccess
<1>9. /\ call.op = "none" /\ call.on = "memo" /\ call.at = "idle" /\ call.from = NoMemo
  BY <1>2, CallFields
<1>10. \A c : Undone(c) = card[c]
  BY <1>9 DEF Undone, Shown
<1>11. Placed
  BY <1>2, <1>9 DEF Placed
<1>12. CopiesKnown
  <2>1. KnownMemo(NoMemo)
    BY NothingKnown DEF KnownMemo
  <2> QED
    BY <1>1, <1>4, <1>6, <1>7, <1>8, <1>9, <2>1 DEF CopiesKnown
<1>13. AnswerFits
  BY <1>9 DEF AnswerFits
<1>14. MemoFollows /\ ReplyFollows
  BY <1>4, <1>6, <1>7, <1>10 DEF MemoFollows, ReplyFollows
<1> QED
  BY <1>5, <1>11, <1>12, <1>13, <1>14 DEF PageSound

LEMMA PageSoundKept == PageSound /\ [PageNext]_pageVars => PageSound'
<1> SUFFICES ASSUME PageSound, [PageNext]_pageVars PROVE PageSound'
  OBVIOUS
<1>1. CASE UNCHANGED pageVars
  <2>1. PageTyped' /\ Placed'
    BY <1>1 DEF pageVars, PageSound, PageTyped, Placed
  <2>2. CopiesKnown'
    BY <1>1 DEF pageVars, PageSound, CopiesKnown, KnownMemo, KnownReply
  <2>3. AnswerFits'
    BY <1>1 DEF pageVars, PageSound, AnswerFits
  <2>4. MemoFollows' /\ ReplyFollows'
    BY <1>1 DEF pageVars, PageSound, MemoFollows, ReplyFollows, Unsettled, Undone, Shows, Readable, ReadAccess
  <2> QED
    BY <2>1, <2>2, <2>3, <2>4 DEF PageSound
<1>2. ASSUME NEW c \in Cards, Press(c) \/ OpenCardEditor(c) PROVE PageSound'
  BY <1>2, PressIsSound, OpenIsSound
<1>3. CASE SaveEditor \/ CloseEditor \/ ServerAnswers \/ AnswerLost \/ Refused
  BY <1>3, SaveIsSound, CloseIsSound, AnswersIsSound, LostIsSound, RefusedIsSound
<1>4. CASE UpdatedMemo \/ Removed \/ ReactedTo \/ SavedMemo \/ Shared
  BY <1>4, UpdatedIsSound, RemovedIsSound, ReactedIsSound, SavedIsSound, SharedIsSound
<1>5. CASE GotoMemoDetailPage \/ RefetchCards \/ Meddle
  BY <1>5, FetchIsSound, MeddleIsSound
<1> QED
  BY <1>1, <1>2, <1>3, <1>4, <1>5 DEF PageNext

LEMMA OffersHold == PageSound => OffersAreGranted
<1> SUFFICES ASSUME PageSound, \A c \in Cards : OnPage(c) => card[c] = store[c],
                    NEW c \in Cards, NEW op \in Offered(c)
             PROVE  Grants(op, c) \/ NeverKept(op, c)
  BY DEF OffersAreGranted
<1>0. KnownMemo(card["memo"]) /\ KnownReply(card["reply"]) /\ visitor \in Visitors /\ page \in MemoPages
  BY DEF PageSound, CopiesKnown, PageTyped
<1>1. OnPage(c) /\ OnPage("memo") /\ card[c] = store[c] /\ card["memo"] = store["memo"] /\ card[c].there /\ card["memo"].there
  <2>1. OnPage(c)
    BY DEF Offered
  <2>2. OnPage("memo") /\ card[c].there /\ card["memo"].there
    BY <2>1 DEF OnPage
  <2>3. card[c] = store[c] /\ card["memo"] = store["memo"]
    BY <2>1, <2>2 DEF Cards
  <2> QED
    BY <2>1, <2>2, <2>3
<1>2. op \in SidebarOffers(c) \cup SectionOffers(c) \cup MenuOffers(c) \cup HeaderOffers(c) \cup BodyOffers(c)
  BY DEF Offered
<1>3. ~Readonly(c) => CanModify(store[c]) /\ GrantsChange(c)
  BY <1>1 DEF Readonly, CanModify, GrantsChange
<1>4. CASE op \in MenuOffers(c) \cup BodyOffers(c)
  <2>1. ~Readonly(c) /\ op \in {"pin", "edit", "tick", "state", "delete"}
    BY <1>4 DEF MenuOffers, BodyOffers
  <2>2. CASE op = "edit"
    BY <1>1, <1>3, <2>1, <2>2 DEF Grants, NeverKept
  <2>3. CASE op # "edit"
    BY <1>3, <2>1, <2>3 DEF Grants
  <2> QED
    BY <2>2, <2>3
<1>5. CASE op \in SidebarOffers(c)
  <2>1. op = "share" /\ visitor \in {card[c].by, "admin"}
    BY <1>5 DEF SidebarOffers
  <2> QED
    BY <1>1, <2>1 DEF Grants, GrantsChange, CanModify
<1>6. ASSUME visitor # "guest", c = "memo" PROVE GrantsReaction(c) \/ (NeverKept("comment", c) /\ NeverKept("react", c))
  <2>1. CASE store["memo"].visibility # "private" \/ visitor \in {"owner", "admin"}
    <3>1. store["memo"].by = "owner" /\ store["memo"].there
      BY <1>0, <1>1 DEF KnownMemo
    <3>2. store["memo"].visibility = "private" => CanModify(store["memo"])
      BY <2>1, <3>1 DEF CanModify
    <3>3. visitor # "guest" /\ store[c] = store["memo"]
      BY <1>6
    <3>4. GrantsReaction(c)
      BY <3>1, <3>2, <3>3 DEF GrantsReaction
    <3> QED
      BY <3>4
  <2>2. CASE store["memo"].visibility = "private" /\ visitor \notin {"owner", "admin"}
    <3>1. visitor = "other" /\ page = "link"
      BY <1>0, <1>1, <1>6, <2>2 DEF KnownMemo, Visitors
    <3> QED
      BY <1>1, <2>2, <3>1 DEF NeverKept
  <2> QED
    BY <2>1, <2>2
<1>7. ASSUME visitor # "guest", c = "reply" PROVE GrantsReaction(c)
  BY <1>0, <1>1, <1>7 DEF GrantsReaction, CanModify, KnownReply
<1>8. CASE op \in SectionOffers(c)
  <2>1. op = "comment" /\ visitor # "guest" /\ c = "memo"
    BY <1>8 DEF SectionOffers
  <2> QED
    BY <1>6, <2>1 DEF Grants
<1>9. CASE op \in HeaderOffers(c)
  <2>1. CASE op = "react"
    <3>1. visitor # "guest"
      BY <1>9, <2>1 DEF HeaderOffers
    <3>2. CASE card[c].reacted
      <4>1. GrantsTakingBack(c)
        BY <1>1, <3>1, <3>2 DEF GrantsTakingBack
      <4> QED
        BY <2>1, <3>2, <4>1 DEF Grants
    <3>3. CASE ~card[c].reacted
      <4>1. GrantsReaction(c) \/ NeverKept("react", c)
        BY <1>6, <1>7, <3>1 DEF Cards
      <4> QED
        BY <2>1, <3>3, <4>1 DEF Grants
    <3> QED
      BY <3>2, <3>3
  <2>2. CASE op = "bookmark"
    BY <1>3, <2>2 DEF Grants, NeverKept
  <2> QED
    BY <1>9, <2>1, <2>2 DEF HeaderOffers
<1> QED
  BY <1>2, <1>4, <1>5, <1>8, <1>9

LEMMA OwnChangesHold == PageSound => OwnChangesAreShown
<1> SUFFICES ASSUME PageSound, call = NoCall, behind = {}, NEW c \in Cards, OnPage(c), Shows(c), Readable(c)
             PROVE  card[c] = store[c]
  BY DEF OwnChangesAreShown
<1>1. call.op = "none" /\ call.at = "idle" /\ Placed /\ MemoFollows /\ ReplyFollows
  BY CallFields DEF PageSound
<1>2. Undone(c) = card[c] /\ ~Unsettled(c) /\ card[c].there
  BY <1>1 DEF Undone, Unsettled, Shown, OnPage
<1>3. page # "lost" /\ ReadAccess(store["memo"])
  BY <1>1, <1>2 DEF Placed, Readable
<1>4. CASE c = "memo"
  BY <1>1, <1>2, <1>3, <1>4 DEF MemoFollows, Shows
<1>5. CASE c = "reply"
  BY <1>1, <1>2, <1>3, <1>5 DEF ReplyFollows
<1> QED
  BY <1>4, <1>5 DEF Cards

LEMMA LandingHolds == PageSound /\ PageNext => LandsWithIt
<1> SUFFICES ASSUME PageSound, PageNext, page = "memo", page' \in {"home", "archived"}, call.op = "state",
                    visitor = "owner", behind = {}
             PROVE  OnPage("memo")'
  BY DEF LandsWithIt
<1>1. UpdatedMemo
  <2>1. ~(\E c \in Cards : Press(c) \/ OpenCardEditor(c))
    BY DEF Press, SendCall, OpenCardEditor
  <2>2. ~(SaveEditor \/ CloseEditor \/ ServerAnswers \/ AnswerLost \/ Refused)
    BY DEF SaveEditor, SendCall, CloseEditor, ServerAnswers, AnswerLost, Refused
  <2>3. ~(Removed \/ ReactedTo \/ SavedMemo \/ Shared)
    BY DEF Removed, ReactedTo, SavedMemo, Shared
  <2>4. ~(GotoMemoDetailPage \/ RefetchCards \/ Meddle)
    BY DEF GotoMemoDetailPage, RefetchCards, ShowPage, Meddle
  <2> QED
    BY <2>1, <2>2, <2>3, <2>4 DEF PageNext
<1> DEFINE p == IF call.from.archived THEN "home" ELSE "archived"
<1>2. ShowPage(p) /\ call.at = "granted"
  BY <1>1 DEF UpdatedMemo
<1>3. store["memo"].there /\ (store["memo"].archived <=> ~call.from.archived) /\ store["memo"].by = "owner" /\ store["memo"] \in Memo
  BY <1>2 DEF PageSound, AnswerFits, CopiesKnown, PageTyped, Cards
<1>4. Found(p) /\ p \in {"home", "archived"}
  BY DEF Found
<1>5. page' = p /\ card'["memo"] = Fetched(p)
  BY <1>2, <1>4 DEF ShowPage
<1>6. store["memo"].archived = (p = "archived")
  <2>1. store["memo"].archived \in BOOLEAN
    BY <1>3, MemoFields
  <2>2. store["memo"].archived <=> p = "archived"
    BY <1>3
  <2> QED
    BY <2>1, <2>2
<1>7. Fetched(p) = store["memo"]
  BY <1>3, <1>4, <1>6 DEF Fetched
<1> QED
  BY <1>3, <1>4, <1>5, <1>6, <1>7 DEF OnPage

\* For any number of requests, failures and changes by others: what a memo's page offers when it is
\* up to date the server grants, but for the three offers that are never kept; what one changed there
\* is shown; and an owner who archives or restores a memo lands on the list that has it (MemoView,
\* MemoActionMenu, MemoHeader, MemoCommentSection, memo_service.go and reaction_service.go).
THEOREM PageIsTrue == PageSpec => MemoPageIsTrue
<1>1. PageSound => OffersAreGranted /\ OwnChangesAreShown
  BY OffersHold, OwnChangesHold
<1>2. PageSound /\ PageSound' /\ [PageNext]_pageVars
      => [(OffersAreGranted /\ OwnChangesAreShown)' /\ LandsWithIt]_pageVars
  <2>1. PageSound' => (OffersAreGranted /\ OwnChangesAreShown)'
    BY <1>1, PTL
  <2> QED
    BY <2>1, LandingHolds
<1> QED
  BY <1>2, PageSoundAtFirst, PageSoundKept, PTL DEF PageSpec, MemoPageIsTrue

-----------------------------------------------------------------------------
(* Account and preferences *)

Positive == Nat \ {0}
Users == [ProfileFields -> Positive]
Values == {"", "none", "undefined"} \cup Themes \cup Locales
Settings == [Preferences -> Values]
Puts == [{"theme"} -> Themes] \cup [{"locale"} -> Locales]
        \cup UNION {[fs -> Positive] : fs \in (SUBSET ProfileFields) \ {{}}}
Updates == [put : Puts, place : {"menu", "page", "dialog"}, as : Positive, served : BOOLEAN, ok : BOOLEAN,
            answer : Users, refetch : BOOLEAN, own : BOOLEAN]
Reports == {s \in Settings : \A f \in Preferences : s[f] # "undefined"}
Refetches == [as : Positive, read : {NoSetting} \cup Reports, late : BOOLEAN]

ScreenTyped ==
    /\ preferred \in Settings /\ \A f \in Preferences : preferred[f] \in Options(f)
    /\ DOMAIN applied = Preferences
RowTyped == general \in Settings /\ \A f \in Preferences : general[f] # "undefined"
ChoiceTyped == \A f \in DOMAIN wanted : f \in Preferences /\ wanted[f] \in Options(f)
QueuesTyped == updates \in Seq(Updates) /\ refetches \in Seq(Refetches)
UserTyped ==
    /\ account \in Users /\ member \in Users \cup {Nobody} /\ setting \in Settings
    /\ DOMAIN profileDialog = {"fields", "edited", "stale"} /\ profileDialog.edited \subseteq ProfileFields
    /\ IF member = Nobody THEN updates = <<>> /\ refetches = <<>> /\ setting = NoSetting
       ELSE profileDialog.fields \in Users
AccountTyped == ScreenTyped /\ RowTyped /\ ChoiceTyped /\ QueuesTyped /\ UserTyped

Profile(u) == DOMAIN u.put \subseteq ProfileFields
ProfileTold(u) == u.served /\ Profile(u)
Chosen(u, f) == f \in DOMAIN u.put
Sent(u, f) == ~u.served /\ Chosen(u, f)
Read(r) == r.read # NoSetting

\* No request is bound to be told as a failure, nor an answer to be overtaken.
Accepted(us) == \A i \in DOMAIN us : us[i].served => us[i].ok
OneAtATime(rs) ==
    /\ \A i \in DOMAIN rs : ~rs[i].late
    /\ \A i, j \in DOMAIN rs : Read(rs[i]) /\ Read(rs[j]) => i = j

\* Requests are served in their order.
InOrder(us) == \A i, j \in DOMAIN us : i < j /\ us[j].served => us[i].served

\* The name in the last profile that was saved, and is to be told to the page, is the account's.
NameIsFollowed(us, shown, name) ==
    /\ (\A i \in DOMAIN us : ~ProfileTold(us[i])) => shown = name
    /\ \A i \in DOMAIN us : ProfileTold(us[i]) /\ (\A j \in DOMAIN us : i < j => ~ProfileTold(us[j]))
          => us[i].answer.username = name

\* The last request for a field that is not served yet has what was chosen last, or the server has it.
RowFollows(us, row, choice) ==
    \A f \in DOMAIN choice :
        /\ (\A i \in DOMAIN us : ~Sent(us[i], f)) => row[f] = choice[f]
        /\ \A i \in DOMAIN us : Sent(us[i], f) /\ (\A j \in DOMAIN us : i < j => ~Sent(us[j], f))
              => us[i].put[f] = choice[f]

\* A fetch is to come after the last request for a field, or brings what was chosen, or has brought it.
FetchToCome(us, rs) == (\E i \in DOMAIN us : us[i].refetch) \/ (\E i \in DOMAIN rs : ~Read(rs[i]))
Brought(rs, has, choice, f) == (\A i \in DOMAIN rs : rs[i].read[f] = choice[f]) /\ (rs = <<>> => has[f] = choice[f])
SettingFollows(us, rs, has, choice) ==
    \A f \in DOMAIN choice :
        /\ \A i \in DOMAIN us : Chosen(us[i], f) => \E j \in DOMAIN us : i <= j /\ us[j].refetch
        /\ (\A i \in DOMAIN us : ~Chosen(us[i], f)) => FetchToCome(us, rs) \/ Brought(rs, has, choice, f)

\* What the browser keeps is what was chosen, or the page is yet to learn of the choice.
ScreenSound ==
    /\ applied["locale"] = preferred["locale"]
    /\ ~astray => applied["theme"] = Resolved(preferred["theme"])
    /\ \A f \in DOMAIN wanted :
          (f = "theme" /\ astray) \/ preferred[f] = wanted[f] \/ (member # Nobody /\ setting[f] # wanted[f])

\* The fields not edited are the user's, and only edited ones are sent.
DialogSound ==
    /\ member # Nobody /\ ~profileDialog.stale =>
         \A f \in ProfileFields \ profileDialog.edited : profileDialog.fields[f] = member[f]
    /\ \A i \in DOMAIN updates : updates[i].own
    /\ foreign => account.description = 10

ChoicesSound ==
    ~raced /\ ~broken /\ Accepted(updates) /\ OneAtATime(refetches) /\ member # Nobody =>
        /\ InOrder(updates) /\ NameIsFollowed(updates, member.username, account.username)
        /\ RowFollows(updates, general, wanted)
        /\ unfetched \/ SettingFollows(updates, refetches, setting, wanted)

AccountSound == AccountTyped /\ ScreenSound /\ DialogSound /\ ChoicesSound

-----------------------------------------------------------------------------

LEMMA RowsKnown ==
    /\ NoRow \in Settings /\ \A f \in Preferences : NoRow[f] = "none"
    /\ NoSetting \in Settings /\ \A f \in Preferences : NoSetting[f] = "undefined"
<1>1. NoRow = [f \in Preferences |-> "none"] /\ NoSetting = [f \in Preferences |-> "undefined"]
  BY DEF NoRow, NoSetting, Preferences
<1>2. "none" \in Values /\ "undefined" \in Values
  BY DEF Values
<1> QED
  BY <1>1, <1>2 DEF Settings

LEMMA NobodyKnown == Nobody \notin Users
BY DEF Nobody, Users, Positive, ProfileFields

LEMMA OptionsKnown == \A f \in Preferences : \A v \in Options(f) : v \in Values /\ v \notin {"", "none", "undefined"}
BY DEF Preferences, Options, Values, Themes, Locales

LEMMA FieldsKnown == \A f \in Preferences : f \notin ProfileFields
BY DEF Preferences, ProfileFields

LEMMA OneField == ASSUME NEW f, NEW v PROVE DOMAIN Only(f, v) = {f} /\ Only(f, v)[f] = v
BY DEF Only

LEMMA Replaced ==
    ASSUME NEW p, NEW g
    PROVE  /\ DOMAIN Over(p, g) = DOMAIN p \cup DOMAIN g
           /\ \A x \in DOMAIN p : Over(p, g)[x] = p[x]
           /\ \A x \in DOMAIN g \ DOMAIN p : Over(p, g)[x] = g[x]
BY DEF Over

LEMMA ReplacedIn ==
    ASSUME NEW D, NEW S, NEW p, NEW g \in [D -> S], DOMAIN p \subseteq D, \A x \in DOMAIN p : p[x] \in S
    PROVE  Over(p, g) \in [D -> S]
BY DEF Over

LEMMA WithoutOne ==
    ASSUME NEW S, NEW s \in Seq(S), NEW i \in 1 .. Len(s)
    PROVE  RemoveAt(s, i) \in Seq(S) /\ Len(RemoveAt(s, i)) = Len(s) - 1 /\ DOMAIN RemoveAt(s, i) = 1 .. Len(s) - 1
<1> DEFINE a == SubSeq(s, 1, i - 1)
           b == SubSeq(s, i + 1, Len(s))
           r == RemoveAt(s, i)
<1>1. a \in Seq(S) /\ Len(a) = i - 1 /\ b \in Seq(S) /\ Len(b) = Len(s) - i
  OBVIOUS
<1>2. r = a \o b
  BY DEF RemoveAt
<1> HIDE DEF a, b, r
<1>3. a \o b \in Seq(S) /\ Len(a \o b) = Len(a) + Len(b)
  BY <1>1
<1>4. r \in Seq(S) /\ Len(r) = Len(s) - 1
  BY <1>1, <1>2, <1>3
<1>5. DOMAIN r = 1 .. Len(s) - 1
  BY <1>4
<1> QED
  BY <1>4, <1>5 DEF r

LEMMA EntryWithoutOne ==
    ASSUME NEW S, NEW s \in Seq(S), NEW i \in 1 .. Len(s), NEW k \in 1 .. Len(s) - 1
    PROVE  (k < i => RemoveAt(s, i)[k] = s[k]) /\ (~(k < i) => RemoveAt(s, i)[k] = s[k + 1])
<1> DEFINE a == SubSeq(s, 1, i - 1)
           b == SubSeq(s, i + 1, Len(s))
           r == RemoveAt(s, i)
<1>1. a \in Seq(S) /\ Len(a) = i - 1 /\ \A j \in 1 .. i - 1 : a[j] = s[j]
  OBVIOUS
<1>2. b \in Seq(S) /\ Len(b) = Len(s) - i /\ \A j \in 1 .. Len(s) - i : b[j] = s[i + j]
  OBVIOUS
<1>3. r = a \o b
  BY DEF RemoveAt
<1> HIDE DEF a, b, r
<1>4. \A j \in 1 .. Len(a) + Len(b) : r[j] = IF j <= Len(a) THEN a[j] ELSE b[j - Len(a)]
  BY <1>1, <1>2, <1>3
<1>5. k \in 1 .. Len(a) + Len(b)
  BY <1>1, <1>2
<1>6. ASSUME k < i PROVE r[k] = s[k]
  <2>1. k \in 1 .. i - 1 /\ k <= Len(a)
    BY <1>1, <1>6
  <2>2. r[k] = a[k]
    BY <1>4, <1>5, <2>1
  <2> QED
    BY <1>1, <2>1, <2>2
<1>7. ASSUME ~(k < i) PROVE r[k] = s[k + 1]
  <2>1. k - Len(a) \in 1 .. Len(s) - i /\ i + (k - Len(a)) = k + 1 /\ ~(k <= Len(a))
    BY <1>1, <1>7
  <2>2. r[k] = b[k - Len(a)]
    BY <1>4, <1>5, <2>1
  <2>3. b[k - Len(a)] = s[k + 1]
    BY <1>2, <2>1
  <2> QED
    BY <2>2, <2>3
<1> QED
  BY <1>6, <1>7 DEF r

-----------------------------------------------------------------------------

\* What the changes of a queue leave as it was.
SameButFetch(n, us) ==
    /\ DOMAIN n = DOMAIN us
    /\ \A i \in DOMAIN us : /\ n[i].put = us[i].put /\ n[i].served = us[i].served /\ n[i].ok = us[i].ok
                            /\ n[i].answer = us[i].answer /\ n[i].own = us[i].own
Appended(n, us, u) ==
    DOMAIN n = 1 .. Len(us) + 1 /\ n[Len(us) + 1] = u /\ \A i \in 1 .. Len(us) : n[i] = us[i]
ServedAt(n, us, i, done, user) ==
    /\ DOMAIN n = DOMAIN us /\ \A j \in DOMAIN us : j # i => n[j] = us[j]
    /\ n[i].served /\ (n[i].ok <=> done) /\ n[i].answer = user
    /\ n[i].put = us[i].put /\ n[i].own = us[i].own /\ n[i].refetch = us[i].refetch
FirstGone(n, us) == DOMAIN n = 1 .. Len(us) - 1 /\ \A k \in 1 .. Len(us) - 1 : n[k] = us[k + 1]

LEMMA UpdateFields ==
    \A u \in Updates : /\ u.put \in Puts /\ u.place \in {"menu", "page", "dialog"} /\ u.as \in Positive
                       /\ u.served \in BOOLEAN /\ u.ok \in BOOLEAN /\ u.answer \in Users
                       /\ u.refetch \in BOOLEAN /\ u.own \in BOOLEAN
BY DEF Updates

LEMMA RefetchFields ==
    \A r \in Refetches : r.as \in Positive /\ r.read \in {NoSetting} \cup Reports /\ r.late \in BOOLEAN
BY DEF Refetches

\* A request is for one preference, or for some of the profile.
LEMMA PutsKnown ==
    ASSUME NEW p \in Puts
    PROVE  \/ \E f \in Preferences : DOMAIN p = {f} /\ p[f] \in Options(f)
           \/ DOMAIN p \subseteq ProfileFields /\ \A f \in DOMAIN p : p[f] \in Positive
<1>1. CASE p \in [{"theme"} -> Themes]
  BY <1>1 DEF Preferences, Options
<1>2. CASE p \in [{"locale"} -> Locales]
  BY <1>2 DEF Preferences, Options
<1>3. CASE p \in UNION {[fs -> Positive] : fs \in (SUBSET ProfileFields) \ {{}}}
  BY <1>3
<1> QED
  BY <1>1, <1>2, <1>3 DEF Puts

LEMMA ProfileChoosesNothing == ASSUME NEW u, Profile(u), NEW f \in Preferences PROVE ~Chosen(u, f)
BY FieldsKnown DEF Profile, Chosen

LEMMA SameFollows ==
    ASSUME NEW us, NEW n, SameButFetch(n, us)
    PROVE  /\ Accepted(n) => Accepted(us)
           /\ InOrder(us) => InOrder(n)
           /\ \A shown, name : NameIsFollowed(us, shown, name) => NameIsFollowed(n, shown, name)
           /\ \A row, choice : RowFollows(us, row, choice) => RowFollows(n, row, choice)
<1>1. DOMAIN n = DOMAIN us /\ \A i \in DOMAIN us : /\ n[i].put = us[i].put /\ n[i].answer = us[i].answer
                                                  /\ n[i].served = us[i].served /\ n[i].ok = us[i].ok
  BY DEF SameButFetch
<1>2. \A i \in DOMAIN us : ProfileTold(n[i]) = ProfileTold(us[i])
  BY <1>1 DEF ProfileTold, Profile
<1>3. \A i \in DOMAIN us : \A f : Sent(n[i], f) = Sent(us[i], f)
  BY <1>1 DEF Sent, Chosen
<1>4. (Accepted(n) => Accepted(us)) /\ (InOrder(us) => InOrder(n))
  BY <1>1 DEF Accepted, InOrder
<1>5. ASSUME NEW shown, NEW name, NameIsFollowed(us, shown, name) PROVE NameIsFollowed(n, shown, name)
  BY <1>1, <1>2, <1>5 DEF NameIsFollowed
<1>6. ASSUME NEW row, NEW choice, RowFollows(us, row, choice) PROVE RowFollows(n, row, choice)
  BY <1>1, <1>3, <1>6 DEF RowFollows
<1> QED
  BY <1>4, <1>5, <1>6

LEMMA AppendedFollows ==
    ASSUME NEW us, NEW n, NEW u, DOMAIN us = 1 .. Len(us), Len(us) \in Nat, Appended(n, us, u), ~u.served
    PROVE  /\ Accepted(n) => Accepted(us)
           /\ InOrder(us) => InOrder(n)
           /\ \A shown, name : NameIsFollowed(us, shown, name) => NameIsFollowed(n, shown, name)
<1>1. /\ DOMAIN n = 1 .. Len(us) + 1 /\ n[Len(us) + 1] = u
      /\ \A i \in DOMAIN us : i \in DOMAIN n /\ i < Len(us) + 1 /\ n[i] = us[i]
      /\ \A i \in DOMAIN n : i = Len(us) + 1 \/ i \in DOMAIN us
  BY DEF Appended
<1>2. ~ProfileTold(u)
  BY DEF ProfileTold
<1>3. Accepted(n) => Accepted(us)
  BY <1>1 DEF Accepted
<1>4. ASSUME InOrder(us) PROVE InOrder(n)
  <2> SUFFICES ASSUME NEW i \in DOMAIN n, NEW j \in DOMAIN n, i < j, n[j].served PROVE n[i].served
    BY DEF InOrder
  <2>1. j \in DOMAIN us
    BY <1>1
  <2>2. i # Len(us) + 1
    BY <2>1
  <2> QED
    BY <1>1, <1>4, <2>1, <2>2 DEF InOrder
<1>5. ASSUME NEW shown, NEW name, NameIsFollowed(us, shown, name) PROVE NameIsFollowed(n, shown, name)
  <2>1. (\A i \in DOMAIN n : ~ProfileTold(n[i])) => shown = name
    BY <1>1, <1>5 DEF NameIsFollowed
  <2>2. ASSUME NEW i \in DOMAIN n, ProfileTold(n[i]), \A j \in DOMAIN n : i < j => ~ProfileTold(n[j])
        PROVE  n[i].answer.username = name
    <3>1. i \in DOMAIN us /\ n[i] = us[i]
      BY <1>1, <1>2, <2>2
    <3>2. \A j \in DOMAIN us : i < j => ~ProfileTold(us[j])
      BY <1>1, <2>2
    <3> QED
      BY <1>5, <2>2, <3>1, <3>2 DEF NameIsFollowed
  <2> QED
    BY <2>1, <2>2 DEF NameIsFollowed
<1> QED
  BY <1>3, <1>4, <1>5

\* A request that is appended has what is chosen, or changes no choice.
LEMMA AppendedRowFollows ==
    ASSUME NEW us, NEW n, NEW u, DOMAIN us = 1 .. Len(us), Len(us) \in Nat, Appended(n, us, u), ~u.served,
           NEW row, NEW choice, NEW new, RowFollows(us, row, choice),
           \A f \in DOMAIN new : IF Chosen(u, f) THEN u.put[f] = new[f] ELSE f \in DOMAIN choice /\ new[f] = choice[f]
    PROVE  RowFollows(n, row, new)
<1>1. /\ DOMAIN n = 1 .. Len(us) + 1 /\ n[Len(us) + 1] = u
      /\ \A i \in DOMAIN us : i \in DOMAIN n /\ i < Len(us) + 1 /\ n[i] = us[i]
      /\ \A i \in DOMAIN n : i = Len(us) + 1 \/ i \in DOMAIN us
      /\ Len(us) + 1 \in DOMAIN n
  BY DEF Appended
<1> SUFFICES ASSUME NEW f \in DOMAIN new
             PROVE  /\ (\A i \in DOMAIN n : ~Sent(n[i], f)) => row[f] = new[f]
                    /\ \A i \in DOMAIN n : Sent(n[i], f) /\ (\A j \in DOMAIN n : i < j => ~Sent(n[j], f))
                          => n[i].put[f] = new[f]
  BY DEF RowFollows
<1>2. CASE Chosen(u, f)
  <2>1. Sent(n[Len(us) + 1], f) /\ u.put[f] = new[f]
    BY <1>1, <1>2 DEF Sent
  <2>2. ASSUME NEW i \in DOMAIN n, \A j \in DOMAIN n : i < j => ~Sent(n[j], f) PROVE i = Len(us) + 1
    BY <1>1, <2>1, <2>2
  <2> QED
    BY <1>1, <2>1, <2>2
<1>3. CASE ~Chosen(u, f)
  <2>1. ~Sent(u, f) /\ f \in DOMAIN choice /\ new[f] = choice[f]
    BY <1>3 DEF Sent
  <2>2. /\ (\A i \in DOMAIN us : ~Sent(us[i], f)) => row[f] = choice[f]
        /\ \A i \in DOMAIN us : Sent(us[i], f) /\ (\A j \in DOMAIN us : i < j => ~Sent(us[j], f))
              => us[i].put[f] = choice[f]
    BY <2>1 DEF RowFollows
  <2>3. (\A i \in DOMAIN n : ~Sent(n[i], f)) => row[f] = new[f]
    BY <1>1, <2>1, <2>2
  <2>4. ASSUME NEW i \in DOMAIN n, Sent(n[i], f), \A j \in DOMAIN n : i < j => ~Sent(n[j], f)
        PROVE  n[i].put[f] = new[f]
    <3>1. i \in DOMAIN us /\ n[i] = us[i]
      BY <1>1, <2>1, <2>4
    <3>2. \A j \in DOMAIN us : i < j => ~Sent(us[j], f)
      BY <1>1, <2>4
    <3> QED
      BY <2>1, <2>2, <2>4, <3>1, <3>2
  <2> QED
    BY <2>3, <2>4
<1> QED
  BY <1>2, <1>3

\* What a request that brings a fetch does for the setting, and one that chooses nothing.
LEMMA AppendedSettingFollows ==
    ASSUME NEW us, NEW n, NEW u, DOMAIN us = 1 .. Len(us), Len(us) \in Nat, Appended(n, us, u),
           NEW rs, NEW has, NEW choice,
           u.refetch \/ ((\A f \in DOMAIN choice : ~Chosen(u, f)) /\ SettingFollows(us, rs, has, choice))
    PROVE  SettingFollows(n, rs, has, choice)
<1>1. /\ DOMAIN n = 1 .. Len(us) + 1 /\ n[Len(us) + 1] = u
      /\ \A i \in DOMAIN us : i \in DOMAIN n /\ n[i] = us[i]
      /\ \A i \in DOMAIN n : i = Len(us) + 1 \/ i \in DOMAIN us
      /\ Len(us) + 1 \in DOMAIN n /\ \A i \in DOMAIN n : i <= Len(us) + 1
  BY DEF Appended
<1>2. CASE u.refetch
  <2>1. n[Len(us) + 1].refetch
    BY <1>1, <1>2
  <2> QED
    BY <1>1, <2>1 DEF SettingFollows, FetchToCome
<1>3. CASE (\A f \in DOMAIN choice : ~Chosen(u, f)) /\ SettingFollows(us, rs, has, choice)
  <2> SUFFICES ASSUME NEW f \in DOMAIN choice
               PROVE  /\ \A i \in DOMAIN n : Chosen(n[i], f) => \E j \in DOMAIN n : i <= j /\ n[j].refetch
                      /\ (\A i \in DOMAIN n : ~Chosen(n[i], f)) => FetchToCome(n, rs) \/ Brought(rs, has, choice, f)
    BY DEF SettingFollows
  <2>1. /\ \A i \in DOMAIN us : Chosen(us[i], f) => \E j \in DOMAIN us : i <= j /\ us[j].refetch
        /\ (\A i \in DOMAIN us : ~Chosen(us[i], f)) => FetchToCome(us, rs) \/ Brought(rs, has, choice, f)
    BY <1>3 DEF SettingFollows
  <2>2. ASSUME NEW i \in DOMAIN n, Chosen(n[i], f) PROVE \E j \in DOMAIN n : i <= j /\ n[j].refetch
    <3>1. i \in DOMAIN us /\ Chosen(us[i], f)
      BY <1>1, <1>3, <2>2
    <3>2. PICK j \in DOMAIN us : i <= j /\ us[j].refetch
      BY <2>1, <3>1
    <3> QED
      BY <1>1, <3>2
  <2>3. FetchToCome(us, rs) => FetchToCome(n, rs)
    BY <1>1 DEF FetchToCome
  <2>4. (\A i \in DOMAIN n : ~Chosen(n[i], f)) => \A i \in DOMAIN us : ~Chosen(us[i], f)
    BY <1>1
  <2> QED
    BY <2>1, <2>2, <2>3, <2>4
<1> QED
  BY <1>2, <1>3

\* A request that is served and accepted.
LEMMA ServedFollows ==
    ASSUME NEW us, NEW n, NEW i \in DOMAIN us, NEW done, NEW user, ServedAt(n, us, i, done, user),
          DOMAIN us \subseteq Nat,
           ~us[i].served, \A j \in DOMAIN us : j < i => us[j].served
    PROVE  /\ Accepted(n) => Accepted(us)
           /\ InOrder(us) => InOrder(n)
           /\ \A rs, has, choice : SettingFollows(us, rs, has, choice) => SettingFollows(n, rs, has, choice)
<1>1. /\ DOMAIN n = DOMAIN us /\ \A j \in DOMAIN us : j # i => n[j] = us[j]
      /\ n[i].served /\ n[i].put = us[i].put /\ n[i].refetch = us[i].refetch
  BY DEF ServedAt
<1>2. Accepted(n) => Accepted(us)
  BY <1>1 DEF Accepted
<1>3. InOrder(us) => InOrder(n)
  BY <1>1 DEF InOrder
<1>4. ASSUME NEW rs, NEW has, NEW choice, SettingFollows(us, rs, has, choice) PROVE SettingFollows(n, rs, has, choice)
  <2>1. \A j \in DOMAIN us : n[j].refetch = us[j].refetch /\ \A f : Chosen(n[j], f) = Chosen(us[j], f)
    BY <1>1 DEF Chosen
  <2>2. FetchToCome(n, rs) = FetchToCome(us, rs)
    BY <1>1, <2>1 DEF FetchToCome
  <2> QED
    BY <1>1, <1>4, <2>1, <2>2 DEF SettingFollows
<1> QED
  BY <1>2, <1>3, <1>4

LEMMA ServedNameFollows ==
    ASSUME NEW us, NEW n, NEW i \in DOMAIN us, NEW done, NEW user, ServedAt(n, us, i, done, user),
          DOMAIN us \subseteq Nat,
           InOrder(us), ~us[i].served, NEW shown, NEW name, NameIsFollowed(us, shown, name), Profile(us[i])
                 \/ user.username = name
    PROVE  NameIsFollowed(n, shown, user.username)
<1>1. /\ DOMAIN n = DOMAIN us /\ \A j \in DOMAIN us : j # i => n[j] = us[j]
      /\ n[i].served /\ n[i].put = us[i].put /\ n[i].answer = user
  BY DEF ServedAt
<1>2. \A j \in DOMAIN us : i < j => ~ProfileTold(us[j])
  BY DEF InOrder, ProfileTold
<1>3. \A j \in DOMAIN us : j # i => (ProfileTold(n[j]) <=> ProfileTold(us[j]))
  BY <1>1
<1>4. CASE Profile(us[i])
  <2>1. ProfileTold(n[i])
    BY <1>1, <1>4 DEF ProfileTold, Profile
  <2>2. ASSUME NEW k \in DOMAIN n, ProfileTold(n[k]), \A j \in DOMAIN n : k < j => ~ProfileTold(n[j])
        PROVE  n[k].answer.username = user.username
    <3>1. ~(k < i) /\ ~(i < k)
      BY <1>1, <1>2, <1>3, <2>1, <2>2
    <3>2. k = i
      BY <1>1, <3>1
    <3> QED
      BY <1>1, <3>2
  <2> QED
    BY <1>1, <2>1, <2>2 DEF NameIsFollowed
<1>5. CASE ~Profile(us[i])
  <2>1. ~ProfileTold(n[i]) /\ ~ProfileTold(us[i]) /\ user.username = name
    BY <1>1, <1>5 DEF ProfileTold, Profile
  <2>2. \A j \in DOMAIN us : (ProfileTold(n[j]) <=> ProfileTold(us[j])) /\ (ProfileTold(us[j])
              => n[j].answer = us[j].answer)
    BY <1>1, <1>3, <2>1
  <2> QED
    BY <1>1, <2>1, <2>2 DEF NameIsFollowed
<1> QED
  BY <1>4, <1>5

LEMMA ServedRowFollows ==
    ASSUME NEW us, NEW n, NEW i \in DOMAIN us, NEW done, NEW user, ServedAt(n, us, i, done, user),
          DOMAIN us \subseteq Nat,
           ~us[i].served, \A j \in DOMAIN us : j < i => us[j].served,
           NEW row, NEW new, NEW choice, RowFollows(us, row, choice),
           \A f \in DOMAIN choice : IF Chosen(us[i], f) THEN new[f] = us[i].put[f] ELSE row[f] = choice[f]
                 => new[f] = choice[f]
    PROVE  RowFollows(n, new, choice)
<1>1. /\ DOMAIN n = DOMAIN us /\ \A j \in DOMAIN us : j # i => n[j] = us[j]
      /\ n[i].served /\ n[i].put = us[i].put
  BY DEF ServedAt
<1> SUFFICES ASSUME NEW f \in DOMAIN choice
             PROVE  /\ (\A k \in DOMAIN n : ~Sent(n[k], f)) => new[f] = choice[f]
                    /\ \A k \in DOMAIN n : Sent(n[k], f) /\ (\A j \in DOMAIN n : k < j => ~Sent(n[j], f))
                          => n[k].put[f] = choice[f]
  BY DEF RowFollows
<1>2. /\ (\A k \in DOMAIN us : ~Sent(us[k], f)) => row[f] = choice[f]
      /\ \A k \in DOMAIN us : Sent(us[k], f) /\ (\A j \in DOMAIN us : k < j => ~Sent(us[j], f))
            => us[k].put[f] = choice[f]
  BY DEF RowFollows
<1>3. /\ ~Sent(n[i], f) /\ (Sent(us[i], f) <=> Chosen(us[i], f))
      /\ \A j \in DOMAIN us : j # i => (Sent(n[j], f) <=> Sent(us[j], f)) /\ n[j].put = us[j].put
      /\ \A j \in DOMAIN us : j < i => ~Sent(us[j], f)
  BY <1>1 DEF Sent
<1>4. ASSUME \A k \in DOMAIN n : ~Sent(n[k], f) PROVE new[f] = choice[f]
  <2>1. \A k \in DOMAIN us : k # i => ~Sent(us[k], f)
    BY <1>1, <1>3, <1>4
  <2>2. CASE Chosen(us[i], f)
    <3>1. us[i].put[f] = choice[f]
      BY <1>2, <1>3, <2>1, <2>2
    <3> QED
      BY <2>2, <3>1
  <2>3. CASE ~Chosen(us[i], f)
    <3>1. row[f] = choice[f]
      BY <1>2, <1>3, <2>1, <2>3
    <3> QED
      BY <2>3, <3>1
  <2> QED
    BY <2>2, <2>3
<1>5. ASSUME NEW k \in DOMAIN n, Sent(n[k], f), \A j \in DOMAIN n : k < j => ~Sent(n[j], f)
      PROVE  n[k].put[f] = choice[f]
  <2>1. k # i /\ k \in DOMAIN us /\ Sent(us[k], f) /\ n[k].put = us[k].put
    BY <1>1, <1>3, <1>5
  <2>2. ~(k < i)
    BY <1>3, <2>1
  <2>3. \A j \in DOMAIN us : k < j => ~Sent(us[j], f)
    <3> SUFFICES ASSUME NEW j \in DOMAIN us, k < j PROVE ~Sent(us[j], f)
      OBVIOUS
    <3>1. j # i
      BY <2>1, <2>2
    <3> QED
      BY <1>1, <1>3, <1>5, <3>1
  <2> QED
    BY <1>2, <2>1, <2>3
<1> QED
  BY <1>4, <1>5

\* A request at the head whose answer says that it was accepted.
LEMMA GoneFollows ==
    ASSUME NEW us, NEW n, DOMAIN us = 1 .. Len(us), Len(us) \in Nat \ {0}, FirstGone(n, us), us[1].served, us[1].ok
    PROVE  /\ Accepted(n) => Accepted(us)
           /\ InOrder(us) => InOrder(n)
           /\ \A row, choice : RowFollows(us, row, choice) => RowFollows(n, row, choice)
<1>1. /\ DOMAIN n = 1 .. Len(us) - 1
      /\ \A k \in DOMAIN n : k + 1 \in DOMAIN us /\ n[k] = us[k + 1]
      /\ \A k \in DOMAIN us : k = 1 \/ (k - 1 \in DOMAIN n /\ n[k - 1] = us[k])
      /\ DOMAIN n \subseteq Nat /\ DOMAIN us \subseteq Nat
  <2>1. DOMAIN n = 1 .. Len(us) - 1 /\ \A k \in 1 .. Len(us) - 1 : n[k] = us[k + 1]
    BY DEF FirstGone
  <2>2. \A k \in 1 .. Len(us) - 1 : k + 1 \in 1 .. Len(us)
    OBVIOUS
  <2>3. \A k \in 1 .. Len(us) : k = 1 \/ (k - 1 \in 1 .. Len(us) - 1 /\ (k - 1) + 1 = k)
    OBVIOUS
  <2> QED
    BY <2>1, <2>2, <2>3
<1>2. Accepted(n) => Accepted(us)
  BY <1>1 DEF Accepted
<1>3. ASSUME InOrder(us) PROVE InOrder(n)
  <2> SUFFICES ASSUME NEW i \in DOMAIN n, NEW j \in DOMAIN n, i < j, n[j].served PROVE n[i].served
    BY DEF InOrder
  <2>1. i + 1 \in DOMAIN us /\ j + 1 \in DOMAIN us /\ i + 1 < j + 1 /\ us[j + 1].served /\ n[i] = us[i + 1]
    BY <1>1
  <2> QED
    BY <1>3, <2>1 DEF InOrder
<1>4. ASSUME NEW row, NEW choice, RowFollows(us, row, choice) PROVE RowFollows(n, row, choice)
  <2> SUFFICES ASSUME NEW f \in DOMAIN choice
               PROVE  /\ (\A i \in DOMAIN n : ~Sent(n[i], f)) => row[f] = choice[f]
                      /\ \A i \in DOMAIN n : Sent(n[i], f) /\ (\A j \in DOMAIN n : i < j => ~Sent(n[j], f))
                            => n[i].put[f] = choice[f]
    BY DEF RowFollows
  <2>1. /\ (\A i \in DOMAIN us : ~Sent(us[i], f)) => row[f] = choice[f]
        /\ \A i \in DOMAIN us : Sent(us[i], f) /\ (\A j \in DOMAIN us : i < j => ~Sent(us[j], f))
              => us[i].put[f] = choice[f]
    BY <1>4 DEF RowFollows
  <2>2. ~Sent(us[1], f)
    BY DEF Sent
  <2>3. (\A i \in DOMAIN n : ~Sent(n[i], f)) => row[f] = choice[f]
    BY <1>1, <2>1, <2>2
  <2>4. ASSUME NEW i \in DOMAIN n, Sent(n[i], f), \A j \in DOMAIN n : i < j => ~Sent(n[j], f)
        PROVE  n[i].put[f] = choice[f]
    <3>1. i + 1 \in DOMAIN us /\ n[i] = us[i + 1]
      BY <1>1
    <3>2. ASSUME NEW j \in DOMAIN us, i + 1 < j PROVE ~Sent(us[j], f)
      <4>1. j - 1 \in DOMAIN n /\ n[j - 1] = us[j] /\ i < j - 1
        BY <1>1, <3>2
      <4> QED
        BY <2>4, <4>1
    <3> QED
      BY <2>1, <2>4, <3>1, <3>2
  <2> QED
    BY <2>3, <2>4
<1> QED
  BY <1>2, <1>3, <1>4

LEMMA GoneNameFollows ==
    ASSUME NEW us, NEW n, DOMAIN us = 1 .. Len(us), Len(us) \in Nat \ {0}, FirstGone(n, us), us[1].served,
           NEW shown, NEW name, NameIsFollowed(us, shown, name)
    PROVE  NameIsFollowed(n, IF Profile(us[1]) THEN us[1].answer.username ELSE shown, name)
<1>1. /\ DOMAIN n = 1 .. Len(us) - 1
      /\ \A k \in DOMAIN n : k + 1 \in DOMAIN us /\ n[k] = us[k + 1]
      /\ \A k \in DOMAIN us : k = 1 \/ (k - 1 \in DOMAIN n /\ n[k - 1] = us[k])
      /\ DOMAIN n \subseteq Nat /\ DOMAIN us \subseteq Nat /\ 1 \in DOMAIN us
  <2>1. DOMAIN n = 1 .. Len(us) - 1 /\ \A k \in 1 .. Len(us) - 1 : n[k] = us[k + 1]
    BY DEF FirstGone
  <2>2. \A k \in 1 .. Len(us) - 1 : k + 1 \in 1 .. Len(us)
    OBVIOUS
  <2>3. \A k \in 1 .. Len(us) : k = 1 \/ (k - 1 \in 1 .. Len(us) - 1 /\ (k - 1) + 1 = k)
    OBVIOUS
  <2> QED
    BY <2>1, <2>2, <2>3
<1>2. /\ (\A i \in DOMAIN us : ~ProfileTold(us[i])) => shown = name
      /\ \A i \in DOMAIN us : ProfileTold(us[i]) /\ (\A j \in DOMAIN us : i < j => ~ProfileTold(us[j]))
            => us[i].answer.username = name
  BY DEF NameIsFollowed
<1>3. ProfileTold(us[1]) <=> Profile(us[1])
  BY DEF ProfileTold
<1> DEFINE now == IF Profile(us[1]) THEN us[1].answer.username ELSE shown
<1>4. ASSUME \A i \in DOMAIN n : ~ProfileTold(n[i]) PROVE now = name
  <2>1. \A i \in DOMAIN us : i # 1 => ~ProfileTold(us[i])
    BY <1>1, <1>4
  <2>2. CASE Profile(us[1])
    <3>1. us[1].answer.username = name
      BY <1>1, <1>2, <1>3, <2>1, <2>2
    <3> QED
      BY <2>2, <3>1
  <2>3. CASE ~Profile(us[1])
    <3>1. shown = name
      BY <1>2, <1>3, <2>1, <2>3
    <3> QED
      BY <2>3, <3>1
  <2> QED
    BY <2>2, <2>3
<1>5. ASSUME NEW i \in DOMAIN n, ProfileTold(n[i]), \A j \in DOMAIN n : i < j => ~ProfileTold(n[j])
      PROVE  n[i].answer.username = name
  <2>1. i + 1 \in DOMAIN us /\ n[i] = us[i + 1]
    BY <1>1
  <2>2. ASSUME NEW j \in DOMAIN us, i + 1 < j PROVE ~ProfileTold(us[j])
    <3>1. j - 1 \in DOMAIN n /\ n[j - 1] = us[j] /\ i < j - 1
      BY <1>1, <2>2
    <3> QED
      BY <1>5, <3>1
  <2> QED
    BY <1>2, <1>5, <2>1, <2>2
<1> QED
  BY <1>4, <1>5 DEF NameIsFollowed

\* The fetch that it asks for is to come.
LEMMA GoneSettingFollows ==
    ASSUME NEW us, NEW n, DOMAIN us = 1 .. Len(us), Len(us) \in Nat \ {0}, FirstGone(n, us),
           NEW rs, NEW ns, NEW has, NEW choice, SettingFollows(us, rs, has, choice),
           IF us[1].refetch THEN \E i \in DOMAIN ns : ~Read(ns[i]) ELSE ns = rs
    PROVE  SettingFollows(n, ns, has, choice)
<1>1. /\ DOMAIN n = 1 .. Len(us) - 1
      /\ \A k \in DOMAIN n : k + 1 \in DOMAIN us /\ n[k] = us[k + 1]
      /\ \A k \in DOMAIN us : k = 1 \/ (k - 1 \in DOMAIN n /\ n[k - 1] = us[k])
      /\ DOMAIN n \subseteq Nat /\ DOMAIN us \subseteq Nat /\ 1 \in DOMAIN us
  <2>1. DOMAIN n = 1 .. Len(us) - 1 /\ \A k \in 1 .. Len(us) - 1 : n[k] = us[k + 1]
    BY DEF FirstGone
  <2>2. \A k \in 1 .. Len(us) - 1 : k + 1 \in 1 .. Len(us)
    OBVIOUS
  <2>3. \A k \in 1 .. Len(us) : k = 1 \/ (k - 1 \in 1 .. Len(us) - 1 /\ (k - 1) + 1 = k)
    OBVIOUS
  <2> QED
    BY <2>1, <2>2, <2>3
<1> SUFFICES ASSUME NEW f \in DOMAIN choice
             PROVE  /\ \A i \in DOMAIN n : Chosen(n[i], f) => \E j \in DOMAIN n : i <= j /\ n[j].refetch
                    /\ (\A i \in DOMAIN n : ~Chosen(n[i], f)) => FetchToCome(n, ns) \/ Brought(ns, has, choice, f)
  BY DEF SettingFollows
<1>2. /\ \A i \in DOMAIN us : Chosen(us[i], f) => \E j \in DOMAIN us : i <= j /\ us[j].refetch
      /\ (\A i \in DOMAIN us : ~Chosen(us[i], f)) => FetchToCome(us, rs) \/ Brought(rs, has, choice, f)
  BY DEF SettingFollows
<1>3. ASSUME NEW i \in DOMAIN n, Chosen(n[i], f) PROVE \E j \in DOMAIN n : i <= j /\ n[j].refetch
  <2>1. i + 1 \in DOMAIN us /\ Chosen(us[i + 1], f)
    BY <1>1, <1>3
  <2>2. PICK j \in DOMAIN us : i + 1 <= j /\ us[j].refetch
    BY <1>2, <2>1
  <2>3. j - 1 \in DOMAIN n /\ n[j - 1].refetch /\ i <= j - 1
    BY <1>1, <2>2
  <2> QED
    BY <2>3
<1>4. ASSUME \A i \in DOMAIN n : ~Chosen(n[i], f) PROVE FetchToCome(n, ns) \/ Brought(ns, has, choice, f)
  <2>1. CASE us[1].refetch
    BY <2>1 DEF FetchToCome
  <2>2. ASSUME ~us[1].refetch, NEW j \in DOMAIN us, us[j].refetch PROVE FetchToCome(n, ns)
    <3>1. j # 1
      BY <2>2
    <3>2. j - 1 \in DOMAIN n /\ n[j - 1].refetch
      BY <1>1, <2>2, <3>1
    <3> QED
      BY <3>2 DEF FetchToCome
  <2>3. CASE ~us[1].refetch /\ Chosen(us[1], f)
    BY <1>1, <1>2, <2>2, <2>3
  <2>4. CASE ~us[1].refetch /\ ~Chosen(us[1], f)
    <3>1. \A i \in DOMAIN us : ~Chosen(us[i], f)
      BY <1>1, <1>4, <2>4
    <3>2. ns = rs /\ (FetchToCome(us, rs) \/ Brought(rs, has, choice, f))
      BY <1>2, <2>4, <3>1
    <3>3. CASE FetchToCome(us, rs)
      BY <2>2, <2>4, <3>2, <3>3 DEF FetchToCome
    <3> QED
      BY <3>2, <3>3
  <2> QED
    BY <2>1, <2>3, <2>4
<1> QED
  BY <1>3, <1>4

\* The settings are read by one of the fetches.
LEMMA ReadFollows ==
    ASSUME NEW us, NEW rs, NEW ns, NEW i \in DOMAIN rs, DOMAIN ns = DOMAIN rs, \A j \in DOMAIN rs : j # i
          => ns[j] = rs[j],
           ns[i].late = rs[i].late, Read(ns[i]), ~Read(rs[i]), NEW row, NEW has, NEW choice,
           \A f \in DOMAIN choice : row[f] = choice[f] => ns[i].read[f] = choice[f]
    PROVE  /\ OneAtATime(ns) => OneAtATime(rs)
           /\ OneAtATime(ns) /\ RowFollows(us, row, choice) /\ SettingFollows(us, rs, has, choice)
                => SettingFollows(us, ns, has, choice)
<1>1. OneAtATime(ns) => OneAtATime(rs)
  <2> SUFFICES ASSUME OneAtATime(ns) PROVE OneAtATime(rs)
    OBVIOUS
  <2>1. \A j \in DOMAIN rs : ~rs[j].late
    BY DEF OneAtATime
  <2>2. ASSUME NEW j \in DOMAIN rs, NEW k \in DOMAIN rs, Read(rs[j]), Read(rs[k]) PROVE j = k
    BY <2>2 DEF OneAtATime
  <2> QED
    BY <2>1, <2>2 DEF OneAtATime
<1>2. ASSUME OneAtATime(ns), RowFollows(us, row, choice), SettingFollows(us, rs, has, choice)
      PROVE  SettingFollows(us, ns, has, choice)
  <2> SUFFICES ASSUME NEW f \in DOMAIN choice, \A k \in DOMAIN us : ~Chosen(us[k], f), ~FetchToCome(us, ns)
               PROVE  Brought(ns, has, choice, f)
    BY <1>2 DEF SettingFollows
  <2>1. row[f] = choice[f]
    <3>1. \A k \in DOMAIN us : ~Sent(us[k], f)
      BY DEF Sent
    <3> QED
      BY <1>2, <3>1 DEF RowFollows
  <2>2. \A j \in DOMAIN ns : j = i
    BY <1>2 DEF FetchToCome, OneAtATime
  <2>3. ns # <<>>
    OBVIOUS
  <2> QED
    BY <2>1, <2>2, <2>3 DEF Brought
<1> QED
  BY <1>1, <1>2

\* An answer that no other has overtaken is taken over; what else was read is overtaken by it.
LEMMA TakenOver ==
    ASSUME NEW rs, NEW ns, NEW i \in DOMAIN rs, Read(rs[i]), ~rs[i].late,
           \A k \in DOMAIN rs : k = i \/ \E j \in DOMAIN ns : ns[j].read = rs[k].read
                 /\ (ns[j].late <=> rs[k].late \/ Read(rs[k])),
           \A j \in DOMAIN ns : \E k \in DOMAIN rs : ns[j].read = rs[k].read
                 /\ (ns[j].late <=> rs[k].late \/ Read(rs[k]))
    PROVE  /\ OneAtATime(ns) => OneAtATime(rs)
           /\ \A us, has, choice : OneAtATime(ns) /\ SettingFollows(us, rs, has, choice)
                => SettingFollows(us, ns, rs[i].read, choice)
<1> SUFFICES ASSUME OneAtATime(ns)
             PROVE  /\ OneAtATime(rs)
                    /\ \A us, has, choice : SettingFollows(us, rs, has, choice)
                          => SettingFollows(us, ns, rs[i].read, choice)
  OBVIOUS
<1>1. \A k \in DOMAIN rs : k = i \/ (~Read(rs[k]) /\ ~rs[k].late)
  BY DEF OneAtATime
<1>2. OneAtATime(rs)
  BY <1>1 DEF OneAtATime
<1>3. ASSUME NEW us, NEW has, NEW choice, SettingFollows(us, rs, has, choice)
      PROVE  SettingFollows(us, ns, rs[i].read, choice)
  <2> SUFFICES ASSUME NEW f \in DOMAIN choice, \A k \in DOMAIN us : ~Chosen(us[k], f), ~FetchToCome(us, ns)
               PROVE  Brought(ns, rs[i].read, choice, f)
    BY <1>3 DEF SettingFollows
  <2>1. FetchToCome(us, rs) => FetchToCome(us, ns)
    <3>1. ASSUME NEW k \in DOMAIN rs, ~Read(rs[k]) PROVE \E j \in DOMAIN ns : ~Read(ns[j])
      <4>1. k # i
        BY <3>1
      <4>2. PICK j \in DOMAIN ns : ns[j].read = rs[k].read
        BY <4>1
      <4> QED
        BY <3>1, <4>2 DEF Read
    <3> QED
      BY <3>1 DEF FetchToCome
  <2>2. Brought(rs, has, choice, f)
    BY <1>3, <2>1 DEF SettingFollows
  <2>3. rs[i].read[f] = choice[f]
    BY <2>2 DEF Brought
  <2>4. \A j \in DOMAIN ns : ns[j].read[f] = choice[f]
    BY <2>2 DEF Brought
  <2> QED
    BY <2>3, <2>4 DEF Brought
<1> QED
  BY <1>2, <1>3

-----------------------------------------------------------------------------

LEMMA FallbacksKnown ==
    ASSUME NEW f \in Preferences, NEW v, ScreenTyped
    PROVE  WithFallback(f, v) \in Options(f) /\ (v \in Options(f) => WithFallback(f, v) = v)
<1>1. CASE f = "theme"
  BY <1>1 DEF WithFallback, ThemeWithFallback, Options, Themes
<1>2. CASE f = "locale"
  BY <1>2 DEF WithFallback, LocaleWithFallback, Options, Locales
<1> QED
  BY <1>1, <1>2 DEF Preferences

\* Theme and language of values are kept and shown.
LEMMA Loaded ==
    ASSUME NEW values, Load(values), ScreenTyped, applied["locale"] = preferred["locale"],
           \A f \in DOMAIN values : f \in Preferences /\ values[f] \in Options(f)
    PROVE  /\ ScreenTyped' /\ applied'["locale"] = preferred'["locale"]
           /\ \A f \in Preferences : preferred'[f] = IF f \in DOMAIN values THEN values[f] ELSE preferred[f]
           /\ applied'["theme"] = IF "theme" \in DOMAIN values THEN Resolved(values["theme"]) ELSE applied["theme"]
<1> DEFINE shown == [f \in DOMAIN values |-> IF f = "theme" THEN Resolved(values[f]) ELSE values[f]]
<1>1. preferred' = Over(values, preferred) /\ applied' = Over(shown, applied)
  BY DEF Load
<1>2. DOMAIN shown = DOMAIN values /\ \A f \in DOMAIN values :
            shown[f] = IF f = "theme" THEN Resolved(values[f]) ELSE values[f]
  OBVIOUS
<1> HIDE DEF shown
<1>3. DOMAIN preferred = Preferences /\ DOMAIN applied = Preferences /\ "theme" \in Preferences
            /\ "locale" \in Preferences
  BY DEF ScreenTyped, Settings, Preferences
<1>4. \A f \in Preferences : preferred'[f] = IF f \in DOMAIN values THEN values[f] ELSE preferred[f]
  <2>1. /\ \A x \in DOMAIN values : Over(values, preferred)[x] = values[x]
        /\ \A x \in DOMAIN preferred \ DOMAIN values : Over(values, preferred)[x] = preferred[x]
    BY Replaced
  <2> QED
    BY <1>1, <1>3, <2>1
<1>5. DOMAIN applied' = Preferences /\ \A f \in Preferences :
            applied'[f] = IF f \in DOMAIN values THEN shown[f] ELSE applied[f]
  <2>1. /\ DOMAIN Over(shown, applied) = DOMAIN shown \cup DOMAIN applied
        /\ \A x \in DOMAIN shown : Over(shown, applied)[x] = shown[x]
        /\ \A x \in DOMAIN applied \ DOMAIN shown : Over(shown, applied)[x] = applied[x]
    BY Replaced
  <2>2. DOMAIN values \subseteq Preferences
    OBVIOUS
  <2> QED
    BY <1>1, <1>2, <1>3, <2>1, <2>2
<1>6. ScreenTyped'
  <2>1. \A f \in Preferences : preferred'[f] \in Options(f)
    BY <1>4 DEF ScreenTyped
  <2>2. preferred' \in [Preferences -> Values]
    <3>1. \A f \in DOMAIN values : values[f] \in Values
      BY OptionsKnown
    <3>2. preferred \in [Preferences -> Values] /\ DOMAIN values \subseteq Preferences
      BY DEF ScreenTyped, Settings
    <3> QED
      BY <1>1, <3>1, <3>2, ReplacedIn
  <2> QED
    BY <1>5, <2>1, <2>2 DEF ScreenTyped, Settings
<1>7. applied'["locale"] = preferred'["locale"]
  BY <1>2, <1>3, <1>4, <1>5
<1>8. applied'["theme"] = IF "theme" \in DOMAIN values THEN Resolved(values["theme"]) ELSE applied["theme"]
  BY <1>2, <1>3, <1>5
<1> QED
  BY <1>4, <1>6, <1>7, <1>8

\* The settings of the server arrive.
LEMMA EffectsAreSound ==
    ASSUME NEW new \in Settings, \A f \in Preferences : new[f] # "undefined", Effects(new), ScreenTyped, ScreenSound,
           ChoiceTyped, UNCHANGED scheme, (UNCHANGED <<wanted, member>> /\ member # Nobody) \/ wanted' = <<>>
    PROVE  ScreenTyped' /\ ScreenSound' /\ setting' = new
<1> DEFINE values == [f \in Reloaded(new) |-> WithFallback(f, new[f])]
<1>1. setting' = new /\ Load(values) /\ astray' = (astray /\ "theme" \notin Reloaded(new))
  BY DEF Effects
<1>2. Reloaded(new) = {f \in Preferences : new[f] # setting[f]}
  <2>1. new # NoSetting
    BY RowsKnown DEF Preferences
  <2> QED
    BY <2>1 DEF Reloaded
<1>3. /\ DOMAIN values = Reloaded(new)
      /\ \A f \in DOMAIN values : f \in Preferences /\ values[f] \in Options(f) /\ (new[f] \in Options(f)
            => values[f] = new[f])
  BY <1>2, FallbacksKnown
<1> HIDE DEF values
<1>4. /\ ScreenTyped' /\ applied'["locale"] = preferred'["locale"]
      /\ \A f \in Preferences : preferred'[f] = IF f \in DOMAIN values THEN values[f] ELSE preferred[f]
      /\ applied'["theme"] = IF "theme" \in DOMAIN values THEN Resolved(values["theme"]) ELSE applied["theme"]
  <2>1. applied["locale"] = preferred["locale"]
    BY DEF ScreenSound
  <2> QED
    BY <1>1, <1>3, <2>1, Loaded
<1>5. ASSUME ~astray' PROVE applied'["theme"] = Resolved(preferred["theme"])'
  <2>1. "theme" \in Preferences
    BY DEF Preferences
  <2>2. CASE "theme" \in DOMAIN values
    BY <1>4, <2>1, <2>2 DEF Resolved
  <2>3. CASE "theme" \notin DOMAIN values
    <3>1. ~astray
      BY <1>1, <1>3, <1>5, <2>3
    <3> QED
      BY <1>4, <2>1, <2>3, <3>1 DEF Resolved, ScreenSound
  <2> QED
    BY <2>2, <2>3
<1>6. ASSUME NEW f \in DOMAIN wanted'
      PROVE  (f = "theme" /\ astray') \/ preferred'[f] = wanted'[f] \/ (member' # Nobody /\ setting'[f] # wanted'[f])
  <2>1. UNCHANGED <<wanted, member>> /\ f \in DOMAIN wanted /\ member # Nobody
    BY <1>6
  <2>2. f \in Preferences /\ wanted[f] \in Options(f)
    BY <2>1 DEF ChoiceTyped
  <2>3. CASE f \in DOMAIN values /\ new[f] = wanted[f]
    BY <1>3, <1>4, <2>1, <2>2, <2>3
  <2>4. CASE f \in DOMAIN values /\ new[f] # wanted[f] /\ member # Nobody
    BY <1>1, <2>1, <2>4
  <2>5. CASE f \notin DOMAIN values
    <3>1. new[f] = setting[f] /\ preferred'[f] = preferred[f] /\ (f = "theme" /\ astray => astray')
      BY <1>1, <1>2, <1>3, <1>4, <2>2, <2>5
    <3>2. (f = "theme" /\ astray) \/ preferred[f] = wanted[f] \/ (member # Nobody /\ setting[f] # wanted[f])
      BY <2>1 DEF ScreenSound
    <3> QED
      BY <1>1, <2>1, <3>1, <3>2
  <2> QED
    BY <2>3, <2>4, <2>5
<1> QED
  BY <1>1, <1>4, <1>5, <1>6 DEF ScreenSound

-----------------------------------------------------------------------------

LEMMA NothingIn == DOMAIN <<>> = {} /\ \A S : <<>> \in Seq(S)
OBVIOUS

LEMMA QueueKnown ==
    ASSUME NEW S, NEW s \in Seq(S)
    PROVE  DOMAIN s = 1 .. Len(s) /\ Len(s) \in Nat /\ \A i \in DOMAIN s : s[i] \in S
OBVIOUS

LEMMA AppendKnown ==
    ASSUME NEW S, NEW s \in Seq(S), NEW e \in S, NEW n, n = Append(s, e)
    PROVE  /\ n \in Seq(S) /\ Len(n) = Len(s) + 1 /\ DOMAIN n = 1 .. Len(s) + 1
           /\ n[Len(s) + 1] = e /\ \A i \in 1 .. Len(s) : n[i] = s[i]
OBVIOUS

\* A queue in which each entry is another.
LEMMA MappedKnown ==
    ASSUME NEW S, NEW s \in Seq(S), NEW n, DOMAIN n = DOMAIN s, n = [i \in DOMAIN n |-> n[i]],
           \A i \in DOMAIN s : n[i] \in S
    PROVE  n \in Seq(S) /\ Len(n) = Len(s)
<1>1. DOMAIN n = 1 .. Len(s) /\ Len(s) \in Nat
  BY QueueKnown
<1>2. n \in [1 .. Len(s) -> S]
  BY <1>1
<1> QED
  BY <1>1, <1>2

LEMMA UpdateGone ==
    ASSUME updates \in Seq(Updates), NEW i \in 1 .. Len(updates), NEW n, n = RemoveAt(updates, i)
    PROVE  /\ n \in Seq(Updates) /\ Len(n) = Len(updates) - 1 /\ DOMAIN n = 1 .. Len(updates) - 1
           /\ \A k \in 1 .. Len(updates) - 1 : n[k] = IF k < i THEN updates[k] ELSE updates[k + 1]
<1>1. ASSUME NEW k \in 1 .. Len(updates) - 1 PROVE n[k] = IF k < i THEN updates[k] ELSE updates[k + 1]
  <2>1. k < i => n[k] = updates[k]
    BY EntryWithoutOne
  <2>2. ~(k < i) => n[k] = updates[k + 1]
    BY EntryWithoutOne
  <2> QED
    BY <2>1, <2>2
<1> QED
  BY <1>1, WithoutOne

LEMMA UpdateIs ==
    \A p \in Puts, q \in {"menu", "page", "dialog"}, as \in Positive, served, ok, refetch, own \in BOOLEAN,
          w \in Users :
        [put |-> p, place |-> q, as |-> as, served |-> served, ok |-> ok, answer |-> w, refetch |-> refetch,
              own |-> own]
            \in Updates
BY DEF Updates

LEMMA RequestMade ==
    ASSUME NEW p \in Puts, NEW place \in {"menu", "page", "dialog"}, NEW own \in BOOLEAN, account \in Users,
          member \in Users,
           NEW u, u = Request(p, place, own)
    PROVE  u \in Updates /\ u.put = p /\ ~u.served /\ (u.refetch <=> place # "dialog") /\ (u.own <=> own)
<1> DEFINE as == member.username
           refetch == place # "dialog"
           f == FALSE
<1>1. as \in Positive /\ refetch \in BOOLEAN /\ f \in BOOLEAN /\ ~f /\ (refetch <=> place # "dialog")
  BY DEF Users, ProfileFields
<1>2. u = [put |-> p, place |-> place, as |-> as, served |-> f, ok |-> f, answer |-> account,
           refetch |-> refetch, own |-> own]
  BY DEF Request
<1> HIDE DEF as, refetch, f
<1>3. u.put = p /\ (u.served <=> f) /\ (u.refetch <=> refetch) /\ (u.own <=> own)
  BY <1>1, <1>2
<1>4. u \in Updates
  <2>1. [put |-> p, place |-> place, as |-> as, served |-> f, ok |-> f, answer |-> account, refetch |-> refetch,
              own |-> own]
           \in Updates
    BY <1>1, UpdateIs, Zenon
  <2> QED
    BY <1>2, <2>1, Zenon
<1> QED
  BY <1>1, <1>3, <1>4

LEMMA UnheardKnown ==
    ASSUME NEW place, updates \in Seq(Updates), NEW n, n = Unheard(place)
    PROVE  n \in Seq(Updates) /\ Len(n) = Len(updates) /\ SameButFetch(n, updates)
<1>1. DOMAIN n = DOMAIN updates /\ n = [i \in DOMAIN n |-> n[i]]
  BY DEF Unheard
<1>2. \A i \in DOMAIN updates : n[i] = [updates[i] EXCEPT !.refetch = @ /\ updates[i].place # place]
  BY DEF Unheard
<1>3. ASSUME NEW i \in DOMAIN updates
      PROVE  /\ n[i] \in Updates /\ n[i].put = updates[i].put /\ n[i].served = updates[i].served
             /\ n[i].ok = updates[i].ok /\ n[i].answer = updates[i].answer /\ n[i].own = updates[i].own
  <2> DEFINE heard == updates[i].refetch /\ updates[i].place # place
             u == updates[i]
  <2>1. u \in Updates /\ heard \in BOOLEAN
    BY QueueKnown
  <2>2. n[i] = [u EXCEPT !.refetch = heard]
    BY <1>2
  <2> HIDE DEF heard, u
  <2>3. /\ n[i] \in Updates /\ n[i].put = u.put /\ n[i].served = u.served
        /\ n[i].ok = u.ok /\ n[i].answer = u.answer /\ n[i].own = u.own
    BY <2>1, <2>2 DEF Updates
  <2> QED
    BY <2>3 DEF u
<1>4. n \in Seq(Updates) /\ Len(n) = Len(updates)
  BY <1>1, <1>3, MappedKnown
<1> QED
  BY <1>1, <1>3, <1>4 DEF SameButFetch

LEMMA AccountSoundAtFirst == AccountInit => AccountSound
<1> SUFFICES ASSUME AccountInit PROVE AccountSound
  OBVIOUS
<1>1. /\ general = NoRow \/ general = [theme |-> "system", locale |-> "de"]
      /\ account = [username |-> 1, description |-> 1]
      /\ preferred \in [theme : Themes, locale : {"en"}]
      /\ applied = [theme |-> Resolved(preferred.theme), locale |-> "en"]
      /\ member = Nobody /\ setting = NoSetting /\ updates = <<>> /\ refetches = <<>> /\ wanted = <<>>
      /\ profileDialog = [fields |-> <<>>, edited |-> {}, stale |-> FALSE] /\ ~foreign
  BY DEF AccountInit
<1>2. preferred = [theme |-> preferred["theme"], locale |-> "en"] /\ preferred["theme"] \in Themes
            /\ preferred["locale"] = "en"
  BY <1>1
<1>3. ScreenTyped
  <2>1. DOMAIN preferred = Preferences /\ preferred = [f \in Preferences |-> preferred[f]]
    BY <1>2 DEF Preferences
  <2>2. \A f \in Preferences : preferred[f] \in Options(f)
    BY <1>2 DEF Preferences, Options, Locales
  <2>3. \A f \in Preferences : preferred[f] \in Values
    BY <2>2, OptionsKnown
  <2>4. DOMAIN applied = Preferences
    BY <1>1 DEF Preferences
  <2> QED
    BY <2>1, <2>2, <2>3, <2>4 DEF ScreenTyped, Settings
<1>4. RowTyped
  <2>1. CASE general = NoRow
    BY <2>1, RowsKnown DEF RowTyped
  <2>2. CASE general = [theme |-> "system", locale |-> "de"]
    <3>1. DOMAIN general = Preferences /\ general = [f \in Preferences |-> general[f]]
      BY <2>2 DEF Preferences
    <3>2. \A f \in Preferences : general[f] \in Options(f)
      BY <2>2 DEF Preferences, Options, Locales, Themes
    <3> QED
      BY <3>1, <3>2, OptionsKnown DEF RowTyped, Settings
  <2> QED
    BY <1>1, <2>1, <2>2
<1>5. UserTyped
  <2>1. account \in Users
    BY <1>1 DEF Users, ProfileFields, Positive
  <2> QED
    BY <1>1, <2>1, RowsKnown DEF UserTyped
<1>6. ChoiceTyped /\ QueuesTyped
  BY <1>1, NothingIn DEF ChoiceTyped, QueuesTyped
<1>7. ScreenSound
  BY <1>1, <1>2, NothingIn DEF ScreenSound
<1>8. DialogSound /\ ChoicesSound
  BY <1>1, NothingIn DEF DialogSound, ChoicesSound
<1> QED
  BY <1>3, <1>4, <1>5, <1>6, <1>7, <1>8 DEF AccountSound, AccountTyped

-----------------------------------------------------------------------------

LEMMA ReportKnown ==
    ASSUME RowTyped, NEW new, new = Reported(general)
    PROVE  /\ new \in Settings /\ \A f \in Preferences : new[f] # "undefined"
           /\ \A f \in Preferences : \A v \in Options(f) : general[f] = v => new[f] = v
<1>1. CASE general = NoRow
  <2>1. new = [theme |-> "", locale |-> "en"]
    BY <1>1 DEF Reported
  <2>2. DOMAIN new = Preferences /\ new = [f \in Preferences |-> new[f]]
              /\ \A f \in Preferences : new[f] \in {"", "en"}
    <3> DEFINE none == ""
               en == "en"
    <3>1. new = [theme |-> none, locale |-> en]
      BY <2>1
    <3> HIDE DEF none, en
    <3>2. DOMAIN new = Preferences /\ new = [f \in Preferences |-> new[f]]
                /\ \A f \in Preferences : new[f] \in {none, en}
      BY <3>1 DEF Preferences
    <3> QED
      BY <3>2 DEF none, en
  <2>3. {"", "en"} \subseteq Values
    BY DEF Values, Locales
  <2>4. new \in Settings
    BY <2>2, <2>3 DEF Settings
  <2>5. \A f \in Preferences : \A v \in Options(f) : general[f] # v
    BY <1>1, RowsKnown, OptionsKnown
  <2> QED
    BY <2>2, <2>4, <2>5
<1>2. CASE general # NoRow
  BY <1>2 DEF Reported, RowTyped
<1> QED
  BY <1>1, <1>2

LEMMA SignInIsSound == ASSUME AccountSound, SignInAs PROVE AccountSound'
<1>1. /\ member = Nobody /\ member' = account /\ Effects(Reported(general)) /\ profileDialog' = FreshDialog(account)
      /\ wanted' = <<>> /\ UNCHANGED <<general, account, scheme, updates, refetches, raced, broken, unfetched,
                                       foreign>>
  BY DEF SignInAs
<1>0. ScreenTyped /\ RowTyped /\ ChoiceTyped /\ QueuesTyped /\ UserTyped /\ ScreenSound /\ DialogSound
  BY DEF AccountSound, AccountTyped
<1>2. updates = <<>> /\ refetches = <<>> /\ account \in Users /\ account # Nobody
  BY <1>0, <1>1, NobodyKnown DEF UserTyped
<1> DEFINE new == Reported(general)
<1>3. new \in Settings /\ \A f \in Preferences : new[f] # "undefined"
  BY <1>0, ReportKnown
<1>4. Effects(new)
  BY <1>1
<1> HIDE DEF new
<1>5. ScreenTyped' /\ ScreenSound' /\ setting' = new
  BY <1>0, <1>1, <1>3, <1>4, EffectsAreSound
<1>6. profileDialog'.fields = account /\ profileDialog'.edited = {}
            /\ DOMAIN profileDialog' = {"fields", "edited", "stale"}
  BY <1>1 DEF FreshDialog
<1>7. UserTyped'
  BY <1>1, <1>2, <1>3, <1>5, <1>6 DEF UserTyped
<1>8. RowTyped' /\ ChoiceTyped' /\ QueuesTyped'
  BY <1>0, <1>1, NothingIn DEF RowTyped, ChoiceTyped, QueuesTyped
<1>9. DialogSound'
  BY <1>0, <1>1, <1>6 DEF DialogSound
<1>10. ChoicesSound'
  <2>1. updates' = <<>> /\ refetches' = <<>> /\ wanted' = <<>> /\ member' = account /\ account' = account
    BY <1>1, <1>2
  <2>2. InOrder(updates)' /\ NameIsFollowed(updates, member.username, account.username)'
        /\ RowFollows(updates, general, wanted)' /\ SettingFollows(updates, refetches, setting, wanted)'
    BY <2>1, NothingIn DEF InOrder, NameIsFollowed, RowFollows, SettingFollows
  <2> QED
    BY <2>2 DEF ChoicesSound
<1> QED
  BY <1>5, <1>7, <1>8, <1>9, <1>10 DEF AccountSound, AccountTyped

LEMMA SchemeIsSound == ASSUME AccountSound, SystemThemeChanges PROVE AccountSound'
<1>1. /\ IF listening
         THEN /\ preferred' = [preferred EXCEPT !.theme = "system"] /\ applied' = [applied EXCEPT !.theme = scheme']
              /\ astray' = (preferred.theme # "system" \/ astray)
         ELSE astray' = (preferred.theme = "system" \/ astray) /\ UNCHANGED <<preferred, applied>>
      /\ UNCHANGED <<general, account, member, setting, updates, refetches, wanted, profileDialog, raced, broken,
                     unfetched, foreign>>
  BY DEF SystemThemeChanges
<1>0. ScreenTyped /\ RowTyped /\ ChoiceTyped /\ QueuesTyped /\ UserTyped /\ ScreenSound /\ DialogSound /\ ChoicesSound
  BY DEF AccountSound, AccountTyped
<1>2. DOMAIN preferred = Preferences /\ DOMAIN applied = Preferences /\ "theme" \in Preferences
            /\ "locale" \in Preferences
  BY <1>0 DEF ScreenTyped, Settings, Preferences
<1>3. CASE listening
  <2>1. /\ preferred' = [preferred EXCEPT !["theme"] = "system"] /\ applied' = [applied EXCEPT !["theme"] = scheme']
        /\ astray' = (preferred["theme"] # "system" \/ astray)
    BY <1>1, <1>3
  <2>2. /\ preferred'["theme"] = "system" /\ preferred'["locale"] = preferred["locale"]
        /\ applied'["theme"] = scheme' /\ applied'["locale"] = applied["locale"] /\ DOMAIN applied' = Preferences
    BY <1>2, <2>1
  <2>3. ScreenTyped'
    <3>1. "system" \in Options("theme") /\ "system" \in Values
      BY DEF Options, Themes, Values
    <3>2. preferred' \in Settings
      BY <1>0, <2>1, <3>1 DEF ScreenTyped, Settings
    <3>3. \A f \in Preferences : preferred'[f] \in Options(f)
      <4>1. \A f \in Preferences : f = "theme" \/ f = "locale"
        BY DEF Preferences
      <4>2. preferred["locale"] \in Options("locale")
        BY <1>0, <1>2 DEF ScreenTyped
      <4> QED
        BY <2>2, <3>1, <4>1, <4>2
    <3> QED
      BY <2>2, <3>2, <3>3 DEF ScreenTyped
  <2>4. applied'["theme"] = Resolved(preferred["theme"])'
    BY <2>2 DEF Resolved
  <2>5. ASSUME NEW f \in DOMAIN wanted
        PROVE  (f = "theme" /\ astray') \/ preferred'[f] = wanted[f] \/ (member # Nobody /\ setting[f] # wanted[f])
    <3>1. (f = "theme" /\ astray) \/ preferred[f] = wanted[f] \/ (member # Nobody /\ setting[f] # wanted[f])
      BY <1>0 DEF ScreenSound
    <3>2. f \in {"theme", "locale"}
      BY <1>0 DEF ChoiceTyped, Preferences
    <3>3. astray => astray'
      BY <2>1
    <3>4. f = "theme" => astray' \/ preferred'[f] = preferred[f]
      BY <2>1, <2>2
    <3> QED
      BY <2>2, <3>1, <3>2, <3>3, <3>4
  <2>6. ScreenSound'
    BY <1>0, <1>1, <2>2, <2>4, <2>5 DEF ScreenSound
  <2> QED
    BY <2>3, <2>6, <1>0, <1>1 DEF AccountSound, AccountTyped, RowTyped, ChoiceTyped, QueuesTyped, UserTyped,
       DialogSound, ChoicesSound
<1>4. CASE ~listening
  <2>1. astray' = (preferred["theme"] = "system" \/ astray) /\ UNCHANGED <<preferred, applied>>
    BY <1>1, <1>4
  <2>2. ~astray' => ~astray /\ Resolved(preferred["theme"])' = Resolved(preferred["theme"])
    BY <2>1 DEF Resolved
  <2>3. ASSUME NEW f \in DOMAIN wanted
        PROVE  (f = "theme" /\ astray') \/ preferred[f] = wanted[f] \/ (member # Nobody /\ setting[f] # wanted[f])
    BY <1>0, <2>1 DEF ScreenSound
  <2>4. ScreenSound'
    BY <1>0, <1>1, <2>1, <2>2, <2>3 DEF ScreenSound
  <2>5. ScreenTyped'
    BY <1>0, <2>1 DEF ScreenTyped
  <2> QED
    BY <2>4, <2>5, <1>0, <1>1 DEF AccountSound, AccountTyped, RowTyped, ChoiceTyped, QueuesTyped, UserTyped,
       DialogSound, ChoicesSound
<1> QED
  BY <1>3, <1>4

\* A choice is applied and remembered.
LEMMA ChosenIsSound ==
    ASSUME AccountSound, NEW f \in Preferences, NEW value \in Options(f), Load(Only(f, value)),
           wanted' = Over(Only(f, value), wanted), astray' = (astray /\ f # "theme"), UNCHANGED <<scheme, member,
                                                                                                  setting>>
    PROVE  /\ ScreenTyped' /\ ScreenSound' /\ ChoiceTyped'
           /\ \A x \in DOMAIN wanted' : IF x = f THEN wanted'[x] = value ELSE x \in DOMAIN wanted
                 /\ wanted'[x] = wanted[x]
<1>0. ScreenTyped /\ ScreenSound /\ ChoiceTyped
  BY DEF AccountSound, AccountTyped
<1> DEFINE values == Only(f, value)
<1>1. DOMAIN values = {f} /\ values[f] = value /\ Load(values) /\ wanted' = Over(values, wanted)
  BY OneField
<1> HIDE DEF values
<1>2. /\ ScreenTyped' /\ applied'["locale"] = preferred'["locale"]
      /\ \A x \in Preferences : preferred'[x] = IF x \in DOMAIN values THEN values[x] ELSE preferred[x]
      /\ applied'["theme"] = IF "theme" \in DOMAIN values THEN Resolved(values["theme"]) ELSE applied["theme"]
  <2>1. applied["locale"] = preferred["locale"]
    BY <1>0 DEF ScreenSound
  <2>2. \A x \in DOMAIN values : x \in Preferences /\ values[x] \in Options(x)
    BY <1>1
  <2> QED
    BY <1>0, <1>1, <2>1, <2>2, Loaded
<1>3. \A x \in DOMAIN wanted' : IF x = f THEN wanted'[x] = value ELSE x \in DOMAIN wanted /\ wanted'[x] = wanted[x]
  <2>1. /\ DOMAIN Over(values, wanted) = DOMAIN values \cup DOMAIN wanted
        /\ \A x \in DOMAIN values : Over(values, wanted)[x] = values[x]
        /\ \A x \in DOMAIN wanted \ DOMAIN values : Over(values, wanted)[x] = wanted[x]
    BY Replaced
  <2> QED
    BY <1>1, <2>1
<1>4. ChoiceTyped'
  BY <1>0, <1>3 DEF ChoiceTyped
<1>5. ASSUME ~astray' PROVE applied'["theme"] = Resolved(preferred["theme"])'
  <2>1. "theme" \in Preferences
    BY DEF Preferences
  <2>2. CASE f = "theme"
    BY <1>1, <1>2, <2>1, <2>2 DEF Resolved
  <2>3. CASE f # "theme"
    BY <1>0, <1>1, <1>2, <1>5, <2>1, <2>3 DEF Resolved, ScreenSound
  <2> QED
    BY <2>2, <2>3
<1>6. ASSUME NEW x \in DOMAIN wanted'
      PROVE  (x = "theme" /\ astray') \/ preferred'[x] = wanted'[x] \/ (member' # Nobody /\ setting'[x] # wanted'[x])
  <2>1. x \in Preferences
    BY <1>4 DEF ChoiceTyped
  <2>2. CASE x = f
    BY <1>1, <1>2, <1>3, <2>1, <2>2
  <2>3. CASE x # f
    <3>1. x \in DOMAIN wanted /\ wanted'[x] = wanted[x] /\ preferred'[x] = preferred[x]
      BY <1>1, <1>2, <1>3, <2>1, <2>3
    <3>2. x = "theme" /\ astray => astray'
      BY <2>3
    <3>3. (x = "theme" /\ astray) \/ preferred[x] = wanted[x] \/ (member # Nobody /\ setting[x] # wanted[x])
      BY <1>0, <3>1 DEF ScreenSound
    <3> QED
      BY <3>1, <3>2, <3>3
  <2> QED
    BY <2>2, <2>3
<1> QED
  BY <1>2, <1>3, <1>4, <1>5, <1>6 DEF ScreenSound

LEMMA GuestPicksIsSound ==
    ASSUME AccountSound, NEW f \in Preferences, NEW value \in Options(f), GuestPicks(f, value) PROVE AccountSound'
<1>1. /\ member = Nobody /\ Load(Only(f, value)) /\ wanted' = Over(Only(f, value), wanted) /\ astray' = (astray
            /\ f # "theme")
      /\ UNCHANGED <<general, account, scheme, member, setting, updates, refetches, profileDialog, raced, broken,
                     unfetched, foreign>>
  BY DEF GuestPicks
<1>2. ScreenTyped' /\ ScreenSound' /\ ChoiceTyped'
  BY <1>1, ChosenIsSound
<1>3. (RowTyped /\ QueuesTyped /\ UserTyped /\ DialogSound)'
  BY <1>1 DEF AccountSound, AccountTyped, RowTyped, QueuesTyped, UserTyped, DialogSound
<1>4. ChoicesSound'
  BY <1>1 DEF ChoicesSound
<1> QED
  BY <1>2, <1>3, <1>4 DEF AccountSound, AccountTyped

LEMMA PutMade == ASSUME NEW f \in Preferences, NEW value \in Options(f) PROVE Only(f, value) \in Puts
<1>1. CASE f = "theme"
  <2>1. Only(f, value) \in [{"theme"} -> Themes]
    BY <1>1 DEF Only, Options
  <2> QED
    BY <2>1 DEF Puts
<1>2. CASE f = "locale"
  <2>1. Only(f, value) \in [{"locale"} -> Locales]
    BY <1>2 DEF Only, Options
  <2> QED
    BY <2>1 DEF Puts
<1> QED
  BY <1>1, <1>2 DEF Preferences

LEMMA PicksIsSound ==
    ASSUME AccountSound, NEW place \in {"menu", "page"}, NEW f \in Preferences, NEW value \in Options(f),
          Picks(place, f, value)
    PROVE  AccountSound'
<1> DEFINE u == Request(Only(f, value), place, TRUE)
           h == Unheard(place)
<1>1. /\ member # Nobody /\ Load(Only(f, value)) /\ wanted' = Over(Only(f, value), wanted) /\ astray' = (astray
            /\ f # "theme")
      /\ updates' = Append(h, u)
      /\ UNCHANGED <<general, account, scheme, member, setting, refetches, profileDialog, raced, broken, unfetched,
                     foreign>>
  BY DEF Picks
<1>0. RowTyped /\ ChoiceTyped /\ QueuesTyped /\ UserTyped /\ DialogSound /\ ChoicesSound
  BY DEF AccountSound, AccountTyped
<1>2. /\ ScreenTyped' /\ ScreenSound' /\ ChoiceTyped'
      /\ \A x \in DOMAIN wanted' : IF x = f THEN wanted'[x] = value ELSE x \in DOMAIN wanted /\ wanted'[x] = wanted[x]
  BY <1>1, ChosenIsSound
<1>3. u \in Updates /\ u.put = Only(f, value) /\ ~u.served /\ u.refetch /\ u.own
  <2>1. Only(f, value) \in Puts /\ place \in {"menu", "page", "dialog"} /\ place # "dialog" /\ TRUE \in BOOLEAN
    BY PutMade
  <2>2. account \in Users /\ member \in Users
    BY <1>0, <1>1 DEF UserTyped
  <2> QED
    BY <2>1, <2>2, RequestMade
<1>4. h \in Seq(Updates) /\ Len(h) = Len(updates) /\ SameButFetch(h, updates)
  <2>1. updates \in Seq(Updates)
    BY <1>0 DEF QueuesTyped
  <2> QED
    BY <2>1, UnheardKnown
<1> HIDE DEF u, h
<1>5. /\ updates' \in Seq(Updates) /\ Appended(updates', h, u) /\ DOMAIN h = 1 .. Len(h) /\ Len(h) \in Nat
      /\ Len(updates') = Len(h) + 1
  <2>1. /\ updates' \in Seq(Updates) /\ Len(updates') = Len(h) + 1 /\ DOMAIN updates' = 1 .. Len(h) + 1
        /\ updates'[Len(h) + 1] = u /\ \A i \in 1 .. Len(h) : updates'[i] = h[i]
    BY <1>1, <1>3, <1>4, AppendKnown
  <2> QED
    BY <1>4, <2>1, QueueKnown DEF Appended
<1>6. (RowTyped /\ QueuesTyped /\ UserTyped)'
  <2>1. (RowTyped /\ QueuesTyped)'
    BY <1>0, <1>1, <1>5 DEF RowTyped, QueuesTyped
  <2>2. UserTyped'
    BY <1>0, <1>1 DEF UserTyped
  <2> QED
    BY <2>1, <2>2
<1>7. DialogSound'
  <2>1. \A i \in DOMAIN updates' : updates'[i].own
    <3>1. \A i \in DOMAIN h : h[i].own
      BY <1>0, <1>4 DEF SameButFetch, DialogSound
    <3> QED
      BY <1>3, <1>5, <3>1 DEF Appended
  <2> QED
    BY <1>0, <1>1, <2>1 DEF DialogSound
<1>8. ASSUME ~raced', ~broken', Accepted(updates'), OneAtATime(refetches'), member' # Nobody
      PROVE  /\ InOrder(updates') /\ NameIsFollowed(updates', member'.username, account'.username)
             /\ RowFollows(updates', general', wanted') /\ SettingFollows(updates', refetches', setting', wanted')
  <2>1. Accepted(h)
    BY <1>3, <1>5, <1>8, AppendedFollows
  <2>2. Accepted(updates)
    BY <1>4, <2>1, SameFollows
  <2>3. InOrder(updates) /\ NameIsFollowed(updates, member.username, account.username)
              /\ RowFollows(updates, general, wanted)
    BY <1>0, <1>1, <1>8, <2>2 DEF ChoicesSound
  <2>4. InOrder(h) /\ NameIsFollowed(h, member.username, account.username) /\ RowFollows(h, general, wanted)
    BY <1>4, <2>3, SameFollows
  <2>5. InOrder(updates') /\ NameIsFollowed(updates', member.username, account.username)
    BY <1>3, <1>5, <2>4, AppendedFollows
  <2>6. RowFollows(updates', general, wanted')
    <3>1. \A x \in DOMAIN wanted' : IF Chosen(u, x) THEN u.put[x] = wanted'[x] ELSE x \in DOMAIN wanted
                /\ wanted'[x] = wanted[x]
      <4>1. DOMAIN u.put = {f} /\ u.put[f] = value
        <5>1. DOMAIN Only(f, value) = {f} /\ Only(f, value)[f] = value
          BY OneField
        <5>2. u.put = Only(f, value)
          BY <1>3
        <5> QED
          BY <5>1, <5>2, Zenon
      <4>2. \A x : Chosen(u, x) <=> x = f
        BY <4>1 DEF Chosen
      <4> QED
        BY <1>2, <4>1, <4>2
    <3> QED
      BY <1>3, <1>5, <2>4, <3>1, AppendedRowFollows
  <2>7. SettingFollows(updates', refetches, setting, wanted')
    BY <1>3, <1>5, AppendedSettingFollows
  <2> QED
    BY <1>1, <2>5, <2>6, <2>7
<1>9. ChoicesSound'
  BY <1>8 DEF ChoicesSound
<1> QED
  BY <1>2, <1>6, <1>7, <1>9 DEF AccountSound, AccountTyped

LEMMA EditIsSound == ASSUME AccountSound, NEW f \in ProfileFields, Edit(f) PROVE AccountSound'
<1>1. /\ member # Nobody
      /\ profileDialog' = [profileDialog EXCEPT !.fields[f] = @ + 1, !.edited = @ \cup {f}]
      /\ UNCHANGED <<general, account, scheme, preferred, applied, member, setting, updates, refetches, wanted,
                     raced, broken,
                     unfetched, astray, foreign>>
  BY DEF Edit
<1>2. profileDialog.fields \in Users /\ profileDialog.edited \subseteq ProfileFields /\ DialogSound
  BY <1>1 DEF AccountSound, AccountTyped, UserTyped
<1> DEFINE fs == [profileDialog.fields EXCEPT ![f] = @ + 1]
           edited == profileDialog.edited \cup {f}
<1>3. profileDialog' = [profileDialog EXCEPT !.fields = fs, !.edited = edited]
  BY <1>1
<1>6. fs \in Users /\ \A x \in ProfileFields : x # f => fs[x] = profileDialog.fields[x]
  BY <1>2 DEF Users, Positive
<1> HIDE DEF fs
<1>7. DOMAIN profileDialog = {"fields", "edited", "stale"}
  BY DEF AccountSound, AccountTyped, UserTyped
<1>4. /\ profileDialog'.fields = fs /\ profileDialog'.edited = edited /\ profileDialog'.stale = profileDialog.stale
      /\ DOMAIN profileDialog' = {"fields", "edited", "stale"}
  BY <1>3, <1>7
<1>5. UserTyped' /\ DialogSound'
  BY <1>1, <1>2, <1>4, <1>6 DEF AccountSound, AccountTyped, UserTyped, DialogSound
<1> QED
  BY <1>1, <1>5 DEF AccountSound, AccountTyped, ScreenTyped, RowTyped, ChoiceTyped, QueuesTyped, ScreenSound,
     ChoicesSound, Resolved

LEMMA SaveIsSoundForm ==
    ASSUME AccountSound, member # Nobody
    PROVE  /\ profileDialog.stale \/ UpdateMask \subseteq profileDialog.edited
           /\ UpdateMask # {} => [f \in UpdateMask |-> profileDialog.fields[f]] \in Puts
<1>1. profileDialog.fields \in Users /\ DialogSound
  BY DEF AccountSound, AccountTyped, UserTyped
<1>2. ASSUME ~profileDialog.stale PROVE UpdateMask \subseteq profileDialog.edited
  BY <1>1, <1>2 DEF UpdateMask, DialogSound
<1>3. ASSUME UpdateMask # {} PROVE [f \in UpdateMask |-> profileDialog.fields[f]] \in Puts
  <2>1. UpdateMask \in (SUBSET ProfileFields) \ {{}}
    <3>1. UpdateMask \subseteq ProfileFields
      BY DEF UpdateMask
    <3> QED
      BY <1>3, <3>1
  <2>2. [f \in UpdateMask |-> profileDialog.fields[f]] \in [UpdateMask -> Positive]
    BY <1>1, <2>1 DEF Users
  <2> QED
    BY <2>1, <2>2 DEF Puts
<1> QED
  BY <1>2, <1>3

LEMMA SaveAccountIsSound == ASSUME AccountSound, SaveAccount PROVE AccountSound'
<1> DEFINE put == [f \in UpdateMask |-> profileDialog.fields[f]]
           own == profileDialog.stale \/ UpdateMask \subseteq profileDialog.edited
           u == Request(put, "dialog", own)
<1>1. /\ member # Nobody /\ UpdateMask # {} /\ updates' = Append(updates, u)
      /\ UNCHANGED <<general, account, scheme, preferred, applied, member, setting, refetches, wanted, profileDialog,
                     raced,
                     broken, unfetched, astray, foreign>>
  BY DEF SaveAccount
<1>0. RowTyped /\ ChoiceTyped /\ QueuesTyped /\ UserTyped /\ DialogSound /\ ChoicesSound
  BY DEF AccountSound, AccountTyped
<1>2. put \in Puts /\ own /\ own \in BOOLEAN /\ DOMAIN put = UpdateMask
  BY <1>1, SaveIsSoundForm
<1>3. account \in Users /\ member \in Users
  BY <1>0, <1>1 DEF UserTyped
<1> HIDE DEF put, own
<1>4. u \in Updates /\ u.put = put /\ ~u.served /\ u.own
  <2>1. "dialog" \in {"menu", "page", "dialog"}
    OBVIOUS
  <2> QED
    BY <1>2, <1>3, <2>1, RequestMade
<1>5. \A f \in DOMAIN wanted : ~Chosen(u, f)
  <2>1. Profile(u)
    BY <1>2, <1>4 DEF Profile, UpdateMask
  <2> QED
    BY <1>0, <2>1, ProfileChoosesNothing DEF ChoiceTyped
<1> HIDE DEF u
<1>6. /\ updates' \in Seq(Updates) /\ Appended(updates', updates, u) /\ DOMAIN updates = 1 .. Len(updates)
            /\ Len(updates) \in Nat
  <2>1. updates \in Seq(Updates)
    BY <1>0 DEF QueuesTyped
  <2>2. /\ updates' \in Seq(Updates) /\ Len(updates') = Len(updates) + 1 /\ DOMAIN updates' = 1 .. Len(updates) + 1
        /\ updates'[Len(updates) + 1] = u /\ \A i \in 1 .. Len(updates) : updates'[i] = updates[i]
    BY <1>1, <1>4, <2>1, AppendKnown
  <2> QED
    BY <2>1, <2>2, QueueKnown DEF Appended
<1>7. AccountTyped' /\ ScreenSound'
  <2>1. (RowTyped /\ QueuesTyped /\ ChoiceTyped)'
    BY <1>0, <1>1, <1>6 DEF RowTyped, QueuesTyped, ChoiceTyped
  <2>2. UserTyped'
    BY <1>0, <1>1 DEF UserTyped
  <2>3. ScreenTyped' /\ ScreenSound'
    BY <1>1 DEF AccountSound, AccountTyped, ScreenTyped, ScreenSound, Resolved
  <2> QED
    BY <2>1, <2>2, <2>3 DEF AccountTyped
<1>8. DialogSound'
  <2>1. \A i \in DOMAIN updates' : updates'[i].own
    BY <1>0, <1>4, <1>6 DEF Appended, DialogSound
  <2> QED
    BY <1>0, <1>1, <2>1 DEF DialogSound
<1>9. ASSUME ~raced, ~broken, Accepted(updates'), OneAtATime(refetches)
      PROVE  /\ InOrder(updates') /\ NameIsFollowed(updates', member.username, account.username)
             /\ RowFollows(updates', general, wanted)
             /\ unfetched \/ SettingFollows(updates', refetches, setting, wanted)
  <2>1. Accepted(updates)
    BY <1>4, <1>6, <1>9, AppendedFollows
  <2>2. /\ InOrder(updates) /\ NameIsFollowed(updates, member.username, account.username)
              /\ RowFollows(updates, general, wanted)
        /\ unfetched \/ SettingFollows(updates, refetches, setting, wanted)
    BY <1>0, <1>1, <1>9, <2>1 DEF ChoicesSound
  <2>3. InOrder(updates') /\ NameIsFollowed(updates', member.username, account.username)
    BY <1>4, <1>6, <2>2, AppendedFollows
  <2>4. RowFollows(updates', general, wanted)
    BY <1>4, <1>5, <1>6, <2>2, AppendedRowFollows
  <2>5. SettingFollows(updates, refetches, setting, wanted) => SettingFollows(updates', refetches, setting, wanted)
    BY <1>5, <1>6, AppendedSettingFollows
  <2> QED
    BY <2>2, <2>3, <2>4, <2>5
<1>10. ChoicesSound'
  BY <1>1, <1>9 DEF ChoicesSound
<1> QED
  BY <1>7, <1>8, <1>10 DEF AccountSound

LEMMA DescribedIsSound == ASSUME AccountSound, DescribedElsewhere PROVE AccountSound'
<1>1. /\ account' = [account EXCEPT !.description = 10] /\ foreign'
      /\ UNCHANGED <<general, scheme, preferred, applied, member, setting, updates, refetches, wanted, profileDialog,
                     raced,
                     broken, unfetched, astray>>
  BY DEF DescribedElsewhere
<1>2. account \in Users
  BY DEF AccountSound, AccountTyped, UserTyped
<1>3. account' \in Users /\ account'.description = 10 /\ account'.username = account.username
  BY <1>1, <1>2 DEF Users, ProfileFields, Positive
<1>4. UserTyped' /\ DialogSound' /\ ChoicesSound'
  BY <1>1, <1>3 DEF AccountSound, AccountTyped, UserTyped, DialogSound, ChoicesSound
<1> QED
  BY <1>1, <1>4 DEF AccountSound, AccountTyped, ScreenTyped, RowTyped, ChoiceTyped, QueuesTyped, ScreenSound, Resolved

LEMMA LeaveIsSound == ASSUME AccountSound, LeaveSettings PROVE AccountSound'
<1> DEFINE h == Unheard("page")
<1>1. /\ member # Nobody /\ profileDialog' = FreshDialog(member) /\ updates' = h
            /\ unfetched' = (unfetched \/ updates' # updates)
      /\ UNCHANGED <<general, account, scheme, preferred, applied, member, setting, refetches, wanted, raced, broken,
                     astray,
                     foreign>>
  BY DEF LeaveSettings
<1>0. ChoiceTyped /\ QueuesTyped /\ UserTyped /\ DialogSound /\ ChoicesSound
  BY DEF AccountSound, AccountTyped
<1>2. updates' \in Seq(Updates) /\ SameButFetch(updates', updates)
  <2>1. updates \in Seq(Updates)
    BY <1>0 DEF QueuesTyped
  <2> QED
    BY <1>1, <2>1, UnheardKnown
<1>3. /\ profileDialog'.fields = member /\ profileDialog'.edited = {}
            /\ DOMAIN profileDialog' = {"fields", "edited", "stale"}
  BY <1>1 DEF FreshDialog
<1>4. member \in Users
  BY <1>0, <1>1 DEF UserTyped
<1>5. AccountTyped' /\ ScreenSound'
  <2>1. UserTyped'
    BY <1>0, <1>1, <1>3, <1>4 DEF UserTyped
  <2>2. QueuesTyped'
    BY <1>0, <1>1, <1>2 DEF QueuesTyped
  <2>3. ScreenTyped' /\ RowTyped' /\ ChoiceTyped' /\ ScreenSound'
    BY <1>1 DEF AccountSound, AccountTyped, ScreenTyped, RowTyped, ChoiceTyped, ScreenSound, Resolved
  <2> QED
    BY <2>1, <2>2, <2>3 DEF AccountTyped
<1>6. DialogSound'
  <2>1. \A i \in DOMAIN updates' : updates'[i].own
    BY <1>0, <1>2 DEF SameButFetch, DialogSound
  <2> QED
    BY <1>0, <1>1, <1>3, <2>1 DEF DialogSound
<1>7. ASSUME ~raced, ~broken, Accepted(updates'), OneAtATime(refetches)
      PROVE  /\ InOrder(updates') /\ NameIsFollowed(updates', member.username, account.username)
             /\ RowFollows(updates', general, wanted)
             /\ unfetched' \/ SettingFollows(updates', refetches, setting, wanted)
  <2>1. Accepted(updates)
    BY <1>2, <1>7, SameFollows
  <2>2. /\ InOrder(updates) /\ NameIsFollowed(updates, member.username, account.username)
              /\ RowFollows(updates, general, wanted)
        /\ unfetched \/ SettingFollows(updates, refetches, setting, wanted)
    BY <1>0, <1>1, <1>7, <2>1 DEF ChoicesSound
  <2>3. InOrder(updates') /\ NameIsFollowed(updates', member.username, account.username)
              /\ RowFollows(updates', general, wanted)
    BY <1>2, <2>2, SameFollows
  <2>4. unfetched' \/ SettingFollows(updates', refetches, setting, wanted)
    <3>1. unfetched' \/ (SettingFollows(updates, refetches, setting, wanted) /\ updates' = updates)
      BY <1>1, <2>2
    <3> QED
      BY <3>1
  <2> QED
    BY <2>3, <2>4
<1>8. ChoicesSound'
  BY <1>1, <1>7 DEF ChoicesSound
<1> QED
  BY <1>5, <1>6, <1>8 DEF AccountSound

-----------------------------------------------------------------------------

LEMMA EntryReplaced ==
    ASSUME NEW S, NEW s \in Seq(S), NEW i \in DOMAIN s, NEW e \in S, NEW n, n = [s EXCEPT ![i] = e]
    PROVE  n \in Seq(S) /\ DOMAIN n = DOMAIN s /\ n[i] = e /\ \A j \in DOMAIN s : j # i => n[j] = s[j]
OBVIOUS

LEMMA MergedKnown ==
    ASSUME RowTyped, NEW p \in Puts, ~(DOMAIN p \subseteq ProfileFields), NEW new, new = Merged(general, p)
    PROVE  /\ new \in Settings /\ \A f \in Preferences : new[f] # "undefined"
           /\ \A f \in Preferences : f \in DOMAIN p => new[f] = p[f]
           /\ \A f \in Preferences : f \notin DOMAIN p /\ general[f] \in Options(f) => new[f] = general[f]
<1> DEFINE base == IF general = NoRow THEN [theme |-> "", locale |-> ""] ELSE general
<1>1. PICK f \in Preferences : DOMAIN p = {f} /\ p[f] \in Options(f)
  BY PutsKnown
<1>2. base \in Settings /\ (\A x \in Preferences : base[x] # "undefined") /\ (general # NoRow => base = general)
  <2>1. CASE general = NoRow
    <3> DEFINE none == ""
    <3>1. base = [theme |-> none, locale |-> none]
      BY <2>1
    <3>2. none \in Values /\ none # "undefined"
      BY DEF Values
    <3> HIDE DEF base, none
    <3>3. DOMAIN base = Preferences /\ base = [x \in Preferences |-> base[x]] /\ \A x \in Preferences : base[x] = none
      BY <3>1 DEF Preferences
    <3> QED
      BY <2>1, <3>2, <3>3 DEF Settings
  <2>2. CASE general # NoRow
    BY <2>2 DEF RowTyped
  <2> QED
    BY <2>1, <2>2
<1>3. new = Over(p, base)
  BY DEF Merged
<1> HIDE DEF base
<1>4. base \in [Preferences -> Values] /\ DOMAIN base = Preferences
  BY <1>2 DEF Settings
<1>5. p[f] \in Values /\ p[f] # "undefined"
  BY <1>1, OptionsKnown
<1>6. /\ \A x \in DOMAIN p : new[x] = p[x]
      /\ \A x \in Preferences : x \notin DOMAIN p => new[x] = base[x]
  <2>1. /\ \A x \in DOMAIN p : Over(p, base)[x] = p[x]
        /\ \A x \in DOMAIN base \ DOMAIN p : Over(p, base)[x] = base[x]
    BY Replaced
  <2> QED
    BY <1>3, <1>4, <2>1
<1>7. new \in [Preferences -> Values]
  <2>1. DOMAIN p \subseteq Preferences /\ \A x \in DOMAIN p : p[x] \in Values
    BY <1>1, <1>5
  <2> QED
    BY <1>3, <1>4, <2>1, ReplacedIn
<1>8. \A x \in Preferences : new[x] # "undefined"
  BY <1>1, <1>2, <1>5, <1>6
<1>9. ASSUME NEW x \in Preferences, x \notin DOMAIN p, general[x] \in Options(x) PROVE new[x] = general[x]
  <2>1. general # NoRow
    <3>1. general[x] # "none"
      BY <1>9, OptionsKnown
    <3> QED
      BY <3>1, RowsKnown
  <2> QED
    BY <1>2, <1>6, <1>9, <2>1
<1> QED
  BY <1>6, <1>7, <1>8, <1>9 DEF Settings

LEMMA ProfileReplaced ==
    ASSUME account \in Users, NEW p \in Puts, DOMAIN p \subseteq ProfileFields, NEW new, new = Over(p, account)
    PROVE  new \in Users /\ ("description" \notin DOMAIN p => new.description = account.description)
<1>1. \A f \in DOMAIN p : p[f] \in Positive
  <2>1. ~(\E f \in Preferences : DOMAIN p = {f} /\ p[f] \in Options(f))
    BY FieldsKnown
  <2> QED
    BY <2>1, PutsKnown
<1>2. account \in [ProfileFields -> Positive] /\ "description" \in DOMAIN account
  BY DEF Users, ProfileFields
<1>3. new \in Users
  BY <1>1, <1>2, ReplacedIn DEF Users
<1>4. \A x \in DOMAIN account \ DOMAIN p : Over(p, account)[x] = account[x]
  BY Replaced
<1> QED
  BY <1>2, <1>3, <1>4

Serves(n, u, done, user) == n = [u EXCEPT !.served = TRUE, !.ok = done, !.answer = user]

LEMMA ServedIs ==
    ASSUME NEW u \in Updates, NEW done \in BOOLEAN, NEW w \in Users, NEW n, Serves(n, u, done, w)
    PROVE  /\ n \in Updates /\ n.served /\ n.answer = w /\ n.put = u.put
           /\ (n.ok <=> done) /\ n.own = u.own /\ n.refetch = u.refetch
BY DEF Updates, Serves

LEMMA ServeIsSound == ASSUME AccountSound, NEW i \in 1 .. Len(updates), ServeUpdate(i) PROVE AccountSound'
<1> DEFINE u == updates[i]
           done == u.as = account.username
           e == [u EXCEPT !.served = TRUE, !.ok = done, !.answer = account']
<1>1. /\ i \in DOMAIN updates /\ ~u.served
      /\ account' = IF done /\ Profile(u) THEN Over(u.put, account) ELSE account
      /\ general' = IF done /\ ~Profile(u) THEN Merged(general, u.put) ELSE general
      /\ foreign' = (foreign /\ ~(done /\ Profile(u) /\ "description" \in DOMAIN u.put /\ u.own))
      /\ raced' = (raced \/ \E j \in 1 .. i - 1 : ~updates[j].served)
      /\ UNCHANGED <<scheme, preferred, applied, member, setting, refetches, wanted, profileDialog, broken,
                     unfetched, astray>>
  BY DEF ServeUpdate, Profile
<1>2. updates' = [updates EXCEPT ![i] = e]
  BY DEF ServeUpdate
<1>0. RowTyped /\ ChoiceTyped /\ QueuesTyped /\ UserTyped /\ DialogSound /\ ChoicesSound
  BY DEF AccountSound, AccountTyped
<1>3. u \in Updates /\ u.put \in Puts /\ updates \in Seq(Updates) /\ DOMAIN updates = 1 .. Len(updates)
            /\ Len(updates) \in Nat
  <2>1. updates \in Seq(Updates)
    BY <1>0 DEF QueuesTyped
  <2>2. DOMAIN updates = 1 .. Len(updates) /\ Len(updates) \in Nat /\ u \in Updates
    BY <1>1, <2>1, QueueKnown
  <2> QED
    BY <2>1, <2>2, UpdateFields
<1>4. member # Nobody
  BY <1>0, <1>1, NothingIn DEF UserTyped
<1>5. account' \in Users /\ ((done /\ Profile(u) /\ "description" \in DOMAIN u.put)
            \/ account'.description = account.description)
  <2>1. account \in Users
    BY <1>0 DEF UserTyped
  <2>2. CASE done /\ Profile(u)
    BY <1>1, <1>3, <2>1, <2>2, ProfileReplaced DEF Profile
  <2>3. CASE ~(done /\ Profile(u))
    BY <1>1, <2>1, <2>3
  <2> QED
    BY <2>2, <2>3
<1>6. done \in BOOLEAN
  OBVIOUS
<1>7. e \in Updates /\ e.served /\ e.answer = account' /\ e.put = u.put /\ (e.ok <=> done) /\ e.own = u.own
            /\ e.refetch = u.refetch
  <2>1. Serves(e, u, done, account')
    BY DEF Serves
  <2>2. u \in Updates /\ account' \in Users
    BY <1>3, <1>5
  <2> HIDE DEF u, done, e
  <2> QED
    BY <1>6, <2>1, <2>2, ServedIs
<1> HIDE DEF u, done, e
<1>8. updates' \in Seq(Updates) /\ ServedAt(updates', updates, i, done, account')
  <2>1. updates' \in Seq(Updates) /\ DOMAIN updates' = DOMAIN updates /\ updates'[i] = e
              /\ \A j \in DOMAIN updates : j # i => updates'[j] = updates[j]
    BY <1>1, <1>2, <1>3, <1>7, EntryReplaced
  <2> QED
    BY <1>7, <2>1 DEF ServedAt, u
<1>9. /\ RowTyped'
      /\ done => \A f \in DOMAIN wanted : IF Chosen(u, f) THEN general'[f] = u.put[f] ELSE general[f] = wanted[f]
            => general'[f] = wanted[f]
  <2>1. CASE done /\ ~Profile(u)
    <3>1. general' = Merged(general, u.put) /\ ~(DOMAIN u.put \subseteq ProfileFields)
      BY <1>1, <2>1 DEF Profile
    <3>2. /\ general' \in Settings /\ \A f \in Preferences : general'[f] # "undefined"
          /\ \A f \in Preferences : f \in DOMAIN u.put => general'[f] = u.put[f]
          /\ \A f \in Preferences : f \notin DOMAIN u.put /\ general[f] \in Options(f) => general'[f] = general[f]
      BY <1>0, <1>3, <3>1, MergedKnown
    <3>3. \A f \in DOMAIN wanted : f \in Preferences /\ wanted[f] \in Options(f)
      BY <1>0 DEF ChoiceTyped
    <3> QED
      BY <3>2, <3>3 DEF RowTyped, Chosen
  <2>2. CASE ~(done /\ ~Profile(u))
    <3>1. general' = general
      BY <1>1, <2>2
    <3>2. done => \A f \in DOMAIN wanted : ~Chosen(u, f)
      BY <1>0, <2>2, ProfileChoosesNothing DEF ChoiceTyped
    <3> QED
      BY <1>0, <3>1, <3>2 DEF RowTyped
  <2> QED
    BY <2>1, <2>2
<1>10. AccountTyped' /\ ScreenSound'
  <2>1. UserTyped' /\ QueuesTyped'
    BY <1>0, <1>1, <1>4, <1>5, <1>8 DEF UserTyped, QueuesTyped
  <2>2. ScreenTyped' /\ ChoiceTyped' /\ ScreenSound'
    BY <1>1 DEF AccountSound, AccountTyped, ScreenTyped, ChoiceTyped, ScreenSound, Resolved
  <2> QED
    BY <1>9, <2>1, <2>2 DEF AccountTyped
<1>11. DialogSound'
  <2>1. u.own /\ \A j \in DOMAIN updates' : updates'[j].own
    BY <1>0, <1>1, <1>8 DEF ServedAt, DialogSound, u
  <2>2. foreign' => account'.description = 10
    BY <1>0, <1>1, <1>5, <2>1 DEF DialogSound
  <2> QED
    BY <1>0, <1>1, <2>1, <2>2 DEF DialogSound
<1>12. ASSUME ~raced', ~broken, Accepted(updates'), OneAtATime(refetches)
       PROVE  /\ InOrder(updates') /\ NameIsFollowed(updates', member.username, account'.username)
              /\ RowFollows(updates', general', wanted)
              /\ unfetched \/ SettingFollows(updates', refetches, setting, wanted)
  <2>1. ~raced /\ (\A j \in DOMAIN updates : j < i
              => updates[j].served) /\ ~updates[i].served /\ DOMAIN updates \subseteq Nat
    <3>1. ~raced /\ \A j \in 1 .. i - 1 : updates[j].served
      BY <1>1, <1>12
    <3>2. \A j \in DOMAIN updates : j < i => j \in 1 .. i - 1
      BY <1>3
    <3> QED
      BY <1>1, <1>3, <3>1, <3>2 DEF u
  <2>2. done
    BY <1>1, <1>8, <1>12 DEF Accepted, ServedAt
  <2>3. Accepted(updates)
    BY <1>1, <1>8, <1>12, <2>1, ServedFollows
  <2>4. /\ InOrder(updates) /\ NameIsFollowed(updates, member.username, account.username)
              /\ RowFollows(updates, general, wanted)
        /\ unfetched \/ SettingFollows(updates, refetches, setting, wanted)
    BY <1>0, <1>4, <1>12, <2>1, <2>3 DEF ChoicesSound
  <2>5. /\ InOrder(updates')
        /\ SettingFollows(updates, refetches, setting, wanted) => SettingFollows(updates', refetches, setting, wanted)
    BY <1>1, <1>8, <2>1, <2>4, ServedFollows
  <2>6. NameIsFollowed(updates', member.username, account'.username)
    <3>1. Profile(updates[i]) \/ account'.username = account.username
      BY <1>1 DEF u
    <3> QED
      BY <1>1, <1>8, <2>1, <2>4, <3>1, ServedNameFollows
  <2>7. RowFollows(updates', general', wanted)
    <3>1. \A f \in DOMAIN wanted : IF Chosen(updates[i],
                f) THEN general'[f] = updates[i].put[f] ELSE general[f] = wanted[f] => general'[f] = wanted[f]
      BY <1>9, <2>2 DEF u
    <3> QED
      BY <1>1, <1>8, <2>1, <2>4, <3>1, ServedRowFollows
  <2> QED
    BY <2>4, <2>5, <2>6, <2>7
<1>13. ChoicesSound'
  BY <1>1, <1>12 DEF ChoicesSound
<1> QED
  BY <1>10, <1>11, <1>13 DEF AccountSound

LEMMA SaveAnsweredIsSound == ASSUME AccountSound, NEW i \in 1 .. Len(updates), UpdateAnswered(i) PROVE AccountSound'
<1> DEFINE u == updates[i]
           r == [as |-> u.as, read |-> NoSetting, late |-> FALSE]
<1>1. /\ i \in DOMAIN updates /\ u.served /\ updates' = RemoveAt(updates, i)
      /\ raced' = (raced \/ \E j \in 1 .. i - 1 : updates[j].served)
      /\ broken' = (broken \/ ~u.ok)
      /\ IF u.ok /\ Profile(u) THEN SetCurrentUser(u.answer) ELSE UNCHANGED <<member, profileDialog>>
      /\ refetches' = IF u.ok /\ u.refetch THEN Append(refetches, r) ELSE refetches
      /\ UNCHANGED <<general, account, scheme, preferred, applied, setting, wanted, unfetched, astray, foreign>>
  BY DEF UpdateAnswered, Profile
<1>0. RowTyped /\ ChoiceTyped /\ QueuesTyped /\ UserTyped /\ DialogSound /\ ChoicesSound
  BY DEF AccountSound, AccountTyped
<1>2. /\ updates \in Seq(Updates) /\ DOMAIN updates = 1 .. Len(updates) /\ Len(updates) \in Nat \ {0}
            /\ refetches \in Seq(Refetches)
      /\ u \in Updates /\ u.answer \in Users /\ u.as \in Positive
  <2>1. updates \in Seq(Updates) /\ refetches \in Seq(Refetches)
    BY <1>0 DEF QueuesTyped
  <2>2. DOMAIN updates = 1 .. Len(updates) /\ Len(updates) \in Nat /\ u \in Updates
    BY <1>1, <2>1, QueueKnown
  <2> QED
    BY <2>1, <2>2, UpdateFields
<1>3. member \in Users /\ profileDialog.fields \in Users
  <2>1. updates # <<>>
    BY <1>1, NothingIn
  <2>2. member # Nobody
    BY <1>0, <2>1 DEF UserTyped
  <2>3. member \in Users
    BY <1>0, <2>2, Zenon DEF UserTyped
  <2>4. profileDialog.fields \in Users
    BY <1>0, <2>2, Zenon DEF UserTyped
  <2> QED
    BY <2>3, <2>4
<1>4. /\ updates' \in Seq(Updates) /\ Len(updates') = Len(updates) - 1 /\ DOMAIN updates' = 1 .. Len(updates) - 1
      /\ \A k \in 1 .. Len(updates) - 1 : updates'[k] = IF k < i THEN updates[k] ELSE updates[k + 1]
  BY <1>1, <1>2, UpdateGone
<1>5. r \in Refetches /\ ~Read(r) /\ ~r.late
  <2> DEFINE as == u.as
             f == FALSE
  <2>1. as \in Positive /\ f \in BOOLEAN /\ ~f
    BY <1>2
  <2>2. r = [as |-> as, read |-> NoSetting, late |-> f]
    OBVIOUS
  <2> HIDE DEF as, f, r
  <2> QED
    BY <2>1, <2>2 DEF Refetches, Read
<1> HIDE DEF u, r
<1>6. /\ refetches' \in Seq(Refetches)
      /\ OneAtATime(refetches') => OneAtATime(refetches)
      /\ u.ok => IF u.refetch THEN \E k \in DOMAIN refetches' : ~Read(refetches'[k]) ELSE refetches' = refetches
  <2>1. CASE u.ok /\ u.refetch
    <3>1. /\ refetches' \in Seq(Refetches) /\ DOMAIN refetches' = 1 .. Len(refetches) + 1
          /\ refetches'[Len(refetches) + 1] = r /\ \A k \in 1 .. Len(refetches) : refetches'[k] = refetches[k]
      BY <1>1, <1>2, <1>5, <2>1, AppendKnown
    <3>2. DOMAIN refetches = 1 .. Len(refetches) /\ Len(refetches) \in Nat
      BY <1>2, QueueKnown
    <3>3. \A k \in DOMAIN refetches : k \in DOMAIN refetches' /\ refetches'[k] = refetches[k]
      BY <3>1, <3>2
    <3>4. OneAtATime(refetches') => OneAtATime(refetches)
      BY <3>3 DEF OneAtATime
    <3>5. Len(refetches) + 1 \in DOMAIN refetches' /\ ~Read(refetches'[Len(refetches) + 1])
      BY <1>5, <3>1, <3>2
    <3> QED
      BY <2>1, <3>1, <3>4, <3>5
  <2>2. CASE ~(u.ok /\ u.refetch)
    BY <1>1, <1>2, <2>2
  <2> QED
    BY <2>1, <2>2
<1>7. \/ u.ok /\ Profile(u) /\ member' = u.answer
         /\ profileDialog' = [profileDialog EXCEPT !.stale = @
               \/ \E f \in ProfileFields \ profileDialog.edited : profileDialog.fields[f] # u.answer[f]]
      \/ ~(u.ok /\ Profile(u)) /\ UNCHANGED <<member, profileDialog>>
  BY <1>1 DEF SetCurrentUser
<1>8. /\ member' \in Users /\ profileDialog'.fields = profileDialog.fields
            /\ profileDialog'.edited = profileDialog.edited
      /\ DOMAIN profileDialog' = {"fields", "edited", "stale"}
      /\ ~profileDialog'.stale => \A f \in ProfileFields \ profileDialog.edited : profileDialog.fields[f] = member'[f]
  <2>1. DOMAIN profileDialog = {"fields", "edited", "stale"}
    BY <1>0 DEF UserTyped
  <2>2. CASE u.ok /\ Profile(u)
    <3> DEFINE missed == profileDialog.stale \/ \E f \in ProfileFields \ profileDialog.edited :
          profileDialog.fields[f] # u.answer[f]
    <3>1. profileDialog' = [profileDialog EXCEPT !.stale = missed] /\ member' = u.answer
      BY <1>7, <2>2
    <3>2. ~missed => \A f \in ProfileFields \ profileDialog.edited : profileDialog.fields[f] = u.answer[f]
      OBVIOUS
    <3> HIDE DEF missed
    <3>3. /\ profileDialog'.fields = profileDialog.fields /\ profileDialog'.edited = profileDialog.edited
          /\ DOMAIN profileDialog' = {"fields", "edited", "stale"} /\ profileDialog'.stale = missed
      BY <2>1, <3>1
    <3> QED
      BY <1>2, <3>1, <3>2, <3>3
  <2>3. CASE ~(u.ok /\ Profile(u))
    <3>1. UNCHANGED <<member, profileDialog>>
      BY <1>7, <2>3
    <3>2. member # Nobody
      BY <1>3, NobodyKnown
    <3> QED
      BY <1>0, <1>3, <2>1, <3>1, <3>2 DEF DialogSound
  <2> QED
    BY <2>2, <2>3
<1>9. member' # Nobody /\ member # Nobody
  BY <1>3, <1>8, NobodyKnown
<1>10. AccountTyped' /\ ScreenSound'
  <2>1. UserTyped'
    <3>1. account' \in Users /\ setting' \in Settings /\ profileDialog'.edited \subseteq ProfileFields
      BY <1>0, <1>1, <1>8 DEF UserTyped
    <3>2. profileDialog'.fields \in Users
      BY <1>3, <1>8
    <3> QED
      BY <1>8, <1>9, <3>1, <3>2 DEF UserTyped
  <2>2. QueuesTyped'
    BY <1>4, <1>6 DEF QueuesTyped
  <2>3. ScreenTyped' /\ RowTyped' /\ ChoiceTyped' /\ ScreenSound'
    BY <1>1, <1>9 DEF AccountSound, AccountTyped, ScreenTyped, RowTyped, ChoiceTyped, ScreenSound, Resolved
  <2> QED
    BY <2>1, <2>2, <2>3 DEF AccountTyped
<1>11. DialogSound'
  <2>1. \A k \in DOMAIN updates' : updates'[k].own
    <3>1. \A k \in 1 .. Len(updates) - 1 : k \in DOMAIN updates /\ k + 1 \in DOMAIN updates
      BY <1>2
    <3> QED
      BY <1>0, <1>4, <3>1 DEF DialogSound
  <2> QED
    BY <1>0, <1>1, <1>8, <2>1 DEF DialogSound
<1>12. ASSUME ~raced', ~broken', Accepted(updates'), OneAtATime(refetches')
       PROVE  /\ InOrder(updates') /\ NameIsFollowed(updates', member'.username, account.username)
              /\ RowFollows(updates', general, wanted)
              /\ unfetched \/ SettingFollows(updates', refetches', setting, wanted)
  <2>1. ~raced /\ ~broken /\ u.ok
    BY <1>1, <1>12
  <2>2. Accepted(updates)
    <3> SUFFICES ASSUME NEW k \in DOMAIN updates, updates[k].served PROVE updates[k].ok
      BY DEF Accepted
    <3>1. CASE k = i
      BY <2>1, <3>1 DEF u
    <3>2. CASE k < i
      <4>1. k \in 1 .. Len(updates) - 1
        BY <1>2, <3>2
      <4>2. updates'[k] = updates[k] /\ k \in DOMAIN updates'
        BY <1>4, <3>2, <4>1
      <4> QED
        BY <1>12, <4>2 DEF Accepted
    <3>3. CASE k > i
      <4>1. k - 1 \in 1 .. Len(updates) - 1 /\ ~(k - 1 < i) /\ (k - 1) + 1 = k
        BY <1>2, <3>3
      <4>2. updates'[k - 1] = updates[k] /\ k - 1 \in DOMAIN updates'
        BY <1>4, <4>1
      <4> QED
        BY <1>12, <4>2 DEF Accepted
    <3> QED
      BY <1>2, <3>1, <3>2, <3>3
  <2>3. /\ InOrder(updates) /\ NameIsFollowed(updates, member.username, account.username)
              /\ RowFollows(updates, general, wanted)
        /\ unfetched \/ SettingFollows(updates, refetches, setting, wanted)
    BY <1>0, <1>6, <1>9, <1>12, <2>1, <2>2 DEF ChoicesSound
  <2>4. i = 1
    <3>1. \A j \in 1 .. i - 1 : ~updates[j].served
      BY <1>1, <1>12
    <3>2. i > 1 => 1 \in 1 .. i - 1 /\ 1 \in DOMAIN updates
      BY <1>2
    <3>3. i > 1 => updates[1].served
      BY <1>1, <2>3, <3>2 DEF InOrder, u
    <3> QED
      BY <3>1, <3>2, <3>3
  <2>5. FirstGone(updates', updates) /\ updates[1].served /\ updates[1].ok /\ updates[1] = u
    <3>1. \A k \in 1 .. Len(updates) - 1 : ~(k < i)
      BY <2>4
    <3> QED
      BY <1>1, <1>4, <2>1, <2>4, <3>1 DEF FirstGone, u
  <2>6. InOrder(updates') /\ RowFollows(updates', general, wanted)
    BY <1>2, <2>3, <2>5, GoneFollows
  <2>7. NameIsFollowed(updates', member'.username, account.username)
    <3>1. NameIsFollowed(updates', IF Profile(updates[1]) THEN updates[1].answer.username ELSE member.username,
                account.username)
      BY <1>2, <2>3, <2>5, GoneNameFollows
    <3>2. (IF Profile(updates[1]) THEN updates[1].answer.username ELSE member.username) = member'.username
      BY <1>7, <2>1, <2>5
    <3> QED
      BY <3>1, <3>2
  <2>8. SettingFollows(updates, refetches, setting, wanted) => SettingFollows(updates', refetches', setting, wanted)
    <3>1. IF updates[1].refetch THEN \E k \in DOMAIN refetches' : ~Read(refetches'[k]) ELSE refetches' = refetches
      BY <1>6, <2>1, <2>5
    <3> QED
      BY <1>2, <2>5, <3>1, GoneSettingFollows
  <2> QED
    BY <2>3, <2>6, <2>7, <2>8
<1>13. ChoicesSound'
  BY <1>1, <1>12 DEF ChoicesSound
<1> QED
  BY <1>10, <1>11, <1>13 DEF AccountSound

LEMMA ReadIsSound == ASSUME AccountSound, NEW i \in 1 .. Len(refetches), ServeRefetch(i) PROVE AccountSound'
<1> DEFINE r == refetches[i]
           new == Reported(general)
           e == [r EXCEPT !.read = new]
<1>1. /\ i \in DOMAIN refetches /\ r.read = NoSetting
      /\ UNCHANGED <<general, account, scheme, preferred, applied, member, setting, updates, wanted, profileDialog,
                     raced, broken, unfetched, astray, foreign>>
  BY DEF ServeRefetch
<1>2. refetches' = [refetches EXCEPT ![i] = e]
  BY DEF ServeRefetch
<1>0. ScreenTyped /\ RowTyped /\ ChoiceTyped /\ QueuesTyped /\ UserTyped /\ ScreenSound /\ DialogSound /\ ChoicesSound
  BY DEF AccountSound, AccountTyped
<1>3. refetches \in Seq(Refetches) /\ r \in Refetches
  <2>1. refetches \in Seq(Refetches)
    BY <1>0 DEF QueuesTyped
  <2> QED
    BY <1>1, <2>1, QueueKnown
<1>4. member # Nobody
  <2>1. refetches # <<>>
    BY <1>1, NothingIn
  <2> QED
    BY <1>0, <2>1 DEF UserTyped
<1>5. new \in Reports /\ \A f \in Preferences : \A v \in Options(f) : general[f] = v => new[f] = v
  BY <1>0, ReportKnown DEF Reports
<1>6. new # NoSetting
  BY <1>5, RowsKnown DEF Reports, Preferences
<1>7. e \in Refetches /\ e.late = r.late /\ e.read = new
  <2>1. r \in [as : Positive, read : {NoSetting} \cup Reports, late : BOOLEAN] /\ new \in {NoSetting} \cup Reports
    BY <1>3, <1>5 DEF Refetches
  <2> HIDE DEF r, new
  <2> QED
    BY <2>1 DEF Refetches
<1> HIDE DEF r, new, e
<1>8. /\ refetches' \in Seq(Refetches) /\ DOMAIN refetches' = DOMAIN refetches /\ refetches'[i] = e
      /\ \A j \in DOMAIN refetches : j # i => refetches'[j] = refetches[j]
  BY <1>1, <1>2, <1>3, <1>7, EntryReplaced
<1>9. AccountTyped' /\ ScreenSound' /\ DialogSound'
  <2>1. UserTyped'
    BY <1>0, <1>1, <1>4 DEF UserTyped
  <2>2. QueuesTyped'
    BY <1>0, <1>1, <1>8 DEF QueuesTyped
  <2>3. ScreenTyped' /\ RowTyped' /\ ChoiceTyped' /\ ScreenSound' /\ DialogSound'
    BY <1>0, <1>1 DEF ScreenTyped, RowTyped, ChoiceTyped, ScreenSound, DialogSound, Resolved
  <2> QED
    BY <2>1, <2>2, <2>3 DEF AccountTyped
<1>10. ASSUME ~raced, ~broken, Accepted(updates), OneAtATime(refetches')
       PROVE  /\ InOrder(updates) /\ NameIsFollowed(updates, member.username, account.username)
              /\ RowFollows(updates, general, wanted)
              /\ unfetched \/ SettingFollows(updates, refetches', setting, wanted)
  <2>1. refetches'[i].late = refetches[i].late /\ Read(refetches'[i]) /\ ~Read(refetches[i])
    BY <1>1, <1>6, <1>7, <1>8 DEF Read, r
  <2>2. \A f \in DOMAIN wanted : general[f] = wanted[f] => refetches'[i].read[f] = wanted[f]
    BY <1>0, <1>5, <1>7, <1>8 DEF ChoiceTyped
  <2>3. OneAtATime(refetches)
    BY <1>1, <1>8, <1>10, <2>1, <2>2, ReadFollows
  <2>4. /\ InOrder(updates) /\ NameIsFollowed(updates, member.username, account.username)
              /\ RowFollows(updates, general, wanted)
        /\ unfetched \/ SettingFollows(updates, refetches, setting, wanted)
    BY <1>0, <1>4, <1>10, <2>3 DEF ChoicesSound
  <2>5. SettingFollows(updates, refetches, setting, wanted) => SettingFollows(updates, refetches', setting, wanted)
    BY <1>1, <1>8, <1>10, <2>1, <2>2, <2>4, ReadFollows
  <2> QED
    BY <2>4, <2>5
<1>11. ChoicesSound'
  BY <1>1, <1>10 DEF ChoicesSound
<1> QED
  BY <1>9, <1>11 DEF AccountSound

LEMMA FailedIsSound ==
    ASSUME AccountSound, NEW i, (i \in 1 .. Len(updates) /\ UpdateFails(i)) \/ (i \in 1 .. Len(refetches)
          /\ RefetchFails(i))
    PROVE  AccountSound'
<1>1. /\ broken'
      /\ UNCHANGED <<general, account, scheme, preferred, applied, member, setting, wanted, profileDialog, astray,
                     foreign>>
      /\ \/ i \in 1 .. Len(updates) /\ i \in DOMAIN updates /\ updates' = RemoveAt(updates, i)
            /\ refetches' = refetches
         \/ i \in 1 .. Len(refetches) /\ i \in DOMAIN refetches /\ refetches' = RemoveAt(refetches, i)
               /\ updates' = updates
  BY DEF UpdateFails, RefetchFails
<1>0. ScreenTyped /\ RowTyped /\ ChoiceTyped /\ QueuesTyped /\ UserTyped /\ ScreenSound /\ DialogSound
  BY DEF AccountSound, AccountTyped
<1>2. updates \in Seq(Updates) /\ refetches \in Seq(Refetches)
  BY <1>0 DEF QueuesTyped
<1>3. member # Nobody
  <2>1. updates # <<>> \/ refetches # <<>>
    BY <1>1, NothingIn
  <2> QED
    BY <1>0, <2>1 DEF UserTyped
<1>4. updates' \in Seq(Updates) /\ refetches' \in Seq(Refetches)
            /\ \A k \in DOMAIN updates' : \E j \in DOMAIN updates : updates'[k] = updates[j]
  <2>1. CASE i \in 1 .. Len(updates) /\ updates' = RemoveAt(updates, i) /\ refetches' = refetches
    <3>0. i \in 1 .. Len(updates) /\ updates' = RemoveAt(updates, i) /\ updates \in Seq(Updates)
      BY <1>2, <2>1
    <3>1. /\ updates' \in Seq(Updates) /\ Len(updates') = Len(updates) - 1 /\ DOMAIN updates' = 1 .. Len(updates) - 1
          /\ \A k \in 1 .. Len(updates) - 1 : updates'[k] = IF k < i THEN updates[k] ELSE updates[k + 1]
      BY <3>0, UpdateGone
    <3>2. DOMAIN updates = 1 .. Len(updates) /\ Len(updates) \in Nat
      BY <1>2, QueueKnown
    <3>3. \A k \in 1 .. Len(updates) - 1 : k \in DOMAIN updates /\ k + 1 \in DOMAIN updates
      BY <3>2
    <3> QED
      BY <1>2, <2>1, <3>1, <3>3
  <2>2. CASE i \in 1 .. Len(refetches) /\ refetches' = RemoveAt(refetches, i) /\ updates' = updates
    BY <1>2, <2>2, WithoutOne
  <2> QED
    BY <1>1, <2>1, <2>2
<1>5. UserTyped' /\ QueuesTyped'
  BY <1>0, <1>1, <1>3, <1>4 DEF UserTyped, QueuesTyped
<1>6. ScreenTyped' /\ RowTyped' /\ ChoiceTyped' /\ ScreenSound'
  BY <1>0, <1>1 DEF ScreenTyped, RowTyped, ChoiceTyped, ScreenSound, Resolved
<1>7. DialogSound'
  <2>1. \A k \in DOMAIN updates' : updates'[k].own
    BY <1>0, <1>4 DEF DialogSound
  <2> QED
    BY <1>0, <1>1, <2>1 DEF DialogSound
<1>8. ChoicesSound'
  BY <1>1 DEF ChoicesSound
<1> QED
  BY <1>5, <1>6, <1>7, <1>8 DEF AccountSound, AccountTyped

LEMMA FetchedIsSound == ASSUME AccountSound, NEW i \in 1 .. Len(refetches), RefetchAnswered(i) PROVE AccountSound'
<1> DEFINE r == refetches[i]
           overtaken == [j \in DOMAIN refetches |-> [refetches[j] EXCEPT !.late = @ \/ refetches[j].read # NoSetting]]
<1>1. /\ i \in DOMAIN refetches /\ Read(r) /\ refetches' = RemoveAt(overtaken, i) /\ raced' = (raced \/ r.late)
      /\ UNCHANGED <<general, account, scheme, member, updates, wanted, profileDialog, broken, foreign>>
      /\ \/ Effects(r.read) /\ UNCHANGED unfetched
         \/ unfetched' /\ UNCHANGED <<preferred, applied, setting, listening, astray>>
  BY DEF RefetchAnswered, Read
<1>0. ScreenTyped /\ RowTyped /\ ChoiceTyped /\ QueuesTyped /\ UserTyped /\ ScreenSound /\ DialogSound /\ ChoicesSound
  BY DEF AccountSound, AccountTyped
<1>2. refetches \in Seq(Refetches) /\ DOMAIN refetches = 1 .. Len(refetches) /\ Len(refetches) \in Nat
      /\ \A j \in DOMAIN refetches : refetches[j] \in Refetches
  <2>1. refetches \in Seq(Refetches)
    BY <1>0 DEF QueuesTyped
  <2> QED
    BY <2>1, QueueKnown
<1>3. member # Nobody
  <2>1. refetches # <<>>
    BY <1>1, NothingIn
  <2> QED
    BY <1>0, <2>1 DEF UserTyped
<1>4. r.read \in Reports
  <2>1. r.read \in {NoSetting} \cup Reports
    BY <1>1, <1>2, RefetchFields
  <2> QED
    BY <1>1, <2>1 DEF Read
<1>5. ASSUME NEW j \in DOMAIN refetches
      PROVE  overtaken[j] \in Refetches /\ overtaken[j].read = refetches[j].read
             /\ (overtaken[j].late <=> refetches[j].late \/ Read(refetches[j]))
  <2> DEFINE s == refetches[j]
             late == s.late \/ s.read # NoSetting
             n == overtaken[j]
  <2>1. s \in Refetches /\ late \in BOOLEAN /\ (late <=> s.late \/ Read(s)) /\ n = [s EXCEPT !.late = late]
    BY <1>2 DEF Read
  <2> HIDE DEF s, late, n
  <2>2. n \in Refetches /\ n.read = s.read /\ (n.late <=> late)
    BY <2>1 DEF Refetches
  <2>3. n \in Refetches /\ n.read = s.read /\ (n.late <=> s.late \/ Read(s))
    BY <2>1, <2>2
  <2> QED
    BY <2>3 DEF n, s
<1>6. DOMAIN overtaken = DOMAIN refetches /\ overtaken = [j \in DOMAIN overtaken |-> overtaken[j]]
  OBVIOUS
<1> HIDE DEF overtaken, r
<1>7. overtaken \in Seq(Refetches) /\ Len(overtaken) = Len(refetches)
  BY <1>2, <1>5, <1>6, MappedKnown
<1>8. /\ refetches' \in Seq(Refetches) /\ DOMAIN refetches' = 1 .. Len(refetches) - 1
      /\ \A k \in 1 .. Len(refetches) - 1 : refetches'[k] = IF k < i THEN overtaken[k] ELSE overtaken[k + 1]
  <2>1. i \in 1 .. Len(overtaken)
    BY <1>7
  <2>2. refetches' \in Seq(Refetches) /\ DOMAIN refetches' = 1 .. Len(overtaken) - 1
    BY <1>1, <1>7, <2>1, WithoutOne
  <2>3. ASSUME NEW k \in 1 .. Len(overtaken) - 1
        PROVE  refetches'[k] = IF k < i THEN overtaken[k] ELSE overtaken[k + 1]
    <3>1. k < i => refetches'[k] = overtaken[k]
      BY <1>1, <1>7, <2>1, EntryWithoutOne
    <3>2. ~(k < i) => refetches'[k] = overtaken[k + 1]
      BY <1>1, <1>7, <2>1, EntryWithoutOne
    <3> QED
      BY <3>1, <3>2
  <2> QED
    BY <1>7, <2>2, <2>3
<1>9. /\ \A j \in DOMAIN refetches' : \E k \in DOMAIN refetches : refetches'[j] = overtaken[k]
      /\ \A k \in DOMAIN refetches : k = i \/ \E j \in DOMAIN refetches' : refetches'[j] = overtaken[k]
  <2>1. ASSUME NEW j \in DOMAIN refetches' PROVE \E k \in DOMAIN refetches : refetches'[j] = overtaken[k]
    <3>1. j \in DOMAIN refetches /\ j + 1 \in DOMAIN refetches
      BY <1>2, <1>8
    <3> QED
      BY <1>8, <3>1
  <2>2. ASSUME NEW k \in DOMAIN refetches, k # i PROVE \E j \in DOMAIN refetches' : refetches'[j] = overtaken[k]
    <3>1. CASE k < i
      <4>1. k \in DOMAIN refetches' /\ refetches'[k] = overtaken[k]
        BY <1>2, <1>8, <3>1
      <4> QED
        BY <4>1
    <3>2. CASE k > i
      <4>1. k - 1 \in 1 .. Len(refetches) - 1 /\ ~(k - 1 < i) /\ (k - 1) + 1 = k
        BY <1>2, <3>2
      <4>2. k - 1 \in DOMAIN refetches' /\ refetches'[k - 1] = overtaken[k]
        BY <1>8, <4>1
      <4> QED
        BY <4>2
    <3> QED
      BY <1>2, <2>2, <3>1, <3>2
  <2> QED
    BY <2>1, <2>2
<1>10. ScreenTyped' /\ ScreenSound' /\ setting' \in Settings /\ (setting' = r.read \/ unfetched')
  <2>1. CASE Effects(r.read) /\ UNCHANGED unfetched
    <3>1. r.read \in Settings /\ \A f \in Preferences : r.read[f] # "undefined"
      BY <1>4 DEF Reports
    <3>2. UNCHANGED <<wanted, member>> /\ UNCHANGED scheme /\ Effects(r.read)
      BY <1>1, <2>1
    <3>3. ScreenTyped' /\ ScreenSound' /\ setting' = r.read
      BY <1>0, <1>3, <3>1, <3>2, EffectsAreSound
    <3> QED
      BY <3>1, <3>3
  <2>2. CASE unfetched' /\ UNCHANGED <<preferred, applied, setting, listening, astray>>
    BY <1>0, <1>1, <2>2 DEF ScreenTyped, ScreenSound, UserTyped, Resolved
  <2> QED
    BY <1>1, <2>1, <2>2
<1>11. AccountTyped' /\ DialogSound'
  <2>1. UserTyped'
    BY <1>0, <1>1, <1>3, <1>10 DEF UserTyped
  <2>2. QueuesTyped'
    BY <1>0, <1>1, <1>8 DEF QueuesTyped
  <2>3. RowTyped' /\ ChoiceTyped' /\ DialogSound'
    BY <1>0, <1>1 DEF RowTyped, ChoiceTyped, DialogSound
  <2> QED
    BY <1>10, <2>1, <2>2, <2>3 DEF AccountTyped
<1>12. ASSUME ~raced', ~broken, Accepted(updates), OneAtATime(refetches')
       PROVE  /\ InOrder(updates) /\ NameIsFollowed(updates, member.username, account.username)
              /\ RowFollows(updates, general, wanted)
              /\ unfetched' \/ SettingFollows(updates, refetches', setting', wanted)
  <2>1. ~raced /\ ~refetches[i].late /\ Read(refetches[i])
    BY <1>1, <1>12 DEF r
  <2>2. /\ \A k \in DOMAIN refetches : k = i \/ \E j \in DOMAIN refetches' : refetches'[j].read = refetches[k].read
                                                    /\ (refetches'[j].late <=> refetches[k].late
                                                          \/ Read(refetches[k]))
        /\ \A j \in DOMAIN refetches' : \E k \in DOMAIN refetches : refetches'[j].read = refetches[k].read
                                                    /\ (refetches'[j].late <=> refetches[k].late
                                                          \/ Read(refetches[k]))
    BY <1>5, <1>9
  <2>3. /\ OneAtATime(refetches)
        /\ SettingFollows(updates, refetches, setting, wanted) => SettingFollows(updates, refetches', r.read, wanted)
    BY <1>1, <1>12, <2>1, <2>2, TakenOver DEF r
  <2>4. /\ InOrder(updates) /\ NameIsFollowed(updates, member.username, account.username)
              /\ RowFollows(updates, general, wanted)
        /\ unfetched \/ SettingFollows(updates, refetches, setting, wanted)
    BY <1>0, <1>3, <1>12, <2>1, <2>3 DEF ChoicesSound
  <2>5. unfetched' \/ (setting' = r.read /\ (unfetched => unfetched'))
    BY <1>1, <1>10
  <2> QED
    BY <2>3, <2>4, <2>5
<1>13. ChoicesSound'
  BY <1>1, <1>12 DEF ChoicesSound
<1> QED
  BY <1>10, <1>11, <1>13 DEF AccountSound

\* Every step keeps it.
LEMMA AccountSoundKept == AccountSound /\ [AccountNext]_accountVars => AccountSound'
<1> SUFFICES ASSUME AccountSound, [AccountNext]_accountVars PROVE AccountSound'
  OBVIOUS
<1>1. CASE SignInAs \/ SystemThemeChanges \/ SaveAccount \/ DescribedElsewhere \/ LeaveSettings
  BY <1>1, SignInIsSound, SchemeIsSound, SaveAccountIsSound, DescribedIsSound, LeaveIsSound
<1>2. ASSUME NEW f \in Preferences, NEW value \in Options(f),
             GuestPicks(f, value) \/ PicksInMenu(f, value) \/ PicksInSettings(f, value)
      PROVE  AccountSound'
  <2>1. CASE GuestPicks(f, value)
    BY <2>1, GuestPicksIsSound
  <2>2. CASE Picks("menu", f, value)
    BY <2>2, PicksIsSound
  <2>3. CASE Picks("page", f, value)
    BY <2>3, PicksIsSound
  <2> QED
    BY <1>2, <2>1, <2>2, <2>3 DEF PicksInMenu, PicksInSettings
<1>3. ASSUME NEW f \in ProfileFields, Edit(f) PROVE AccountSound'
  BY <1>3, EditIsSound
<1>4. ASSUME NEW i \in 1 .. Len(updates), ServeUpdate(i) \/ UpdateAnswered(i) \/ UpdateFails(i) PROVE AccountSound'
  BY <1>4, ServeIsSound, SaveAnsweredIsSound, FailedIsSound
<1>5. ASSUME NEW i \in 1 .. Len(refetches), ServeRefetch(i) \/ RefetchAnswered(i) \/ RefetchFails(i)
      PROVE  AccountSound'
  BY <1>5, ReadIsSound, FetchedIsSound, FailedIsSound
<1>6. CASE UNCHANGED accountVars
  <2>1. UNCHANGED <<general, account, scheme, preferred, applied, member, setting, updates, refetches, wanted,
                    profileDialog,
                    raced, broken, unfetched, astray, foreign>>
    BY <1>6 DEF accountVars
  <2>2. AccountTyped' /\ ScreenSound' /\ DialogSound'
    BY <2>1 DEF AccountSound, AccountTyped, ScreenTyped, RowTyped, ChoiceTyped, QueuesTyped, UserTyped, ScreenSound,
                DialogSound, Resolved
  <2>3. ChoicesSound'
    BY <2>1 DEF AccountSound, ChoicesSound
  <2> QED
    BY <2>2, <2>3 DEF AccountSound
<1> QED
  BY <1>1, <1>2, <1>3, <1>4, <1>5, <1>6 DEF AccountNext

LEMMA AccountSoundHolds == AccountSound => AccountIsKept
<1> SUFFICES ASSUME AccountSound PROVE AccountIsKept
  OBVIOUS
<1>1. ScreenTyped /\ ChoiceTyped /\ ScreenSound /\ DialogSound /\ ChoicesSound
  BY DEF AccountSound, AccountTyped
<1>2. OnlyEditsAreSaved
  BY <1>1 DEF DialogSound, OnlyEditsAreSaved
<1>3. ASSUME updates = <<>>, refetches = <<>>, ~raced, ~broken, member # Nobody
      PROVE  /\ member.username = account.username
             /\ \A f \in DOMAIN wanted : general[f] = wanted[f] /\ (unfetched \/ setting[f] = wanted[f])
  <2>1. Accepted(updates) /\ OneAtATime(refetches)
    BY <1>3, NothingIn DEF Accepted, OneAtATime
  <2>2. /\ NameIsFollowed(updates, member.username, account.username) /\ RowFollows(updates, general, wanted)
        /\ unfetched \/ SettingFollows(updates, refetches, setting, wanted)
    BY <1>1, <1>3, <2>1 DEF ChoicesSound
  <2>3. member.username = account.username
    BY <1>3, <2>2, NothingIn DEF NameIsFollowed
  <2>4. \A f \in DOMAIN wanted : general[f] = wanted[f]
    BY <1>3, <2>2, NothingIn DEF RowFollows
  <2>5. unfetched \/ \A f \in DOMAIN wanted : setting[f] = wanted[f]
    <3>1. ASSUME ~unfetched, NEW f \in DOMAIN wanted PROVE setting[f] = wanted[f]
      <4>1. FetchToCome(updates, refetches) \/ Brought(refetches, setting, wanted, f)
        BY <1>3, <2>2, <3>1, NothingIn DEF SettingFollows
      <4>2. ~FetchToCome(updates, refetches)
        BY <1>3, NothingIn DEF FetchToCome
      <4> QED
        BY <1>3, <4>1, <4>2 DEF Brought
    <3> QED
      BY <3>1
  <2> QED
    BY <2>3, <2>4, <2>5
<1>4. ASSUME updates = <<>>, refetches = <<>>, ~raced, ~broken
      PROVE  /\ ~astray /\ ~unfetched =>
                   /\ \A f \in DOMAIN wanted : preferred[f] = wanted[f]
                   /\ applied.theme = Resolved(preferred.theme)
             /\ applied.locale = preferred.locale
  <2>1. ASSUME ~astray, ~unfetched, NEW f \in DOMAIN wanted PROVE preferred[f] = wanted[f]
    BY <1>1, <1>3, <1>4, <2>1 DEF ScreenSound
  <2> QED
    BY <1>1, <2>1 DEF ScreenSound
<1>5. ChoicesSettle
  BY <1>3, <1>4 DEF ChoicesSettle
<1> QED
  BY <1>2, <1>5 DEF AccountIsKept

\* What was chosen last is, once nothing is under way, what the browser keeps and shows and the
\* server has, and a description from elsewhere is only replaced by one the user edited
\* (useUserTheme, PreferencesSection, UserMenu, UpdateAccountDialog): however often she picks,
\* edits, saves and leaves, and in whatever order requests and answers arrive.
THEOREM ChoicesAreKept == AccountSpec => []AccountIsKept
BY AccountSoundAtFirst, AccountSoundKept, AccountSoundHolds, PTL DEF AccountSpec

===============================================================================
