------------------------------- MODULE WebLayout -------------------------------
(***************************************************************************)
(* Where things are put: days in the calendar of a month, which the user   *)
(* pages through by month or, in a dialog, by year; headings in the        *)
(* outline of a memo, whose entries have to lead to them; visual           *)
(* attachments in a collage; and the items of a list that mixes tasks and  *)
(* others.  A memo grows by a heading, an attachment or an item at a time. *)
(*                                                                         *)
(* A day is a number, the days since 1 March of the year 0; a month is     *)
(* 12 times its year plus 0 to 11.  Sizes, colours and languages are left  *)
(* out, and lists within lists: each is split by itself.                   *)
(***************************************************************************)
EXTENDS Integers, Sequences, FiniteSets

LOCAL INSTANCE SequencesExt
LOCAL INSTANCE FiniteSetsExt

CONSTANTS
    Todays,    \* the days on which the calendar may be opened
    Posts,     \* how many memos there are of the day so many days ago
    MinYear,   \* MIN_YEAR
    MaxFlips,  \* bound on the user's clicks in the calendar
    MaxBlocks  \* bound on headings and on items of a list

ASSUME WebLayoutConstants ==
    /\ Todays \subseteq Nat /\ MaxFlips \in Nat /\ MaxBlocks \in Nat /\ MinYear \in Nat
    /\ DOMAIN Posts \subseteq Nat /\ \A n \in DOMAIN Posts : Posts[n] \in Nat

VARIABLES
    subject,    \* what is laid out
    calendar,   \* today, the month shown, whether the dialog is open, and the year it took for this one
    weekStart,  \* weekStartDayOffset of the instance's settings: from Saturday (-1) to Monday
    activity,   \* activityStats: memos of a day
    blocks,     \* the headings, attachments or list items so far
    flips       \* clicks so far

layoutVars == <<subject, calendar, weekStart, activity, blocks, flips>>

-----------------------------------------------------------------------------
(* dayjs *)

\* The first day of a month.  A year of this count starts in March.
FirstOf(month) ==
    LET year == (month - 2) \div 12
        before == (month - 2) % 12
    IN 365 * year + year \div 4 - year \div 100 + year \div 400 + (153 * before + 2) \div 5

DaysOf(month) == FirstOf(month) .. FirstOf(month + 1) - 1
Weekday(day) == (day + 3) % 7
MonthOf(day) == CHOOSE m \in (day \div 31) .. (day \div 28) + 3 : day \in DaysOf(m)
YearOf(month) == month \div 12

\* Mutant: days that the other month does not have run over into the next.
SetOverflowing(day, month) == FirstOf(month) + day - FirstOf(MonthOf(day))

\* set: the same day of another month, or its last.
SetMonth(day, month) == FirstOf(month) + Min({day - FirstOf(MonthOf(day)), Cardinality(DaysOf(month)) - 1})

-----------------------------------------------------------------------------
(* ActivityCalendar *)

WeekStarts == {-1, 0, 1}
WeekDays == <<0, 1, 2, 3, 4, 5, 6>>

\* slice with a start from the end, if negative.
SliceFrom(s, k) == SubSeq(s, (IF k < 0 THEN Len(s) + k ELSE k) + 1, Len(s))
SliceTo(s, k) == SubSeq(s, 1, IF k < 0 THEN Len(s) + k ELSE k)
RotatedWeekDays == SliceFrom(WeekDays, weekStart) \o SliceTo(WeekDays, weekStart)

StartOffset(month) == (Weekday(FirstOf(month)) - weekStart + 7) % 7

\* Mutant: one day too many after the month.
EndOffsetByOne(month) == (weekStart + 7 - Weekday(FirstOf(month + 1) - 1) + 7) % 7

EndOffset(month) == (weekStart + 6 - Weekday(FirstOf(month + 1) - 1) + 7) % 7

CreateCalendarDayCell(day, month, data) ==
    [date |-> day, isCurrentMonth |-> day \in DaysOf(month),
     count |-> IF day \in DOMAIN data THEN data[day] ELSE 0]

\* useCalendarMatrix, week after week.
CalendarMatrix(month, data) ==
    LET start == FirstOf(month) - StartOffset(month)
        dayCount == FirstOf(month + 1) - 1 + EndOffset(month) - start + 1
    IN [i \in 1 .. dayCount |-> CreateCalendarDayCell(start + i - 1, month, data)]

CalculateMaxCount(data) == Max({data[d] : d \in DOMAIN data} \cup {1})

\* getCellIntensityClass, from EMPTY (0) to HIGH (4)
Intensity(cell, maxCount) ==
    IF ~cell.isCurrentMonth \/ cell.count = 0 THEN 0
    ELSE 1 + Cardinality({quarter \in 1 .. 3 : 4 * cell.count > quarter * maxCount})

FilterDataByYear(data, year) ==
    [d \in DOMAIN data \cap (FirstOf(12 * year) .. FirstOf(12 * year + 12) - 1) |-> data[d]]

MonthsOfYear(year) == {12 * year + i : i \in 0 .. 11}

\* MonthCalendar: the cells in a grid of seven columns, each as dark as maxCount makes it.
Drawn(month, data, maxCount) ==
    LET cells == CalendarMatrix(month, data)
    IN [cells |-> cells, shade |-> [i \in DOMAIN cells |-> Intensity(cells[i], maxCount)]]

\* The twelve cards of YearCalendar, shaded by the counts of their year alone.
YearCards(year) ==
    LET data == FilterDataByYear(activity, year)
    IN [month \in MonthsOfYear(year) |-> Drawn(month, data, CalculateMaxCount(data))]

\* The month of StatisticsView.
VisibleMonth == Drawn(calendar.month, activity, CalculateMaxCount(activity))

-----------------------------------------------------------------------------
(* MonthNavigator *)

Flip ==
    /\ subject = "calendar" /\ flips < MaxFlips /\ flips' = flips + 1
    /\ UNCHANGED <<subject, weekStart, activity, blocks>>

FlipMonth(by) ==
    /\ Flip /\ ~calendar.open
    /\ calendar' = [calendar EXCEPT !.month = @ + by]

\* The dialog takes the current year when it opens, and keeps it.
OpenYear ==
    /\ Flip /\ ~calendar.open
    /\ calendar' = [calendar EXCEPT !.open = TRUE, !.currentYear = YearOf(MonthOf(calendar.today))]

CloseYear == Flip /\ calendar.open /\ calendar' = [calendar EXCEPT !.open = FALSE]

\* setYearAndMonth, by way of today's date.
SetYearAndMonth(year, month) ==
    LET today == calendar.today
    IN MonthOf(SetMonth(SetMonth(today, 12 * year + (MonthOf(today) % 12)), 12 * year + month))

HandleYearChange(year) ==
    calendar' = [calendar EXCEPT !.month = SetYearAndMonth(year, calendar.month % 12)]

PrevYear == Flip /\ calendar.open /\ YearOf(calendar.month) > MinYear /\ HandleYearChange(YearOf(calendar.month) - 1)

NextYear ==
    /\ Flip /\ calendar.open
    /\ YearOf(calendar.month) < YearOf(MonthOf(calendar.today)) + 1
    /\ HandleYearChange(YearOf(calendar.month) + 1)

ClickToday ==
    /\ Flip /\ calendar.open /\ YearOf(calendar.month) # calendar.currentYear
    /\ HandleYearChange(calendar.currentYear)

\* A cell of its own month in the dialog: the month is shown, the dialog closes.
ClickDay ==
    /\ Flip /\ calendar.open
    /\ \E month \in MonthsOfYear(YearOf(calendar.month)) :
         \E cell \in Range(YearCards(YearOf(month))[month].cells) :
           /\ cell.isCurrentMonth /\ cell.date \in {FirstOf(month), FirstOf(month + 1) - 1}
           /\ calendar' = [calendar EXCEPT !.month = MonthOf(cell.date), !.open = FALSE]

\* Midnight; what shows days is drawn again before the next click.
DayPasses ==
    /\ subject = "calendar" /\ calendar.today \in Todays
    /\ calendar' = [calendar EXCEPT !.today = @ + 1]
    /\ UNCHANGED <<subject, weekStart, activity, blocks, flips>>

-----------------------------------------------------------------------------
(* Headings of a memo *)

Titles == {<<>>, <<"A">>, <<"a", "!">>, <<"a", " ", "1">>, <<"!">>}
Levels == {1, 4, 5}

\* Letters are lowered, signs dropped, and spaces and hyphens made one hyphen, but at the ends.
Slugify(title) ==
    LET kept == [i \in DOMAIN title |-> CASE title[i] = "A" -> "a" [] title[i] = " " -> "-" [] OTHER -> title[i]]
        words == SelectSeq(kept, LAMBDA c : c # "!")
        single == {i \in DOMAIN words : words[i] # "-" \/ (i > 1 /\ i < Len(words) /\ words[i - 1] # "-")}
    IN [i \in 1 .. Cardinality(single) |-> words[SetToSortSeq(single, <)[i]]]

Numbers == <<"1", "2", "3", "4">>

\* The second heading of a slug has number 1.
Numbered(slug, count) == IF count = 0 THEN slug ELSE slug \o <<"-", Numbers[count]>>

SlugOf(h) == Slugify(blocks[h].title)

\* Earlier headings of a set with the same slug.
Earlier(h, counted) == Cardinality({g \in 1 .. h - 1 : g \in counted /\ SlugOf(g) = SlugOf(h)})

\* extractHeadings: those of levels 1 to 4 with a text.
Outlined == {h \in DOMAIN blocks : blocks[h].level <= 4 /\ blocks[h].title # <<>>}
Entry(h) == Numbered(SlugOf(h), Earlier(h, Outlined))

\* rehypeHeadingId: those with a slug.
Anchored == {h \in DOMAIN blocks : SlugOf(h) # <<>>}
HeadingId(h) == Numbered(SlugOf(h), Earlier(h, Anchored))

\* handleClick: the first element with the id; 0 if there is none.
ClickEntry(h) ==
    LET found == {g \in Anchored : HeadingId(g) = Entry(h)}
    IN IF found = {} THEN 0 ELSE Min(found)

-----------------------------------------------------------------------------
(* Visual attachments of a memo *)

MaxVisibleCells == 6   \* COLLAGE_MAX_VISIBLE_CELLS

\* resolveVisualGalleryLayout: the cells, each with its item and the number of hidden ones on it.
GalleryCells(items) ==
    LET visible == SubSeq(items, 1, Min({Len(items), MaxVisibleCells}))
    IN [i \in DOMAIN visible |->
          [item |-> visible[i], more |-> IF i = Len(visible) THEN Len(items) - Len(visible) ELSE 0]]

\* handlePreview: where the viewer starts.
PreviewIndex(item) == SelectInSeq(blocks, LAMBDA other : other = item)

-----------------------------------------------------------------------------
(* Lists with tasks *)

\* The children of an item as parsed: a task's box first, in a loose list within its paragraph.
Contents == {<<"text">>, <<"text", "list">>, <<"paragraph", "paragraph">>}
ListItems == [task : BOOLEAN, content : Contents]

Loose(item) == item.content = <<"paragraph", "paragraph">>

\* splitMixedList: groups of tasks and of others, in turn.  Each keeps the number its list starts at.
SplitMixedList(items) ==
    IF \A i, j \in DOMAIN items : items[i].task = items[j].task THEN <<items>>
    ELSE FoldLeft(LAMBDA groups, item :
                    IF groups # <<>> /\ Last(Last(groups)).task = item.task
                    THEN Front(groups) \o <<Append(Last(groups), item)>>
                    ELSE Append(groups, <<item>>),
                  <<>>, items)

\* What React is given for a task: the box by itself, or as the first of a paragraph's children.
RenderedTask(item) ==
    LET rest == [i \in DOMAIN item.content |-> [kind |-> item.content[i], box |-> FALSE]]
    IN IF ~item.task THEN rest
       ELSE IF Loose(item) THEN [rest EXCEPT ![1].box = TRUE]
       ELSE <<[kind |-> "box", box |-> TRUE]>> \o rest

\* splitTaskListItemChildren: the first box is taken out, everything else stays.
SplitTaskListItemChildren(children) ==
    LET at == SelectInSeq(children, LAMBDA c : c.box)
    IN IF at = 0 THEN [checkbox |-> FALSE, content |-> children]
       ELSE [checkbox |-> TRUE,
             content |-> IF children[at].kind = "box" THEN RemoveAt(children, at)
                         ELSE [children EXCEPT ![at].box = FALSE]]

-----------------------------------------------------------------------------

LayoutInit ==
    /\ subject \in {"calendar", "headings", "gallery", "list"}
    /\ \E today \in Todays :
         /\ calendar = [today |-> today, month |-> MonthOf(today), open |-> FALSE,
                        currentYear |-> YearOf(MonthOf(today))]
         /\ activity = [d \in {today - n : n \in DOMAIN Posts} |-> Posts[today - d]]
    /\ weekStart \in WeekStarts
    /\ subject # "calendar" => calendar.today = Min(Todays) /\ weekStart = 0
    /\ blocks = <<>> /\ flips = 0

\* Attachments are their numbers.
AddBlock ==
    /\ \/ /\ subject = "headings" /\ Len(blocks) < MaxBlocks
          /\ \E level \in Levels, title \in Titles : blocks' = Append(blocks, [level |-> level, title |-> title])
       \/ /\ subject = "gallery" /\ Len(blocks) <= MaxVisibleCells + 1
          /\ blocks' = Append(blocks, Len(blocks) + 1)
       \/ /\ subject = "list" /\ Len(blocks) < MaxBlocks
          /\ \E item \in ListItems : blocks' = Append(blocks, item)
    /\ UNCHANGED <<subject, calendar, weekStart, activity, flips>>

LayoutNext ==
    \/ FlipMonth(-1) \/ FlipMonth(1) \/ OpenYear \/ CloseYear
    \/ PrevYear \/ NextYear \/ ClickToday \/ ClickDay \/ DayPasses
    \/ AddBlock

-----------------------------------------------------------------------------

\* A month takes whole weeks, none of them for nothing; every day of it is there once, under the
\* label of its weekday; a day with memos is coloured, and never paler than one with fewer.
MonthIsWhole(month, drawn) ==
    LET cells == drawn.cells
        own == {i \in DOMAIN cells : cells[i].isCurrentMonth}
    IN /\ Len(cells) % 7 = 0 /\ Min(own) <= 7 /\ Max(own) > Len(cells) - 7
       /\ {cells[i].date : i \in own} = DaysOf(month) /\ Cardinality(own) = Cardinality(DaysOf(month))
       /\ \A i \in DOMAIN cells : Weekday(cells[i].date) = RotatedWeekDays[((i - 1) % 7) + 1]
       /\ \A i \in own : cells[i].date \in DOMAIN activity => drawn.shade[i] > 0
       /\ \A i, j \in own : cells[i].count <= cells[j].count => drawn.shade[i] <= drawn.shade[j]

\* Another year shows the same month of it, whatever day it is today.
YearKeepsMonth ==
    \A year \in YearOf(calendar.month) - 1 .. YearOf(calendar.month) + 1 :
        SetYearAndMonth(year, calendar.month % 12) = 12 * year + (calendar.month % 12)

\* An entry leads to its heading.  Three cases in which it need not: a heading without a slug, one
\* that the page counts after a deeper one, and a slug that ends like a number given to another.
EntriesLead ==
    \A h \in Outlined :
        \/ ClickEntry(h) = h
        \/ SlugOf(h) = <<>>
        \/ \E g \in 1 .. h - 1 : blocks[g].level > 4 /\ SlugOf(g) = SlugOf(h)
        \/ \E g \in DOMAIN blocks, n \in DOMAIN Numbers :
             \E k \in DOMAIN blocks : SlugOf(g) = Numbered(SlugOf(k), n)

\* Every attachment is shown or counted, and the one clicked is the one opened.
GalleryIsWhole ==
    LET cells == GalleryCells(blocks)
    IN /\ Len(cells) + FoldLeft(LAMBDA sum, cell : sum + cell.more, 0, cells) = Len(blocks)
       /\ \A i \in DOMAIN cells : cells[i].more > 0 => i = Len(cells)
       /\ \A i \in DOMAIN cells : blocks[PreviewIndex(cells[i].item)] = cells[i].item

\* A list is split where tasks and others meet and nowhere else, in its order, which is what tells
\* its tasks apart; a task keeps its text and has one box.
ListIsWhole ==
    LET lists == SplitMixedList(blocks)
    IN /\ FlattenSeq(lists) = blocks
       /\ \A k \in DOMAIN lists : \A i, j \in DOMAIN lists[k] : lists[k][i].task = lists[k][j].task
       /\ \A k \in 1 .. Len(lists) - 1 : Head(lists[k]).task # Head(lists[k + 1]).task
       /\ \A i \in DOMAIN blocks :
            LET split == SplitTaskListItemChildren(RenderedTask(blocks[i]))
            IN /\ split.checkbox = blocks[i].task
               /\ [j \in DOMAIN split.content |-> split.content[j].kind] = blocks[i].content
               /\ \A j \in DOMAIN split.content : ~split.content[j].box

\* Nothing is missing, doubled or out of place on screen.
LayoutIsWhole ==
    /\ subject = "calendar" =>
         /\ MonthIsWhole(calendar.month, VisibleMonth) /\ YearKeepsMonth
         /\ calendar.open => LET cards == YearCards(YearOf(calendar.month))
                             IN \A month \in DOMAIN cards : MonthIsWhole(month, cards[month])
    /\ subject = "headings" => EntriesLead
    /\ subject = "gallery" => GalleryIsWhole
    /\ subject = "list" => ListIsWhole

===============================================================================
