-------------------------------- MODULE WebText --------------------------------
(***************************************************************************)
(* What is read out of a memo's text, by programs that have to agree:      *)
(* tags and mentions, which the server, the page that shows a memo and the *)
(* rich-text editor each look for with a lexer of their own; tasks, which  *)
(* are ticked by number in one place and by line in another; and the tree  *)
(* of tags beside the list.                                                *)
(*                                                                         *)
(* A text grows a letter, a line or a tag at a time, of those that make a  *)
(* difference.  A tag or mention found is the pair of the places of its    *)
(* sign and its last letter.                                               *)
(***************************************************************************)
EXTENDS Naturals, Sequences, FiniteSets, TLC

LOCAL INSTANCE SequencesExt
LOCAL INSTANCE FiniteSetsExt

CONSTANTS
    MaxLetters, \* bound on the letters of a text
    MaxLines,   \* bound on lines, and on tags of a tree
    MaxLength   \* MAX_TAG_LENGTH and MAX_MENTION_LENGTH

ASSUME WebTextConstants == MaxLetters \in Nat /\ MaxLines \in Nat /\ MaxLength \in Nat \ {0}

VARIABLES topic, source

textVars == <<topic, source>>

\* "\\#" is an escaped hash, "letter" stands for what may be in a tag, and "joiner" for the zero width
\* joiner, which emoji are put together with; of mentions, "accented" stands for the letters beyond
\* ASCII.
Letters(what) == IF what = "tags" THEN {"#", "\\#", "letter", "joiner", " "} ELSE {"@", "letter", "accented", "-"}

\* A fence of a code block, and tasks in lists with bullets or numbers and in quotations.
TaskKinds == {"bullet", "number", "quoted"}
Line(kind, checked) == [kind |-> kind, checked |-> checked]
Lines == {Line(kind, checked) : kind \in TaskKinds, checked \in BOOLEAN} \cup {Line("fence", FALSE)}

TagPaths == {<<1>>, <<1, 1>>, <<1, 2>>, <<2, 1>>}

TextInit == topic \in {"tags", "mentions", "tasks", "tree"} /\ source = <<>>

Write ==
    /\ \/ /\ topic \in {"tags", "mentions"} /\ Len(source) < MaxLetters
          /\ \E c \in Letters(topic) : source' = Append(source, c)
       \/ /\ topic = "tasks" /\ Len(source) < MaxLines
          /\ \E l \in Lines : source' = Append(source, l)
       \/ /\ topic = "tree" /\ Len(source) < MaxLines
          /\ \E p \in TagPaths \ {source[i].path : i \in DOMAIN source}, amount \in 1 .. 2 :
                source' = Append(source, [path |-> p, amount |-> amount])
    /\ UNCHANGED topic

TextNext == Write

\* The last of the letters from i on that all are in the set; i - 1 if the first is not.
RunEnd(s, i, set) == Max({i - 1} \cup {j \in i .. Len(s) : \A k \in i .. j : s[k] \in set})

\* The first place from i on with a letter, or one past the end.
NextOf(s, i, c) == Min({Len(s) + 1} \cup {j \in i .. Len(s) : s[j] = c})

-----------------------------------------------------------------------------
(* Tags *)

\* isValidTagRune of the server takes the joiner, TAG_CHAR_CLASS of the client does not.
ServerTagChars == {"letter", "joiner"}
TagChars == {"letter"}
IsHash(c) == c \in {"#", "\\#"}

\* The server's tagParser: no tag before another hash, and the first letters of one too long.
TagsOfServer(s) ==
    LET scan[i \in 1 .. Len(s) + 1] ==
            LET last == RunEnd(s, i + 1, ServerTagChars)
                end == IF last - i > MaxLength THEN i + MaxLength ELSE last
            IN IF i > Len(s) THEN {}
               ELSE IF s[i] = "#" /\ end > i THEN {<<i, end>>} \cup scan[end + 1] ELSE scan[i + 1]
    IN scan[1]

\* Mutant: an escaped hash is taken for a hash.
TagsShownUnescaped(s) ==
    LET t == [i \in DOMAIN s |-> IF IsHash(s[i]) THEN "#" ELSE s[i]]
        scan[i \in 1 .. Len(s) + 1] ==
            IF i > Len(s) THEN {}
            ELSE IF t[i] = "#" /\ RunEnd(t, i + 1, TagChars) > i /\ (i = 1 \/ t[i - 1] # "#")
                 THEN {<<i, RunEnd(t, i + 1, TagChars)>>} \cup scan[RunEnd(t, i + 1, TagChars) + 1] ELSE scan[i + 1]
    IN scan[1]

\* parseSegments of the page: none after a hash, escaped or not, and none too long.
TagsShown(s) ==
    LET scan[i \in 1 .. Len(s) + 1] ==
            LET last == RunEnd(s, i + 1, TagChars)
                candidate == s[i] = "#" /\ last > i
            IN IF i > Len(s) THEN {}
               ELSE IF candidate /\ i > 1 /\ IsHash(s[i - 1]) THEN scan[i + 1]
               ELSE IF candidate /\ last - i <= MaxLength THEN {<<i, last>>} \cup scan[last + 1]
               ELSE scan[NextOf(s, i + 1, "#")]
    IN scan[1]

\* TAG_RUN
IsTagRun(s, i) == RunEnd(s, i, TagChars) - i + 1 \in 1 .. MaxLength

\* The editor's tokenizer declines before another hash.
TagsOfEditor(s) ==
    {<<i, RunEnd(s, i + 1, TagChars)>> : i \in {k \in DOMAIN s :
        LET next == RunEnd(s, k + 1, TagChars) + 1
        IN s[k] = "#" /\ IsTagRun(s, k + 1) /\ ~(next \in DOMAIN s /\ s[next] = "#")}}

\* The editor's document: its letters, and which are in a tag.
Parsed(s) ==
    [letters |-> [i \in DOMAIN s |-> IF IsHash(s[i]) THEN "#" ELSE s[i]], tags |-> TagsOfEditor(s)]

\* The places of the piece of text around a letter that is in no tag.
InTag(doc, i) == \E t \in doc.tags : i \in t[1] .. t[2]
TextFrom(doc, i) ==
    LET end == Max({i} \cup {j \in i .. Len(doc.letters) : \A k \in i .. j : ~InTag(doc, k)})
    IN SubSeq(doc.letters, i, end)

\* escapeTagHashes, for what escapesTagsHere lets through: a tag itself is written as it is.
Serialized(doc) ==
    [i \in DOMAIN doc.letters |->
        IF doc.letters[i] = "#" /\ ~InTag(doc, i) /\ IsTagRun(TextFrom(doc, i), 2) THEN "\\#" ELSE doc.letters[i]]

-----------------------------------------------------------------------------
(* Mentions *)

ServerMentionChars == {"letter", "accented", "-"}
MentionChars == {"letter", "-"}

\* The server's mentionParser: letters of any script; a hyphen may come before one, and a letter
\* just past the end counts as one of it.
MentionsOfServer(s) ==
    LET scan[i \in 1 .. Len(s) + 1] ==
            LET last == RunEnd(s, i + 1, ServerMentionChars)
                end == IF last - i > MaxLength THEN i + MaxLength ELSE last
                seen == {s[k] : k \in i + 1 .. (IF last > end THEN end + 1 ELSE end)}
            IN IF i > Len(s) THEN {}
               ELSE IF s[i] = "@" /\ (i = 1 \/ s[i - 1] \in {"@", "-"}) /\ end > i /\ seen \cap {"letter", "accented"} # {}
                    THEN {<<i, end>>} \cup scan[end + 1] ELSE scan[i + 1]
    IN scan[1]

\* parseMentionsFromText
MentionsShown(s) ==
    LET scan[i \in 1 .. Len(s) + 1] ==
            LET last == RunEnd(s, i + 1, MentionChars)
                end == IF last - i > MaxLength THEN i + MaxLength ELSE last
            IN IF i > Len(s) THEN {}
               ELSE IF s[i] = "@" /\ (i = 1 \/ s[i - 1] \notin MentionChars) /\ \E k \in i + 1 .. end : s[k] = "letter"
                    THEN {<<i, end>>} \cup scan[end + 1] ELSE scan[NextOf(s, i + 1, "@")]
    IN scan[1]

\* The editor's tokenizer: MENTION_RUN, where the last token did not end in a letter of one.
MentionsOfEditor(s) ==
    {<<i, IF RunEnd(s, i + 1, MentionChars) - i > MaxLength THEN i + MaxLength ELSE RunEnd(s, i + 1, MentionChars)>> :
        i \in {k \in DOMAIN s : /\ s[k] = "@" /\ ~(k > 1 /\ s[k - 1] \in MentionChars)
                                /\ \E e \in k + 1 .. k + MaxLength : /\ e <= RunEnd(s, k + 1, MentionChars)
                                                                     /\ s[e] = "letter"}}

-----------------------------------------------------------------------------
(* Tasks *)

\* extractTasksFromAst: the lines that are tasks; there are none between fences.
TaskLines(doc) ==
    LET fences(i) == Cardinality({j \in 1 .. i : doc[j].kind = "fence"})
    IN SetToSortSeq({i \in DOMAIN doc : doc[i].kind # "fence" /\ fences(i) % 2 = 0}, <)

\* toggleTaskAtLine changes a line with a bullet only.
ToggleTaskAtIndex(doc, index, checked) ==
    LET i == TaskLines(doc)[index]
    IN IF doc[i].kind = "bullet" THEN [doc EXCEPT ![i].checked = checked] ELSE doc

\* setAllTaskMarkers: TASK_LINE_REGEXP knows bullets and numbers.
SetAllTaskMarkers(doc, checked) ==
    [i \in DOMAIN doc |-> IF i \in ToSet(TaskLines(doc)) /\ doc[i].kind \in {"bullet", "number"}
                          THEN [doc[i] EXCEPT !.checked = checked] ELSE doc[i]]

CountIncomplete(doc) == Cardinality({i \in ToSet(TaskLines(doc)) : ~doc[i].checked})

-----------------------------------------------------------------------------
(* The tree of tags *)

\* Sorted as strings, in which a tag comes before those below it.
Before(p, q) ==
    \/ Len(p) < Len(q) /\ p = SubSeq(q, 1, Len(p))
    \/ \E i \in DOMAIN p \cap DOMAIN q : p[i] < q[i] /\ \A k \in 1 .. i - 1 : p[k] = q[k]

\* Mutant: as they come.
UnsortedTags(tags) == tags

SortedTags(tags) == SortSeq(tags, LAMBDA a, b : Before(a.path, b.path))

\* A node is made when it is first met, with the amount of the tag on whose way it lies if it is
\* one of more than one memo itself.
Grown(nodes, tag, all) ==
    LET prefixes == {SubSeq(tag.path, 1, i) : i \in DOMAIN tag.path}
    IN nodes \cup {[text |-> p, amount |-> IF \E t \in all : t.path = p /\ t.amount > 1 THEN tag.amount ELSE 0] :
                      p \in {q \in prefixes : \A n \in nodes : n.text # q}}

TagTree(tags) ==
    LET sorted == SortedTags(tags)
    IN FoldLeft(LAMBDA nodes, tag : Grown(nodes, tag, ToSet(sorted)), {}, sorted)

-----------------------------------------------------------------------------
(* Properties *)

TooLong(s) == \E i \in DOMAIN s : IsHash(s[i]) /\ RunEnd(s, i + 1, ServerTagChars) - i > MaxLength
HashBefore(s, t) == t[1] > 1 /\ IsHash(s[t[1] - 1])
HashAfter(s, t) == t[2] < Len(s) /\ s[t[2] + 1] = "#"

\* The server's tags as far as the client reads one: up to a joiner, if there is anything before it.
CutTags(s) ==
    {t \in {<<u[1], RunEnd(s, u[1] + 1, TagChars)>> : u \in TagsOfServer(s)} : t[2] > t[1]}

\* The page shows the tags the server has found, but for those after a hash, and the editor but for
\* those before one, each cut short at a joiner; all agree that none is escaped, unless one is too
\* long (isValidTagRune, tag-grammar.ts).
TagsAgree ==
    topic = "tags" /\ ~TooLong(source) =>
        /\ TagsShown(source) = {t \in CutTags(source) : ~HashBefore(source, t)}
        /\ TagsOfEditor(source) = {t \in CutTags(source) : ~HashAfter(source, t)}

\* What the editor writes is read by it as the same document, "doc-equivalent and stable
\* thereafter" (Tag.ts), and has the same tags for the server, but for what follows a joiner, and for
\* the page but those after a hash; unless a hash that starts no tag follows one directly, and is not
\* escaped.
TagsSurvive ==
    topic = "tags" =>
        LET doc == Parsed(source)
            saved == Serialized(doc)
        IN (\A t \in doc.tags : ~HashAfter(saved, t)) =>
              /\ Parsed(saved) = doc
              /\ ~TooLong(source) => CutTags(saved) = doc.tags
              /\ TagsShown(saved) = {t \in doc.tags : ~HashBefore(saved, t)}

\* Page and editor show the same mentions.  They are those the server tells people of, unless there
\* are letters beyond ASCII, a hyphen before one, or one of hyphens only until it is too long.
MentionsAgree ==
    topic = "mentions" =>
        /\ MentionsOfEditor(source) = MentionsShown(source)
        /\ \/ MentionsOfServer(source) = MentionsShown(source)
           \/ \E i \in DOMAIN source : \/ source[i] = "accented"
                                       \/ source[i] = "-" /\ i < Len(source) /\ source[i + 1] = "@"
                                       \/ source[i] = "@" /\ i + MaxLength < Len(source)
                                          /\ \A k \in i + 1 .. i + MaxLength : source[k] = "-"

\* A tick changes the task that was ticked and nothing else, code included; ticking all ticks all
\* but those in quotations, and leaves every other line (markdown-manipulation, markdown-task-actions).
TasksAreHit ==
    topic = "tasks" =>
        LET tasks == TaskLines(source)
        IN \A checked \in BOOLEAN :
             /\ \A index \in DOMAIN tasks :
                   LET new == ToggleTaskAtIndex(source, index, checked)
                   IN /\ TaskLines(new) = tasks
                      /\ \A i \in DOMAIN source : new[i] # source[i] => i = tasks[index] /\ new[i].checked = checked
                      /\ source[tasks[index]].kind = "bullet" => new[tasks[index]].checked = checked
             /\ LET new == SetAllTaskMarkers(source, checked)
                IN /\ \A i \in DOMAIN source : new[i] # source[i] => i \in ToSet(tasks) /\ new[i].checked = checked
                   /\ checked /\ (\A i \in DOMAIN source : source[i].kind # "quoted") => CountIncomplete(new) = 0

\* Every tag and every part of one has one node, with its own amount if that is more than one (TagTree).
TreeIsComplete ==
    topic = "tree" =>
        TagTree(source) = {[text |-> p, amount |-> Max({0} \cup {t.amount : t \in {u \in ToSet(source) : u.path = p /\ u.amount > 1}})] :
                              p \in UNION {{SubSeq(t.path, 1, i) : i \in DOMAIN t.path} : t \in ToSet(source)}}

\* Altogether.
TextIsRead == TagsAgree /\ TagsSurvive /\ MentionsAgree /\ TasksAreHit /\ TreeIsComplete

===============================================================================
