------------------------------ MODULE WebAccount ------------------------------
(***************************************************************************)
(* What a user prefers and who she is, in one tab: theme and language,     *)
(* which are applied at once, kept in the browser, saved, and fetched      *)
(* again; and the dialog that changes the profile.                         *)
(*                                                                         *)
(* A change of the settings applies a theme in the turn that renders it.   *)
(* Answers may overtake each other on their way, and requests likewise.    *)
(* A language is there at once: loading its texts is not modelled.         *)
(***************************************************************************)
EXTENDS Naturals, Sequences, FiniteSets

LOCAL INSTANCE SequencesExt

CONSTANTS
    MaxPicks,   \* bound on choices and edits of the user
    MaxOddities \* bound on changes of the system's theme, changes elsewhere and failures

ASSUME WebAccountConstants == MaxPicks \in Nat /\ MaxOddities \in Nat

Preferences == {"theme", "locale"}
Themes == {"system", "paper"}
Locales == {"en", "de"}
Options(f) == IF f = "theme" THEN Themes ELSE Locales
ProfileFields == {"username", "description"}

VARIABLES
    general,   \* the server's row of general settings, or none
    account,   \* the server's profile of the user
    scheme,    \* the system's theme, "light" or "dark"
    preferred, \* memos-theme and memos-locale in local storage
    applied,   \* the theme and language on the screen
    member,    \* AuthContext: who is signed in, or nobody
    setting,   \* AuthContext: userGeneralSetting
    listening, \* the listener for the system's theme
    updates,   \* requests that save, in the order they were made
    refetches, \* requests for the settings
    wanted,    \* what the user chose last, where she chose
    profileDialog,    \* the profile dialog: its fields, those edited, and whether it missed a change
    raced,     \* a request or an answer overtook another
    broken,    \* a request failed
    unfetched, \* the page was left, or the user renamed, before the settings were fetched again
    astray,    \* the system's theme changed, with a listener for another choice than the last
    foreign,   \* the description is another device's
    picks, oddities

accountVars == <<general, account, scheme, preferred, applied, member, setting, listening, updates, refetches, wanted, profileDialog,
                 raced, broken, unfetched, astray, foreign, picks, oddities>>

Nobody == [username |-> 0, description |-> 0]
NoSetting == [theme |-> "undefined", locale |-> "undefined"]
NoRow == [theme |-> "none", locale |-> "none"]

\* A value for one field, and a record with some of its fields replaced.
Only(f, value) == [x \in {f} |-> value]
Over(new, old) == [x \in DOMAIN new \cup DOMAIN old |-> IF x \in DOMAIN new THEN new[x] ELSE old[x]]

Pick == picks < MaxPicks /\ picks' = picks + 1
Oddity == oddities < MaxOddities /\ oddities' = oddities + 1

\* A request that saves: whether its answer is followed by a fetch, and its fields are the user's own.
Request(put, place, own) ==
    [put |-> put, place |-> place, as |-> member.username, served |-> FALSE, ok |-> FALSE, answer |-> account,
     refetch |-> place # "dialog", own |-> own]

-----------------------------------------------------------------------------
(* What the server says *)

\* ListUserSettings: a user without a row is told the defaults.
Reported(row) == IF row = NoRow THEN [theme |-> "", locale |-> "en"] ELSE row

\* Mutant: the mask is ignored.
MergedUnmasked(row, put) == Over(put, [theme |-> "", locale |-> ""])

\* UpdateUserSetting changes the fields of the mask; a new row starts empty, not with the defaults.
Merged(row, put) == Over(put, IF row = NoRow THEN [theme |-> "", locale |-> ""] ELSE row)

-----------------------------------------------------------------------------
(* Theme and language of the screen *)

\* resolveTheme
Resolved(theme) == IF theme = "system" THEN scheme ELSE theme

\* getThemeWithFallback
ThemeWithFallback(value) ==
    IF value \in Themes THEN value ELSE IF preferred.theme \in Themes THEN preferred.theme ELSE "system"

\* getLocaleWithFallback, for a browser in English.
LocaleWithFallback(value) ==
    IF value \in Locales THEN value ELSE IF preferred.locale \in Locales THEN preferred.locale ELSE "en"

WithFallback(f, value) == IF f = "theme" THEN ThemeWithFallback(value) ELSE LocaleWithFallback(value)

\* loadTheme and loadLocale, for the fields with a new value.
Load(values) ==
    /\ preferred' = Over(values, preferred)
    /\ applied' = Over([f \in DOMAIN values |-> IF f = "theme" THEN Resolved(values[f]) ELSE values[f]], applied)

\* The effects of useUserTheme and useUserLocale each depend on one field of the setting, and do
\* nothing without a setting.
Reloaded(new) == IF new = NoSetting THEN {} ELSE {f \in Preferences : new[f] # setting[f]}

\* The listener is set anew when the theme of the setting has changed.
Effects(new) ==
    /\ setting' = new
    /\ Load([f \in Reloaded(new) |-> WithFallback(f, new[f])])
    /\ listening' = IF new.theme # setting.theme THEN ThemeWithFallback(new.theme) = "system" ELSE listening
    /\ astray' = (astray /\ "theme" \notin Reloaded(new))

\* applyThemeEarly, applyLocaleEarly, and the effects of a page without a user.
AccountInit ==
    /\ general \in {NoRow, [theme |-> "system", locale |-> "de"]}
    /\ account = [username |-> 1, description |-> 1]
    /\ scheme = "light"
    /\ preferred \in [theme : Themes, locale : {"en"}]
    /\ applied = [theme |-> Resolved(preferred.theme), locale |-> "en"]
    /\ member = Nobody /\ setting = NoSetting /\ listening = (preferred.theme = "system")
    /\ updates = <<>> /\ refetches = <<>> /\ wanted = <<>>
    /\ profileDialog = [fields |-> <<>>, edited |-> {}, stale |-> FALSE]
    /\ raced = FALSE /\ broken = FALSE /\ unfetched = FALSE /\ astray = FALSE /\ foreign = FALSE
    /\ picks = 0 /\ oddities = 0

FreshDialog(user) == [fields |-> user, edited |-> {}, stale |-> FALSE]

\* initialize after a sign-in: the user and her settings come together.
SignInAs ==
    /\ member = Nobody
    /\ member' = account /\ Effects(Reported(general)) /\ profileDialog' = FreshDialog(account) /\ wanted' = <<>>
    /\ UNCHANGED <<general, account, scheme, updates, refetches, raced, broken, unfetched, foreign,
                   picks, oddities>>

\* "Listen for system theme changes when using system theme": the theme the listener was set for.
SystemThemeChanges ==
    /\ Oddity
    /\ scheme' = IF scheme = "light" THEN "dark" ELSE "light"
    /\ IF listening
       THEN /\ preferred' = [preferred EXCEPT !.theme = "system"] /\ applied' = [applied EXCEPT !.theme = scheme']
            /\ astray' = (preferred.theme # "system" \/ astray)
       ELSE astray' = (preferred.theme = "system" \/ astray) /\ UNCHANGED <<preferred, applied>>
    /\ UNCHANGED <<general, account, member, setting, listening, updates, refetches, wanted, profileDialog,
                   raced, broken, unfetched, foreign, picks>>

\* AuthFooter, without a user: nothing tells the listener.
GuestPicks(f, value) ==
    /\ member = Nobody /\ preferred[f] # value /\ Pick
    /\ Load(Only(f, value)) /\ wanted' = Over(Only(f, value), wanted)
    /\ astray' = (astray /\ f # "theme")
    /\ UNCHANGED <<general, account, scheme, member, setting, listening, updates, refetches, profileDialog,
                   raced, broken, unfetched, foreign, oddities>>

\* What the selectors of the menu and of the settings page show.
Selected(place, f) ==
    IF place = "menu" THEN WithFallback(f, setting[f])
    ELSE IF f = "theme" /\ setting.theme = "" THEN "system" ELSE setting[f]

Unheard(place) == [i \in DOMAIN updates |-> [updates[i] EXCEPT !.refetch = @ /\ updates[i].place # place]]

\* Applied, then saved.  A selector says nothing when what it shows is chosen again; of its
\* callbacks only those of the last mutation are called.
Picks(place, f, value) ==
    /\ member # Nobody /\ value # Selected(place, f) /\ Pick
    /\ Load(Only(f, value)) /\ wanted' = Over(Only(f, value), wanted)
    /\ astray' = (astray /\ f # "theme")
    /\ updates' = Append(Unheard(place), Request(Only(f, value), place, TRUE))
    /\ UNCHANGED <<general, account, scheme, member, setting, listening, refetches, profileDialog, raced,
                   broken, unfetched, foreign, oddities>>

\* handleThemeChange, handleLocaleChange of UserMenu and of PreferencesSection.
PicksInMenu(f, value) == Picks("menu", f, value)
PicksInSettings(f, value) == Picks("page", f, value)

-----------------------------------------------------------------------------
(* UpdateAccountDialog: mounted with the page, it is not told of a change of the user *)

Edit(f) ==
    /\ member # Nobody /\ Pick
    /\ profileDialog' = [profileDialog EXCEPT !.fields[f] = @ + 1, !.edited = @ \cup {f}]
    /\ UNCHANGED <<general, account, scheme, preferred, applied, member, setting, listening,
                   updates, refetches, wanted, raced, broken, unfetched, astray, foreign, oddities>>

\* Mutant: every field is sent.
UpdateMaskAll == ProfileFields

\* handleSaveBtnClick sends what differs from the user as the page knows her.
UpdateMask == {f \in ProfileFields : profileDialog.fields[f] # member[f]}

\* The button works while a save is under way.
SaveAccount ==
    /\ member # Nobody /\ UpdateMask # {} /\ Len(updates) < 3
    /\ updates' = Append(updates, Request([f \in UpdateMask |-> profileDialog.fields[f]], "dialog",
                                          profileDialog.stale \/ UpdateMask \subseteq profileDialog.edited))
    /\ UNCHANGED <<general, account, scheme, preferred, applied, member, setting, listening,
                   refetches, wanted, profileDialog, raced, broken, unfetched, astray, foreign, picks,
                   oddities>>

\* Another device describes the user anew.
DescribedElsewhere ==
    /\ Oddity
    /\ account' = [account EXCEPT !.description = 10] /\ foreign' = TRUE
    /\ UNCHANGED <<general, scheme, preferred, applied, member, setting, listening, updates,
                   refetches, wanted, profileDialog, raced, broken, unfetched, astray, picks>>

\* The settings are left and entered: the dialog starts afresh, and no callback is called.
LeaveSettings ==
    /\ member # Nobody /\ (updates # <<>> \/ profileDialog # FreshDialog(member)) /\ Pick
    /\ profileDialog' = FreshDialog(member)
    /\ updates' = Unheard("page") /\ unfetched' = (unfetched \/ updates' # updates)
    /\ UNCHANGED <<general, account, scheme, preferred, applied, member, setting, listening,
                   refetches, wanted, raced, broken, astray, foreign, oddities>>

-----------------------------------------------------------------------------
(* Requests *)

\* UpdateUserSetting, UpdateUser: found by name, which may be an old one by now.
ServeUpdate(i) ==
    LET u == updates[i]
        ok == u.as = account.username
        profile == DOMAIN u.put \subseteq ProfileFields
    IN /\ i \in DOMAIN updates /\ ~u.served
       /\ account' = IF ok /\ profile THEN Over(u.put, account) ELSE account
       /\ general' = IF ok /\ ~profile THEN Merged(general, u.put) ELSE general
       /\ foreign' = (foreign /\ ~(ok /\ profile /\ "description" \in DOMAIN u.put /\ u.own))
       /\ updates' = [updates EXCEPT ![i].served = TRUE, ![i].ok = ok, ![i].answer = account']
       /\ raced' = (raced \/ \E j \in 1 .. i - 1 : ~updates[j].served)
       /\ UNCHANGED <<scheme, preferred, applied, member, setting, listening, refetches, wanted,
                      profileDialog, broken, unfetched, astray, picks, oddities>>

\* setCurrentUser: the page knows, the dialog does not.
SetCurrentUser(user) ==
    LET unedited == ProfileFields \ profileDialog.edited
    IN /\ member' = user
       /\ profileDialog' = [profileDialog EXCEPT !.stale = @ \/ \E f \in unedited : profileDialog.fields[f] # user[f]]

\* onSuccess: refetchSettings, for the user as she was called; setCurrentUser for a profile.
UpdateAnswered(i) ==
    LET u == updates[i]
        profile == DOMAIN u.put \subseteq ProfileFields
    IN /\ i \in DOMAIN updates /\ u.served
       /\ updates' = RemoveAt(updates, i)
       /\ raced' = (raced \/ \E j \in 1 .. i - 1 : updates[j].served)
       /\ broken' = (broken \/ ~u.ok)
       /\ IF u.ok /\ profile THEN SetCurrentUser(u.answer) ELSE UNCHANGED <<member, profileDialog>>
       /\ refetches' = IF u.ok /\ u.refetch
                       THEN Append(refetches, [as |-> u.as, read |-> NoSetting, late |-> FALSE]) ELSE refetches
       /\ UNCHANGED <<general, account, scheme, preferred, applied, setting, listening, wanted,
                      unfetched, astray, foreign, picks, oddities>>

\* The settings are read, under a name that is still right.
ServeRefetch(i) ==
    /\ i \in DOMAIN refetches /\ refetches[i].read = NoSetting /\ refetches[i].as = account.username
    /\ refetches' = [refetches EXCEPT ![i].read = Reported(general)]
    /\ UNCHANGED <<general, account, scheme, preferred, applied, member, setting, listening,
                   updates, wanted, profileDialog, raced, broken, unfetched, astray, foreign, picks,
                   oddities>>

\* Settings of a user by another name are dropped.
RefetchAnswered(i) ==
    LET r == refetches[i]
        overtaken == [j \in DOMAIN refetches |-> [refetches[j] EXCEPT !.late = @ \/ refetches[j].read # NoSetting]]
    IN /\ i \in DOMAIN refetches /\ r.read # NoSetting
       /\ refetches' = RemoveAt(overtaken, i)
       /\ raced' = (raced \/ r.late)
       /\ IF r.as = member.username THEN Effects(r.read) /\ UNCHANGED unfetched
          ELSE unfetched' = TRUE /\ UNCHANGED <<preferred, applied, setting, listening, astray>>
       /\ UNCHANGED <<general, account, scheme, member, updates, wanted, profileDialog, broken, foreign,
                      picks, oddities>>

\* A save that fails, served or not, leaves what was applied.
UpdateFails(i) ==
    /\ i \in DOMAIN updates /\ Oddity
    /\ updates' = RemoveAt(updates, i) /\ broken' = TRUE
    /\ UNCHANGED <<general, account, scheme, preferred, applied, member, setting, listening,
                   refetches, wanted, profileDialog, raced, unfetched, astray, foreign, picks>>

RefetchFails(i) ==
    /\ i \in DOMAIN refetches
    /\ Oddity \/ (refetches[i].as # account.username /\ UNCHANGED oddities)
    /\ refetches' = RemoveAt(refetches, i) /\ broken' = TRUE
    /\ UNCHANGED <<general, account, scheme, preferred, applied, member, setting, listening,
                   updates, wanted, profileDialog, raced, unfetched, astray, foreign, picks>>

AccountNext ==
    \/ SignInAs \/ SystemThemeChanges \/ SaveAccount \/ DescribedElsewhere \/ LeaveSettings
    \/ \E f \in Preferences : \E value \in Options(f) : 
          GuestPicks(f, value) \/ PicksInMenu(f, value) \/ PicksInSettings(f, value)
    \/ \E f \in ProfileFields : Edit(f)
    \/ \E i \in 1 .. Len(updates) : ServeUpdate(i) \/ UpdateAnswered(i) \/ UpdateFails(i)
    \/ \E i \in 1 .. Len(refetches) : ServeRefetch(i) \/ RefetchAnswered(i) \/ RefetchFails(i)

AccountSpec == AccountInit /\ [][AccountNext]_accountVars

-----------------------------------------------------------------------------
(* Properties *)

\* With no request under way, what was chosen last is what the browser keeps and shows and, for a
\* user, what the server has and the page believes; unless requests or answers overtook each
\* other, one failed, or the page was left too early (useUserTheme, PreferencesSection, UserMenu).
ChoicesSettle ==
    updates = <<>> /\ refetches = <<>> /\ ~raced /\ ~broken =>
        /\ ~astray /\ ~unfetched =>
                      /\ \A f \in DOMAIN wanted : preferred[f] = wanted[f]
                      /\ applied.theme = Resolved(preferred.theme)
        /\ applied.locale = preferred.locale
        /\ member # Nobody => member.username = account.username
        /\ member # Nobody => \A f \in DOMAIN wanted : general[f] = wanted[f] /\ (unfetched \/ setting[f] = wanted[f])

\* What another device wrote of the user is overwritten by a field she edited only; unless the
\* answer to an earlier save had told the page, but not the dialog, of a change (UpdateAccountDialog).
OnlyEditsAreSaved == foreign => account.description = 10

\* Both.
AccountIsKept == ChoicesSettle /\ OnlyEditsAreSaved

===============================================================================
