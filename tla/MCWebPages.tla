------------------------------ MODULE MCWebPages ------------------------------
(* Parts of the web client that keep state of their own, for TLC: one of them, chosen at the      *)
(* start, takes all the steps.  They share the caches and the address of a page, but no rule of   *)
(* one depends on another's state, so that running one at a time loses nothing of what is said.   *)
EXTENDS WebEditor, WebQueries, WebSettings, WebOAuth, WebLists, WebFilters, WebPlayer

CONSTANT Parts  \* the parts to run

VARIABLE part

Init ==
    /\ part \in Parts
    /\ EditorInit /\ QueriesInit /\ SettingsInit /\ OAuthInit /\ ListsInit /\ FiltersInit /\ PlayerInit

Next ==
    /\ UNCHANGED part
    /\ \/ /\ part = "editor" /\ EditorNext
          /\ UNCHANGED <<queriesVars, settingsVars, oauthVars, listsVars, filtersVars, playerVars>>
       \/ /\ part = "queries" /\ QueriesNext
          /\ UNCHANGED <<editorVars, settingsVars, oauthVars, listsVars, filtersVars, playerVars>>
       \/ /\ part = "settings" /\ SettingsNext
          /\ UNCHANGED <<editorVars, queriesVars, oauthVars, listsVars, filtersVars, playerVars>>
       \/ /\ part = "oauth" /\ OAuthNext
          /\ UNCHANGED <<editorVars, queriesVars, settingsVars, listsVars, filtersVars,
                      playerVars>>
       \/ /\ part = "lists" /\ ListsNext
          /\ UNCHANGED <<editorVars, queriesVars, settingsVars, oauthVars, filtersVars,
                      playerVars>>
       \/ /\ part = "filters" /\ FiltersNext
          /\ UNCHANGED <<editorVars, queriesVars, settingsVars, oauthVars, listsVars, playerVars>>
       \/ /\ part = "player" /\ PlayerNext
          /\ UNCHANGED <<editorVars, queriesVars, settingsVars, oauthVars, listsVars, filtersVars>>

===============================================================================
