------------------------------- MODULE WebTheme -------------------------------
(***************************************************************************)
(* The colour theme in the tabs of one browser (theme-provider.tsx): the    *)
(* value in localStorage, the storage events that the other tabs get of it, *)
(* the state of the provider, and the class that its effect puts on the     *)
(* document.                                                                *)
(***************************************************************************)
EXTENDS Integers, Sequences, FiniteSets

CONSTANTS
  ThemeTabs,
  MaxThemes,  \* bound: changes of the theme
  MaxSchemes  \* bound: changes of the system's colour scheme

ASSUME ThemeBounds == MaxThemes \in Nat /\ MaxSchemes \in Nat

Resolved == {"dark", "light"}
Themes   == Resolved \union {"system"}
NoTheme  == "none"

VARIABLES
  themeStore, \* localStorage
  theme,      \* theme[t]: the state of the provider; NoTheme: no such tab
  applied,    \* applied[t]: the theme its effect has run for
  htmlClass,  \* htmlClass[t]
  storageEvents, \* storageEvents[t]: on their way to the tab
  scheme,     \* the system's colour scheme
  schemeSeen, \* tabs that have been told of it
  uninformed, \* history: tabs that changed the theme with events on their way
  themeBudget

themeVars == <<themeStore, theme, applied, htmlClass, storageEvents, scheme, schemeSeen,
               uninformed, themeBudget>>

ThemeInit ==
  /\ themeStore = NoTheme
  /\ theme = [t \in ThemeTabs |-> NoTheme]
  /\ applied = [t \in ThemeTabs |-> NoTheme]
  /\ htmlClass = [t \in ThemeTabs |-> "light"]
  /\ storageEvents = [t \in ThemeTabs |-> <<>>]
  /\ scheme = "light"
  /\ schemeSeen = ThemeTabs
  /\ uninformed = {}
  /\ themeBudget = [themes |-> MaxThemes, schemes |-> MaxSchemes]

Opened == {t \in ThemeTabs : theme[t] # NoTheme}
Resolve(value) == IF value = "system" THEN scheme ELSE value

\* A tab is opened: the stored theme, or the default.
OpenTab(t) ==
  /\ t \notin Opened
  /\ theme' = [theme EXCEPT ![t] = IF themeStore \in Themes THEN themeStore ELSE "system"]
  /\ UNCHANGED <<themeStore, applied, htmlClass, storageEvents, scheme, schemeSeen, uninformed, themeBudget>>

\* localStorage.setItem, which tells the other tabs if the value changes, and
\* the state.
SetTheme(t, value) ==
  /\ themeBudget.themes > 0 /\ t \in Opened
  /\ themeStore' = value
  /\ storageEvents' = [u \in ThemeTabs |->
       IF u \in Opened \ {t} /\ value # themeStore THEN Append(storageEvents[u], value) ELSE storageEvents[u]]
  /\ theme' = [theme EXCEPT ![t] = value]
  /\ uninformed' = IF storageEvents[t] # <<>> THEN uninformed \union {t} ELSE uninformed
  /\ themeBudget' = [themeBudget EXCEPT !.themes = @ - 1]
  /\ UNCHANGED <<applied, htmlClass, scheme, schemeSeen>>

\* The button of the header (header-action.tsx).
ThemeButton(t) == SetTheme(t, IF theme[t] = "dark" THEN "light" ELSE "dark")

\* Plausible bug: the key goes through all three themes.
KeyDownCycles(t) ==
  SetTheme(t, CASE theme[t] = "dark"  -> "light"
                [] theme[t] = "light" -> "system"
                [] OTHER -> "dark")

\* The key "d", outside inputs.
KeyDown(t) == SetTheme(t, IF Resolve(theme[t]) = "dark" THEN "light" ELSE "dark")

\* Plausible bug: only the first event is listened to.
HandleFirstStorage(t) ==
  /\ storageEvents[t] # <<>>
  /\ theme' = [theme EXCEPT ![t] = IF @ = "system" THEN Head(storageEvents[t]) ELSE @]
  /\ storageEvents' = [storageEvents EXCEPT ![t] = Tail(@)]
  /\ UNCHANGED <<themeStore, applied, htmlClass, scheme, schemeSeen, uninformed, themeBudget>>

handleStorageChange(t) ==
  /\ storageEvents[t] # <<>>
  /\ theme' = [theme EXCEPT ![t] = Head(storageEvents[t])]
  /\ storageEvents' = [storageEvents EXCEPT ![t] = Tail(@)]
  /\ UNCHANGED <<themeStore, applied, htmlClass, scheme, schemeSeen, uninformed, themeBudget>>

\* The effect: the class, and the listener of the scheme for "system".
ApplyTheme(t) ==
  /\ t \in Opened /\ applied[t] # theme[t]
  /\ applied' = [applied EXCEPT ![t] = theme[t]]
  /\ htmlClass' = [htmlClass EXCEPT ![t] = Resolve(theme[t])]
  /\ UNCHANGED <<themeStore, theme, storageEvents, scheme, schemeSeen, uninformed, themeBudget>>

SchemeChanges ==
  /\ themeBudget.schemes > 0
  /\ scheme' = IF scheme = "dark" THEN "light" ELSE "dark"
  /\ schemeSeen' = {}
  /\ themeBudget' = [themeBudget EXCEPT !.schemes = @ - 1]
  /\ UNCHANGED <<themeStore, theme, applied, htmlClass, storageEvents, uninformed>>

\* handleChange, if the effect that has run last listens.
SchemeHeard(t) ==
  /\ t \notin schemeSeen
  /\ schemeSeen' = schemeSeen \union {t}
  /\ htmlClass' = [htmlClass EXCEPT ![t] = IF applied[t] = "system" THEN scheme ELSE @]
  /\ UNCHANGED <<themeStore, theme, applied, storageEvents, scheme, uninformed, themeBudget>>

ThemeProgress ==
  \E t \in ThemeTabs : handleStorageChange(t) \/ ApplyTheme(t) \/ SchemeHeard(t)

ThemeNext ==
  \/ ThemeProgress
  \/ \E t \in ThemeTabs : OpenTab(t) \/ ThemeButton(t) \/ KeyDown(t)
  \/ SchemeChanges

-----------------------------------------------------------------------------
\* Every variable holds a value of its type.
ThemeTypeOK ==
  /\ themeStore \in Resolved \union {NoTheme}
  /\ \A t \in ThemeTabs :
       /\ {theme[t], applied[t]} \subseteq Themes \union {NoTheme}
       /\ htmlClass[t] \in Resolved
       /\ \A i \in DOMAIN storageEvents[t] : storageEvents[t][i] \in Resolved

ThemeAtRest ==
  \A t \in ThemeTabs :
    /\ storageEvents[t] = <<>> /\ t \in schemeSeen
    /\ t \in Opened => applied[t] = theme[t]

\* When all events have been handled, every tab shows the theme that is
\* stored, in the class of its document, the scheme of the system included:
\* unless a tab changed the theme before it had heard of another tab's change,
\* which then overwrites its own.
TabsShowStoredTheme ==
  ThemeAtRest => \A t \in Opened :
    /\ htmlClass[t] = Resolve(theme[t])
    /\ t \notin uninformed => theme[t] = (IF themeStore = NoTheme THEN "system" ELSE themeStore)
=============================================================================
