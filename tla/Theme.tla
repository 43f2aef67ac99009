------------------------------- MODULE Theme --------------------------------
(* The theme of the browser tabs that show the program (ThemeProvider): each keeps the        *)
(* preference in its state, all share one browser storage, and the browser tells the other    *)
(* tabs of a write some time after it.                                                        *)
EXTENDS Naturals, Sequences

CONSTANTS Tabs,
          MaxSelections    \* bound on the choices of users and of the operating system

Preferences == {"light", "dark", "system"}
Schemes == {"light", "dark"}

ASSUME ThemeAssumption == MaxSelections \in Nat

VARIABLES storage,       \* does browser storage work?
          stored,        \* the preference in browser storage
          storageEvents, \* per tab, the values of the writes of others it has not heard of yet
          preference,    \* per tab, the preference of its state
          listening,     \* per tab, the preference its listeners and last effect are about
          applied,       \* per tab, the scheme the document shows
          media,         \* the scheme of the operating system
          mediaEvents,   \* the tabs that have not heard of its last change
          selections

themeVars == <<storage, stored, storageEvents, preference, listening, applied, media,
               mediaEvents, selections>>

\* readThemePreference: anything else than the two schemes, or no storage, is the system's.
ReadThemePreference == IF storage THEN stored ELSE "system"

\* applyTheme, the scheme of a preference.
Resolved(p) == IF p = "system" THEN media ELSE p

ThemeInit ==
  /\ storage \in BOOLEAN /\ stored \in Preferences /\ media \in Schemes
  /\ storageEvents = [t \in Tabs |-> << >>] /\ mediaEvents = {}
  /\ preference = [t \in Tabs |-> ReadThemePreference]
  /\ listening = preference
  /\ applied = [t \in Tabs |-> Resolved(preference[t])]
  /\ selections = 0

\* select: the document changes at once, then the state, then the storage; a write that
\* changes the value is an event for the other tabs, and a storage that refuses is ignored.
Select ==
  /\ selections < MaxSelections /\ selections' = selections + 1
  /\ \E t \in Tabs, p \in Preferences :
       /\ applied' = [applied EXCEPT ![t] = Resolved(p)]
       /\ preference' = [preference EXCEPT ![t] = p]
       /\ stored' = IF storage THEN p ELSE stored
       /\ storageEvents' = [u \in Tabs |->
            IF u # t /\ storage /\ p # stored THEN Append(storageEvents[u], p)
            ELSE storageEvents[u]]
  /\ UNCHANGED <<storage, listening, media, mediaEvents>>

\* The effect after a change of the preference: it applies it and listens for it from now on.
ListenAnew ==
  /\ \E t \in Tabs :
       /\ listening[t] # preference[t]
       /\ listening' = [listening EXCEPT ![t] = preference[t]]
       /\ applied' = [applied EXCEPT ![t] = Resolved(preference[t])]
  /\ UNCHANGED <<storage, stored, storageEvents, preference, media, mediaEvents, selections>>

\* Bug: takes the value the event carries.
NewsOfEvent(t) == Head(storageEvents[t])

\* What sync takes for the new preference: the one in the storage by now.
News(t) == ReadThemePreference

\* sync
HearOfStorage ==
  /\ \E t \in Tabs :
       /\ storageEvents[t] # << >>
       /\ storageEvents' = [storageEvents EXCEPT ![t] = Tail(storageEvents[t])]
       /\ applied' = [applied EXCEPT ![t] = Resolved(News(t))]
       /\ preference' = [preference EXCEPT ![t] = News(t)]
  /\ UNCHANGED <<storage, stored, listening, media, mediaEvents, selections>>

SystemChanges ==
  /\ selections < MaxSelections /\ selections' = selections + 1
  /\ media' \in Schemes \ {media}
  /\ mediaEvents' = Tabs
  /\ UNCHANGED <<storage, stored, storageEvents, preference, listening, applied>>

\* update, the listener of the preference it was made for.
HearOfSystem ==
  /\ \E t \in mediaEvents :
       /\ mediaEvents' = mediaEvents \ {t}
       /\ applied' = [applied EXCEPT ![t] = Resolved(listening[t])]
  /\ UNCHANGED <<storage, stored, storageEvents, preference, listening, media, selections>>

ThemeNext == Select \/ ListenAnew \/ HearOfStorage \/ SystemChanges \/ HearOfSystem

\* Effects run and events arrive.
ThemeFairness ==
  WF_themeVars(ListenAnew) /\ WF_themeVars(HearOfStorage) /\ WF_themeVars(HearOfSystem)

ThemeSpec == ThemeInit /\ [][ThemeNext]_themeVars /\ ThemeFairness

-----------------------------------------------------------------------------
ThemeTypeOK ==
  /\ storage \in BOOLEAN /\ stored \in Preferences /\ media \in Schemes
  /\ preference \in [Tabs -> Preferences] /\ listening \in [Tabs -> Preferences]
  /\ applied \in [Tabs -> Schemes] /\ mediaEvents \subseteq Tabs
  /\ \A t \in Tabs : \A i \in 1..Len(storageEvents[t]) : storageEvents[t][i] \in Preferences

\* Whatever two tabs select at the same time and in whatever order they hear of it, and of a
\* change of the system's scheme, all show the theme of the preference that is stored; without
\* browser storage, each shows the theme of its own.
ThemesAgree ==
  \A t \in Tabs : /\ storage => preference[t] = stored
                  /\ applied[t] = Resolved(preference[t])
ThemesSettle == <>[]ThemesAgree
=============================================================================
