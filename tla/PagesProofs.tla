---------------------------- MODULE PagesProofs ----------------------------
(* Proofs about what every page has: the theme, for any number of browser tabs and choices,   *)
(* the notices, for any number of them and any times they are shown for, the search field and *)
(* the field with a list, for any texts, suggestions, options and keys; and about the pages   *)
(* side by side.                                                                              *)
EXTENDS MCPages, NewDownloadProofs, ArtifactBrowserProofs, SessionProofs, ListProofs

\* The values of writes to come, as sequences.
EventsTyped == storageEvents \in [Tabs -> Seq(Preferences)]

\* A tab that has heard of all writes has the preference that is stored.
HeardIsStored == \A t \in Tabs : storage /\ storageEvents[t] = << >> => preference[t] = stored

\* A tab that listens for its preference, and has heard of the system's scheme, shows it.
HeardIsApplied ==
  \A t \in Tabs : listening[t] = preference[t] /\ t \notin mediaEvents
                    => applied[t] = Resolved(preference[t])

ThemeInv == ThemeTypeOK /\ EventsTyped /\ HeardIsStored /\ HeardIsApplied

\* No event and no effect is under way.
Quiet == \A t \in Tabs : /\ storageEvents[t] = << >> /\ t \notin mediaEvents
                         /\ listening[t] = preference[t]

-----------------------------------------------------------------------------
LEMMA ResolvedIsScheme ==
  ASSUME media \in Schemes, NEW p \in Preferences
  PROVE  Resolved(p) \in Schemes
BY DEF Resolved, Preferences, Schemes

LEMMA ReadIsPreference == ThemeTypeOK => ReadThemePreference \in Preferences
BY DEF ThemeTypeOK, ReadThemePreference, Preferences

\* The last conjunct of ThemeTypeOK says no more than EventsTyped.
LEMMA EventsAreTyped ==
  ASSUME EventsTyped
  PROVE  \A t \in Tabs : \A i \in 1..Len(storageEvents[t]) : storageEvents[t][i] \in Preferences
<1> TAKE t \in Tabs
<1>1. storageEvents[t] \in Seq(Preferences)
  BY DEF EventsTyped
<1> QED
  BY <1>1

LEMMA ThemeInitKeeps == ThemeInit => ThemeInv
<1> SUFFICES ASSUME ThemeInit PROVE ThemeInv
  OBVIOUS
<1>1. ReadThemePreference \in Preferences
  BY DEF ThemeInit, ReadThemePreference, Preferences
<1>2. EventsTyped
  BY DEF ThemeInit, EventsTyped
<1>3. applied \in [Tabs -> Schemes]
  BY <1>1, ResolvedIsScheme DEF ThemeInit
<1>4. ThemeTypeOK
  BY <1>1, <1>2, <1>3, EventsAreTyped DEF ThemeInit, ThemeTypeOK
<1>5. HeardIsStored /\ HeardIsApplied
  BY DEF ThemeInit, HeardIsStored, HeardIsApplied, ReadThemePreference
<1> QED
  BY <1>2, <1>4, <1>5 DEF ThemeInv

-----------------------------------------------------------------------------
LEMMA SelectKeeps == ThemeInv /\ Select => ThemeInv'
<1> SUFFICES ASSUME ThemeInv, Select PROVE ThemeInv'
  OBVIOUS
<1> USE DEF ThemeInv
<1>1. PICK t \in Tabs, p \in Preferences :
        /\ applied' = [applied EXCEPT ![t] = Resolved(p)]
        /\ preference' = [preference EXCEPT ![t] = p]
        /\ stored' = IF storage THEN p ELSE stored
        /\ storageEvents' = [u \in Tabs |->
             IF u # t /\ storage /\ p # stored THEN Append(storageEvents[u], p)
             ELSE storageEvents[u]]
  BY DEF Select
<1>2. UNCHANGED <<storage, listening, media, mediaEvents>>
  BY DEF Select
<1>3. EventsTyped'
  BY <1>1 DEF EventsTyped
<1>4. Resolved(p) \in Schemes
  BY ResolvedIsScheme DEF ThemeTypeOK
<1>5. ThemeTypeOK'
  <2>1. \A u \in Tabs : \A i \in 1..Len(storageEvents'[u]) : storageEvents'[u][i] \in Preferences
    BY <1>3, EventsAreTyped DEF EventsTyped
  <2> QED
    BY <1>1, <1>2, <1>4, <2>1 DEF ThemeTypeOK
<1>6. HeardIsStored'
  <2> SUFFICES ASSUME NEW u \in Tabs, storage, storageEvents'[u] = << >>
               PROVE  preference'[u] = stored'
    BY <1>2 DEF HeardIsStored
  <2>1. CASE u = t
    BY <1>1, <2>1 DEF ThemeTypeOK
  <2>2. CASE u # t
    <3>1. Append(storageEvents[u], p) # << >>
      BY DEF EventsTyped
    <3>2. p = stored /\ storageEvents[u] = << >>
      BY <1>1, <2>2, <3>1
    <3> QED
      BY <1>1, <2>2, <3>2 DEF ThemeTypeOK, HeardIsStored
  <2> QED
    BY <2>1, <2>2
<1>7. HeardIsApplied'
  BY <1>1, <1>2 DEF ThemeTypeOK, HeardIsApplied, Resolved
<1> QED
  BY <1>3, <1>5, <1>6, <1>7

LEMMA ListenKeeps == ThemeInv /\ ListenAnew => ThemeInv'
<1> SUFFICES ASSUME ThemeInv, ListenAnew PROVE ThemeInv'
  OBVIOUS
<1> USE DEF ThemeInv
<1>1. PICK t \in Tabs : /\ listening' = [listening EXCEPT ![t] = preference[t]]
                        /\ applied' = [applied EXCEPT ![t] = Resolved(preference[t])]
  BY DEF ListenAnew
<1>2. UNCHANGED <<storage, stored, storageEvents, preference, media, mediaEvents>>
  BY DEF ListenAnew
<1>3. Resolved(preference[t]) \in Schemes
  BY ResolvedIsScheme DEF ThemeTypeOK
<1>4. ThemeTypeOK'
  BY <1>1, <1>2, <1>3 DEF ThemeTypeOK
<1>5. EventsTyped' /\ HeardIsStored'
  BY <1>2 DEF EventsTyped, HeardIsStored
<1>6. HeardIsApplied'
  BY <1>1, <1>2 DEF ThemeTypeOK, HeardIsApplied, Resolved
<1> QED
  BY <1>4, <1>5, <1>6

LEMMA HearKeeps == ThemeInv /\ HearOfStorage => ThemeInv'
<1> SUFFICES ASSUME ThemeInv, HearOfStorage PROVE ThemeInv'
  OBVIOUS
<1> USE DEF ThemeInv
<1>1. PICK t \in Tabs :
        /\ storageEvents[t] # << >>
        /\ storageEvents' = [storageEvents EXCEPT ![t] = Tail(storageEvents[t])]
        /\ applied' = [applied EXCEPT ![t] = Resolved(ReadThemePreference)]
        /\ preference' = [preference EXCEPT ![t] = ReadThemePreference]
  BY DEF HearOfStorage, News
<1>2. UNCHANGED <<storage, stored, listening, media, mediaEvents>>
  BY DEF HearOfStorage
<1>3. ReadThemePreference \in Preferences
  BY ReadIsPreference
<1>4. Resolved(ReadThemePreference) \in Schemes
  BY <1>3, ResolvedIsScheme DEF ThemeTypeOK
<1>5. EventsTyped'
  BY <1>1 DEF EventsTyped
<1>6. ThemeTypeOK'
  <2>1. \A u \in Tabs : \A i \in 1..Len(storageEvents'[u]) : storageEvents'[u][i] \in Preferences
    BY <1>5, EventsAreTyped DEF EventsTyped
  <2> QED
    BY <1>1, <1>2, <1>3, <1>4, <2>1 DEF ThemeTypeOK
<1>7. HeardIsStored'
  BY <1>1, <1>2 DEF ThemeTypeOK, EventsTyped, HeardIsStored, ReadThemePreference
<1>8. HeardIsApplied'
  BY <1>1, <1>2 DEF ThemeTypeOK, HeardIsApplied, Resolved
<1> QED
  BY <1>5, <1>6, <1>7, <1>8

LEMMA SystemKeeps == ThemeInv /\ (SystemChanges \/ HearOfSystem) => ThemeInv'
<1> SUFFICES ASSUME ThemeInv, SystemChanges \/ HearOfSystem PROVE ThemeInv'
  OBVIOUS
<1> USE DEF ThemeInv
<1>1. UNCHANGED <<storage, stored, storageEvents, preference, listening>>
  BY DEF SystemChanges, HearOfSystem
<1>2. EventsTyped' /\ HeardIsStored'
  BY <1>1 DEF EventsTyped, HeardIsStored
<1>3. CASE SystemChanges
  <2>1. ThemeTypeOK'
    BY <1>1, <1>3 DEF SystemChanges, ThemeTypeOK
  <2>2. HeardIsApplied'
    BY <1>3 DEF SystemChanges, HeardIsApplied
  <2> QED
    BY <1>2, <2>1, <2>2
<1>4. CASE HearOfSystem
  <2>1. PICK t \in mediaEvents : /\ mediaEvents' = mediaEvents \ {t}
                                 /\ applied' = [applied EXCEPT ![t] = Resolved(listening[t])]
    BY <1>4 DEF HearOfSystem
  <2>2. media' = media /\ t \in Tabs
    BY <1>4 DEF HearOfSystem, ThemeTypeOK
  <2>3. Resolved(listening[t]) \in Schemes
    BY <2>2, ResolvedIsScheme DEF ThemeTypeOK
  <2>4. ThemeTypeOK'
    BY <1>1, <2>1, <2>2, <2>3 DEF ThemeTypeOK
  <2>5. HeardIsApplied'
    BY <1>1, <2>1, <2>2 DEF ThemeTypeOK, HeardIsApplied, Resolved
  <2> QED
    BY <1>2, <2>4, <2>5
<1> QED
  BY <1>3, <1>4

LEMMA ThemeStep == ThemeInv /\ [ThemeNext]_themeVars => ThemeInv'
<1>1. ThemeInv /\ UNCHANGED themeVars => ThemeInv'
  BY DEF themeVars, ThemeInv, ThemeTypeOK, EventsTyped, HeardIsStored, HeardIsApplied, Resolved
<1> QED
  BY <1>1, SelectKeeps, ListenKeeps, HearKeeps, SystemKeeps DEF ThemeNext

-----------------------------------------------------------------------------
\* Every variable keeps its type, for any number of tabs.
THEOREM ThemeTypeCorrect == ThemeSpec => []ThemeTypeOK
<1>1. ThemeInv => ThemeTypeOK
  BY DEF ThemeInv
<1> QED
  BY <1>1, ThemeInitKeeps, ThemeStep, PTL DEF ThemeSpec

\* The safe half of ThemesSettle: as soon as no event and no effect is under way, all tabs show
\* the theme of the preference that is stored, whatever was selected in which order.
THEOREM QuietTabsAgree == ThemeSpec => [](Quiet => ThemesAgree)
<1>1. ThemeInv => (Quiet => ThemesAgree)
  BY DEF ThemeInv, Quiet, ThemesAgree, HeardIsStored, HeardIsApplied
<1> QED
  BY <1>1, ThemeInitKeeps, ThemeStep, PTL DEF ThemeSpec

-----------------------------------------------------------------------------
(* Notices *)

Toast == [id : Nat, createdAt : Nat]

\* What can be in the stack at a time when n toasts have been made: each at most once.
StackOf(stack, n, now) ==
  /\ stack \in Seq(Toast) /\ Len(stack) <= ToastLimit
  /\ \A i \in DOMAIN stack : stack[i].id \in 1 .. n /\ stack[i].createdAt \in 0 .. now
  /\ \A i, j \in DOMAIN stack : stack[i].id = stack[j].id => i = j

\* A toast has one timer at most, and none is set for later than a whole duration from now.
TimersDistinct ==
  /\ toastTimers \subseteq [id : Nat, at : Nat]
  /\ \A x \in toastTimers : x.id \in 1 .. notices /\ x.at \in 0 .. clock + Duration
  /\ \A x, y \in toastTimers : x.id = y.id => x = y

\* A timer is for the end of the time of its toast, or for the moment its effect was late.
TimersOnTime ==
  \A x \in toastTimers : \A i \in DOMAIN toasts :
    x.id = toasts[i].id =>
      \/ x.at = toasts[i].createdAt + Duration
      \/ toasts[i].createdAt + Duration < x.at /\ x.at <= clock

\* Once the effect has run, the toasts are those that have timers.
TimersComplete ==
  ~effectDue => {x.id : x \in toastTimers} = {toasts[i].id : i \in DOMAIN toasts}

StackInv ==
  /\ clock \in Nat /\ notices \in Nat /\ effectDue \in BOOLEAN
  /\ StackOf(toasts, notices, clock)
  /\ TimersDistinct /\ TimersOnTime /\ TimersComplete

\* Taking one element out of a sequence.
LEMMA RemoveAtProperties ==
  ASSUME NEW S, NEW s \in Seq(S), NEW k \in 1 .. Len(s)
  PROVE  /\ RemoveAt(s, k) \in Seq(S) /\ Len(RemoveAt(s, k)) = Len(s) - 1
         /\ \A j \in 1 .. Len(s) - 1 : RemoveAt(s, k)[j] = IF j < k THEN s[j] ELSE s[j + 1]
<1> DEFINE front == SubSeq(s, 1, k - 1)
           back == SubSeq(s, k + 1, Len(s))
<1>1. Len(s) \in Nat /\ \A i \in 1 .. Len(s) : s[i] \in S
  BY LenProperties, ElementOfSeq
<1>2. /\ front \in Seq(S) /\ Len(front) = k - 1
      /\ \A i \in 1 .. k - 1 : front[i] = s[i]
  BY <1>1, SubSeqProperties
<1>3. /\ back \in Seq(S) /\ Len(back) = Len(s) - k
      /\ \A i \in 1 .. Len(s) - k : back[i] = s[k + i]
  BY <1>1, SubSeqProperties
<1>4. RemoveAt(s, k) = front \o back
  BY DEF RemoveAt
<1> HIDE DEF front, back
<1>5. /\ front \o back \in Seq(S) /\ Len(front \o back) = Len(s) - 1
      /\ \A i \in 1 .. Len(s) - 1 : (front \o back)[i] = IF i <= k - 1 THEN front[i]
                                                          ELSE back[i - (k - 1)]
  <2>1. /\ front \o back \in Seq(S) /\ Len(front \o back) = Len(front) + Len(back)
        /\ \A i \in 1 .. Len(front) + Len(back) :
             (front \o back)[i] = IF i <= Len(front) THEN front[i] ELSE back[i - Len(front)]
    BY <1>2, <1>3, ConcatProperties
  <2>2. Len(front) + Len(back) = Len(s) - 1 /\ Len(front) = k - 1
    BY <1>1, <1>2, <1>3
  <2> QED
    BY <2>1, <2>2
<1>6. ASSUME NEW j \in 1 .. Len(s) - 1
      PROVE  RemoveAt(s, k)[j] = IF j < k THEN s[j] ELSE s[j + 1]
  <2>1. CASE j < k
    BY <1>1, <1>2, <1>4, <1>5, <2>1
  <2>2. CASE j >= k
    <3>1. j - (k - 1) \in 1 .. Len(s) - k /\ k + (j - (k - 1)) = j + 1
      BY <1>1, <2>2
    <3>2. back[j - (k - 1)] = s[j + 1]
      BY <1>3, <3>1
    <3>3. (front \o back)[j] = back[j - (k - 1)]
      BY <1>1, <1>5, <2>2
    <3> QED
      BY <1>4, <2>2, <3>2, <3>3
  <2> QED
    BY <1>1, <2>1, <2>2
<1> QED
  BY <1>4, <1>5, <1>6

\* The limit keeps the last toasts.
LEMMA KeptProperties ==
  ASSUME NEW S, NEW s \in Seq(S)
  PROVE  /\ Kept(s) \in Seq(S) /\ Len(Kept(s)) <= ToastLimit /\ Len(Kept(s)) <= Len(s)
         /\ \A j \in 1 .. Len(Kept(s)) : Kept(s)[j] = s[j + (Len(s) - Len(Kept(s)))]
<1>1. Len(s) \in Nat /\ \A i \in 1 .. Len(s) : s[i] \in S
  BY LenProperties, ElementOfSeq
<1> DEFINE m == IF Len(s) > ToastLimit THEN Len(s) - ToastLimit + 1 ELSE 1
<1>2. ToastLimit \in Nat \ {0}
  BY ToastAssumption
<1>3. m \in 1 .. Len(s) + 1 /\ Len(s) - m + 1 <= ToastLimit
  BY <1>1, <1>2
<1>4. Kept(s) = SubSeq(s, m, Len(s))
  BY DEF Kept
<1> HIDE DEF m
<1>5. /\ Kept(s) \in Seq(S) /\ Len(Kept(s)) = Len(s) - m + 1
      /\ \A i \in 1 .. Len(s) - m + 1 : Kept(s)[i] = s[m + i - 1]
  BY <1>1, <1>3, <1>4, SubSeqProperties
<1>6. ASSUME NEW j \in 1 .. Len(Kept(s))
      PROVE  Kept(s)[j] = s[j + (Len(s) - Len(Kept(s)))]
  <2>1. j + (Len(s) - Len(Kept(s))) = m + j - 1
    BY <1>1, <1>3, <1>5
  <2> QED
    BY <1>5, <2>1
<1> QED
  BY <1>1, <1>2, <1>3, <1>5, <1>6

\* A dismissal leaves only toasts that were there, each at most once.
LEMMA Dismissed ==
  ASSUME NEW n \in Nat, NEW now \in Nat, StackOf(toasts, n, now), NEW id, DismissToast(id)
  PROVE  /\ StackOf(toasts', n, now)
         /\ \A j \in DOMAIN toasts' : \E i \in DOMAIN toasts : toasts'[j] = toasts[i]
<1>1. toasts \in Seq(Toast) /\ Len(toasts) \in Nat /\ DOMAIN toasts = 1 .. Len(toasts)
  BY LenProperties DEF StackOf
<1>2. CASE \E i \in DOMAIN toasts : toasts[i].id = id
  <2>1. PICK k \in 1 .. Len(toasts) : toasts' = RemoveAt(toasts, k)
    BY <1>1, <1>2 DEF DismissToast
  <2>2. /\ toasts' \in Seq(Toast) /\ Len(toasts') = Len(toasts) - 1
        /\ DOMAIN toasts' = 1 .. Len(toasts) - 1
        /\ \A j \in 1 .. Len(toasts) - 1 : toasts'[j] = IF j < k THEN toasts[j] ELSE toasts[j + 1]
    BY <1>1, <2>1, RemoveAtProperties, LenProperties
  <2>3. PICK f : f = [j \in 1 .. Len(toasts) - 1 |-> IF j < k THEN j ELSE j + 1]
    OBVIOUS
  <2>4. \A j \in DOMAIN toasts' : f[j] \in DOMAIN toasts /\ toasts'[j] = toasts[f[j]]
    BY <1>1, <2>2, <2>3
  <2>5. \A i, j \in DOMAIN toasts' : f[i] = f[j] => i = j
    BY <1>1, <2>2, <2>3
  <2>6. Len(toasts') <= ToastLimit
    BY <1>1, <2>2, ToastAssumption DEF StackOf
  <2>7. \A i \in DOMAIN toasts' : toasts'[i].id \in 1 .. n /\ toasts'[i].createdAt \in 0 .. now
    BY <2>4 DEF StackOf
  <2>8. \A i, j \in DOMAIN toasts' : toasts'[i].id = toasts'[j].id => i = j
    BY <2>4, <2>5 DEF StackOf
  <2> QED
    BY <2>2, <2>4, <2>6, <2>7, <2>8 DEF StackOf
<1>3. CASE ~\E i \in DOMAIN toasts : toasts[i].id = id
  BY <1>3 DEF DismissToast
<1> QED
  BY <1>2, <1>3

\* A notice is a new toast on top of toasts that were there.
LEMMA Shown ==
  ASSUME NEW n \in Nat, n = notices, NEW now \in Nat, now = clock, StackOf(toasts, n, now), ShowToast
  PROVE  /\ StackOf(toasts', n + 1, now)
         /\ \A j \in DOMAIN toasts' :
              \/ \E i \in DOMAIN toasts : toasts'[j] = toasts[i]
              \/ toasts'[j] = [id |-> n + 1, createdAt |-> now]
<1> DEFINE new == [id |-> n + 1, createdAt |-> now]
           s == Append(toasts, new)
<1>1. toasts \in Seq(Toast) /\ Len(toasts) \in Nat /\ DOMAIN toasts = 1 .. Len(toasts)
  BY LenProperties DEF StackOf
<1>2. new \in Toast /\ new.id = n + 1 /\ new.createdAt = now
  BY DEF Toast
<1>3. toasts' = Kept(s)
  BY DEF ShowToast
<1> HIDE DEF new
<1>4. /\ s \in Seq(Toast) /\ Len(s) = Len(toasts) + 1
      /\ \A i \in 1 .. Len(toasts) : s[i] = toasts[i]
      /\ s[Len(toasts) + 1] = new
  BY <1>1, <1>2, AppendProperties
<1> HIDE DEF s
<1>5. \A i \in 1 .. Len(s) : s[i].id \in 1 .. n + 1 /\ s[i].createdAt \in 0 .. now
  BY <1>1, <1>2, <1>4 DEF StackOf
<1>6. \A i, j \in 1 .. Len(s) : s[i].id = s[j].id => i = j
  <2>1. \A i, j \in 1 .. Len(toasts) : s[i].id = s[j].id => i = j
    BY <1>1, <1>4 DEF StackOf
  <2>2. \A i \in 1 .. Len(toasts) : s[i].id \in 1 .. n
    BY <1>1, <1>4 DEF StackOf
  <2>3. s[Len(toasts) + 1].id = n + 1
    BY <1>2, <1>4
  <2>4. \A i \in 1 .. Len(s) : i \in 1 .. Len(toasts) \/ i = Len(toasts) + 1
    BY <1>1, <1>4
  <2> QED
    BY <2>1, <2>2, <2>3, <2>4
<1>7. /\ toasts' \in Seq(Toast) /\ Len(toasts') \in Nat /\ DOMAIN toasts' = 1 .. Len(toasts')
      /\ Len(toasts') <= ToastLimit /\ Len(toasts') <= Len(s)
      /\ \A j \in 1 .. Len(toasts') : toasts'[j] = s[j + (Len(s) - Len(toasts'))]
  BY <1>3, <1>4, KeptProperties, LenProperties
<1>8. PICK d \in Nat : d = Len(s) - Len(toasts')
  BY <1>1, <1>4, <1>7
<1>9. \A j \in 1 .. Len(toasts') : j + d \in 1 .. Len(s) /\ toasts'[j] = s[j + d]
  BY <1>1, <1>4, <1>7, <1>8
<1>10. StackOf(toasts', n + 1, now)
  <2>1. \A i \in DOMAIN toasts' : toasts'[i].id \in 1 .. n + 1 /\ toasts'[i].createdAt \in 0 .. now
    BY <1>5, <1>7, <1>9
  <2>2. ASSUME NEW i \in DOMAIN toasts', NEW j \in DOMAIN toasts', toasts'[i].id = toasts'[j].id
        PROVE  i = j
    <3>1. i \in Nat /\ j \in Nat /\ i + d \in 1 .. Len(s) /\ j + d \in 1 .. Len(s)
      BY <1>7, <1>9
    <3>2. toasts'[i] = s[i + d] /\ toasts'[j] = s[j + d]
      BY <1>7, <1>9
    <3>3. i + d = j + d
      BY <1>6, <2>2, <3>1, <3>2
    <3> QED
      BY <3>1, <3>3
  <2> QED
    BY <1>7, <2>1, <2>2 DEF StackOf
<1>11. ASSUME NEW j \in DOMAIN toasts'
       PROVE  \/ \E i \in DOMAIN toasts : toasts'[j] = toasts[i]
              \/ toasts'[j] = new
  <2>1. j + d \in 1 .. Len(s) /\ toasts'[j] = s[j + d]
    BY <1>7, <1>9
  <2>2. CASE j + d \in 1 .. Len(toasts)
    BY <1>1, <1>4, <2>1, <2>2
  <2>3. CASE j + d = Len(toasts) + 1
    BY <1>4, <2>1, <2>3
  <2> QED
    BY <1>1, <1>4, <2>1, <2>2, <2>3
<1> QED
  BY <1>10, <1>11 DEF new

LEMMA StackInitInv == ToastsInit => StackInv
<1> SUFFICES ASSUME ToastsInit PROVE StackInv
  OBVIOUS
<1>1. toasts = << >> /\ toasts \in Seq(Toast) /\ Len(toasts) = 0 /\ DOMAIN toasts = {}
  BY EmptySeq DEF ToastsInit
<1>2. toastTimers = {} /\ clock = 0 /\ notices = 0 /\ effectDue = FALSE
  BY DEF ToastsInit
<1>3. StackOf(toasts, notices, clock)
  BY <1>1, ToastAssumption DEF StackOf
<1>4. TimersDistinct /\ TimersOnTime /\ TimersComplete
  BY <1>1, <1>2 DEF TimersDistinct, TimersOnTime, TimersComplete
<1> QED
  BY <1>2, <1>3, <1>4 DEF StackInv

\* A notice keeps the invariant: its id is none a timer has.
LEMMA ShowKeeps ==
  ASSUME StackInv, ShowToast, UNCHANGED <<clock, toastTimers>> PROVE StackInv'
<1>1. /\ StackOf(toasts', notices + 1, clock)
      /\ \A j \in DOMAIN toasts' :
           \/ \E i \in DOMAIN toasts : toasts'[j] = toasts[i]
           \/ toasts'[j] = [id |-> notices + 1, createdAt |-> clock]
  BY Shown DEF StackInv
<1>2. notices' = notices + 1 /\ effectDue' = TRUE /\ notices \in Nat /\ clock \in Nat
  BY DEF ShowToast, StackInv
<1>3. StackOf(toasts, notices, clock)'
  BY <1>1, <1>2 DEF StackOf
<1>4. TimersDistinct'
  BY <1>2 DEF StackInv, TimersDistinct
<1>5. TimersOnTime'
  <2> SUFFICES ASSUME NEW x \in toastTimers, NEW j \in DOMAIN toasts', x.id = toasts'[j].id
               PROVE  \/ x.at = toasts'[j].createdAt + Duration
                      \/ toasts'[j].createdAt + Duration < x.at /\ x.at <= clock
    BY DEF TimersOnTime
  <2>1. x.id \in 1 .. notices
    BY DEF StackInv, TimersDistinct
  <2>2. toasts'[j] # [id |-> notices + 1, createdAt |-> clock]
    BY <1>2, <2>1
  <2>3. PICK i \in DOMAIN toasts : toasts'[j] = toasts[i]
    BY <1>1, <2>2
  <2> QED
    BY <2>3 DEF StackInv, TimersOnTime
<1> QED
  BY <1>2, <1>3, <1>4, <1>5 DEF StackInv, TimersComplete

\* A dismissal keeps the invariant, also with the timer that made it gone.
LEMMA DismissKeeps ==
  ASSUME StackInv, NEW id, DismissToast(id), UNCHANGED <<clock, notices>>,
         toastTimers' \subseteq toastTimers
  PROVE  StackInv'
<1>1. /\ StackOf(toasts', notices, clock)
      /\ \A j \in DOMAIN toasts' : \E i \in DOMAIN toasts : toasts'[j] = toasts[i]
  BY Dismissed DEF StackInv
<1>2. effectDue' = TRUE
  BY DEF DismissToast
<1>3. StackOf(toasts, notices, clock)'
  BY <1>1 DEF StackOf
<1>4. TimersDistinct'
  BY DEF StackInv, TimersDistinct
<1>5. TimersOnTime'
  BY <1>1 DEF StackInv, TimersOnTime
<1> QED
  BY <1>2, <1>3, <1>4, <1>5 DEF StackInv, TimersComplete

\* The effect leaves each toast with one timer, and no other timer.
LEMMA SyncKeeps ==
  ASSUME StackInv, SyncTimers PROVE StackInv'
<1> DEFINE kept == {timer \in toastTimers : StillShown(timer)}
           fresh == {t \in Range(toasts) : \A timer \in kept : timer.id # t.id}
           made == {[id |-> t.id, at |-> clock + Remaining(t)] : t \in fresh}
<1>1. toastTimers' = kept \cup made /\ effectDue' = FALSE /\ UNCHANGED <<clock, toasts, notices>>
  BY DEF SyncTimers
<1>2. /\ toasts \in Seq(Toast) /\ clock \in Nat /\ notices \in Nat /\ Duration \in Nat \ {0}
      /\ Range(toasts) = {toasts[i] : i \in DOMAIN toasts}
      /\ \A i \in DOMAIN toasts : toasts[i] \in Toast
  BY ElementOfSeq, ToastAssumption DEF StackInv, StackOf, Range
<1>3. \A t \in Range(toasts) : /\ t.id \in 1 .. notices /\ t.createdAt \in 0 .. clock
                               /\ \A u \in Range(toasts) : u.id = t.id => u = t
  BY <1>2 DEF StackInv, StackOf
<1>4. ASSUME NEW t \in Range(toasts)
      PROVE  /\ Remaining(t) \in 0 .. Duration
             /\ \/ clock + Remaining(t) = t.createdAt + Duration
                \/ t.createdAt + Duration < clock + Remaining(t) /\ clock + Remaining(t) <= clock
  BY <1>2, <1>3 DEF Remaining
<1>5. ASSUME NEW x \in made
      PROVE  \E t \in fresh : x.id = t.id /\ x.at = clock + Remaining(t)
                              /\ x \in [id : Nat, at : Nat]
  <2>1. PICK t \in fresh : x = [id |-> t.id, at |-> clock + Remaining(t)]
    OBVIOUS
  <2>2. t \in Range(toasts)
    OBVIOUS
  <2>3. t.id \in Nat /\ clock + Remaining(t) \in Nat
    BY <1>2, <1>3, <1>4, <2>2
  <2> QED
    BY <2>1, <2>3
<1>6. \A t \in fresh : t \in Range(toasts) /\ \A x \in kept : x.id # t.id
  OBVIOUS
<1>7. \A x \in kept : x \in toastTimers /\ \E t \in Range(toasts) : t.id = x.id
  BY DEF StillShown
<1>8. \A t \in Range(toasts) : (\E x \in kept : x.id = t.id) \/ (\E x \in made : x.id = t.id)
  <2> SUFFICES ASSUME NEW t \in Range(toasts), \A x \in kept : x.id # t.id
               PROVE  \E x \in made : x.id = t.id
    OBVIOUS
  <2>1. t \in fresh
    OBVIOUS
  <2>2. [id |-> t.id, at |-> clock + Remaining(t)] \in made
    BY <2>1
  <2> QED
    BY <2>2
<1> HIDE DEF kept, fresh, made
<1>9. TimersDistinct'
  <2>1. \A x \in toastTimers' : /\ x \in [id : Nat, at : Nat]
                                /\ x.id \in 1 .. notices /\ x.at \in 0 .. clock + Duration
    <3>1. \A x \in kept : x \in [id : Nat, at : Nat] /\ x.id \in 1 .. notices
                          /\ x.at \in 0 .. clock + Duration
      BY <1>7 DEF StackInv, TimersDistinct
    <3>2. ASSUME NEW x \in made
          PROVE  x \in [id : Nat, at : Nat] /\ x.id \in 1 .. notices /\ x.at \in 0 .. clock + Duration
      <4>1. PICK t \in fresh : x.id = t.id /\ x.at = clock + Remaining(t) /\ x \in [id : Nat, at : Nat]
        BY <1>5
      <4>2. Remaining(t) \in 0 .. Duration /\ t.id \in 1 .. notices
        BY <1>3, <1>4, <1>6
      <4> QED
        BY <1>2, <4>1, <4>2
    <3> QED
      BY <1>1, <3>1, <3>2
  <2>2. ASSUME NEW x \in toastTimers', NEW y \in toastTimers', x.id = y.id PROVE x = y
    <3>1. CASE x \in kept /\ y \in kept
      BY <1>7, <2>2, <3>1 DEF StackInv, TimersDistinct
    <3>2. ~(x \in kept /\ y \in made) /\ ~(x \in made /\ y \in kept)
      BY <1>5, <1>6, <2>2
    <3>3. CASE x \in made /\ y \in made
      <4>1. PICK t \in fresh : x.id = t.id /\ x.at = clock + Remaining(t) /\ x \in [id : Nat, at : Nat]
        BY <1>5, <3>3
      <4>2. PICK u \in fresh : y.id = u.id /\ y.at = clock + Remaining(u) /\ y \in [id : Nat, at : Nat]
        BY <1>5, <3>3
      <4>3. t = u
        BY <1>3, <1>6, <2>2, <4>1, <4>2
      <4> QED
        BY <4>1, <4>2, <4>3
    <3> QED
      BY <1>1, <3>1, <3>2, <3>3
  <2> QED
    BY <1>1, <2>1, <2>2 DEF TimersDistinct
<1>10. TimersOnTime'
  <2> SUFFICES ASSUME NEW x \in toastTimers', NEW i \in DOMAIN toasts, x.id = toasts[i].id
               PROVE  \/ x.at = toasts[i].createdAt + Duration
                      \/ toasts[i].createdAt + Duration < x.at /\ x.at <= clock
    BY <1>1 DEF TimersOnTime
  <2>1. toasts[i] \in Range(toasts)
    BY <1>2
  <2>2. CASE x \in kept
    BY <1>7, <2>2 DEF StackInv, TimersOnTime
  <2>3. CASE x \in made
    <3>1. PICK t \in fresh : x.id = t.id /\ x.at = clock + Remaining(t)
      BY <1>5, <2>3
    <3>2. t = toasts[i]
      BY <1>3, <1>6, <2>1, <3>1
    <3> QED
      BY <1>4, <2>1, <3>1, <3>2
  <2> QED
    BY <1>1, <2>2, <2>3
<1>11. TimersComplete'
  <2>1. \A x \in toastTimers' : \E t \in Range(toasts) : x.id = t.id
    BY <1>1, <1>5, <1>6, <1>7
  <2>2. \A t \in Range(toasts) : \E x \in toastTimers' : x.id = t.id
    BY <1>1, <1>8
  <2>3. {x.id : x \in toastTimers'} = {toasts[i].id : i \in DOMAIN toasts}
    BY <1>2, <2>1, <2>2
  <2> QED
    BY <1>1, <2>3 DEF TimersComplete
<1> QED
  BY <1>1, <1>9, <1>10, <1>11 DEF StackInv, StackOf

LEMMA StackStep == StackInv /\ [ToastsNext]_noticeVars => StackInv'
<1> SUFFICES ASSUME StackInv, [ToastsNext]_noticeVars PROVE StackInv'
  OBVIOUS
<1>1. CASE Notify
  BY <1>1, ShowKeeps DEF Notify
<1>2. CASE CopyFails
  BY <1>2, ShowKeeps DEF CopyFails
<1>3. CASE CloseToast
  <2>1. PICK t \in Range(toasts) : DismissToast(t.id)
    BY <1>3 DEF CloseToast
  <2> QED
    BY <1>3, <2>1, DismissKeeps DEF CloseToast
<1>4. CASE SyncTimers
  BY <1>4, SyncKeeps
<1>5. CASE Expire
  <2>1. PICK x \in toastTimers : toastTimers' = toastTimers \ {x} /\ DismissToast(x.id)
    BY <1>5 DEF Expire
  <2> QED
    BY <1>5, <2>1, DismissKeeps DEF Expire
<1>6. CASE Tick
  <2>1. clock' = clock + 1 /\ clock \in Nat /\ UNCHANGED <<toasts, toastTimers, effectDue, notices>>
    BY <1>6 DEF Tick, StackInv
  <2>2. StackOf(toasts, notices, clock)'
    BY <2>1 DEF StackInv, StackOf
  <2>3. TimersDistinct'
    BY <2>1, ToastAssumption DEF StackInv, TimersDistinct
  <2>4. TimersOnTime'
    BY <2>1 DEF StackInv, TimersDistinct, TimersOnTime
  <2> QED
    BY <2>1, <2>2, <2>3, <2>4 DEF StackInv, TimersComplete
<1>7. CASE Copy \/ Copied \/ CopyShown \/ UNCHANGED noticeVars
  <2>1. UNCHANGED toastVars
    BY <1>7 DEF Copy, Copied, CopyShown, noticeVars
  <2> QED
    BY <2>1 DEF toastVars, StackInv, StackOf, TimersDistinct, TimersOnTime, TimersComplete
<1> QED
  BY <1>1, <1>2, <1>3, <1>4, <1>5, <1>6, <1>7 DEF ToastsNext

\* Timers and toasts one to one.
LEMMA OneTimerEach ==
  ASSUME StackInv, ~effectDue PROVE Cardinality(toastTimers) = Len(toasts)
<1>1. toasts \in Seq(Toast) /\ Len(toasts) \in Nat /\ DOMAIN toasts = 1 .. Len(toasts)
  BY LenProperties DEF StackInv, StackOf
<1>2. {x.id : x \in toastTimers} = {toasts[i].id : i \in DOMAIN toasts}
  BY DEF StackInv, TimersComplete
<1> DEFINE f == [i \in 1 .. Len(toasts) |-> CHOOSE x \in toastTimers : x.id = toasts[i].id]
<1>3. ASSUME NEW i \in 1 .. Len(toasts) PROVE f[i] \in toastTimers /\ f[i].id = toasts[i].id
  <2>1. \E x \in toastTimers : x.id = toasts[i].id
    BY <1>1, <1>2
  <2> QED
    BY <2>1
<1>4. ASSUME NEW x \in toastTimers PROVE \E i \in 1 .. Len(toasts) : f[i] = x
  <2>1. PICK i \in 1 .. Len(toasts) : toasts[i].id = x.id
    BY <1>1, <1>2
  <2>2. f[i] \in toastTimers /\ f[i].id = x.id
    BY <1>3, <2>1
  <2> QED
    BY <2>2 DEF StackInv, TimersDistinct
<1>5. ASSUME NEW i \in 1 .. Len(toasts), NEW j \in 1 .. Len(toasts), f[i] = f[j] PROVE i = j
  <2>1. toasts[i].id = toasts[j].id
    BY <1>3, <1>5
  <2> QED
    BY <1>1, <2>1 DEF StackInv, StackOf
<1>6. f \in [1 .. Len(toasts) -> toastTimers]
  BY <1>3
<1> HIDE DEF f
<1>7. f \in Bijection(1 .. Len(toasts), toastTimers)
  BY <1>4, <1>5, <1>6 DEF Bijection, Injection, Surjection, IsInjective
<1>8. ExistsBijection(1 .. Len(toasts), toastTimers)
  BY <1>7 DEF ExistsBijection
<1> QED
  BY <1>1, <1>8, FS_CountingElements

\* However toasts come, go and push each other out, and however late effects run and timers
\* fire, a toast has one timer, for the end of its own time, and leaves none behind.
THEOREM ToastsHaveTheirTimers == ToastsSpec => []TimersAreOfToasts
<1>1. StackInv => TimersAreOfToasts
  <2> SUFFICES ASSUME StackInv PROVE TimersAreOfToasts
    OBVIOUS
  <2>1. Range(toasts) = {toasts[i] : i \in DOMAIN toasts}
    BY DEF Range
  <2>2. \A timer \in toastTimers : \A t \in Range(toasts) :
          timer.id = t.id => \/ timer.at = t.createdAt + Duration
                             \/ t.createdAt + Duration < timer.at /\ timer.at <= clock
    BY <2>1 DEF StackInv, TimersOnTime
  <2>3. ~effectDue => {timer.id : timer \in toastTimers} = {t.id : t \in Range(toasts)}
    BY <2>1 DEF StackInv, TimersComplete
  <2> QED
    BY <2>2, <2>3, OneTimerEach DEF TimersAreOfToasts
<1> QED
  BY <1>1, StackInitInv, StackStep, PTL DEF ToastsSpec

-----------------------------------------------------------------------------
(* The search field *)

\* The rows the list has registered, and those the keys step through, for what is committed.
ItemsAreOffered ==
  /\ items \in Seq(Texts \ {NoRow}) /\ Distinct(items)
  /\ Range(items) = Range(Offered(text, options))
RowsAreOfItems == latest.rows = EnabledItems(items, openQuery, filterTyped)
LatestIsCommitted ==
  latest = [open |-> open, query |-> openQuery, value |-> text, rows |-> latest.rows,
            active |-> latest.active]

\* An open list has the query of the text, and has been open.
OpenFollows == open => openQuery = text /\ opened

\* A cursor is on a row, and of the query of the list; there is none that the user has not
\* placed since he last typed.
CursorIsLive == cursor # NoCursor => Live(cursor, openQuery, latest.rows)
CursorIsAimed == ~aimed => cursor = NoCursor

\* The row that is active as of the last commit.
ActiveIsOfCommit ==
  /\ latest.active # NoRow => latest.active \in Range(latest.rows)
  /\ Calm /\ open => latest.active = StepsFrom

\* While keys wait for a commit: the list is open and the cursor as many rows from the active
\* one as they are.
At(v) == CHOOSE i \in 1..Len(latest.rows) : latest.rows[i] = v
Steps == 2 * Cardinality({i \in DOMAIN batch : batch[i] = "down"}) - Len(batch)
KeysAreMade ==
  ~Calm => /\ open
           /\ latest.rows # << >> =>
                /\ latest.active # NoRow /\ cursor # NoCursor
                /\ Range(batch) \subseteq {"down", "up"} =>
                     At(cursor.value) = 1 + ((At(latest.active) - 1 + Steps) % Len(latest.rows))

ComboTyped ==
  /\ text \in Texts /\ options \in Suggested /\ openQuery \in Texts
  /\ open \in BOOLEAN /\ filterTyped \in BOOLEAN /\ opened \in BOOLEAN /\ aimed \in BOOLEAN
  /\ batch \in Seq({"down", "up", "first", "last"}) /\ Len(batch) <= 2

ComboInv ==
  /\ ComboTyped /\ ItemsAreOffered /\ RowsAreOfItems /\ LatestIsCommitted /\ OpenFollows
  /\ CursorIsLive /\ CursorIsAimed /\ ActiveIsOfCommit /\ KeysAreMade

-----------------------------------------------------------------------------
(* Lists of rows *)

-----------------------------------------------------------------------------
(* What a render of the search field works out *)

Rows == Texts \ {NoRow}

\* A text is found by typing it.
LEMMA TextIsVisible ==
  ASSUME NEW v \in Texts, NEW filter
  PROVE  Visible(v, v, filter)
<1>1. v \in Seq(Range(v)) /\ Len(v) \in Nat
  BY ComboAssumption, LenProperties
<1> DEFINE at == [i \in 1..Len(v) |-> i]
<1>2. Len(v \o v) = Len(v) + Len(v) /\ \A i \in 1..Len(v) : (v \o v)[i] = v[i]
  BY <1>1, ConcatProperties
<1>3. at \in [1..Len(v) -> 1..Len(v \o v)]
  BY <1>1, <1>2
<1>4. \A i \in 1..Len(v) : (v \o v)[at[i]] = v[i]
  BY <1>2
<1>5. \A i \in 2..Len(v) : at[i - 1] < at[i]
  BY <1>1
<1>6. Fuzzy(v, v)
  BY <1>3, <1>4, <1>5 DEF Fuzzy
<1> QED
  BY <1>6 DEF Visible

\* The choices name no option twice, and the text is among them.
LEMMA OfferedProperties ==
  ASSUME NEW v \in Texts, NEW o \in Suggested
  PROVE  /\ Offered(v, o) \in Seq(Rows) /\ Distinct(Offered(v, o))
         /\ v # NoRow => v \in Range(Offered(v, o))
<1>1. o \in Seq(Range(o)) /\ NoRow \notin Range(o) /\ Distinct(o)
  BY ComboAssumption DEF Distinct
<1>2. Range(o) \subseteq Rows
  BY <1>1 DEF Texts, Rows
<1>3. o \in Seq(Rows)
  BY <1>1, <1>2
<1>4. CASE v # NoRow /\ v \notin Range(o)
  <2> DEFINE own == <<v>>
  <2>1. v \in Rows /\ Offered(v, o) = own \o o
    BY <1>4 DEF Offered, NoRow, Rows
  <2>2. own \in Seq(Rows) /\ Range(own) = {v} /\ Distinct(own)
    BY <2>1 DEF Range, Distinct
  <2> HIDE DEF own
  <2>3. Range(own) \cap Range(o) = {}
    BY <1>4, <2>2
  <2>4. /\ own \o o \in Seq(Rows) /\ Distinct(own \o o)
        /\ Range(own \o o) = Range(own) \cup Range(o)
    BY <1>1, <1>3, <2>2, <2>3, JoinedLists
  <2> QED
    BY <2>1, <2>2, <2>4
<1>5. CASE ~(v # NoRow /\ v \notin Range(o))
  BY <1>1, <1>3, <1>5 DEF Offered, NoRow
<1> QED
  BY <1>4, <1>5

\* What is registered after a render are the choices; nothing moves when they stay the same.
LEMMA RegisteredProperties ==
  ASSUME NEW T, NEW old \in Seq(T), NEW choices \in Seq(T), Distinct(old), Distinct(choices)
  PROVE  /\ Registered(old, choices) \in Seq(T) /\ Distinct(Registered(old, choices))
         /\ Range(Registered(old, choices)) = Range(choices)
         /\ Range(old) = Range(choices) => Registered(old, choices) = old
<1> DEFINE stay == Only(old, Range(choices))
           come == Only(choices, Range(choices) \ Range(old))
<1>1. /\ stay \in Seq(T) /\ Distinct(stay) /\ Range(stay) = Range(old) \cap Range(choices)
      /\ Range(old) \subseteq Range(choices) => stay = old
  BY OnlyProperties
<1>2. /\ come \in Seq(T) /\ Distinct(come)
      /\ Range(come) = Range(choices) \cap (Range(choices) \ Range(old))
  BY OnlyProperties
<1>3. Registered(old, choices) = stay \o come
  BY DEF Registered
<1> HIDE DEF stay, come
<1>4. Range(stay) \cap Range(come) = {} /\ Range(stay) \cup Range(come) = Range(choices)
  BY <1>1, <1>2
<1>5. /\ stay \o come \in Seq(T) /\ Distinct(stay \o come)
      /\ Range(stay \o come) = Range(stay) \cup Range(come)
  BY <1>1, <1>2, <1>4, JoinedLists
<1>6. Range(old) = Range(choices) => stay \o come = old
  <2> SUFFICES ASSUME Range(old) = Range(choices) PROVE stay \o come = old
    OBVIOUS
  <2>1. Range(come) = {}
    BY <1>2
  <2>2. come = << >>
    <3>1. Len(come) \in Nat /\ DOMAIN come = 1..Len(come)
      BY <1>2, LenProperties
    <3>2. \A i \in DOMAIN come : come[i] \in Range(come)
      BY DEF Range
    <3>3. Len(come) # 0 => 1 \in DOMAIN come
      BY <3>1
    <3>4. Len(come) = 0
      BY <2>1, <3>2, <3>3
    <3> QED
      BY <1>2, <3>4, EmptySeq
  <2>3. stay = old
    BY <1>1
  <2> QED
    BY <2>2, <2>3, ConcatEmptySeq
<1> QED
  BY <1>3, <1>4, <1>5, <1>6

\* The rows the keys step through; the text, as its own query, finds itself among them.
LEMMA EnabledProperties ==
  ASSUME NEW order \in Seq(Rows), Distinct(order), NEW q, NEW filter
  PROVE  /\ EnabledItems(order, q, filter) \in Seq(Rows)
         /\ Distinct(EnabledItems(order, q, filter))
         /\ Range(EnabledItems(order, q, filter)) \subseteq Range(order)
         /\ q \in Texts /\ q \in Range(order) => q \in Range(EnabledItems(order, q, filter))
<1> DEFINE S == {v \in Range(order) : Visible(v, q, filter)}
<1>1. /\ Only(order, S) \in Seq(Rows) /\ Distinct(Only(order, S))
      /\ Range(Only(order, S)) = Range(order) \cap S
  BY OnlyProperties
<1>2. q \in Texts /\ q \in Range(order) => q \in S
  BY TextIsVisible
<1> QED
  BY <1>1, <1>2 DEF EnabledItems

LEMMA ResolveProperties ==
  ASSUME NEW listed \in Seq(Rows), NEW c, NEW q, NEW v
  PROVE  /\ NoRow \notin Range(listed)
         /\ listed # << >> => Resolve(c, q, v, listed) \in Range(listed)
         /\ listed = << >> => Resolve(c, q, v, listed) = NoRow
         /\ Live(c, q, listed) => Resolve(c, q, v, listed) = c.value
         /\ c = NoCursor /\ v # << >> /\ v \in Range(listed) => Resolve(c, q, v, listed) = v
<1>1. /\ Len(listed) \in Nat /\ DOMAIN listed = 1..Len(listed)
      /\ \A i \in 1..Len(listed) : listed[i] \in Rows
  BY LenProperties, ElementOfSeq
<1>2. NoRow \notin Range(listed)
  BY <1>1 DEF Range, Rows
<1>3. listed # << >> => listed[1] \in Range(listed)
  <2>1. listed # << >> => Len(listed) # 0
    BY EmptySeq
  <2> QED
    BY <1>1, <2>1 DEF Range
<1>4. listed = << >> => Range(listed) = {}
  BY DEF Range
<1>5. Live(c, q, listed) => c.value \in Range(listed)
  BY DEF Live
<1>6. Live(c, q, listed) => Resolve(c, q, v, listed) = c.value
  BY DEF Resolve
<1>7. ~Live(c, q, listed) => Resolve(c, q, v, listed) = Fallback(v, listed)
  BY DEF Resolve
<1>8. listed # << >> => Fallback(v, listed) \in Range(listed)
  BY <1>3 DEF Fallback
<1>9. listed = << >> => Fallback(v, listed) = NoRow
  BY <1>4 DEF Fallback
<1>10. v # << >> /\ v \in Range(listed) => Fallback(v, listed) = v
  BY DEF Fallback
<1>11. c = NoCursor => ~Live(c, q, listed)
  BY DEF Live
<1> QED
  BY <1>2, <1>4, <1>5, <1>6, <1>7, <1>8, <1>9, <1>10, <1>11

LEMMA RowsTyped ==
  ASSUME ComboInv
  PROVE  /\ latest.rows \in Seq(Rows) /\ Distinct(latest.rows)
         /\ Range(latest.rows) \subseteq Range(items)
         /\ openQuery \in Range(items) => openQuery \in Range(latest.rows)
<1>1. items \in Seq(Rows) /\ Distinct(items) /\ openQuery \in Texts
  BY DEF ComboInv, ItemsAreOffered, ComboTyped, Rows
<1> QED
  BY <1>1, EnabledProperties DEF ComboInv, RowsAreOfItems

-----------------------------------------------------------------------------
(* Commits of the search field *)

LEMMA CommitKeeps ==
  ASSUME ComboInv, NEW t \in Texts, NEW o \in Suggested, NEW up \in BOOLEAN, NEW fl \in BOOLEAN,
         NEW c, CommitWith(t, o, up, fl, c), aimed' \in BOOLEAN,
         ~aimed' => c = NoCursor \/ c.query # IF up THEN t ELSE openQuery
  PROVE  ComboInv'
<1> DEFINE q == IF up THEN t ELSE openQuery
           order == Registered(items, Offered(t, o))
           listed == EnabledItems(order, q, fl)
           k == Cleared(c, q, listed)
<1>1. /\ text' = t /\ options' = o /\ open' = up /\ filterTyped' = fl
      /\ openQuery' = q /\ items' = order /\ cursor' = k
      /\ opened' = (opened \/ up) /\ batch' = << >>
      /\ latest' = [open |-> up, query |-> q, value |-> t, rows |-> listed,
                    active |-> IF opened' THEN Resolve(k, q, t, listed) ELSE NoRow]
  BY DEF CommitWith
<1>2. q \in Texts /\ (up => q = t)
  BY DEF ComboInv, ComboTyped
<1>3. order \in Seq(Rows) /\ Distinct(order) /\ Range(order) = Range(Offered(t, o))
  <2>1. items \in Seq(Rows) /\ Distinct(items)
    BY DEF ComboInv, ItemsAreOffered, Rows
  <2>2. Offered(t, o) \in Seq(Rows) /\ Distinct(Offered(t, o))
    BY OfferedProperties
  <2> QED
    BY <2>1, <2>2, RegisteredProperties
<1> HIDE DEF q, order
<1>4. listed \in Seq(Rows)
  BY <1>3, EnabledProperties
<1>5. listed = EnabledItems(order, q, fl)
  OBVIOUS
<1> HIDE DEF listed
<1>6. (k # NoCursor => k = c /\ Live(k, q, listed)) /\ (c = NoCursor \/ c.query # q => k = NoCursor)
  BY DEF Cleared, Live
<1> HIDE DEF k
<1>7. /\ latest'.open = up /\ latest'.query = q /\ latest'.value = t /\ latest'.rows = listed
      /\ latest'.active = IF opened' THEN Resolve(k, q, t, listed) ELSE NoRow
  BY <1>1
<1>8. ComboTyped'
  <2>1. << >> \in Seq({"down", "up", "first", "last"}) /\ Len(<< >>) <= 2
    BY EmptySeq
  <2>2. opened' \in BOOLEAN
    BY <1>1, Zenon DEF ComboInv, ComboTyped
  <2> QED
    BY <1>1, <1>2, <2>1, <2>2 DEF ComboTyped
<1>9. ItemsAreOffered'
  BY <1>1, <1>3 DEF ItemsAreOffered, Rows
<1>10. RowsAreOfItems'
  BY <1>1, <1>5, <1>7 DEF RowsAreOfItems
<1>11. LatestIsCommitted'
  <2>1. latest' = [open |-> open', query |-> openQuery', value |-> text', rows |-> latest'.rows,
                   active |-> latest'.active]
    BY <1>1, <1>7, Zenon
  <2> QED
    BY <2>1 DEF LatestIsCommitted
<1>12. OpenFollows'
  <2>1. up => opened'
    BY <1>1, Zenon
  <2> QED
    BY <1>1, <1>2, <2>1, Zenon DEF OpenFollows
<1>13. CursorIsLive'
  BY <1>1, <1>6, <1>7 DEF CursorIsLive
<1>14. CursorIsAimed'
  BY <1>1, <1>6 DEF CursorIsAimed, q
<1>15. ActiveIsOfCommit'
  <2>1. Resolve(k, q, t, listed) # NoRow => Resolve(k, q, t, listed) \in Range(listed)
    BY <1>4, ResolveProperties
  <2>2. StepsFrom' = Resolve(k, q, t, listed)
    BY <1>1, <1>7 DEF StepsFrom
  <2>3. latest'.active # NoRow => latest'.active \in Range(latest'.rows)
    BY <1>7, <2>1
  <2>4. open' => latest'.active = StepsFrom'
    BY <1>7, <1>12, <2>2 DEF OpenFollows
  <2> QED
    BY <2>3, <2>4 DEF ActiveIsOfCommit
<1>16. KeysAreMade'
  BY <1>1 DEF KeysAreMade, Calm
<1> QED
  BY <1>8, <1>9, <1>10, <1>11, <1>12, <1>13, <1>14, <1>15, <1>16 DEF ComboInv

LEMMA ComboInitInv == ComboInit => ComboInv
<1> SUFFICES ASSUME ComboInit PROVE ComboInv
  OBVIOUS
<1>1. /\ options \in Suggested /\ text \in TypedTexts /\ text \in Texts
      /\ open = FALSE /\ filterTyped = FALSE /\ opened = FALSE /\ aimed = FALSE
      /\ items = Offered(text, options) /\ openQuery = text /\ cursor = NoCursor
      /\ batch = << >>
      /\ latest = [open |-> FALSE, query |-> text, value |-> text, rows |-> items,
                   active |-> NoRow]
  BY DEF ComboInit, Texts
<1>2. items \in Seq(Rows) /\ Distinct(items)
  BY <1>1, OfferedProperties
<1>3. latest.rows = items /\ latest.active = NoRow
  BY <1>1
<1>4. ComboTyped
  <2>1. << >> \in Seq({"down", "up", "first", "last"}) /\ Len(<< >>) <= 2
    BY EmptySeq
  <2> QED
    BY <1>1, <2>1 DEF ComboTyped
<1>5. RowsAreOfItems
  <2>1. Range(items) \subseteq {v \in Range(items) : Visible(v, openQuery, filterTyped)}
    BY <1>1 DEF Visible
  <2> QED
    BY <1>2, <1>3, <2>1, OnlyProperties DEF RowsAreOfItems, EnabledItems
<1>6. ItemsAreOffered
  BY <1>1, <1>2 DEF ItemsAreOffered, Rows
<1>7. LatestIsCommitted
  BY <1>1, <1>3 DEF LatestIsCommitted
<1>8. OpenFollows /\ CursorIsLive /\ CursorIsAimed /\ ActiveIsOfCommit /\ KeysAreMade
  BY <1>1, <1>3 DEF OpenFollows, CursorIsLive, CursorIsAimed, ActiveIsOfCommit, KeysAreMade, Calm
<1> QED
  BY <1>4, <1>5, <1>6, <1>7, <1>8 DEF ComboInv

-----------------------------------------------------------------------------
(* Keys *)

\* A place in a list is changed by d, all round it, now or before its list is gone round.
LEMMA RoundWithin == ASSUME NEW n \in Nat \ {0}, NEW x \in Int PROVE x % n \in 0..n - 1
OBVIOUS

LEMMA RoundAgain ==
  ASSUME NEW n \in Nat \ {0}, NEW x \in Int, NEW d \in Int
  PROVE  ((x % n) + d) % n = (x + d) % n
<1> DEFINE a == x \div n
           r == x % n
           b == (r + d) \div n
           s == (r + d) % n
           e == (x + d) \div n
           u == (x + d) % n
<1>1. a \in Int /\ r \in 0..n - 1 /\ x = n * a + r
  OBVIOUS
<1>2. b \in Int /\ s \in 0..n - 1 /\ r + d = n * b + s
  BY <1>1
<1>3. e \in Int /\ u \in 0..n - 1 /\ x + d = n * e + u
  OBVIOUS
<1> HIDE DEF a, r, b, s, e, u
<1>4. n * (a + b - e) = u - s
  BY <1>1, <1>2, <1>3
<1>5. a + b - e = 0
  <2>1. CASE a + b - e >= 1
    <3>1. n * (a + b - e) >= n
      BY <1>1, <1>2, <1>3, <2>1
    <3> QED
      BY <1>2, <1>3, <1>4, <3>1
  <2>2. CASE a + b - e <= -1
    <3>1. n * (a + b - e) <= -n
      BY <1>1, <1>2, <1>3, <2>2
    <3> QED
      BY <1>2, <1>3, <1>4, <3>1
  <2> QED
    BY <1>1, <1>2, <1>3, <2>1, <2>2
<1>6. s = u
  BY <1>2, <1>3, <1>4, <1>5
<1> QED
  BY <1>6 DEF r, s, u

LEMMA AtProperties ==
  ASSUME ComboInv
  PROVE  /\ Len(latest.rows) \in Nat /\ DOMAIN latest.rows = 1..Len(latest.rows)
         /\ latest.rows # << >> => Len(latest.rows) # 0
         /\ \A v \in Range(latest.rows) : At(v) \in 1..Len(latest.rows) /\ latest.rows[At(v)] = v
         /\ \A i \in 1..Len(latest.rows) : /\ At(latest.rows[i]) = i
                                          /\ latest.rows[i] \in Range(latest.rows)
                                          /\ latest.rows[i] \in Rows
<1> DEFINE listed == latest.rows
<1>1. listed \in Seq(Rows) /\ Distinct(listed)
  BY RowsTyped
<1>2. \A v : At(v) = CHOOSE i \in 1..Len(listed) : listed[i] = v
  BY DEF At
<1> HIDE DEF listed
<1>3. /\ Len(listed) \in Nat /\ DOMAIN listed = 1..Len(listed)
      /\ listed # << >> => Len(listed) # 0
      /\ \A i \in 1..Len(listed) : listed[i] \in Rows
  BY <1>1, LenProperties, ElementOfSeq, EmptySeq
<1>4. \A v \in Range(listed) : \E i \in 1..Len(listed) : listed[i] = v
  BY <1>3 DEF Range
<1>5. \A v \in Range(listed) : At(v) \in 1..Len(listed) /\ listed[At(v)] = v
  BY <1>2, <1>4
<1>6. \A i \in 1..Len(listed) : listed[i] \in Range(listed)
  BY <1>3 DEF Range
<1>7. \A i \in 1..Len(listed) : At(listed[i]) = i
  BY <1>1, <1>3, <1>5, <1>6 DEF Distinct
<1> QED
  BY <1>3, <1>5, <1>6, <1>7 DEF listed

LEMMA StepsCount ==
  ASSUME ComboTyped, NEW d, batch' = Append(batch, d)
  PROVE  /\ Steps \in Int /\ Steps' = Steps + (IF d = "down" THEN 1 ELSE -1)
         /\ Len(batch') = Len(batch) + 1 /\ batch' # << >>
         /\ Range(batch') = Range(batch) \cup {d}
         /\ batch = << >> => Steps = 0
<1> DEFINE D == {i \in DOMAIN batch : batch[i] = "down"}
           n == Len(batch)
<1>1. n \in Nat /\ DOMAIN batch = 1..n
  BY LenProperties DEF ComboTyped
<1>2. /\ Len(batch') = n + 1 /\ DOMAIN batch' = 1..(n + 1)
      /\ \A i \in 1..n : batch'[i] = batch[i]
      /\ batch'[n + 1] = d
  BY <1>1, AppendProperties DEF ComboTyped
<1>3. IsFiniteSet(D) /\ Cardinality(D) \in Nat
  <2>1. D \in SUBSET (1..n)
    BY <1>1
  <2> HIDE DEF D
  <2> QED
    BY <1>1, <2>1, Counted, FS_Subset, FS_CardinalityType
<1>4. D' = IF d = "down" THEN D \cup {n + 1} ELSE D
  BY <1>1, <1>2
<1>5. n + 1 \notin D
  BY <1>1
<1>6. Steps = 2 * Cardinality(D) - n /\ Steps' = 2 * Cardinality(D') - (n + 1)
  BY <1>2 DEF Steps
<1>7. batch = << >> => n = 0 /\ D = {}
  BY <1>1
<1>8. Range(batch') = Range(batch) \cup {d}
  BY <1>1, <1>2 DEF Range
<1> HIDE DEF D, n
<1>9. Cardinality(D \cup {n + 1}) = Cardinality(D) + 1
  BY <1>3, <1>5, FS_AddElement
<1>10. batch = << >> => Cardinality(D) = 0
  BY <1>7, FS_EmptySet
<1>11. Steps \in Int /\ (batch = << >> => Steps = 0)
  BY <1>1, <1>3, <1>6, <1>7, <1>10
<1>12. Steps' = Steps + (IF d = "down" THEN 1 ELSE -1)
  BY <1>1, <1>3, <1>4, <1>6, <1>9
<1>13. batch' # << >>
  BY <1>1, <1>2
<1> QED
  BY <1>2, <1>8, <1>11, <1>12, <1>13 DEF n

\* A key moves the cursor from where it stands by now.
LEMMA MoveKeeps == ComboInv /\ MoveActive => ComboInv'
<1> SUFFICES ASSUME ComboInv, MoveActive PROVE ComboInv'
  OBVIOUS
<1> DEFINE listed == latest.rows
           n == Len(listed)
           at == At(StepsFrom)
<1>1. PICK d \in {"down", "up", "first", "last"} :
        LET to == IF d = "first" THEN 1
                  ELSE IF d = "last" THEN n
                  ELSE IF d = "down" THEN 1 + (at % n)
                  ELSE 1 + ((at - 2) % n)
        IN  /\ cursor' = IF listed = << >> THEN NoCursor
                         ELSE [value |-> listed[to], query |-> latest.query]
            /\ batch' = Append(batch, d)
  BY DEF MoveActive, At
<1> DEFINE to == IF d = "first" THEN 1
                 ELSE IF d = "last" THEN n
                 ELSE IF d = "down" THEN 1 + (at % n)
                 ELSE 1 + ((at - 2) % n)
<1>2. /\ cursor' = IF listed = << >> THEN NoCursor
                   ELSE [value |-> listed[to], query |-> latest.query]
      /\ batch' = Append(batch, d)
  BY <1>1
<1>3. /\ latest.open /\ Len(batch) < 2 /\ aimed' = TRUE
      /\ UNCHANGED <<text, options, open, filterTyped, items, openQuery, opened, latest>>
  BY DEF MoveActive
<1>4. latest.query = openQuery /\ latest.value = text /\ open
  BY <1>3 DEF ComboInv, LatestIsCommitted
<1>5. /\ n \in Nat /\ DOMAIN listed = 1..n
      /\ \A v \in Range(listed) : At(v) \in 1..n /\ listed[At(v)] = v
      /\ \A i \in 1..n : At(listed[i]) = i /\ listed[i] \in Range(listed) /\ listed[i] \in Rows
  BY AtProperties
<1>6. \A v : At(v)' = At(v)
  BY <1>3 DEF At
<1>7. listed \in Seq(Rows)
  BY RowsTyped
<1>8. listed # << >> => StepsFrom \in Range(listed)
  BY <1>7, ResolveProperties DEF StepsFrom
<1>9. listed # << >> => n # 0 /\ at \in 1..n
  BY <1>5, <1>8
<1> HIDE DEF listed, n, at
<1>10. listed # << >> => to \in 1..n
  <2> SUFFICES ASSUME listed # << >> PROVE to \in 1..n
    OBVIOUS
  <2>1. n \in Nat \ {0} /\ at \in Int /\ at - 2 \in Int
    BY <1>5, <1>9
  <2>2. at % n \in 0..n - 1 /\ (at - 2) % n \in 0..n - 1
    BY <2>1, RoundWithin
  <2>3. 1 \in 1..n /\ n \in 1..n /\ 1 + (at % n) \in 1..n /\ 1 + ((at - 2) % n) \in 1..n
    BY <2>1, <2>2
  <2> QED
    BY <2>3
<1>11. /\ Steps \in Int /\ Steps' = Steps + (IF d = "down" THEN 1 ELSE -1)
       /\ Len(batch') = Len(batch) + 1 /\ batch' # << >>
       /\ Range(batch') = Range(batch) \cup {d}
       /\ batch = << >> => Steps = 0
  BY <1>2, StepsCount DEF ComboInv
<1>12. ComboTyped'
  <2>1. batch' \in Seq({"down", "up", "first", "last"})
    BY <1>2, AppendProperties DEF ComboInv, ComboTyped
  <2>2. Len(batch') <= 2
    BY <1>3, <1>11, LenProperties DEF ComboInv, ComboTyped
  <2> QED
    BY <1>3, <2>1, <2>2 DEF ComboInv, ComboTyped
<1>13. ItemsAreOffered' /\ RowsAreOfItems' /\ OpenFollows'
  BY <1>3 DEF ComboInv, ItemsAreOffered, RowsAreOfItems, OpenFollows
<1>14. LatestIsCommitted'
  BY <1>3 DEF ComboInv, LatestIsCommitted
<1>15. CursorIsAimed'
  BY <1>3 DEF CursorIsAimed
<1>16. listed # << >> =>
         /\ cursor' # NoCursor /\ cursor'.value = listed[to] /\ cursor'.query = openQuery
         /\ At(cursor'.value) = to /\ cursor'.value \in Range(listed)
  <2> SUFFICES ASSUME listed # << >>
               PROVE  /\ cursor' # NoCursor /\ cursor'.value = listed[to]
                      /\ cursor'.query = openQuery
                      /\ At(cursor'.value) = to /\ cursor'.value \in Range(listed)
    OBVIOUS
  <2> HIDE DEF to
  <2>1. cursor' = [value |-> listed[to], query |-> latest.query]
    BY <1>2
  <2>2. cursor'.value = listed[to] /\ cursor'.query = openQuery
    BY <1>4, <2>1
  <2>3. listed[to] # NoRow
    BY <1>5, <1>10 DEF Rows
  <2>4. cursor' # NoCursor
    BY <2>2, <2>3 DEF NoCursor
  <2> QED
    BY <1>5, <1>10, <2>2, <2>4
<1>17. CursorIsLive'
  BY <1>2, <1>3, <1>16 DEF CursorIsLive, Live, listed
<1>18. ActiveIsOfCommit'
  BY <1>3, <1>11 DEF ComboInv, ActiveIsOfCommit, Calm
<1>19. KeysAreMade'
  <2> SUFFICES ASSUME listed # << >>
               PROVE  /\ latest.active # NoRow /\ cursor' # NoCursor
                      /\ Range(batch') \subseteq {"down", "up"} =>
                           At(cursor'.value) = 1 + ((At(latest.active) - 1 + Steps') % n)
    BY <1>3, <1>4, <1>6 DEF KeysAreMade, listed, n
  <2>1. CASE Calm
    <3>1. latest.active = StepsFrom
      BY <1>4, <2>1 DEF ComboInv, ActiveIsOfCommit
    <3>2. latest.active # NoRow
      BY <1>7, <1>8, <3>1, ResolveProperties
    <3>3. At(latest.active) = at
      BY <3>1 DEF at
    <3>4. Steps = 0 /\ Range(batch) = {}
      BY <1>11, <2>1 DEF Calm, Range
    <3>5. d \in {"down", "up"} => to = 1 + ((at - 1 + Steps') % n)
      <4>1. at \in Int
        BY <1>5, <1>9
      <4>2. d = "down" => to = 1 + (at % n) /\ Steps' = 1 /\ at - 1 + 1 = at
        BY <1>11, <3>4, <4>1
      <4>3. d = "up" => to = 1 + ((at - 2) % n) /\ Steps' = -1 /\ at - 1 + (-1) = at - 2
        BY <1>11, <3>4, <4>1
      <4> HIDE DEF to
      <4> QED
        BY <4>2, <4>3
    <3> QED
      BY <1>11, <1>16, <3>2, <3>3, <3>5
  <2>2. CASE ~Calm
    <3>1. /\ latest.active # NoRow /\ cursor # NoCursor
          /\ Range(batch) \subseteq {"down", "up"} =>
               At(cursor.value) = 1 + ((At(latest.active) - 1 + Steps) % n)
      BY <2>2 DEF ComboInv, KeysAreMade, listed, n
    <3>2. StepsFrom = cursor.value
      <4>1. Live(cursor, latest.query, latest.rows)
        BY <1>4, <3>1 DEF ComboInv, CursorIsLive
      <4> QED
        BY <4>1 DEF StepsFrom, Resolve
    <3>3. at = At(cursor.value)
      BY <3>2 DEF at
    <3>4. At(latest.active) \in Int
      <4>1. latest.active \in Range(listed)
        BY <3>1 DEF ComboInv, ActiveIsOfCommit, listed
      <4> QED
        BY <1>5, <4>1
    <3> DEFINE x == At(latest.active) - 1 + Steps
    <3>5. x \in Int /\ At(latest.active) - 1 + Steps' = x + (IF d = "down" THEN 1 ELSE -1)
      BY <1>11, <3>4
    <3> HIDE DEF x
    <3>6. ASSUME Range(batch') \subseteq {"down", "up"}
          PROVE  to = 1 + ((x + (IF d = "down" THEN 1 ELSE -1)) % n)
      <4>1. d \in {"down", "up"} /\ at = 1 + (x % n)
        BY <1>11, <3>1, <3>3, <3>6 DEF x
      <4>2. /\ x % n \in Int /\ ((x % n) + 1) % n = (x + 1) % n
            /\ ((x % n) + (-1)) % n = (x + (-1)) % n
        <5>1. n \in Nat \ {0} /\ 1 \in Int /\ -1 \in Int
          BY <1>5, <1>9
        <5>2. x % n \in Int
          BY <3>5, <5>1, RoundWithin
        <5>3. ((x % n) + 1) % n = (x + 1) % n
          BY <3>5, <5>1, RoundAgain
        <5>4. ((x % n) + (-1)) % n = (x + (-1)) % n
          BY <3>5, <5>1, RoundAgain
        <5> QED
          BY <5>2, <5>3, <5>4
      <4>3. CASE d = "down"
        <5>1. to = 1 + (at % n) /\ at = (x % n) + 1
          BY <4>1, <4>2, <4>3
        <5> QED
          BY <4>2, <4>3, <5>1
      <4>4. CASE d = "up"
        <5>1. to = 1 + ((at - 2) % n) /\ at - 2 = (x % n) + (-1)
          BY <4>1, <4>2, <4>4
        <5> QED
          BY <4>2, <4>4, <5>1
      <4> QED
        BY <4>1, <4>3, <4>4
    <3> HIDE DEF to
    <3> QED
      BY <1>16, <3>1, <3>5, <3>6
  <2> QED
    BY <2>1, <2>2
<1> QED
  BY <1>12, <1>13, <1>14, <1>15, <1>17, <1>18, <1>19 DEF ComboInv

\* What the user, the server and React do else are commits.
LEMMA CommitsKeep ==
  ComboInv /\ (Render \/ OpenList \/ CloseList \/ Type \/ PointAt \/ ClickRow \/ Enter \/ Suggest)
    => ComboInv'
<1> SUFFICES ASSUME ComboInv,
                    Render \/ OpenList \/ CloseList \/ Type \/ PointAt \/ ClickRow \/ Enter
                      \/ Suggest
             PROVE  ComboInv'
  OBVIOUS
<1>1. /\ text \in Texts /\ options \in Suggested /\ open \in BOOLEAN /\ filterTyped \in BOOLEAN
      /\ aimed \in BOOLEAN /\ TRUE \in BOOLEAN /\ FALSE \in BOOLEAN
  BY DEF ComboInv, ComboTyped
<1>2. ~aimed => cursor = NoCursor
  BY DEF ComboInv, CursorIsAimed
<1>3. items \in Seq(Rows) /\ Distinct(items)
  BY DEF ComboInv, ItemsAreOffered, Rows
<1>4. \A v \in Range(PanelRows) : v \in Texts
  <2>1. Offered(text, options) \in Seq(Rows) /\ Distinct(Offered(text, options))
    BY <1>1, OfferedProperties
  <2>2. PanelRows \in Seq(Rows)
    BY <2>1, EnabledProperties DEF PanelRows
  <2>3. \A i \in DOMAIN PanelRows : PanelRows[i] \in Rows
    BY <2>2, LenProperties, ElementOfSeq
  <2> QED
    BY <2>3 DEF Range, Rows
<1>5. CASE Render
  <2>1. CommitWith(text, options, open, filterTyped, cursor) /\ aimed' = aimed
    BY <1>5 DEF Render
  <2> QED
    BY <1>1, <1>2, <2>1, CommitKeeps
<1>6. CASE OpenList
  <2>1. CommitWith(text, options, TRUE, FALSE, cursor) /\ aimed' = aimed
    BY <1>6 DEF OpenList
  <2> QED
    BY <1>1, <1>2, <2>1, CommitKeeps
<1>7. CASE CloseList
  <2>1. CommitWith(text, options, FALSE, FALSE, cursor) /\ aimed' = aimed
    BY <1>7 DEF CloseList
  <2> QED
    BY <1>1, <1>2, <2>1, CommitKeeps
<1>8. CASE Type
  <2>1. PICK v \in TypedTexts \ {text} : CommitWith(v, options, TRUE, TRUE, cursor)
    BY <1>8 DEF Type
  <2>2. v \in Texts /\ v # text
    BY DEF Texts
  <2>3. aimed' = (aimed /\ ~open)
    BY <1>8 DEF Type
  <2>4. aimed' \in BOOLEAN
    BY <2>3
  <2>5. open /\ cursor # NoCursor => cursor.query = text
    BY DEF ComboInv, OpenFollows, CursorIsLive, Live
  <2>6. ~aimed' => cursor = NoCursor \/ cursor.query # v
    BY <1>2, <2>2, <2>3, <2>5
  <2> QED
    BY <1>1, <2>1, <2>2, <2>4, <2>6, CommitKeeps
<1>9. CASE PointAt
  <2>1. PICK v \in Range(PanelRows) :
          CommitWith(text, options, open, filterTyped, [value |-> v, query |-> latest.query])
    BY <1>9 DEF PointAt
  <2>2. aimed' = TRUE
    BY <1>9 DEF PointAt
  <2> DEFINE c == [value |-> v, query |-> latest.query]
  <2>3. CommitWith(text, options, open, filterTyped, c)
    BY <2>1
  <2> HIDE DEF c
  <2> QED
    BY <1>1, <2>2, <2>3, CommitKeeps
<1>10. CASE ClickRow \/ Enter
  <2>1. PICK v \in Texts : CommitWith(v, options, FALSE, FALSE, cursor)
    <3>1. latest.active # NoRow => latest.active \in Texts
      <4>1. latest.active # NoRow => latest.active \in Range(items)
        BY RowsTyped DEF ComboInv, ActiveIsOfCommit
      <4>2. \A i \in DOMAIN items : items[i] \in Rows
        BY <1>3, LenProperties, ElementOfSeq
      <4> QED
        BY <4>1, <4>2 DEF Range, Rows
    <3> QED
      BY <1>4, <1>10, <3>1 DEF ClickRow, Enter, ChooseRow
  <2>2. aimed' = aimed
    BY <1>10 DEF ClickRow, Enter, ChooseRow
  <2> QED
    BY <1>1, <1>2, <2>1, <2>2, CommitKeeps
<1>11. CASE Suggest
  <2>1. PICK o \in Suggested : CommitWith(text, o, open, filterTyped, cursor)
    BY <1>11 DEF Suggest
  <2>2. aimed' = aimed
    BY <1>11 DEF Suggest
  <2> QED
    BY <1>1, <1>2, <2>1, <2>2, CommitKeeps
<1> QED
  BY <1>5, <1>6, <1>7, <1>8, <1>9, <1>10, <1>11

LEMMA ComboStep == ComboInv /\ [ComboNext]_comboVars => ComboInv'
<1>1. ComboInv /\ UNCHANGED comboVars => ComboInv'
  <2> SUFFICES ASSUME ComboInv, UNCHANGED comboVars PROVE ComboInv'
    OBVIOUS
  <2>1. UNCHANGED <<text, options, open, filterTyped, items, openQuery, cursor, opened, latest,
                    batch, aimed>>
    BY DEF comboVars
  <2>2. ComboTyped' /\ ItemsAreOffered' /\ RowsAreOfItems'
    BY <2>1 DEF ComboInv, ComboTyped, ItemsAreOffered, RowsAreOfItems
  <2>3. LatestIsCommitted' /\ OpenFollows' /\ CursorIsLive' /\ CursorIsAimed'
    BY <2>1 DEF ComboInv, LatestIsCommitted, OpenFollows, CursorIsLive, CursorIsAimed
  <2>4. ActiveIsOfCommit'
    BY <2>1 DEF ComboInv, ActiveIsOfCommit, Calm, StepsFrom
  <2>5. KeysAreMade'
    <3>1. Calm' = Calm /\ Steps' = Steps /\ \A v : At(v)' = At(v)
      BY <2>1 DEF Calm, Steps, At
    <3> QED
      BY <2>1, <3>1 DEF ComboInv, KeysAreMade
  <2> QED
    BY <2>2, <2>3, <2>4, <2>5 DEF ComboInv
<1> QED
  BY <1>1, MoveKeeps, CommitsKeep DEF ComboNext

LEMMA ComboInvariant == ComboSpec => []ComboInv
BY ComboInitInv, ComboStep, PTL DEF ComboSpec

LEMMA SearchFieldTyped == ComboInv => ComboTypeOK
<1> SUFFICES ASSUME ComboInv PROVE ComboTypeOK
  OBVIOUS
<1>1. latest.open = open
  BY DEF ComboInv, LatestIsCommitted
<1>2. cursor # NoCursor => cursor.value \in Range(items)
  BY RowsTyped DEF ComboInv, CursorIsLive, Live
<1> QED
  BY <1>1, <1>2 DEF ComboTypeOK, ComboInv, ComboTyped, ItemsAreOffered, ActiveIsOfCommit

-----------------------------------------------------------------------------
\* ComboTypeOK: every variable of the search field keeps its type, and its highlight is one of
\* the rows that useActiveOption has, for any texts, suggestions and number of keys.
THEOREM ComboTypeCorrect == ComboSpec => []ComboTypeOK
BY SearchFieldTyped, ComboInvariant, PTL

\* EnterKeepsTyped: Enter in the list of suggestions (selectActive) leaves the text that was
\* typed, unless the user has moved to another row since.
THEOREM TypedIsKept == ComboSpec => EnterKeepsTyped
<1>1. ComboInv /\ Enter /\ ~aimed /\ text # << >> => text' = text
  <2> SUFFICES ASSUME ComboInv, Enter, ~aimed, text # << >> PROVE text' = text
    OBVIOUS
  <2>1. open /\ text' = latest.active
    BY DEF Enter, ChooseRow, CommitWith
  <2>2. Calm
    <3>1. latest.rows # << >>
      <4>1. latest.active \in Range(latest.rows)
        BY DEF Enter, ComboInv, ActiveIsOfCommit
      <4> QED
        BY <4>1 DEF Range
    <3> QED
      BY <3>1 DEF ComboInv, CursorIsAimed, KeysAreMade
  <2>3. /\ latest.active = Resolve(cursor, openQuery, text, latest.rows)
        /\ cursor = NoCursor /\ openQuery = text /\ text \in Texts /\ options \in Suggested
        /\ Range(items) = Range(Offered(text, options))
    BY <2>1, <2>2 DEF ComboInv, ActiveIsOfCommit, StepsFrom, LatestIsCommitted,
                      CursorIsAimed, OpenFollows, ComboTyped, ItemsAreOffered
  <2>4. text \in Range(items)
    BY <2>3, OfferedProperties DEF NoRow
  <2>5. latest.rows \in Seq(Rows) /\ text \in Range(latest.rows)
    BY <2>3, <2>4, RowsTyped
  <2>6. Resolve(cursor, openQuery, text, latest.rows) = text
    BY <2>3, <2>5, ResolveProperties
  <2> QED
    BY <2>1, <2>3, <2>6
<1> QED
  BY <1>1, ComboInvariant, PTL DEF ComboSpec, EnterKeepsTyped

\* TwoKeysMoveTwo: arrows that meet before React commits (moveActive) move the highlight as far
\* as they do one commit apart, for lists of any length.
THEOREM KeysAddUp == ComboSpec => TwoKeysMoveTwo
<1>1. ASSUME ComboInv, ~Calm, Render, Range(batch) \subseteq {"down", "up"}, latest.rows # << >>
      PROVE  LET n    == Len(latest.rows)
                 at   == CHOOSE i \in 1..n : latest.rows[i] = latest.active
                 down == Cardinality({i \in DOMAIN batch : batch[i] = "down"})
             IN  latest'.active = latest.rows[1 + ((at - 1 + 2 * down - Len(batch)) % n)]
  <2>1. /\ open /\ latest.active # NoRow /\ cursor # NoCursor
        /\ At(cursor.value) = 1 + ((At(latest.active) - 1 + Steps) % Len(latest.rows))
    BY <1>1 DEF ComboInv, KeysAreMade
  <2>2. openQuery = text /\ Live(cursor, openQuery, latest.rows)
    BY <1>1, <2>1 DEF ComboInv, OpenFollows, CursorIsLive
  <2>3. /\ items \in Seq(Rows) /\ Distinct(items) /\ Range(items) = Range(Offered(text, options))
        /\ text \in Texts /\ options \in Suggested
        /\ latest.rows = EnabledItems(items, openQuery, filterTyped)
    BY <1>1 DEF ComboInv, ItemsAreOffered, ComboTyped, RowsAreOfItems, Rows
  <2>4. Registered(items, Offered(text, options)) = items
    <3>1. Offered(text, options) \in Seq(Rows) /\ Distinct(Offered(text, options))
      BY <2>3, OfferedProperties
    <3> QED
      BY <2>3, <3>1, RegisteredProperties
  <2>5. latest'.active = Resolve(cursor, text, text, latest.rows)
    <3>1. CommitWith(text, options, open, filterTyped, cursor)
      BY <1>1 DEF Render
    <3>2. Cleared(cursor, text, latest.rows) = cursor
      BY <2>2 DEF Cleared
    <3>3. opened'
      BY <2>1, <3>1 DEF CommitWith
    <3> QED
      BY <2>1, <2>2, <2>3, <2>4, <3>1, <3>2, <3>3 DEF CommitWith
  <2>6. latest'.active = cursor.value
    BY <2>2, <2>5 DEF Resolve
  <2>7. cursor.value = latest.rows[At(cursor.value)]
    BY <1>1, <2>2, AtProperties DEF Live
  <2>8. At(latest.active) - 1 + Steps
          = At(latest.active) - 1 + 2 * Cardinality({i \in DOMAIN batch : batch[i] = "down"})
              - Len(batch)
    <3>1. At(latest.active) \in Int
      BY <1>1, <2>1, AtProperties DEF ComboInv, ActiveIsOfCommit
    <3>2. IsFiniteSet({i \in DOMAIN batch : batch[i] = "down"}) /\ Len(batch) \in Nat
      <4>1. Len(batch) \in Nat /\ DOMAIN batch = 1..Len(batch)
        BY <1>1, LenProperties DEF ComboInv, ComboTyped
      <4>2. IsFiniteSet(1..Len(batch))
        BY <4>1, Counted
      <4>3. {i \in DOMAIN batch : batch[i] = "down"} \in SUBSET (1..Len(batch))
        BY <4>1
      <4> QED
        BY <4>1, <4>2, <4>3, FS_Subset
    <3>3. Cardinality({i \in DOMAIN batch : batch[i] = "down"}) \in Nat
      BY <3>2, FS_CardinalityType
    <3> DEFINE down == Cardinality({i \in DOMAIN batch : batch[i] = "down"})
    <3>4. Steps = 2 * down - Len(batch) /\ down \in Nat
      BY <3>3 DEF Steps
    <3> HIDE DEF down
    <3>5. At(latest.active) - 1 + Steps = At(latest.active) - 1 + 2 * down - Len(batch)
      BY <3>1, <3>2, <3>4
    <3> QED
      BY <3>5 DEF down
  <2> QED
    BY <2>1, <2>6, <2>7, <2>8 DEF At
<1>2. ComboInv /\ ~Calm /\ Render /\ Range(batch) \subseteq {"down", "up"} /\ latest.rows # << >> =>
        LET n    == Len(latest.rows)
            at   == CHOOSE i \in 1..n : latest.rows[i] = latest.active
            down == Cardinality({i \in DOMAIN batch : batch[i] = "down"})
        IN  latest'.active = latest.rows[1 + ((at - 1 + 2 * down - Len(batch)) % n)]
  BY <1>1, Zenon
<1> QED
  BY <1>2, ComboInvariant, PTL DEF ComboSpec, TwoKeysMoveTwo

-----------------------------------------------------------------------------
(* Notices and the button that copies: their types.                         *)

\* Each use of the button makes at most one notice, when its write has failed.
ButtonInv ==
  /\ copies \in 0 .. MaxCopies /\ clock <= MaxClock
  /\ copying \subseteq 1 .. copies /\ copyTimers \subseteq 1 .. copies /\ copyRef \in 0 .. copies
  /\ copyState \in {"idle", "success", "error"}
  /\ notices + Cardinality(copying) <= MaxNotices + copies

LEMMA Writes ==
  ASSUME NEW n \in Nat, NEW S, S \subseteq 1 .. n
  PROVE  /\ IsFiniteSet(S) /\ Cardinality(S) \in 0 .. n
         /\ Cardinality(S \cup {n + 1}) = Cardinality(S) + 1
         /\ \A c \in S : Cardinality(S \ {c}) = Cardinality(S) - 1
<1>1. IsFiniteSet(1 .. n) /\ Cardinality(1 .. n) = n
  BY Counted
<1>2. IsFiniteSet(S) /\ Cardinality(S) <= n
  BY <1>1, FS_Subset
<1>3. Cardinality(S) \in Nat
  BY <1>2, FS_CardinalityType
<1>4. n + 1 \notin S
  OBVIOUS
<1>5. Cardinality(S \cup {n + 1}) = Cardinality(S) + 1
  BY <1>2, <1>4, FS_AddElement
<1>6. \A c \in S : Cardinality(S \ {c}) = Cardinality(S) - 1
  BY <1>2, FS_RemoveElement
<1> QED
  BY <1>2, <1>3, <1>5, <1>6

LEMMA OneForOne ==
  ASSUME NEW a \in Nat, NEW b \in Nat, NEW n \in Nat, NEW m \in Nat, a + n <= m, b <= a + 1
  PROVE  b + (n - 1) <= m
OBVIOUS

LEMMA ButtonInit == ToastsInit => ButtonInv
BY ToastAssumption, FS_EmptySet DEF ToastsInit, ButtonInv, MaxClock

LEMMA ButtonStep == StackInv /\ ButtonInv /\ [ToastsNext]_noticeVars => ButtonInv'
<1> SUFFICES ASSUME StackInv, ButtonInv, [ToastsNext]_noticeVars PROVE ButtonInv'
  OBVIOUS
<1>1. /\ clock \in Nat /\ notices \in Nat /\ copies \in Nat /\ MaxNotices \in Nat
      /\ MaxCopies \in Nat /\ MaxClock \in Nat
  BY ToastAssumption DEF StackInv, ButtonInv, MaxClock
<1> DEFINE n == Cardinality(copying)
<1>2. /\ n \in 0 .. copies
      /\ Cardinality(copying \cup {copies + 1}) = n + 1
      /\ \A c \in copying : Cardinality(copying \ {c}) = n - 1
  BY <1>1, Writes DEF ButtonInv
<1>3. notices + n <= MaxNotices + copies
  BY DEF ButtonInv
<1> HIDE DEF n
<1>4. CASE Notify
  <2>1. notices' = notices + 1 /\ notices < MaxNotices /\ clock' = clock
        /\ UNCHANGED copyVars
    BY <1>4 DEF Notify, ShowToast
  <2>2. Cardinality(copying') = n
    BY <2>1 DEF n, copyVars
  <2>3. notices' + n <= MaxNotices + copies
    BY <1>1, <1>2, <2>1
  <2> QED
    BY <2>1, <2>2, <2>3 DEF ButtonInv, copyVars
<1>5. CASE CloseToast \/ SyncTimers \/ Expire
  <2>1. UNCHANGED <<clock, notices, copyVars>>
    BY <1>5 DEF CloseToast, SyncTimers, Expire, DismissToast
  <2> QED
    BY <2>1 DEF ButtonInv, copyVars
<1>6. CASE Tick
  BY <1>1, <1>6 DEF Tick, ButtonInv, copyVars
<1>7. CASE Copy
  <2>1. /\ copies' = copies + 1 /\ copying' = copying \cup {copies + 1}
        /\ copies < MaxCopies /\ copyTimers' \subseteq copyTimers
        /\ UNCHANGED <<copyState, copyRef, clock, notices>>
    BY <1>7 DEF Copy, toastVars
  <2>2. notices + Cardinality(copying') <= MaxNotices + copies'
    BY <1>1, <1>2, <1>3, <2>1
  <2>3. /\ copies' \in 0 .. MaxCopies /\ 1 .. copies \subseteq 1 .. copies'
        /\ copies + 1 \in 1 .. copies' /\ 0 .. copies \subseteq 0 .. copies'
    BY <1>1, <2>1
  <2> QED
    BY <2>1, <2>2, <2>3 DEF ButtonInv
<1>8. ASSUME NEW c \in copying, NEW outcome \in {"success", "error"}, CopyEnds(c, outcome),
             notices' \in notices .. notices + 1, clock' = clock
      PROVE  ButtonInv'
  <2>1. /\ copying' = copying \ {c} /\ copyTimers' = copyTimers \cup {c} /\ copyRef' = c
        /\ copyState' = outcome /\ copies' = copies
    BY <1>8 DEF CopyEnds
  <2>2. Cardinality(copying') = n - 1
    BY <1>2, <2>1
  <2>3. notices' + Cardinality(copying') <= MaxNotices + copies
    <3>1. n \in Nat
      BY <1>1, <1>2
    <3>2. notices' \in Nat /\ notices' <= notices + 1
      BY <1>1, <1>8
    <3>3. MaxNotices + copies \in Nat
      BY <1>1
    <3> QED
      BY <1>1, <1>3, <2>2, <3>1, <3>2, <3>3, OneForOne
  <2>4. c \in 1 .. copies /\ c \in 0 .. copies
    BY <1>1 DEF ButtonInv
  <2> QED
    BY <1>8, <2>1, <2>3, <2>4 DEF ButtonInv
<1>9. CASE Copied
  BY <1>1, <1>8, <1>9 DEF Copied, toastVars
<1>10. CASE CopyFails
  BY <1>1, <1>8, <1>10 DEF CopyFails, ShowToast
<1>11. CASE CopyShown
  BY <1>11 DEF CopyShown, ButtonInv, toastVars
<1>12. CASE UNCHANGED noticeVars
  BY <1>12 DEF noticeVars, toastVars, copyVars, ButtonInv
<1> QED
  BY <1>4, <1>5, <1>6, <1>7, <1>9, <1>10, <1>11, <1>12 DEF ToastsNext

LEMMA NoticesTyped == StackInv /\ ButtonInv => ToastsTypeOK
<1> SUFFICES ASSUME StackInv, ButtonInv PROVE ToastsTypeOK
  OBVIOUS
<1>1. /\ clock \in Nat /\ notices \in Nat /\ copies \in Nat /\ MaxNotices \in Nat
      /\ MaxCopies \in Nat /\ MaxClock \in Nat /\ Duration \in Nat
  BY ToastAssumption DEF StackInv, ButtonInv, MaxClock
<1>2. Cardinality(copying) \in Nat
  <2>1. copying \subseteq 1 .. copies
    BY DEF ButtonInv
  <2>2. Cardinality(copying) \in 0 .. copies
    BY <1>1, <2>1, Writes
  <2> QED
    BY <1>1, <2>2
<1>3. clock \in 0 .. MaxClock /\ notices \in 0 .. (MaxNotices + MaxCopies)
  BY <1>1, <1>2 DEF ButtonInv
<1>4. /\ Len(toasts) <= ToastLimit
      /\ \A t \in Range(toasts) : t.id \in 1 .. notices /\ t.createdAt \in 0 .. clock
  BY DEF StackInv, StackOf, Range
<1>5. \A x \in toastTimers : x.id \in 1 .. notices /\ x.at \in 0 .. (MaxClock + Duration)
  BY <1>1, <1>3 DEF StackInv, TimersDistinct
<1> QED
  BY <1>3, <1>4, <1>5 DEF ToastsTypeOK, StackInv, ButtonInv

-----------------------------------------------------------------------------
(* The field with a list to choose from.  The focus is in the list only while that is open,   *)
(* and when a choice has taken it away, the last frame asked for gives it back.               *)

FramesTyped == frames \in Seq(OptionsOf \cup {OnTrigger})
FocusIsSeen == focus \in OptionsOf => listOpen
FocusIsDue  == focus = Lost => frames # << >> /\ frames[Len(frames)] = OnTrigger
SelectInv   == SelectTypeOK /\ FramesTyped /\ FocusIsSeen /\ FocusIsDue

\* The places of the focus are different ones.
LEMMA FocusPlaces ==
  /\ OptionCount \in Nat \ {0} /\ OnTrigger \notin OptionsOf /\ Outside \notin OptionsOf
  /\ Lost \notin OptionsOf /\ Lost # OnTrigger /\ Lost # Outside
BY SelectAssumption DEF OptionsOf, OnTrigger, Outside, Lost

LEMMA TailOfSeq ==
  ASSUME NEW S, NEW q \in Seq(S), q # << >>
  PROVE  /\ Len(Tail(q)) = Len(q) - 1
         /\ \A i \in 1 .. Len(q) - 1 : Tail(q)[i] = q[i + 1]
OBVIOUS

LEMMA SelectInitInv == SelectInit => SelectInv
<1> SUFFICES ASSUME SelectInit PROVE SelectInv
  OBVIOUS
<1>1. frames \in Seq(OptionsOf \cup {OnTrigger}) /\ Len(frames) = 0
  BY DEF SelectInit
<1>2. \A i \in 1 .. Len(frames) : frames[i] \in OptionsOf \cup {OnTrigger}
  BY <1>1
<1>3. SelectTypeOK
  BY <1>2 DEF SelectInit, SelectTypeOK
<1>4. FocusIsSeen /\ FocusIsDue
  BY FocusPlaces DEF SelectInit, FocusIsSeen, FocusIsDue
<1> QED
  BY <1>1, <1>3, <1>4 DEF SelectInv, FramesTyped

LEMMA SelectStep == SelectInv /\ [SelectNext]_selectVars => SelectInv'
<1> SUFFICES ASSUME SelectInv, [SelectNext]_selectVars PROVE SelectInv'
  OBVIOUS
<1> DEFINE Targets == OptionsOf \cup {OnTrigger}
<1>1. /\ frames \in Seq(Targets) /\ listOpen \in BOOLEAN /\ chosen \in OptionsOf
      /\ focus \in OptionsOf \cup {OnTrigger, Outside, Lost}
  BY DEF SelectInv, SelectTypeOK, FramesTyped
<1>2. ASSUME frames' \in Seq(Targets), listOpen' \in BOOLEAN, chosen' \in OptionsOf,
             focus' \in OptionsOf \cup {OnTrigger, Outside, Lost}, FocusIsSeen', FocusIsDue'
      PROVE  SelectInv'
  <2>1. \A i \in 1 .. Len(frames') : frames'[i] \in Targets
    BY <1>2
  <2> QED
    BY <1>2, <2>1 DEF SelectInv, SelectTypeOK, FramesTyped
<1>3. CASE StepKey
  <2>1. PICK x : frames' = Append(frames, x) /\ x \in Targets
    <3>1. /\ 1 \in Targets /\ OptionCount \in Targets /\ chosen \in Targets
          /\ \A f \in OptionsOf : 1 + (f % OptionCount) \in Targets
      BY <1>1, FocusPlaces, RoundWithin DEF OptionsOf
    <3>2. \A f \in OptionsOf : 1 + ((f + OptionCount - 2) % OptionCount) \in Targets
      <4> SUFFICES ASSUME NEW f \in OptionsOf
                   PROVE  1 + ((f + OptionCount - 2) % OptionCount) \in Targets
        OBVIOUS
      <4>1. f + OptionCount - 2 \in Int
        BY FocusPlaces DEF OptionsOf
      <4>2. (f + OptionCount - 2) % OptionCount \in 0 .. OptionCount - 1
        BY <4>1, FocusPlaces, RoundWithin
      <4> QED
        BY <4>2, FocusPlaces DEF OptionsOf
    <3> QED
      BY <1>3, <3>1, <3>2 DEF StepKey
  <2>2. listOpen' = TRUE /\ focus' = focus /\ chosen' = chosen /\ focus # Lost
    BY <1>3, FocusPlaces DEF StepKey, Inside
  <2> QED
    BY <1>1, <1>2, <2>1, <2>2 DEF FocusIsSeen, FocusIsDue
<1>4. CASE Escape \/ TabAway \/ TabInto \/ ClickTrigger \/ PointOutside
  <2>1. /\ frames' = frames /\ chosen' = chosen /\ listOpen' \in BOOLEAN
        /\ focus' \in {OnTrigger, Outside}
    BY <1>1, <1>4 DEF Escape, TabAway, TabInto, ClickTrigger, PointOutside
  <2> QED
    BY <1>1, <1>2, <2>1, FocusPlaces DEF FocusIsSeen, FocusIsDue
<1>5. CASE ChooseOption
  <2>1. /\ frames' = Append(frames, OnTrigger) /\ chosen' \in OptionsOf /\ listOpen' = FALSE
        /\ focus' = Lost
    BY <1>5 DEF ChooseOption, Inert
  <2>2. /\ frames' \in Seq(Targets) /\ frames' # << >> /\ frames'[Len(frames')] = OnTrigger
    BY <1>1, <2>1
  <2> QED
    BY <1>2, <2>1, <2>2, FocusPlaces DEF FocusIsSeen, FocusIsDue
<1>6. CASE Frame
  <2>1. /\ frames # << >> /\ frames' = Tail(frames) /\ focus' = Takes(Head(frames))
        /\ UNCHANGED <<listOpen, chosen>>
    BY <1>6 DEF Frame
  <2>2. Head(frames) \in Targets /\ frames' \in Seq(Targets)
    BY <1>1, <2>1
  <2>3. FocusIsSeen'
    BY <2>1, <2>2, FocusPlaces DEF Takes, FocusIsSeen, SelectInv
  <2>4. FocusIsDue'
    <3> SUFFICES ASSUME focus' = Lost
                 PROVE  frames' # << >> /\ frames'[Len(frames')] = OnTrigger
      BY DEF FocusIsDue
    <3>1. focus = Lost /\ Head(frames) # OnTrigger
      BY <2>1, <2>2, FocusPlaces DEF Takes
    <3>2. frames[Len(frames)] = OnTrigger /\ Head(frames) = frames[1]
      BY <1>1, <3>1 DEF SelectInv, FocusIsDue
    <3>3. Len(frames) \in Nat /\ Len(frames) # 0 /\ Len(frames) # 1
      BY <1>1, <2>1, <3>1, <3>2
    <3>4. Len(frames') = Len(frames) - 1 /\ frames'[Len(frames) - 1] = frames[Len(frames)]
      <4>1. /\ Len(Tail(frames)) = Len(frames) - 1
            /\ \A i \in 1 .. Len(frames) - 1 : Tail(frames)[i] = frames[i + 1]
        BY <1>1, <2>1, TailOfSeq
      <4>2. Len(frames) - 1 \in 1 .. Len(frames) - 1 /\ Len(frames) - 1 + 1 = Len(frames)
        BY <3>3
      <4> HIDE DEF Targets
      <4> QED
        BY <2>1, <4>1, <4>2
    <3> QED
      BY <3>2, <3>3, <3>4
  <2> QED
    BY <1>1, <1>2, <2>1, <2>2, <2>3, <2>4 DEF Takes
<1>7. CASE UNCHANGED selectVars
  BY <1>1, <1>2, <1>7 DEF selectVars, SelectInv, FocusIsSeen, FocusIsDue
<1> QED
  BY <1>3, <1>4, <1>5, <1>6, <1>7 DEF SelectNext

\* FocusAtRest: once the frames that were asked for have run, the focus is neither on nothing
\* nor in a list that is closed.
THEOREM FocusIsNotLost == SelectSpec => [](frames = << >> => FocusAtRest)
<1>1. SelectInv => (frames = << >> => FocusAtRest)
  BY DEF SelectInv, FocusIsSeen, FocusIsDue, FocusAtRest
<1> QED
  BY <1>1, SelectInitInv, SelectStep, PTL DEF SelectSpec

-----------------------------------------------------------------------------
(* The modules side by side, as the run has them.                           *)

\* What is a step of one module leaves the variables of the others alone.
LEMMA SideBySide ==
  ASSUME [PagesNext]_pagesVars
  PROVE  /\ [FormNext]_formVars /\ [BrowserNext]_browserVars /\ [ToastsNext]_noticeVars
         /\ [ThemeNext]_themeVars /\ [SessionNext]_sessionVars /\ [ComboNext]_comboVars
         /\ [SelectNext]_selectVars
<1>1. CASE OnForm(FormNext)
  BY <1>1 DEF OnForm
<1>2. CASE OnArtifacts(BrowserNext)
  BY <1>2 DEF OnArtifacts
<1>3. CASE OnToasts(ToastsNext)
  BY <1>3 DEF OnToasts
<1>4. CASE OnTheme(ThemeNext)
  BY <1>4 DEF OnTheme
<1>5. CASE OnSession(SessionNext)
  BY <1>5 DEF OnSession
<1>6. CASE OnCombobox(ComboNext)
  BY <1>6 DEF OnCombobox
<1>7. CASE OnSelect(SelectNext)
  BY <1>7 DEF OnSelect
<1>8. CASE UNCHANGED pagesVars
  BY <1>8 DEF pagesVars
<1> QED
  BY <1>1, <1>2, <1>3, <1>4, <1>5, <1>6, <1>7, <1>8 DEF PagesNext

\* PagesTypeOK: the form, the artifacts, the notices, the theme, the sign-in and the two kinds
\* of fields keep their types, from the invariant of each.
THEOREM PagesTypeCorrect == PagesSpec => []PagesTypeOK
<1> DEFINE Inv == /\ FormInv /\ PagesTyped /\ DetailsInv /\ CardsTyped /\ FlagsTyped
                  /\ StackInv /\ ButtonInv /\ ThemeInv /\ SessionInv /\ TabTyped
                  /\ ComboInv /\ SelectInv
<1>1. PagesInit => Inv
  BY FormInvInit, PagesTypedInit, DetailsInit, CardsInit, StackInitInv, ButtonInit, ThemeInitKeeps,
     SessionInitKeeps, TabInit, ComboInitInv, SelectInitInv DEF PagesInit
<1>2. Inv /\ [PagesNext]_pagesVars => Inv'
  BY SideBySide, FormInvStep, PagesStep, DetailsStep, CardsStep, FlagsStep, StackStep, ButtonStep,
     ThemeStep, SessionStep, TabStep, ComboStep, SelectStep
<1>3. Inv => PagesTypeOK
  BY FormTyped, BrowserTyped, NoticesTyped, SessionTyped, SearchFieldTyped
     DEF PagesTypeOK, ThemeInv, SelectInv
<1> QED
  BY <1>1, <1>2, <1>3, PTL DEF PagesSpec

=============================================================================
