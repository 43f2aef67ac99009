------------------------------ MODULE MCPages -------------------------------
(* Instances of the modules of the other pages, and of what every page has, for TLC, side by  *)
(* side in one run: `part` says which of them a behaviour is about, and the variables of the  *)
(* others keep their initial values.                                                          *)
EXTENDS NewDownload, ArtifactBrowser, Toasts, Theme, Session, Combobox, SelectField

VARIABLE part

MCDefaultOf == [A |-> "main", B |-> "trunk"]
MCFiles == {<<"d", "x">>, <<"d", "y">>, <<"z">>}
MCEstimate == [files |-> MCFiles, variants |-> {}, resolved |-> 1, downloadable |-> TRUE,
               free |-> 3, duplicate |-> "none"]
\* A plain download, one of two variants, one the server cannot make, and one there is already,
\* of a later revision with other files.
MCEstimates ==
  {MCEstimate,
   [MCEstimate EXCEPT !.variants = {{<<"d", "x">>, <<"d", "y">>}, {<<"z">>}}, !.free = 2],
   [MCEstimate EXCEPT !.downloadable = FALSE],
   [MCEstimate EXCEPT !.duplicate = "artifact", !.resolved = 2,
                      !.files = {<<"d", "x">>, <<"y">>}]}

MCTyped == {<< >>, <<"a">>, <<"a", "b">>}
MCSuggested == {<< >>, <<<<"a", "b">>, <<"b">>>>, <<<<"b">>, <<"a", "b">>>>, <<<<"a">>, <<"b">>>>}

\* One initial state of each module that is not looked at.
ArtifactsAside == \A a \in Shelved : shelf[a] = NoAlias
ThemeAside     == storage /\ stored = "system" /\ media = "light"
SessionAside   == session /\ publicArtifacts /\ history[1].path = "/tasks"
ComboAside     == text = << >> /\ options = << >>
SelectAside    == chosen = 1

Parts == {"form", "artifacts", "toasts", "theme", "session", "combobox", "select"}

PagesInit ==
  /\ part \in Parts
  /\ FormInit /\ BrowserInit /\ ToastsInit /\ ThemeInit /\ SessionInit /\ ComboInit
  /\ SelectInit
  /\ part # "artifacts" => ArtifactsAside
  /\ part # "theme" => ThemeAside
  /\ part # "session" => SessionAside
  /\ part # "combobox" => ComboAside
  /\ part # "select" => SelectAside

OnForm(action) ==
  part = "form" /\ action
  /\ UNCHANGED <<part, browserVars, noticeVars, themeVars, sessionVars, comboVars, selectVars>>
OnArtifacts(action) ==
  part = "artifacts" /\ action
  /\ UNCHANGED <<part, formVars, noticeVars, themeVars, sessionVars, comboVars, selectVars>>
OnToasts(action) ==
  part = "toasts" /\ action
  /\ UNCHANGED <<part, formVars, browserVars, themeVars, sessionVars, comboVars, selectVars>>
OnTheme(action) ==
  part = "theme" /\ action
  /\ UNCHANGED <<part, formVars, browserVars, noticeVars, sessionVars, comboVars, selectVars>>
OnSession(action) ==
  part = "session" /\ action
  /\ UNCHANGED <<part, formVars, browserVars, noticeVars, themeVars, comboVars, selectVars>>
OnCombobox(action) ==
  part = "combobox" /\ action
  /\ UNCHANGED <<part, formVars, browserVars, noticeVars, themeVars, sessionVars, selectVars>>
OnSelect(action) ==
  part = "select" /\ action
  /\ UNCHANGED <<part, formVars, browserVars, noticeVars, themeVars, sessionVars, comboVars>>

PagesNext ==
  \/ OnForm(FormNext) \/ OnArtifacts(BrowserNext) \/ OnToasts(ToastsNext)
  \/ OnTheme(ThemeNext) \/ OnSession(SessionNext) \/ OnCombobox(ComboNext)
  \/ OnSelect(SelectNext)

pagesVars == <<part, formVars, browserVars, noticeVars, themeVars, sessionVars, comboVars, selectVars>>

\* The fairness of each module, for the behaviours that are about it.
PagesFairness ==
  /\ WF_pagesVars(OnForm(ResetSelection))
  /\ \A k \in Kinds : WF_pagesVars(OnForm(TimerFires(k)))
  /\ WF_pagesVars(OnForm(LookupTimesOut))
  /\ WF_pagesVars(OnArtifacts(LoadCards))     /\ WF_pagesVars(OnArtifacts(CardsReturn))
  /\ WF_pagesVars(OnArtifacts(MoreReturns))   /\ WF_pagesVars(OnArtifacts(DetailReturns))
  /\ WF_pagesVars(OnArtifacts(ScanReturns))
  /\ WF_pagesVars(OnArtifacts(SaveReturns \/ SaveFails))
  /\ WF_pagesVars(OnArtifacts(ArtifactDeleted \/ DeletionFails))
  /\ WF_pagesVars(OnToasts(SyncTimers)) /\ WF_pagesVars(OnToasts(Expire))
  /\ WF_pagesVars(OnToasts(Tick))       /\ WF_pagesVars(OnToasts(Copied))
  /\ WF_pagesVars(OnToasts(CopyShown))
  /\ WF_pagesVars(OnTheme(ListenAnew))  /\ WF_pagesVars(OnTheme(HearOfStorage))
  /\ WF_pagesVars(OnTheme(HearOfSystem))
  /\ WF_pagesVars(OnSession(Bootstrap)) /\ WF_pagesVars(OnSession(Commit))
  /\ WF_pagesVars(OnSession(Redirect))  /\ WF_pagesVars(OnSession(Serve))
  /\ WF_pagesVars(OnSession(Answered))  /\ WF_pagesVars(OnSelect(Frame))

PagesSpec == PagesInit /\ [][PagesNext]_pagesVars /\ PagesFairness

PagesTypeOK ==
  /\ FormTypeOK /\ BrowserTypeOK /\ ToastsTypeOK /\ ThemeTypeOK /\ SessionTypeOK /\ ComboTypeOK
  /\ SelectTypeOK

\* LookupsSettle, BrowserSettles, NoticesClear, ThemesSettle, SessionSettles and
\* FocusSettles, each of the
\* behaviours that are about its page: whatever happened, every page comes to rest, on the
\* outcome the server, the storage or the clock has for it.
PagesSettle ==
  <>[](/\ part = "form" => LookupIsOver
       /\ part = "artifacts" => BrowserAtRest
       /\ part = "toasts" => NoticesOver
       /\ part = "theme" => ThemesAgree
       /\ part = "session" => SessionAtRest
       /\ part = "select" => FocusAtRest)
=============================================================================
