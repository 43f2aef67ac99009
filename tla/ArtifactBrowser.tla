--------------------------- MODULE ArtifactBrowser ---------------------------
(***************************************************************************)
(* The page of the published artifacts and the details of one of them,     *)
(* packages/ui/src/pages/ArtifactsPage.tsx, over the shelf of the server.  *)
(*                                                                         *)
(* The cards are loaded page by page for the filters of the address, and   *)
(* the details for the artifact of the address.  Nothing is polled: what   *)
(* an answer brings stays till another does.  The details are a state of   *)
(* the page and not of a component of their own, so a request that was     *)
(* made for one artifact comes back into the details of the next.          *)
(***************************************************************************)
EXTENDS Lists

CONSTANTS
  Shelved,     \* artifacts, numbered; the list is sorted by number
  CardPage,    \* cards loaded at a time
  MaxTurns,    \* bound on what the user does
  MaxMishaps   \* bound on the requests that fail

ASSUME BrowserAssumption ==
  /\ Shelved \subseteq Nat \ {0} /\ IsFiniteSet(Shelved)
  /\ CardPage \in Nat \ {0} /\ MaxTurns \in Nat /\ MaxMishaps \in Nat

VARIABLES
  shelf,        \* the server: the alias of each artifact, or Gone
  address,      \* artifactId: the artifact in the address, or NoArtifact
  search,       \* the filters of the address
  cards,        \* items
  hasMore, cardsLoading,
  cardsOf,      \* the filters of the last answer that replaced the cards
  cardsMissed,  \* and whether it failed
  cardsTimer, cardsFlights,  \* the list's effect: its timer, and its request with the answer
  moreFlights,  \* requests of loadMore with their answers
  shownArtifact, artifactDetail, detailLoading, detailFlights,
  aliasInput,   \* the field, with the artifact its text is about
  saves,        \* the request of saveAlias; there is one while savingAlias
  storageStats, \* the artifact whose statistics are there
  scans,        \* the request of calculateStorageStats, likewise
  cardDeletes, deletingArtifact,
  turns

cardVars   == <<search, cards, hasMore, cardsLoading, cardsOf, cardsMissed, cardsTimer,
                cardsFlights, moreFlights, cardDeletes, deletingArtifact>>
detailVars2 == <<address, shownArtifact, artifactDetail, detailLoading, detailFlights,
                 aliasInput, saves, storageStats, scans>>
browserVars == <<shelf, cardVars, detailVars2, turns>>

NoArtifact == 0
NoAlias == "no alias"
Gone    == "gone"
Aliases2 == {NoAlias, "alias"}
Searches == {"all", "some"}

Card == [id : Shelved, alias : Aliases2]
NoArtifactDetail == [id |-> NoArtifact]
CardDeletion == [id : Shelved, turn : Nat, busy : BOOLEAN]
CardAnswer == [of : Searches, items : Seq(Card), more : BOOLEAN]

BrowserTypeOK ==
  /\ shelf \in [Shelved -> Aliases2 \cup {Gone}]
  /\ {address, shownArtifact, deletingArtifact, storageStats} \subseteq Shelved \cup {NoArtifact}
  /\ search \in Searches /\ cardsOf \in Searches
  /\ cards \in Seq(Card)
  /\ {hasMore, cardsLoading, cardsMissed, cardsTimer, detailLoading} \subseteq BOOLEAN
  /\ \A x \in cardsFlights \cup moreFlights : x \in CardAnswer
  /\ detailFlights \cup scans \subseteq Shelved /\ cardDeletes \subseteq CardDeletion
  /\ artifactDetail # NoArtifactDetail =>
       artifactDetail \in [id : Shelved, alias : Aliases2, files : Shelved]

-----------------------------------------------------------------------------
(* The server's answers *)

\* The search "some" finds the artifacts with odd numbers.
Found(q) == {a \in Shelved : shelf[a] # Gone /\ (q = "all" \/ a % 2 = 1)}

CardOf(a) == [id |-> a, alias |-> shelf[a]]

\* `hasMore` compares the offset with the total.
CardsFrom(q, offset) ==
  LET n    == Cardinality(Found(q))
      end  == IF n < offset + CardPage THEN n ELSE offset + CardPage
      At(i) == CHOOSE a \in Found(q) : Cardinality({b \in Found(q) : b <= a}) = i
  IN  [of    |-> q,
       items |-> [i \in 1 .. (IF end > offset THEN end - offset ELSE 0) |-> CardOf(At(offset + i))],
       more  |-> end < n]

-----------------------------------------------------------------------------
(* What the page renders *)

\* A bug for comparison: the details that are there are taken for those of the address.
ShownDetailAny == artifactDetail

\* `detail`: the summary belongs to the artifact that is shown.
ShownDetail ==
  IF artifactDetail.id = shownArtifact THEN artifactDetail ELSE NoArtifactDetail

DetailOpen == address # NoArtifact /\ ShownDetail # NoArtifactDetail
IdsOf(list) == {list[i].id : i \in DOMAIN list}
CardIds == IdsOf(cards)

\* A card that goes takes along what its DeleteConfirm remembers of its request; one that
\* comes back has a new confirmation, not busy.
CardsStillBusy(sent, list) ==
  {[d EXCEPT !.busy = d.busy /\ d.id \in IdsOf(list)] : d \in sent}

-----------------------------------------------------------------------------
BrowserInit ==
  /\ shelf \in [Shelved -> Aliases2]
  /\ address = NoArtifact /\ search = "all"
  /\ cards = <<>> /\ hasMore = FALSE /\ cardsLoading = TRUE
  /\ cardsOf = "all" /\ cardsMissed = FALSE
  /\ cardsTimer = TRUE /\ cardsFlights = {} /\ moreFlights = {}
  /\ shownArtifact = NoArtifact /\ artifactDetail = NoArtifactDetail
  /\ detailLoading = FALSE /\ detailFlights = {}
  /\ aliasInput = [text |-> NoAlias, about |-> NoArtifact] /\ saves = {}
  /\ storageStats = NoArtifact /\ scans = {}
  /\ cardDeletes = {} /\ deletingArtifact = NoArtifact
  /\ turns = [user |-> 0, mishaps |-> 0]

SpendTurn(kind, limit) ==
  /\ turns[kind] < limit
  /\ turns' = [turns EXCEPT ![kind] = @ + 1]

Turn   == SpendTurn("user", MaxTurns)
Mishap == SpendTurn("mishaps", MaxMishaps)

\* A bug for comparison: answers for the filters before are taken.
StillActive(requests) == requests

\* `active`: the answer to a request of an effect that was cleaned up is ignored.
NoLongerActive(requests) == {}

\* `finally` of the list's effect and of loadMore.
Done(answered) == cardsLoading' = FALSE

\* updateFilters
ChangeSearch ==
  /\ Turn /\ address = NoArtifact
  /\ search' \in Searches \ {search}
  /\ cardsTimer' = TRUE /\ cardsFlights' = NoLongerActive(cardsFlights)
  /\ UNCHANGED <<shelf, cards, hasMore, cardsLoading, cardsOf, cardsMissed, moreFlights,
                 cardDeletes, deletingArtifact, detailVars2>>

LoadCards ==
  /\ cardsTimer /\ cardsTimer' = FALSE
  /\ cardsLoading' = TRUE
  /\ cardsFlights' = cardsFlights \cup {CardsFrom(search, 0)}
  /\ UNCHANGED <<shelf, search, cards, hasMore, cardsOf, cardsMissed, moreFlights,
                 cardDeletes, deletingArtifact, detailVars2, turns>>

CardsReturn ==
  /\ \E x \in cardsFlights :
       /\ cardsFlights' = cardsFlights \ {x}
       /\ cards' = x.items /\ hasMore' = x.more /\ cardsOf' = x.of
       /\ cardDeletes' = CardsStillBusy(cardDeletes, x.items)
  /\ Done(TRUE) /\ cardsMissed' = FALSE
  /\ UNCHANGED <<shelf, search, cardsTimer, moreFlights, deletingArtifact, detailVars2, turns>>

CardsFail ==
  /\ Mishap
  /\ \E x \in cardsFlights : cardsFlights' = cardsFlights \ {x}
  /\ Done(FALSE) /\ cardsMissed' = TRUE
  /\ UNCHANGED <<shelf, search, cards, hasMore, cardsOf, cardsTimer, moreFlights,
                 cardDeletes, deletingArtifact, detailVars2>>

\* loadMore asks for the filters of the address, although the cards may still be those of
\* the filters before; nothing cleans its request up.
LoadMore ==
  /\ Turn /\ address = NoArtifact /\ hasMore /\ ~cardsLoading
  /\ cardsLoading' = TRUE
  /\ moreFlights' = moreFlights \cup {CardsFrom(search, Len(cards))}
  /\ UNCHANGED <<shelf, search, cards, hasMore, cardsOf, cardsMissed, cardsTimer, cardsFlights,
                 cardDeletes, deletingArtifact, detailVars2>>

MoreReturns ==
  /\ \E x \in moreFlights :
       /\ moreFlights' = moreFlights \ {x}
       /\ cards' = cards \o x.items /\ hasMore' = x.more
  /\ Done(TRUE)
  /\ UNCHANGED <<shelf, search, cardsOf, cardsMissed, cardsTimer, cardsFlights,
                 cardDeletes, deletingArtifact, detailVars2, turns>>

MoreFails ==
  /\ Mishap
  /\ \E x \in moreFlights : moreFlights' = moreFlights \ {x}
  /\ Done(FALSE)
  /\ UNCHANGED <<shelf, search, cards, hasMore, cardsOf, cardsMissed, cardsTimer, cardsFlights,
                 cardDeletes, deletingArtifact, detailVars2>>

-----------------------------------------------------------------------------
(* The details *)

\* The address names an artifact: by a card, or back and forward.
OpenArtifact ==
  /\ Turn
  /\ \E a \in Shelved \ {address} :
       /\ address' = a /\ shownArtifact' = a
       /\ detailFlights' = NoLongerActive(detailFlights) \cup {a}
  /\ artifactDetail' = NoArtifactDetail /\ detailLoading' = TRUE
  /\ storageStats' = NoArtifact
  /\ UNCHANGED <<shelf, cardVars, aliasInput, saves, scans>>

\* What is shown stays while the modal folds, and after.
CloseArtifact ==
  /\ address # NoArtifact /\ address' = NoArtifact
  /\ detailFlights' = NoLongerActive(detailFlights)
  /\ UNCHANGED <<shelf, cardVars, shownArtifact, artifactDetail, detailLoading, aliasInput,
                 saves, storageStats, scans, turns>>

\* A bug for comparison: the field for the alias keeps what was typed.
FilledInNot(card) == UNCHANGED aliasInput

\* setAliasInput
FilledIn(card) == aliasInput' = [text |-> card.alias, about |-> card.id]

DetailReturns ==
  /\ \E a \in detailFlights :
       /\ detailFlights' = detailFlights \ {a}
       /\ IF shelf[a] = Gone THEN UNCHANGED <<artifactDetail, aliasInput>>
          ELSE /\ artifactDetail' = [id |-> a, alias |-> shelf[a], files |-> a]
               /\ FilledIn(CardOf(a))
  /\ detailLoading' = FALSE
  /\ UNCHANGED <<shelf, cardVars, address, shownArtifact, saves, storageStats, scans, turns>>

DetailFails ==
  /\ Mishap
  /\ \E a \in detailFlights : detailFlights' = detailFlights \ {a}
  /\ detailLoading' = FALSE
  /\ UNCHANGED <<shelf, cardVars, address, shownArtifact, artifactDetail, aliasInput, saves,
                 storageStats, scans>>

TypeAlias ==
  /\ Turn /\ DetailOpen
  /\ \E t \in Aliases2 \ {aliasInput.text} :
       aliasInput' = [text |-> t, about |-> shownArtifact]
  /\ UNCHANGED <<shelf, cardVars, address, shownArtifact, artifactDetail, detailLoading,
                 detailFlights, saves, storageStats, scans>>

SaveAlias ==
  /\ Turn /\ DetailOpen /\ saves = {} /\ aliasInput.text # ShownDetail.alias
  /\ saves' = {[id |-> artifactDetail.id, alias |-> aliasInput.text, about |-> aliasInput.about]}
  /\ UNCHANGED <<shelf, cardVars, address, shownArtifact, artifactDetail, detailLoading,
                 detailFlights, aliasInput, storageStats, scans>>

\* The summary of the answer replaces the one that is there, whoever it is about.
SaveReturns ==
  /\ \E s \in saves :
       /\ shelf[s.id] # Gone
       /\ shelf' = [shelf EXCEPT ![s.id] = s.alias]
       /\ artifactDetail' = IF artifactDetail = NoArtifactDetail THEN NoArtifactDetail
                            ELSE [artifactDetail EXCEPT !.id = s.id, !.alias = s.alias]
       /\ cards' = [i \in DOMAIN cards |->
                      IF cards[i].id = s.id THEN [cards[i] EXCEPT !.alias = s.alias]
                                            ELSE cards[i]]
       /\ FilledIn([id |-> s.id, alias |-> s.alias])
  /\ saves' = {}
  /\ UNCHANGED <<search, hasMore, cardsLoading, cardsOf, cardsMissed, cardsTimer, cardsFlights,
                 moreFlights, cardDeletes, deletingArtifact, address, shownArtifact,
                 detailLoading, detailFlights, storageStats, scans, turns>>

\* The alias is taken, the artifact is gone, or the request is lost.
SaveFails ==
  /\ Mishap \/ ((\E s \in saves : shelf[s.id] = Gone) /\ UNCHANGED turns)
  /\ saves # {} /\ saves' = {}
  /\ UNCHANGED <<shelf, cardVars, address, shownArtifact, artifactDetail, detailLoading,
                 detailFlights, aliasInput, storageStats, scans>>

CalculateStorageStats ==
  /\ Turn /\ DetailOpen /\ scans = {}
  /\ scans' = {artifactDetail.id}
  /\ UNCHANGED <<shelf, cardVars, address, shownArtifact, artifactDetail, detailLoading,
                 detailFlights, aliasInput, saves, storageStats>>

\* The statistics are set for whatever is shown by now; a failure leaves those that are there.
ScanReturns ==
  /\ scans # {} /\ scans' = {}
  /\ \/ \E a \in scans : shelf[a] # Gone /\ storageStats' = a
     \/ UNCHANGED storageStats
  /\ UNCHANGED <<shelf, cardVars, address, shownArtifact, artifactDetail, detailLoading,
                 detailFlights, aliasInput, saves, turns>>

-----------------------------------------------------------------------------
(* Deletion, from a card *)

\* The trigger of a card is disabled for deletingArtifactId only, and while its own request
\* is out.
DeleteArtifact ==
  /\ Turn /\ address = NoArtifact
  /\ \E a \in CardIds \ {deletingArtifact} :
       /\ ~\E d \in cardDeletes : d.id = a /\ d.busy
       /\ deletingArtifact' = a
       /\ cardDeletes' = cardDeletes \cup {[id |-> a, turn |-> turns.user, busy |-> TRUE]}
  /\ UNCHANGED <<shelf, search, cards, hasMore, cardsLoading, cardsOf, cardsMissed, cardsTimer,
                 cardsFlights, moreFlights, detailVars2>>

ArtifactDeleted ==
  /\ \E d \in cardDeletes :
       /\ shelf[d.id] # Gone /\ shelf' = [shelf EXCEPT ![d.id] = Gone]
       /\ cards' = Only(cards, {c \in Range(cards) : c.id # d.id})
       /\ cardDeletes' = CardsStillBusy(cardDeletes \ {d}, cards')
  /\ deletingArtifact' = NoArtifact
  /\ UNCHANGED <<search, hasMore, cardsLoading, cardsOf, cardsMissed, cardsTimer, cardsFlights,
                 moreFlights, detailVars2, turns>>

DeletionFails ==
  /\ \E d \in cardDeletes :
       /\ Mishap \/ (shelf[d.id] = Gone /\ UNCHANGED turns)
       /\ cardDeletes' = cardDeletes \ {d}
  /\ deletingArtifact' = NoArtifact
  /\ UNCHANGED <<shelf, search, cards, hasMore, cardsLoading, cardsOf, cardsMissed, cardsTimer,
                 cardsFlights, moreFlights, detailVars2>>

BrowserNext ==
  \/ ChangeSearch \/ LoadCards \/ CardsReturn \/ CardsFail
  \/ LoadMore \/ MoreReturns \/ MoreFails
  \/ OpenArtifact \/ CloseArtifact \/ DetailReturns \/ DetailFails
  \/ TypeAlias \/ SaveAlias \/ SaveReturns \/ SaveFails
  \/ CalculateStorageStats \/ ScanReturns
  \/ DeleteArtifact \/ ArtifactDeleted \/ DeletionFails

\* The timer fires and every request is answered or fails.
BrowserFairness ==
  /\ WF_browserVars(LoadCards) /\ WF_browserVars(CardsReturn) /\ WF_browserVars(MoreReturns)
  /\ WF_browserVars(DetailReturns) /\ WF_browserVars(SaveReturns \/ SaveFails)
  /\ WF_browserVars(ScanReturns) /\ WF_browserVars(ArtifactDeleted \/ DeletionFails)

BrowserSpec == BrowserInit /\ [][BrowserNext]_browserVars /\ BrowserFairness

-----------------------------------------------------------------------------
(* Properties *)

\* Once the first page for the filters now chosen is there, no first page for other filters
\* takes its place.  (loadMore is not so careful: it can append cards of other filters.)
CardsMatchSearch == cardsTimer \/ cardsFlights # {} \/ cardsMissed \/ cardsOf = search

\* The details that are shown are of one artifact, the one of the address: its summary is
\* never beside the files of another, although the answer to an alias that was saved for one
\* artifact is merged into the details of the next.
DetailIsOfOneArtifact ==
  DetailOpen => ShownDetail.id = address /\ ShownDetail.files = address

\* An alias is saved for the artifact it was typed for: the field outlives the details it
\* was typed in, and an answer for one artifact fills it while another is shown.
AliasGoesWhereTyped == \A s \in saves : s.id = s.about

\* No page, no details and no button is left waiting, whichever of the requests fail or come
\* back after the page has moved on.
BrowserAtRest ==
  /\ ~cardsLoading /\ ~cardsTimer /\ (address # NoArtifact => ~detailLoading)
  /\ saves = {} /\ scans = {} /\ deletingArtifact = NoArtifact

BrowserSettles == <>[]BrowserAtRest

\* "Allocated blocks referenced by this artifact": the disk usage that is shown is that of
\* the artifact whose details it is shown in.
StatsAreOfShown == (DetailOpen /\ storageStats # NoArtifact) => storageStats = address
=============================================================================
