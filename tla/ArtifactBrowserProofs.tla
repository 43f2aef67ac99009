------------------------ MODULE ArtifactBrowserProofs ------------------------
(***************************************************************************)
(* Proofs about the page of the artifacts, for any shelf, any size of a    *)
(* page, and any number of turns of the user and of requests that fail.    *)
(***************************************************************************)
EXTENDS ArtifactBrowser, ListProofs

-----------------------------------------------------------------------------
(* The list *)

\* The requests of the list's effect that are still listened to are for the filters now
\* chosen: a change of the filters cleans them up in the same commit.
FlightsAreOfSearch == \A x \in cardsFlights : x.of = search
ListInv == FlightsAreOfSearch /\ CardsMatchSearch

LEMMA CardsFromOf == ASSUME NEW q, NEW offset PROVE CardsFrom(q, offset).of = q
BY DEF CardsFrom

\* A step that leaves the filters, the effect and what it has loaded alone.
LEMMA ListElsewhere ==
  ASSUME ListInv, UNCHANGED <<search, cardsOf, cardsMissed, cardsTimer, cardsFlights>>
  PROVE  ListInv'
BY DEF ListInv, FlightsAreOfSearch, CardsMatchSearch

LEMMA ListInit == BrowserInit => ListInv
BY DEF BrowserInit, ListInv, FlightsAreOfSearch, CardsMatchSearch

LEMMA ListStep == ListInv /\ [BrowserNext]_browserVars => ListInv'
<1> SUFFICES ASSUME ListInv, [BrowserNext]_browserVars PROVE ListInv'
  OBVIOUS
<1>1. CASE ChangeSearch
  BY <1>1 DEF ChangeSearch, NoLongerActive, ListInv, FlightsAreOfSearch, CardsMatchSearch
<1>2. CASE LoadCards
  <2>1. cardsFlights' = cardsFlights \cup {CardsFrom(search, 0)} /\ search' = search
    BY <1>2 DEF LoadCards
  <2>2. FlightsAreOfSearch'
    BY <2>1, CardsFromOf DEF ListInv, FlightsAreOfSearch
  <2> QED
    BY <2>1, <2>2 DEF ListInv, CardsMatchSearch
<1>3. CASE CardsReturn
  <2>1. PICK x \in cardsFlights : cardsFlights' = cardsFlights \ {x} /\ cardsOf' = x.of
    BY <1>3 DEF CardsReturn
  <2>2. search' = search
    BY <1>3 DEF CardsReturn
  <2> QED
    BY <2>1, <2>2 DEF ListInv, FlightsAreOfSearch, CardsMatchSearch
<1>4. CASE CardsFail
  <2>1. cardsMissed' /\ search' = search /\ cardsFlights' \subseteq cardsFlights
    BY <1>4 DEF CardsFail
  <2> QED
    BY <2>1 DEF ListInv, FlightsAreOfSearch, CardsMatchSearch
<1>5. CASE LoadMore \/ MoreReturns \/ MoreFails
  BY <1>5, ListElsewhere DEF LoadMore, MoreReturns, MoreFails
<1>6. CASE OpenArtifact \/ CloseArtifact \/ DetailReturns \/ DetailFails \/ TypeAlias
           \/ SaveAlias \/ SaveReturns \/ SaveFails \/ CalculateStorageStats \/ ScanReturns
  BY <1>6, ListElsewhere
     DEF cardVars, OpenArtifact, CloseArtifact, DetailReturns, DetailFails, TypeAlias,
         SaveAlias, SaveReturns, SaveFails, CalculateStorageStats, ScanReturns
<1>7. CASE DeleteArtifact \/ ArtifactDeleted \/ DeletionFails
  BY <1>7, ListElsewhere DEF DeleteArtifact, ArtifactDeleted, DeletionFails
<1>8. CASE UNCHANGED browserVars
  BY <1>8, ListElsewhere DEF browserVars, cardVars
<1> QED
  BY <1>1, <1>2, <1>3, <1>4, <1>5, <1>6, <1>7, <1>8 DEF BrowserNext

\* Once the first page for the filters now chosen is there, none for other filters replaces it.
THEOREM FirstPageIsOfSearch == BrowserSpec => []CardsMatchSearch
<1>1. ListInv => CardsMatchSearch
  BY DEF ListInv
<1> QED
  BY <1>1, ListInit, ListStep, PTL DEF BrowserSpec

-----------------------------------------------------------------------------
(* The details *)

ArtifactDetails == [id : Shelved, alias : Aliases2, files : Shelved]

DetailsTyped ==
  /\ shelf \in [Shelved -> Aliases2 \cup {Gone}]
  /\ address \in Shelved \cup {NoArtifact}
  /\ shownArtifact \in Shelved \cup {NoArtifact}
  /\ artifactDetail \in ArtifactDetails \cup {NoArtifactDetail}
  /\ detailFlights \subseteq Shelved
  /\ aliasInput.text \in Aliases2
  /\ saves \subseteq [id : Shelved, alias : Aliases2, about : Shelved \cup {NoArtifact}]

\* The request for the details that is listened to is for the artifact that is shown, and so
\* are the files that are there; an address is that of the artifact that is shown.
FilesAreOfShown ==
  /\ \A a \in detailFlights : a = shownArtifact
  /\ artifactDetail # NoArtifactDetail => artifactDetail.files = shownArtifact
  /\ address # NoArtifact => address = shownArtifact

\* The text of the field was typed, or filled in, for the artifact of the summary, whichever
\* artifact that is about.
InputIsOfSummary ==
  artifactDetail # NoArtifactDetail => aliasInput.about = artifactDetail.id

DetailsInv == DetailsTyped /\ FilesAreOfShown /\ InputIsOfSummary /\ AliasGoesWhereTyped

\* The record of no artifact is not one of an artifact.
LEMMA NoDetailIsNone ==
  ASSUME NEW d \in ArtifactDetails
  PROVE  d # NoArtifactDetail
<1>1. d.id \in Shelved /\ NoArtifact \notin Shelved
  BY BrowserAssumption DEF ArtifactDetails, NoArtifact
<1> QED
  BY <1>1 DEF NoArtifactDetail

LEMMA DetailsElsewhere ==
  ASSUME DetailsInv, UNCHANGED <<shelf, address, shownArtifact, artifactDetail, detailFlights,
                                 aliasInput, saves>>
  PROVE  DetailsInv'
BY DEF DetailsInv, DetailsTyped, FilesAreOfShown, InputIsOfSummary, AliasGoesWhereTyped

LEMMA DetailsInit == BrowserInit => DetailsInv
BY DEF BrowserInit, DetailsInv, DetailsTyped, FilesAreOfShown, InputIsOfSummary,
       AliasGoesWhereTyped, Aliases2

LEMMA OpenIsOfShown ==
  ASSUME DetailsInv, DetailOpen
  PROVE  /\ artifactDetail \in ArtifactDetails /\ ShownDetail = artifactDetail
         /\ artifactDetail.id = shownArtifact /\ shownArtifact = address
         /\ shownArtifact \in Shelved /\ artifactDetail.files = address
         /\ aliasInput.about = artifactDetail.id
BY DEF DetailsInv, DetailsTyped, FilesAreOfShown, InputIsOfSummary, DetailOpen, ShownDetail,
       ArtifactDetails

LEMMA OpenKeeps == DetailsInv /\ OpenArtifact => DetailsInv'
<1> SUFFICES ASSUME DetailsInv, OpenArtifact PROVE DetailsInv'
  OBVIOUS
<1>1. PICK a \in Shelved : /\ address' = a /\ shownArtifact' = a
                           /\ detailFlights' = NoLongerActive(detailFlights) \cup {a}
  BY DEF OpenArtifact
<1>2. detailFlights' = {a}
  BY <1>1 DEF NoLongerActive
<1> QED
  BY <1>1, <1>2 DEF OpenArtifact, DetailsInv, DetailsTyped, FilesAreOfShown, InputIsOfSummary,
                    AliasGoesWhereTyped

LEMMA ReturnKeeps == DetailsInv /\ DetailReturns => DetailsInv'
<1> SUFFICES ASSUME DetailsInv, DetailReturns PROVE DetailsInv'
  OBVIOUS
<1>1. PICK a \in detailFlights :
        /\ detailFlights' = detailFlights \ {a}
        /\ IF shelf[a] = Gone THEN UNCHANGED <<artifactDetail, aliasInput>>
           ELSE /\ artifactDetail' = [id |-> a, alias |-> shelf[a], files |-> a]
                /\ FilledIn(CardOf(a))
  BY DEF DetailReturns
<1>2. UNCHANGED <<shelf, address, shownArtifact, saves>>
  BY DEF DetailReturns
<1>3. a \in Shelved /\ a = shownArtifact /\ shelf[a] \in Aliases2 \cup {Gone}
  BY DEF DetailsInv, DetailsTyped, FilesAreOfShown
<1>4. CASE shelf[a] = Gone
  BY <1>1, <1>2, <1>4 DEF DetailsInv, DetailsTyped, FilesAreOfShown, InputIsOfSummary,
                          AliasGoesWhereTyped
<1>5. CASE shelf[a] # Gone
  <2>1. aliasInput' = [text |-> shelf[a], about |-> a]
    BY <1>1, <1>5 DEF FilledIn, CardOf
  <2>2. artifactDetail' = [id |-> a, alias |-> shelf[a], files |-> a]
    BY <1>1, <1>5
  <2>3. artifactDetail' \in ArtifactDetails /\ aliasInput'.text \in Aliases2
    BY <1>3, <1>5, <2>1, <2>2 DEF ArtifactDetails
  <2>4. artifactDetail'.files = shownArtifact' /\ aliasInput'.about = artifactDetail'.id
    BY <1>2, <1>3, <2>1, <2>2
  <2> QED
    BY <1>1, <1>2, <2>3, <2>4 DEF DetailsInv, DetailsTyped, FilesAreOfShown, InputIsOfSummary,
                                  AliasGoesWhereTyped
<1> QED
  BY <1>4, <1>5

LEMMA TypeKeeps == DetailsInv /\ TypeAlias => DetailsInv'
<1> SUFFICES ASSUME DetailsInv, TypeAlias PROVE DetailsInv'
  OBVIOUS
<1>1. PICK t \in Aliases2 : aliasInput' = [text |-> t, about |-> shownArtifact]
  BY DEF TypeAlias
<1>2. artifactDetail.id = shownArtifact
  BY OpenIsOfShown DEF TypeAlias
<1> QED
  BY <1>1, <1>2 DEF TypeAlias, DetailsInv, DetailsTyped, FilesAreOfShown, InputIsOfSummary,
                    AliasGoesWhereTyped

LEMMA SaveKeeps == DetailsInv /\ SaveAlias => DetailsInv'
<1> SUFFICES ASSUME DetailsInv, SaveAlias PROVE DetailsInv'
  OBVIOUS
<1>1. artifactDetail.id \in Shelved /\ aliasInput.about = artifactDetail.id
  BY OpenIsOfShown DEF SaveAlias
<1> DEFINE s == [id |-> artifactDetail.id, alias |-> aliasInput.text, about |-> aliasInput.about]
<1>2. saves' = {s}
  BY DEF SaveAlias
<1>3. /\ s \in [id : Shelved, alias : Aliases2, about : Shelved \cup {NoArtifact}]
      /\ s.id = s.about
  BY <1>1 DEF DetailsInv, DetailsTyped
<1> HIDE DEF s
<1> QED
  BY <1>2, <1>3 DEF SaveAlias, DetailsInv, DetailsTyped, FilesAreOfShown, InputIsOfSummary,
                    AliasGoesWhereTyped

\* The answer to an alias changes the summary and the field alike, and no files.
LEMMA SavedKeeps == DetailsInv /\ SaveReturns => DetailsInv'
<1> SUFFICES ASSUME DetailsInv, SaveReturns PROVE DetailsInv'
  OBVIOUS
<1>1. PICK s \in saves :
        /\ shelf' = [shelf EXCEPT ![s.id] = s.alias]
        /\ artifactDetail' = IF artifactDetail = NoArtifactDetail THEN NoArtifactDetail
                             ELSE [artifactDetail EXCEPT !.id = s.id, !.alias = s.alias]
        /\ FilledIn([id |-> s.id, alias |-> s.alias])
  BY DEF SaveReturns
<1>2. saves' = {} /\ UNCHANGED <<address, shownArtifact, detailFlights>>
  BY DEF SaveReturns
<1>3. s.id \in Shelved /\ s.alias \in Aliases2
  BY DEF DetailsInv, DetailsTyped
<1>4. aliasInput' = [text |-> s.alias, about |-> s.id]
  BY <1>1 DEF FilledIn
<1>5. shelf' \in [Shelved -> Aliases2 \cup {Gone}]
  BY <1>1, <1>3 DEF DetailsInv, DetailsTyped
<1>6. CASE artifactDetail = NoArtifactDetail
  <2>1. artifactDetail' = NoArtifactDetail
    BY <1>1, <1>6
  <2> QED
    BY <1>2, <1>3, <1>4, <1>5, <2>1 DEF DetailsInv, DetailsTyped, FilesAreOfShown,
                                        InputIsOfSummary, AliasGoesWhereTyped
<1>7. CASE artifactDetail # NoArtifactDetail
  <2>1. artifactDetail \in ArtifactDetails
    BY <1>7 DEF DetailsInv, DetailsTyped
  <2>2. artifactDetail' = [artifactDetail EXCEPT !.id = s.id, !.alias = s.alias]
    BY <1>1, <1>7
  <2>3. /\ artifactDetail' \in ArtifactDetails
        /\ artifactDetail'.id = s.id /\ artifactDetail'.files = artifactDetail.files
    BY <1>3, <2>1, <2>2 DEF ArtifactDetails
  <2> QED
    BY <1>2, <1>3, <1>4, <1>5, <1>7, <2>3 DEF DetailsInv, DetailsTyped, FilesAreOfShown,
                                              InputIsOfSummary, AliasGoesWhereTyped
<1> QED
  BY <1>6, <1>7

LEMMA DetailsStep == DetailsInv /\ [BrowserNext]_browserVars => DetailsInv'
<1> SUFFICES ASSUME DetailsInv, [BrowserNext]_browserVars PROVE DetailsInv'
  OBVIOUS
<1>1. CASE ChangeSearch \/ LoadCards \/ CardsReturn \/ CardsFail \/ LoadMore \/ MoreReturns
           \/ MoreFails \/ DeleteArtifact
  BY <1>1, DetailsElsewhere DEF detailVars2, ChangeSearch, LoadCards, CardsReturn, CardsFail,
                                LoadMore, MoreReturns, MoreFails, DeleteArtifact
<1>2. CASE DeletionFails \/ CalculateStorageStats \/ ScanReturns
  BY <1>2, DetailsElsewhere DEF detailVars2, DeletionFails, CalculateStorageStats, ScanReturns
<1>3. CASE ArtifactDeleted
  <2>1. PICK d \in cardDeletes : shelf' = [shelf EXCEPT ![d.id] = Gone]
    BY <1>3 DEF ArtifactDeleted
  <2>2. UNCHANGED detailVars2
    BY <1>3 DEF ArtifactDeleted
  <2> QED
    BY <2>1, <2>2 DEF detailVars2, DetailsInv, DetailsTyped, FilesAreOfShown,
                      InputIsOfSummary, AliasGoesWhereTyped
<1>4. CASE CloseArtifact \/ DetailFails
  <2>1. /\ detailFlights' \subseteq detailFlights
        /\ address' = address \/ address' = NoArtifact
        /\ UNCHANGED <<shelf, shownArtifact, artifactDetail, aliasInput, saves>>
    BY <1>4 DEF CloseArtifact, DetailFails, NoLongerActive
  <2> QED
    BY <2>1 DEF DetailsInv, DetailsTyped, FilesAreOfShown, InputIsOfSummary,
                AliasGoesWhereTyped
<1>5. CASE SaveFails
  <2>1. saves' = {} /\ UNCHANGED <<shelf, address, shownArtifact, artifactDetail,
                                   detailFlights, aliasInput>>
    BY <1>5 DEF SaveFails
  <2> QED
    BY <2>1 DEF DetailsInv, DetailsTyped, FilesAreOfShown, InputIsOfSummary,
                AliasGoesWhereTyped
<1>6. CASE UNCHANGED browserVars
  BY <1>6, DetailsElsewhere DEF browserVars, detailVars2
<1> QED
  BY <1>1, <1>2, <1>3, <1>4, <1>5, <1>6, OpenKeeps, ReturnKeeps, TypeKeeps, SaveKeeps,
     SavedKeeps DEF BrowserNext

\* Summary and files that are shown are of the artifact of the address, although the answer to
\* an alias is merged into whatever details are there.
THEOREM DetailsAreOfOne == BrowserSpec => []DetailIsOfOneArtifact
<1>1. DetailsInv => DetailIsOfOneArtifact
  BY OpenIsOfShown DEF DetailIsOfOneArtifact
<1> QED
  BY <1>1, DetailsInit, DetailsStep, PTL DEF BrowserSpec

\* An alias is saved for the artifact it was typed for.
THEOREM AliasIsForItsArtifact == BrowserSpec => []AliasGoesWhereTyped
<1>1. DetailsInv => AliasGoesWhereTyped
  BY DEF DetailsInv
<1> QED
  BY <1>1, DetailsInit, DetailsStep, PTL DEF BrowserSpec

-----------------------------------------------------------------------------
(* Types of the list, and of what is asked about an artifact.               *)

CardsTyped ==
  /\ search \in Searches /\ cardsOf \in Searches
  /\ cards \in Seq(Card)
  /\ cardsFlights \subseteq CardAnswer /\ moreFlights \subseteq CardAnswer
  /\ cardDeletes \subseteq CardDeletion /\ deletingArtifact \in Shelved \cup {NoArtifact}
  /\ storageStats \in Shelved \cup {NoArtifact} /\ scans \subseteq Shelved

TurnsTyped == turns \in [{"user", "mishaps"} -> Nat]

FlagsTyped ==
  /\ TurnsTyped
  /\ hasMore \in BOOLEAN /\ cardsLoading \in BOOLEAN /\ cardsMissed \in BOOLEAN
  /\ cardsTimer \in BOOLEAN /\ detailLoading \in BOOLEAN

\* The answer of the server has cards, from any offset: a page ends with the last artifact.
LEMMA AnswerTyped ==
  ASSUME shelf \in [Shelved -> Aliases2 \cup {Gone}], NEW q \in Searches, NEW offset \in Nat
  PROVE  CardsFrom(q, offset) \in CardAnswer
<1> DEFINE n     == Cardinality(Found(q))
           end   == IF n < offset + CardPage THEN n ELSE offset + CardPage
           count == IF end > offset THEN end - offset ELSE 0
           at(i) == CHOOSE a \in Found(q) : Cardinality({b \in Found(q) : b <= a}) = i
           list  == [i \in 1 .. count |-> CardOf(at(offset + i))]
<1>1. Found(q) \in SUBSET Shelved /\ IsFiniteSet(Shelved) /\ Shelved \subseteq Int
  BY BrowserAssumption DEF Found
<1>2. IsFiniteSet(Found(q)) /\ Found(q) \subseteq Int
  BY <1>1, FS_Subset
<1>3. n \in Nat /\ \A i \in 1 .. n : Nth(Found(q), i) \in Found(q)
  BY <1>2, NthIsThere
<1>4. \A i : at(i) = Nth(Found(q), i)
  BY DEF Nth, UpTo
<1>5. \A a \in Found(q) : CardOf(a) \in Card
  BY DEF Found, CardOf, Card
<1>6. CardPage \in Nat
  BY BrowserAssumption
<1>7. CardsFrom(q, offset) = [of |-> q, items |-> list, more |-> end < n]
  BY DEF CardsFrom
<1>8. count \in Nat /\ \A i \in 1 .. count : offset + i \in 1 .. n
  BY <1>3, <1>6
<1> HIDE DEF n, end, count
<1>9. \A i \in 1 .. count : CardOf(at(offset + i)) \in Card
  <2> TAKE i \in 1 .. count
  <2>1. offset + i \in 1 .. n
    BY <1>8
  <2>2. at(offset + i) \in Found(q)
    BY <1>3, <1>4, <2>1
  <2> QED
    BY <1>5, <2>2
<1> HIDE DEF at
<1>10. list \in Seq(Card)
  BY <1>8, <1>9
<1> HIDE DEF list
<1> QED
  BY <1>7, <1>10 DEF CardAnswer

LEMMA CardsInit == BrowserInit => CardsTyped /\ FlagsTyped
<1> SUFFICES ASSUME BrowserInit PROVE CardsTyped /\ FlagsTyped
  OBVIOUS
<1>1. cards \in Seq(Card)
  BY DEF BrowserInit
<1>2. TurnsTyped
  BY DEF BrowserInit, TurnsTyped
<1> QED
  BY <1>1, <1>2 DEF BrowserInit, CardsTyped, FlagsTyped, Searches

LEMMA CardsElsewhere ==
  ASSUME CardsTyped, UNCHANGED <<search, cardsOf, cards, cardsFlights, moreFlights, cardDeletes,
                                 deletingArtifact, storageStats, scans>>
  PROVE  CardsTyped'
BY DEF CardsTyped

\* A new alias for an artifact leaves the cards cards.
LEMMA CardsRenamed ==
  ASSUME cards \in Seq(Card), NEW id \in Shelved, NEW alias \in Aliases2
  PROVE  [i \in DOMAIN cards |-> IF cards[i].id = id THEN [cards[i] EXCEPT !.alias = alias]
                                                     ELSE cards[i]] \in Seq(Card)
<1> DEFINE new(i) == IF cards[i].id = id THEN [cards[i] EXCEPT !.alias = alias] ELSE cards[i]
<1>1. Len(cards) \in Nat /\ DOMAIN cards = 1 .. Len(cards)
      /\ \A i \in 1 .. Len(cards) : cards[i] \in Card
  OBVIOUS
<1>2. \A i \in 1 .. Len(cards) : new(i) \in Card
  BY <1>1 DEF Card
<1> HIDE DEF new
<1>3. [i \in 1 .. Len(cards) |-> new(i)] \in Seq(Card)
  BY <1>1, <1>2
<1> QED
  BY <1>1, <1>3 DEF new

\* Requests whose cards go are still requests.
LEMMA CardsBusy ==
  ASSUME NEW sent \in SUBSET CardDeletion, NEW list
  PROVE  CardsStillBusy(sent, list) \subseteq CardDeletion
<1> SUFFICES ASSUME NEW d \in sent
             PROVE  [d EXCEPT !.busy = d.busy /\ d.id \in IdsOf(list)] \in CardDeletion
  BY DEF CardsStillBusy
<1>1. (d.busy /\ d.id \in IdsOf(list)) \in BOOLEAN
  OBVIOUS
<1> QED
  BY <1>1 DEF CardDeletion

LEMMA CardsStep ==
  ASSUME DetailsInv, CardsTyped, FlagsTyped, [BrowserNext]_browserVars PROVE CardsTyped'
<1> USE DEF CardsTyped
<1>1. CASE ChangeSearch
  BY <1>1 DEF ChangeSearch, NoLongerActive, detailVars2
<1>2. CASE LoadCards
  <2>1. CardsFrom(search, 0) \in CardAnswer
    BY AnswerTyped DEF DetailsInv, DetailsTyped
  <2> QED
    BY <1>2, <2>1 DEF LoadCards, detailVars2
<1>3. CASE CardsReturn
  <2>1. PICK x \in cardsFlights : /\ cardsFlights' = cardsFlights \ {x}
                                  /\ cards' = x.items /\ cardsOf' = x.of
                                  /\ cardDeletes' = CardsStillBusy(cardDeletes, x.items)
    BY <1>3 DEF CardsReturn
  <2>2. x.items \in Seq(Card) /\ x.of \in Searches
    BY DEF CardAnswer
  <2> QED
    BY <1>3, <2>1, <2>2, CardsBusy DEF CardsReturn, detailVars2
<1>4. CASE CardsFail \/ MoreFails
  BY <1>4 DEF CardsFail, MoreFails, detailVars2
<1>5. CASE LoadMore
  <2>1. CardsFrom(search, Len(cards)) \in CardAnswer
    BY AnswerTyped DEF DetailsInv, DetailsTyped
  <2> QED
    BY <1>5, <2>1 DEF LoadMore, detailVars2
<1>6. CASE MoreReturns
  <2>1. PICK x \in moreFlights : /\ moreFlights' = moreFlights \ {x}
                                 /\ cards' = cards \o x.items
    BY <1>6 DEF MoreReturns
  <2>2. cards \o x.items \in Seq(Card)
    BY DEF CardAnswer
  <2> QED
    BY <1>6, <2>1, <2>2 DEF MoreReturns, detailVars2
<1>7. CASE OpenArtifact
  BY <1>7 DEF OpenArtifact, cardVars
<1>8. CASE CloseArtifact \/ DetailReturns \/ DetailFails \/ TypeAlias \/ SaveAlias \/ SaveFails
  BY <1>8, CardsElsewhere
     DEF CloseArtifact, DetailReturns, DetailFails, TypeAlias, SaveAlias, SaveFails, cardVars
<1>9. CASE SaveReturns
  <2>1. PICK s \in saves :
          cards' = [i \in DOMAIN cards |->
                      IF cards[i].id = s.id THEN [cards[i] EXCEPT !.alias = s.alias]
                                            ELSE cards[i]]
    BY <1>9 DEF SaveReturns
  <2>2. s.id \in Shelved /\ s.alias \in Aliases2
    BY DEF DetailsInv, DetailsTyped
  <2>3. cards' \in Seq(Card)
    BY <2>1, <2>2, CardsRenamed
  <2> QED
    BY <1>9, <2>3 DEF SaveReturns
<1>10. CASE CalculateStorageStats
  <2>1. artifactDetail.id \in Shelved
    BY <1>10, OpenIsOfShown DEF CalculateStorageStats
  <2> QED
    BY <1>10, <2>1 DEF CalculateStorageStats, cardVars
<1>11. CASE ScanReturns
  <2>1. storageStats' \in Shelved \cup {NoArtifact} /\ scans' = {}
    BY <1>11 DEF ScanReturns
  <2> QED
    BY <1>11, <2>1 DEF ScanReturns, cardVars
<1>12. CASE DeleteArtifact
  <2>1. CardIds \subseteq Shelved
    <3>1. \A i \in DOMAIN cards : cards[i] \in Card
      BY LenProperties, ElementOfSeq
    <3> QED
      BY <3>1 DEF CardIds, IdsOf, Card
  <2>2. PICK a \in CardIds :
          /\ deletingArtifact' = a
          /\ cardDeletes' = cardDeletes \cup {[id |-> a, turn |-> turns.user, busy |-> TRUE]}
    BY <1>12 DEF DeleteArtifact
  <2>3. [id |-> a, turn |-> turns.user, busy |-> TRUE] \in CardDeletion
    BY <2>1 DEF CardDeletion, FlagsTyped, TurnsTyped
  <2> QED
    BY <1>12, <2>1, <2>2, <2>3 DEF DeleteArtifact, detailVars2
<1>13. CASE ArtifactDeleted
  <2>1. PICK d : /\ cards' = Only(cards, {c \in Range(cards) : c.id # d.id})
                 /\ cardDeletes' = CardsStillBusy(cardDeletes \ {d}, cards')
    BY <1>13 DEF ArtifactDeleted
  <2>2. cards' \in Seq(Card)
    BY <2>1, OnlyProperties
  <2>3. cardDeletes' \subseteq CardDeletion /\ deletingArtifact' = NoArtifact
    BY <1>13, <2>1, CardsBusy DEF ArtifactDeleted
  <2> QED
    BY <1>13, <2>2, <2>3 DEF ArtifactDeleted, detailVars2
<1>14. CASE DeletionFails
  <2>1. cardDeletes' \subseteq cardDeletes /\ deletingArtifact' = NoArtifact
    BY <1>14 DEF DeletionFails
  <2> QED
    BY <1>14, <2>1 DEF DeletionFails, detailVars2
<1>15. CASE UNCHANGED browserVars
  BY <1>15, CardsElsewhere DEF browserVars, cardVars, detailVars2
<1> QED
  BY <1>1, <1>2, <1>3, <1>4, <1>5, <1>6, <1>7, <1>8, <1>9, <1>10, <1>11, <1>12, <1>13, <1>14,
     <1>15 DEF BrowserNext

LEMMA TurnsStep == TurnsTyped /\ [BrowserNext]_browserVars => TurnsTyped'
<1> SUFFICES ASSUME TurnsTyped, [BrowserNext]_browserVars PROVE TurnsTyped'
  OBVIOUS
<1>1. ASSUME Turn \/ Mishap PROVE TurnsTyped'
  BY <1>1 DEF Turn, Mishap, SpendTurn, TurnsTyped
<1>2. ASSUME UNCHANGED turns PROVE TurnsTyped'
  BY <1>2 DEF TurnsTyped
<1>3. CASE ChangeSearch \/ LoadMore \/ OpenArtifact \/ TypeAlias \/ SaveAlias
           \/ CalculateStorageStats \/ DeleteArtifact
  BY <1>1, <1>3 DEF ChangeSearch, LoadMore, OpenArtifact, TypeAlias, SaveAlias,
                    CalculateStorageStats, DeleteArtifact
<1>4. CASE CardsFail \/ MoreFails \/ DetailFails \/ SaveFails \/ DeletionFails
  BY <1>1, <1>2, <1>4 DEF CardsFail, MoreFails, DetailFails, SaveFails, DeletionFails
<1>5. CASE LoadCards \/ CardsReturn \/ MoreReturns \/ CloseArtifact \/ DetailReturns
           \/ SaveReturns \/ ScanReturns \/ ArtifactDeleted \/ UNCHANGED browserVars
  BY <1>2, <1>5 DEF LoadCards, CardsReturn, MoreReturns, CloseArtifact, DetailReturns,
                    SaveReturns, ScanReturns, ArtifactDeleted, browserVars
<1> QED
  BY <1>3, <1>4, <1>5 DEF BrowserNext

LEMMA FlagsStep == CardsTyped /\ FlagsTyped /\ [BrowserNext]_browserVars => FlagsTyped'
<1> SUFFICES ASSUME CardsTyped, FlagsTyped, [BrowserNext]_browserVars PROVE FlagsTyped'
  OBVIOUS
<1> USE DEF FlagsTyped
<1>0. TurnsTyped'
  BY TurnsStep
<1>1. CASE CardsReturn \/ MoreReturns
  <2>1. PICK x \in cardsFlights \cup moreFlights : hasMore' = x.more
    BY <1>1 DEF CardsReturn, MoreReturns
  <2>2. x \in CardAnswer
    BY DEF CardsTyped
  <2>3. hasMore' \in BOOLEAN
    BY <2>1, <2>2 DEF CardAnswer
  <2> QED
    BY <1>0, <1>1, <2>3 DEF CardsReturn, MoreReturns, Done, detailVars2
<1>2. CASE ChangeSearch \/ LoadCards \/ CardsFail \/ LoadMore \/ MoreFails
  BY <1>0, <1>2 DEF ChangeSearch, LoadCards, CardsFail, LoadMore, MoreFails, Done, detailVars2
<1>3. CASE OpenArtifact \/ CloseArtifact \/ DetailReturns \/ DetailFails \/ TypeAlias
           \/ SaveAlias \/ SaveFails \/ CalculateStorageStats \/ ScanReturns
  BY <1>0, <1>3 DEF cardVars, OpenArtifact, CloseArtifact, DetailReturns, DetailFails, TypeAlias,
              SaveAlias, SaveFails, CalculateStorageStats, ScanReturns
<1>4. CASE SaveReturns \/ DeleteArtifact \/ ArtifactDeleted \/ DeletionFails
  BY <1>0, <1>4 DEF SaveReturns, DeleteArtifact, ArtifactDeleted, DeletionFails, detailVars2
<1>5. CASE UNCHANGED browserVars
  BY <1>0, <1>5 DEF browserVars, cardVars, detailVars2
<1> QED
  BY <1>1, <1>2, <1>3, <1>4, <1>5 DEF BrowserNext

LEMMA BrowserTyped == DetailsInv /\ CardsTyped /\ FlagsTyped => BrowserTypeOK
<1> SUFFICES ASSUME DetailsInv, CardsTyped, FlagsTyped PROVE BrowserTypeOK
  OBVIOUS
<1>1. /\ {address, shownArtifact, deletingArtifact, storageStats}
           \subseteq Shelved \cup {NoArtifact}
      /\ {hasMore, cardsLoading, cardsMissed, cardsTimer, detailLoading} \subseteq BOOLEAN
  BY DEF DetailsInv, DetailsTyped, CardsTyped, FlagsTyped
<1>2. artifactDetail # NoArtifactDetail =>
        artifactDetail \in [id : Shelved, alias : Aliases2, files : Shelved]
  BY DEF DetailsInv, DetailsTyped, ArtifactDetails
<1> QED
  BY <1>1, <1>2 DEF BrowserTypeOK, DetailsInv, DetailsTyped, CardsTyped

=============================================================================
