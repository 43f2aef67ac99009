-------------------------- MODULE DownloadsProofs --------------------------
(***************************************************************************)
(* Proofs about the pages of downloads, for any number of tasks, rows of a *)
(* page, polls on their way, clicks and lost requests: the page of all     *)
(* downloads, the steps a task is shown to be at, the details of one task, *)
(* and the three together.                                                 *)
(***************************************************************************)
EXTENDS MCDownloads, ListProofs

\* The answers on their way are all to polls of the effect that is there: it is made anew, and
\* the others are dropped, whenever the filters or the page change.
PollsAreCurrent == \A l \in loads : l.of = Query

\* What keeps RowsMatchFilters: an answer that is still to come brings the right rows.
QueueInv == PollsAreCurrent /\ RowsMatchFilters

-----------------------------------------------------------------------------

\* An answer says what was asked.
LEMMA AnswerIsOf == ASSUME NEW f, NEW o PROVE Answer(f, o).of = <<f, o>>
BY DEF Answer

\* Making the effect anew leaves one poll, for the new filters, and a page that says it loads.
LEMMA RestartKeeps ==
  ASSUME NEW f, NEW o, Restart(f, o)
  PROVE  QueueInv'
<1>1. loads' = {Answer(f, o)} /\ filter' = f /\ offset' = o /\ loading'
  BY DEF Restart, EffectCleanup
<1>2. PollsAreCurrent'
  BY <1>1, AnswerIsOf DEF PollsAreCurrent, Query
<1>3. RowsMatchFilters'
  BY <1>1 DEF RowsMatchFilters
<1> QED
  BY <1>2, <1>3 DEF QueueInv

\* A step that touches neither the filters nor what has been loaded keeps the invariant.
LEMMA ElsewhereKeeps ==
  ASSUME QueueInv, UNCHANGED <<filter, offset, loading, rowsOf, missed, loads>>
  PROVE  QueueInv'
BY DEF QueueInv, PollsAreCurrent, RowsMatchFilters, Query

\* The first poll is for the filters the page begins with.
LEMMA QueueInitInv == QueueInit => QueueInv
<1> SUFFICES ASSUME QueueInit PROVE QueueInv
  OBVIOUS
<1>1. loads = {Answer(filter, offset)} /\ loading
  BY DEF QueueInit
<1> QED
  BY <1>1, AnswerIsOf DEF QueueInv, PollsAreCurrent, RowsMatchFilters, Query

LEMMA QueueStep == QueueInv /\ [QueueNext]_queueVars => QueueInv'
<1> SUFFICES ASSUME QueueInv, [QueueNext]_queueVars PROVE QueueInv'
  OBVIOUS
<1>1. CASE UpdateFilters
  BY <1>1, RestartKeeps DEF UpdateFilters
<1>2. CASE PreviousPage
  BY <1>2, RestartKeeps DEF PreviousPage
<1>3. CASE NextPage
  BY <1>3, RestartKeeps DEF NextPage
<1>4. CASE Poll
  <2>1. /\ loads' = loads \cup {Answer(filter, offset)}
        /\ UNCHANGED <<filter, offset, loading, rowsOf, missed>>
    BY <1>4 DEF Poll
  <2> QED
    BY <2>1, AnswerIsOf DEF QueueInv, PollsAreCurrent, RowsMatchFilters, Query
<1>5. CASE LoadReturns
  <2>1. PICK l \in loads : rowsOf' = l.of /\ loads' = loads \ {l}
    BY <1>5 DEF LoadReturns
  <2>2. UNCHANGED <<filter, offset>>
    BY <1>5 DEF LoadReturns
  <2> QED
    BY <2>1, <2>2 DEF QueueInv, PollsAreCurrent, RowsMatchFilters, Query
<1>6. CASE LoadFails
  <2>1. \E l \in loads : loads' = loads \ {l}
    BY <1>6 DEF LoadFails
  <2>2. missed' /\ UNCHANGED <<filter, offset>>
    BY <1>6 DEF LoadFails
  <2> QED
    BY <2>1, <2>2 DEF QueueInv, PollsAreCurrent, RowsMatchFilters, Query
<1>7. CASE DeleteReturns \/ TaskDeleted
  <2>1. \E t : Forget(t)
    BY <1>7 DEF DeleteReturns, TaskDeleted
  <2> QED
    BY <2>1, ElsewhereKeeps DEF Forget
<1>8. CASE MoveReturns
  BY <1>8, ElsewhereKeeps DEF MoveReturns
<1>9. CASE DropOnRow \/ MoveByKey
  <2>1. UNCHANGED page
    BY <1>9 DEF DropOnRow, MoveByKey, ReorderQueue
  <2> QED
    BY <2>1, ElsewhereKeeps DEF page
<1>10. CASE \/ TaskChanges \/ DeleteTask \/ DeleteServed \/ DeleteFails \/ BeginQueueDrag
            \/ EndQueueDrag \/ MoveServed \/ MoveFails
  <2>1. UNCHANGED page
    BY <1>10 DEF TaskChanges, DeleteTask, DeleteServed, DeleteFails, BeginQueueDrag,
                 EndQueueDrag, MoveServed, MoveFails
  <2> QED
    BY <2>1, ElsewhereKeeps DEF page
<1>11. CASE UNCHANGED queueVars
  BY <1>11, ElsewhereKeeps DEF queueVars
<1> QED
  BY <1>1, <1>2, <1>3, <1>4, <1>5, <1>6, <1>7, <1>8, <1>9, <1>10, <1>11 DEF QueueNext

\* Once an answer for the filters and the page now chosen has been shown, no answer for others
\* takes its place, however many polls overlap and however late they return.
THEOREM RowsAreOfFilters == QueueSpec => []RowsMatchFilters
<1>1. QueueInv => RowsMatchFilters
  BY DEF QueueInv
<1> QED
  BY <1>1, QueueInitInv, QueueStep, PTL DEF QueueSpec

-----------------------------------------------------------------------------
(* What the page and the server hold *)

\* The queue of the server holds each task that waits or is paused once, and no other.
LineHolds ==
  /\ line \in Seq(QueueTasks) /\ Distinct(line)
  /\ Range(line) = {t \in QueueTasks : tasks[t] \in Sortable}
ServerTyped == tasks \in [QueueTasks -> QueueStatus] /\ LineHolds

PageTyped ==
  /\ filter \in Filters /\ offset \in Nat
  /\ rows \in Seq(Row) /\ total \in Nat /\ loading \in BOOLEAN
  /\ rowsOf \in Filters \X Nat /\ missed \in BOOLEAN
  /\ \A l \in loads : l \in Load

\* What a move asks for, and what it brings back.
MoveFits ==
  /\ move.phase \in {"none", "sent", "served"}
  /\ move.phase = "sent" =>
       move.moving \in QueueTasks /\ move.target \in QueueTasks /\ move.moving # move.target
  /\ move.phase = "served" =>
       DOMAIN move.saved \subseteq QueueTasks /\ \A t \in DOMAIN move.saved : move.saved[t] \in Row
HandsTyped ==
  /\ dragged \in QueueTasks \cup {NoTask} /\ deleting \in QueueTasks \cup {NoTask}
  /\ deletes \subseteq Deletion
  /\ MoveFits

SpentTyped == queueSpent \in [{"changes", "clicks", "lost"} -> Nat]

QueueParts == ServerTyped /\ PageTyped /\ HandsTyped
QueueShape == QueueParts /\ SpentTyped

\* An answer is a page of rows.
LEMMA RowTyped ==
  ASSUME ServerTyped, NEW t \in QueueTasks, tasks[t] # "absent"
  PROVE  AsRow(t) \in Row
<1>1. Len(line) \in Nat /\ DOMAIN line = 1..Len(line)
  BY LenProperties DEF ServerTyped, LineHolds
<1>2. PlaceOf(t) \in Nat
  BY <1>1 DEF PlaceOf
<1>3. tasks[t] \in QueueStatus \ {"absent"}
  BY DEF ServerTyped
<1> QED
  BY <1>2, <1>3 DEF AsRow, Row

LEMMA AnswerTyped ==
  ASSUME ServerTyped, NEW f \in Filters, NEW o \in Nat
  PROVE  Answer(f, o) \in Load
<1> DEFINE S == Matching(f)
           m == Cardinality(S)
           size == IF o >= m THEN 0 ELSE IF m - o < PageSize THEN m - o ELSE PageSize
           nth(i) == CHOOSE t \in S : Rank(t, S) = o + i
<1>1. S \in SUBSET QueueTasks /\ \A t \in S : tasks[t] # "absent"
  BY DEF Matching, Shows
<1>2. IsFiniteSet(S) /\ S \subseteq Int
  <2>1. IsFiniteSet(QueueTasks) /\ QueueTasks \subseteq Int
    BY QueueAssumption
  <2> HIDE DEF S
  <2> QED
    BY <1>1, <2>1, FS_Subset
<1>3. PageOf(f, o) = [i \in 1..size |-> AsRow(nth(i))]
  BY DEF PageOf
<1>4. Answer(f, o) = [rows |-> PageOf(f, o), total |-> m, of |-> <<f, o>>]
  BY DEF Answer
<1> HIDE DEF S
<1>5. m \in Nat /\ PageSize \in Nat
  BY <1>2, FS_CardinalityType, QueueAssumption
<1> HIDE DEF m
<1>6. size \in Nat /\ \A i \in 1..size : o + i \in 1..m
  BY <1>5
<1> HIDE DEF size
<1>7. ASSUME NEW i \in 1..size PROVE AsRow(nth(i)) \in Row
  <2>1. \E t \in S : Rank(t, S) = o + i
    <3>1. o + i \in 1..Cardinality(S)
      BY <1>6 DEF m
    <3> QED
      BY <1>2, <3>1, NthFromAbove DEF Rank
  <2>2. nth(i) \in S
    BY <2>1
  <2> QED
    BY <1>1, <2>2, RowTyped
<1> HIDE DEF nth
<1>8. PageOf(f, o) \in Seq(Row)
  BY <1>3, <1>6, <1>7, IsASeq
<1> QED
  BY <1>4, <1>5, <1>8 DEF Load

LEMMA RowsFiltered ==
  ASSUME NEW s \in Seq(Row), NEW S PROVE Only(s, S) \in Seq(Row)
BY OnlyProperties

LEMMA WithoutKeeps ==
  ASSUME ServerTyped, NEW t
  PROVE  /\ Without(line, t) \in Seq(QueueTasks) /\ Distinct(Without(line, t))
         /\ Range(Without(line, t)) = Range(line) \ {t}
<1> DEFINE S == Range(line) \ {t}
<1>1. line \in Seq(QueueTasks) /\ Distinct(line)
  BY DEF ServerTyped, LineHolds
<1>2. /\ Only(line, S) \in Seq(QueueTasks) /\ Distinct(Only(line, S))
      /\ Range(Only(line, S)) = Range(line) \cap S
  BY <1>1, OnlyProperties
<1> QED
  BY <1>2 DEF Without

LEMMA DropKeeps ==
  ASSUME ServerTyped, NEW t \in QueueTasks, NEW s \in QueueStatus \ Sortable,
         tasks' = [tasks EXCEPT ![t] = s], line' = Without(line, t)
  PROVE  ServerTyped'
<1>1. tasks \in [QueueTasks -> QueueStatus] /\ Range(line) = {u \in QueueTasks : tasks[u] \in Sortable}
  BY DEF ServerTyped, LineHolds
<1>2. tasks' \in [QueueTasks -> QueueStatus]
  BY <1>1
<1>3. \A u \in QueueTasks : tasks'[u] = IF u = t THEN s ELSE tasks[u]
  BY <1>1
<1>4. Range(line)' = {u \in QueueTasks : tasks'[u] \in Sortable}
  <2>1. Range(line)' = Range(line) \ {t}
    BY WithoutKeeps DEF Range
  <2> QED
    BY <1>1, <1>3, <2>1
<1>5. line' \in Seq(QueueTasks) /\ Distinct(line')
  BY WithoutKeeps
<1> QED
  BY <1>2, <1>4, <1>5 DEF ServerTyped, LineHolds, Distinct

LEMMA ForgetKeeps ==
  ASSUME PageTyped, NEW t, Forget(t)
  PROVE  PageTyped'
<1>1. rows' \in Seq(Row)
  BY RowsFiltered DEF Forget, PageTyped
<1>2. total' \in Nat
  BY DEF Forget, PageTyped
<1>3. UNCHANGED <<filter, offset, loading, rowsOf, missed, loads>>
  BY DEF Forget
<1> QED
  BY <1>1, <1>2, <1>3 DEF PageTyped

LEMMA AnewKeeps ==
  ASSUME ServerTyped, PageTyped, NEW f \in Filters, NEW o \in Nat, Restart(f, o)
  PROVE  PageTyped'
<1>1. /\ filter' = f /\ offset' = o /\ loading' = TRUE /\ missed' = FALSE
      /\ loads' = {Answer(f, o)} /\ UNCHANGED <<rows, total, rowsOf>>
  BY DEF Restart, EffectCleanup
<1>2. Answer(f, o) \in Load
  BY AnswerTyped
<1> QED
  BY <1>1, <1>2 DEF PageTyped

\* Deletions whose confirmations go with their rows are still deletions.
LEMMA BusyTyped ==
  ASSUME NEW sent \in SUBSET Deletion, NEW list
  PROVE  StillBusy(sent, list) \subseteq Deletion
<1> SUFFICES ASSUME NEW d \in sent
             PROVE  [d EXCEPT !.busy = d.busy /\ HasConfirm(list, d.id)] \in Deletion
  BY DEF StillBusy
<1>1. (d.busy /\ HasConfirm(list, d.id)) \in BOOLEAN
  OBVIOUS
<1> QED
  BY <1>1 DEF Deletion

\* The parts of the state that a step leaves alone keep their type.
LEMMA PartsKept ==
  /\ ServerTyped /\ UNCHANGED server => ServerTyped'
  /\ PageTyped /\ UNCHANGED page => PageTyped'
  /\ HandsTyped /\ UNCHANGED hands => HandsTyped'
<1>1. ServerTyped /\ UNCHANGED server => ServerTyped'
  BY DEF server, ServerTyped, LineHolds, Distinct
<1>2. PageTyped /\ UNCHANGED page => PageTyped'
  BY DEF page, PageTyped
<1>3. HandsTyped /\ UNCHANGED hands => HandsTyped'
  BY DEF hands, HandsTyped, MoveFits
<1> QED
  BY <1>1, <1>2, <1>3

LEMMA QueueInitShape == QueueInit => QueueShape
<1> SUFFICES ASSUME QueueInit PROVE QueueShape
  OBVIOUS
<1> DEFINE S == {t \in QueueTasks : tasks[t] \in Sortable}
<1>1. tasks \in [QueueTasks -> QueueStatus]
  BY DEF QueueInit, QueueStatus
<1>2. S \in SUBSET QueueTasks /\ IsFiniteSet(QueueTasks) /\ QueueTasks \subseteq Int
  BY QueueAssumption
<1>3. line = [i \in 1..Cardinality(S) |-> Nth(S, i)]
  BY DEF QueueInit, Nth, UpTo
<1>4. LineHolds
  <2> HIDE DEF S
  <2>1. IsFiniteSet(S) /\ S \subseteq Int
    BY <1>2, FS_Subset
  <2>2. /\ Cardinality(S) \in Nat
        /\ \A n \in 1..Cardinality(S) : Nth(S, n) \in S /\ Cardinality(UpTo(S, Nth(S, n))) = n
        /\ \A i \in S : Cardinality(UpTo(S, i)) \in 1..Cardinality(S)
                        /\ Nth(S, Cardinality(UpTo(S, i))) = i
    BY <2>1, NthIsThere
  <2>3. line \in Seq(QueueTasks)
    <3>1. \A n \in 1..Cardinality(S) : Nth(S, n) \in QueueTasks
      BY <1>2, <2>2
    <3> QED
      BY <1>3, <2>2, <3>1, IsASeq
  <2>4. DOMAIN line = 1..Cardinality(S) /\ \A n \in 1..Cardinality(S) : line[n] = Nth(S, n)
    BY <1>3
  <2>5. Distinct(line)
    <3> SUFFICES ASSUME NEW i \in 1..Cardinality(S), NEW k \in 1..Cardinality(S),
                        Nth(S, i) = Nth(S, k)
                 PROVE  i = k
      BY <2>4 DEF Distinct
    <3> QED
      BY <2>2
  <2>6. \A v \in Range(line) : v \in S
    BY <2>2, <2>4 DEF Range
  <2>7. \A t \in S : t \in Range(line)
    <3> TAKE t \in S
    <3>1. line[Cardinality(UpTo(S, t))] = t /\ Cardinality(UpTo(S, t)) \in DOMAIN line
      BY <2>2, <2>4
    <3> QED
      BY <3>1 DEF Range
  <2> QED
    BY <2>3, <2>5, <2>6, <2>7 DEF LineHolds, S
<1>5. ServerTyped
  BY <1>1, <1>4 DEF ServerTyped
<1>6. PageTyped
  <2>1. /\ filter \in Filters /\ offset \in Nat /\ rows = << >> /\ total = 0 /\ loading = TRUE
        /\ rowsOf = <<filter, offset>> /\ missed = FALSE /\ loads = {Answer(filter, offset)}
    BY DEF QueueInit, Filters
  <2>2. << >> \in Seq(Row)
    BY EmptySeq
  <2> QED
    BY <1>5, <2>1, <2>2, AnswerTyped DEF PageTyped
<1>7. HandsTyped
  BY DEF QueueInit, HandsTyped, MoveFits, NoMove
<1>8. SpentTyped
  BY DEF QueueInit, SpentTyped
<1> QED
  BY <1>5, <1>6, <1>7, <1>8 DEF QueueShape, QueueParts

\* What happens to the tasks of the server.
LEMMA ChangesKeep == ServerTyped /\ TaskChanges => ServerTyped'
<1> SUFFICES ASSUME ServerTyped, TaskChanges PROVE ServerTyped'
  OBVIOUS
<1>1. PICK t \in QueueTasks, s \in QueueStatus :
        /\ <<tasks[t], s>> \in {<<"queued", "running">>, <<"running", "completed">>,
                                <<"running", "paused">>, <<"queued", "paused">>}
        /\ tasks' = [tasks EXCEPT ![t] = s]
        /\ line' = IF s \notin Sortable THEN Without(line, t)
                   ELSE IF tasks[t] \in Sortable THEN line ELSE Append(line, t)
  BY DEF TaskChanges
<1>2. CASE s \notin Sortable
  BY <1>1, <1>2, DropKeeps
<1>3. CASE s \in Sortable
  <2>1. /\ tasks \in [QueueTasks -> QueueStatus] /\ line \in Seq(QueueTasks) /\ Distinct(line)
        /\ Range(line) = {u \in QueueTasks : tasks[u] \in Sortable}
    BY DEF ServerTyped, LineHolds
  <2>2. /\ tasks' \in [QueueTasks -> QueueStatus]
        /\ \A u \in QueueTasks : tasks'[u] = IF u = t THEN s ELSE tasks[u]
    BY <1>1, <2>1
  <2>3. CASE tasks[t] \in Sortable
    <3>1. line' = line
      BY <1>1, <1>3, <2>3
    <3>2. Range(line) = {u \in QueueTasks : tasks'[u] \in Sortable}
      BY <1>3, <2>1, <2>2, <2>3
    <3> QED
      BY <2>1, <2>2, <3>1, <3>2 DEF ServerTyped, LineHolds, Distinct
  <2>4. CASE tasks[t] \notin Sortable
    <3> DEFINE own == <<t>>
    <3>1. line' = line \o own
      BY <1>1, <1>3, <2>1, <2>4
    <3>2. own \in Seq(QueueTasks) /\ Range(own) = {t} /\ Distinct(own)
      BY DEF Range, Distinct
    <3> HIDE DEF own
    <3>3. Range(line) \cap Range(own) = {}
      BY <2>1, <2>4, <3>2
    <3>4. /\ line' \in Seq(QueueTasks) /\ Distinct(line \o own)
          /\ Range(line \o own) = Range(line) \cup Range(own)
      BY <2>1, <3>1, <3>2, <3>3, JoinedLists
    <3>5. Distinct(line')
      BY <3>1, <3>4
    <3>6. Range(line') = {u \in QueueTasks : tasks'[u] \in Sortable}
      BY <1>3, <2>1, <2>2, <3>1, <3>2, <3>4
    <3> QED
      BY <2>2, <3>4, <3>5, <3>6 DEF ServerTyped, LineHolds, Distinct, Range
  <2> QED
    BY <2>3, <2>4
<1> QED
  BY <1>2, <1>3

\* A move takes a task out and puts it in beside another: nothing is lost, nothing doubled.
LEMMA MovedKeeps ==
  ASSUME ServerTyped, NEW m \in QueueTasks, NEW t \in QueueTasks, m # t,
         tasks[m] \in Sortable, tasks[t] \in Sortable, NEW after
  PROVE  LET r == Moved(line, m, t, after)
         IN  /\ r \in Seq(QueueTasks) /\ Distinct(r)
             /\ Range(r) = {u \in QueueTasks : tasks[u] \in Sortable}
<1> DEFINE rest == Without(line, m)
           at == CHOOSE j \in DOMAIN rest : rest[j] = t
           cut == IF after THEN at ELSE at - 1
<1>1. Range(line) = {u \in QueueTasks : tasks[u] \in Sortable}
  BY DEF ServerTyped, LineHolds
<1>2. rest \in Seq(QueueTasks) /\ Distinct(rest) /\ Range(rest) = Range(line) \ {m}
  BY WithoutKeeps
<1>3. Moved(line, m, t, after) = SubSeq(rest, 1, cut) \o <<m>> \o SubSeq(rest, cut + 1, Len(rest))
  BY DEF Moved
<1> HIDE DEF rest
<1>4. t \in Range(rest) /\ m \notin Range(rest)
  BY <1>1, <1>2
<1>5. Len(rest) \in Nat /\ DOMAIN rest = 1..Len(rest)
  BY <1>2, LenProperties
<1>6. at \in 1..Len(rest)
  BY <1>4, <1>5 DEF Range
<1> HIDE DEF at
<1>7. cut \in 0..Len(rest)
  BY <1>5, <1>6
<1> HIDE DEF cut
<1> DEFINE r == SubSeq(rest, 1, cut) \o <<m>> \o SubSeq(rest, cut + 1, Len(rest))
<1>8. r \in Seq(QueueTasks) /\ Distinct(r) /\ Range(r) = Range(rest) \cup {m}
  BY <1>2, <1>4, <1>7, InsertProperties
<1> HIDE DEF r
<1>9. Range(r) = {u \in QueueTasks : tasks[u] \in Sortable}
  BY <1>1, <1>2, <1>8
<1> QED
  BY <1>3, <1>8, <1>9 DEF r

\* The request of a move is served: what it brings back are rows of tasks that wait.
LEMMA MoveServedKeeps == QueueShape /\ MoveServed => QueueParts'
<1> SUFFICES ASSUME QueueShape, MoveServed PROVE QueueParts'
  OBVIOUS
<1>1. ServerTyped /\ PageTyped /\ HandsTyped /\ MoveFits
  BY DEF QueueShape, QueueParts, HandsTyped
<1>2. move.phase = "sent" /\ UNCHANGED <<tasks, page, deletes, deleting>>
  BY DEF MoveServed
<1>3. PageTyped'
  BY <1>1, <1>2, PartsKept
<1>4. CASE tasks[move.moving] \in Sortable /\ tasks[move.target] \in Sortable
  <2> DEFINE m == move.moving
             t == move.target
             a == move.after
             saved == [u \in {line'[i] : i \in DOMAIN line'} |->
                         [id |-> u, status |-> tasks[u],
                          place |-> CHOOSE i \in DOMAIN line' : line'[i] = u]]
  <2>1. m \in QueueTasks /\ t \in QueueTasks /\ m # t
    BY <1>1, <1>2 DEF MoveFits
  <2>2. /\ line' = Moved(line, m, t, a) /\ move' = [phase |-> "served", saved |-> saved]
        /\ UNCHANGED dragged
    BY <1>4 DEF MoveServed
  <2>3. tasks[m] \in Sortable /\ tasks[t] \in Sortable
    BY <1>4
  <2> HIDE DEF m, t, a
  <2>4. /\ line' \in Seq(QueueTasks) /\ Distinct(line')
        /\ Range(line') = {u \in QueueTasks : tasks[u] \in Sortable}
    BY <1>1, <2>1, <2>2, <2>3, MovedKeeps
  <2>5. ServerTyped'
    BY <1>1, <1>2, <2>4 DEF ServerTyped, LineHolds, Range, Distinct
  <2>6. {line'[i] : i \in DOMAIN line'} = {u \in QueueTasks : tasks[u] \in Sortable}
    BY <2>4 DEF Range
  <2>7. \A u \in DOMAIN saved : u \in QueueTasks /\ saved[u] \in Row
    <3> SUFFICES ASSUME NEW u \in DOMAIN saved PROVE u \in QueueTasks /\ saved[u] \in Row
      OBVIOUS
    <3>1. u \in QueueTasks /\ tasks[u] \in Sortable
      BY <2>6
    <3>2. \E i \in DOMAIN line' : line'[i] = u
      OBVIOUS
    <3> DEFINE k == CHOOSE i \in DOMAIN line' : line'[i] = u
    <3>3. k \in DOMAIN line'
      BY <3>2
    <3>4. k \in Nat
      BY <2>4, <3>3, LenProperties
    <3>5. saved[u] = [id |-> u, status |-> tasks[u], place |-> k]
      OBVIOUS
    <3>6. tasks[u] \in QueueStatus \ {"absent"}
      BY <3>1 DEF Sortable, QueueStatus
    <3> HIDE DEF k, saved
    <3> QED
      BY <3>1, <3>4, <3>5, <3>6 DEF Row
  <2> HIDE DEF saved
  <2>8. HandsTyped'
    BY <1>1, <1>2, <2>2, <2>7 DEF HandsTyped, MoveFits
  <2> QED
    BY <1>3, <2>5, <2>8 DEF QueueParts
<1>5. CASE ~(tasks[move.moving] \in Sortable /\ tasks[move.target] \in Sortable)
  <2>1. move' = NoMove /\ dragged' = NoTask /\ UNCHANGED line
    BY <1>5 DEF MoveServed
  <2>2. ServerTyped'
    BY <1>1, <1>2, <2>1, PartsKept DEF server
  <2>3. HandsTyped'
    BY <1>1, <1>2, <2>1 DEF HandsTyped, MoveFits, NoMove
  <2> QED
    BY <1>3, <2>2, <2>3 DEF QueueParts
<1> QED
  BY <1>4, <1>5

LEMMA MoveReturnsKeeps == QueueShape /\ MoveReturns => QueueParts'
<1> SUFFICES ASSUME QueueShape, MoveReturns PROVE QueueParts'
  OBVIOUS
<1>1. ServerTyped /\ PageTyped /\ HandsTyped /\ MoveFits
  BY DEF QueueShape, QueueParts, HandsTyped
<1>2. /\ move.phase = "served" /\ move' = NoMove /\ dragged' = NoTask
      /\ UNCHANGED <<server, filter, offset, total, loading, rowsOf, missed, loads,
                     deleting>>
      /\ rows' = [i \in DOMAIN rows |->
                    IF rows[i].id \in DOMAIN move.saved THEN move.saved[rows[i].id] ELSE rows[i]]
  BY DEF MoveReturns, MoveEnds
<1>3. \A t \in DOMAIN move.saved : move.saved[t] \in Row
  BY <1>1, <1>2 DEF MoveFits
<1>4. Len(rows) \in Nat /\ DOMAIN rows = 1..Len(rows) /\ \A i \in 1..Len(rows) : rows[i] \in Row
  BY <1>1, LenProperties, ElementOfSeq DEF PageTyped
<1>5. rows' \in Seq(Row)
  <2> DEFINE row(i) == IF rows[i].id \in DOMAIN move.saved THEN move.saved[rows[i].id] ELSE rows[i]
  <2>1. \A i \in 1..Len(rows) : row(i) \in Row
    BY <1>3, <1>4
  <2>2. rows' = [i \in 1..Len(rows) |-> row(i)]
    BY <1>2, <1>4
  <2> HIDE DEF row
  <2> QED
    BY <1>4, <2>1, <2>2, IsASeq
<1>6. PageTyped'
  BY <1>1, <1>2, <1>5 DEF PageTyped
<1>7. HandsTyped'
  <2>1. deletes' = StillBusy(deletes, rows')
    BY DEF MoveReturns
  <2>2. deletes' \subseteq Deletion
    BY <1>1, <2>1, BusyTyped DEF HandsTyped
  <2> QED
    BY <1>1, <1>2, <2>2 DEF HandsTyped, MoveFits, NoMove
<1>8. ServerTyped'
  BY <1>1, <1>2, PartsKept
<1> QED
  BY <1>6, <1>7, <1>8 DEF QueueParts

LEMMA QueuePartsStep == QueueShape /\ [QueueNext]_queueVars => QueueParts'
<1> SUFFICES ASSUME QueueShape, [QueueNext]_queueVars PROVE QueueParts'
  OBVIOUS
<1>1. ServerTyped /\ PageTyped /\ HandsTyped /\ MoveFits
  BY DEF QueueShape, QueueParts, HandsTyped
<1>2. filter \in Filters /\ offset \in Nat /\ PageSize \in Nat
  BY <1>1, QueueAssumption DEF PageTyped
<1>3. \A t \in RowIds : t \in QueueTasks
  <2>1. \A i \in DOMAIN rows : rows[i] \in Row
    BY <1>1, LenProperties, ElementOfSeq DEF PageTyped
  <2>2. \A i \in DOMAIN rows : rows[i].id \in QueueTasks
    BY <2>1 DEF Row
  <2> QED
    BY <2>2 DEF RowIds
<1>4. CASE TaskChanges
  BY <1>1, <1>4, ChangesKeep, PartsKept DEF TaskChanges, QueueParts
<1>5. CASE UpdateFilters \/ PreviousPage \/ NextPage
  <2>1. UNCHANGED <<server, hands>>
    BY <1>5 DEF UpdateFilters, PreviousPage, NextPage
  <2>2. \E f \in Filters, o \in Nat : Restart(f, o)
    <3>1. offset > PageSize => offset - PageSize \in Nat
      BY <1>2
    <3>2. 0 \in Nat /\ offset + PageSize \in Nat
      BY <1>2
    <3> QED
      BY <1>2, <1>5, <3>1, <3>2 DEF UpdateFilters, PreviousPage, NextPage
  <2>3. PageTyped'
    BY <1>1, <2>2, AnewKeeps
  <2> QED
    BY <1>1, <2>1, <2>3, PartsKept DEF QueueParts
<1>6. CASE Poll
  <2>1. /\ loads' = loads \cup {Answer(filter, offset)} /\ UNCHANGED <<server, hands>>
        /\ UNCHANGED <<filter, offset, rows, total, loading, rowsOf, missed>>
    BY <1>6 DEF Poll
  <2>2. Answer(filter, offset) \in Load
    BY <1>1, <1>2, AnswerTyped
  <2>3. PageTyped'
    BY <1>1, <2>1, <2>2 DEF PageTyped
  <2> QED
    BY <1>1, <2>1, <2>3, PartsKept DEF QueueParts
<1>7. CASE LoadReturns \/ LoadFails
  <2>1. UNCHANGED <<server, dragged, move, deleting>>
    BY <1>7 DEF LoadReturns, LoadFails, hands
  <2>2. PageTyped'
    <3>1. CASE LoadReturns
      <4>1. PICK l \in loads : /\ rows' = l.rows /\ total' = l.total /\ rowsOf' = l.of
                               /\ loads' = loads \ {l}
        BY <3>1 DEF LoadReturns
      <4>2. loading' = FALSE /\ missed' = FALSE /\ UNCHANGED <<filter, offset>>
        BY <3>1 DEF LoadReturns
      <4>3. l.rows \in Seq(Row) /\ l.total \in Nat /\ l.of \in Filters \X Nat
        BY <1>1 DEF PageTyped, Load
      <4> QED
        BY <1>1, <4>1, <4>2, <4>3 DEF PageTyped
    <3>2. CASE LoadFails
      <4>1. \E l \in loads : loads' = loads \ {l}
        BY <3>2 DEF LoadFails
      <4>2. loading' = FALSE /\ missed' = TRUE /\ UNCHANGED <<filter, offset, rows, total, rowsOf>>
        BY <3>2 DEF LoadFails
      <4> QED
        BY <1>1, <4>1, <4>2 DEF PageTyped
    <3> QED
      BY <1>7, <3>1, <3>2
  <2>3. deletes' = deletes \/ \E list : deletes' = StillBusy(deletes, list)
    BY <1>7 DEF LoadReturns, LoadFails, hands
  <2>4. HandsTyped'
    BY <1>1, <2>1, <2>3, BusyTyped DEF HandsTyped, MoveFits
  <2> QED
    BY <1>1, <2>1, <2>2, <2>4, PartsKept DEF QueueParts
<1>8. CASE DeleteTask
  <2> DEFINE new(t) == [id |-> t, click |-> queueSpent.clicks, busy |-> TRUE, served |-> FALSE]
  <2>1. PICK t \in RowIds : deleting' = t /\ deletes' = deletes \cup {new(t)}
    BY <1>8 DEF DeleteTask
  <2>2. UNCHANGED <<server, page, dragged, move>>
    BY <1>8 DEF DeleteTask
  <2>3. t \in QueueTasks /\ new(t) \in Deletion
    BY <1>3 DEF QueueShape, Deletion, SpentTyped
  <2> HIDE DEF new
  <2>4. deletes' \subseteq Deletion
    BY <1>1, <2>1, <2>3 DEF HandsTyped
  <2>5. HandsTyped'
    BY <1>1, <2>1, <2>2, <2>3, <2>4 DEF HandsTyped, MoveFits
  <2> QED
    BY <1>1, <2>2, <2>5, PartsKept DEF QueueParts
<1>9. CASE DeleteServed
  <2>1. PICK d \in deletes :
          /\ IF tasks[d.id] \in Terminal
               THEN Drop(d.id) /\ deletes' = (deletes \ {d}) \cup {[d EXCEPT !.served = TRUE]}
               ELSE deletes' = deletes \ {d} /\ UNCHANGED server
          /\ deleting' = IF tasks[d.id] \in Terminal THEN deleting ELSE NoTask
    BY <1>9 DEF DeleteServed
  <2>2. UNCHANGED <<page, dragged, move>>
    BY <1>9 DEF DeleteServed
  <2>3. d \in Deletion
    BY <1>1 DEF HandsTyped
  <2>4. "absent" \in QueueStatus \ Sortable
    BY DEF QueueStatus, Sortable
  <2>5. ServerTyped'
    BY <1>1, <2>1, <2>3, <2>4, DropKeeps, PartsKept DEF Drop, Deletion
  <2>6. deletes' \subseteq Deletion
    <3>1. [d EXCEPT !.served = TRUE] \in Deletion
      BY <2>3 DEF Deletion
    <3>2. \A e \in deletes' : e \in deletes \/ e = [d EXCEPT !.served = TRUE]
      BY <2>1
    <3> QED
      BY <1>1, <3>1, <3>2 DEF HandsTyped
  <2>7. HandsTyped'
    BY <1>1, <2>1, <2>2, <2>6 DEF HandsTyped, MoveFits
  <2> QED
    BY <1>1, <2>2, <2>5, <2>7, PartsKept DEF QueueParts
<1>10. CASE DeleteReturns
  <2>1. PICK d \in deletes : Forget(d.id) /\ deletes' = StillBusy(deletes \ {d}, rows')
    BY <1>10 DEF DeleteReturns
  <2>2. deleting' = NoTask /\ UNCHANGED <<server, dragged, move>>
    BY <1>10 DEF DeleteReturns
  <2>3. PageTyped'
    BY <1>1, <2>1, ForgetKeeps
  <2>4. deletes' \subseteq Deletion
    BY <1>1, <2>1, BusyTyped DEF HandsTyped
  <2>5. HandsTyped'
    BY <1>1, <2>2, <2>4 DEF HandsTyped, MoveFits
  <2> QED
    BY <1>1, <2>2, <2>3, <2>5, PartsKept DEF QueueParts
<1>11. CASE DeleteFails
  <2>1. /\ \E d \in deletes : deletes' = deletes \ {d}
        /\ deleting' = NoTask /\ UNCHANGED <<server, page, dragged, move>>
    BY <1>11 DEF DeleteFails
  <2>2. HandsTyped'
    BY <1>1, <2>1 DEF HandsTyped, MoveFits
  <2> QED
    BY <1>1, <2>1, <2>2, PartsKept DEF QueueParts
<1>12. CASE TaskDeleted
  <2>1. PICK t \in QueueTasks : Drop(t) /\ Forget(t)
    BY <1>12 DEF TaskDeleted
  <2>2. deletes' = StillBusy(deletes, rows') /\ UNCHANGED <<dragged, move, deleting>>
    BY <1>12 DEF TaskDeleted
  <2>3. "absent" \in QueueStatus \ Sortable
    BY DEF QueueStatus, Sortable
  <2>4. ServerTyped'
    BY <1>1, <2>1, <2>3, DropKeeps DEF Drop
  <2>5. PageTyped'
    BY <1>1, <2>1, ForgetKeeps
  <2>6. HandsTyped'
    BY <1>1, <2>2, BusyTyped DEF HandsTyped, MoveFits
  <2> QED
    BY <2>4, <2>5, <2>6 DEF QueueParts
<1>13. CASE BeginQueueDrag \/ EndQueueDrag
  <2>1. dragged' \in QueueTasks \cup {NoTask} /\ UNCHANGED <<server, page, move, deletes, deleting>>
    BY <1>13 DEF BeginQueueDrag, EndQueueDrag
  <2>2. HandsTyped'
    BY <1>1, <2>1 DEF HandsTyped, MoveFits
  <2> QED
    BY <1>1, <2>1, <2>2, PartsKept DEF QueueParts
<1>14. CASE DropOnRow \/ MoveByKey
  <2>1. PICK m \in QueueTasks \cup {NoTask}, t \in QueueTasks, a \in BOOLEAN : ReorderQueue(m, t, a)
    <3>1. dragged \in QueueTasks \cup {NoTask} /\ TRUE \in BOOLEAN /\ FALSE \in BOOLEAN
      BY <1>1 DEF HandsTyped
    <3> QED
      BY <1>14, <3>1 DEF DropOnRow, MoveByKey
  <2>2. /\ m # NoTask /\ m # t
        /\ move' = [phase |-> "sent", moving |-> m, target |-> t, after |-> a]
        /\ UNCHANGED <<server, page, dragged, deletes, deleting>>
    BY <2>1 DEF ReorderQueue
  <2>3. MoveFits'
    BY <2>2 DEF MoveFits
  <2>4. HandsTyped'
    BY <1>1, <2>2, <2>3 DEF HandsTyped
  <2> QED
    BY <1>1, <2>2, <2>4, PartsKept DEF QueueParts
<1>15. CASE MoveFails
  <2>1. /\ move' = NoMove /\ dragged' = NoTask
        /\ UNCHANGED <<server, page, deletes, deleting>>
    BY <1>15 DEF MoveFails, MoveEnds
  <2>2. HandsTyped'
    BY <1>1, <2>1 DEF HandsTyped, MoveFits, NoMove
  <2> QED
    BY <1>1, <2>1, <2>2, PartsKept DEF QueueParts
<1>16. CASE UNCHANGED queueVars
  <2>1. UNCHANGED server /\ UNCHANGED page /\ UNCHANGED hands
    BY <1>16 DEF queueVars, server, page, hands
  <2> QED
    BY <1>1, <2>1, PartsKept DEF QueueParts
<1> QED
  BY <1>4, <1>5, <1>6, <1>7, <1>8, <1>9, <1>10, <1>11, <1>12, <1>13, <1>14, <1>15, <1>16,
     MoveServedKeeps, MoveReturnsKeeps DEF QueueNext

LEMMA SpentStep == SpentTyped /\ [QueueNext]_queueVars => SpentTyped'
<1> SUFFICES ASSUME SpentTyped, [QueueNext]_queueVars PROVE SpentTyped'
  OBVIOUS
<1>1. ASSUME NEW b \in {"changes", "clicks", "lost"}, NEW n, Spend(b, n) PROVE SpentTyped'
  BY <1>1 DEF Spend, SpentTyped
<1>2. CASE TaskChanges \/ TaskDeleted
  BY <1>1, <1>2 DEF TaskChanges, TaskDeleted
<1>3. CASE UpdateFilters \/ PreviousPage \/ NextPage \/ DeleteTask \/ BeginQueueDrag
  BY <1>1, <1>3 DEF UpdateFilters, PreviousPage, NextPage, DeleteTask, BeginQueueDrag, Clicks
<1>4. CASE DropOnRow \/ MoveByKey
  BY <1>1, <1>4 DEF DropOnRow, MoveByKey, Clicks
<1>5. CASE LoadFails \/ DeleteFails \/ MoveFails
  BY <1>1, <1>5 DEF LoadFails, DeleteFails, MoveFails
<1>6. CASE \/ Poll \/ LoadReturns \/ DeleteServed \/ DeleteReturns \/ EndQueueDrag
           \/ MoveServed \/ MoveReturns \/ UNCHANGED queueVars
  <2>1. UNCHANGED queueSpent
    BY <1>6 DEF Poll, LoadReturns, DeleteServed, DeleteReturns, EndQueueDrag, MoveServed,
                MoveReturns, queueVars
  <2> QED
    BY <2>1 DEF SpentTyped
<1> QED
  BY <1>2, <1>3, <1>4, <1>5, <1>6 DEF QueueNext

LEMMA QueueShapeStep == QueueShape /\ [QueueNext]_queueVars => QueueShape'
BY QueuePartsStep, SpentStep DEF QueueShape

LEMMA QueueShaped == QueueSpec => []QueueShape
BY QueueInitShape, QueueShapeStep, PTL DEF QueueSpec

LEMMA QueueShapeTypes == QueueShape => QueueTypeOK /\ LineHolds
BY DEF QueueShape, QueueParts, QueueTypeOK, ServerTyped, LineHolds, PageTyped, HandsTyped, MoveFits

\* QueueTypeOK: every variable of the page of downloads keeps its type, for any number of tasks,
\* polls and requests; with LineHolds, that drags, deletions and what happens elsewhere leave
\* each task that waits once in the line of the server.
THEOREM QueueTypeCorrect == QueueSpec => [](QueueTypeOK /\ LineHolds)
BY QueueShapeTypes, QueueShaped, PTL

-----------------------------------------------------------------------------
(* The steps of a task.  The fields of a record outlive stops, retries and restarts; the      *)
(* invariant says what each of them still tells.                                              *)

\* What the status says about the fields of progress and of verification, also after they
\* have been rewritten by a transfer that was repeated.
RecordFits ==
  /\ record.status # "completed" => ~record.artifactId
  /\ record.status = "awaiting_confirmation" => /\ record.provider = "http"
                                                /\ record.verification # "absent"
  /\ record.status = "downloading" => record.progress \in 2 .. 91
  /\ record.status = "verifying" => record.verification # "absent" /\ record.progress < 99
  /\ record.status = "publishing" => record.verification # "absent" /\ record.progress >= 99

AtWork == ~refetched /\ record.status \notin {"cancelled", "completed"}

\* What the fields say about the files that have been saved, as long as no transfer is repeated.
FieldsSpeak ==
  AtWork =>
    /\ record.status \in {"resolving", "downloading"} => staged = "nothing"
    /\ record.status \in {"verifying", "awaiting_confirmation"} => staged # "nothing"
    /\ record.status = "publishing" => staged = "inventory"
    /\ record.verification # "absent" => staged # "nothing"
    /\ record.inferredMetadata => staged # "nothing"
    /\ record.progress >= 92 => staged # "nothing"
    /\ record.progress >= 99 => staged = "inventory"

StepInv == StepTypeOK /\ RecordFits /\ FieldsSpeak

\* The names the manager writes as a status are statuses.
LEMMA StatusNames ==
  /\ "queued" \in StepStatus /\ "scheduled" \in StepStatus /\ "resolving" \in StepStatus
  /\ "downloading" \in StepStatus /\ "verifying" \in StepStatus /\ "publishing" \in StepStatus
  /\ "awaiting_confirmation" \in StepStatus /\ "paused" \in StepStatus
  /\ "failed" \in StepStatus /\ "cancelled" \in StepStatus /\ "completed" \in StepStatus
BY DEF StepStatus

\* A transfer stays below the progress at which the verification begins.
LEMMA TransferShare ==
  ASSUME NEW size \in Nat \ {0}, NEW n \in 0 .. size
  PROVE  (n * 87) \div size \in 0 .. 87
OBVIOUS

LEMMA StepInitInv == StepInit => StepInv
<1> SUFFICES ASSUME StepInit PROVE StepInv
  OBVIOUS
<1>1. PICK p \in StepProviders, size \in {Unknown, Bytes}, revision \in BOOLEAN,
           s \in {"queued", "scheduled"} :
        record = [provider |-> p, status |-> s, progress |-> 0,
                  bytesDownloaded |-> 0, totalBytes |-> size, verification |-> "absent",
                  artifactId |-> FALSE, resolvedRevision |-> revision,
                  inferredMetadata |-> FALSE, resumeFromStage |-> FALSE]
  BY DEF StepInit
<1>2. s \in StepStatus
  BY StatusNames
<1>3. record \in StepRecord
  BY <1>1, <1>2, StepAssumption DEF StepRecord
<1>4. StepTypeOK
  BY <1>3 DEF StepInit, StepTypeOK
<1>5. RecordFits /\ FieldsSpeak
  BY <1>1 DEF RecordFits, FieldsSpeak
<1> QED
  BY <1>4, <1>5 DEF StepInv

\* A write of fields of their types keeps the type of the record.
LEMMA WriteTyped ==
  ASSUME record \in StepRecord, NEW c, Write(c), "provider" \notin DOMAIN c,
         "status" \in DOMAIN c => c["status"] \in StepStatus,
         "progress" \in DOMAIN c => c["progress"] \in 0 .. 100,
         "bytesDownloaded" \in DOMAIN c => c["bytesDownloaded"] \in 0 .. Bytes,
         "totalBytes" \in DOMAIN c => c["totalBytes"] \in {Unknown, Bytes},
         "verification" \in DOMAIN c => c["verification"] \in {"absent", "unsized", "sized"},
         "artifactId" \in DOMAIN c => c["artifactId"] \in BOOLEAN,
         "resolvedRevision" \in DOMAIN c => c["resolvedRevision"] \in BOOLEAN,
         "inferredMetadata" \in DOMAIN c => c["inferredMetadata"] \in BOOLEAN,
         "resumeFromStage" \in DOMAIN c => c["resumeFromStage"] \in BOOLEAN
  PROVE  record' \in StepRecord
BY DEF StepRecord, Write

\* Each write keeps the type, and what the fields that are left alone go on telling.
LEMMA StepKept ==
  ASSUME StepInv, [StepNext]_stepVars PROVE StepInv'
<1>0. record \in StepRecord
  BY DEF StepInv, StepTypeOK
<1>1. CASE Resolves
  <2> DEFINE c == [status |-> "resolving", progress |-> 1, resumeFromStage |-> TRUE]
  <2>1. Write(c)
    BY <1>1 DEF Resolves
  <2>2. /\ DOMAIN c = {"status", "progress", "resumeFromStage"}
        /\ c["status"] = "resolving" /\ c["progress"] = 1
        /\ c["resumeFromStage"] = TRUE
    OBVIOUS
  <2>3. /\ c["status"] \in StepStatus /\ c["progress"] \in 0 .. 100
        /\ c["resumeFromStage"] \in BOOLEAN
    BY StatusNames
  <2> HIDE DEF c
  <2>4. record' \in StepRecord
    BY <1>0, <2>1, <2>2, <2>3, WriteTyped
  <2>5. /\ record.status' = "resolving" /\ record.progress' = 1
       /\ record.verification' = record.verification
       /\ record.artifactId' = record.artifactId
       /\ record.inferredMetadata' = record.inferredMetadata
    BY <1>0, <2>1, <2>2 DEF Write, StepRecord
  <2>6. RecordFits' /\ FieldsSpeak'
    BY <1>1, <2>5 DEF Resolves, StepRecord, StepInv, StepTypeOK, RecordFits, FieldsSpeak, AtWork
  <2> QED
    BY <1>1, <2>4, <2>6 DEF Resolves, StepInv, StepTypeOK
<1>2. CASE Refetches
  <2> DEFINE c == [status |-> "resolving", progress |-> 1, resumeFromStage |-> TRUE]
  <2>1. Write(c)
    BY <1>2 DEF Refetches
  <2>2. /\ DOMAIN c = {"status", "progress", "resumeFromStage"}
        /\ c["status"] = "resolving" /\ c["progress"] = 1
        /\ c["resumeFromStage"] = TRUE
    OBVIOUS
  <2>3. /\ c["status"] \in StepStatus /\ c["progress"] \in 0 .. 100
        /\ c["resumeFromStage"] \in BOOLEAN
    BY StatusNames
  <2> HIDE DEF c
  <2>4. record' \in StepRecord
    BY <1>0, <2>1, <2>2, <2>3, WriteTyped
  <2>5. /\ record.status' = "resolving" /\ record.progress' = 1
       /\ record.verification' = record.verification
       /\ record.artifactId' = record.artifactId
       /\ record.inferredMetadata' = record.inferredMetadata
    BY <1>0, <2>1, <2>2 DEF Write, StepRecord
  <2>6. RecordFits' /\ FieldsSpeak'
    BY <1>2, <2>5 DEF Refetches, StepRecord, StepInv, StepTypeOK, RecordFits, FieldsSpeak, AtWork
  <2> QED
    BY <1>2, <2>4, <2>6 DEF Refetches, StepInv, StepTypeOK
<1>3. CASE Downloads
  <2>1. Write([status |-> "downloading", progress |-> 2])
    BY <1>3 DEF Downloads
  <2>2. record' \in StepRecord
    BY <2>1, <1>0, WriteTyped, StatusNames
  <2>3. /\ record.status' = "downloading" /\ record.progress' = 2
       /\ record.verification' = record.verification
       /\ record.artifactId' = record.artifactId
       /\ record.inferredMetadata' = record.inferredMetadata
    BY <1>0, <2>1 DEF Write, StepRecord
  <2>4. RecordFits' /\ FieldsSpeak'
    BY <1>3, <2>3 DEF Downloads, StepRecord, StepInv, StepTypeOK, RecordFits, FieldsSpeak, AtWork
  <2> QED
    BY <1>3, <2>2, <2>4 DEF Downloads, StepInv, StepTypeOK
<1>4. CASE Transfers
  <2>1. PICK size \in {record.totalBytes, Bytes}, n \in 0 .. Bytes :
          Write([bytesDownloaded |-> n, totalBytes |-> size,
                 progress |-> IF size = Unknown THEN 20 ELSE 2 + (n * 87) \div size])
    BY <1>4 DEF Transfers
  <2> DEFINE share == IF size = Unknown THEN 20 ELSE 2 + (n * 87) \div size
  <2>2. size \in {Unknown, Bytes} /\ Bytes \in Nat \ {0}
    BY <1>0, StepAssumption DEF StepRecord
  <2>3. share \in 2 .. 91
    <3>1. CASE size = Unknown
      BY <3>1
    <3>2. CASE size # Unknown
      <4>1. (n * 87) \div size \in 0 .. 87
        BY <2>2, <3>2, TransferShare
      <4> QED
        BY <3>2, <4>1
    <3> QED
      BY <3>1, <3>2
  <2>4. Write([bytesDownloaded |-> n, totalBytes |-> size, progress |-> share])
    BY <2>1
  <2> HIDE DEF share
  <2>5. record' \in StepRecord
    BY <2>2, <2>3, <2>4, <1>0, WriteTyped
  <2>6. /\ record.status' = record.status /\ record.progress' = share
        /\ record.verification' = record.verification
        /\ record.artifactId' = record.artifactId
        /\ record.inferredMetadata' = record.inferredMetadata
    BY <1>0, <2>4 DEF Write, StepRecord
  <2>7. RecordFits' /\ FieldsSpeak'
    BY <1>4, <2>3, <2>6 DEF Transfers, StepRecord, StepInv, StepTypeOK, RecordFits, FieldsSpeak, AtWork
  <2> QED
    BY <1>4, <2>5, <2>7 DEF Transfers, StepInv, StepTypeOK
<1>5. CASE Verifies
  <2> DEFINE n == IF staged' = "inventory" THEN 98 ELSE 92
             c(x) == [status |-> "verifying", verification |-> x, resumeFromStage |-> TRUE,
                      progress |-> n]
  <2>1. PICK sized \in {"sized", "unsized"} : Write(c(sized))
    BY <1>5 DEF Verifies
  <2>2. /\ DOMAIN c(sized) = {"status", "verification", "resumeFromStage", "progress"}
        /\ c(sized)["status"] = "verifying" /\ c(sized)["verification"] = sized
        /\ c(sized)["resumeFromStage"] = TRUE /\ c(sized)["progress"] = n
    OBVIOUS
  <2>3. n \in 0 .. 100 /\ n < 99 /\ (staged' = "inventory" <=> n = 98)
    OBVIOUS
  <2> HIDE DEF c, n
  <2>4. c(sized)["status"] \in StepStatus /\ c(sized)["progress"] \in 0 .. 100
        /\ c(sized)["verification"] \in {"absent", "unsized", "sized"}
        /\ c(sized)["resumeFromStage"] \in BOOLEAN
    BY <2>2, <2>3, StatusNames
  <2>5. record' \in StepRecord
    BY <1>0, <2>1, <2>2, <2>4, WriteTyped
  <2>6. /\ record.status' = "verifying"
        /\ record.progress' = n
        /\ record.verification' = sized
        /\ record.artifactId' = record.artifactId
        /\ record.inferredMetadata' = record.inferredMetadata
    BY <1>0, <2>1, <2>2 DEF Write, StepRecord
  <2>7. staged' # "nothing" /\ staged' \in {"nothing", "result", "inventory"}
    BY <1>5 DEF Verifies, StepInv, StepTypeOK
  <2>8. ~record.artifactId /\ UNCHANGED refetched
    BY <1>5 DEF Verifies, StepInv, RecordFits
  <2>9. RecordFits' /\ FieldsSpeak'
    BY <2>3, <2>6, <2>7, <2>8 DEF StepInv, StepTypeOK, RecordFits, FieldsSpeak, AtWork
  <2> QED
    BY <1>5, <2>5, <2>7, <2>9 DEF Verifies, StepInv, StepTypeOK
<1>6. CASE Hashes
  <2>1. PICK n \in {92, 95, 98} : Write([progress |-> n, verification |-> "sized"])
    BY <1>6 DEF Hashes
  <2>2. record' \in StepRecord
    BY <2>1, <1>0, WriteTyped
  <2>3. /\ record.status' = record.status /\ record.progress' = n
        /\ record.verification' = "sized"
        /\ record.artifactId' = record.artifactId
        /\ record.inferredMetadata' = record.inferredMetadata
    BY <1>0, <2>1 DEF Write, StepRecord
  <2>4. RecordFits' /\ FieldsSpeak'
    BY <1>6, <2>3 DEF Hashes, StepRecord, StepInv, StepTypeOK, RecordFits, FieldsSpeak, AtWork
  <2> QED
    BY <1>6, <2>2, <2>4 DEF Hashes, StepInv, StepTypeOK
<1>7. CASE SavesInventory
  BY <1>7 DEF SavesInventory, StepInv, StepTypeOK, RecordFits, FieldsSpeak, AtWork
<1>8. CASE Awaits
  <2> DEFINE c == [status |-> "awaiting_confirmation", progress |-> 95, resolvedRevision |-> TRUE, inferredMetadata |-> TRUE]
  <2>1. Write(c)
    BY <1>8 DEF Awaits
  <2>2. /\ DOMAIN c = {"status", "progress", "resolvedRevision", "inferredMetadata"}
        /\ c["status"] = "awaiting_confirmation" /\ c["progress"] = 95
        /\ c["resolvedRevision"] = TRUE /\ c["inferredMetadata"] = TRUE
    OBVIOUS
  <2>3. /\ c["status"] \in StepStatus /\ c["progress"] \in 0 .. 100
        /\ c["resolvedRevision"] \in BOOLEAN /\ c["inferredMetadata"] \in BOOLEAN
    BY StatusNames
  <2> HIDE DEF c
  <2>4. record' \in StepRecord
    BY <1>0, <2>1, <2>2, <2>3, WriteTyped
  <2>5. /\ record.status' = "awaiting_confirmation" /\ record.progress' = 95
       /\ record.provider' = record.provider
       /\ record.verification' = record.verification
       /\ record.artifactId' = record.artifactId
       /\ record.inferredMetadata' = TRUE
    BY <1>0, <2>1, <2>2 DEF Write, StepRecord
  <2>6. RecordFits' /\ FieldsSpeak'
    BY <1>8, <2>5 DEF Awaits, StepRecord, StepInv, StepTypeOK, RecordFits, FieldsSpeak, AtWork
  <2> QED
    BY <1>8, <2>4, <2>6 DEF Awaits, StepInv, StepTypeOK
<1>9. CASE Confirms
  <2>1. Write([status |-> "verifying", progress |-> 96])
    BY <1>9 DEF Confirms
  <2>2. record' \in StepRecord
    BY <2>1, <1>0, WriteTyped, StatusNames
  <2>3. /\ record.status' = "verifying" /\ record.progress' = 96
       /\ record.verification' = record.verification
       /\ record.artifactId' = record.artifactId
       /\ record.inferredMetadata' = record.inferredMetadata
    BY <1>0, <2>1 DEF Write, StepRecord
  <2>4. RecordFits' /\ FieldsSpeak'
    BY <1>9, <2>3 DEF Confirms, StepRecord, StepInv, StepTypeOK, RecordFits, FieldsSpeak, AtWork
  <2> QED
    BY <1>9, <2>2, <2>4 DEF Confirms, StepInv, StepTypeOK
<1>10. CASE Publishes
  <2> DEFINE c == [status |-> "publishing", progress |-> 99, resolvedRevision |-> TRUE]
  <2>1. Write(c)
    BY <1>10 DEF Publishes
  <2>2. /\ DOMAIN c = {"status", "progress", "resolvedRevision"}
        /\ c["status"] = "publishing" /\ c["progress"] = 99
        /\ c["resolvedRevision"] = TRUE
    OBVIOUS
  <2>3. /\ c["status"] \in StepStatus /\ c["progress"] \in 0 .. 100
        /\ c["resolvedRevision"] \in BOOLEAN
    BY StatusNames
  <2> HIDE DEF c
  <2>4. record' \in StepRecord
    BY <1>0, <2>1, <2>2, <2>3, WriteTyped
  <2>5. /\ record.status' = "publishing" /\ record.progress' = 99
       /\ record.verification' = record.verification
       /\ record.artifactId' = record.artifactId
       /\ record.inferredMetadata' = record.inferredMetadata
    BY <1>0, <2>1, <2>2 DEF Write, StepRecord
  <2>6. RecordFits' /\ FieldsSpeak'
    BY <1>10, <2>5 DEF Publishes, StepRecord, StepInv, StepTypeOK, RecordFits, FieldsSpeak, AtWork
  <2> QED
    BY <1>10, <2>4, <2>6 DEF Publishes, StepInv, StepTypeOK
<1>11. CASE Completes
  <2> DEFINE c == [status |-> "completed", progress |-> 100, artifactId |-> TRUE, resumeFromStage |-> confirms /\ record.resumeFromStage]
  <2>1. Write(c)
    BY <1>11 DEF Completes
  <2>2. /\ DOMAIN c = {"status", "progress", "artifactId", "resumeFromStage"}
        /\ c["status"] = "completed" /\ c["progress"] = 100
        /\ c["artifactId"] = TRUE /\ c["resumeFromStage"] = (confirms /\ record.resumeFromStage)
    OBVIOUS
  <2>3. /\ c["status"] \in StepStatus /\ c["progress"] \in 0 .. 100
        /\ c["artifactId"] \in BOOLEAN /\ c["resumeFromStage"] \in BOOLEAN
    BY StatusNames, <1>0 DEF StepRecord
  <2> HIDE DEF c
  <2>4. record' \in StepRecord
    BY <1>0, <2>1, <2>2, <2>3, WriteTyped
  <2>5. /\ record.status' = "completed" /\ record.progress' = 100
       /\ record.verification' = record.verification
       /\ record.artifactId' = TRUE
       /\ record.inferredMetadata' = record.inferredMetadata
    BY <1>0, <2>1, <2>2 DEF Write, StepRecord
  <2>6. RecordFits' /\ FieldsSpeak'
    BY <1>11, <2>5 DEF Completes, StepRecord, StepInv, StepTypeOK, RecordFits, FieldsSpeak, AtWork
  <2> QED
    BY <1>11, <2>4, <2>6 DEF Completes, StepInv, StepTypeOK
<1>12. CASE Fails
  <2>1. CASE confirms
    BY <1>12, <2>1 DEF Fails, StepInv, StepTypeOK, RecordFits, FieldsSpeak, AtWork
  <2>2. CASE ~confirms
    <3>1. Write([status |-> "failed", resumeFromStage |-> TRUE])
      BY <1>12, <2>2 DEF Fails
    <3>2. record' \in StepRecord
      BY <3>1, <1>0, WriteTyped, StatusNames
    <3>3. /\ record.status' = "failed" /\ record.progress' = record.progress
         /\ record.verification' = record.verification
         /\ record.artifactId' = record.artifactId
         /\ record.inferredMetadata' = record.inferredMetadata
      BY <1>0, <3>1 DEF Write, StepRecord
    <3>4. RecordFits' /\ FieldsSpeak'
      BY <1>12, <2>2, <3>3 DEF Fails, StepRecord, StepInv, StepTypeOK, RecordFits, FieldsSpeak, AtWork, Working
    <3> QED
      BY <1>12, <2>2, <3>2, <3>4 DEF Fails, StepInv, StepTypeOK
  <2> QED
    BY <2>1, <2>2
<1>13. CASE Pauses
  <2>1. Write([status |-> "paused", resumeFromStage |-> TRUE])
    BY <1>13 DEF Pauses
  <2>2. record' \in StepRecord
    BY <2>1, <1>0, WriteTyped, StatusNames
  <2>3. /\ record.status' = "paused" /\ record.progress' = record.progress
       /\ record.verification' = record.verification
       /\ record.artifactId' = record.artifactId
       /\ record.inferredMetadata' = record.inferredMetadata
    BY <1>0, <2>1 DEF Write, StepRecord
  <2>4. RecordFits' /\ FieldsSpeak'
    BY <1>13, <2>3 DEF Pauses, StepRecord, StepInv, StepTypeOK, RecordFits, FieldsSpeak, AtWork
  <2> QED
    BY <1>13, <2>2, <2>4 DEF Pauses, StepInv, StepTypeOK
<1>14. CASE Resumes
  <2>1. PICK s \in {"queued", "scheduled"} : Write([status |-> s, resumeFromStage |-> TRUE])
    BY <1>14 DEF Resumes
  <2>2. record' \in StepRecord
    BY <2>1, <1>0, WriteTyped, StatusNames
  <2>3. /\ record.status' = s /\ record.progress' = record.progress
        /\ record.verification' = record.verification
        /\ record.artifactId' = record.artifactId
        /\ record.inferredMetadata' = record.inferredMetadata
    BY <1>0, <2>1 DEF Write, StepRecord
  <2>4. RecordFits' /\ FieldsSpeak'
    BY <1>14, <2>3 DEF Resumes, StepRecord, StepInv, StepTypeOK, RecordFits, FieldsSpeak, AtWork
  <2> QED
    BY <1>14, <2>2, <2>4 DEF Resumes, StepInv, StepTypeOK
<1>15. CASE Starts
  <2>1. Write([status |-> "queued"])
    BY <1>15 DEF Starts
  <2>2. record' \in StepRecord
    BY <2>1, <1>0, WriteTyped, StatusNames
  <2>3. /\ record.status' = "queued" /\ record.progress' = record.progress
       /\ record.verification' = record.verification
       /\ record.artifactId' = record.artifactId
       /\ record.inferredMetadata' = record.inferredMetadata
    BY <1>0, <2>1 DEF Write, StepRecord
  <2>4. RecordFits' /\ FieldsSpeak'
    BY <1>15, <2>3 DEF Starts, StepRecord, StepInv, StepTypeOK, RecordFits, FieldsSpeak, AtWork
  <2> QED
    BY <1>15, <2>2, <2>4 DEF Starts, StepInv, StepTypeOK
<1>16. CASE Cancels
  <2>1. Write([status |-> "cancelled"])
    BY <1>16 DEF Cancels
  <2>2. record' \in StepRecord
    BY <2>1, <1>0, WriteTyped, StatusNames
  <2>3. /\ record.status' = "cancelled" /\ record.progress' = record.progress
       /\ record.verification' = record.verification
       /\ record.artifactId' = record.artifactId
       /\ record.inferredMetadata' = record.inferredMetadata
    BY <1>0, <2>1 DEF Write, StepRecord
  <2>4. RecordFits' /\ FieldsSpeak'
    BY <1>16, <2>3 DEF Cancels, StepRecord, StepInv, StepTypeOK, RecordFits, FieldsSpeak, AtWork
  <2> QED
    BY <1>16, <2>2, <2>4 DEF Cancels, StepInv, StepTypeOK
<1>17. CASE Recovers
  <2> DEFINE c == [status |-> "queued", progress |-> 0, resumeFromStage |-> TRUE]
  <2>1. Write(c)
    BY <1>17 DEF Recovers
  <2>2. /\ DOMAIN c = {"status", "progress", "resumeFromStage"}
        /\ c["status"] = "queued" /\ c["progress"] = 0
        /\ c["resumeFromStage"] = TRUE
    OBVIOUS
  <2>3. /\ c["status"] \in StepStatus /\ c["progress"] \in 0 .. 100
        /\ c["resumeFromStage"] \in BOOLEAN
    BY StatusNames
  <2> HIDE DEF c
  <2>4. record' \in StepRecord
    BY <1>0, <2>1, <2>2, <2>3, WriteTyped
  <2>5. /\ record.status' = "queued" /\ record.progress' = 0
       /\ record.verification' = record.verification
       /\ record.artifactId' = record.artifactId
       /\ record.inferredMetadata' = record.inferredMetadata
    BY <1>0, <2>1, <2>2 DEF Write, StepRecord
  <2>6. RecordFits' /\ FieldsSpeak'
    BY <1>17, <2>5 DEF Recovers, StepRecord, StepInv, StepTypeOK, RecordFits, FieldsSpeak, AtWork, Working
  <2> QED
    BY <1>17, <2>4, <2>6 DEF Recovers, StepInv, StepTypeOK
<1>18. CASE UNCHANGED stepVars
  BY <1>18 DEF stepVars, StepInv, StepTypeOK, RecordFits, FieldsSpeak, AtWork
<1> QED
  BY <1>1, <1>2, <1>3, <1>4, <1>5, <1>6, <1>7, <1>8, <1>9, <1>10, <1>11, <1>12, <1>13, <1>14,
     <1>15, <1>16, <1>17, <1>18 DEF StepNext

\* The invariant of the record, for every size of a transfer and every order of stops,
\* failures, retries and restarts.
THEOREM StepsTypeCorrect == StepSpec => []StepInv
BY StepInitInv, StepKept, PTL DEF StepSpec

\* Where a step stands in a pipeline; one it does not have stands nowhere.
LEMMA Places ==
  /\ LET hub == <<"resolving", "downloading", "verifying", "publishing">> IN
     /\ IndexOf(hub, "resolving") = 1 /\ IndexOf(hub, "downloading") = 2
     /\ IndexOf(hub, "verifying") = 3 /\ IndexOf(hub, "publishing") = 4
     /\ IndexOf(hub, NoStep) = 0
  /\ LET modelscope == <<"resolving", "downloading", "processing", "verifying", "publishing">> IN
     /\ IndexOf(modelscope, "resolving") = 1 /\ IndexOf(modelscope, "downloading") = 2
     /\ IndexOf(modelscope, "processing") = 3 /\ IndexOf(modelscope, "verifying") = 4
     /\ IndexOf(modelscope, "publishing") = 5 /\ IndexOf(modelscope, NoStep) = 0
  /\ LET http == <<"resolving", "downloading", "confirmation", "verifying", "publishing">> IN
     /\ IndexOf(http, "resolving") = 1 /\ IndexOf(http, "downloading") = 2
     /\ IndexOf(http, "verifying") = 4 /\ IndexOf(http, "publishing") = 5
<1>1. ASSUME NEW keys, NEW i \in DOMAIN keys, \A j \in DOMAIN keys : keys[j] = keys[i] => j = i
      PROVE  IndexOf(keys, keys[i]) = i
  BY <1>1 DEF IndexOf
<1> DEFINE hub == <<"resolving", "downloading", "verifying", "publishing">>
           modelscope == <<"resolving", "downloading", "processing", "verifying", "publishing">>
           http == <<"resolving", "downloading", "confirmation", "verifying", "publishing">>
<1>2. /\ DOMAIN hub = 1 .. 4 /\ hub[1] = "resolving" /\ hub[2] = "downloading"
      /\ hub[3] = "verifying" /\ hub[4] = "publishing"
  OBVIOUS
<1>3. /\ DOMAIN modelscope = 1 .. 5 /\ modelscope[1] = "resolving"
      /\ modelscope[2] = "downloading" /\ modelscope[3] = "processing"
      /\ modelscope[4] = "verifying" /\ modelscope[5] = "publishing"
  OBVIOUS
<1>4. /\ DOMAIN http = 1 .. 5 /\ http[1] = "resolving" /\ http[2] = "downloading"
      /\ http[3] = "confirmation" /\ http[4] = "verifying" /\ http[5] = "publishing"
  OBVIOUS
<1> HIDE DEF hub, modelscope, http
<1>5. /\ IndexOf(hub, "resolving") = 1 /\ IndexOf(hub, "downloading") = 2
      /\ IndexOf(hub, "verifying") = 3 /\ IndexOf(hub, "publishing") = 4
  <2>1. \A i, j \in DOMAIN hub : hub[i] = hub[j] => i = j
    BY <1>2
  <2>2. \A i \in DOMAIN hub : IndexOf(hub, hub[i]) = i
    BY <1>1, <2>1
  <2> QED
    BY <1>2, <2>2
<1>6. /\ IndexOf(modelscope, "resolving") = 1 /\ IndexOf(modelscope, "downloading") = 2
      /\ IndexOf(modelscope, "processing") = 3 /\ IndexOf(modelscope, "verifying") = 4
      /\ IndexOf(modelscope, "publishing") = 5
  <2>1. \A i, j \in DOMAIN modelscope : modelscope[i] = modelscope[j] => i = j
    BY <1>3
  <2>2. \A i \in DOMAIN modelscope : IndexOf(modelscope, modelscope[i]) = i
    BY <1>1, <2>1
  <2> QED
    BY <1>3, <2>2
<1>7. /\ IndexOf(http, "resolving") = 1 /\ IndexOf(http, "downloading") = 2
      /\ IndexOf(http, "verifying") = 4 /\ IndexOf(http, "publishing") = 5
  <2>1. \A i, j \in DOMAIN http : http[i] = http[j] => i = j
    BY <1>4
  <2>2. \A i \in DOMAIN http : IndexOf(http, http[i]) = i
    BY <1>1, <2>1
  <2> QED
    BY <1>4, <2>2
<1>8. IndexOf(hub, NoStep) = 0 /\ IndexOf(modelscope, NoStep) = 0
  BY <1>2, <1>3 DEF IndexOf, NoStep
<1> QED
  BY <1>5, <1>6, <1>7, <1>8 DEF hub, modelscope, http

\* The step the interface takes a task to be at, by what has been saved of it.
LEMMA StepOfRecord ==
  ASSUME StepInv, AtWork, record.provider # "http"
  PROVE  LET step == CurrentTaskStep(record) IN
         \/ step \in {NoStep, "resolving", "downloading"}
         \/ step = "processing" /\ HasFinishedTransfer(record)
         \/ step = "verifying" /\ staged # "nothing"
         \/ step = "publishing" /\ staged = "inventory"
<1>1. \/ StoppedStep(record) \in {"resolving", "downloading"}
      \/ StoppedStep(record) = "processing" /\ HasFinishedTransfer(record)
      \/ StoppedStep(record) = "verifying" /\ staged # "nothing"
      \/ StoppedStep(record) = "publishing" /\ staged = "inventory"
  BY DEF StoppedStep, StepInv, RecordFits, FieldsSpeak, AtWork
<1>2. record.status \in StepStatus \ {"completed", "awaiting_confirmation"}
  BY DEF StepInv, StepTypeOK, StepRecord, RecordFits, AtWork
<1>3. CASE record.status \in Halted \cup {"scheduled", "queued"}
  BY <1>1, <1>3 DEF CurrentTaskStep, Halted
<1>4. CASE record.status \in {"downloading", "resolving"}
  BY <1>4 DEF CurrentTaskStep, Halted
<1>5. CASE record.status \in {"verifying", "publishing"}
  BY <1>5 DEF CurrentTaskStep, Halted, StepInv, FieldsSpeak
<1> QED
  BY <1>2, <1>3, <1>4, <1>5 DEF StepStatus, Halted

\* What is shown as complete of a task that is not completed lies before its current step.
LEMMA CompleteIsBefore ==
  ASSUME record.status # "completed", NEW step, ShownAs(step, "complete")
  PROVE  IndexOf(StepKeys(record), step) < IndexOf(StepKeys(record), CurrentTaskStep(record))
<1> DEFINE i == IndexOf(StepKeys(record), step)
           current == IndexOf(StepKeys(record), CurrentTaskStep(record))
<1>1. i \in DOMAIN StepKeys(record) /\ TaskStepsOf(record)[i] = "complete"
  BY DEF ShownAs, IndexOf
<1>2. IF i < current THEN TRUE ELSE IF i = current THEN ActiveState(record.status) = "complete"
                                                   ELSE FALSE
  BY <1>1 DEF TaskStepsOf
<1>3. ActiveState(record.status) # "complete"
  BY DEF ActiveState, Halted
<1> QED
  BY <1>2, <1>3

\* A step shown as complete is done, for every provider but the one of direct links, every
\* size of a transfer, and any order of stops, failures, retries and restarts.
THEOREM CompleteMeansDone == StepSpec => []CompleteStepsAreDone
<1>1. StepInv => CompleteStepsAreDone
  <2> SUFFICES ASSUME StepInv, AtWork, record.provider # "http" PROVE CompleteStepsAreDone
    BY DEF CompleteStepsAreDone, AtWork
  <2> DEFINE keys == StepKeys(record)
             step == CurrentTaskStep(record)
             Done == staged # "nothing" \/ (record.totalBytes # Unknown /\ record.bytesDownloaded = Bytes)
  <2>1. /\ record.status # "completed" /\ record.provider \in StepProviders
        /\ record.bytesDownloaded \in 0 .. Bytes /\ record.totalBytes \in {Unknown, Bytes}
    BY DEF AtWork, StepInv, StepTypeOK, StepRecord
  <2>2. HasFinishedTransfer(record) => Done /\ record.provider = "modelscope"
    BY <2>1, StepAssumption DEF HasFinishedTransfer
  <2>3. \/ step \in {NoStep, "resolving", "downloading"}
        \/ step = "processing" /\ HasFinishedTransfer(record)
        \/ step = "verifying" /\ staged # "nothing"
        \/ step = "publishing" /\ staged = "inventory"
    BY StepOfRecord
  <2> HIDE DEF step
  <2>4. CASE record.provider = "modelscope"
    <3>1. keys = <<"resolving", "downloading", "processing", "verifying", "publishing">>
      BY <2>4 DEF StepKeys
    <3> HIDE DEF keys
    <3>2. /\ IndexOf(keys, "downloading") < IndexOf(keys, step) => Done
          /\ IndexOf(keys, "verifying") < IndexOf(keys, step) => staged = "inventory"
      BY <2>2, <2>3, <3>1, Places
    <3> QED
      BY <2>1, <3>2, CompleteIsBefore DEF CompleteStepsAreDone, keys, step
  <2>5. CASE record.provider # "modelscope"
    <3>1. keys = <<"resolving", "downloading", "verifying", "publishing">>
      BY <2>5 DEF StepKeys
    <3> HIDE DEF keys
    <3>2. /\ IndexOf(keys, "downloading") < IndexOf(keys, step) => Done
          /\ IndexOf(keys, "verifying") < IndexOf(keys, step) => staged = "inventory"
      BY <2>2, <2>3, <2>5, <3>1, Places
    <3> QED
      BY <2>1, <3>2, CompleteIsBefore DEF CompleteStepsAreDone, keys, step
  <2> QED
    BY <2>4, <2>5
<1> QED
  BY <1>1, StepsTypeCorrect, PTL

\* A task at work has a bar at a step of its pipeline, and one that is not has no moving bar.
THEOREM WorkShown == StepSpec => []WorkIsVisible
<1>1. StepInv => WorkIsVisible
  <2> SUFFICES ASSUME StepInv PROVE WorkIsVisible
    OBVIOUS
  <2> DEFINE step == CurrentTaskStep(record)
             keys == StepKeys(record)
  <2>1. record.status \in StepStatus
    BY DEF StepInv, StepTypeOK, StepRecord
  <2>2. CASE record.status \in Working
    <3>1. \/ step = record.status
          \/ /\ step = "processing" /\ record.status = "downloading"
             /\ record.provider = "modelscope"
      BY <2>2 DEF CurrentTaskStep, Working, Halted, HasFinishedTransfer
    <3>2. step \in {"resolving", "downloading", "processing", "verifying", "publishing"}
      BY <2>2, <3>1 DEF Working
    <3>3. IndexOf(keys, step) # 0
      <4>1. CASE record.provider = "modelscope"
        <5>1. keys = <<"resolving", "downloading", "processing", "verifying", "publishing">>
          BY <4>1 DEF StepKeys
        <5> HIDE DEF keys, step
        <5> QED
          BY <3>2, <5>1, Places
      <4>2. CASE record.provider = "http"
        <5>1. keys = <<"resolving", "downloading", "confirmation", "verifying", "publishing">>
          BY <4>2 DEF StepKeys
        <5>2. step \in {"resolving", "downloading", "verifying", "publishing"}
          BY <2>2, <3>1, <4>2 DEF Working
        <5> HIDE DEF keys, step
        <5> QED
          BY <5>1, <5>2, Places
      <4>3. CASE record.provider \notin {"modelscope", "http"}
        <5>1. keys = <<"resolving", "downloading", "verifying", "publishing">>
          BY <4>3 DEF StepKeys
        <5>2. step \in {"resolving", "downloading", "verifying", "publishing"}
          BY <2>2, <3>1, <4>3 DEF Working
        <5> HIDE DEF keys, step
        <5> QED
          BY <5>1, <5>2, Places
      <4> QED
        BY <4>1, <4>2, <4>3
    <3> HIDE DEF step
    <3>4. step # NoStep
      BY <3>2 DEF NoStep
    <3>5. TaskStepProgress(record).bar /\ (TaskStepProgress(record).percent
                                             \/ TaskStepProgress(record).indeterminate)
      BY <3>1, <3>2, <3>4 DEF TaskStepProgress, step
    <3> QED
      BY <2>2, <3>3, <3>5 DEF WorkIsVisible, step
  <2>3. CASE record.status \notin Working
    <3>1. step # record.status \/ step = NoStep
      BY <2>1, <2>3 DEF CurrentTaskStep, StoppedStep, Halted, Working, StepStatus, NoStep
    <3>2. ~TaskStepProgress(record).indeterminate
      BY <2>3, <3>1 DEF TaskStepProgress, Working
    <3> QED
      BY <2>3, <3>2 DEF WorkIsVisible
  <2> QED
    BY <2>2, <2>3
<1> QED
  BY <1>1, StepsTypeCorrect, PTL

\* The writes that stop a task at work leave alone what the interface locates its step by.
LEMMA StopLeavesFields ==
  ASSUME StepInv, StepNext, record.status \in Working, record.status' \in Halted
  PROVE  /\ record.provider' = record.provider /\ record.artifactId' = record.artifactId
         /\ record.progress' = record.progress /\ record.verification' = record.verification
         /\ record.inferredMetadata' = record.inferredMetadata
         /\ record.totalBytes' = record.totalBytes
         /\ record.bytesDownloaded' = record.bytesDownloaded
         /\ record.resolvedRevision' = record.resolvedRevision
<1>1. record \in StepRecord
  BY DEF StepInv, StepTypeOK
<1>2. ~(Resolves \/ Refetches \/ Resumes \/ Starts \/ Confirms)
  BY DEF Resolves, Refetches, Resumes, Starts, Confirms, Working
<1>3. ~(Downloads \/ Awaits \/ Publishes \/ Completes \/ Recovers)
  <2>1. ASSUME NEW c, Write(c), "status" \in DOMAIN c, c["status"] \notin Halted PROVE FALSE
    BY <1>1, <2>1 DEF Write, StepRecord
  <2>2. ~Downloads
    BY <2>1 DEF Downloads, Halted
  <2>3. ~Awaits
    BY <2>1 DEF Awaits, Halted
  <2>4. ~Publishes
    BY <2>1 DEF Publishes, Halted
  <2>5. ~Completes
    BY <2>1 DEF Completes, Halted
  <2>6. ~Recovers
    BY <2>1 DEF Recovers, Halted
  <2> QED
    BY <2>2, <2>3, <2>4, <2>5, <2>6
<1>4. ~(Transfers \/ Verifies \/ Hashes \/ SavesInventory)
  <2>1. ASSUME NEW c, Write(c), "status" \notin DOMAIN c PROVE FALSE
    BY <1>1, <2>1 DEF Write, StepRecord, Halted, Working
  <2>2. ~Transfers
    BY <2>1 DEF Transfers
  <2>3. ~Verifies
    <3>1. ASSUME NEW c, Write(c), "status" \in DOMAIN c, c["status"] = "verifying" PROVE FALSE
      BY <1>1, <3>1 DEF Write, StepRecord, Halted
    <3> QED
      BY <3>1 DEF Verifies
  <2>4. ~Hashes
    BY <2>1 DEF Hashes
  <2>5. ~SavesInventory
    BY DEF SavesInventory, Working, Halted
  <2> QED
    BY <2>2, <2>3, <2>4, <2>5
<1>5. CASE Fails
  <2>1. Write([status |-> "failed", resumeFromStage |-> TRUE])
    BY <1>5 DEF Fails, Working, Halted
  <2> QED
    BY <1>1, <2>1 DEF Write, StepRecord
<1>6. CASE Pauses
  <2>1. Write([status |-> "paused", resumeFromStage |-> TRUE])
    BY <1>6 DEF Pauses
  <2> QED
    BY <1>1, <2>1 DEF Write, StepRecord
<1>7. CASE Cancels
  <2>1. Write([status |-> "cancelled"])
    BY <1>7 DEF Cancels
  <2> QED
    BY <1>1, <2>1 DEF Write, StepRecord
<1> QED
  BY <1>2, <1>3, <1>4, <1>5, <1>6, <1>7 DEF StepNext

\* A stop, a failure or a cancellation does not move the step a task is shown to be at.
THEOREM StopsKeepStep == StepSpec => StopKeepsStep
<1> DEFINE Halts == record.status \in Working \ {"resolving"} /\ record'.status \in Halted /\ ~refetched
<1>1. StepInv /\ [StepNext]_stepVars
        => [Halts => CurrentTaskStep(record') = CurrentTaskStep(record)]_stepVars
  <2> SUFFICES ASSUME StepInv, StepNext, Halts
               PROVE  CurrentTaskStep(record') = CurrentTaskStep(record)
    OBVIOUS
  <2>1. /\ record.provider' = record.provider /\ record.artifactId' = record.artifactId
        /\ record.progress' = record.progress /\ record.verification' = record.verification
        /\ record.inferredMetadata' = record.inferredMetadata
        /\ record.totalBytes' = record.totalBytes
        /\ record.bytesDownloaded' = record.bytesDownloaded
        /\ record.resolvedRevision' = record.resolvedRevision
    BY StopLeavesFields
  <2>2. StoppedStep(record') = StoppedStep(record)
    BY <2>1 DEF StoppedStep, HasFinishedTransfer
  <2>3. CurrentTaskStep(record') = StoppedStep(record)
    BY <2>2 DEF CurrentTaskStep, Halted
  <2>4. AtWork /\ ~record.artifactId
    BY DEF AtWork, Working, StepInv, RecordFits
  <2>5. CASE record.status = "downloading"
    <3>1. /\ record.verification = "absent" /\ ~record.inferredMetadata
          /\ record.progress \in 2 .. 91
      BY <2>4, <2>5 DEF StepInv, RecordFits, FieldsSpeak
    <3> QED
      BY <2>3, <2>4, <2>5, <3>1 DEF CurrentTaskStep, StoppedStep, Halted
  <2>6. CASE record.status = "verifying"
    <3>1. record.verification # "absent" /\ ~(record.progress >= 99)
      BY <2>6 DEF StepInv, StepTypeOK, StepRecord, RecordFits
    <3> QED
      BY <2>3, <2>4, <2>6, <3>1 DEF CurrentTaskStep, StoppedStep, Halted
  <2>7. CASE record.status = "publishing"
    BY <2>3, <2>7 DEF CurrentTaskStep, StoppedStep, Halted, StepInv, RecordFits
  <2> QED
    BY <2>5, <2>6, <2>7 DEF Working
<1> QED
  BY <1>1, StepsTypeCorrect, PTL DEF StepSpec, StopKeepsStep

-----------------------------------------------------------------------------
(* The details of a task: whose record is shown, which buttons can be pressed, and what is    *)
(* ticked.                                                                                    *)
USE DetailAssumption

\* Types.

\* A call of a page that is gone.
LEMMA Disowned ==
  ASSUME NEW c \in Call
  PROVE  /\ [c EXCEPT !.mine = FALSE] \in Call
         /\ ~[c EXCEPT !.mine = FALSE].mine
BY DEF Call

\* A call that has been answered.
LEMMA AnswerKeeps ==
  ASSUME NEW c \in Call, NEW a \in Status \cup {"none", "refused"}
  PROVE  LET d == [c EXCEPT !.answer = a] IN
         /\ d \in Call
         /\ d.mine = c.mine /\ d.control = c.control /\ d.id = c.id
BY DEF Call

\* What a poll can answer.
PollAnswer == Record \cup {[id |-> t, status |-> "gone"] : t \in DetailTasks}

LEMMA PollAnswers ==
  ASSUME DetailTypeOK, NEW t \in DetailTasks
  PROVE  PollOf(t) \subseteq PollAnswer
<1>1. held[t] \in Status
  BY DEF DetailTypeOK
<1>2. CASE held[t] = "gone"
  BY <1>2 DEF PollOf, PollAnswer
<1>3. CASE held[t] # "gone"
  BY <1>1, <1>3 DEF PollOf, PollAnswer, Record
<1> QED
  BY <1>2, <1>3

LEMMA FreshTypes ==
  ASSUME DetailTypeOK, Fresh
  PROVE  /\ detail' = NoDetail /\ actionBusy' = FALSE
         /\ opened' = {} /\ busy' = {} /\ option' = FALSE
         /\ calls' \subseteq Call
         /\ \A c \in calls' : ~c.mine
<1>1. /\ detail' = NoDetail /\ actionBusy' = FALSE
      /\ opened' = {} /\ busy' = {} /\ option' = FALSE
      /\ calls' = {[c EXCEPT !.mine = FALSE] : c \in calls}
  BY DEF Fresh
<1>2. calls \subseteq Call
  BY DEF DetailTypeOK
<1> QED
  BY <1>1, <1>2, Disowned

LEMMA SendTypes ==
  ASSUME DetailTypeOK, NEW c \in Controls, Send(c), shown \in DetailTasks
  PROVE  calls' \subseteq Call
<1>1. [control |-> c, id |-> shown, mine |-> TRUE, answer |-> "none"] \in Call
  BY DEF Call
<1> QED
  BY <1>1 DEF Send, DetailTypeOK

LEMMA LiveShows == DetailTypeOK /\ Live => shown \in DetailTasks
BY DEF Live, DetailTypeOK

\* The part of the type invariant that the component of one task is in charge of.
LEMMA DetailInitType == DetailInit => DetailTypeOK
BY DEF DetailInit, DetailTypeOK, Status

\* What a step may do to the records, and to what is open, and keep the types.
LEMMA RenderTypes ==
  ASSUME DetailTypeOK, NEW d \in Record, Render(d)
  PROVE  /\ detail' \in Record \cup {NoDetail}
         /\ opened' \subseteq opened /\ busy' \subseteq Controls
         /\ option' \in BOOLEAN
<1>1. option' \in BOOLEAN
  BY DEF Render
<1> QED
  BY <1>1 DEF Render, DetailTypeOK

LEMMA FailedTypes ==
  ASSUME DetailTypeOK, NEW c \in Call, CallFailed(c)
  PROVE  /\ actionBusy' \in BOOLEAN /\ busy' \subseteq Controls
         /\ UNCHANGED <<detail, opened, option>>
<1>1. actionBusy' \in BOOLEAN
  BY DEF CallFailed, Released
<1> QED
  BY <1>1 DEF CallFailed, DetailTypeOK

\* A call is answered by a status the task then has.
AnsweredWell == \A c \in calls : c.answer = "gone" => c.control = "delete"

LEMMA SucceededTypes ==
  ASSUME DetailTypeOK, AnsweredWell, NEW c \in calls, CallSucceeded(c),
         c.answer \notin {"none", "refused"}
  PROVE  /\ detail' = (IF c.control = "delete" THEN detail
                       ELSE [id |-> c.id, status |-> c.answer])
         /\ detail' \in Record \cup {NoDetail}
         /\ actionBusy' \in BOOLEAN
         /\ opened' \subseteq Popovers /\ busy' \subseteq Controls
         /\ option' \in BOOLEAN
<1>1. /\ c \in Call /\ c.id \in DetailTasks
      /\ c.answer \in Status \cup {"none", "refused"}
  BY DEF DetailTypeOK, Call
<1>2. actionBusy' \in BOOLEAN /\ option' \in BOOLEAN
  BY DEF CallSucceeded, Released
<1>3. detail' = IF c.control = "delete" THEN detail ELSE [id |-> c.id, status |-> c.answer]
  BY DEF CallSucceeded
<1>4. opened' \subseteq opened /\ busy' \subseteq busy
  BY DEF CallSucceeded
<1>5. detail' \in Record \cup {NoDetail}
  <2>1. CASE c.control = "delete"
    BY <1>3, <2>1 DEF DetailTypeOK
  <2>2. CASE c.control # "delete"
    <3>1. c.answer \in Status \ {"gone"}
      BY <1>1, <2>2 DEF AnsweredWell
    <3> QED
      BY <1>1, <1>3, <2>2, <3>1 DEF Record
  <2> QED
    BY <2>1, <2>2
<1> QED
  BY <1>2, <1>3, <1>4, <1>5 DEF DetailTypeOK

\* A popover is open over the details of some task only, and other pages have none.
OpenIsShown == /\ opened # {} => shown \in DetailTasks
               /\ route = Elsewhere => shown = NoId

TypeInv == DetailTypeOK /\ AnsweredWell /\ OpenIsShown

\* Calls that are a part of those there were, or the same.
LEMMA FewerCalls ==
  ASSUME TypeInv, calls' \subseteq calls
  PROVE  calls' \subseteq Call /\ AnsweredWell'
BY DEF TypeInv, AnsweredWell, DetailTypeOK

LEMMA FreshAnswered == TypeInv /\ Fresh => AnsweredWell'
<1> SUFFICES ASSUME TypeInv, Fresh PROVE AnsweredWell'
  OBVIOUS
<1>1. ASSUME NEW c \in calls
      PROVE  [c EXCEPT !.mine = FALSE].answer = c.answer
             /\ [c EXCEPT !.mine = FALSE].control = c.control
  BY DEF TypeInv, DetailTypeOK, Call
<1>2. calls' = {[c EXCEPT !.mine = FALSE] : c \in calls}
  BY DEF Fresh
<1> SUFFICES ASSUME NEW d \in calls', d.answer = "gone" PROVE d.control = "delete"
  BY DEF AnsweredWell
<1>3. PICK c \in calls : d = [c EXCEPT !.mine = FALSE]
  BY <1>2
<1> QED
  BY <1>1, <1>3 DEF AnsweredWell, TypeInv

LEMMA SendAnswered ==
  ASSUME TypeInv, NEW c, Send(c)
  PROVE  AnsweredWell'
BY DEF TypeInv, AnsweredWell, Send

\* Every step keeps the types.
LEMMA TypeStep == TypeInv /\ [DetailNext]_detailVars => TypeInv'
<1> SUFFICES ASSUME TypeInv, [DetailNext]_detailVars PROVE TypeInv'
  OBVIOUS
<1> DetailTypeOK
  BY DEF TypeInv
<1> USE DEF component, Queue, Elsewhere, NoId
<1>1. CASE TaskProceeds
  <2>1. PICK t \in DetailTasks, s \in Status : held' = [held EXCEPT ![t] = s]
    BY <1>1 DEF TaskProceeds
  <2>2. held' \in [DetailTasks -> Status]
    BY <2>1 DEF DetailTypeOK
  <2>3. UNCHANGED <<route, shown, component, polls, calls, crossed>>
    BY <1>1 DEF TaskProceeds
  <2> QED
    BY <2>2, <2>3 DEF TypeInv, OpenIsShown, DetailTypeOK, AnsweredWell
<1>2. CASE OpenTask
  <2>1. PICK t \in DetailTasks :
          /\ route' = t /\ shown' = ShownFor(t)
          /\ polls' = IF shown' = t THEN PollOf(t) ELSE {}
          /\ IF shown' = shown THEN UNCHANGED <<component, calls>> ELSE Fresh
    BY <1>2 DEF OpenTask
  <2>2. shown' = t /\ polls' \subseteq PollAnswer
    BY <2>1, PollAnswers DEF ShownFor
  <2>3. UNCHANGED <<held, crossed>>
    BY <1>2 DEF OpenTask
  <2>4. CASE UNCHANGED <<component, calls>>
    BY <2>1, <2>2, <2>3, <2>4 DEF TypeInv, OpenIsShown, DetailTypeOK, AnsweredWell, PollAnswer
  <2>5. CASE Fresh
    <3>1. /\ detail' = NoDetail /\ actionBusy' = FALSE /\ opened' = {} /\ busy' = {}
          /\ option' = FALSE /\ calls' \subseteq Call
      BY <2>5, FreshTypes
    <3>2. DetailTypeOK'
      BY <2>1, <2>2, <2>3, <3>1 DEF DetailTypeOK, PollAnswer
    <3>3. OpenIsShown'
      BY <2>1, <3>1 DEF OpenIsShown
    <3> QED
      BY <2>5, <3>2, <3>3, FreshAnswered DEF TypeInv
  <2> QED
    BY <2>1, <2>4, <2>5
<1>3. CASE CloseTask
  BY <1>3 DEF CloseTask, ToQueue, TypeInv, OpenIsShown, DetailTypeOK, AnsweredWell
<1>4. CASE ModalFolded \/ LeavePage
  <2>1. /\ Fresh /\ shown' = NoId /\ UNCHANGED <<held, crossed>>
        /\ route' \in {route, Elsewhere} /\ polls' \in {polls, {}}
    BY <1>4 DEF ModalFolded, LeavePage
  <2> QED
    BY <2>1, FreshTypes, FreshAnswered DEF TypeInv, OpenIsShown, DetailTypeOK
<1>5. CASE DetailPoll
  <2>1. polls' = polls \cup PollOf(shown) /\ shown \in DetailTasks
    BY <1>5, LiveShows DEF DetailPoll
  <2>2. polls' \subseteq PollAnswer
    BY <2>1, PollAnswers DEF DetailTypeOK, PollAnswer
  <2>3. UNCHANGED <<held, route, shown, component, calls, crossed>>
    BY <1>5 DEF DetailPoll
  <2> QED
    BY <2>2, <2>3 DEF TypeInv, OpenIsShown, DetailTypeOK, AnsweredWell, PollAnswer
<1>6. CASE PollReturns
  <2>1. PICK p \in polls :
          /\ polls' = polls \ {p}
          /\ IF p.status = "gone" THEN UNCHANGED <<detail, opened, busy, option>> ELSE Render(p)
    BY <1>6 DEF PollReturns
  <2>2. UNCHANGED <<held, route, shown, actionBusy, calls, crossed>>
    BY <1>6 DEF PollReturns
  <2>3. CASE p.status = "gone"
    BY <2>1, <2>2, <2>3 DEF TypeInv, OpenIsShown, DetailTypeOK, AnsweredWell
  <2>4. CASE p.status # "gone"
    <3>1. p \in Record
      BY <2>4 DEF DetailTypeOK
    <3>2. Render(p)
      BY <2>1, <2>4
    <3> QED
      BY <2>1, <2>2, <3>1, <3>2, RenderTypes DEF TypeInv, OpenIsShown, DetailTypeOK, AnsweredWell
  <2> QED
    BY <2>3, <2>4
<1>7. CASE PollBreaks
  <2>1. polls' \subseteq polls /\ UNCHANGED <<held, route, shown, component, calls, crossed>>
    BY <1>7 DEF PollBreaks
  <2> QED
    BY <2>1 DEF TypeInv, OpenIsShown, DetailTypeOK, AnsweredWell
<1>8. CASE Press
  <2>1. PICK c \in Direct : Enabled(c) /\ Send(c)
    BY <1>8 DEF Press
  <2>2. c \in Controls /\ shown \in DetailTasks
    BY <2>1, LiveShows DEF Controls, Enabled
  <2>3. actionBusy' = TRUE
        /\ UNCHANGED <<held, route, shown, detail, opened, busy, option, polls, crossed>>
    BY <1>8 DEF Press
  <2> QED
    BY <2>1, <2>2, <2>3, SendTypes, SendAnswered DEF TypeInv, OpenIsShown, DetailTypeOK
<1>9. CASE OpenPopover
  BY <1>9 DEF OpenPopover, Enabled, Live, TypeInv, OpenIsShown, DetailTypeOK, AnsweredWell
<1>10. CASE DismissPopover
  <2>1. PICK c \in opened : opened' = opened \ {c} /\ Unchecked(c)
    BY <1>10 DEF DismissPopover
  <2>2. option' \in BOOLEAN
    BY <2>1 DEF Unchecked
  <2>3. UNCHANGED <<held, route, shown, detail, actionBusy, busy, polls, calls, crossed>>
    BY <1>10 DEF DismissPopover
  <2> QED
    BY <2>1, <2>2, <2>3 DEF TypeInv, OpenIsShown, DetailTypeOK, AnsweredWell
<1>11. CASE CheckOption
  <2>1. option' \in BOOLEAN
    BY <1>11 DEF CheckOption
  <2> QED
    BY <1>11, <2>1 DEF CheckOption, TypeInv, OpenIsShown, DetailTypeOK, AnsweredWell
<1>12. CASE ConfirmPopover
  <2>1. PICK c \in opened \ busy : busy' = busy \cup {c} /\ Send(c)
    BY <1>12 DEF ConfirmPopover
  <2>2. c \in Controls
    BY <2>1 DEF DetailTypeOK, Controls
  <2>3. /\ actionBusy' = TRUE /\ crossed' \in BOOLEAN
        /\ UNCHANGED <<held, route, shown, detail, opened, option, polls>>
    BY <1>12 DEF ConfirmPopover
  <2>4. shown \in DetailTasks
    BY <2>1 DEF TypeInv, OpenIsShown
  <2> QED
    BY <2>1, <2>2, <2>3, <2>4, SendTypes, SendAnswered DEF TypeInv, OpenIsShown, DetailTypeOK
<1>13. CASE SubmitConfirmation
  <2>1. /\ Live /\ Send("confirm") /\ busy' = busy \cup {"confirm"}
        /\ UNCHANGED <<held, route, shown, detail, actionBusy, opened, option, polls, crossed>>
    BY <1>13 DEF SubmitConfirmation
  <2>2. "confirm" \in Controls
    BY DEF Controls
  <2> QED
    BY <2>1, <2>2, LiveShows, SendTypes, SendAnswered DEF TypeInv, OpenIsShown, DetailTypeOK
<1>14. CASE CallServed
  <2>1. PICK c \in calls :
          \/ /\ Allowed(c.control, held[c.id])
             /\ \E s \in Results(c.control) :
                  /\ held' = [held EXCEPT ![c.id] = s]
                  /\ calls' = (calls \ {c}) \cup {[c EXCEPT !.answer = s]}
          \/ /\ calls' = (calls \ {c}) \cup {[c EXCEPT !.answer = "refused"]}
             /\ UNCHANGED held
    BY <1>14 DEF CallServed
  <2>2. UNCHANGED <<route, shown, component, polls, crossed>>
    BY <1>14 DEF CallServed
  <2>3. c \in Call /\ c.control \in Controls /\ c.id \in DetailTasks
    BY DEF DetailTypeOK, Call
  <2>4. \A s \in Results(c.control) : s \in Status /\ (s = "gone" => c.control = "delete")
    BY <2>3 DEF Results, Status, Controls, Direct, Popovers
  <2>5. held' \in [DetailTasks -> Status]
    BY <2>1, <2>4 DEF DetailTypeOK
  <2>6. PICK a \in Status \cup {"none", "refused"} :
          /\ calls' = (calls \ {c}) \cup {[c EXCEPT !.answer = a]}
          /\ a = "gone" => c.control = "delete"
    BY <2>1, <2>4 DEF Status
  <2>7. [c EXCEPT !.answer = a] \in Call /\ [c EXCEPT !.answer = a].control = c.control
    BY <2>3, AnswerKeeps
  <2>8. [c EXCEPT !.answer = a].answer = a
    BY <2>3 DEF Call
  <2>9. calls' \subseteq Call
    BY <2>6, <2>7 DEF DetailTypeOK
  <2>10. AnsweredWell'
    BY <2>6, <2>7, <2>8 DEF TypeInv, AnsweredWell
  <2> QED
    BY <2>2, <2>5, <2>9, <2>10 DEF TypeInv, OpenIsShown, DetailTypeOK
<1>15. CASE CallReturns
  <2>1. PICK c \in calls :
          /\ c.answer # "none" /\ calls' = calls \ {c}
          /\ IF c.control = "delete" /\ c.answer = "gone"
               THEN /\ route' = Queue /\ polls' = {}
                    /\ shown' = IF route = Elsewhere THEN NoId ELSE shown
               ELSE UNCHANGED <<route, polls, shown>>
          /\ CASE ~c.mine -> UNCHANGED component
               [] c.mine /\ c.answer = "refused" -> CallFailed(c)
               [] OTHER -> CallSucceeded(c)
    BY <1>15 DEF CallReturns
  <2>2. c \in Call
    BY DEF DetailTypeOK
  <2>3. UNCHANGED <<held, crossed>>
    BY <1>15 DEF CallReturns
  <2>4. shown' = shown /\ polls' \subseteq polls /\ route' \in {route, Queue}
    BY <2>1 DEF TypeInv, OpenIsShown
  <2>5. calls' \subseteq Call /\ AnsweredWell'
    BY <2>1, FewerCalls
  <2>6. /\ detail' \in Record \cup {NoDetail} /\ actionBusy' \in BOOLEAN /\ option' \in BOOLEAN
        /\ opened' \subseteq opened /\ busy' \subseteq Controls
    <3>1. CASE ~c.mine
      BY <2>1, <3>1 DEF DetailTypeOK
    <3>2. CASE c.mine /\ c.answer = "refused"
      BY <2>1, <2>2, <3>2, FailedTypes DEF DetailTypeOK
    <3>3. CASE c.mine /\ c.answer # "refused"
      <4>1. CallSucceeded(c)
        BY <2>1, <3>3
      <4>2. opened' \subseteq opened
        BY <4>1 DEF CallSucceeded
      <4> QED
        BY <2>1, <3>3, <4>1, <4>2, SucceededTypes DEF TypeInv
    <3> QED
      BY <3>1, <3>2, <3>3
  <2> QED
    BY <2>3, <2>4, <2>5, <2>6 DEF TypeInv, OpenIsShown, DetailTypeOK
<1>16. CASE CallBreaks
  <2>1. PICK c \in calls :
          calls' = calls \ {c} /\ IF c.mine THEN CallFailed(c) ELSE UNCHANGED component
    BY <1>16 DEF CallBreaks
  <2>2. UNCHANGED <<held, route, shown, polls, crossed>>
    BY <1>16 DEF CallBreaks
  <2>3. calls' \subseteq Call /\ AnsweredWell'
    BY <2>1, FewerCalls
  <2>4. CASE CallFailed(c)
    BY <2>2, <2>3, <2>4, FailedTypes DEF TypeInv, OpenIsShown, DetailTypeOK
  <2>5. CASE UNCHANGED component
    BY <2>2, <2>3, <2>5 DEF TypeInv, OpenIsShown, DetailTypeOK
  <2> QED
    BY <2>1, <2>4, <2>5
<1>17. CASE UNCHANGED detailVars
  BY <1>17 DEF detailVars, TypeInv, OpenIsShown, DetailTypeOK, AnsweredWell
<1> QED
  BY <1>1, <1>2, <1>3, <1>4, <1>5, <1>6, <1>7, <1>8, <1>9, <1>10, <1>11, <1>12, <1>13, <1>14,
     <1>15, <1>16, <1>17 DEF DetailNext

LEMMA TypeInit == DetailInit => TypeInv
<1> SUFFICES ASSUME DetailInit PROVE TypeInv
  OBVIOUS
<1>1. calls = {} /\ opened = {} /\ shown = NoId
  BY DEF DetailInit
<1> QED
  BY <1>1, DetailInitType DEF TypeInv, AnsweredWell, OpenIsShown

\* Every variable of the details keeps its type, and a deletion alone takes a task away.
THEOREM DetailTypeCorrect == DetailSpec => []DetailTypeOK
<1>1. TypeInv => DetailTypeOK
  BY DEF TypeInv
<1> QED
  BY <1>1, TypeInit, TypeStep, PTL DEF DetailSpec

-----------------------------------------------------------------------------
(* Whose record is shown                                                   *)

\* Polls on their way, and calls the component still waits for, are for the task it shows.
PollsAreOfShown == \A p \in polls : p.id = shown /\ Live
CallsAreOfShown == \A c \in calls : c.mine => c.id = shown
ShownInv == PollsAreOfShown /\ CallsAreOfShown /\ DetailIsOfShown

\* A component that begins has no record, and no call is its own.
LEMMA FreshOfShown ==
  ASSUME TypeInv, Fresh
  PROVE  CallsAreOfShown' /\ DetailIsOfShown'
<1>1. detail' = NoDetail /\ \A c \in calls' : ~c.mine
  BY FreshTypes DEF TypeInv
<1> QED
  BY <1>1 DEF CallsAreOfShown, DetailIsOfShown

\* What does not change the record, the address or the calls.
LEMMA ShownElsewhere ==
  ASSUME ShownInv, UNCHANGED <<route, shown, detail>>,
         polls' \subseteq polls, calls' \subseteq calls
  PROVE  ShownInv'
BY DEF ShownInv, PollsAreOfShown, CallsAreOfShown, DetailIsOfShown, Live

LEMMA SendOfShown ==
  ASSUME ShownInv, NEW c, Send(c), UNCHANGED <<route, shown, detail, polls>>
  PROVE  ShownInv'
BY DEF ShownInv, PollsAreOfShown, CallsAreOfShown, DetailIsOfShown, Live, Send

LEMMA ShownStep == TypeInv /\ ShownInv /\ [DetailNext]_detailVars => ShownInv'
<1> SUFFICES ASSUME TypeInv, ShownInv, [DetailNext]_detailVars PROVE ShownInv'
  OBVIOUS
<1> USE DEF component
<1>1. CASE OpenTask
  <2>1. PICK t \in DetailTasks :
          /\ route' = t /\ shown' = ShownFor(t)
          /\ polls' = IF shown' = t THEN PollOf(t) ELSE {}
          /\ IF shown' = shown THEN UNCHANGED <<component, calls>> ELSE Fresh
    BY <1>1 DEF OpenTask
  <2>2. shown' = t /\ route' = t /\ polls' = PollOf(t)
    BY <2>1 DEF ShownFor
  <2>3. PollsAreOfShown'
    BY <2>2 DEF PollsAreOfShown, PollOf, Live
  <2>4. CASE shown' = shown
    BY <2>1, <2>3, <2>4 DEF ShownInv, CallsAreOfShown, DetailIsOfShown
  <2>5. CASE shown' # shown
    BY <2>1, <2>3, <2>5, FreshOfShown DEF ShownInv
  <2> QED
    BY <2>4, <2>5
<1>2. CASE CloseTask
  BY <1>2 DEF CloseTask, ToQueue, ShownInv, PollsAreOfShown, CallsAreOfShown, DetailIsOfShown
<1>3. CASE ModalFolded
  <2>1. polls' = {}
    BY <1>3 DEF ModalFolded, ShownInv, PollsAreOfShown, Live, Queue, NoId
  <2> QED
    BY <1>3, <2>1, FreshOfShown DEF ModalFolded, ShownInv, PollsAreOfShown
<1>4. CASE LeavePage
  BY <1>4, FreshOfShown DEF LeavePage, ShownInv, PollsAreOfShown
<1>5. CASE DetailPoll
  <2>1. /\ Live /\ polls' = polls \cup {[id |-> shown, status |-> held[shown]]}
        /\ UNCHANGED <<route, shown, detail, calls>>
    BY <1>5 DEF DetailPoll, PollOf
  <2> QED
    BY <2>1 DEF ShownInv, PollsAreOfShown, CallsAreOfShown, DetailIsOfShown, Live
<1>6. CASE PollReturns
  <2>1. PICK p \in polls :
          /\ polls' = polls \ {p}
          /\ IF p.status = "gone" THEN UNCHANGED <<detail, opened, busy, option>> ELSE Render(p)
    BY <1>6 DEF PollReturns
  <2>2. UNCHANGED <<route, shown, calls>>
    BY <1>6 DEF PollReturns
  <2>3. detail' \in {detail, p} /\ p.id = shown
    BY <2>1 DEF Render, ShownInv, PollsAreOfShown
  <2> QED
    BY <2>1, <2>2, <2>3 DEF ShownInv, PollsAreOfShown, CallsAreOfShown, DetailIsOfShown, Live
<1>7. CASE TaskProceeds \/ PollBreaks \/ OpenPopover \/ DismissPopover \/ CheckOption
  <2>1. UNCHANGED <<route, shown, detail, calls>> /\ polls' \subseteq polls
    BY <1>7 DEF TaskProceeds, PollBreaks, OpenPopover, DismissPopover, CheckOption
  <2> QED
    BY <2>1, ShownElsewhere
<1>8. CASE Press \/ ConfirmPopover \/ SubmitConfirmation
  <2>1. UNCHANGED <<route, shown, detail, polls>> /\ \E c : Send(c)
    BY <1>8 DEF Press, ConfirmPopover, SubmitConfirmation
  <2> QED
    BY <2>1, SendOfShown
<1>9. CASE CallServed
  <2>1. PICK c \in calls, a \in Status \cup {"none", "refused"} :
          calls' = (calls \ {c}) \cup {[c EXCEPT !.answer = a]}
    <3>1. PICK c \in calls :
            \/ \E a \in Results(c.control) :
                 calls' = (calls \ {c}) \cup {[c EXCEPT !.answer = a]}
            \/ calls' = (calls \ {c}) \cup {[c EXCEPT !.answer = "refused"]}
      BY <1>9 DEF CallServed
    <3>2. c.control \in Controls
      BY DEF TypeInv, DetailTypeOK, Call
    <3>3. Results(c.control) \subseteq Status
      BY <3>2 DEF Results, Status, Controls, Direct, Popovers
    <3> QED
      BY <3>1, <3>3
  <2>2. c \in Call
    BY DEF TypeInv, DetailTypeOK
  <2>3. [c EXCEPT !.answer = a].mine = c.mine /\ [c EXCEPT !.answer = a].id = c.id
    BY <2>2, AnswerKeeps
  <2>4. CallsAreOfShown'
    BY <1>9, <2>1, <2>3 DEF CallServed, ShownInv, CallsAreOfShown
  <2> QED
    BY <1>9, <2>4 DEF CallServed, ShownInv, PollsAreOfShown, DetailIsOfShown, Live
<1>10. CASE CallReturns
  <2>1. PICK c \in calls :
          /\ c.answer # "none" /\ calls' = calls \ {c}
          /\ IF c.control = "delete" /\ c.answer = "gone"
               THEN /\ route' = Queue /\ polls' = {}
                    /\ shown' = IF route = Elsewhere THEN NoId ELSE shown
               ELSE UNCHANGED <<route, polls, shown>>
          /\ CASE ~c.mine -> UNCHANGED component
               [] c.mine /\ c.answer = "refused" -> CallFailed(c)
               [] OTHER -> CallSucceeded(c)
    BY <1>10 DEF CallReturns
  <2>2. shown' = shown
    BY <2>1 DEF TypeInv, OpenIsShown
  <2>3. PollsAreOfShown' /\ CallsAreOfShown'
    BY <2>1, <2>2 DEF ShownInv, PollsAreOfShown, CallsAreOfShown, Live
  <2>4. detail' = detail \/ (c.mine /\ detail'.id = c.id)
    BY <2>1 DEF CallFailed, CallSucceeded
  <2> QED
    BY <2>2, <2>3, <2>4 DEF ShownInv, CallsAreOfShown, DetailIsOfShown
<1>11. CASE CallBreaks
  <2>1. calls' \subseteq calls /\ UNCHANGED <<route, shown, detail, polls>>
    BY <1>11 DEF CallBreaks, CallFailed
  <2> QED
    BY <2>1, ShownElsewhere
<1>12. CASE UNCHANGED detailVars
  BY <1>12, ShownElsewhere DEF detailVars
<1> QED
  BY <1>1, <1>2, <1>3, <1>4, <1>5, <1>6, <1>7, <1>8, <1>9, <1>10, <1>11, <1>12 DEF DetailNext

LEMMA ShownInit == DetailInit => ShownInv
<1> SUFFICES ASSUME DetailInit PROVE ShownInv
  OBVIOUS
<1>1. polls = {} /\ calls = {} /\ detail = NoDetail
  BY DEF DetailInit
<1> QED
  BY <1>1 DEF ShownInv, PollsAreOfShown, CallsAreOfShown, DetailIsOfShown

\* The record that is shown belongs to the task that is shown, whatever was asked about
\* others and however late it is answered.
THEOREM RecordIsOfShown == DetailSpec => []DetailIsOfShown
<1>1. ShownInv => DetailIsOfShown
  BY DEF ShownInv
<1> QED
  BY <1>1, TypeInit, TypeStep, ShownInit, ShownStep, PTL DEF DetailSpec

-----------------------------------------------------------------------------
(* Which buttons can be pressed, and what is ticked                        *)

\* As long as no two requests have crossed, one button at a time waits for its request, not
\* counting the form of HTTP downloads: all others are disabled by actionBusy, and the one
\* inside a popover that is still open by its own busy.
Waits(c) == c.mine /\ c.control # "confirm"
OneWaits ==
  ~crossed =>
    \A c \in calls :
      Waits(c) => /\ actionBusy /\ c.control \notin opened \ busy
                  /\ \A d \in calls : Waits(d) => d = c

\* Controls that go take their popovers and what waits in them along.
LEMMA WaitsElsewhere ==
  ASSUME OneWaits, UNCHANGED <<actionBusy, crossed>>, calls' \subseteq calls,
         opened' \ busy' \subseteq opened \ busy
  PROVE  OneWaits'
BY DEF OneWaits, Waits

\* A component that begins waits for nothing.
LEMMA FreshWaits == TypeInv /\ Fresh => OneWaits'
<1> SUFFICES ASSUME TypeInv, Fresh PROVE OneWaits'
  OBVIOUS
<1>1. \A c \in calls' : ~c.mine
  BY FreshTypes DEF TypeInv
<1> QED
  BY <1>1 DEF OneWaits, Waits

\* When a call of a popover or a button ends none waits any more.
LEMMA EndKeeps ==
  ASSUME TypeInv, OneWaits, NEW c \in calls, c.mine, calls' = calls \ {c}, Released(c.control),
         crossed' = crossed, opened' \ (busy' \cup {c.control}) \subseteq opened \ busy
  PROVE  OneWaits'
<1>1. CASE c.control = "confirm"
  <2>1. actionBusy' = actionBusy
    BY <1>1 DEF Released, TypeInv, DetailTypeOK
  <2> QED
    BY <1>1, <2>1 DEF OneWaits, Waits
<1>2. CASE c.control # "confirm"
  <2>1. ~crossed => \A d \in calls' : ~Waits(d)
    BY <1>2 DEF OneWaits, Waits
  <2> QED
    BY <2>1 DEF OneWaits, Waits
<1> QED
  BY <1>1, <1>2

\* The only request that waits is the one that has just been sent.
LEMMA SendWaits ==
  ASSUME NEW c, Send(c), actionBusy' = TRUE, c \notin opened' \ busy',
         ~crossed' => \A d \in calls : ~Waits(d)
  PROVE  OneWaits'
<1> DEFINE n == [control |-> c, id |-> shown, mine |-> TRUE, answer |-> "none"]
<1>1. calls' = calls \cup {n} /\ n.control = c
  BY DEF Send
<1> HIDE DEF n
<1>2. ~crossed' => \A d \in calls' : Waits(d) => d = n
  BY <1>1
<1> QED
  BY <1>1, <1>2 DEF OneWaits, Waits

LEMMA WaitsStep == TypeInv /\ OneWaits /\ [DetailNext]_detailVars => OneWaits'
<1> SUFFICES ASSUME TypeInv, OneWaits, [DetailNext]_detailVars PROVE OneWaits'
  OBVIOUS
<1> USE DEF component
<1>1. CASE OpenTask \/ ModalFolded \/ LeavePage
  <2>1. Fresh \/ UNCHANGED <<component, calls, crossed>>
    BY <1>1 DEF OpenTask, ModalFolded, LeavePage
  <2> QED
    BY <2>1, FreshWaits, WaitsElsewhere
<1>2. CASE PollReturns
  <2>1. PICK p \in polls :
          IF p.status = "gone" THEN UNCHANGED <<detail, opened, busy, option>> ELSE Render(p)
    BY <1>2 DEF PollReturns
  <2>2. UNCHANGED <<actionBusy, calls, crossed>>
    BY <1>2 DEF PollReturns
  <2>3. opened' \ busy' \subseteq opened \ busy
    BY <2>1 DEF Render
  <2> QED
    BY <2>2, <2>3, WaitsElsewhere
<1>3. CASE \/ TaskProceeds \/ CloseTask \/ DetailPoll \/ PollBreaks \/ CheckOption
           \/ UNCHANGED detailVars
  <2>1. UNCHANGED <<actionBusy, opened, busy, calls, crossed>>
    BY <1>3 DEF TaskProceeds, CloseTask, DetailPoll, PollBreaks, CheckOption, detailVars
  <2> QED
    BY <2>1, WaitsElsewhere
<1>4. CASE Press
  <2>1. PICK c \in Direct : Enabled(c) /\ Send(c)
    BY <1>4 DEF Press
  <2>2. actionBusy' = TRUE /\ UNCHANGED <<opened, busy, crossed>>
    BY <1>4 DEF Press
  <2>3. ~crossed => \A d \in calls : ~Waits(d)
    BY <2>1 DEF Enabled, OneWaits
  <2>4. c \notin opened
    BY <2>1 DEF TypeInv, DetailTypeOK, Direct, Popovers
  <2> QED
    BY <2>1, <2>2, <2>3, <2>4, SendWaits
<1>5. CASE OpenPopover
  <2>1. ~actionBusy /\ UNCHANGED <<calls, crossed>>
    BY <1>5 DEF OpenPopover, Enabled
  <2> QED
    BY <2>1 DEF OneWaits
<1>6. CASE DismissPopover
  <2>1. opened' \subseteq opened /\ UNCHANGED <<actionBusy, busy, calls, crossed>>
    BY <1>6 DEF DismissPopover
  <2> QED
    BY <2>1, WaitsElsewhere
<1>7. CASE ConfirmPopover
  <2>1. PICK c \in opened \ busy : busy' = busy \cup {c} /\ Send(c)
    BY <1>7 DEF ConfirmPopover
  <2>2. actionBusy' = TRUE /\ crossed' = (crossed \/ actionBusy) /\ UNCHANGED opened
    BY <1>7 DEF ConfirmPopover
  <2>3. ~crossed' => \A d \in calls : ~Waits(d)
    BY <2>2 DEF OneWaits
  <2> QED
    BY <2>1, <2>2, <2>3, SendWaits
<1>8. CASE SubmitConfirmation
  <2>1. /\ Send("confirm") /\ busy' = busy \cup {"confirm"}
        /\ UNCHANGED <<actionBusy, opened, crossed>>
    BY <1>8 DEF SubmitConfirmation
  <2> QED
    BY <2>1 DEF OneWaits, Waits, Send
<1>9. CASE CallServed
  <2>1. PICK c \in calls, a \in Status \cup {"none", "refused"} :
          calls' = (calls \ {c}) \cup {[c EXCEPT !.answer = a]}
    <3>1. PICK c \in calls :
            \/ \E a \in Results(c.control) :
                 calls' = (calls \ {c}) \cup {[c EXCEPT !.answer = a]}
            \/ calls' = (calls \ {c}) \cup {[c EXCEPT !.answer = "refused"]}
      BY <1>9 DEF CallServed
    <3>2. c.control \in Controls
      BY DEF TypeInv, DetailTypeOK, Call
    <3>3. Results(c.control) \subseteq Status
      BY <3>2 DEF Results, Status, Controls, Direct, Popovers
    <3> QED
      BY <3>1, <3>3
  <2> DEFINE e == [c EXCEPT !.answer = a]
  <2>2. c \in Call
    BY DEF TypeInv, DetailTypeOK
  <2>3. e.mine = c.mine /\ e.control = c.control
    BY <2>2, AnswerKeeps
  <2>4. calls' = (calls \ {c}) \cup {e}
    BY <2>1
  <2>5. UNCHANGED <<actionBusy, opened, busy, crossed>>
    BY <1>9 DEF CallServed
  <2> HIDE DEF e
  <2> QED
    BY <2>3, <2>4, <2>5 DEF OneWaits, Waits
<1>10. CASE CallReturns
  <2>1. PICK c \in calls :
          /\ calls' = calls \ {c}
          /\ CASE ~c.mine -> UNCHANGED component
               [] c.mine /\ c.answer = "refused" -> CallFailed(c)
               [] OTHER -> CallSucceeded(c)
    BY <1>10 DEF CallReturns
  <2>2. crossed' = crossed
    BY <1>10 DEF CallReturns
  <2>3. CASE ~c.mine
    BY <2>1, <2>2, <2>3, WaitsElsewhere
  <2>4. CASE c.mine
    <3>1. Released(c.control) /\ opened' \ (busy' \cup {c.control}) \subseteq opened \ busy
      <4>1. CASE CallFailed(c)
        BY <4>1 DEF CallFailed
      <4>2. CASE CallSucceeded(c)
        BY <4>2 DEF CallSucceeded
      <4> QED
        BY <2>1, <2>4, <4>1, <4>2
    <3> QED
      BY <2>1, <2>2, <2>4, <3>1, EndKeeps
  <2> QED
    BY <2>3, <2>4
<1>11. CASE CallBreaks
  <2>1. PICK c \in calls :
          calls' = calls \ {c} /\ IF c.mine THEN CallFailed(c) ELSE UNCHANGED component
    BY <1>11 DEF CallBreaks
  <2>2. crossed' = crossed
    BY <1>11 DEF CallBreaks
  <2>3. CASE ~c.mine
    BY <2>1, <2>2, <2>3, WaitsElsewhere
  <2>4. CASE c.mine
    <3>1. Released(c.control) /\ opened' \ (busy' \cup {c.control}) \subseteq opened \ busy
      BY <2>1, <2>4 DEF CallFailed
    <3> QED
      BY <2>1, <2>2, <2>4, <3>1, EndKeeps
  <2> QED
    BY <2>3, <2>4
<1> QED
  BY <1>1, <1>2, <1>3, <1>4, <1>5, <1>6, <1>7, <1>8, <1>9, <1>10, <1>11 DEF DetailNext

\* No button can be pressed again while its request is under way, unless two have crossed.
THEOREM RequestsAreSingle == DetailSpec => []OneRequestPerControl
<1>1. DetailInit => OneWaits
  BY DEF DetailInit, OneWaits
<1>2. TypeInv /\ OneWaits => OneRequestPerControl
  <2> SUFFICES ASSUME TypeInv, OneWaits, ~crossed, NEW c \in calls, c.mine
               PROVE  IF c.control \in Direct THEN ~Enabled(c.control)
                      ELSE c.control \notin opened \ busy
    BY DEF OneRequestPerControl
  <2>1. CASE c.control = "confirm"
    BY <2>1 DEF TypeInv, DetailTypeOK, Popovers, Direct
  <2>2. CASE c.control # "confirm"
    BY <2>2 DEF OneWaits, Waits, Enabled
  <2> QED
    BY <2>1, <2>2
<1> QED
  BY <1>1, <1>2, TypeInit, TypeStep, WaitsStep, PTL DEF DetailSpec

\* Nothing is ticked but by the user, in the confirmation that is open.
THEOREM TickedByUser == DetailSpec => []OptionIsDeliberate
<1>1. DetailInit => OptionIsDeliberate
  BY DEF DetailInit, OptionIsDeliberate
<1>2. OptionIsDeliberate /\ [DetailNext]_detailVars => OptionIsDeliberate'
  <2> SUFFICES ASSUME OptionIsDeliberate, [DetailNext]_detailVars PROVE OptionIsDeliberate'
    OBVIOUS
  <2> USE DEF OptionIsDeliberate, component
  <2>1. CASE OpenTask \/ ModalFolded \/ LeavePage
    BY <2>1 DEF OpenTask, ModalFolded, LeavePage, Fresh
  <2>2. CASE PollReturns
    BY <2>2 DEF PollReturns, Render
  <2>3. CASE CallReturns
    BY <2>3 DEF CallReturns, CallFailed, CallSucceeded
  <2>4. CASE CallBreaks
    BY <2>4 DEF CallBreaks, CallFailed
  <2>5. CASE DismissPopover
    BY <2>5 DEF DismissPopover, Unchecked
  <2>6. CASE CheckOption
    BY <2>6 DEF CheckOption
  <2>7. CASE OpenPopover
    BY <2>7 DEF OpenPopover
  <2>8. CASE \/ TaskProceeds \/ CloseTask \/ DetailPoll \/ PollBreaks \/ Press
             \/ ConfirmPopover \/ SubmitConfirmation \/ CallServed \/ UNCHANGED detailVars
    <3>1. UNCHANGED <<opened, option>>
      BY <2>8 DEF TaskProceeds, CloseTask, DetailPoll, PollBreaks, Press, ConfirmPopover,
                  SubmitConfirmation, CallServed, detailVars
    <3> QED
      BY <3>1
  <2> QED
    BY <2>1, <2>2, <2>3, <2>4, <2>5, <2>6, <2>7, <2>8 DEF DetailNext
<1> QED
  BY <1>1, <1>2, PTL DEF DetailSpec

-----------------------------------------------------------------------------
(* The three modules side by side, as the run has them.                     *)

\* What is a step of one module leaves the variables of the others alone.
LEMMA SideBySide ==
  ASSUME [DownloadsNext]_downloadsVars
  PROVE  /\ [StepNext]_stepVars
         /\ [QueueNext]_queueVars
         /\ [DetailNext]_detailVars
<1>1. CASE OnSteps(StepNext)
  BY <1>1 DEF OnSteps
<1>2. CASE OnQueue(QueueNext)
  BY <1>2 DEF OnQueue
<1>3. CASE OnDetail(DetailNext)
  BY <1>3 DEF OnDetail
<1>4. CASE UNCHANGED downloadsVars
  BY <1>4 DEF downloadsVars
<1> QED
  BY <1>1, <1>2, <1>3, <1>4 DEF DownloadsNext

\* DownloadsTypeOK: the record of a task, the page of all downloads and the details of one keep
\* their types, from the invariant of each.
THEOREM DownloadsTypeCorrect == DownloadsSpec => []DownloadsTypeOK
<1> DEFINE Inv == StepInv /\ QueueShape /\ TypeInv
<1>1. DownloadsInit => Inv
  BY StepInitInv, QueueInitShape, TypeInit DEF DownloadsInit
<1>2. Inv /\ [DownloadsNext]_downloadsVars => Inv'
  BY SideBySide, StepKept, QueueShapeStep, TypeStep
<1>3. Inv => DownloadsTypeOK
  BY QueueShapeTypes DEF DownloadsTypeOK, StepInv, TypeInv
<1> QED
  BY <1>1, <1>2, <1>3, PTL DEF DownloadsSpec

=============================================================================
