--------------------------- MODULE DownloadQueue ---------------------------
(***************************************************************************)
(* The page of all downloads, packages/ui/src/pages/TasksPage.tsx, and the *)
(* tasks of the server that it shows.                                      *)
(*                                                                         *)
(* An action is one event of the browser (a click, a timer, the answer to  *)
(* a request) or one request the server handles.  The page polls without   *)
(* waiting for the poll before, so any number of answers may be on their   *)
(* way and arrive in any order, with deletions and moves in between.       *)
(***************************************************************************)
EXTENDS Lists

CONSTANTS
  QueueTasks,    \* tasks, numbered in the order of their creation
  PageSize,      \* rows of a page
  MaxLoads,      \* bound on the polls on their way at once
  MaxChanges,    \* bound on what happens to tasks elsewhere
  MaxClicks,     \* bound on what the user does
  MaxLost        \* bound on the requests that fail

ASSUME QueueAssumption ==
  /\ QueueTasks \subseteq Nat \ {0} /\ IsFiniteSet(QueueTasks)
  /\ PageSize \in Nat \ {0}
  /\ MaxLoads \in Nat /\ MaxChanges \in Nat /\ MaxClicks \in Nat /\ MaxLost \in Nat

VARIABLES
  tasks,      \* the server: the status of each task
  line,       \* the server: the queued and paused tasks by queue_position
  filter,     \* statusFilter of the page's address; the other two filters are alike
  offset,     \* offset of the page's address
  rows,       \* the state `tasks` of the page
  total,
  loading,
  rowsOf,     \* the filter and offset `rows` were loaded for
  missed,     \* the last poll of the current effect to end has failed
  loads,      \* polls of the current effect with the page that answers them
  dragged,    \* draggedTaskId
  move,       \* the request of reorderQueue; there is one while reorderingQueue
  deletes,    \* requests of deleteTask
  deleting,   \* deletingTaskId
  queueSpent  \* how much of each bound is used up

queueVars == <<tasks, line, filter, offset, rows, total, loading, rowsOf, missed,
               loads, dragged, move, deletes, deleting, queueSpent>>
server == <<tasks, line>>
page   == <<filter, offset, rows, total, loading, rowsOf, missed, loads>>
hands  == <<dragged, move, deletes, deleting>>

NoTask == 0
NoMove == [phase |-> "none"]

QueueStatus == {"absent", "queued", "paused", "running", "completed"}
Sortable == {"queued", "paused"}
Terminal == {"completed"}
Filters  == {"active-paused", "all"}

Row  == [id : QueueTasks, status : QueueStatus \ {"absent"}, place : Nat]
Load == [rows : Seq(Row), total : Nat, of : Filters \X Nat]

\* A request of deleteTask: `busy` while the confirmation that sent it is there.
Deletion == [id : QueueTasks, click : Nat, busy : BOOLEAN, served : BOOLEAN]

QueueTypeOK ==
  /\ tasks \in [QueueTasks -> QueueStatus]
  /\ line \in Seq(QueueTasks)
  /\ filter \in Filters /\ offset \in Nat
  /\ rows \in Seq(Row) /\ total \in Nat /\ loading \in BOOLEAN
  /\ missed \in BOOLEAN
  /\ rowsOf \in Filters \X Nat
  /\ \A l \in loads : l \in Load
  /\ dragged \in QueueTasks \cup {NoTask}
  /\ move.phase \in {"none", "sent", "served"}
  /\ deletes \subseteq Deletion
  /\ deleting \in QueueTasks \cup {NoTask}

-----------------------------------------------------------------------------
(* The server's answers: task_page of app.py, move_queued of tasks.py *)

Shows(f, status) == status # "absent" /\ (f = "all" \/ status \notin Terminal)

Matching(f) == {t \in QueueTasks : Shows(f, tasks[t])}

\* The newest task comes first.
Rank(t, S) == Cardinality({u \in S : u >= t})

PlaceOf(t) == IF \E i \in DOMAIN line : line[i] = t THEN CHOOSE i \in DOMAIN line : line[i] = t
                                                    ELSE 0

AsRow(t) == [id |-> t, status |-> tasks[t], place |-> PlaceOf(t)]

PageOf(f, o) ==
  LET S     == Matching(f)
      after == Cardinality(S) - o
      size  == IF o >= Cardinality(S) THEN 0 ELSE IF after < PageSize THEN after ELSE PageSize
  IN  [i \in 1 .. size |-> AsRow(CHOOSE t \in S : Rank(t, S) = o + i)]

\* A row that may be deleted has a DeleteConfirm.  When its row goes, so does what the
\* confirmation remembers of its request: a row that comes back has a new one, not busy.
HasConfirm(list, t) == \E r \in Range(list) : r.id = t /\ r.status \in Terminal
StillBusy(sent, list) == {[d EXCEPT !.busy = d.busy /\ HasConfirm(list, d.id)] : d \in sent}

\* A bug for comparison: a poll always asks for the first page.
AnswerFirstPage(f, o) ==
  [rows |-> PageOf(f, 0), total |-> Cardinality(Matching(f)), of |-> <<f, o>>]

\* `load` of the effect: it closes over the filter and the offset it was made with.
Answer(f, o) == [rows |-> PageOf(f, o), total |-> Cardinality(Matching(f)), of |-> <<f, o>>]

Without(s, t) == Only(s, Range(s) \ {t})

Moved(s, t, target, after) ==
  LET rest == Without(s, t)
      i    == CHOOSE j \in DOMAIN rest : rest[j] = target
      cut  == IF after THEN i ELSE i - 1
  IN  SubSeq(rest, 1, cut) \o <<t>> \o SubSeq(rest, cut + 1, Len(rest))

-----------------------------------------------------------------------------
(* What the page renders *)

Query == <<filter, offset>>

RowIds == {rows[i].id : i \in DOMAIN rows}
RowOf(t) == rows[CHOOSE i \in DOMAIN rows : rows[i].id = t]

\* The grip of a row; queueRow finds the same rows for a drop.
HasGrip(t) == t \in RowIds /\ RowOf(t).status \in Sortable

\* The pager.
HasPager   == total > PageSize

PageIsCurrent == rows = PageOf(filter, offset) /\ total = Cardinality(Matching(filter))

-----------------------------------------------------------------------------
QueueInit ==
  /\ tasks \in [QueueTasks -> {"queued", "paused", "running", "completed"}]
  /\ Cardinality({t \in QueueTasks : tasks[t] \in Sortable}) >= 2
  /\ \A t, u \in QueueTasks : t < u => (tasks[t] = "queued" => tasks[u] \in Sortable)
  /\ line = LET S == {t \in QueueTasks : tasks[t] \in Sortable} IN
            [i \in 1 .. Cardinality(S) |->
               CHOOSE t \in S : Cardinality({u \in S : u <= t}) = i]
  /\ filter = "active-paused" /\ offset = 0
  /\ rows = <<>> /\ total = 0 /\ loading = TRUE /\ rowsOf = <<filter, offset>>
  /\ missed = FALSE
  /\ loads = {Answer(filter, offset)}
  /\ dragged = NoTask /\ move = NoMove
  /\ deletes = {} /\ deleting = NoTask
  /\ queueSpent = [changes |-> 0, clicks |-> 0, lost |-> 0]

Spend(bound, limit) ==
  /\ queueSpent[bound] < limit
  /\ queueSpent' = [queueSpent EXCEPT ![bound] = @ + 1]

Clicks == Spend("clicks", MaxClicks)

\* Elsewhere a task is started, ends, is put off or is taken back.
TaskChanges ==
  /\ Spend("changes", MaxChanges)
  /\ \E t \in QueueTasks, s \in QueueStatus :
       /\ <<tasks[t], s>> \in {<<"queued", "running">>, <<"running", "completed">>,
                               <<"running", "paused">>, <<"queued", "paused">>}
       /\ tasks' = [tasks EXCEPT ![t] = s]
       /\ line' = IF s \notin Sortable THEN Without(line, t)
                  ELSE IF tasks[t] \in Sortable THEN line ELSE Append(line, t)
  /\ UNCHANGED <<page, hands>>

\* A bug for comparison: the answers to polls of the old effect are taken.
EffectCleanupSkipped(pending) == pending

\* The effect that polls is cleaned up and made anew: loading is set, the answers to the
\* polls of the old effect are ignored, and the first of the new ones is sent.
EffectCleanup(pending) == {}

Restart(f, o) ==
  /\ filter' = f /\ offset' = o
  /\ loading' = TRUE /\ missed' = FALSE
  /\ loads' = EffectCleanup(loads) \cup {Answer(f, o)}
  /\ UNCHANGED <<rows, total, rowsOf>>

\* updateFilters returns to the first page; an address that does not change keeps the effect.
UpdateFilters ==
  /\ Clicks
  /\ \E f \in Filters : <<f, 0>> # Query /\ Restart(f, 0)
  /\ UNCHANGED <<server, hands>>

PreviousPage ==
  /\ Clicks /\ HasPager /\ offset # 0
  /\ Restart(filter, IF offset > PageSize THEN offset - PageSize ELSE 0)
  /\ UNCHANGED <<server, hands>>

NextPage ==
  /\ Clicks /\ HasPager /\ offset + Len(rows) < total
  /\ Restart(filter, offset + PageSize)
  /\ UNCHANGED <<server, hands>>

\* The interval timer sends the next poll, whatever became of those before it.
Poll ==
  /\ Cardinality(loads) < MaxLoads
  /\ loads' = loads \cup {Answer(filter, offset)}
  /\ UNCHANGED <<server, hands, filter, offset, rows, total, loading, rowsOf, missed, queueSpent>>

LoadReturns ==
  /\ \E l \in loads :
       /\ rows' = l.rows /\ total' = l.total /\ rowsOf' = l.of
       /\ loads' = loads \ {l}
       /\ deletes' = StillBusy(deletes, l.rows)
  /\ loading' = FALSE /\ missed' = FALSE
  /\ UNCHANGED <<server, dragged, move, deleting, filter, offset, queueSpent>>

LoadFails ==
  /\ Spend("lost", MaxLost)
  /\ \E l \in loads : loads' = loads \ {l}
  /\ loading' = FALSE /\ missed' = TRUE
  /\ UNCHANGED <<server, hands, filter, offset, rows, total, rowsOf>>

\* A bug for comparison: the total is counted down below zero.
ForgetUncounted(t) ==
  /\ rows' = Only(rows, {r \in Range(rows) : r.id # t})
  /\ total' = total - 1
  /\ UNCHANGED <<filter, offset, loading, rowsOf, missed, loads>>

\* Rows and total after a deletion: of deleteTask, and of taskDeleted for the details, which
\* may be open before the rows have been loaded.
Forget(t) ==
  /\ rows' = Only(rows, {r \in Range(rows) : r.id # t})
  /\ total' = IF total > 0 THEN total - 1 ELSE 0
  /\ UNCHANGED <<filter, offset, loading, rowsOf, missed, loads>>

Drop(t) == tasks' = [tasks EXCEPT ![t] = "absent"] /\ line' = Without(line, t)

\* The trigger of a row's DeleteConfirm is disabled for deletingTaskId only, and while its
\* own request is out.
DeleteTask ==
  /\ Clicks
  /\ \E t \in RowIds :
       /\ HasConfirm(rows, t) /\ deleting # t
       /\ ~\E d \in deletes : d.id = t /\ d.busy
       /\ deleting' = t
       /\ deletes' = deletes \cup
            {[id |-> t, click |-> queueSpent.clicks, busy |-> TRUE, served |-> FALSE]}
  /\ UNCHANGED <<server, page, dragged, move>>

DeleteServed ==
  /\ \E d \in deletes :
       /\ ~d.served
       /\ IF tasks[d.id] \in Terminal
            THEN Drop(d.id) /\ deletes' = (deletes \ {d}) \cup {[d EXCEPT !.served = TRUE]}
            ELSE deletes' = deletes \ {d} /\ UNCHANGED server
       /\ deleting' = IF tasks[d.id] \in Terminal THEN deleting ELSE NoTask
  /\ UNCHANGED <<page, dragged, move, queueSpent>>

DeleteReturns ==
  /\ \E d \in deletes :
       /\ d.served /\ Forget(d.id)
       /\ deletes' = StillBusy(deletes \ {d}, rows')
  /\ deleting' = NoTask
  /\ UNCHANGED <<server, dragged, move, queueSpent>>

\* The request or its answer is lost.
DeleteFails ==
  /\ Spend("lost", MaxLost)
  /\ \E d \in deletes : deletes' = deletes \ {d}
  /\ deleting' = NoTask
  /\ UNCHANGED <<server, page, dragged, move>>

\* The details of a task, which lie over the page, have deleted it.
TaskDeleted ==
  /\ Spend("changes", MaxChanges)
  /\ \E t \in QueueTasks : tasks[t] \in Terminal /\ Drop(t) /\ Forget(t)
  /\ deletes' = StillBusy(deletes, rows')
  /\ UNCHANGED <<dragged, move, deleting>>

BeginQueueDrag ==
  /\ Clicks /\ move = NoMove
  /\ \E t \in QueueTasks : HasGrip(t) /\ dragged' = t
  /\ UNCHANGED <<server, page, move, deletes, deleting>>

EndQueueDrag ==
  /\ dragged # NoTask /\ dragged' = NoTask
  /\ UNCHANGED <<server, page, move, deletes, deleting, queueSpent>>

\* reorderQueue: the rows may have changed since the drag began.
ReorderQueue(moving, target, after) ==
  /\ moving # NoTask /\ moving # target /\ move = NoMove
  /\ HasGrip(moving) /\ HasGrip(target)
  /\ move' = [phase |-> "sent", moving |-> moving, target |-> target, after |-> after]
  /\ UNCHANGED <<server, page, dragged, deletes, deleting>>

DropOnRow ==
  /\ Clicks
  /\ \E t \in QueueTasks, after \in BOOLEAN : ReorderQueue(dragged, t, after)

\* The arrow keys move a task beside its neighbour among the rows of the page.
Neighbours(t, u) ==
  /\ HasGrip(t) /\ HasGrip(u) /\ RowOf(t).place < RowOf(u).place
  /\ ~\E v \in RowIds : /\ HasGrip(v)
                        /\ RowOf(t).place < RowOf(v).place /\ RowOf(v).place < RowOf(u).place

MoveByKey ==
  /\ Clicks
  /\ \E t, u \in QueueTasks :
       \/ Neighbours(t, u) /\ ReorderQueue(t, u, TRUE)
       \/ Neighbours(u, t) /\ ReorderQueue(t, u, FALSE)

MoveServed ==
  /\ move.phase = "sent"
  /\ IF tasks[move.moving] \in Sortable /\ tasks[move.target] \in Sortable
       THEN /\ line' = Moved(line, move.moving, move.target, move.after)
            /\ move' = [phase |-> "served",
                        saved |-> [t \in {line'[i] : i \in DOMAIN line'} |->
                                     [id |-> t, status |-> tasks[t],
                                      place |-> CHOOSE i \in DOMAIN line' : line'[i] = t]]]
            /\ UNCHANGED dragged
       ELSE move' = NoMove /\ dragged' = NoTask /\ UNCHANGED line
  /\ UNCHANGED <<tasks, page, deletes, deleting, queueSpent>>

\* A bug for comparison: a move that fails leaves reorderingQueue set.
MoveEndsHalf == dragged' = NoTask /\ UNCHANGED move

\* `finally`: the grips can be used again.
MoveEnds == move' = NoMove /\ dragged' = NoTask

MoveReturns ==
  /\ move.phase = "served"
  /\ rows' = [i \in DOMAIN rows |->
                IF rows[i].id \in DOMAIN move.saved THEN move.saved[rows[i].id] ELSE rows[i]]
  /\ deletes' = StillBusy(deletes, rows')
  /\ MoveEnds
  /\ UNCHANGED <<server, filter, offset, total, loading, rowsOf, missed,
                 loads, deleting, queueSpent>>

MoveFails ==
  /\ Spend("lost", MaxLost)
  /\ move # NoMove /\ MoveEnds
  /\ UNCHANGED <<server, page, deletes, deleting>>

QueueNext ==
  \/ TaskChanges \/ UpdateFilters \/ PreviousPage \/ NextPage
  \/ Poll \/ LoadReturns \/ LoadFails
  \/ DeleteTask \/ DeleteServed \/ DeleteReturns \/ DeleteFails \/ TaskDeleted
  \/ BeginQueueDrag \/ EndQueueDrag \/ DropOnRow \/ MoveByKey
  \/ MoveServed \/ MoveReturns \/ MoveFails

\* The interval timer goes on for as long as the page is there, and every request is answered
\* or fails.  Nothing obliges the user or the tasks to do anything.
QueueFairness ==
  /\ WF_queueVars(Poll) /\ WF_queueVars(LoadReturns)
  /\ WF_queueVars(DeleteServed) /\ WF_queueVars(DeleteReturns)
  /\ WF_queueVars(MoveServed) /\ WF_queueVars(MoveReturns)

QueueSpec == QueueInit /\ [][QueueNext]_queueVars /\ QueueFairness

-----------------------------------------------------------------------------
(* Properties *)

\* Once an answer for the filters and the page now chosen has been shown, no answer for
\* others replaces it, however late it comes: polls overlap, and the one for the filters
\* before can arrive last.
RowsMatchFilters == loading \/ missed \/ rowsOf = Query

\* When nothing more happens the page comes to show what the server has, whatever order
\* polls, moves and deletions ended in, and although a deletion counts the total down itself
\* and a poll that was sent before it brings the row back.
QueueConverges == <>[]PageIsCurrent

\* A move, also one that is refused or lost, gives the grips back: the flag that disables
\* all of them is always cleared again.
GripsComeBack == []<>(move = NoMove)
=============================================================================
