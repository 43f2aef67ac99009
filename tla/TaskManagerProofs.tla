------------------------- MODULE TaskManagerProofs -------------------------
(***************************************************************************)
(* Proofs about the scheduler of TaskManager, for every number of tasks,   *)
(* sources and runs and for every value of the limits.                     *)
(***************************************************************************)
EXTENDS TaskManager, FiniteSetTheorems, TLAPS

-----------------------------------------------------------------------------
(* Type correctness.                                                        *)

\* Restart positions are numbers: they count tasks.
LEMMA PlaceType ==
  /\ Cardinality(Recovered) \in Nat
  /\ \A t \in Tasks : Place(t) \in Nat
<1>1. IsFiniteSet(Recovered)
  BY ConstantsOK, FS_Subset DEF Recovered
<1>2. ASSUME NEW t \in Tasks PROVE IsFiniteSet({u \in Recovered : RecoveredBefore(u, t)})
  BY <1>1, FS_Subset
<1> QED
  BY <1>1, <1>2, FS_CardinalityType DEF Place

\* The initial state is type correct.
LEMMA InitType == Init => TypeOK
  BY ConstantsOK DEF Init, TypeOK, Status, Stage, EmptyStage, PC, Kind, Call

\* A removal that fails leaves the staging directory to the thread that was in its way, and
\* leaves the other ones alone.
LEMMA RemovalLeaves ==
  ASSUME stage \in [Tasks -> Stage], NEW t \in Tasks, RemovalFails(t)
  PROVE  /\ stage' \in [Tasks -> Stage]
         /\ stage'[t].loose /\ \A u \in Tasks \ {t} : stage'[u] = stage[u]
<1>1. PICK left \in Ruins(t) : left.loose /\ stage' = [stage EXCEPT ![t] = left]
  BY DEF RemovalFails
<1>2. left \in Stage
  BY DEF Ruins
<1> QED
  BY <1>1, <1>2

\* Cancelling, or deleting, empties the staging directory of the task or leaves it to a thread.
Cleared(t) == stage[t] = EmptyStage \/ stage[t].loose

LEMMA Clears ==
  ASSUME stage \in [Tasks -> Stage], NEW t \in Tasks,
         FinishCancel(t) \/ \E withArtifact \in BOOLEAN : DeleteTask(t, withArtifact)
  PROVE  /\ stage' \in [Tasks -> Stage]
         /\ Cleared(t)' /\ \A u \in Tasks \ {t} : stage'[u] = stage[u]
<1>1. stage' = [stage EXCEPT ![t] = EmptyStage] \/ RemovalFails(t)
  BY DEF FinishCancel, DeleteTask
<1>2. EmptyStage \in Stage
  BY DEF EmptyStage, Stage
<1>3. CASE stage' = [stage EXCEPT ![t] = EmptyStage]
  BY <1>2, <1>3 DEF Cleared
<1>4. CASE RemovalFails(t)
  BY <1>4, RemovalLeaves DEF Cleared
<1> QED
  BY <1>1, <1>3, <1>4


\* Calls of the operator keep the types.
LEMMA OperatorType == TypeOK /\ (OperatorStep \/ ReorderQueued) => TypeOK'
<1> SUFFICES ASSUME TypeOK, OperatorStep \/ ReorderQueued PROVE TypeOK'
  OBVIOUS
<1> USE ConstantsOK DEF TypeOK, Status, Stage, EmptyStage, PC, Kind, disk, queues, table, runs,
    threads, budget, Operator, NoPosition, NoTask
<1>1. ASSUME NEW t \in Tasks, NEW delayed \in BOOLEAN, Create(t, delayed) PROVE TypeOK'
  <2>1. /\ nextPosition' \in Nat
        /\ UNCHANGED <<stage, shelf, pending, table, threads, runs, calls, loop, budget>>
    BY <1>1 DEF Create
  <2>2. CASE delayed = TRUE
    <3>1. /\ status' = [status EXCEPT ![t] = "SCHEDULED"]
          /\ waiters' = waiters \cup {t} /\ UNCHANGED <<position, queued, wakeup>>
      BY <1>1, <2>2 DEF Create
    <3> QED
      BY <2>1, <3>1
  <2>3. CASE delayed = FALSE
    <3>1. /\ status' = [status EXCEPT ![t] = "QUEUED"]
          /\ position' = [position EXCEPT ![t] = nextPosition]
          /\ UNCHANGED waiters /\ queued' = [queued EXCEPT ![t] = @ + 1] /\ wakeup' = TRUE
      BY <1>1, <2>3 DEF Create, Enqueue
    <3> QED
      BY <2>1, <3>1
  <2> QED
    BY <2>2, <2>3
<1>2. ASSUME NEW t \in Tasks, StartNow(t) PROVE TypeOK'
  BY <1>2 DEF StartNow, Call
<1>3. ASSUME NEW t \in Tasks, Reschedule(t) PROVE TypeOK'
  BY <1>3 DEF Reschedule
<1>4. ASSUME NEW t \in Tasks, NEW op \in {"pause", "cancel"}, CancelActive(op, t)
      PROVE  /\ pc' \in [Runs -> PC]
             /\ taskOf' \in [Runs -> Tasks \cup {NoTask}]
             /\ kind' \in [Runs -> Kind]
             /\ active' \in [Tasks -> Runs \cup {None, Dead}]
             /\ calls' \subseteq Call /\ extractors' \in [Tasks -> Nat]
  <2>1. AfterCancel(active[t]) \in PC
    BY DEF AfterCancel
  <2>2. active[t] \in Runs /\ pc' \in [Runs -> PC]
    BY <1>4, <2>1 DEF CancelActive
  <2>5. extractors' \in [Tasks -> Nat]
    BY <1>4 DEF CancelActive
  <2>3. CASE pc[active[t]] = "created"
    BY <1>4, <2>2, <2>3 DEF CancelActive, Call
  <2>4. CASE pc[active[t]] # "created"
    BY <1>4, <2>2, <2>4 DEF CancelActive, Call
  <2> QED
    BY <2>2, <2>3, <2>4, <2>5
<1>5. ASSUME NEW t \in Tasks, Pause(t) PROVE TypeOK'
  <2>1. CASE CancelActive("pause", t) /\ UNCHANGED <<wakeup, bySource>>
    BY <1>5, <1>4, <2>1 DEF Pause
  <2>2. CASE UNCHANGED <<table, runs, calls, extractors>> /\ wakeup' = TRUE
    BY <1>5, <2>2 DEF Pause
  <2> QED
    BY <1>5, <2>1, <2>2 DEF Pause
<1>6. ASSUME NEW t \in Tasks, Resume(t) PROVE TypeOK'
  BY <1>6 DEF Resume, Enqueue
<1>7. ASSUME NEW t \in Tasks, ResumeLater(t) PROVE TypeOK'
  BY <1>7 DEF ResumeLater
<1>8. ASSUME NEW t \in Tasks, Cancel(t) PROVE TypeOK'
  <2>1. CASE CancelActive("cancel", t) /\ UNCHANGED <<wakeup, waiters, stage, bySource>>
    BY <1>8, <1>4, <2>1 DEF Cancel
  <2>2. CASE FinishCancel(t) /\ UNCHANGED <<table, runs, calls, extractors>>
    <3>1. stage' \in [Tasks -> Stage]
      BY <2>2, Clears
    <3> QED
      <4>1. wakeup' = TRUE /\ waiters' = waiters \ {t}
        BY <2>2 DEF FinishCancel
      <4>2. /\ status' \in [Tasks -> Status] /\ position' \in [Tasks -> Nat \cup {NoPosition}]
            /\ UNCHANGED <<shelf, queued, pending, nextPosition, slot, orphans, crashes, loop>>
            /\ ops' \in Nat
        BY <1>8 DEF Cancel, Operator, NoPosition
      <4> QED
        BY <2>2, <3>1, <4>1, <4>2
  <2> QED
    BY <1>8, <2>1, <2>2 DEF Cancel
<1>9. ASSUME NEW t \in Tasks, NEW withArtifact \in BOOLEAN, DeleteTask(t, withArtifact)
      PROVE TypeOK'
  <2>1. stage' \in [Tasks -> Stage]
    BY <1>9, Clears
  <2>2. status' \in [Tasks -> Status] /\ position' \in [Tasks -> Nat \cup {NoPosition}]
    BY <1>9 DEF DeleteTask, NoPosition
  <2> QED
    BY <1>9, <2>1, <2>2 DEF DeleteTask
<1>10. ASSUME NEW t \in Tasks, DeleteArtifact(t) PROVE TypeOK'
  BY <1>10 DEF DeleteArtifact
<1>11. ASSUME NEW t \in Tasks, NEW r \in Runs, NEW extract \in BOOLEAN, ConfirmHttp(t, r, extract)
       PROVE TypeOK'
  BY <1>11 DEF ConfirmHttp
<1>12. ASSUME ReorderQueued PROVE TypeOK'
  <2> DEFINE movable == {t \in Tasks : status[t] \in {"QUEUED", "PAUSED"}}
  <2>1. Cardinality(movable) \in Nat
    BY FS_Subset, FS_CardinalityType
  <2>2. position' \in [Tasks -> Nat \cup {NoPosition}]
    <3>1. PICK place \in [movable -> 0 .. Cardinality(movable) - 1] :
            position' = [t \in Tasks |-> IF t \in movable THEN place[t] ELSE position[t]]
      BY <1>12 DEF ReorderQueued
    <3> QED
      BY <2>1, <3>1
  <2> QED
    BY <1>12, <2>2 DEF ReorderQueued
<1> HIDE DEF TypeOK
<1> QED
  BY <1>1, <1>2, <1>3, <1>5, <1>6, <1>7, <1>8, <1>9, <1>10, <1>11, <1>12 DEF OperatorStep

\* Timers, suspended calls and the scheduler keep the types.
LEMMA SchedulerType ==
  TypeOK /\ (SchedulerStep \/ \E t \in Tasks : WaiterFires(t) \/ CallStep(t)) => TypeOK'
<1> SUFFICES ASSUME TypeOK,
                    SchedulerStep \/ \E t \in Tasks : WaiterFires(t) \/ CallStep(t)
             PROVE  TypeOK'
  OBVIOUS
<1> USE ConstantsOK DEF TypeOK, Status, Stage, EmptyStage, PC, Kind, disk, queues, table, runs,
    threads, budget
<1>1. ASSUME NEW t \in Tasks, WaiterFires(t) PROVE TypeOK'
  <2>1. CASE status[t] = "SCHEDULED"
    BY <1>1, <2>1 DEF WaiterFires, Enqueue
  <2>2. CASE status[t] # "SCHEDULED"
    BY <1>1, <2>2 DEF WaiterFires
  <2> QED
    BY <2>1, <2>2
<1>2. ASSUME NEW t \in Tasks, StartNowReturns(t) PROVE TypeOK'
  BY <1>2 DEF StartNowReturns, Enqueue
<1>3. ASSUME NEW t \in Tasks, PauseReturns(t) PROVE TypeOK'
  BY <1>3 DEF PauseReturns
<1>4. ASSUME NEW t \in Tasks, CancelReturns(t) PROVE TypeOK'
  <2>1. stage' \in [Tasks -> Stage]
    BY <1>4, Clears DEF CancelReturns
  <2> QED
    BY <1>4, <2>1 DEF CancelReturns, FinishCancel
<1>5. ASSUME ScheduleWakes PROVE TypeOK'
  <2>1. pending' = [t \in Tasks |-> pending[t] + queued[t]]
    BY <1>5 DEF ScheduleWakes
  <2>2. pending' \in [Tasks -> Nat]
    BY <2>1
  <2> QED
    BY <1>5, <2>2 DEF ScheduleWakes
<1>6. Purged \in [Tasks -> Nat]
  BY DEF Purged
<1>7. ASSUME NEW t \in Tasks, NEW r \in Runs, SchedulePick(t, r) PROVE TypeOK'
  <2>1. pending[t] \in Nat /\ pending[t] > 0 /\ Purged[t] = pending[t]
    BY <1>7 DEF SchedulePick, Schedulable, Purged
  <2>2. pending' \in [Tasks -> Nat]
    BY <1>6, <1>7, <2>1 DEF SchedulePick
  <2> QED
    BY <1>7, <2>2 DEF SchedulePick
<1>8. ASSUME ScheduleWaits PROVE TypeOK'
  BY <1>6, <1>8 DEF ScheduleWaits
<1> QED
  BY <1>1, <1>2, <1>3, <1>4, <1>5, <1>7, <1>8 DEF SchedulerStep, CallStep

\* The end of a run keeps the types of what it changes.
LEMMA EndRunType ==
  ASSUME TypeOK, NEW r \in Runs, EndRun(r)
  PROVE  /\ pc' \in [Runs -> PC]
         /\ taskOf' \in [Runs -> Tasks \cup {NoTask}]
         /\ kind' \in [Runs -> Kind]
         /\ active' \in [Tasks -> Runs \cup {None, Dead}]
         /\ bySource' \in [Sources -> Nat]
         /\ slot' \in Runs \cup {None}
         /\ calls' \subseteq Call
         /\ wakeup' \in BOOLEAN
         /\ loop' \in Runs \cup {Free, Scheduler, Down}
<1>1. bySource' \in [Sources -> Nat]
  <2> DEFINE s == SourceOf[taskOf[r]]
  <2>1. CASE kind[r] = "queued" /\ bySource[s] > 0
    <3>1. bySource' = [bySource EXCEPT ![s] = @ - 1]
      BY <2>1 DEF EndRun
    <3>2. \A x \in Sources : bySource'[x] = IF x = s THEN bySource[x] - 1 ELSE bySource[x]
      BY <3>1 DEF TypeOK
    <3>3. \A x \in Sources : bySource'[x] \in Nat
      BY <2>1, <3>2 DEF TypeOK
    <3> QED
      BY <3>1, <3>3 DEF TypeOK
  <2>2. CASE ~(kind[r] = "queued" /\ bySource[s] > 0)
    BY <2>2 DEF EndRun, TypeOK
  <2> QED
    BY <2>1, <2>2
<1>2. calls' \subseteq Call
  BY DEF EndRun, TypeOK, Call
<1>3. active' \in [Tasks -> Runs \cup {None, Dead}]
  BY DEF EndRun, TypeOK
<1> QED
  BY <1>1, <1>2, <1>3 DEF EndRun, TypeOK, PC, Kind

\* What a run does keeps the types.
LEMMA RunType == ASSUME TypeOK, NEW r \in Runs, RunStep(r) PROVE TypeOK'
<1> USE DEF TypeOK, Status, Stage, EmptyStage, PC, disk, queues, table, runs, threads, budget,
    KeepRun, RunFrame, Begins, GoesOn, NoPosition
<1>1. ASSUME RunStart(r) PROVE TypeOK'
  BY <1>1 DEF RunStart
<1>2. ASSUME RunDownload(r) PROVE TypeOK'
  BY <1>2 DEF RunDownload
<1>3. ASSUME RunPointers(r) PROVE TypeOK'
  <2>1. CASE UNCHANGED <<status, position, stage>>
    BY <1>3, <2>1 DEF RunPointers
  <2>2. /\ loop' \in Runs \cup {Free, Scheduler, Down} /\ pc' \in [Runs -> PC]
        /\ UNCHANGED slot /\ KeepRun /\ RunFrame
    BY <1>3 DEF RunPointers
  <2>3. CASE /\ status' = [status EXCEPT ![taskOf[r]] = "RESOLVING"]
             /\ position' = [position EXCEPT ![taskOf[r]] = NoPosition]
             /\ stage' = [stage EXCEPT ![taskOf[r]] =
                            [@ EXCEPT !.content = "partial", !.result = FALSE,
                                      !.inventory = FALSE]]
    BY <2>2, <2>3
  <2> QED
    BY <1>3, <2>1, <2>3 DEF RunPointers
<1>4. ASSUME RunProvider(r) PROVE TypeOK'
  BY <1>4 DEF RunProvider
<1>5. ASSUME RunFetched(r) PROVE TypeOK'
  <2>1. /\ status' \in [Tasks -> Status] /\ position' \in [Tasks -> Nat \cup {NoPosition}]
        /\ stage' \in [Tasks -> Stage] /\ KeepRun /\ RunFrame
    BY <1>5 DEF RunFetched
  <2>2. /\ pc' \in [Runs -> PC] /\ slot' \in Runs \cup {None}
        /\ loop' \in Runs \cup {Free, Scheduler, Down}
    BY <1>5 DEF RunFetched, EnterVerification
  <2> QED
    BY <2>1, <2>2
<1>6. ASSUME RunSlot(r) PROVE TypeOK'
  BY <1>6 DEF RunSlot
<1>7. ASSUME RunHashed(r) PROVE TypeOK'
  BY <1>7 DEF RunHashed
<1>8. ASSUME RunAwaits(r) PROVE TypeOK'
  BY <1>8, EndRunType DEF RunAwaits
<1>9. ASSUME RunPublishing(r) PROVE TypeOK'
  BY <1>9 DEF RunPublishing
<1>10. ASSUME RunPublished(r) PROVE TypeOK'
  <2>1. shelf' \in [Tasks -> {"absent", "whole", "hollow"}]
    <3>1. PICK tree \in {"whole", "hollow"} :
            shelf' = IF shelf[taskOf[r]] = "absent" THEN [shelf EXCEPT ![taskOf[r]] = tree]
                     ELSE shelf
      BY <1>10 DEF RunPublished
    <3> QED
      BY <3>1
  <2>2. stage' \in [Tasks -> Stage]
    BY <1>10 DEF RunPublished
  <2> QED
    BY <1>10, <2>1, <2>2 DEF RunPublished
<1>11. ASSUME RunDiscards(r) PROVE TypeOK'
  BY <1>11 DEF RunDiscards
<1>12. ASSUME RunCompletes(r) PROVE TypeOK'
  BY <1>12, EndRunType DEF RunCompletes
<1>13. ASSUME RunFails(r) PROVE TypeOK'
  BY <1>13, EndRunType DEF RunFails
<1>14. ASSUME ConfirmFails(r) PROVE TypeOK'
  <2>1. taskOf[r] \in Tasks /\ RemovalFails(taskOf[r]) => stage' \in [Tasks -> Stage]
    BY RemovalLeaves
  <2>2. stage' \in [Tasks -> Stage]
    BY <1>14, <2>1 DEF ConfirmFails, RemovalFails, Ruins
  <2> QED
    BY <1>14, <2>2, EndRunType DEF ConfirmFails
<1>15. ASSUME RunGivesUp(r) PROVE TypeOK'
  BY <1>15, EndRunType DEF RunGivesUp
<1>16. ASSUME RunUnwinds(r) PROVE TypeOK'
  BY <1>16, EndRunType DEF RunUnwinds
<1>17. ASSUME RunExtracted(r) PROVE TypeOK'
  BY <1>17 DEF RunExtracted, EnterVerification
<1> QED
  BY <1>1, <1>2, <1>3, <1>4, <1>5, <1>6, <1>7, <1>8, <1>9, <1>10, <1>11, <1>12, <1>13, <1>14,
     <1>15, <1>16, <1>17 DEF RunStep

\* Every crash loses the memory of the server, and writes what the segment it cuts had.
LEMMA CrashDies ==
  ASSUME CrashStep PROVE Dies /\ loop # Down /\ UNCHANGED status
BY ConstantsOK
   DEF CrashStep, Crash, DeletionIsCut, ReorderIsCut, DiscardIsCut, PointersAreCut, Begins, GoesOn,
       disk, Free, Down

LEMMA CrashDisk ==
  ASSUME TypeOK, CrashStep
  PROVE  /\ UNCHANGED status /\ stage' \in [Tasks -> Stage]
         /\ position' \in [Tasks -> Nat \cup {NoPosition}]
         /\ shelf' \in [Tasks -> {"absent", "whole", "hollow"}]
<1> USE DEF TypeOK, disk
<1>1. CASE Crash
  BY <1>1 DEF Crash
<1>2. ASSUME NEW t \in Tasks, NEW left \in Ruins(t), stage' = [stage EXCEPT ![t] = left]
      PROVE  stage' \in [Tasks -> Stage]
  BY <1>2 DEF Ruins
<1>3. ASSUME NEW t \in Tasks, NEW withArtifact \in BOOLEAN, DeletionIsCut(t, withArtifact)
      PROVE  /\ UNCHANGED <<status, position>> /\ stage' \in [Tasks -> Stage]
             /\ shelf' \in [Tasks -> {"absent", "whole", "hollow"}]
  BY <1>2, <1>3 DEF DeletionIsCut
<1>4. CASE ReorderIsCut
  <2> DEFINE movable == {t \in Tasks : status[t] \in {"QUEUED", "PAUSED"}}
  <2>1. Cardinality(movable) \in Nat
    BY ConstantsOK, FS_Subset, FS_CardinalityType
  <2>2. PICK place \in [movable -> 0 .. Cardinality(movable) - 1], written \in 1 .. Cardinality(movable) :
          position' = [t \in Tasks |-> IF t \in movable /\ place[t] < written
                                      THEN place[t] ELSE position[t]]
    BY <1>4 DEF ReorderIsCut
  <2>3. position' \in [Tasks -> Nat \cup {NoPosition}]
    BY <2>1, <2>2
  <2> QED
    BY <1>4, <2>3 DEF ReorderIsCut
<1>5. ASSUME NEW r \in Runs, DiscardIsCut(r)
      PROVE  UNCHANGED <<status, position, shelf>> /\ stage' \in [Tasks -> Stage]
  BY <1>5 DEF DiscardIsCut, Ruins
<1>6. ASSUME NEW r \in Runs, PointersAreCut(r)
      PROVE  UNCHANGED <<status, position, shelf>> /\ stage' \in [Tasks -> Stage]
  <2>1. PICK inventory \in {stage[taskOf[r]].inventory, FALSE} :
          stage' = [stage EXCEPT ![taskOf[r]] =
                      [@ EXCEPT !.content = "partial", !.result = FALSE, !.inventory = inventory]]
    BY <1>6 DEF PointersAreCut
  <2>2. stage' \in [Tasks -> Stage]
    BY <2>1 DEF Stage
  <2> QED
    BY <1>6, <2>2 DEF PointersAreCut
<1> QED
  BY <1>1, <1>3, <1>4, <1>5, <1>6 DEF CrashStep

\* Threads, crashes and restarts keep the types.
LEMMA CrashType == TypeOK /\ (ThreadStep \/ CrashStep \/ Start \/ StartIsCut) => TypeOK'
<1> SUFFICES ASSUME TypeOK, ThreadStep \/ CrashStep \/ Start \/ StartIsCut PROVE TypeOK'
  OBVIOUS
<1> USE DEF TypeOK, Status, Stage, EmptyStage, PC, Kind, disk, queues, table, runs, threads,
    budget, NoPosition, NoTask
<1>1. ASSUME ThreadStep PROVE TypeOK'
  <2>1. CASE OrphanEnds
    BY <2>1 DEF OrphanEnds
  <2>2. ASSUME NEW t \in Tasks, ExtractorWrites(t) PROVE TypeOK'
    BY <2>2 DEF ExtractorWrites
  <2>3. ASSUME NEW t \in Tasks, ExtractorEnds(t) PROVE TypeOK'
    BY <2>3 DEF ExtractorEnds
  <2> QED
    BY <1>1, <2>1, <2>2, <2>3 DEF ThreadStep
<1>2. ASSUME CrashStep PROVE TypeOK'
  <2>1. Dies
    BY <1>2, CrashDies
  <2>2. /\ queued' \in [Tasks -> Nat] /\ pending' \in [Tasks -> Nat]
        /\ active' \in [Tasks -> Runs \cup {None, Dead}] /\ bySource' \in [Sources -> Nat]
    BY <2>1 DEF Dies, LoseMemory
  <2>3. /\ pc' \in [Runs -> PC] /\ taskOf' \in [Runs -> Tasks \cup {NoTask}]
        /\ kind' \in [Runs -> Kind]
    BY <2>1 DEF Dies, LoseMemory
  <2>4. /\ waiters' \subseteq Tasks /\ nextPosition' \in Nat /\ slot' \in Runs \cup {None}
        /\ orphans' \in Nat /\ extractors' \in [Tasks -> Nat] /\ calls' \subseteq Call
        /\ wakeup' \in BOOLEAN /\ loop' \in Runs \cup {Free, Scheduler, Down}
    BY <2>1 DEF Dies, LoseMemory
  <2>5. crashes' \in Nat /\ UNCHANGED ops
    BY <2>1 DEF Dies
  <2>6. UNCHANGED status /\ stage' \in [Tasks -> Stage] /\ position' \in [Tasks -> Nat \cup {NoPosition}]
        /\ shelf' \in [Tasks -> {"absent", "whole", "hollow"}]
    BY <1>2, CrashDisk
  <2> QED
    BY <2>2, <2>3, <2>4, <2>5, <2>6
<1>3. ASSUME Start PROVE TypeOK'
  <2>1. status' \in [Tasks -> Status]
    BY <1>3 DEF Start
  <2>2. position' \in [Tasks -> Nat \cup {NoPosition}]
    BY <1>3, PlaceType DEF Start
  <2>3. stage' \in [Tasks -> Stage]
    BY <1>3 DEF Start
  <2>4. nextPosition' \in Nat
    <3>1. \A t \in Tasks : position[t] + 1 \in Nat
      OBVIOUS
    <3> QED
      BY <1>3, <3>1, PlaceType DEF Start
  <2> QED
    BY <1>3, <2>1, <2>2, <2>3, <2>4 DEF Start
<1>4. ASSUME StartIsCut PROVE TypeOK'
  <2>1. PICK written \in 1 .. Cardinality(Recovered) :
          LET done == {t \in Recovered : Place(t) < written} IN
          /\ status' = [t \in Tasks |->
               IF t \in done /\ status[t] \in Interrupted THEN "QUEUED" ELSE status[t]]
          /\ position' = [t \in Tasks |-> IF t \in done THEN Place(t) ELSE position[t]]
    BY <1>4 DEF StartIsCut
  <2>2. status' \in [Tasks -> Status]
    BY <2>1
  <2>3. position' \in [Tasks -> Nat \cup {NoPosition}]
    BY <2>1, PlaceType
  <2>4. stage' \in [Tasks -> Stage]
    BY <1>4 DEF StartIsCut
  <2> QED
    BY <1>4, <2>2, <2>3, <2>4, ConstantsOK DEF StartIsCut
<1> QED
  BY <1>1, <1>2, <1>3, <1>4

\* Every step keeps the types.
LEMMA NextType == TypeOK /\ [Next]_vars => TypeOK'
<1> SUFFICES ASSUME TypeOK, [Next]_vars PROVE TypeOK'
  OBVIOUS
<1>1. CASE UNCHANGED vars
  BY <1>1 DEF vars, TypeOK, disk, queues, table, runs, threads, budget
<1> QED
  BY <1>1, OperatorType, SchedulerType, RunType, CrashType DEF Next

\* TypeOK holds in every reachable state: the job records, the scheduler's tables and the
\* runs only ever hold values of their types, and no count of queue entries or of active
\* downloads drops below zero.
THEOREM TypeCorrect == Spec => []TypeOK
<1> QED
  BY InitType, NextType, PTL DEF Spec

-----------------------------------------------------------------------------
(* The limits.  The inductive invariant counts: the runs of a source never  *)
(* outnumber its entry of _active_by_source, which the scheduler only       *)
(* raises below the limit.  (The converse is false: a run cancelled before  *)
(* its first step leaves the entry raised.)                                 *)

LiveOf(s) == {r \in LiveRuns : SourceOf[taskOf[r]] = s}

RunsHaveTasks == \A r \in Runs : pc[r] # "idle" => taskOf[r] \in Tasks

\* What _active_runs holds for a task is a run of that task that has not ended.
ActiveAreRuns ==
  \A t \in Tasks : active[t] \in Runs => pc[active[t]] # "idle" /\ taskOf[active[t]] = t

Counted ==
  \A s \in Sources : Cardinality(LiveOf(s)) <= bySource[s] /\ bySource[s] <= MaxPerSource

CapacityInv == TypeOK /\ RunsHaveTasks /\ ActiveAreRuns /\ Counted

(* What a step does to the runs and the two tables: one of six things.      *)

RunsKept ==
  /\ UNCHANGED <<active, bySource, taskOf, kind>>
  /\ \A r \in Runs : pc'[r] = "idle" <=> pc[r] = "idle"

RunAdded(t, r) ==
  /\ Cardinality(ActiveTasks) < MaxActive
  /\ bySource[SourceOf[t]] < MaxPerSource
  /\ pc[r] = "idle"
  /\ bySource' = [bySource EXCEPT ![SourceOf[t]] = @ + 1]
  /\ active' = [active EXCEPT ![t] = r]
  /\ pc' = [pc EXCEPT ![r] = "created"]
  /\ taskOf' = [taskOf EXCEPT ![r] = t]
  /\ kind' = [kind EXCEPT ![r] = "queued"]

RunEnded(r) == pc[r] # "idle" /\ EndRun(r)

RunDropped(t) ==
  /\ active[t] \in Runs
  /\ pc' = [pc EXCEPT ![active[t]] = "idle"]
  /\ taskOf' = [taskOf EXCEPT ![active[t]] = NoTask]
  /\ kind' = [kind EXCEPT ![active[t]] = "queued"]
  /\ active' = [active EXCEPT ![t] = Dead]
  /\ UNCHANGED bySource

Confirming(t, r) ==
  /\ active[t] = None /\ pc[r] = "idle"
  /\ active' = [active EXCEPT ![t] = r]
  /\ taskOf' = [taskOf EXCEPT ![r] = t]
  /\ \E k \in {"confirm", "extract"}, p \in {"extracting", "verified"} :
       kind' = [kind EXCEPT ![r] = k] /\ pc' = [pc EXCEPT ![r] = p]
  /\ UNCHANGED bySource

MemoryLost ==
  /\ active' = [t \in Tasks |-> None]
  /\ bySource' = [s \in Sources |-> 0]
  /\ pc' = [r \in Runs |-> "idle"]

\* The calls of the operator are, for the scheduler, one of these.
LEMMA OperatorEffect ==
  ASSUME TypeOK, ActiveAreRuns, OperatorStep \/ ReorderQueued
  PROVE  \/ RunsKept
         \/ \E t \in Tasks : RunDropped(t)
         \/ \E t \in Tasks, r \in Runs : Confirming(t, r)
<1> USE DEF table, runs, RunsKept
<1>1. ASSUME NEW t \in Tasks, NEW op \in {"pause", "cancel"}, CancelActive(op, t),
             UNCHANGED bySource
      PROVE  RunsKept \/ RunDropped(t)
  <2>1. active[t] \in Runs /\ pc[active[t]] # "idle"
    BY <1>1 DEF CancelActive, ActiveAreRuns
  <2>2. CASE pc[active[t]] = "created"
    BY <1>1, <2>2 DEF CancelActive, AfterCancel, RunDropped
  <2>3. CASE pc[active[t]] # "created"
    <3>1. AfterCancel(active[t]) # "idle"
      BY <2>3 DEF AfterCancel
    <3>2. pc' = [pc EXCEPT ![active[t]] = AfterCancel(active[t])] /\ UNCHANGED <<taskOf, kind, active>>
      BY <1>1, <2>3 DEF CancelActive
    <3> QED
      BY <1>1, <2>1, <3>1, <3>2 DEF TypeOK
  <2> QED
    BY <2>2, <2>3
<1>2. ASSUME NEW t \in Tasks, NEW delayed \in BOOLEAN, Create(t, delayed) PROVE RunsKept
  BY <1>2 DEF Create
<1>3. ASSUME NEW t \in Tasks, StartNow(t) \/ Reschedule(t) \/ Resume(t) \/ ResumeLater(t)
      PROVE  RunsKept
  BY <1>3 DEF StartNow, Reschedule, Resume, ResumeLater
<1>4. ASSUME NEW t \in Tasks, Pause(t) PROVE RunsKept \/ RunDropped(t)
  BY <1>1, <1>4 DEF Pause
<1>5. ASSUME NEW t \in Tasks, Cancel(t) PROVE RunsKept \/ RunDropped(t)
  BY <1>1, <1>5 DEF Cancel
<1>6. ASSUME NEW t \in Tasks, DeleteArtifact(t) \/ \E withArtifact \in BOOLEAN : DeleteTask(t, withArtifact)
      PROVE  RunsKept
  BY <1>6 DEF DeleteTask, DeleteArtifact
<1>7. ASSUME NEW t \in Tasks, NEW r \in Runs, NEW extract \in BOOLEAN, ConfirmHttp(t, r, extract)
      PROVE  Confirming(t, r)
  BY <1>7 DEF ConfirmHttp, Confirming
<1>8. ASSUME ReorderQueued PROVE RunsKept
  BY <1>8 DEF ReorderQueued
<1> QED
  BY <1>2, <1>3, <1>4, <1>5, <1>6, <1>7, <1>8 DEF OperatorStep

\* So are the steps of a run ...
LEMMA RunEffect ==
  ASSUME TypeOK, NEW r \in Runs, RunStep(r)
  PROVE  RunsKept \/ RunEnded(r)
<1> USE DEF Begins, GoesOn, KeepRun, table, RunsKept
<1>1. ASSUME RunFails(r) \/ ConfirmFails(r) \/ RunGivesUp(r) \/ RunUnwinds(r) PROVE RunEnded(r)
  BY <1>1 DEF RunFails, ConfirmFails, RunGivesUp, RunUnwinds, RunEnded
<1>2. ASSUME RunAwaits(r) \/ RunCompletes(r) PROVE RunEnded(r)
  BY <1>2 DEF RunAwaits, RunCompletes, RunEnded
<1>3. ASSUME NEW p \in PC \ {"idle"}, pc[r] # "idle", pc' = [pc EXCEPT ![r] = p], KeepRun
      PROVE  RunsKept
  BY <1>3 DEF TypeOK
<1>4. ASSUME RunStart(r) \/ RunDownload(r) \/ RunPointers(r) \/ RunProvider(r) PROVE RunsKept
  BY <1>3, <1>4 DEF RunStart, RunDownload, RunPointers, RunProvider, PC
<1>5. ASSUME RunFetched(r) \/ RunSlot(r) \/ RunHashed(r) \/ RunExtracted(r) PROVE RunsKept
  BY <1>3, <1>5 DEF RunFetched, RunSlot, RunHashed, RunExtracted, EnterVerification, PC
<1>6. ASSUME RunPublishing(r) \/ RunPublished(r) \/ RunDiscards(r) PROVE RunsKept
  BY <1>3, <1>6 DEF RunPublishing, RunPublished, RunDiscards, PC
<1> QED
  BY <1>1, <1>2, <1>4, <1>5, <1>6 DEF RunStep

\* ... and everything else.
LEMMA StepEffect ==
  ASSUME TypeOK, ActiveAreRuns, [Next]_vars
  PROVE  \/ RunsKept
         \/ \E t \in Tasks, r \in Runs : RunAdded(t, r)
         \/ \E r \in Runs : RunEnded(r)
         \/ \E t \in Tasks : RunDropped(t)
         \/ \E t \in Tasks, r \in Runs : Confirming(t, r)
         \/ MemoryLost
<1> USE DEF table, runs, RunsKept
<1>1. CASE UNCHANGED vars
  BY <1>1 DEF vars
<1>2. ASSUME NEW t \in Tasks, WaiterFires(t) \/ CallStep(t) PROVE RunsKept
  BY <1>2 DEF WaiterFires, CallStep, StartNowReturns, PauseReturns, CancelReturns
<1>3. ASSUME ScheduleWakes \/ ScheduleWaits PROVE RunsKept
  BY <1>3 DEF ScheduleWakes, ScheduleWaits
<1>4. ASSUME NEW t \in Tasks, NEW r \in Runs, SchedulePick(t, r) PROVE RunAdded(t, r)
  BY <1>4 DEF SchedulePick, Schedulable, RunAdded
<1>5. ASSUME ThreadStep \/ Start \/ StartIsCut PROVE RunsKept
  BY <1>5 DEF ThreadStep, OrphanEnds, ExtractorWrites, ExtractorEnds, Start, StartIsCut
<1>6. ASSUME CrashStep PROVE MemoryLost
  BY <1>6, CrashDies DEF Dies, LoseMemory, MemoryLost
<1> QED
  BY <1>1, <1>2, <1>3, <1>4, <1>5, <1>6, OperatorEffect, RunEffect DEF Next, SchedulerStep

(* The live runs of a source before and after each of the six.              *)

LEMMA LiveFinite ==
  /\ IsFiniteSet(LiveRuns) /\ Cardinality(LiveRuns) \in Nat
  /\ \A s \in Sources : IsFiniteSet(LiveOf(s)) /\ Cardinality(LiveOf(s)) \in Nat
<1>1. IsFiniteSet(LiveRuns)
  BY ConstantsOK, FS_Subset DEF LiveRuns
<1>2. \A s \in Sources : IsFiniteSet(LiveOf(s))
  BY <1>1, FS_Subset DEF LiveOf
<1> QED
  BY <1>1, <1>2, FS_CardinalityType

LEMMA LiveKept ==
  ASSUME TypeOK, RunsKept \/ \E t \in Tasks, r \in Runs : Confirming(t, r)
  PROVE  LiveRuns' = LiveRuns /\ \A s \in Sources : LiveOf(s)' = LiveOf(s)
<1>1. LiveRuns' = LiveRuns
  BY DEF TypeOK, LiveRuns, Live, RunsKept, Confirming
<1>2. \A r \in LiveRuns : taskOf'[r] = taskOf[r]
  BY DEF TypeOK, LiveRuns, Live, RunsKept, Confirming
<1> QED
  BY <1>1, <1>2 DEF LiveOf

LEMMA LiveAdded ==
  ASSUME TypeOK, NEW t \in Tasks, NEW r \in Runs, RunAdded(t, r)
  PROVE  /\ r \notin LiveRuns
         /\ LiveRuns' = LiveRuns \cup {r}
         /\ \A s \in Sources :
              LiveOf(s)' = IF s = SourceOf[t] THEN LiveOf(s) \cup {r} ELSE LiveOf(s)
<1>1. r \notin LiveRuns /\ LiveRuns' = LiveRuns \cup {r}
  BY DEF TypeOK, LiveRuns, Live, RunAdded
<1>2. \A q \in LiveRuns : taskOf'[q] = taskOf[q]
  BY <1>1 DEF TypeOK, LiveRuns, RunAdded
<1>3. taskOf'[r] = t
  BY DEF TypeOK, RunAdded
<1> QED
  BY <1>1, <1>2, <1>3 DEF LiveOf

LEMMA LiveRemoved ==
  ASSUME TypeOK, NEW r \in Runs,
         RunEnded(r) \/ \E t \in Tasks : active[t] = r /\ RunDropped(t)
  PROVE  /\ LiveRuns' = LiveRuns \ {r}
         /\ \A s \in Sources : LiveOf(s)' = LiveOf(s) \ {r}
<1>1. /\ pc' = [pc EXCEPT ![r] = "idle"]
      /\ taskOf' = [taskOf EXCEPT ![r] = NoTask]
      /\ kind' = [kind EXCEPT ![r] = "queued"]
  BY DEF RunEnded, EndRun, RunDropped
<1>2. LiveRuns' = LiveRuns \ {r}
  BY <1>1 DEF TypeOK, LiveRuns, Live
<1>3. \A q \in LiveRuns' : taskOf'[q] = taskOf[q]
  BY <1>1, <1>2 DEF TypeOK, LiveRuns
<1> QED
  BY <1>2, <1>3 DEF LiveOf

\* CapacityInv holds initially and is preserved by every step.
LEMMA CapacityInit == Init => CapacityInv
<1> SUFFICES ASSUME Init PROVE CapacityInv
  OBVIOUS
<1>1. RunsHaveTasks /\ ActiveAreRuns
  BY ConstantsOK DEF Init, RunsHaveTasks, ActiveAreRuns
<1>2. \A s \in Sources : LiveOf(s) = {}
  BY DEF Init, LiveOf, LiveRuns, Live
<1>3. ASSUME NEW s \in Sources
      PROVE  Cardinality(LiveOf(s)) <= bySource[s] /\ bySource[s] <= MaxPerSource
  <2>1. Cardinality(LiveOf(s)) = 0
    BY <1>2, FS_EmptySet
  <2>2. bySource[s] = 0 /\ MaxPerSource \in Nat
    BY ConstantsOK DEF Init
  <2> QED
    BY <2>1, <2>2
<1> QED
  BY <1>1, <1>3, InitType DEF CapacityInv, Counted

LEMMA CapacityStep == CapacityInv /\ [Next]_vars => CapacityInv'
<1> SUFFICES ASSUME CapacityInv, [Next]_vars PROVE CapacityInv'
  OBVIOUS
<1> USE DEF CapacityInv
<1>1. TypeOK'
  BY NextType
<1>2. CASE RunsKept
  BY <1>1, <1>2, LiveKept DEF TypeOK, RunsKept, RunsHaveTasks, ActiveAreRuns, Counted
<1>3. ASSUME NEW t \in Tasks, NEW r \in Runs, RunAdded(t, r) PROVE CapacityInv'
  <2>1. RunsHaveTasks' /\ ActiveAreRuns'
    BY <1>3 DEF TypeOK, RunAdded, RunsHaveTasks, ActiveAreRuns
  <2>2. ASSUME NEW s \in Sources
        PROVE  Cardinality(LiveOf(s))' <= bySource'[s] /\ bySource'[s] <= MaxPerSource
    <3>1. SourceOf[t] \in Sources /\ bySource[s] \in Nat /\ MaxPerSource \in Nat
      BY ConstantsOK DEF TypeOK
    <3>2. CASE s = SourceOf[t]
      <4>1. LiveOf(s)' = LiveOf(s) \cup {r} /\ r \notin LiveOf(s)
        BY <1>3, <3>2, LiveAdded DEF LiveOf
      <4>2. Cardinality(LiveOf(s))' = Cardinality(LiveOf(s)) + 1
        BY <4>1, LiveFinite, FS_AddElement
      <4>3. bySource'[s] = bySource[s] + 1 /\ bySource[s] < MaxPerSource
        BY <1>3, <3>2 DEF RunAdded, TypeOK
      <4> QED
        BY <3>1, <4>2, <4>3, LiveFinite DEF Counted
    <3>3. CASE s # SourceOf[t]
      <4>1. LiveOf(s)' = LiveOf(s)
        BY <1>3, <3>3, LiveAdded
      <4>2. bySource'[s] = bySource[s]
        BY <1>3, <3>3 DEF RunAdded, TypeOK
      <4> QED
        BY <4>1, <4>2 DEF Counted
    <3> QED
      BY <3>2, <3>3
  <2> QED
    BY <1>1, <2>1, <2>2 DEF Counted
<1>4. ASSUME NEW r \in Runs, RunEnded(r) PROVE CapacityInv'
  <2>1. taskOf[r] \in Tasks /\ SourceOf[taskOf[r]] \in Sources
    BY <1>4, ConstantsOK DEF RunEnded, RunsHaveTasks
  <2>2. RunsHaveTasks'
    BY <1>4 DEF RunEnded, EndRun, TypeOK, RunsHaveTasks
  <2>3. ActiveAreRuns'
    <3>1. \A t \in Tasks : active'[t] \in Runs => active'[t] = active[t] /\ active[t] # r
      BY <1>4, <2>1, ConstantsOK DEF RunEnded, EndRun, TypeOK, ActiveAreRuns
    <3>2. \A q \in Runs : q # r => pc'[q] = pc[q] /\ taskOf'[q] = taskOf[q]
      BY <1>4 DEF RunEnded, EndRun, TypeOK
    <3> QED
      BY <3>1, <3>2 DEF ActiveAreRuns
  <2>4. ASSUME NEW s \in Sources
        PROVE  Cardinality(LiveOf(s))' <= bySource'[s] /\ bySource'[s] <= MaxPerSource
    <3>1. LiveOf(s)' = LiveOf(s) \ {r}
      BY <1>4, LiveRemoved
    <3>2. Cardinality(LiveOf(s))' =
            IF r \in LiveOf(s) THEN Cardinality(LiveOf(s)) - 1 ELSE Cardinality(LiveOf(s))
      BY <3>1, LiveFinite, FS_RemoveElement
    <3>3. r \in LiveOf(s) <=> (kind[r] = "queued" /\ s = SourceOf[taskOf[r]])
      BY <1>4 DEF RunEnded, LiveOf, LiveRuns, Live
    <3>4. bySource[s] \in Nat /\ MaxPerSource \in Nat
      BY ConstantsOK DEF TypeOK
    <3>5. CASE kind[r] = "queued" /\ s = SourceOf[taskOf[r]] /\ bySource[s] > 0
      <4>1. bySource'[s] = bySource[s] - 1
        BY <1>4, <3>5 DEF RunEnded, EndRun, TypeOK
      <4> QED
        BY <3>2, <3>3, <3>4, <3>5, <4>1, LiveFinite DEF Counted
    <3>6. CASE ~(kind[r] = "queued" /\ s = SourceOf[taskOf[r]] /\ bySource[s] > 0)
      <4>1. bySource'[s] = bySource[s]
        BY <1>4, <3>6 DEF RunEnded, EndRun, TypeOK
      <4> QED
        BY <3>2, <3>3, <3>4, <3>6, <4>1, LiveFinite DEF Counted
    <3> QED
      BY <3>5, <3>6
  <2> QED
    BY <1>1, <2>2, <2>3, <2>4 DEF Counted
<1>5. ASSUME NEW t \in Tasks, RunDropped(t) PROVE CapacityInv'
  <2>1. active[t] \in Runs
    BY <1>5 DEF RunDropped
  <2>2. RunsHaveTasks'
    BY <1>5 DEF RunDropped, TypeOK, RunsHaveTasks
  <2>3. ActiveAreRuns'
    BY <1>5, ConstantsOK DEF RunDropped, TypeOK, ActiveAreRuns
  <2>4. ASSUME NEW s \in Sources
        PROVE  Cardinality(LiveOf(s))' <= bySource'[s] /\ bySource'[s] <= MaxPerSource
    <3>1. LiveOf(s)' = LiveOf(s) \ {active[t]}
      BY <1>5, <2>1, LiveRemoved
    <3>2. Cardinality(LiveOf(s))' <= Cardinality(LiveOf(s)) /\ Cardinality(LiveOf(s))' \in Nat
      BY <3>1, LiveFinite, FS_Subset, FS_CardinalityType
    <3> QED
      BY <1>5, <3>2, LiveFinite, ConstantsOK DEF RunDropped, Counted, TypeOK
  <2> QED
    BY <1>1, <2>2, <2>3, <2>4 DEF Counted
<1>6. ASSUME NEW t \in Tasks, NEW r \in Runs, Confirming(t, r) PROVE CapacityInv'
  <2>1. RunsHaveTasks' /\ ActiveAreRuns'
    BY <1>6 DEF Confirming, TypeOK, RunsHaveTasks, ActiveAreRuns
  <2>2. Counted'
    BY <1>6, LiveKept DEF Confirming, Counted
  <2> QED
    BY <1>1, <2>1, <2>2
<1>7. CASE MemoryLost
  <2>1. RunsHaveTasks' /\ ActiveAreRuns'
    BY <1>7, ConstantsOK DEF MemoryLost, RunsHaveTasks, ActiveAreRuns
  <2>2. \A s \in Sources : LiveOf(s)' = {}
    BY <1>7 DEF MemoryLost, LiveOf, LiveRuns, Live
  <2>3. ASSUME NEW s \in Sources
        PROVE  Cardinality(LiveOf(s))' <= bySource'[s] /\ bySource'[s] <= MaxPerSource
    <3>1. Cardinality(LiveOf(s))' = 0
      BY <2>2, FS_EmptySet
    <3>2. bySource'[s] = 0 /\ MaxPerSource \in Nat
      BY <1>7, ConstantsOK DEF MemoryLost
    <3> QED
      BY <3>1, <3>2
  <2> QED
    BY <1>1, <2>1, <2>3 DEF Counted
<1> QED
  BY <1>2, <1>3, <1>4, <1>5, <1>6, <1>7, StepEffect

LEMMA CapacityHolds == Spec => []CapacityInv
  BY CapacityInit, CapacityStep, PTL DEF Spec

\* PerSourceBound holds for every number of tasks and every limit: whatever operators pause,
\* resume, cancel or confirm, and however runs wind down or overlap, no source is used by
\* more queued runs than max_concurrent_downloads_per_source.
THEOREM PerSourceBounded == Spec => []PerSourceBound
<1>1. CapacityInv => PerSourceBound
  <2> SUFFICES ASSUME CapacityInv, NEW s \in Sources
               PROVE  Cardinality({r \in LiveRuns : SourceOf[taskOf[r]] = s}) <= MaxPerSource
    BY DEF PerSourceBound
  <2>1. Cardinality(LiveOf(s)) <= bySource[s] /\ bySource[s] <= MaxPerSource
    BY DEF CapacityInv, Counted
  <2>2. LiveOf(s) = {r \in LiveRuns : SourceOf[taskOf[r]] = s}
    BY DEF LiveOf
  <2>3. bySource[s] \in Nat /\ MaxPerSource \in Nat /\ Cardinality(LiveOf(s)) \in Nat
    BY LiveFinite, ConstantsOK DEF CapacityInv, TypeOK
  <2> QED
    BY <2>1, <2>2, <2>3
<1> QED
  BY <1>1, CapacityHolds, PTL

-----------------------------------------------------------------------------
(* With one download per source, the default, runs of a task never overlap, *)
(* so that _active_runs names every live run and its size counts them.      *)

LEMMA AtMostOne ==
  ASSUME NEW S, IsFiniteSet(S), Cardinality(S) <= 1, NEW a \in S, NEW b \in S
  PROVE  a = b
<1>1. IsFiniteSet(S \ {a}) /\ Cardinality(S \ {a}) = Cardinality(S) - 1
  BY FS_RemoveElement
<1>2. Cardinality(S) \in Nat /\ Cardinality(S \ {a}) \in Nat
  BY <1>1, FS_CardinalityType
<1>3. S \ {a} = {}
  BY <1>1, <1>2, FS_EmptySet
<1> QED
  BY <1>3

LEMMA OneRunPerSource ==
  ASSUME CapacityInv, MaxPerSource = 1, NEW q \in LiveRuns, NEW r \in LiveRuns,
         SourceOf[taskOf[q]] = SourceOf[taskOf[r]]
  PROVE  q = r
<1> DEFINE s == SourceOf[taskOf[r]]
<1>1. s \in Sources
  BY ConstantsOK DEF CapacityInv, RunsHaveTasks, LiveRuns, Live
<1>2. q \in LiveOf(s) /\ r \in LiveOf(s)
  BY DEF LiveOf
<1>3. IsFiniteSet(LiveOf(s)) /\ Cardinality(LiveOf(s)) \in Nat
  BY <1>1, LiveFinite
<1>4. Cardinality(LiveOf(s)) <= 1
  BY <1>1, <1>3 DEF CapacityInv, Counted, TypeOK
<1> QED
  BY <1>2, <1>3, <1>4, AtMostOne

\* With one download per source no two runs share a task and its staging directory.
THEOREM RunsAreExclusive == ASSUME MaxPerSource = 1 PROVE Spec => []OneRunPerTask
<1>1. CapacityInv => OneRunPerTask
  BY OneRunPerSource DEF OneRunPerTask
<1> QED
  BY <1>1, CapacityHolds, PTL

\* _active_runs has every live run under its task.
Registered == \A r \in LiveRuns : active[taskOf[r]] = r

GlobalInv == CapacityInv /\ Registered /\ GlobalBound

LEMMA LiveAreActive ==
  ASSUME CapacityInv, Registered, MaxPerSource = 1
  PROVE  Cardinality(LiveRuns) <= Cardinality(ActiveTasks)
<1> DEFINE f == [r \in LiveRuns |-> taskOf[r]]
<1>1. \A r \in LiveRuns : taskOf[r] \in ActiveTasks
  BY ConstantsOK DEF CapacityInv, RunsHaveTasks, Registered, LiveRuns, Live, ActiveTasks
<1>2. f \in [LiveRuns -> ActiveTasks]
  BY <1>1
<1>3. \A q, r \in LiveRuns : f[q] = f[r] => q = r
  BY OneRunPerSource
<1>4. f \in Injection(LiveRuns, ActiveTasks)
  BY <1>2, <1>3 DEF Injection, IsInjective
<1>5. IsFiniteSet(ActiveTasks)
  BY ConstantsOK, FS_Subset DEF ActiveTasks
<1> QED
  BY <1>4, <1>5, FS_Injection

LEMMA RegisteredStep ==
  ASSUME CapacityInv, Registered, MaxPerSource = 1, [Next]_vars PROVE Registered'
<1> USE DEF CapacityInv
<1>1. ASSUME RunsKept PROVE Registered'
  BY <1>1, LiveKept DEF RunsKept, Registered
<1>2. ASSUME NEW t \in Tasks, NEW r \in Runs, RunAdded(t, r) PROVE Registered'
  <2>1. \A q \in LiveRuns : taskOf[q] # t
    <3> SUFFICES ASSUME NEW q \in LiveRuns, taskOf[q] = t PROVE FALSE
      OBVIOUS
    <3> DEFINE s == SourceOf[t]
    <3>1. s \in Sources /\ q \in LiveOf(s)
      BY ConstantsOK DEF LiveOf
    <3>2. Cardinality(LiveOf(s)) # 0
      BY <3>1, LiveFinite, FS_EmptySet
    <3>3. bySource[s] \in Nat /\ bySource[s] < 1 /\ Cardinality(LiveOf(s)) <= bySource[s]
      BY <1>2, <3>1 DEF RunAdded, Counted, TypeOK
    <3> QED
      BY <3>1, <3>2, <3>3, LiveFinite
  <2>2. \A q \in LiveRuns : taskOf'[q] = taskOf[q] /\ taskOf[q] \in Tasks
    BY <1>2 DEF RunAdded, LiveRuns, Live, TypeOK, RunsHaveTasks
  <2>3. taskOf'[r] = t /\ active'[t] = r /\ \A u \in Tasks : u # t => active'[u] = active[u]
    BY <1>2 DEF RunAdded, TypeOK
  <2> QED
    BY <1>2, <2>1, <2>2, <2>3, LiveAdded DEF Registered
<1>3. ASSUME NEW r \in Runs, RunEnded(r) PROVE Registered'
  <2>1. \A q \in LiveRuns' : q \in LiveRuns /\ q # r
    BY <1>3, LiveRemoved
  <2>2. \A q \in LiveRuns' : taskOf'[q] = taskOf[q] /\ taskOf[q] \in Tasks
    BY <1>3, <2>1 DEF RunEnded, EndRun, TypeOK, RunsHaveTasks, LiveRuns, Live
  <2>3. CASE kind[r] = "queued"
    <3>1. r \in LiveRuns /\ taskOf[r] \in Tasks
      BY <1>3, <2>3 DEF RunEnded, LiveRuns, Live, RunsHaveTasks
    <3>2. \A q \in LiveRuns' : taskOf[q] # taskOf[r]
      BY <2>1, <3>1, OneRunPerSource
    <3>3. \A u \in Tasks : u # taskOf[r] => active'[u] = active[u]
      BY <1>3 DEF RunEnded, EndRun, TypeOK
    <3> QED
      BY <2>1, <2>2, <3>2, <3>3 DEF Registered
  <2>4. CASE kind[r] # "queued"
    <3>1. \A u \in Tasks : active[u] # r => active'[u] = active[u]
      BY <1>3, <2>4 DEF RunEnded, EndRun, TypeOK
    <3> QED
      BY <2>1, <2>2, <3>1 DEF Registered
  <2> QED
    BY <2>3, <2>4
<1>4. ASSUME NEW t \in Tasks, RunDropped(t) PROVE Registered'
  <2>1. \A q \in LiveRuns' : q \in LiveRuns /\ q # active[t]
    BY <1>4, LiveRemoved DEF RunDropped
  <2>2. \A q \in LiveRuns' : taskOf'[q] = taskOf[q] /\ taskOf[q] \in Tasks
    BY <1>4, <2>1 DEF RunDropped, TypeOK, RunsHaveTasks, LiveRuns, Live
  <2>3. \A q \in LiveRuns' : taskOf[q] # t
    BY <2>1 DEF Registered
  <2> QED
    BY <1>4, <2>1, <2>2, <2>3 DEF RunDropped, TypeOK, Registered
<1>5. ASSUME NEW t \in Tasks, NEW r \in Runs, Confirming(t, r) PROVE Registered'
  <2>1. \A q \in LiveRuns : /\ taskOf'[q] = taskOf[q] /\ taskOf[q] \in Tasks
                            /\ active[taskOf[q]] \in Runs
    BY <1>5 DEF Confirming, TypeOK, LiveRuns, Live, RunsHaveTasks, Registered
  <2>2. \A q \in LiveRuns : taskOf[q] # t
    BY <1>5, <2>1, ConstantsOK DEF Confirming
  <2> QED
    BY <1>5, <2>1, <2>2, LiveKept DEF Confirming, TypeOK, Registered
<1>6. ASSUME MemoryLost PROVE Registered'
  BY <1>6 DEF MemoryLost, Registered, LiveRuns, Live
<1> QED
  BY <1>1, <1>2, <1>3, <1>4, <1>5, <1>6, StepEffect

LEMMA GlobalStep ==
  ASSUME GlobalInv, MaxPerSource = 1, [Next]_vars PROVE GlobalInv'
<1> USE DEF GlobalInv, GlobalBound
<1>1. CapacityInv' /\ Registered'
  BY CapacityStep, RegisteredStep
<1>2. Cardinality(LiveRuns) \in Nat /\ IsFiniteSet(LiveRuns) /\ MaxActive \in Nat
  BY LiveFinite, ConstantsOK
<1>3. ASSUME NEW t \in Tasks, NEW r \in Runs, RunAdded(t, r)
      PROVE  Cardinality(LiveRuns)' <= MaxActive
  <2>1. Cardinality(LiveRuns)' = Cardinality(LiveRuns) + 1
    BY <1>2, <1>3, LiveAdded, FS_AddElement DEF CapacityInv
  <2>2. Cardinality(ActiveTasks) < MaxActive /\ Cardinality(ActiveTasks) \in Nat
    BY <1>3, ConstantsOK, FS_Subset, FS_CardinalityType DEF RunAdded, ActiveTasks
  <2>3. Cardinality(LiveRuns) <= Cardinality(ActiveTasks)
    BY LiveAreActive
  <2> QED
    BY <1>2, <2>1, <2>2, <2>3
<1>4. ASSUME NEW r \in Runs, RunEnded(r) \/ \E t \in Tasks : active[t] = r /\ RunDropped(t)
      PROVE  Cardinality(LiveRuns)' <= MaxActive
  <2>1. LiveRuns' \subseteq LiveRuns
    BY <1>4, LiveRemoved DEF CapacityInv
  <2>2. Cardinality(LiveRuns)' <= Cardinality(LiveRuns) /\ Cardinality(LiveRuns)' \in Nat
    BY <1>2, <2>1, FS_Subset, FS_CardinalityType
  <2> QED
    BY <1>2, <2>2
<1>5. ASSUME MemoryLost PROVE Cardinality(LiveRuns)' <= MaxActive
  <2>1. LiveRuns' = {}
    BY <1>5 DEF MemoryLost, LiveRuns, Live
  <2> QED
    BY <1>2, <2>1, FS_EmptySet
<1>6. ASSUME RunsKept \/ \E t \in Tasks, r \in Runs : Confirming(t, r)
      PROVE  Cardinality(LiveRuns)' <= MaxActive
  BY <1>6, LiveKept DEF CapacityInv
<1>7. \A t \in Tasks : RunDropped(t) => active[t] \in Runs
  BY DEF RunDropped
<1> QED
  BY <1>1, <1>3, <1>4, <1>5, <1>6, <1>7, StepEffect DEF CapacityInv

\* With one download per source the global limit holds too.  (Without that assumption it
\* does not: a second run of a task takes the place of the first in _active_runs.)
THEOREM GloballyBounded == ASSUME MaxPerSource = 1 PROVE Spec => []GlobalBound
<1>1. Init => GlobalInv
  <2> SUFFICES ASSUME Init PROVE Registered /\ GlobalBound
    BY CapacityInit DEF GlobalInv
  <2>1. LiveRuns = {}
    BY DEF Init, LiveRuns, Live
  <2>2. Cardinality(LiveRuns) = 0
    BY <2>1, FS_EmptySet
  <2> QED
    BY <2>1, <2>2, ConstantsOK DEF Registered, GlobalBound
<1>2. GlobalInv /\ [Next]_vars => GlobalInv'
  BY GlobalStep
<1>3. GlobalInv => GlobalBound
  BY DEF GlobalInv
<1> QED
  BY <1>1, <1>2, <1>3, PTL DEF Spec

-----------------------------------------------------------------------------
(* The queue is never forgotten and never overslept, and work has a run:    *)
(* for every limit, overlapping runs of a task included.                    *)

\* A run that was not told to wind down.
Working(r) == pc[r] \notin {"idle", "stopping", "aborting"}

\* The places of a run that has taken a task and not changed its status yet.
Untouched == {"created", "pointers", "fetched"}

\* What a step of a run is to the queue: it goes on, and leaves the task as it was or in a
\* working status, ...
RunWorks(r) ==
  /\ Working(r) /\ loop \in {Free, r} /\ loop' \in {Free, r}
  /\ UNCHANGED <<queued, pending, wakeup, active, bySource, taskOf, kind, calls, waiters>>
  /\ \E p \in PC \ {"idle", "created", "stopping", "aborting"} : pc' = [pc EXCEPT ![r] = p]
  /\ \/ /\ UNCHANGED status
        /\ pc[r] \in Untouched => pc'[r] \in Untouched
     \/ \E s \in Interrupted : status' = [status EXCEPT ![taskOf[r]] = s]

\* ... or it ends, and the task is not shown as worked on unless the run was cancelled.
RunStops(r) ==
  /\ RunEnded(r) /\ loop \in {Free, r}
  /\ UNCHANGED <<queued, pending, waiters>>
  /\ \/ /\ pc[r] \in {"stopping", "aborting"} \/ kind[r] # "queued"
        /\ UNCHANGED status
     \/ /\ UNCHANGED status /\ status[taskOf[r]] \in {"PAUSED", "CANCELLED", "DELETED"}
     \/ /\ Working(r)
        /\ \E s \in {"FAILED", "COMPLETED"} : status' = [status EXCEPT ![taskOf[r]] = s]
     \/ /\ Working(r) /\ SourceOf[taskOf[r]] \in Http
        /\ status' = [status EXCEPT ![taskOf[r]] = "AWAITING_CONFIRMATION"]

LEMMA RunIsWork ==
  ASSUME TypeOK, NEW r \in Runs, RunStep(r)
  PROVE  RunWorks(r) \/ RunStops(r)
<1> USE DEF Begins, GoesOn, KeepRun, RunFrame, table, RunWorks, Working, Interrupted, PC
<1>1. ASSUME RunStart(r) PROVE RunWorks(r)
  BY <1>1 DEF RunStart, TypeOK, Untouched
<1>2. ASSUME RunDownload(r) PROVE RunWorks(r)
  BY <1>2 DEF RunDownload
<1>3. ASSUME RunPointers(r) PROVE RunWorks(r)
  BY <1>3 DEF RunPointers, TypeOK, Untouched
<1>4. ASSUME RunProvider(r) PROVE RunWorks(r)
  BY <1>4 DEF RunProvider, Untouched
<1>5. ASSUME RunFetched(r) PROVE RunWorks(r)
  <2>1. /\ Working(r) /\ loop = r /\ status' = [status EXCEPT ![taskOf[r]] = "VERIFYING"]
        /\ UNCHANGED <<queued, pending, wakeup, active, bySource, taskOf, kind, calls, waiters>>
    BY <1>5 DEF RunFetched
  <2>2. PICK p \in {"verified", "hashing", "slot"} : pc' = [pc EXCEPT ![r] = p]
    BY <1>5 DEF RunFetched, EnterVerification
  <2>3. loop' \in {Free, r}
    BY <1>5 DEF RunFetched, EnterVerification
  <2>4. p \in PC \ {"idle", "created", "stopping", "aborting"} /\ "VERIFYING" \in Interrupted
    OBVIOUS
  <2>5. \E q \in PC \ {"idle", "created", "stopping", "aborting"} : pc' = [pc EXCEPT ![r] = q]
    BY <2>2, <2>4
  <2>6. \E s \in Interrupted : status' = [status EXCEPT ![taskOf[r]] = s]
    BY <2>1, <2>4
  <2>7. Working(r) /\ loop = r
        /\ UNCHANGED <<queued, pending, wakeup, active, bySource, taskOf, kind, calls, waiters>>
    BY <2>1
  <2> QED
    BY ONLY <2>3, <2>5, <2>6, <2>7 DEF RunWorks
<1>6. ASSUME RunSlot(r) \/ RunHashed(r) \/ RunExtracted(r) PROVE RunWorks(r)
  <2>1. CASE RunSlot(r)
    BY <2>1 DEF RunSlot, Untouched, disk
  <2>2. CASE RunHashed(r)
    BY <2>2 DEF RunHashed, Untouched
  <2>3. CASE RunExtracted(r)
    BY <2>3 DEF RunExtracted, EnterVerification, Untouched
  <2> QED
    BY <1>6, <2>1, <2>2, <2>3
<1>7. ASSUME RunPublishing(r) \/ RunPublished(r) \/ RunDiscards(r) PROVE RunWorks(r)
  BY <1>7 DEF RunPublishing, RunPublished, RunDiscards, Untouched
<1>8. ASSUME RunAwaits(r) \/ RunCompletes(r) PROVE RunStops(r)
  BY <1>8 DEF RunAwaits, RunCompletes, RunStops, RunEnded
<1>9. ASSUME RunFails(r) PROVE RunStops(r)
  BY <1>9 DEF RunFails, RunStops, RunEnded
<1>10. ASSUME ConfirmFails(r) \/ RunUnwinds(r) PROVE RunStops(r)
  BY <1>10 DEF ConfirmFails, RunUnwinds, RunStops, RunEnded, disk
<1>11. ASSUME RunGivesUp(r) PROVE RunStops(r)
  BY <1>11 DEF RunGivesUp, RunStops, RunEnded, disk, Stopped
<1> QED
  BY <1>1, <1>2, <1>3, <1>4, <1>5, <1>6, <1>7, <1>8, <1>9, <1>10, <1>11 DEF RunStep


\* A cancelled call changes a run of its task, and leaves the queue alone.
LEMMA CancelsRun ==
  ASSUME TypeOK, ActiveAreRuns, NEW t \in Tasks, NEW op \in {"pause", "cancel"},
         CancelActive(op, t)
  PROVE  /\ active[t] \in Runs /\ taskOf[active[t]] = t
         /\ calls \subseteq calls'
         /\ \E c \in calls' : c.op = op /\ c.task = t
         /\ \A r \in Runs : r # active[t] =>
              pc'[r] = pc[r] /\ kind'[r] = kind[r] /\ taskOf'[r] = taskOf[r]
         /\ pc'[active[t]] \in {"idle", "stopping", "aborting"}
         /\ pc'[active[t]] # "idle" => UNCHANGED <<taskOf, kind, active>>
         /\ \A u \in Tasks : u # t => active'[u] = active[u]
         /\ active'[t] \in {active[t], Dead}
<1> DEFINE r == active[t]
<1>1. r \in Runs /\ taskOf[r] = t
  BY DEF CancelActive, ActiveAreRuns
<1>2. PICK on \in {None, r} : calls' = calls \cup {[op |-> op, task |-> t, on |-> on]}
  BY DEF CancelActive
<1>3. calls \subseteq calls' /\ \E c \in calls' : c.op = op /\ c.task = t
  <2> DEFINE call == [op |-> op, task |-> t, on |-> on]
  <2>1. call \in calls' /\ call.op = op /\ call.task = t
    BY <1>2
  <2> QED
    BY <1>2, <2>1
<1>4. CASE pc[r] = "created"
  <2>1. /\ pc' = [pc EXCEPT ![r] = "idle"] /\ taskOf' = [taskOf EXCEPT ![r] = NoTask]
        /\ kind' = [kind EXCEPT ![r] = "queued"] /\ active' = [active EXCEPT ![t] = Dead]
    BY <1>4 DEF CancelActive, AfterCancel
  <2> QED
    BY <1>1, <1>3, <2>1 DEF TypeOK
<1>5. CASE pc[r] # "created"
  <2>1. AfterCancel(r) \in {"stopping", "aborting"}
    BY <1>5 DEF AfterCancel
  <2>2. pc' = [pc EXCEPT ![r] = AfterCancel(r)] /\ UNCHANGED <<taskOf, kind, active>>
    BY <1>5 DEF CancelActive
  <2> QED
    BY <1>1, <1>3, <2>1, <2>2 DEF TypeOK
<1> QED
  BY <1>4, <1>5

-----------------------------------------------------------------------------
(* No queued task is lost.                                                  *)

StartNowCall(t) == [op |-> "start_now", task |-> t, on |-> None]
Taken(r, t) == pc[r] \in Untouched /\ kind[r] = "queued" /\ taskOf[r] = t

Held(t) == \/ queued[t] + pending[t] > 0
           \/ \E r \in Runs : Taken(r, t)
           \/ StartNowCall(t) \in calls

QueuedAreHeld == loop # Down => \A t \in Tasks : status[t] = "QUEUED" => Held(t)

LEMMA HeldIsNotLost == QueuedAreHeld => NoLostTask
BY DEF QueuedAreHeld, NoLostTask, Held, Taken, Untouched, StartNowCall, LiveRuns, Live

\* A task stays held by a step that takes away no entry, run or call of it.
LEMMA StaysHeld ==
  ASSUME TypeOK, NEW t \in Tasks, Held(t),
         queued[t] + pending[t] > 0 => queued'[t] + pending'[t] > 0 \/ \E r \in Runs : Taken(r, t)',
         \A r \in Runs : Taken(r, t) => Taken(r, t)',
         StartNowCall(t) \in calls => StartNowCall(t) \in calls' \/ queued'[t] + pending'[t] > 0
  PROVE  Held(t)'
BY DEF Held, StartNowCall

LEMMA HeldByOperator ==
  ASSUME TypeOK, TypeOK', ActiveAreRuns, QueuedAreHeld, OperatorStep \/ ReorderQueued
  PROVE  QueuedAreHeld'
<1> USE DEF table, runs, Operator, queues
<1>1. ASSUME NEW t \in Tasks, status'[t] = "QUEUED", status[t] = "QUEUED", loop # Down,
             UNCHANGED <<pc, taskOf, kind>>, calls \subseteq calls',
             queued'[t] + pending'[t] >= queued[t] + pending[t]
      PROVE  Held(t)'
  <2>1. Held(t)
    BY <1>1 DEF QueuedAreHeld
  <2>2. queued[t] + pending[t] \in Nat /\ queued'[t] + pending'[t] \in Nat
    BY DEF TypeOK
  <2>3. \A r \in Runs : Taken(r, t) => Taken(r, t)'
    BY <1>1 DEF Taken
  <2>4. queued[t] + pending[t] > 0 => queued'[t] + pending'[t] > 0
    BY <1>1, <2>2
  <2> QED
    BY <1>1, <2>1, <2>3, <2>4, StaysHeld
<1>2. ASSUME NEW t \in Tasks, NEW u \in Tasks, queued' = [queued EXCEPT ![u] = @ + 1], UNCHANGED pending
      PROVE  /\ queued'[t] + pending'[t] >= queued[t] + pending[t]
             /\ t = u => queued'[t] + pending'[t] > 0
  BY <1>2 DEF TypeOK
<1>3. ASSUME UNCHANGED <<queued, pending>>, NEW t \in Tasks
      PROVE  queued'[t] + pending'[t] >= queued[t] + pending[t]
  BY <1>3 DEF TypeOK
<1>4. ASSUME NEW t \in Tasks, NEW delayed \in BOOLEAN, Create(t, delayed) PROVE QueuedAreHeld'
  <2>1. CASE delayed
    BY <1>1, <1>3, <1>4, <2>1 DEF Create, QueuedAreHeld, TypeOK
  <2>2. CASE ~delayed
    BY <1>1, <1>2, <1>4, <2>2 DEF Create, Enqueue, QueuedAreHeld, Held, TypeOK
  <2> QED
    BY <2>1, <2>2
<1>5. ASSUME NEW t \in Tasks, StartNow(t) PROVE QueuedAreHeld'
  BY <1>1, <1>3, <1>5 DEF StartNow, QueuedAreHeld, Held, StartNowCall, TypeOK
<1>6. ASSUME NEW t \in Tasks, Reschedule(t) \/ ResumeLater(t) \/ DeleteArtifact(t)
             \/ \E withArtifact \in BOOLEAN : DeleteTask(t, withArtifact)
      PROVE  QueuedAreHeld'
  BY <1>1, <1>3, <1>6
     DEF Reschedule, ResumeLater, DeleteArtifact, DeleteTask, QueuedAreHeld, TypeOK
<1>7. ASSUME NEW t \in Tasks, Resume(t) PROVE QueuedAreHeld'
  BY <1>1, <1>2, <1>7 DEF Resume, Enqueue, QueuedAreHeld, Held, TypeOK
<1>8. ASSUME NEW t \in Tasks, Pause(t) \/ Cancel(t) PROVE QueuedAreHeld'
  <2>1. /\ loop = Free /\ loop' = Free /\ UNCHANGED <<queued, pending>>
        /\ \E s \in {"PAUSED", "CANCELLED"} : status' = [status EXCEPT ![t] = s]
    BY <1>8 DEF Pause, Cancel
  <2>2. CASE UNCHANGED <<table, runs, calls>>
    BY <1>1, <1>3, <2>1, <2>2 DEF QueuedAreHeld, TypeOK
  <2>3. CASE \E op \in {"pause", "cancel"} : CancelActive(op, t)
    <3> SUFFICES ASSUME NEW u \in Tasks, status'[u] = "QUEUED" PROVE Held(u)'
      BY DEF QueuedAreHeld
    <3>1. u # t /\ status[u] = "QUEUED"
      BY <2>1 DEF TypeOK
    <3>2. calls \subseteq calls' /\ \A r \in Runs : Taken(r, u) => Taken(r, u)'
      BY <2>3, <3>1, CancelsRun DEF Taken
    <3>3. Held(u)
      BY <2>1, <3>1 DEF QueuedAreHeld, Free, Down
    <3> QED
      BY <2>1, <3>2, <3>3, StaysHeld
  <2> QED
    BY <1>8, <2>2, <2>3 DEF Pause, Cancel
<1>9. ASSUME NEW t \in Tasks, NEW r \in Runs, NEW extract \in BOOLEAN, ConfirmHttp(t, r, extract)
      PROVE  QueuedAreHeld'
  <2>1. /\ loop = Free /\ UNCHANGED <<queued, pending, calls>> /\ pc[r] = "idle"
        /\ status' = [status EXCEPT ![t] = "VERIFYING"]
    BY <1>9 DEF ConfirmHttp
  <2>2. \A q \in Runs : q # r => pc'[q] = pc[q] /\ kind'[q] = kind[q] /\ taskOf'[q] = taskOf[q]
    BY <1>9 DEF ConfirmHttp, TypeOK
  <2> SUFFICES ASSUME NEW u \in Tasks, status'[u] = "QUEUED" PROVE Held(u)'
    BY DEF QueuedAreHeld
  <2>3. Held(u)
    BY <2>1 DEF QueuedAreHeld, TypeOK, Free, Down
  <2>4. \A q \in Runs : Taken(q, u) => Taken(q, u)'
    BY <2>1, <2>2 DEF Taken, Untouched
  <2> QED
    BY <2>1, <2>3, <2>4, StaysHeld
<1>10. ASSUME ReorderQueued PROVE QueuedAreHeld'
  BY <1>1, <1>3, <1>10 DEF ReorderQueued, QueuedAreHeld
<1> QED
  BY <1>4, <1>5, <1>6, <1>7, <1>8, <1>9, <1>10 DEF OperatorStep

\* An entry is moved from the queue to _pending, taken by a run, or purged with its task.
LEMMA HeldByScheduler ==
  ASSUME TypeOK, TypeOK', QueuedAreHeld, SchedulerStep
  PROVE  QueuedAreHeld'
<1> USE DEF table, runs, disk
<1> SUFFICES ASSUME NEW t \in Tasks, status[t] = "QUEUED", Held(t) PROVE Held(t)'
  <2>1. loop \in {Free, Scheduler} /\ UNCHANGED status
    BY DEF SchedulerStep, ScheduleWakes, SchedulePick, ScheduleWaits
  <2>2. loop # Down
    BY <2>1 DEF Free, Scheduler, Down
  <2> QED
    BY <2>1, <2>2 DEF QueuedAreHeld
<1>1. queued[t] \in Nat /\ pending[t] \in Nat /\ queued'[t] \in Nat /\ pending'[t] \in Nat
  BY DEF TypeOK
<1>2. CASE ScheduleWakes
  BY <1>1, <1>2, StaysHeld DEF ScheduleWakes, Taken
<1>3. CASE ScheduleWaits
  <2>1. pending'[t] = pending[t]
    BY <1>3 DEF ScheduleWaits, Purged
  <2> QED
    BY <1>1, <1>3, <2>1, StaysHeld DEF ScheduleWaits, Taken
<1>4. ASSUME NEW u \in Tasks, NEW r \in Runs, SchedulePick(u, r) PROVE Held(t)'
  <2>1. UNCHANGED <<queued, calls>> /\ pc[r] = "idle" /\ pc'[r] = "created" /\ taskOf'[r] = u
        /\ kind'[r] = "queued"
    BY <1>4 DEF SchedulePick, TypeOK
  <2>2. \A q \in Runs : q # r => pc'[q] = pc[q] /\ kind'[q] = kind[q] /\ taskOf'[q] = taskOf[q]
    BY <1>4 DEF SchedulePick, TypeOK
  <2>3. CASE t = u
    BY <2>1, <2>3 DEF Held, Taken, Untouched
  <2>4. CASE t # u
    <3>1. pending'[t] = pending[t]
      BY <1>4, <2>4 DEF SchedulePick, Purged
    <3>2. \A q \in Runs : Taken(q, t) => Taken(q, t)'
      BY <2>1, <2>2 DEF Taken, Untouched
    <3> QED
      BY <1>1, <2>1, <3>1, <3>2, StaysHeld
  <2> QED
    BY <2>3, <2>4
<1> QED
  BY <1>2, <1>3, <1>4 DEF SchedulerStep

\* A run that has taken a task keeps its place until it changes the task's status.
LEMMA HeldByRun ==
  ASSUME TypeOK, TypeOK', RunsHaveTasks, QueuedAreHeld, NEW r \in Runs, RunStep(r)
  PROVE  QueuedAreHeld'
<1>1. RunWorks(r) \/ RunStops(r)
  BY RunIsWork
<1>2. loop \in {Free, r} /\ UNCHANGED <<queued, pending>>
  BY <1>1 DEF RunWorks, RunStops
<1>3. loop # Down
  BY <1>2, ConstantsOK DEF Free, Down
<1> SUFFICES ASSUME NEW t \in Tasks, status'[t] = "QUEUED" PROVE Held(t)'
  BY DEF QueuedAreHeld
<1>4. CASE RunWorks(r)
  <2>1. status[t] = "QUEUED"
    BY <1>4 DEF RunWorks, TypeOK, Interrupted
  <2>2. Taken(r, t) => pc'[r] \in Untouched
    BY <1>4 DEF RunWorks, TypeOK, Interrupted, Taken
  <2>3. \A q \in Runs : q # r => pc'[q] = pc[q]
    BY <1>4 DEF RunWorks, TypeOK
  <2>4. \A q \in Runs : Taken(q, t) => Taken(q, t)'
    BY <1>4, <2>2, <2>3 DEF RunWorks, Taken
  <2>5. Held(t)
    BY <1>3, <2>1 DEF QueuedAreHeld
  <2> QED
    BY <1>2, <1>4, <2>4, <2>5, StaysHeld DEF RunWorks
<1>5. CASE RunStops(r)
  <2>1. pc[r] # "idle" /\ taskOf[r] \in Tasks
    BY <1>5 DEF RunStops, RunEnded, RunsHaveTasks
  <2>2. status[t] = "QUEUED" /\ ~Taken(r, t)
    BY <1>5, <2>1 DEF RunStops, TypeOK, Taken, Untouched
  <2>3. \A q \in Runs : q # r => pc'[q] = pc[q] /\ kind'[q] = kind[q] /\ taskOf'[q] = taskOf[q]
    BY <1>5 DEF RunStops, RunEnded, EndRun, TypeOK
  <2>4. \A q \in Runs : Taken(q, t) => Taken(q, t)'
    BY <2>2, <2>3 DEF Taken
  <2>5. StartNowCall(t) \in calls => StartNowCall(t) \in calls'
    <3>1. calls' = {IF c.on = r THEN [c EXCEPT !.on = None] ELSE c : c \in calls}
      BY <1>5 DEF RunStops, RunEnded, EndRun
    <3>2. StartNowCall(t).on # r
      BY ConstantsOK DEF StartNowCall
    <3> QED
      BY <3>1, <3>2
  <2>6. Held(t)
    BY <1>3, <2>2 DEF QueuedAreHeld
  <2> QED
    BY <1>2, <2>4, <2>5, <2>6, StaysHeld
<1> QED
  BY <1>1, <1>4, <1>5

\* Timers and returning calls put their task into the queue; a restart puts every task
\* there that is on disk as queued or as being worked on.
LEMMA HeldByOthers ==
  ASSUME TypeOK, TypeOK', QueuedAreHeld,
         \/ \E t \in Tasks : WaiterFires(t) \/ CallStep(t)
         \/ ThreadStep \/ CrashStep \/ Start \/ StartIsCut
         \/ UNCHANGED vars
  PROVE  QueuedAreHeld'
<1> USE DEF table, runs, disk, queues
<1>1. ASSUME NEW t \in Tasks, status'[t] = "QUEUED", status[t] = "QUEUED", loop # Down,
             UNCHANGED <<pc, taskOf, kind, pending>>,
             queued' = queued \/ \E u \in Tasks : queued' = [queued EXCEPT ![u] = @ + 1],
             StartNowCall(t) \in calls =>
               StartNowCall(t) \in calls' \/ queued' = [queued EXCEPT ![t] = @ + 1]
      PROVE  Held(t)'
  <2>1. Held(t)
    BY <1>1 DEF QueuedAreHeld
  <2>2. \A r \in Runs : Taken(r, t) => Taken(r, t)'
    BY <1>1 DEF Taken
  <2>3. queued[t] + pending[t] > 0 => queued'[t] + pending'[t] > 0
    BY <1>1 DEF TypeOK
  <2>4. StartNowCall(t) \in calls => StartNowCall(t) \in calls' \/ queued'[t] + pending'[t] > 0
    BY <1>1 DEF TypeOK
  <2> QED
    BY <2>1, <2>2, <2>3, <2>4, StaysHeld
<1>2. ASSUME NEW u \in Tasks, WaiterFires(u) PROVE QueuedAreHeld'
  <2> SUFFICES ASSUME NEW t \in Tasks, status'[t] = "QUEUED" PROVE Held(t)'
    BY DEF QueuedAreHeld
  <2>1. loop # Down /\ UNCHANGED <<pc, taskOf, kind, pending, calls>>
    BY <1>2 DEF WaiterFires, Free, Down
  <2>2. queued' = queued \/ queued' = [queued EXCEPT ![u] = @ + 1]
    BY <1>2 DEF WaiterFires, Enqueue
  <2>3. CASE status[t] = "QUEUED"
    BY <1>1, <2>1, <2>2, <2>3
  <2>4. CASE status[t] # "QUEUED"
    <3>1. t = u /\ queued' = [queued EXCEPT ![u] = @ + 1]
      BY <1>2, <2>4 DEF WaiterFires, Enqueue, TypeOK
    <3> QED
      BY <2>1, <3>1 DEF Held, TypeOK
  <2> QED
    BY <2>3, <2>4
<1>3. ASSUME NEW u \in Tasks, CallStep(u) PROVE QueuedAreHeld'
  <2>1. loop # Down /\ UNCHANGED <<status, pc, taskOf, kind, pending>>
    BY <1>3 DEF CallStep, StartNowReturns, PauseReturns, CancelReturns, Free, Down
  <2>2. queued' = queued \/ queued' = [queued EXCEPT ![u] = @ + 1]
    BY <1>3 DEF CallStep, StartNowReturns, PauseReturns, CancelReturns, Enqueue
  <2>3. ASSUME NEW t \in Tasks, StartNowCall(t) \in calls
        PROVE  StartNowCall(t) \in calls' \/ queued' = [queued EXCEPT ![t] = @ + 1]
    <3>1. CASE StartNowReturns(u)
      BY <2>3, <3>1 DEF StartNowReturns, StartNowCall, Enqueue
    <3>2. CASE PauseReturns(u) \/ CancelReturns(u)
      BY <2>3, <3>2 DEF PauseReturns, CancelReturns, StartNowCall
    <3> QED
      BY <1>3, <3>1, <3>2 DEF CallStep
  <2> QED
    BY <1>1, <2>1, <2>2, <2>3 DEF QueuedAreHeld
<1>4. ASSUME ThreadStep \/ UNCHANGED vars PROVE QueuedAreHeld'
  <2>1. UNCHANGED <<status, loop, queued, pending, pc, taskOf, kind, calls>>
    BY <1>4 DEF ThreadStep, OrphanEnds, ExtractorWrites, ExtractorEnds, vars
  <2> QED
    BY <1>1, <2>1 DEF QueuedAreHeld
<1>5. ASSUME CrashStep \/ StartIsCut PROVE QueuedAreHeld'
  BY <1>5, CrashDies DEF Dies, StartIsCut, QueuedAreHeld
<1>6. ASSUME Start PROVE QueuedAreHeld'
  <2> SUFFICES ASSUME NEW t \in Tasks, status'[t] = "QUEUED" PROVE Held(t)'
    BY DEF QueuedAreHeld
  <2>1. t \in Recovered /\ status[t] # "PAUSED"
    BY <1>6 DEF Start, Recovered, Interrupted
  <2>2. queued'[t] = 1 /\ pending'[t] \in Nat
    BY <1>6, <2>1 DEF Start, TypeOK
  <2> QED
    BY <2>2 DEF Held
<1> QED
  BY <1>2, <1>3, <1>4, <1>5, <1>6

QueueInv == CapacityInv /\ QueuedAreHeld

LEMMA QueueStep == QueueInv /\ [Next]_vars => QueueInv'
<1> SUFFICES ASSUME QueueInv, [Next]_vars PROVE QueueInv'
  OBVIOUS
<1>1. CapacityInv' /\ TypeOK /\ TypeOK' /\ RunsHaveTasks /\ ActiveAreRuns /\ QueuedAreHeld
  BY CapacityStep DEF QueueInv, CapacityInv
<1> QED
  BY <1>1, HeldByOperator, HeldByScheduler, HeldByRun, HeldByOthers DEF QueueInv, Next

\* NoLostTask holds in every reachable state, for every limit: a task shown as queued has an
\* entry the scheduler will find, a run that has just taken it, or a call about to queue it.
\* Resuming, rescheduling, overlapping runs and restarts never leave it without one.
THEOREM NoTaskIsLost == Spec => []NoLostTask
<1>1. Init => QueueInv
  BY CapacityInit DEF QueueInv, QueuedAreHeld, Init
<1>2. QueueInv /\ [Next]_vars => QueueInv'
  BY QueueStep
<1>3. QueueInv => NoLostTask
  BY HeldIsNotLost DEF QueueInv
<1> QED
  BY <1>1, <1>2, <1>3, PTL DEF Spec

-----------------------------------------------------------------------------
(* No wakeup is lost.                                                       *)

\* A task waits that the scheduler could start now.
Startable ==
  /\ Cardinality(ActiveTasks) < MaxActive
  /\ \E t \in Tasks : /\ status[t] = "QUEUED" /\ queued[t] + pending[t] > 0
                      /\ bySource[SourceOf[t]] < MaxPerSource

\* While the scheduler holds the event loop nobody else adds to the queue it has drained.
Drained == loop = Scheduler => \A t \in Tasks : queued[t] = 0

Woken == loop \notin {Scheduler, Down} /\ Startable => wakeup \/ \E c \in calls : c.on = None

WakeupInv == CapacityInv /\ Drained /\ Woken

\* What only makes tasks active, or stops them, makes none startable.
LEMMA NotMoreStartable ==
  ASSUME UNCHANGED <<queued, pending, bySource>>,
         \A t \in Tasks : active'[t] = None => active[t] = None,
         \A t \in Tasks : status'[t] = "QUEUED" => status[t] = "QUEUED",
         Startable'
  PROVE  Startable
<1>1. ActiveTasks \subseteq ActiveTasks' /\ IsFiniteSet(ActiveTasks) /\ IsFiniteSet(ActiveTasks')
  BY FS_Subset, ConstantsOK DEF ActiveTasks
<1>2. Cardinality(ActiveTasks) <= Cardinality(ActiveTasks')
  BY <1>1, FS_Subset
<1>3. Cardinality(ActiveTasks) \in Nat /\ Cardinality(ActiveTasks') \in Nat
  BY <1>1, FS_CardinalityType
<1>4. Cardinality(ActiveTasks) < MaxActive
  BY <1>2, <1>3, ConstantsOK DEF Startable
<1> QED
  BY <1>4 DEF Startable

LEMMA WokenByOperator ==
  ASSUME TypeOK, ActiveAreRuns, Drained, Woken, OperatorStep \/ ReorderQueued
  PROVE  Drained' /\ Woken'
<1> USE DEF table, runs, Operator, queues, Free, Scheduler, Down
<1>1. Drained'
  <2>1. loop' # Scheduler
    <3>1. ASSUME NEW t \in Tasks, NEW r \in Runs, NEW extract \in BOOLEAN, ConfirmHttp(t, r, extract)
          PROVE  loop' # Scheduler
      BY <3>1, ConstantsOK DEF ConfirmHttp
    <3>2. ASSUME NEW t \in Tasks, \E delayed \in BOOLEAN : Create(t, delayed)
          PROVE  loop' # Scheduler
      BY <3>2 DEF Create
    <3> QED
      BY <3>1, <3>2 DEF OperatorStep, StartNow, Reschedule, Pause, Resume, ResumeLater, Cancel,
         DeleteTask, DeleteArtifact, ReorderQueued
  <2> QED
    BY <2>1 DEF Drained
<1>2. ASSUME wakeup' PROVE Woken'
  BY <1>2 DEF Woken
<1>3. ASSUME loop = Free, UNCHANGED <<queued, pending, wakeup, bySource>>, calls \subseteq calls',
             \A t \in Tasks : active'[t] = None => active[t] = None,
             \A t \in Tasks : status'[t] = "QUEUED" => status[t] = "QUEUED"
      PROVE  Woken'
  <2>1. Startable' => Startable
    BY <1>3, NotMoreStartable
  <2> QED
    BY <1>3, <2>1 DEF Woken
<1>4. ASSUME NEW t \in Tasks, NEW delayed \in BOOLEAN, Create(t, delayed) PROVE Woken'
  <2>1. CASE delayed
    BY <1>3, <1>4, <2>1 DEF Create, TypeOK
  <2>2. CASE ~delayed
    BY <1>2, <1>4, <2>2 DEF Create, Enqueue
  <2> QED
    BY <2>1, <2>2
<1>5. ASSUME NEW t \in Tasks, StartNow(t) PROVE Woken'
  <2> DEFINE call == [op |-> "start_now", task |-> t, on |-> None]
  <2>1. call \in calls' /\ call.on = None
    BY <1>5 DEF StartNow
  <2> QED
    BY <2>1 DEF Woken
<1>6. ASSUME NEW t \in Tasks, Reschedule(t) \/ ResumeLater(t) \/ DeleteArtifact(t)
             \/ \E withArtifact \in BOOLEAN : DeleteTask(t, withArtifact)
      PROVE  Woken'
  BY <1>3, <1>6 DEF Reschedule, ResumeLater, DeleteArtifact, DeleteTask, TypeOK
<1>7. ASSUME NEW t \in Tasks, Resume(t) PROVE Woken'
  BY <1>2, <1>7 DEF Resume, Enqueue
<1>8. ASSUME NEW t \in Tasks, Pause(t) \/ Cancel(t) PROVE Woken'
  <2>1. /\ loop = Free /\ UNCHANGED <<queued, pending, bySource>>
        /\ \E s \in {"PAUSED", "CANCELLED"} : status' = [status EXCEPT ![t] = s]
        /\ \/ wakeup'
           \/ UNCHANGED wakeup /\ \E op \in {"pause", "cancel"} : CancelActive(op, t)
    BY <1>8 DEF Pause, Cancel, FinishCancel
  <2>2. CASE wakeup'
    BY <1>2, <2>2
  <2>3. CASE UNCHANGED wakeup /\ \E op \in {"pause", "cancel"} : CancelActive(op, t)
    <3>1. calls \subseteq calls' /\ \A u \in Tasks : active'[u] = None => active[u] = None
      BY <2>3, CancelsRun, ConstantsOK DEF TypeOK, None, Dead
    <3>2. \A u \in Tasks : status'[u] = "QUEUED" => status[u] = "QUEUED"
      BY <2>1 DEF TypeOK
    <3> QED
      BY <1>3, <2>1, <2>3, <3>1, <3>2
  <2> QED
    BY <2>1, <2>2, <2>3
<1>9. ASSUME NEW t \in Tasks, NEW r \in Runs, NEW extract \in BOOLEAN, ConfirmHttp(t, r, extract)
      PROVE  Woken'
  <2>1. \A u \in Tasks : active'[u] = None => active[u] = None
    BY <1>9, ConstantsOK DEF ConfirmHttp, TypeOK
  <2> QED
    BY <1>3, <1>9, <2>1 DEF ConfirmHttp, TypeOK
<1>10. ASSUME ReorderQueued PROVE Woken'
  BY <1>2, <1>10 DEF ReorderQueued
<1> QED
  BY <1>1, <1>4, <1>5, <1>6, <1>7, <1>8, <1>9, <1>10 DEF OperatorStep

\* The scheduler goes to sleep only when it has looked at every entry.
LEMMA WokenByScheduler ==
  ASSUME TypeOK, Drained, Woken, SchedulerStep
  PROVE  Drained' /\ Woken'
<1> USE DEF table, runs, disk, Free, Scheduler, Down
<1>1. CASE ScheduleWakes
  BY <1>1 DEF ScheduleWakes, Drained, Woken
<1>2. CASE \E t \in Tasks, r \in Runs : SchedulePick(t, r)
  BY <1>2 DEF SchedulePick, Drained, Woken
<1>3. CASE ScheduleWaits
  <2>1. ~Startable'
    <3>1. CASE Cardinality(ActiveTasks) >= MaxActive
      <4>1. Cardinality(ActiveTasks) \in Nat
        BY FS_Subset, FS_CardinalityType, ConstantsOK DEF ActiveTasks
      <4>2. ActiveTasks' = ActiveTasks
        BY <1>3 DEF ScheduleWaits, ActiveTasks
      <4> QED
        BY <3>1, <4>1, <4>2, ConstantsOK DEF Startable
    <3>2. CASE Schedulable = {} /\ pending' = Purged
      <4>1. ASSUME NEW t \in Tasks, status[t] = "QUEUED", queued[t] + pending'[t] > 0
            PROVE  pending[t] > 0
        BY <1>3, <3>2, <4>1 DEF ScheduleWaits, Drained, Purged, TypeOK
      <4> QED
        BY <1>3, <3>2, <4>1 DEF ScheduleWaits, Startable, Schedulable
    <3> QED
      BY <1>3, <3>1, <3>2 DEF ScheduleWaits
  <2>2. loop' = Free
    BY <1>3 DEF ScheduleWaits
  <2> QED
    BY <2>1, <2>2 DEF Drained, Woken
<1> QED
  BY <1>1, <1>2, <1>3 DEF SchedulerStep

\* A run that ends wakes the scheduler; every other step leaves the capacity alone.
LEMMA WokenByOthers ==
  ASSUME TypeOK, Drained, Woken,
         \/ \E r \in Runs : RunStep(r)
         \/ \E t \in Tasks : WaiterFires(t) \/ CallStep(t)
         \/ ThreadStep \/ CrashStep \/ Start \/ StartIsCut
         \/ UNCHANGED vars
  PROVE  Drained' /\ Woken'
<1> USE DEF table, runs, disk, queues, Free, Scheduler, Down
<1>1. ASSUME wakeup' PROVE Woken'
  BY <1>1 DEF Woken
<1>2. ASSUME NEW r \in Runs, RunStep(r) PROVE Drained' /\ Woken'
  <2>1. RunWorks(r) \/ RunStops(r)
    BY <1>2, RunIsWork
  <2>2. loop \in {Free, r} /\ loop' \in {Free, r}
    BY <2>1 DEF RunWorks, RunStops, RunEnded, EndRun
  <2>3. Drained' /\ loop \notin {Scheduler, Down}
    BY <2>2, ConstantsOK DEF Drained
  <2>4. CASE RunWorks(r)
    <3>1. \A t \in Tasks : status'[t] = "QUEUED" => status[t] = "QUEUED"
      BY <2>4 DEF RunWorks, TypeOK, Interrupted
    <3>2. UNCHANGED <<queued, pending, wakeup, active, bySource, calls>>
      BY <2>4 DEF RunWorks
    <3>3. Startable' => Startable
      BY <3>1, <3>2, NotMoreStartable
    <3> QED
      BY <2>3, <3>2, <3>3 DEF Woken
  <2>5. CASE RunStops(r)
    BY <1>1, <2>3, <2>5 DEF RunStops, RunEnded, EndRun
  <2> QED
    BY <2>1, <2>4, <2>5
<1>3. ASSUME NEW t \in Tasks, WaiterFires(t) PROVE Drained' /\ Woken'
  <2>1. CASE status[t] = "SCHEDULED"
    BY <1>1, <1>3, <2>1 DEF WaiterFires, Enqueue, Drained
  <2>2. CASE status[t] # "SCHEDULED"
    <3>1. UNCHANGED <<loop, status, queued, pending, wakeup, active, bySource, calls>>
      BY <1>3, <2>2 DEF WaiterFires
    <3>2. Startable' => Startable
      BY <3>1, NotMoreStartable
    <3> QED
      BY <3>1, <3>2 DEF Drained, Woken
  <2> QED
    BY <2>1, <2>2
<1>4. ASSUME NEW t \in Tasks, CallStep(t) PROVE Drained' /\ Woken'
  BY <1>1, <1>4 DEF CallStep, StartNowReturns, PauseReturns, CancelReturns, Enqueue, FinishCancel,
     Drained
<1>5. ASSUME ThreadStep \/ UNCHANGED vars PROVE Drained' /\ Woken'
  <2>1. UNCHANGED <<loop, status, queued, pending, wakeup, active, bySource, calls>>
    BY <1>5 DEF ThreadStep, OrphanEnds, ExtractorWrites, ExtractorEnds, vars
  <2>2. Startable' => Startable
    BY <2>1, NotMoreStartable
  <2> QED
    BY <2>1, <2>2 DEF Drained, Woken
<1>6. ASSUME CrashStep \/ StartIsCut PROVE Drained' /\ Woken'
  BY <1>6, CrashDies DEF Dies, StartIsCut, Drained, Woken
<1>7. ASSUME Start PROVE Drained' /\ Woken'
  BY <1>7 DEF Start, Drained, Woken
<1> QED
  BY <1>2, <1>3, <1>4, <1>5, <1>6, <1>7

\* NoLostWakeup holds in every reachable state, for every limit: whoever frees capacity, queues
\* a task or stops one sets the event, or is a suspended call that sets it when it returns, and
\* the scheduler never waits on the event with a candidate it could start.
THEOREM NoWakeupIsLost == Spec => []NoLostWakeup
<1>1. Init => WakeupInv
  BY CapacityInit DEF WakeupInv, Drained, Woken, Init, Free, Scheduler
<1>2. WakeupInv /\ [Next]_vars => WakeupInv'
  <2> SUFFICES ASSUME WakeupInv, [Next]_vars PROVE WakeupInv'
    OBVIOUS
  <2>1. CapacityInv' /\ TypeOK /\ ActiveAreRuns /\ Drained /\ Woken
    BY CapacityStep DEF WakeupInv, CapacityInv
  <2> QED
    BY <2>1, WokenByOperator, WokenByScheduler, WokenByOthers DEF WakeupInv, Next
<1>3. WakeupInv => NoLostWakeup
  BY DEF WakeupInv, Woken, Startable, NoLostWakeup, Free, Scheduler, Down
<1> QED
  BY <1>1, <1>2, <1>3, PTL DEF Spec

-----------------------------------------------------------------------------
(* Work has a run.                                                          *)

WorksOn(r, t) == Working(r) /\ kind[r] = "queued" /\ taskOf[r] = t

\* Only generic HTTP tasks wait for a confirmation and are confirmed.
ConfirmsAreHttp ==
  /\ \A r \in Runs : pc[r] # "idle" /\ kind[r] # "queued" => SourceOf[taskOf[r]] \in Http
  /\ \A t \in Tasks : status[t] = "AWAITING_CONFIRMATION" => SourceOf[t] \in Http

\* A task shown as worked on has a run that was not told to stop.
WorkHasWorker ==
  loop # Down =>
    \A t \in Tasks : status[t] \in Interrupted /\ SourceOf[t] \notin Http =>
      \E r \in Runs : WorksOn(r, t)

WorkInv == CapacityInv /\ ConfirmsAreHttp /\ WorkHasWorker

\* A step that shows no more tasks as worked on, and leaves the runs of those that are alone.
LEMMA WorkerStays ==
  ASSUME WorkHasWorker, loop # Down,
         \A t \in Tasks : status'[t] \in Interrupted /\ SourceOf[t] \notin Http =>
           /\ status[t] \in Interrupted
           /\ \A r \in Runs : WorksOn(r, t) => WorksOn(r, t)'
  PROVE  WorkHasWorker'
BY DEF WorkHasWorker

\* A step that leaves the runs alone.
LEMMA WorkByFrame ==
  ASSUME ConfirmsAreHttp, WorkHasWorker, loop # Down, UNCHANGED runs,
         \A t \in Tasks : status'[t] \in Interrupted \cup {"AWAITING_CONFIRMATION"} =>
           status'[t] = status[t]
  PROVE  ConfirmsAreHttp' /\ WorkHasWorker'
<1>1. ConfirmsAreHttp'
  BY DEF ConfirmsAreHttp, runs
<1>2. \A r \in Runs, t \in Tasks : WorksOn(r, t) => WorksOn(r, t)'
  BY DEF WorksOn, Working, runs
<1> QED
  BY <1>1, <1>2, WorkerStays

LEMMA WorkByOperator ==
  ASSUME TypeOK, ActiveAreRuns, ConfirmsAreHttp, WorkHasWorker, OperatorStep \/ ReorderQueued
  PROVE  ConfirmsAreHttp' /\ WorkHasWorker'
<1> USE DEF Operator, Free, Down, Interrupted
<1>1. ASSUME NEW t \in Tasks, Pause(t) \/ Cancel(t) PROVE ConfirmsAreHttp' /\ WorkHasWorker'
  <2>1. /\ loop = Free
        /\ \E s \in {"PAUSED", "CANCELLED"} : status' = [status EXCEPT ![t] = s]
    BY <1>1 DEF Pause, Cancel
  <2>2. CASE UNCHANGED runs
    BY <2>1, <2>2, WorkByFrame DEF TypeOK
  <2>3. CASE \E op \in {"pause", "cancel"} : CancelActive(op, t)
    <3> DEFINE r == active[t]
    <3>1. r \in Runs /\ taskOf[r] = t /\ pc[r] # "idle"
      BY <2>3 DEF CancelActive, ActiveAreRuns
    <3>2. /\ \A q \in Runs : q # r =>
               pc'[q] = pc[q] /\ kind'[q] = kind[q] /\ taskOf'[q] = taskOf[q]
          /\ pc'[r] # "idle" => UNCHANGED <<taskOf, kind>>
      BY <2>3, CancelsRun
    <3>3. \A q \in Runs, u \in Tasks : u # t /\ WorksOn(q, u) => WorksOn(q, u)'
      BY <3>1, <3>2 DEF WorksOn, Working
    <3>4. \A u \in Tasks : status'[u] \in Interrupted => u # t /\ status[u] \in Interrupted
      BY <2>1 DEF TypeOK
    <3>5. WorkHasWorker'
      BY <2>1, <3>3, <3>4, WorkerStays
    <3>6. \A u \in Tasks : status'[u] = "AWAITING_CONFIRMATION" => status[u] = "AWAITING_CONFIRMATION"
      BY <2>1 DEF TypeOK
    <3>7. ASSUME NEW q \in Runs, pc'[q] # "idle", kind'[q] # "queued"
          PROVE  SourceOf[taskOf'[q]] \in Http
      BY <3>1, <3>2, <3>7 DEF ConfirmsAreHttp
    <3> QED
      BY <3>5, <3>6, <3>7 DEF ConfirmsAreHttp
  <2> QED
    BY <1>1, <2>2, <2>3 DEF Pause, Cancel
<1>2. ASSUME NEW t \in Tasks, NEW r \in Runs, NEW extract \in BOOLEAN, ConfirmHttp(t, r, extract)
      PROVE  ConfirmsAreHttp' /\ WorkHasWorker'
  <2>1. /\ loop = Free /\ pc[r] = "idle" /\ SourceOf[t] \in Http
        /\ status' = [status EXCEPT ![t] = "VERIFYING"] /\ taskOf' = [taskOf EXCEPT ![r] = t]
    BY <1>2 DEF ConfirmHttp, ConfirmsAreHttp
  <2>2. \A q \in Runs : q # r => pc'[q] = pc[q] /\ kind'[q] = kind[q] /\ taskOf'[q] = taskOf[q]
    BY <1>2 DEF ConfirmHttp, TypeOK
  <2>3. \A q \in Runs, u \in Tasks : WorksOn(q, u) => WorksOn(q, u)'
    BY <2>1, <2>2 DEF WorksOn, Working
  <2>4. \A u \in Tasks : status'[u] \in Interrupted /\ SourceOf[u] \notin Http => status[u] \in Interrupted
    BY <2>1 DEF TypeOK
  <2>5. ConfirmsAreHttp'
    BY <2>1, <2>2 DEF ConfirmsAreHttp, TypeOK
  <2> QED
    BY <2>1, <2>3, <2>4, <2>5, WorkerStays
<1>3. ASSUME NEW t \in Tasks, NEW delayed \in BOOLEAN, Create(t, delayed)
      PROVE  ConfirmsAreHttp' /\ WorkHasWorker'
  BY <1>3, WorkByFrame DEF Create, TypeOK
<1>4. ASSUME NEW t \in Tasks, StartNow(t) \/ Reschedule(t) \/ Resume(t) \/ ResumeLater(t)
      PROVE  ConfirmsAreHttp' /\ WorkHasWorker'
  BY <1>4, WorkByFrame DEF StartNow, Reschedule, Resume, ResumeLater, TypeOK
<1>5. ASSUME NEW t \in Tasks, DeleteArtifact(t) \/ \E withArtifact \in BOOLEAN : DeleteTask(t, withArtifact)
      PROVE  ConfirmsAreHttp' /\ WorkHasWorker'
  BY <1>5, WorkByFrame DEF DeleteArtifact, DeleteTask, TypeOK
<1>6. ASSUME ReorderQueued PROVE ConfirmsAreHttp' /\ WorkHasWorker'
  BY <1>6, WorkByFrame DEF ReorderQueued
<1> QED
  BY <1>1, <1>2, <1>3, <1>4, <1>5, <1>6 DEF OperatorStep

LEMMA WorkByRun ==
  ASSUME TypeOK, RunsHaveTasks, ConfirmsAreHttp, WorkHasWorker, NEW r \in Runs, RunStep(r)
  PROVE  ConfirmsAreHttp' /\ WorkHasWorker'
<1> USE DEF Interrupted
<1>1. RunWorks(r) \/ RunStops(r)
  BY RunIsWork
<1>2. loop # Down /\ pc[r] # "idle" /\ taskOf[r] \in Tasks
  BY <1>1, ConstantsOK DEF RunWorks, RunStops, RunEnded, Working, RunsHaveTasks, Free, Down
<1> DEFINE t == taskOf[r]
<1>3. CASE RunWorks(r)
  <2>1. /\ UNCHANGED <<taskOf, kind>> /\ Working(r)' /\ pc'[r] # "idle"
        /\ \A q \in Runs : q # r => pc'[q] = pc[q]
    BY <1>3 DEF RunWorks, Working, TypeOK
  <2>2. \A u \in Tasks : \/ status'[u] = status[u]
                         \/ u = t /\ status'[u] \in Interrupted
    BY <1>3 DEF RunWorks, TypeOK
  <2>3. ConfirmsAreHttp'
    BY <1>2, <2>1, <2>2 DEF ConfirmsAreHttp
  <2>4. \A q \in Runs, u \in Tasks : WorksOn(q, u) => WorksOn(q, u)'
    BY <2>1 DEF WorksOn, Working
  <2>5. \A u \in Tasks : u = t /\ SourceOf[u] \notin Http => WorksOn(r, u)'
    BY <1>2, <2>1 DEF WorksOn, ConfirmsAreHttp
  <2>6. ASSUME NEW u \in Tasks, status'[u] \in Interrupted, SourceOf[u] \notin Http
        PROVE  \E q \in Runs : WorksOn(q, u)'
    <3>1. CASE u = t
      BY <2>5, <2>6, <3>1
    <3>2. CASE u # t
      <4>1. \E q \in Runs : WorksOn(q, u)
        BY <1>2, <2>2, <2>6, <3>2 DEF WorkHasWorker
      <4> QED
        BY <2>4, <4>1
    <3> QED
      BY <3>1, <3>2
  <2> QED
    BY <2>3, <2>6 DEF WorkHasWorker
<1>4. CASE RunStops(r)
  <2>1. /\ pc'[r] = "idle"
        /\ \A q \in Runs : q # r => pc'[q] = pc[q] /\ kind'[q] = kind[q] /\ taskOf'[q] = taskOf[q]
    BY <1>4 DEF RunStops, RunEnded, EndRun, TypeOK
  <2>2. \A u \in Tasks : \/ status'[u] = status[u]
                         \/ u = t /\ status'[u] \in {"FAILED", "COMPLETED"}
                         \/ u = t /\ status'[u] = "AWAITING_CONFIRMATION" /\ SourceOf[u] \in Http
    BY <1>4 DEF RunStops, TypeOK
  <2>3. ConfirmsAreHttp'
    BY <2>1, <2>2 DEF ConfirmsAreHttp
  <2>4. status'[t] \in Interrupted /\ SourceOf[t] \notin Http => ~WorksOn(r, t)
    BY <1>2, <1>4 DEF RunStops, WorksOn, Working, ConfirmsAreHttp, TypeOK
  <2>5. \A q \in Runs, u \in Tasks :
          status'[u] \in Interrupted /\ SourceOf[u] \notin Http /\ WorksOn(q, u) => WorksOn(q, u)'
    BY <2>1, <2>4 DEF WorksOn, Working
  <2>6. \A u \in Tasks : status'[u] \in Interrupted => status[u] \in Interrupted
    BY <2>2
  <2> QED
    BY <1>2, <2>3, <2>5, <2>6, WorkerStays
<1> QED
  BY <1>1, <1>3, <1>4

LEMMA WorkByOthers ==
  ASSUME TypeOK, ConfirmsAreHttp, WorkHasWorker,
         \/ SchedulerStep
         \/ \E t \in Tasks : WaiterFires(t) \/ CallStep(t)
         \/ ThreadStep \/ CrashStep \/ Start \/ StartIsCut
         \/ UNCHANGED vars
  PROVE  ConfirmsAreHttp' /\ WorkHasWorker'
<1> USE DEF disk, table, queues, Free, Scheduler, Down, Interrupted
<1>1. ASSUME ScheduleWakes \/ ScheduleWaits PROVE ConfirmsAreHttp' /\ WorkHasWorker'
  <2>1. loop # Down /\ UNCHANGED <<status, runs>>
    BY <1>1 DEF ScheduleWakes, ScheduleWaits
  <2> QED
    BY <2>1, WorkByFrame
<1>2. ASSUME NEW t \in Tasks, NEW r \in Runs, SchedulePick(t, r)
      PROVE  ConfirmsAreHttp' /\ WorkHasWorker'
  <2>1. /\ loop = Scheduler /\ UNCHANGED status /\ pc[r] = "idle" /\ kind'[r] = "queued"
        /\ \A q \in Runs : q # r => pc'[q] = pc[q] /\ kind'[q] = kind[q] /\ taskOf'[q] = taskOf[q]
    BY <1>2 DEF SchedulePick, TypeOK
  <2>2. \A q \in Runs, u \in Tasks : WorksOn(q, u) => WorksOn(q, u)'
    BY <2>1 DEF WorksOn, Working
  <2>3. ConfirmsAreHttp'
    BY <2>1 DEF ConfirmsAreHttp
  <2> QED
    BY <2>1, <2>2, <2>3, WorkerStays
<1>3. ASSUME NEW t \in Tasks, WaiterFires(t) \/ CallStep(t) PROVE ConfirmsAreHttp' /\ WorkHasWorker'
  BY <1>3, WorkByFrame
     DEF WaiterFires, CallStep, StartNowReturns, PauseReturns, CancelReturns, TypeOK
<1>4. ASSUME ThreadStep \/ UNCHANGED vars PROVE ConfirmsAreHttp' /\ WorkHasWorker'
  <2>1. UNCHANGED <<status, runs, loop>>
    BY <1>4 DEF ThreadStep, OrphanEnds, ExtractorWrites, ExtractorEnds, vars
  <2>2. CASE loop = Down
    BY <2>1, <2>2 DEF ConfirmsAreHttp, WorkHasWorker, runs
  <2> QED
    BY <2>1, <2>2, WorkByFrame
<1>5. ASSUME CrashStep PROVE ConfirmsAreHttp' /\ WorkHasWorker'
  BY <1>5, CrashDies DEF Dies, LoseMemory, ConfirmsAreHttp, WorkHasWorker
<1>6. ASSUME Start \/ StartIsCut PROVE ConfirmsAreHttp' /\ WorkHasWorker'
  <2>1. UNCHANGED runs /\ loop = Down
    BY <1>6 DEF Start, StartIsCut
  <2>2. \A t \in Tasks : status'[t] \in {status[t], "QUEUED"}
    BY <1>6 DEF Start, StartIsCut
  <2>3. ConfirmsAreHttp'
    BY <2>1, <2>2 DEF ConfirmsAreHttp, runs
  <2>4. WorkHasWorker'
    BY <1>6, <2>1 DEF Start, StartIsCut, WorkHasWorker
  <2> QED
    BY <2>3, <2>4
<1> QED
  BY <1>1, <1>2, <1>3, <1>4, <1>5, <1>6 DEF SchedulerStep

\* WorkHasRun holds in every reachable state, for every limit: a task that is shown as being
\* resolved, downloaded, verified or published has a run, which only leaves it together with
\* that status.
THEOREM WorkIsDone == Spec => []WorkHasRun
<1>1. Init => WorkInv
  BY CapacityInit DEF WorkInv, ConfirmsAreHttp, WorkHasWorker, Init, Interrupted
<1>2. WorkInv /\ [Next]_vars => WorkInv'
  <2> SUFFICES ASSUME WorkInv, [Next]_vars PROVE WorkInv'
    OBVIOUS
  <2>1. /\ CapacityInv' /\ TypeOK /\ RunsHaveTasks /\ ActiveAreRuns
        /\ ConfirmsAreHttp /\ WorkHasWorker
    BY CapacityStep DEF WorkInv, CapacityInv
  <2> QED
    BY <2>1, WorkByOperator, WorkByRun, WorkByOthers DEF WorkInv, Next
<1>3. WorkInv => WorkHasRun
  BY DEF WorkInv, WorkHasWorker, WorksOn, Working, WorkHasRun, LiveRuns, Live
<1> QED
  BY <1>1, <1>2, <1>3, PTL DEF Spec

-----------------------------------------------------------------------------
(* With one download per source, stopping a task stops its work.            *)

\* The places only a run of the queue is at.
QueuedPlaces == {"created", "starting", "pointers", "provider", "fetched"}

\* Who works on a task is the run _active_runs names, which is the one that pause and cancel
\* cancel; so nobody works on a stopped task, and a confirmation keeps its task in the two
\* statuses it gives it.
Workers ==
  \A r \in Runs : Working(r) =>
    /\ active[taskOf[r]] = r
    /\ ~Stopped(taskOf[r])
    /\ kind[r] # "queued" => /\ pc[r] \notin QueuedPlaces
                             /\ status[taskOf[r]] \in {"VERIFYING", "PUBLISHING"}

\* No run outlives the process.
DownIsIdle == loop = Down => \A r \in Runs : pc[r] = "idle"

WorkersInv == GlobalInv /\ Workers /\ DownIsIdle

\* A step that starts no work, and leaves the tasks that are worked on alone.
LEMMA WorkersStay ==
  ASSUME Workers,
         \A r \in Runs : Working(r)' =>
           /\ Working(r)
           /\ taskOf'[r] = taskOf[r] /\ kind'[r] = kind[r] /\ pc'[r] = pc[r]
           /\ active'[taskOf[r]] = active[taskOf[r]]
           /\ \/ status'[taskOf[r]] = status[taskOf[r]]
              \/ /\ status[taskOf[r]] \notin {"VERIFYING", "PUBLISHING"}
                 /\ status'[taskOf[r]] \notin {"PAUSED", "CANCELLED"}
  PROVE  Workers'
BY DEF Workers, Stopped

LEMMA WorkersByFrame ==
  ASSUME TypeOK, RunsHaveTasks, Workers, UNCHANGED <<pc, taskOf, kind, active>>,
         \A t \in Tasks :
           \/ status'[t] = status[t]
           \/ /\ status[t] \notin {"VERIFYING", "PUBLISHING"}
              /\ status'[t] \notin {"PAUSED", "CANCELLED"}
  PROVE  Workers'
<1>1. \A r \in Runs : Working(r)' => Working(r) /\ taskOf[r] \in Tasks
  BY DEF Working, RunsHaveTasks
<1> QED
  BY <1>1, WorkersStay

\* A paused or cancelled task has nobody left who works on it.
LEMMA WorkersByStop ==
  ASSUME TypeOK, RunsHaveTasks, ActiveAreRuns, Workers, NEW t \in Tasks, Pause(t) \/ Cancel(t)
  PROVE  Workers'
<1>1. \E s \in {"PAUSED", "CANCELLED"} : status' = [status EXCEPT ![t] = s]
  BY DEF Pause, Cancel
<1>2. ASSUME NEW q \in Runs, Working(q)'
      PROVE  /\ Working(q) /\ taskOf[q] # t
             /\ taskOf'[q] = taskOf[q] /\ kind'[q] = kind[q] /\ pc'[q] = pc[q]
             /\ active'[taskOf[q]] = active[taskOf[q]]
  <2>1. CASE active[t] \notin Runs /\ UNCHANGED <<table, runs>>
    BY <1>2, <2>1 DEF Workers, Working, table, runs
  <2>2. CASE \E op \in {"pause", "cancel"} : CancelActive(op, t)
    <3>1. /\ active[t] \in Runs
          /\ \A r \in Runs : r # active[t] =>
               pc'[r] = pc[r] /\ kind'[r] = kind[r] /\ taskOf'[r] = taskOf[r]
          /\ pc'[active[t]] \in {"idle", "stopping", "aborting"}
          /\ \A u \in Tasks : u # t => active'[u] = active[u]
      BY <2>2, CancelsRun
    <3>2. q # active[t] /\ Working(q)
      BY <1>2, <3>1 DEF Working
    <3>3. taskOf[q] # t /\ taskOf[q] \in Tasks
      BY <3>2 DEF Workers, Working, RunsHaveTasks
    <3> QED
      BY <3>1, <3>2, <3>3
  <2> QED
    BY <2>1, <2>2 DEF Pause, Cancel
<1>3. \A q \in Runs : Working(q)' => taskOf[q] \in Tasks
  BY <1>2 DEF Working, RunsHaveTasks
<1>4. \A u \in Tasks : u # t => status'[u] = status[u]
  BY <1>1 DEF TypeOK
<1> QED
  BY <1>2, <1>3, <1>4, WorkersStay

LEMMA WorkersByOperator ==
  ASSUME TypeOK, RunsHaveTasks, ActiveAreRuns, Workers, OperatorStep \/ ReorderQueued
  PROVE  Workers'
<1> USE DEF table, runs
<1>1. ASSUME NEW t \in Tasks, NEW r \in Runs, NEW extract \in BOOLEAN, ConfirmHttp(t, r, extract)
      PROVE  Workers'
  <2>1. /\ pc[r] = "idle" /\ active[t] = None /\ status[t] = "AWAITING_CONFIRMATION"
        /\ status' = [status EXCEPT ![t] = "VERIFYING"]
        /\ active' = [active EXCEPT ![t] = r] /\ taskOf' = [taskOf EXCEPT ![r] = t]
        /\ pc'[r] \in {"extracting", "verified"}
        /\ \A q \in Runs : q # r => pc'[q] = pc[q] /\ kind'[q] = kind[q] /\ taskOf'[q] = taskOf[q]
    BY <1>1 DEF ConfirmHttp, TypeOK
  <2>2. ASSUME NEW q \in Runs, q # r, Working(q)'
        PROVE  /\ Working(q) /\ taskOf[q] \in Tasks /\ taskOf[q] # t
               /\ active'[taskOf[q]] = active[taskOf[q]] /\ status'[taskOf[q]] = status[taskOf[q]]
    <3>1. Working(q) /\ taskOf[q] \in Tasks
      BY <2>1, <2>2 DEF Working, RunsHaveTasks
    <3>2. taskOf[q] # t
      BY <2>1, <3>1, ConstantsOK DEF Workers
    <3> QED
      BY <2>1, <3>1, <3>2 DEF TypeOK
  <2>3. /\ taskOf'[r] = t /\ active'[t] = r /\ status'[t] = "VERIFYING"
        /\ pc'[r] \notin QueuedPlaces
    BY <2>1 DEF TypeOK, QueuedPlaces
  <2> QED
    BY <2>1, <2>2, <2>3 DEF Workers, Stopped, QueuedPlaces
<1>2. ASSUME NEW t \in Tasks, \/ \E delayed \in BOOLEAN : Create(t, delayed)
                              \/ StartNow(t) \/ Reschedule(t) \/ Resume(t) \/ ResumeLater(t)
      PROVE  Workers'
  BY <1>2, WorkersByFrame DEF Create, StartNow, Reschedule, Resume, ResumeLater, Resumable, TypeOK
<1>3. ASSUME NEW t \in Tasks, DeleteArtifact(t) \/ \E withArtifact \in BOOLEAN : DeleteTask(t, withArtifact)
      PROVE  Workers'
  BY <1>3, WorkersByFrame DEF DeleteArtifact, DeleteTask, Deletable, TypeOK
<1>4. ASSUME ReorderQueued PROVE Workers'
  BY <1>4, WorkersByFrame DEF ReorderQueued
<1> QED
  BY <1>1, <1>2, <1>3, <1>4, WorkersByStop DEF OperatorStep

\* A confirmation never gets to the places of a download.
LEMMA RunPlaces ==
  ASSUME TypeOK, NEW r \in Runs, RunStep(r), pc[r] \notin QueuedPlaces, Working(r)'
  PROVE  /\ pc'[r] \notin QueuedPlaces
         /\ \/ UNCHANGED status
            \/ \E s \in {"VERIFYING", "PUBLISHING"} : status' = [status EXCEPT ![taskOf[r]] = s]
<1> USE DEF Begins, GoesOn, QueuedPlaces
<1>1. ASSUME EndRun(r) PROVE FALSE
  BY <1>1 DEF EndRun, Working, TypeOK
<1>2. ~RunStart(r) /\ ~RunDownload(r) /\ ~RunPointers(r) /\ ~RunProvider(r) /\ ~RunFetched(r)
  BY DEF RunStart, RunDownload, RunPointers, RunProvider, RunFetched
<1>3. ~RunAwaits(r) /\ ~RunCompletes(r) /\ ~RunFails(r) /\ ~ConfirmFails(r) /\ ~RunGivesUp(r)
      /\ ~RunUnwinds(r)
  BY <1>1 DEF RunAwaits, RunCompletes, RunFails, ConfirmFails, RunGivesUp, RunUnwinds
<1>4. CASE RunSlot(r)
  BY <1>4 DEF RunSlot, TypeOK, disk
<1>5. CASE RunHashed(r)
  BY <1>5 DEF RunHashed, TypeOK
<1>6. CASE RunPublishing(r) \/ RunPublished(r) \/ RunDiscards(r)
  BY <1>6 DEF RunPublishing, RunPublished, RunDiscards, TypeOK
<1>7. CASE RunExtracted(r)
  BY <1>7 DEF RunExtracted, EnterVerification, TypeOK
<1> QED
  BY <1>2, <1>3, <1>4, <1>5, <1>6, <1>7 DEF RunStep

LEMMA WorkersByRun ==
  ASSUME TypeOK, RunsHaveTasks, Registered, Workers, NEW r \in Runs, RunStep(r)
  PROVE  Workers'
<1>1. RunWorks(r) \/ RunStops(r)
  BY RunIsWork
<1> DEFINE t == taskOf[r]
<1>2. pc[r] # "idle" /\ taskOf[r] \in Tasks
  BY <1>1 DEF RunWorks, RunStops, RunEnded, Working, RunsHaveTasks
<1>3. \A u \in Tasks : \/ status'[u] = status[u]
                       \/ u = t /\ Working(r) /\ status'[u] \notin {"PAUSED", "CANCELLED"}
  BY <1>1 DEF RunWorks, RunStops, TypeOK, Interrupted
<1>4. \A q \in Runs : q # r => pc'[q] = pc[q] /\ kind'[q] = kind[q] /\ taskOf'[q] = taskOf[q]
  BY <1>1 DEF RunWorks, RunStops, RunEnded, EndRun, TypeOK
<1>5. ASSUME NEW q \in Runs, q # r, Working(q)'
      PROVE  /\ Working(q) /\ taskOf[q] \in Tasks
             /\ active'[taskOf[q]] = active[taskOf[q]] /\ status'[taskOf[q]] = status[taskOf[q]]
  <2>1. Working(q) /\ taskOf[q] \in Tasks /\ active[taskOf[q]] = q
    BY <1>4, <1>5 DEF Working, RunsHaveTasks, Workers
  <2>2. Working(r) => taskOf[q] # t
    BY <1>5, <2>1 DEF Workers
  <2>3. active'[taskOf[q]] = active[taskOf[q]]
    <3>1. CASE RunWorks(r)
      BY <3>1 DEF RunWorks
    <3>2. CASE RunStops(r)
      <4>1. kind[r] = "queued" => active[t] = r
        BY <1>2 DEF Registered, LiveRuns, Live
      <4>2. active' \in {active, [active EXCEPT ![t] = None]} /\ (active' # active => active[t] = r)
        BY <3>2, <4>1 DEF RunStops, RunEnded, EndRun
      <4> QED
        BY <1>5, <2>1, <4>2 DEF TypeOK
    <3> QED
      BY <1>1, <3>1, <3>2
  <2> QED
    BY <1>3, <2>1, <2>2, <2>3
<1>6. CASE RunStops(r)
  <2>1. ~Working(r)'
    BY <1>6 DEF RunStops, RunEnded, EndRun, Working, TypeOK
  <2> QED
    BY <1>4, <1>5, <2>1, WorkersStay
<1>7. CASE RunWorks(r)
  <2>1. Working(r) /\ active'[t] = active[t] /\ taskOf'[r] = t /\ kind'[r] = kind[r] /\ Working(r)'
    BY <1>7 DEF RunWorks, Working, TypeOK
  <2>2. active'[t] = r /\ status'[t] \notin {"PAUSED", "CANCELLED"}
    BY <1>2, <1>3, <2>1 DEF Workers, Stopped
  <2>3. kind[r] # "queued" =>
          pc'[r] \notin QueuedPlaces /\ status'[t] \in {"VERIFYING", "PUBLISHING"}
    <3> SUFFICES ASSUME kind[r] # "queued"
                 PROVE  pc'[r] \notin QueuedPlaces /\ status'[t] \in {"VERIFYING", "PUBLISHING"}
      OBVIOUS
    <3>1. pc[r] \notin QueuedPlaces /\ status[t] \in {"VERIFYING", "PUBLISHING"}
      BY <2>1 DEF Workers
    <3> QED
      BY <1>2, <2>1, <3>1, RunPlaces DEF TypeOK
  <2> QED
    BY <1>4, <1>5, <2>1, <2>2, <2>3 DEF Workers, Stopped
<1> QED
  BY <1>1, <1>6, <1>7

LEMMA WorkersByOthers ==
  ASSUME TypeOK, RunsHaveTasks, Registered', Workers, DownIsIdle,
         \/ SchedulerStep
         \/ \E t \in Tasks : WaiterFires(t) \/ CallStep(t)
         \/ ThreadStep \/ CrashStep \/ Start \/ StartIsCut
         \/ UNCHANGED vars
  PROVE  Workers'
<1> USE DEF disk, table, runs, queues
<1>1. ASSUME NEW t \in Tasks, NEW r \in Runs, SchedulePick(t, r) PROVE Workers'
  <2>1. /\ status[t] = "QUEUED" /\ UNCHANGED status /\ active' = [active EXCEPT ![t] = r]
        /\ pc'[r] = "created" /\ kind'[r] = "queued" /\ taskOf'[r] = t
        /\ \A q \in Runs : q # r => pc'[q] = pc[q] /\ kind'[q] = kind[q] /\ taskOf'[q] = taskOf[q]
    BY <1>1 DEF SchedulePick, Schedulable, TypeOK
  <2>2. ASSUME NEW q \in Runs, q # r, Working(q)' PROVE active'[taskOf[q]] = q
    <3>1. Working(q) /\ taskOf[q] \in Tasks /\ active[taskOf[q]] = q
      BY <2>1, <2>2 DEF Working, RunsHaveTasks, Workers
    <3>2. CASE kind[q] = "queued"
      <4>1. q \in LiveRuns' /\ taskOf'[q] = taskOf[q]
        BY <2>1, <2>2, <3>1, <3>2 DEF LiveRuns, Live, Working
      <4> QED
        BY <4>1 DEF Registered
    <3>3. CASE kind[q] # "queued"
      <4>1. taskOf[q] # t
        BY <2>1, <3>1, <3>3 DEF Workers
      <4> QED
        BY <2>1, <3>1, <4>1 DEF TypeOK
    <3> QED
      BY <3>2, <3>3
  <2>3. active'[t] = r
    BY <2>1 DEF TypeOK
  <2> QED
    BY <2>1, <2>2, <2>3 DEF Workers, Stopped, Working
<1>2. ASSUME ScheduleWakes \/ ScheduleWaits \/ ThreadStep \/ UNCHANGED vars PROVE Workers'
  <2>1. UNCHANGED <<status, active, pc, taskOf, kind>>
    BY <1>2 DEF ScheduleWakes, ScheduleWaits, ThreadStep, OrphanEnds, ExtractorWrites, ExtractorEnds, vars
  <2> QED
    BY <2>1, WorkersByFrame
<1>3. ASSUME NEW t \in Tasks, WaiterFires(t) \/ CallStep(t) PROVE Workers'
  BY <1>3, WorkersByFrame
     DEF WaiterFires, CallStep, StartNowReturns, PauseReturns, CancelReturns, TypeOK
<1>4. ASSUME CrashStep \/ Start \/ StartIsCut PROVE Workers'
  <2>1. \A r \in Runs : pc'[r] = "idle"
    BY <1>4, CrashDies DEF Dies, LoseMemory, Start, StartIsCut, DownIsIdle
  <2> QED
    BY <2>1 DEF Workers, Working
<1> QED
  BY <1>1, <1>2, <1>3, <1>4 DEF SchedulerStep

LEMMA DownStep == DownIsIdle /\ TypeOK /\ [Next]_vars => DownIsIdle'
<1> SUFFICES ASSUME DownIsIdle, TypeOK, [Next]_vars, loop' = Down PROVE \A r \in Runs : pc'[r] = "idle"
  BY DEF DownIsIdle
<1> USE ConstantsOK DEF Free, Scheduler, Down
<1>1. ~OperatorStep /\ ~ReorderQueued
  <2>1. \A t \in Tasks : \A r \in Runs, extract \in BOOLEAN : ~ConfirmHttp(t, r, extract)
    BY DEF ConfirmHttp
  <2>2. \A t \in Tasks : \A delayed \in BOOLEAN : ~Create(t, delayed)
    BY DEF Create
  <2> QED
    BY <2>1, <2>2 DEF OperatorStep, Operator, StartNow, Reschedule, Pause, Resume, ResumeLater, Cancel,
       DeleteTask, DeleteArtifact, ReorderQueued
<1>2. \A t \in Tasks : ~WaiterFires(t) /\ ~CallStep(t)
  BY DEF WaiterFires, CallStep, StartNowReturns, PauseReturns, CancelReturns
<1>3. ~SchedulerStep
  BY DEF SchedulerStep, ScheduleWakes, SchedulePick, ScheduleWaits
<1>4. \A r \in Runs : ~RunStep(r)
  BY RunIsWork DEF RunWorks, RunStops, RunEnded, EndRun
<1>5. CASE CrashStep
  BY <1>5, CrashDies DEF Dies, LoseMemory
<1>6. CASE ThreadStep \/ UNCHANGED vars \/ StartIsCut
  BY <1>6 DEF ThreadStep, OrphanEnds, ExtractorWrites, ExtractorEnds, vars, StartIsCut, runs, DownIsIdle
<1>7. ~Start
  BY DEF Start
<1> QED
  BY <1>1, <1>2, <1>3, <1>4, <1>5, <1>6, <1>7 DEF Next

LEMMA WorkersHold == ASSUME MaxPerSource = 1 PROVE Spec => []WorkersInv
<1>1. Init => WorkersInv
  <2> SUFFICES ASSUME Init PROVE Registered /\ GlobalBound /\ Workers /\ DownIsIdle
    BY CapacityInit DEF GlobalInv, WorkersInv
  <2>1. LiveRuns = {} /\ Workers /\ DownIsIdle
    BY DEF Init, LiveRuns, Live, Workers, Working, DownIsIdle
  <2>2. Cardinality(LiveRuns) = 0
    BY <2>1, FS_EmptySet
  <2> QED
    BY <2>1, <2>2, ConstantsOK DEF Registered, GlobalBound
<1>2. WorkersInv /\ [Next]_vars => WorkersInv'
  <2> SUFFICES ASSUME WorkersInv, [Next]_vars PROVE WorkersInv'
    OBVIOUS
  <2>1. GlobalInv' /\ Registered'
    BY GlobalStep DEF WorkersInv, GlobalInv
  <2>2. TypeOK /\ RunsHaveTasks /\ ActiveAreRuns /\ Registered /\ Workers /\ DownIsIdle
    BY DEF WorkersInv, GlobalInv, CapacityInv
  <2>3. DownIsIdle'
    BY <2>2, DownStep
  <2> QED
    BY <2>1, <2>2, <2>3, WorkersByOperator, WorkersByRun, WorkersByOthers DEF WorkersInv, Next
<1> QED
  BY <1>1, <1>2, PTL DEF Spec

\* StoppedIsQuiet holds in every reachable state when a source has one download at a time, the
\* default: what is left of a run of a paused or cancelled task is only winding down.  (With
\* two, a task that is paused, resumed and picked again has a run the second pause misses.)
THEOREM StoppedTasksAreQuiet == ASSUME MaxPerSource = 1 PROVE Spec => []StoppedIsQuiet
<1>1. WorkersInv => StoppedIsQuiet
  BY DEF WorkersInv, Workers, Working, StoppedIsQuiet, LiveRuns, Live
<1> QED
  BY <1>1, WorkersHold, PTL

-----------------------------------------------------------------------------
(* With one download per source, what is cancelled or deleted stays empty,  *)
(* and staging is kept until then or until the artifact is published.       *)

Left == {"CANCELLED", "DELETED"}

\* A run in the middle of a segment has a record, and publishing left its artifact.
SegmentInv ==
  \A r \in Runs : loop = r =>
    /\ status[taskOf[r]] # "DELETED"
    /\ pc[r] = "published" => shelf[taskOf[r]] # "absent"

DeletedIsCleared == \A t \in Tasks : status[t] = "DELETED" => Cleared(t)

CancelCalls(t) == {c \in calls : c.op = "cancel" /\ c.task = t}

CancelledLeaves ==
  loop # Down =>
    \A t \in Tasks : status[t] = "CANCELLED" => Cleared(t) \/ CancelCalls(t) # {}

\* A task stays cancelled while the cancel call is suspended.
CancelSticks == \A t \in Tasks : CancelCalls(t) # {} => status[t] \in Left

LeaveInv == SegmentInv /\ DeletedIsCleared /\ CancelledLeaves /\ CancelSticks

\* What a step of a run writes.
RunWrites(r) ==
  LET t == taskOf[r] IN
  /\ \A u \in Tasks : u # t => /\ status'[u] = status[u] /\ stage'[u] = stage[u]
                               /\ shelf'[u] = shelf[u]
  /\ shelf'[t] = "absent" => shelf[t] = "absent"
  /\ status'[t] # status[t] \/ stage'[t] # stage[t] =>
       Working(r) /\ (loop = r \/ status[t] # "DELETED")
  /\ status'[t] # status[t] => status'[t] \notin Left
  /\ stage[t].content # "none" /\ stage'[t].content = "none" =>
       shelf'[t] # "absent" \/ (loop = r /\ pc[r] = "published")
  /\ loop' = Free \/ (loop' = r /\ taskOf' = taskOf)
  /\ loop' = r => /\ loop = r \/ status[t] # "DELETED"
                  /\ pc'[r] = "published" => shelf'[t] # "absent"

LEMMA RunDisk ==
  ASSUME TypeOK, RunsHaveTasks, NEW r \in Runs, RunStep(r)
  PROVE  RunWrites(r)
<1> USE ConstantsOK DEF Begins, GoesOn, KeepRun, RunFrame, RunWrites, Working, Left, disk
<1> DEFINE t == taskOf[r]
<1>1. pc[r] # "idle" /\ t \in Tasks
  BY RunIsWork DEF RunWorks, RunStops, RunEnded, RunsHaveTasks
<1>2. stage[t] \in Stage
  BY <1>1 DEF TypeOK
<1>3. ASSUME RunStart(r) \/ RunDownload(r) PROVE RunWrites(r)
  BY <1>1, <1>3 DEF RunStart, RunDownload, TypeOK
<1>4. ASSUME RunPointers(r) PROVE RunWrites(r)
  <2>3. /\ loop' = r /\ pc'[r] # "published" /\ UNCHANGED <<taskOf, shelf>>
        /\ status[t] # "DELETED" /\ pc[r] = "pointers"
    BY <1>4 DEF RunPointers, TypeOK
  <2>1. CASE UNCHANGED <<status, position, stage>>
    BY <1>1, <2>1, <2>3
  <2>2. CASE /\ status' = [status EXCEPT ![t] = "RESOLVING"]
             /\ stage' = [stage EXCEPT ![t] = [@ EXCEPT !.content = "partial", !.result = FALSE,
                                                        !.inventory = FALSE]]
    <3>1. /\ \A u \in Tasks : u # t => status'[u] = status[u] /\ stage'[u] = stage[u]
          /\ status'[t] = "RESOLVING"
      BY <1>1, <2>2 DEF TypeOK
    <3>2. stage'[t].content = "partial"
      BY <1>1, <1>2, <2>2 DEF TypeOK, Stage
    <3> QED
      BY <1>1, <2>3, <3>1, <3>2
  <2> QED
    BY <1>4, <2>1, <2>2 DEF RunPointers
<1>5. ASSUME RunProvider(r) PROVE RunWrites(r)
  BY <1>1, <1>2, <1>5 DEF RunProvider, TypeOK, Stage
<1>6. ASSUME RunFetched(r) PROVE RunWrites(r)
  BY <1>1, <1>2, <1>6 DEF RunFetched, EnterVerification, TypeOK, Stage
<1>7. ASSUME RunSlot(r) \/ RunExtracted(r) PROVE RunWrites(r)
  BY <1>1, <1>7 DEF RunSlot, RunExtracted, EnterVerification, TypeOK
<1>8. ASSUME RunHashed(r) PROVE RunWrites(r)
  BY <1>1, <1>2, <1>8 DEF RunHashed, TypeOK, Stage
<1>9. ASSUME RunPublishing(r) PROVE RunWrites(r)
  BY <1>1, <1>9 DEF RunPublishing, TypeOK
<1>10. ASSUME RunPublished(r) PROVE RunWrites(r)
  <2>1. \A u \in Tasks : u # t => shelf'[u] = shelf[u]
    BY <1>1, <1>10 DEF RunPublished, TypeOK
  <2>2. shelf'[t] # "absent"
    <3>1. PICK tree \in {"whole", "hollow"} :
            shelf' = IF shelf[t] = "absent" THEN [shelf EXCEPT ![t] = tree] ELSE shelf
      BY <1>10 DEF RunPublished
    <3> QED
      BY <1>1, <3>1 DEF TypeOK
  <2>3. \A u \in Tasks : u # t => status'[u] = status[u] /\ stage'[u] = stage[u]
    BY <1>1, <1>10 DEF RunPublished, TypeOK
  <2>4. /\ loop = r /\ loop' = r /\ pc[r] = "publishing" /\ UNCHANGED <<status, taskOf>>
    BY <1>10 DEF RunPublished
  <2> QED
    BY <1>1, <2>1, <2>2, <2>3, <2>4
<1>11. ASSUME RunDiscards(r) PROVE RunWrites(r)
  BY <1>1, <1>2, <1>11 DEF RunDiscards, TypeOK, EmptyStage
<1>12. ASSUME RunAwaits(r) \/ RunCompletes(r) PROVE RunWrites(r)
  BY <1>1, <1>12 DEF RunAwaits, RunCompletes, EndRun, TypeOK
<1>13. ASSUME RunFails(r) PROVE RunWrites(r)
  BY <1>1, <1>2, <1>13 DEF RunFails, EndRun, TypeOK, Stage
<1>14. ASSUME RunGivesUp(r) \/ RunUnwinds(r) PROVE RunWrites(r)
  BY <1>1, <1>14 DEF RunGivesUp, RunUnwinds, EndRun
<1>15. ASSUME ConfirmFails(r) PROVE RunWrites(r)
  <2>1. /\ UNCHANGED <<status, shelf>> /\ loop' = Free
        /\ UNCHANGED stage \/ (pc[r] = "published" /\ RemovalFails(t))
    BY <1>15 DEF ConfirmFails, EndRun
  <2>2. pc[r] = "published" => loop = r
    BY <1>15 DEF ConfirmFails
  <2>3. RemovalFails(t) => \A u \in Tasks : u # t => stage'[u] = stage[u]
    BY <1>1, RemovalLeaves DEF TypeOK
  <2> QED
    BY <1>1, <2>1, <2>2, <2>3
<1> QED
  BY <1>3, <1>4, <1>5, <1>6, <1>7, <1>8, <1>9, <1>10, <1>11, <1>12, <1>13, <1>14, <1>15
     DEF RunStep

\* The end of a run keeps the calls on their tasks.
LEMMA CancelCallsKept ==
  ASSUME TypeOK, NEW r \in Runs, RunStep(r), NEW t \in Tasks
  PROVE  CancelCalls(t)' = {} <=> CancelCalls(t) = {}
<1>1. CASE calls' = calls
  BY <1>1 DEF CancelCalls
<1>2. CASE calls' = {IF c.on = r THEN [c EXCEPT !.on = None] ELSE c : c \in calls}
  <2> DEFINE f(c) == IF c.on = r THEN [c EXCEPT !.on = None] ELSE c
  <2>1. \A c \in calls : f(c).op = c.op /\ f(c).task = c.task
    BY DEF TypeOK, Call
  <2>2. calls' = {f(c) : c \in calls}
    BY <1>2
  <2> HIDE DEF f
  <2> QED
    BY <2>1, <2>2 DEF CancelCalls
<1> QED
  BY <1>1, <1>2, RunIsWork DEF RunWorks, RunStops, RunEnded, EndRun

\* A run does not touch what has been cancelled or deleted.
LEMMA RunSpares ==
  ASSUME RunsHaveTasks, Workers, SegmentInv, NEW r \in Runs, RunWrites(r), NEW t \in Tasks,
         status[t] \in Left \/ status'[t] \in Left
  PROVE  status'[t] = status[t] /\ stage'[t] = stage[t]
<1>1. CASE t # taskOf[r]
  BY <1>1 DEF RunWrites
<1>2. CASE t = taskOf[r] /\ (status'[t] # status[t] \/ stage'[t] # stage[t])
  <2>1. Working(r) /\ (loop = r \/ status[t] # "DELETED")
    BY <1>2 DEF RunWrites
  <2>2. status[t] \notin Left
    BY <1>2, <2>1 DEF Workers, Stopped, SegmentInv, Left
  <2> QED
    BY <1>2, <2>2 DEF RunWrites
<1> QED
  BY <1>1, <1>2

LEMMA LeaveByRun ==
  ASSUME TypeOK, RunsHaveTasks, Workers, LeaveInv, NEW r \in Runs, RunStep(r)
  PROVE  LeaveInv'
<1>1. RunWrites(r)
  BY RunDisk
<1>2. loop # Down /\ pc[r] # "idle" /\ taskOf[r] \in Tasks
  BY RunIsWork, ConstantsOK
     DEF RunWorks, RunStops, RunEnded, Working, RunsHaveTasks, Free, Down
<1>3. \A t \in Tasks : status[t] \in Left \/ status'[t] \in Left =>
        status'[t] = status[t] /\ stage'[t] = stage[t]
  BY <1>1, RunSpares DEF LeaveInv
<1>4. SegmentInv'
  <2>1. ASSUME loop' = r PROVE status'[taskOf'[r]] # "DELETED"
                               /\ (pc'[r] = "published" => shelf'[taskOf'[r]] # "absent")
    <3>1. taskOf' = taskOf /\ status[taskOf[r]] # "DELETED"
      BY <1>1, <2>1, ConstantsOK DEF RunWrites, LeaveInv, SegmentInv
    <3>2. status'[taskOf[r]] # "DELETED"
      BY <1>2, <1>3, <3>1 DEF Left
    <3> QED
      BY <1>1, <2>1, <3>1, <3>2 DEF RunWrites
  <2>2. \A q \in Runs : loop' = q => q = r
    BY <1>1, ConstantsOK DEF RunWrites
  <2> QED
    BY <2>1, <2>2 DEF SegmentInv
<1>5. DeletedIsCleared'
  BY <1>3 DEF LeaveInv, DeletedIsCleared, Cleared, Left
<1>6. CancelledLeaves'
  BY <1>2, <1>3, CancelCallsKept DEF LeaveInv, CancelledLeaves, Cleared, Left
<1>7. CancelSticks'
  BY <1>3, CancelCallsKept DEF LeaveInv, CancelSticks
<1> QED
  BY <1>4, <1>5, <1>6, <1>7 DEF LeaveInv

\* For a step of anybody else it is enough that it leaves alone what has been cancelled or
\* deleted, or clears it, or is a cancel call that is still to empty it.
LEMMA LeaveByFrame ==
  ASSUME DeletedIsCleared, CancelledLeaves, CancelSticks, loop # Down,
         \A t \in Tasks : status'[t] \in Left =>
           \/ status'[t] = status[t] /\ stage'[t] = stage[t]
              /\ (CancelCalls(t) # {} => CancelCalls(t)' # {})
           \/ Cleared(t)'
           \/ status'[t] = "CANCELLED" /\ CancelCalls(t)' # {},
         \A t \in Tasks : CancelCalls(t)' # {} =>
           \/ CancelCalls(t) # {} /\ (status[t] \in Left => status'[t] \in Left)
           \/ status'[t] \in Left
  PROVE  DeletedIsCleared' /\ CancelledLeaves' /\ CancelSticks'
BY DEF DeletedIsCleared, CancelledLeaves, CancelSticks, Cleared, Left

LEMMA LeaveByOperator ==
  ASSUME TypeOK, ActiveAreRuns, LeaveInv, OperatorStep \/ ReorderQueued
  PROVE  LeaveInv'
<1> USE ConstantsOK DEF Left, LeaveInv, Operator, Free, Scheduler, Down
<1>1. DeletedIsCleared /\ CancelledLeaves /\ CancelSticks
  OBVIOUS
<1>2. ASSUME loop' = Free PROVE SegmentInv'
  BY <1>2 DEF SegmentInv
<1>3. ASSUME NEW t \in Tasks,
             \/ \E delayed \in BOOLEAN : Create(t, delayed)
             \/ StartNow(t) \/ Reschedule(t) \/ Resume(t) \/ ResumeLater(t)
      PROVE  LeaveInv'
  <2>1. /\ loop = Free /\ loop' = Free /\ UNCHANGED stage
        /\ \E s \in {"SCHEDULED", "QUEUED"} : status' = [status EXCEPT ![t] = s]
        /\ status[t] \notin Left
    BY <1>3 DEF Create, StartNow, Reschedule, Resume, ResumeLater, Resumable, TypeOK
  <2>2. calls' = calls \/ calls' = calls \cup {[op |-> "start_now", task |-> t, on |-> None]}
    BY <1>3 DEF Create, StartNow, Reschedule, Resume, ResumeLater
  <2>3. \A u \in Tasks : CancelCalls(u)' = CancelCalls(u)
    BY <2>2 DEF CancelCalls
  <2>4. \A u \in Tasks : \/ status'[u] = status[u]
                         \/ status[u] \notin Left /\ status'[u] \notin Left
    BY <2>1 DEF TypeOK
  <2> QED
    BY <1>1, <1>2, <2>1, <2>3, <2>4, LeaveByFrame
<1>4. ASSUME NEW t \in Tasks, Pause(t) PROVE LeaveInv'
  <2>1. /\ loop = Free /\ loop' = Free /\ UNCHANGED stage
        /\ status' = [status EXCEPT ![t] = "PAUSED"] /\ status[t] \notin Left
    BY <1>4 DEF Pause, Pausable
  <2>2. calls' = calls \/ \E on \in Runs \cup {None} :
                            calls' = calls \cup {[op |-> "pause", task |-> t, on |-> on]}
    BY <1>4 DEF Pause, CancelActive
  <2>3. \A u \in Tasks : CancelCalls(u)' = CancelCalls(u)
    BY <2>2 DEF CancelCalls
  <2>4. \A u \in Tasks : \/ status'[u] = status[u]
                         \/ status[u] \notin Left /\ status'[u] \notin Left
    BY <2>1 DEF TypeOK
  <2> QED
    BY <1>1, <1>2, <2>1, <2>3, <2>4, LeaveByFrame
<1>5. ASSUME NEW t \in Tasks, Cancel(t) PROVE LeaveInv'
  <2>1. /\ loop = Free /\ loop' = Free
        /\ \A u \in Tasks : status'[u] = IF u = t THEN "CANCELLED" ELSE status[u]
    BY <1>5 DEF Cancel, TypeOK
  <2>2. CASE CancelActive("cancel", t) /\ UNCHANGED stage
    <3>1. PICK on \in Runs \cup {None} :
            calls' = calls \cup {[op |-> "cancel", task |-> t, on |-> on]}
      BY <2>2 DEF CancelActive
    <3> DEFINE call == [op |-> "cancel", task |-> t, on |-> on]
    <3>2. call \in CancelCalls(t)'
      BY <3>1 DEF CancelCalls
    <3>3. \A u \in Tasks : u # t => CancelCalls(u)' = CancelCalls(u)
      BY <3>1 DEF CancelCalls
    <3> QED
      BY <1>1, <1>2, <2>1, <2>2, <3>2, <3>3, LeaveByFrame
  <2>3. CASE FinishCancel(t) /\ UNCHANGED calls
    <3>1. \A u \in Tasks : CancelCalls(u)' = CancelCalls(u)
      BY <2>3 DEF CancelCalls
    <3>2. Cleared(t)' /\ \A u \in Tasks \ {t} : stage'[u] = stage[u]
      BY <2>3, Clears DEF TypeOK
    <3> QED
      BY <1>1, <1>2, <2>1, <3>1, <3>2, LeaveByFrame
  <2> QED
    BY <1>5, <2>2, <2>3 DEF Cancel
<1>6. ASSUME NEW t \in Tasks, NEW withArtifact \in BOOLEAN, DeleteTask(t, withArtifact) PROVE LeaveInv'
  <2>1. /\ loop = Free /\ loop' = Free /\ UNCHANGED calls
        /\ \A u \in Tasks \ {t} : status'[u] = status[u]
        /\ status'[t] \in {status[t], "DELETED"}
    BY <1>6 DEF DeleteTask, TypeOK
  <2>3. Cleared(t)' /\ \A u \in Tasks \ {t} : stage'[u] = stage[u]
    BY <1>6, Clears DEF TypeOK
  <2>4. status[t] \in Left => status'[t] \in Left
    BY <2>1
  <2>2. \A u \in Tasks : CancelCalls(u)' = CancelCalls(u)
    BY <2>1 DEF CancelCalls
  <2> QED
    BY <1>1, <1>2, <2>1, <2>2, <2>3, <2>4, LeaveByFrame
<1>7. ASSUME ReorderQueued \/ \E t \in Tasks : DeleteArtifact(t) PROVE LeaveInv'
  <2>1. loop = Free /\ loop' = Free /\ UNCHANGED <<calls, status, stage>>
    BY <1>7 DEF ReorderQueued, DeleteArtifact
  <2>2. \A u \in Tasks : CancelCalls(u)' = CancelCalls(u)
    BY <2>1 DEF CancelCalls
  <2> QED
    BY <1>1, <1>2, <2>1, <2>2, LeaveByFrame
<1>8. ASSUME NEW t \in Tasks, NEW r \in Runs, NEW extract \in BOOLEAN, ConfirmHttp(t, r, extract)
      PROVE  LeaveInv'
  <2>1. /\ loop = Free /\ UNCHANGED <<calls, stage>> /\ status[t] = "AWAITING_CONFIRMATION"
        /\ \A u \in Tasks : status'[u] = IF u = t THEN "VERIFYING" ELSE status[u]
    BY <1>8 DEF ConfirmHttp, TypeOK
  <2>2. \A u \in Tasks : CancelCalls(u)' = CancelCalls(u)
    BY <2>1 DEF CancelCalls
  <2>3. SegmentInv'
    <3>1. taskOf'[r] = t /\ pc'[r] # "published" /\ loop' \in {Free, r}
      BY <1>8 DEF ConfirmHttp, TypeOK
    <3> QED
      BY <2>1, <3>1 DEF SegmentInv
  <2> QED
    BY <1>1, <2>1, <2>2, <2>3, LeaveByFrame
<1> QED
  BY <1>3, <1>4, <1>5, <1>6, <1>7, <1>8 DEF OperatorStep

\* What a crash cuts is a segment of a task that has a record, so what it writes is elsewhere.
LEMMA CrashSpares ==
  ASSUME TypeOK, SegmentInv, CrashStep, NEW t \in Tasks, status[t] = "DELETED"
  PROVE  stage'[t] = stage[t]
<1>1. ASSUME NEW u \in Tasks, NEW withArtifact \in BOOLEAN, DeletionIsCut(u, withArtifact)
      PROVE  stage'[t] = stage[t]
  <2>1. u # t /\ \E left \in Ruins(u) : stage' = [stage EXCEPT ![u] = left]
    BY <1>1 DEF DeletionIsCut, Deletable
  <2> QED
    BY <2>1 DEF TypeOK
<1>2. ASSUME NEW r \in Runs, DiscardIsCut(r) PROVE stage'[t] = stage[t]
  <2>1. taskOf[r] # t
    BY <1>2 DEF DiscardIsCut, GoesOn, SegmentInv
  <2>2. \E left \in Ruins(taskOf[r]) : stage' = [stage EXCEPT ![taskOf[r]] = left]
    BY <1>2 DEF DiscardIsCut
  <2> QED
    BY <2>1, <2>2 DEF TypeOK
<1>3. ASSUME NEW r \in Runs, PointersAreCut(r) PROVE stage'[t] = stage[t]
  <2>1. taskOf[r] # t
    BY <1>3 DEF PointersAreCut
  <2>2. \E left : stage' = [stage EXCEPT ![taskOf[r]] = left]
    BY <1>3 DEF PointersAreCut
  <2> QED
    BY <2>1, <2>2 DEF TypeOK
<1>4. CASE Crash \/ ReorderIsCut
  BY <1>4 DEF Crash, ReorderIsCut, disk
<1> QED
  BY <1>1, <1>2, <1>3, <1>4 DEF CrashStep

LEMMA LeaveByOthers ==
  ASSUME TypeOK, DownIsIdle, LeaveInv,
         \/ SchedulerStep
         \/ \E t \in Tasks : WaiterFires(t) \/ CallStep(t)
         \/ ThreadStep \/ CrashStep \/ Start \/ StartIsCut
         \/ UNCHANGED vars
  PROVE  LeaveInv'
<1> USE ConstantsOK DEF Left, LeaveInv, disk, table, runs, queues, Free, Scheduler, Down
<1>1. DeletedIsCleared /\ CancelledLeaves /\ CancelSticks
  OBVIOUS
<1>2. ASSUME loop' \notin Runs PROVE SegmentInv'
  BY <1>2 DEF SegmentInv
<1>3. ASSUME SchedulerStep PROVE LeaveInv'
  <2>1. loop # Down /\ loop' \notin Runs /\ UNCHANGED <<status, stage, calls>>
    BY <1>3 DEF SchedulerStep, ScheduleWakes, SchedulePick, ScheduleWaits
  <2>2. \A u \in Tasks : CancelCalls(u)' = CancelCalls(u)
    BY <2>1 DEF CancelCalls
  <2> QED
    BY <1>1, <1>2, <2>1, <2>2, LeaveByFrame
<1>4. ASSUME NEW t \in Tasks, WaiterFires(t) PROVE LeaveInv'
  <2>1. loop = Free /\ loop' = Free /\ UNCHANGED <<stage, calls>>
    BY <1>4 DEF WaiterFires
  <2>2. \A u \in Tasks : CancelCalls(u)' = CancelCalls(u)
    BY <2>1 DEF CancelCalls
  <2>3. \A u \in Tasks : \/ status'[u] = status[u]
                         \/ status[u] \notin Left /\ status'[u] \notin Left
    BY <1>4 DEF WaiterFires, TypeOK
  <2> QED
    BY <1>1, <1>2, <2>1, <2>2, <2>3, LeaveByFrame
<1>5. ASSUME NEW t \in Tasks, StartNowReturns(t) \/ PauseReturns(t) PROVE LeaveInv'
  <2>1. loop = Free /\ loop' = Free /\ UNCHANGED <<status, stage>>
    BY <1>5 DEF StartNowReturns, PauseReturns
  <2>2. \E op \in {"start_now", "pause"} : calls' = calls \ {[op |-> op, task |-> t, on |-> None]}
    BY <1>5 DEF StartNowReturns, PauseReturns
  <2>3. \A u \in Tasks : CancelCalls(u)' = CancelCalls(u)
    BY <2>2 DEF CancelCalls
  <2> QED
    BY <1>1, <1>2, <2>1, <2>3, LeaveByFrame
<1>6. ASSUME NEW t \in Tasks, CancelReturns(t) PROVE LeaveInv'
  <2>1. loop = Free /\ loop' = Free /\ UNCHANGED status
    BY <1>6 DEF CancelReturns
  <2>5. Cleared(t)' /\ \A u \in Tasks \ {t} : stage'[u] = stage[u]
    BY <1>6, Clears DEF CancelReturns, TypeOK
  <2>2. calls' = calls \ {[op |-> "cancel", task |-> t, on |-> None]}
    BY <1>6 DEF CancelReturns
  <2>3. \A u \in Tasks : u # t => CancelCalls(u)' = CancelCalls(u)
    BY <2>2 DEF CancelCalls
  <2>4. CancelCalls(t)' \subseteq CancelCalls(t)
    BY <2>2 DEF CancelCalls
  <2> QED
    BY <1>1, <1>2, <2>1, <2>3, <2>4, <2>5, LeaveByFrame
<1>7. ASSUME ThreadStep \/ UNCHANGED vars PROVE LeaveInv'
  <2>1. UNCHANGED <<status, shelf, calls, loop, pc, taskOf>>
    BY <1>7 DEF ThreadStep, OrphanEnds, ExtractorWrites, ExtractorEnds, vars
  <2>2. ASSUME NEW u \in Tasks, ExtractorWrites(u), NEW t \in Tasks, Cleared(t) PROVE Cleared(t)'
    <3>1. stage' = [stage EXCEPT ![u].loose = TRUE] /\ stage[t] \in Stage
      BY <2>2 DEF ExtractorWrites, TypeOK
    <3>2. stage'[t] = IF t = u THEN [stage[t] EXCEPT !.loose = TRUE] ELSE stage[t]
      BY <3>1 DEF TypeOK
    <3> QED
      BY <2>2, <3>1, <3>2 DEF Cleared, Stage
  <2>3. \A t \in Tasks : Cleared(t) => Cleared(t)'
    <3>1. CASE UNCHANGED stage
      BY <3>1 DEF Cleared
    <3> QED
      BY <1>7, <2>2, <3>1 DEF ThreadStep, OrphanEnds, ExtractorEnds, vars
  <2> QED
    BY <2>1, <2>3 DEF SegmentInv, DeletedIsCleared, CancelledLeaves, CancelSticks, CancelCalls
<1>8. ASSUME CrashStep PROVE LeaveInv'
  <2>1. loop' = Down /\ UNCHANGED status /\ calls' = {}
    BY <1>8, CrashDies DEF Dies, LoseMemory
  <2>2. \A t \in Tasks : status[t] = "DELETED" => stage'[t] = stage[t]
    BY <1>8, CrashSpares
  <2> QED
    BY <1>2, <2>1, <2>2
       DEF DeletedIsCleared, CancelledLeaves, CancelSticks, CancelCalls, Cleared
<1>9. ASSUME Start \/ StartIsCut PROVE LeaveInv'
  <2>1. /\ loop' \notin Runs /\ UNCHANGED calls
        /\ \A t \in Tasks : status'[t] = status[t]
                            \/ (status[t] \notin Left /\ status'[t] = "QUEUED")
        /\ stage' = [t \in Tasks |-> IF status[t] = "CANCELLED" THEN EmptyStage ELSE stage[t]]
    BY <1>9 DEF Start, StartIsCut, Interrupted
  <2>2. \A u \in Tasks : CancelCalls(u)' = CancelCalls(u)
    BY <2>1 DEF CancelCalls
  <2>3. \A u \in Tasks : /\ status[u] = "CANCELLED" => Cleared(u)'
                         /\ status[u] = "DELETED" => stage'[u] = stage[u]
    BY <2>1 DEF Cleared
  <2> QED
    BY <1>2, <2>1, <2>2, <2>3 DEF DeletedIsCleared, CancelledLeaves, CancelSticks, Cleared
<1> QED
  BY <1>3, <1>4, <1>5, <1>6, <1>7, <1>8, <1>9 DEF CallStep

StageInv == WorkersInv /\ LeaveInv

LEMMA StageHolds == ASSUME MaxPerSource = 1 PROVE Spec => []StageInv
<1>1. Init => LeaveInv
  BY ConstantsOK
     DEF Init, LeaveInv, SegmentInv, DeletedIsCleared, CancelledLeaves, CancelSticks, CancelCalls,
         Cleared
<1>2. WorkersInv /\ LeaveInv /\ [Next]_vars => LeaveInv'
  <2> SUFFICES ASSUME WorkersInv, LeaveInv, [Next]_vars PROVE LeaveInv'
    OBVIOUS
  <2>1. TypeOK /\ RunsHaveTasks /\ ActiveAreRuns /\ Workers /\ DownIsIdle
    BY DEF WorkersInv, GlobalInv, CapacityInv
  <2> QED
    BY <2>1, LeaveByOperator, LeaveByRun, LeaveByOthers DEF Next
<1> QED
  BY <1>1, <1>2, WorkersHold, PTL DEF Spec, StageInv

\* CancelledIsDiscarded holds in every reachable state when a source has one download at a
\* time: what is found in the staging directory of a task that has been cancelled or deleted
\* was written there by an extraction thread that no call waits for.  No run that is still
\* winding down writes into it, a removal is only ever stopped by such a thread, and a restart
\* finishes what a crash kept a cancel call from doing.  (That a thread may write there is what
\* the run late_extraction shows of DeletedLeavesNothing.)
THEOREM CancelledAreDiscarded == ASSUME MaxPerSource = 1 PROVE Spec => []CancelledIsDiscarded
<1>1. StageInv => CancelledIsDiscarded
  BY DEF StageInv, LeaveInv, DeletedIsCleared, CancelledLeaves, CancelCalls, Cleared,
         CancelledIsDiscarded, Free, Down
<1> QED
  BY <1>1, StageHolds, PTL

\* What the other steps do to staged content.
LEMMA RetainedByOthers ==
  ASSUME TypeOK, LeaveInv, NEW t \in Tasks, stage[t].content # "none", stage'[t].content = "none",
         \/ OperatorStep \/ ReorderQueued \/ SchedulerStep
         \/ \E u \in Tasks : WaiterFires(u) \/ CallStep(u)
         \/ ThreadStep \/ CrashStep \/ Start \/ StartIsCut
         \/ UNCHANGED vars
  PROVE  \/ shelf'[t] # "absent" \/ status'[t] \in Left
         \/ \E withArtifact \in BOOLEAN :
              DeleteTask(t, withArtifact) \/ DeletionIsCut(t, withArtifact)
<1> DEFINE Allowed == \/ shelf'[t] # "absent" \/ status'[t] \in Left
                      \/ \E withArtifact \in BOOLEAN :
                           DeleteTask(t, withArtifact) \/ DeletionIsCut(t, withArtifact)
<1> USE DEF disk
<1>1. stage'[t] # stage[t] /\ stage \in [Tasks -> Stage]
  BY DEF TypeOK
<1>2. ASSUME NEW u \in Tasks, Cancel(u) PROVE Allowed
  <2>1. status' = [status EXCEPT ![u] = "CANCELLED"] /\ (UNCHANGED stage \/ FinishCancel(u))
    BY <1>2 DEF Cancel
  <2>2. t = u
    BY <1>1, <2>1, Clears
  <2> QED
    BY <2>1, <2>2 DEF TypeOK, Left
<1>3. ASSUME NEW u \in Tasks, NEW withArtifact \in BOOLEAN, DeleteTask(u, withArtifact)
      PROVE  Allowed
  <2>1. t = u
    BY <1>1, <1>3, Clears
  <2> QED
    BY <1>3, <2>1
<1>4. ASSUME NEW u \in Tasks, CancelReturns(u) PROVE Allowed
  <2> DEFINE call == [op |-> "cancel", task |-> u, on |-> None]
  <2>1. call \in calls /\ UNCHANGED status /\ FinishCancel(u)
    BY <1>4 DEF CancelReturns
  <2>2. call \in CancelCalls(u)
    BY <2>1 DEF CancelCalls
  <2>3. status[u] \in Left
    BY <2>2 DEF LeaveInv, CancelSticks
  <2>4. t = u
    BY <1>1, <2>1, Clears
  <2> QED
    BY <2>1, <2>3, <2>4
<1>5. ASSUME Start \/ StartIsCut PROVE Allowed
  <2>1. stage' = [v \in Tasks |-> IF status[v] = "CANCELLED" THEN EmptyStage ELSE stage[v]]
    BY <1>5 DEF Start, StartIsCut
  <2>2. status[t] = "CANCELLED"
    BY <1>1, <2>1
  <2> QED
    BY <1>5, <2>2 DEF Start, StartIsCut, Interrupted, Left
<1>6. ASSUME NEW u \in Tasks,
             \/ \E delayed \in BOOLEAN : Create(u, delayed)
             \/ StartNow(u) \/ Reschedule(u) \/ Pause(u) \/ Resume(u) \/ ResumeLater(u)
             \/ DeleteArtifact(u)
             \/ \E r \in Runs, extract \in BOOLEAN : ConfirmHttp(u, r, extract)
      PROVE  FALSE
  BY <1>1, <1>6 DEF Create, StartNow, Reschedule, Pause, Resume, ResumeLater, DeleteArtifact, ConfirmHttp
<1>7. ASSUME \/ ReorderQueued \/ SchedulerStep \/ UNCHANGED vars
             \/ \E u \in Tasks : WaiterFires(u) \/ StartNowReturns(u) \/ PauseReturns(u)
      PROVE  FALSE
  BY <1>1, <1>7 DEF ReorderQueued, SchedulerStep, ScheduleWakes, SchedulePick, ScheduleWaits,
     vars, WaiterFires, StartNowReturns, PauseReturns
<1>8. ~ThreadStep
  <2>1. ASSUME NEW u \in Tasks, ExtractorWrites(u) PROVE FALSE
    <3>1. stage' = [stage EXCEPT ![u].loose = TRUE] /\ stage[u] \in Stage
      BY <1>1, <2>1 DEF ExtractorWrites
    <3>2. stage'[t].content = stage[t].content
      BY <1>1, <3>1 DEF Stage
    <3> QED
      BY <3>2
  <2> QED
    BY <1>1, <2>1 DEF ThreadStep, OrphanEnds, ExtractorEnds
<1>9. ASSUME CrashStep PROVE Allowed
  <2>1. ASSUME NEW u \in Tasks, NEW withArtifact \in BOOLEAN, DeletionIsCut(u, withArtifact)
        PROVE  Allowed
    <3>1. t = u
      BY <1>1, <2>1 DEF DeletionIsCut
    <3> QED
      BY <2>1, <3>1
  <2>2. ASSUME NEW r \in Runs, DiscardIsCut(r) PROVE Allowed
    <3>1. t = taskOf[r] /\ UNCHANGED shelf
      BY <1>1, <2>2 DEF DiscardIsCut
    <3> QED
      BY <2>2, <3>1 DEF DiscardIsCut, GoesOn, LeaveInv, SegmentInv
  <2>3. ASSUME NEW r \in Runs, PointersAreCut(r) PROVE FALSE
    <3>1. PICK inventory \in {stage[taskOf[r]].inventory, FALSE} :
            stage' = [stage EXCEPT ![taskOf[r]] =
                        [@ EXCEPT !.content = "partial", !.result = FALSE,
                                  !.inventory = inventory]]
      BY <2>3 DEF PointersAreCut
    <3>2. stage'[t].content \in {stage[t].content, "partial"}
      BY <1>1, <3>1 DEF Stage
    <3> QED
      BY <3>2
  <2> QED
    BY <1>1, <1>9, <2>1, <2>2, <2>3 DEF CrashStep, Crash, ReorderIsCut
<1> QED
  BY <1>2, <1>3, <1>4, <1>5, <1>6, <1>7, <1>8, <1>9 DEF OperatorStep, CallStep

\* No step but publishing an artifact, and cancelling or deleting a task, takes downloaded
\* content out of staging, when a source has one download at a time: what was interrupted,
\* paused, rescheduled, restarted or failed is still there for the next run.
THEOREM StagedIsRetained == ASSUME MaxPerSource = 1 PROVE Spec => StagingIsRetained
<1> DEFINE Retains == \A t \in Tasks : stage[t].content # "none" /\ stage'[t].content = "none" =>
                        \/ shelf'[t] # "absent" \/ status'[t] \in {"CANCELLED", "DELETED"}
                        \/ \E withArtifact \in BOOLEAN :
                             DeleteTask(t, withArtifact) \/ DeletionIsCut(t, withArtifact)
<1>1. StageInv /\ [Next]_vars => [Retains]_vars
  <2> SUFFICES ASSUME StageInv, [Next]_vars, NEW t \in Tasks,
                      stage[t].content # "none", stage'[t].content = "none"
               PROVE  \/ shelf'[t] # "absent" \/ status'[t] \in {"CANCELLED", "DELETED"}
                      \/ \E withArtifact \in BOOLEAN :
                           DeleteTask(t, withArtifact) \/ DeletionIsCut(t, withArtifact)
    OBVIOUS
  <2>1. TypeOK /\ RunsHaveTasks /\ LeaveInv
    BY DEF StageInv, WorkersInv, GlobalInv, CapacityInv
  <2>2. ASSUME NEW r \in Runs, RunStep(r) PROVE shelf'[t] # "absent"
    <3>1. RunWrites(r)
      BY <2>1, <2>2, RunDisk
    <3>2. t = taskOf[r]
      BY <3>1 DEF RunWrites
    <3> QED
      BY <2>1, <3>1, <3>2 DEF RunWrites, LeaveInv, SegmentInv
  <2> QED
    BY <2>1, <2>2, RetainedByOthers DEF Next, Left
<1> QED
  BY <1>1, StageHolds, PTL DEF Spec, StagingIsRetained

=============================================================================
