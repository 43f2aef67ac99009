---------------------------- MODULE TaskManager ----------------------------
(***************************************************************************)
(* The ingestion scheduler of the server: the class TaskManager of         *)
(* packages/server/src/modelshelf_server/tasks.py.                         *)
(*                                                                         *)
(* One asyncio event loop runs everything, so the code between two awaits  *)
(* that really suspend is atomic.  `loop` says who holds the event loop:   *)
(* "free" (everyone is suspended and anyone may resume), "scheduler" or a  *)
(* run that is in the middle of an atomic segment, or "down" (no server).  *)
(* A segment is cut only where it has written to disk, and a crash is the  *)
(* only step that may come between two pieces of a segment.                *)
(*                                                                         *)
(* The locks _update_lock, _create_lock and _artifact_lock are never held  *)
(* across a suspension, so they are never contended and not modelled.  The *)
(* lock _verification_slot is, and is modelled.                            *)
(***************************************************************************)
EXTENDS Integers, FiniteSets

CONSTANTS
  Tasks,         \* task identities, numbered in the order of created_at
  Sources,       \* the providers tasks download from
  SourceOf,      \* the provider of each task
  Http,          \* providers of the two-stage generic HTTP flow
  ModelScope,    \* providers whose retained checkout is examined on resume
  Runs,          \* identities for the asyncio tasks that work on a download
  MaxActive,     \* max_concurrent_downloads
  MaxPerSource,  \* max_concurrent_downloads_per_source
  MaxOps,        \* bound on the operator calls of a behaviour
  MaxCrashes     \* bound on the crashes of a behaviour

NoTask     == 0
NoPosition == -1
None       == "none"      \* no run
Dead       == "dead"      \* a finished asyncio task nobody will remove
Free       == "free"
Scheduler  == "scheduler"
Down       == "down"

\* max_concurrent_downloads and its per-source twin are rejected below 1.
ASSUME ConstantsOK ==
  /\ Tasks \subseteq Nat \ {0} /\ IsFiniteSet(Tasks)
  /\ IsFiniteSet(Runs)
  /\ {None, Dead, Free, Scheduler, Down} \cap Runs = {}
  /\ SourceOf \in [Tasks -> Sources]
  /\ Http \subseteq Sources /\ ModelScope \subseteq Sources
  /\ Http \cap ModelScope = {}
  /\ MaxActive \in Nat \ {0} /\ MaxPerSource \in Nat \ {0}
  /\ MaxOps \in Nat /\ MaxCrashes \in Nat

VARIABLES
  (* what survives a crash: the job records, the staging directories and the catalog *)
  status,        \* TaskStatus of each task; ABSENT before, DELETED after its record
  position,      \* queue_position
  stage,         \* what the staging directory of each task holds
  shelf,         \* the published artifact of each task: absent, whole or hollow
  (* the fields of TaskManager *)
  queued,        \* how often each task is in the asyncio queue
  pending,       \* how often each task is in _pending
  wakeup,        \* _scheduler_wakeup
  active,        \* _active_runs
  bySource,      \* _active_by_source
  waiters,       \* tasks with a live timer in _scheduled_runs
  nextPosition,  \* _next_queue_position
  slot,          \* the run that holds _verification_slot
  orphans,       \* hashing threads that outlived the run that started them
  extractors,    \* how many extraction threads of each task did
  (* the asyncio tasks *)
  pc, taskOf, kind,
  calls,         \* operator calls suspended in pause, cancel or start_now
  loop,          \* who holds the event loop
  (* the bounds *)
  ops, crashes

disk     == <<status, position, stage, shelf>>
queues   == <<queued, pending, wakeup, nextPosition>>
table    == <<active, bySource>>
runs     == <<pc, taskOf, kind>>
threads  == <<slot, orphans, extractors>>
budget   == <<ops, crashes>>
vars == <<disk, queues, table, waiters, threads, runs, calls, loop, budget>>

Status == {"ABSENT", "SCHEDULED", "QUEUED", "RESOLVING", "DOWNLOADING", "VERIFYING",
           "AWAITING_CONFIRMATION", "PUBLISHING", "PAUSED", "CANCELLED", "COMPLETED",
           "FAILED", "DELETED"}
Pausable    == {"QUEUED", "RESOLVING", "DOWNLOADING", "VERIFYING"}
Resumable   == {"PAUSED", "FAILED"}
Cancellable == Pausable \cup {"SCHEDULED", "PAUSED", "AWAITING_CONFIRMATION"}
Deletable   == {"COMPLETED", "FAILED", "CANCELLED"}
Interrupted == {"RESOLVING", "DOWNLOADING", "VERIFYING", "PUBLISHING"}

\* The downloaded files, the saved result and inventory, and whether an extraction thread
\* nobody waits for has written there.
Stage == [content : {"none", "partial", "full"}, result : BOOLEAN, inventory : BOOLEAN,
          loose : BOOLEAN]
EmptyStage == [content |-> "none", result |-> FALSE, inventory |-> FALSE, loose |-> FALSE]

PC == {"idle", "created", "starting", "pointers", "provider", "fetched", "slot", "hashing",
       "extracting", "verified", "publishing", "published", "discarded",
       "stopping", "aborting"}
Kind == {"queued", "confirm", "extract"}
Call == [op : {"pause", "cancel", "start_now"}, task : Tasks, on : Runs \cup {None}]

TypeOK ==
  /\ status \in [Tasks -> Status]
  /\ position \in [Tasks -> Nat \cup {NoPosition}]
  /\ stage \in [Tasks -> Stage]
  /\ shelf \in [Tasks -> {"absent", "whole", "hollow"}]
  /\ queued \in [Tasks -> Nat]
  /\ pending \in [Tasks -> Nat]
  /\ wakeup \in BOOLEAN
  /\ active \in [Tasks -> Runs \cup {None, Dead}]
  /\ bySource \in [Sources -> Nat]
  /\ waiters \subseteq Tasks
  /\ nextPosition \in Nat
  /\ slot \in Runs \cup {None}
  /\ orphans \in Nat /\ extractors \in [Tasks -> Nat]
  /\ pc \in [Runs -> PC]
  /\ taskOf \in [Runs -> Tasks \cup {NoTask}]
  /\ kind \in [Runs -> Kind]
  /\ calls \subseteq Call
  /\ loop \in Runs \cup {Free, Scheduler, Down}
  /\ ops \in Nat /\ crashes \in Nat

Init ==
  /\ status = [t \in Tasks |-> "ABSENT"]
  /\ position = [t \in Tasks |-> NoPosition]
  /\ stage = [t \in Tasks |-> EmptyStage]
  /\ shelf = [t \in Tasks |-> "absent"]
  /\ queued = [t \in Tasks |-> 0]
  /\ pending = [t \in Tasks |-> 0]
  /\ wakeup = TRUE
  /\ active = [t \in Tasks |-> None]
  /\ bySource = [s \in Sources |-> 0]
  /\ waiters = {}
  /\ nextPosition = 0
  /\ slot = None
  /\ orphans = 0
  /\ extractors = [t \in Tasks |-> 0]
  /\ pc = [r \in Runs |-> "idle"]
  /\ taskOf = [r \in Runs |-> NoTask]
  /\ kind = [r \in Runs |-> "queued"]
  /\ calls = {}
  /\ loop = Free
  /\ ops = 0 /\ crashes = 0

-----------------------------------------------------------------------------
(* The queue order and the helpers the operations share.                    *)

\* _queue_order: a missing position sorts last, created_at breaks ties.
Precedes(t, u) ==
  \/ position[t] # NoPosition /\ position[u] = NoPosition
  \/ position[t] # NoPosition /\ position[u] # NoPosition /\ position[t] < position[u]
  \/ position[t] = position[u] /\ t < u

\* Bug: a paused run that is still winding down is no longer counted.
ActiveTasksUnpaused == {t \in Tasks : active[t] # None /\ status[t] # "PAUSED"}
ActiveTasks == {t \in Tasks : active[t] # None}

\* _raise_if_stopped raises for these; it lets a task without a record pass.
Stopped(t) == status[t] \in {"PAUSED", "CANCELLED"}

\* Bug: the scheduler is not woken.
EnqueueSilently(t) == queued' = [queued EXCEPT ![t] = @ + 1] /\ UNCHANGED wakeup
Enqueue(t) ==
  /\ queued' = [queued EXCEPT ![t] = @ + 1]
  /\ wakeup' = TRUE

\* Every call an operator makes runs on the free event loop and is counted.
Operator ==
  /\ loop = Free
  /\ ops < MaxOps /\ ops' = ops + 1
  /\ UNCHANGED <<crashes, loop>>

\* Bug: a run that has started ignores its cancellation.
AfterCancelIgnored(r) == IF pc[r] = "created" THEN "idle" ELSE pc[r]

\* What asyncio's Task.cancel() makes of a run.  One that was never stepped is finished
\* without having entered its body; one that waits for a provider process or a hashing
\* thread first winds that down; a second cancel breaks off the wait for the thread.  One
\* that extracts does not wait for its thread at all.
AfterCancel(r) ==
  CASE pc[r] = "created" -> "idle"
    [] pc[r] \in {"provider", "hashing"} -> "stopping"
    [] pc[r] = "stopping" /\ slot # r -> "stopping"
    [] OTHER -> "aborting"

\* Bug: the call waits for a signal from the run's body, which a run that was never stepped
\* does not give.
CancelActiveAwaitsBody(op, t) ==
  LET r == active[t] IN
  /\ r \in Runs
  /\ pc' = [pc EXCEPT ![r] = AfterCancel(r)]
  /\ calls' = calls \cup {[op |-> op, task |-> t, on |-> r]}
  /\ UNCHANGED <<taskOf, kind, active, extractors>>

\* active.cancel(), then `await active`: the call is suspended until the run has ended.  The
\* cancellation breaks off the await of extract_archive, whose thread goes on.
CancelActive(op, t) ==
  LET r == active[t] IN
  /\ r \in Runs
  /\ pc' = [pc EXCEPT ![r] = AfterCancel(r)]
  /\ extractors' = IF pc[r] = "extracting" THEN [extractors EXCEPT ![t] = @ + 1]
                   ELSE extractors
  /\ IF pc[r] = "created"
     THEN /\ taskOf' = [taskOf EXCEPT ![r] = NoTask]
          /\ kind' = [kind EXCEPT ![r] = "queued"]
          /\ active' = [active EXCEPT ![t] = Dead]
          /\ calls' = calls \cup {[op |-> op, task |-> t, on |-> None]}
     ELSE /\ UNCHANGED <<taskOf, kind, active>>
          /\ calls' = calls \cup {[op |-> op, task |-> t, on |-> r]}

-----------------------------------------------------------------------------
(* Operator calls: the HTTP handlers of app.py call these.                  *)

\* create_with_result for a selection that is no duplicate; `delayed` is scheduled_at.  A
\* position is claimed in both cases, and dropped for a task that is not queued yet.
Create(t, delayed) ==
  /\ loop = Free
  /\ status[t] = "ABSENT" /\ \A u \in Tasks : u < t => status[u] # "ABSENT"
  /\ nextPosition' = nextPosition + 1
  /\ IF delayed
     THEN /\ status' = [status EXCEPT ![t] = "SCHEDULED"]
          /\ waiters' = waiters \cup {t}
          /\ UNCHANGED <<position, queued, wakeup>>
     ELSE /\ status' = [status EXCEPT ![t] = "QUEUED"]
          /\ position' = [position EXCEPT ![t] = nextPosition]
          /\ Enqueue(t)
          /\ UNCHANGED waiters
  /\ UNCHANGED <<stage, shelf, pending, table, threads, runs, calls, loop, budget>>

\* The status changes at once; the task is queued when its timer's cancellation is awaited.
StartNow(t) ==
  /\ Operator
  /\ status[t] = "SCHEDULED"
  /\ status' = [status EXCEPT ![t] = "QUEUED"]
  /\ position' = [position EXCEPT ![t] = nextPosition]
  /\ nextPosition' = nextPosition + 1
  /\ waiters' = waiters \ {t}
  /\ calls' = calls \cup {[op |-> "start_now", task |-> t, on |-> None]}
  /\ UNCHANGED <<stage, shelf, queued, pending, wakeup, table, threads, runs>>

StartNowReturns(t) ==
  /\ loop = Free
  /\ [op |-> "start_now", task |-> t, on |-> None] \in calls
  /\ calls' = calls \ {[op |-> "start_now", task |-> t, on |-> None]}
  /\ Enqueue(t)
  /\ UNCHANGED <<disk, pending, nextPosition, table, waiters, threads, runs, loop, budget>>

\* The old timer is cancelled and a new one armed in its place.
Reschedule(t) ==
  /\ Operator
  /\ status[t] = "SCHEDULED"
  /\ position' = [position EXCEPT ![t] = NoPosition]
  /\ waiters' = waiters \cup {t}
  /\ UNCHANGED <<status, stage, shelf, queues, table, threads, runs, calls>>

\* _wait_for_scheduled_task after its sleep.
WaiterFires(t) ==
  /\ loop = Free
  /\ t \in waiters
  /\ waiters' = waiters \ {t}
  /\ \/ /\ status[t] = "SCHEDULED"
        /\ status' = [status EXCEPT ![t] = "QUEUED"]
        /\ position' = [position EXCEPT ![t] = nextPosition]
        /\ nextPosition' = nextPosition + 1
        /\ Enqueue(t)
     \/ /\ status[t] # "SCHEDULED"
        /\ UNCHANGED <<status, position, nextPosition, queued, wakeup>>
  /\ UNCHANGED <<stage, shelf, pending, table, threads, runs, calls, loop, budget>>

Pause(t) ==
  /\ Operator
  /\ status[t] \in Pausable
  /\ status' = [status EXCEPT ![t] = "PAUSED"]
  /\ \/ position[t] # NoPosition /\ UNCHANGED <<position, nextPosition>>
     \/ /\ position[t] = NoPosition
        /\ position' = [position EXCEPT ![t] = nextPosition]
        /\ nextPosition' = nextPosition + 1
  /\ \/ CancelActive("pause", t) /\ UNCHANGED <<wakeup, bySource>>
     \/ /\ active[t] \notin Runs
        /\ wakeup' = TRUE
        /\ UNCHANGED <<table, runs, calls, extractors>>
  /\ UNCHANGED <<stage, shelf, queued, pending, waiters, slot, orphans>>

PauseReturns(t) ==
  /\ loop = Free
  /\ [op |-> "pause", task |-> t, on |-> None] \in calls
  /\ calls' = calls \ {[op |-> "pause", task |-> t, on |-> None]}
  /\ wakeup' = TRUE
  /\ UNCHANGED <<disk, queued, pending, nextPosition, table, waiters, threads, runs,
                 loop, budget>>

Resume(t) ==
  /\ Operator
  /\ status[t] \in Resumable
  /\ status' = [status EXCEPT ![t] = "QUEUED"]
  /\ \/ position[t] # NoPosition /\ UNCHANGED <<position, nextPosition>>
     \/ /\ position[t] = NoPosition
        /\ position' = [position EXCEPT ![t] = nextPosition]
        /\ nextPosition' = nextPosition + 1
  /\ Enqueue(t)
  /\ UNCHANGED <<stage, shelf, pending, table, waiters, threads, runs, calls>>

ResumeLater(t) ==
  /\ Operator
  /\ status[t] \in Resumable
  /\ status' = [status EXCEPT ![t] = "SCHEDULED"]
  /\ position' = [position EXCEPT ![t] = NoPosition]
  /\ nextPosition' = IF position[t] # NoPosition THEN nextPosition ELSE nextPosition + 1
  /\ waiters' = waiters \cup {t}
  /\ UNCHANGED <<stage, shelf, queued, pending, wakeup, table, threads, runs, calls>>

\* Bug: the staging directory is left.
FinishCancelKeepsStage(t) == wakeup' = TRUE /\ waiters' = waiters \ {t} /\ UNCHANGED stage

\* What can be left of a staging directory whose removal does not get to its end.
Ruins(t) ==
  {left \in Stage : /\ left.content \in {"none", "partial", stage[t].content}
                    /\ stage[t].content = "none" => left.content = "none"
                    /\ left.result => stage[t].result
                    /\ left.inventory => stage[t].inventory
                    /\ left.loose => stage[t].loose \/ extractors[t] > 0}

\* remove_staging_tree meets an extraction thread that goes on creating files: the walk or the
\* removal of a directory raises.
RemovalFails(t) ==
  /\ extractors[t] > 0
  /\ \E left \in Ruins(t) : left.loose /\ stage' = [stage EXCEPT ![t] = left]

\* What cancel does once no run is left to wait for; the removal comes last.
FinishCancel(t) ==
  /\ wakeup' = TRUE
  /\ waiters' = waiters \ {t}
  /\ stage' = [stage EXCEPT ![t] = EmptyStage] \/ RemovalFails(t)

Cancel(t) ==
  /\ Operator
  /\ status[t] \in Cancellable
  /\ status' = [status EXCEPT ![t] = "CANCELLED"]
  /\ position' = [position EXCEPT ![t] = NoPosition]
  /\ \/ CancelActive("cancel", t) /\ UNCHANGED <<wakeup, waiters, stage, bySource>>
     \/ /\ active[t] \notin Runs
        /\ FinishCancel(t)
        /\ UNCHANGED <<table, runs, calls, extractors>>
  /\ UNCHANGED <<shelf, queued, pending, nextPosition, slot, orphans>>

CancelReturns(t) ==
  /\ loop = Free
  /\ [op |-> "cancel", task |-> t, on |-> None] \in calls
  /\ calls' = calls \ {[op |-> "cancel", task |-> t, on |-> None]}
  /\ FinishCancel(t)
  /\ UNCHANGED <<status, position, shelf, queued, pending, nextPosition, table, threads,
                 runs, loop, budget>>

\* delete_task; with delete_artifact the published artifact goes first, and the record goes
\* last, when the staging directory could be removed.
DeleteTask(t, withArtifact) ==
  /\ Operator
  /\ status[t] \in Deletable
  /\ withArtifact => status[t] = "COMPLETED"
  /\ shelf' = IF withArtifact THEN [shelf EXCEPT ![t] = "absent"] ELSE shelf
  /\ \/ /\ stage' = [stage EXCEPT ![t] = EmptyStage]
        /\ status' = [status EXCEPT ![t] = "DELETED"]
        /\ position' = [position EXCEPT ![t] = NoPosition]
     \/ RemovalFails(t) /\ UNCHANGED <<status, position>>
  /\ UNCHANGED <<queues, table, waiters, threads, runs, calls>>

DeleteArtifact(t) ==
  /\ Operator
  /\ shelf[t] # "absent"
  /\ shelf' = [shelf EXCEPT ![t] = "absent"]
  /\ UNCHANGED <<status, position, stage, queues, table, waiters, threads, runs, calls>>

\* reorder_queued, which move_queued calls too: any order of the queued and paused tasks.
ReorderQueued ==
  LET movable == {t \in Tasks : status[t] \in {"QUEUED", "PAUSED"}}
      places  == 0 .. Cardinality(movable) - 1
  IN
  /\ Operator
  /\ \E place \in [movable -> places] :
       /\ \A t, u \in movable : t # u => place[t] # place[u]
       /\ position' = [t \in Tasks |-> IF t \in movable THEN place[t] ELSE position[t]]
  /\ wakeup' = TRUE
  /\ UNCHANGED <<status, stage, shelf, queued, pending, nextPosition, table, waiters,
                 threads, runs, calls>>

-----------------------------------------------------------------------------
(* The scheduler.                                                           *)

\* _scheduler_wakeup.wait() returns: the event is cleared and the queue drained.
ScheduleWakes ==
  /\ loop = Free
  /\ wakeup
  /\ wakeup' = FALSE
  /\ pending' = [t \in Tasks |-> pending[t] + queued[t]]
  /\ queued' = [t \in Tasks |-> 0]
  /\ loop' = Scheduler
  /\ UNCHANGED <<disk, nextPosition, table, waiters, threads, runs, calls, budget>>

\* _next_schedulable drops every entry of a task that is no longer queued ...
Purged == [t \in Tasks |-> IF status[t] = "QUEUED" THEN pending[t] ELSE 0]

\* Bugs: a task is taken that has no entry left; the capacity of the source is not looked
\* at; or it is exceeded by one.
SchedulableUnqueued ==
  {t \in Tasks : status[t] = "QUEUED" /\ bySource[SourceOf[t]] < MaxPerSource}
SchedulableAnySource == {t \in Tasks : pending[t] > 0 /\ status[t] = "QUEUED"}
SchedulableOneMore ==
  {t \in Tasks : /\ pending[t] > 0 /\ status[t] = "QUEUED"
                 /\ bySource[SourceOf[t]] <= MaxPerSource}

\* ... and looks for the first one whose source has capacity.
Schedulable ==
  {t \in Tasks : /\ pending[t] > 0 /\ status[t] = "QUEUED"
                 /\ bySource[SourceOf[t]] < MaxPerSource}

\* One round of the loop: an asyncio task is created, it has not run yet.
SchedulePick(t, r) ==
  /\ loop = Scheduler
  /\ Cardinality(ActiveTasks) < MaxActive
  /\ t \in Schedulable /\ \A u \in Schedulable : u = t \/ Precedes(t, u)
  /\ pc[r] = "idle"
  /\ pending' = [Purged EXCEPT ![t] = @ - 1]
  /\ bySource' = [bySource EXCEPT ![SourceOf[t]] = @ + 1]
  /\ active' = [active EXCEPT ![t] = r]
  /\ pc' = [pc EXCEPT ![r] = "created"]
  /\ taskOf' = [taskOf EXCEPT ![r] = t]
  /\ kind' = [kind EXCEPT ![r] = "queued"]
  /\ UNCHANGED <<disk, queued, wakeup, nextPosition, waiters, threads, calls, loop, budget>>

\* No capacity, or no candidate: wait for the next wakeup.
ScheduleWaits ==
  /\ loop = Scheduler
  /\ \/ Cardinality(ActiveTasks) >= MaxActive /\ UNCHANGED pending
     \/ /\ Cardinality(ActiveTasks) < MaxActive
        /\ Schedulable = {}
        /\ pending' = Purged
  /\ loop' = Free
  /\ UNCHANGED <<disk, queued, wakeup, nextPosition, table, waiters, threads, runs,
                 calls, budget>>

-----------------------------------------------------------------------------
(* A run: _execute_queued around _run, or confirm_http around _confirm_http. *)

\* The end of a run, the finally blocks of _execute_queued and confirm_http.  The queued
\* run forgets whatever _active_runs holds for its task, the confirmation only itself.
EndRun(r) ==
  LET t == taskOf[r]
      s == SourceOf[t]
  IN
  /\ pc' = [pc EXCEPT ![r] = "idle"]
  /\ taskOf' = [taskOf EXCEPT ![r] = NoTask]
  /\ kind' = [kind EXCEPT ![r] = "queued"]
  /\ active' = IF kind[r] = "queued" \/ active[t] = r
               THEN [active EXCEPT ![t] = None] ELSE active
  /\ bySource' = IF kind[r] = "queued" /\ bySource[s] > 0
                 THEN [bySource EXCEPT ![s] = @ - 1] ELSE bySource
  /\ slot' = IF slot = r THEN None ELSE slot
  /\ calls' = {IF c.on = r THEN [c EXCEPT !.on = None] ELSE c : c \in calls}
  /\ wakeup' = TRUE
  /\ loop' = Free

\* What a step of a run that goes on leaves alone.
KeepRun == UNCHANGED <<table, taskOf, kind, calls, wakeup>>
RunFrame ==
  UNCHANGED <<shelf, queued, pending, nextPosition, waiters, orphans, extractors, budget>>

\* The run's segment begins on the free event loop, or goes on where it was cut.
Begins(r, place) == loop = Free /\ pc[r] = place
GoesOn(r, place) == loop = r /\ pc[r] = place

\* _verify_inventory: hash now if the slot is free and nobody waits for it, else wait.
EnterVerification(r) ==
  /\ IF slot = None /\ \A q \in Runs : pc[q] # "slot"
     THEN slot' = r /\ pc' = [pc EXCEPT ![r] = "hashing"]
     ELSE UNCHANGED slot /\ pc' = [pc EXCEPT ![r] = "slot"]
  /\ loop' = Free

\* The run's first segment, up to its first suspension.  A saved provider result makes it
\* skip the download; the retained checkout of a ModelScope task is examined first.
RunStart(r) ==
  LET t == taskOf[r] IN
  /\ Begins(r, "created")
  /\ status[t] # "DELETED"
  /\ \/ /\ ~stage[t].result
        /\ status' = [status EXCEPT ![t] = "RESOLVING"]
        /\ position' = [position EXCEPT ![t] = NoPosition]
        /\ pc' = [pc EXCEPT ![r] = "starting"]
        /\ loop' = r
     \/ /\ stage[t].result /\ SourceOf[t] \in ModelScope
        /\ pc' = [pc EXCEPT ![r] = "pointers"]
        /\ UNCHANGED <<status, position, loop>>
     \/ /\ stage[t].result /\ SourceOf[t] \notin ModelScope
        /\ pc' = [pc EXCEPT ![r] = "fetched"]
        /\ loop' = r
        /\ UNCHANGED <<status, position>>
  /\ UNCHANGED <<stage, slot>> /\ KeepRun /\ RunFrame

RunDownload(r) ==
  /\ GoesOn(r, "starting")
  /\ status' = [status EXCEPT ![taskOf[r]] = "DOWNLOADING"]
  /\ pc' = [pc EXCEPT ![r] = "provider"]
  /\ loop' = Free
  /\ UNCHANGED <<position, stage, slot>> /\ KeepRun /\ RunFrame

\* modelscope_has_lfs_pointers has answered: with a pointer left, download again.
RunPointers(r) ==
  LET t == taskOf[r] IN
  /\ Begins(r, "pointers")
  /\ status[t] # "DELETED"
  /\ \/ /\ pc' = [pc EXCEPT ![r] = "fetched"]
        /\ UNCHANGED <<status, position, stage>>
     \/ /\ stage[t].content # "none"
        /\ stage' = [stage EXCEPT ![t] =
                       [@ EXCEPT !.content = "partial", !.result = FALSE, !.inventory = FALSE]]
        /\ status' = [status EXCEPT ![t] = "RESOLVING"]
        /\ position' = [position EXCEPT ![t] = NoPosition]
        /\ pc' = [pc EXCEPT ![r] = "starting"]
  /\ loop' = r
  /\ UNCHANGED slot /\ KeepRun /\ RunFrame

\* run_provider has returned a result.
RunProvider(r) ==
  LET t == taskOf[r] IN
  /\ Begins(r, "provider")
  /\ status[t] # "DELETED"
  /\ stage' = [stage EXCEPT ![t].content = "full"]
  /\ pc' = [pc EXCEPT ![r] = "fetched"]
  /\ loop' = r
  /\ UNCHANGED <<status, position, slot>> /\ KeepRun /\ RunFrame

\* The result is saved; a saved inventory is trusted, otherwise the content is hashed.
RunFetched(r) ==
  LET t == taskOf[r] IN
  /\ GoesOn(r, "fetched")
  /\ ~Stopped(t)
  /\ status' = [status EXCEPT ![t] = "VERIFYING"]
  /\ position' = [position EXCEPT ![t] = NoPosition]
  /\ stage' = [stage EXCEPT ![t].result = TRUE]
  /\ \/ /\ stage[t].inventory
        /\ pc' = [pc EXCEPT ![r] = "verified"]
        /\ UNCHANGED <<slot, loop>>
     \/ /\ ~stage[t].inventory
        /\ EnterVerification(r)
  /\ KeepRun /\ RunFrame

\* The run gets the verification slot it waited for.
RunSlot(r) ==
  /\ Begins(r, "slot")
  /\ slot = None
  /\ status[taskOf[r]] # "DELETED" /\ ~Stopped(taskOf[r])
  /\ slot' = r
  /\ pc' = [pc EXCEPT ![r] = "hashing"]
  /\ UNCHANGED <<disk, loop>> /\ KeepRun /\ RunFrame

\* The hashing thread is done.  Only _run saves the inventory it found.
RunHashed(r) ==
  LET t == taskOf[r] IN
  /\ Begins(r, "hashing")
  /\ status[t] # "DELETED"
  /\ kind[r] = "extract" \/ stage[t].content # "none"
  /\ slot' = None
  /\ stage' = IF kind[r] = "queued" THEN [stage EXCEPT ![t].inventory = TRUE] ELSE stage
  /\ pc' = [pc EXCEPT ![r] = "verified"]
  /\ loop' = r
  /\ UNCHANGED <<status, position>> /\ KeepRun /\ RunFrame

\* The checks that follow verification have passed: _run stops here for a generic HTTP
\* task, which waits for its administrator; otherwise the artifact is published next.
RunAwaits(r) ==
  /\ GoesOn(r, "verified")
  /\ kind[r] = "queued" /\ SourceOf[taskOf[r]] \in Http
  /\ ~Stopped(taskOf[r])
  /\ status' = [status EXCEPT ![taskOf[r]] = "AWAITING_CONFIRMATION"]
  /\ EndRun(r)
  /\ UNCHANGED <<position, stage>> /\ RunFrame

RunPublishing(r) ==
  /\ GoesOn(r, "verified")
  /\ kind[r] # "queued" \/ (SourceOf[taskOf[r]] \notin Http /\ ~Stopped(taskOf[r]))
  /\ status' = [status EXCEPT ![taskOf[r]] = "PUBLISHING"]
  /\ pc' = [pc EXCEPT ![r] = "publishing"]
  /\ UNCHANGED <<position, stage, slot, loop>> /\ KeepRun /\ RunFrame

\* Catalog.publish: the staged tree becomes the artifact, or is dropped as a duplicate.
\* An extracted archive is published from a tree of its own, in which the thread of an earlier
\* extraction may be rewriting a file.
RunPublished(r) ==
  LET t == taskOf[r]
      whole == kind[r] = "extract" \/ stage[t].content = "full"
      rewritten == kind[r] = "extract" /\ extractors[t] > 0
      found == (IF whole THEN {"whole"} ELSE {"hollow"})
               \cup (IF rewritten THEN {"hollow"} ELSE {})
  IN
  /\ GoesOn(r, "publishing")
  /\ \E tree \in found :
       shelf' = IF shelf[t] = "absent" THEN [shelf EXCEPT ![t] = tree] ELSE shelf
  /\ stage' = IF kind[r] = "extract" THEN stage ELSE [stage EXCEPT ![t].content = "none"]
  /\ pc' = [pc EXCEPT ![r] = "published"]
  /\ UNCHANGED <<status, position, slot, loop>> /\ KeepRun
  /\ UNCHANGED <<queued, pending, nextPosition, waiters, orphans, extractors, budget>>

RunDiscards(r) ==
  /\ GoesOn(r, "published")
  /\ stage' = [stage EXCEPT ![taskOf[r]] = EmptyStage]
  /\ pc' = [pc EXCEPT ![r] = "discarded"]
  /\ UNCHANGED <<status, position, slot, loop>> /\ KeepRun /\ RunFrame

RunCompletes(r) ==
  /\ GoesOn(r, "discarded")
  /\ status' = [status EXCEPT ![taskOf[r]] = "COMPLETED"]
  /\ EndRun(r)
  /\ UNCHANGED <<position, stage>> /\ RunFrame

\* Bug: the failure of a provider is not recorded.
RunFailsUnseen(r) ==
  /\ Begins(r, "provider")
  /\ EndRun(r)
  /\ UNCHANGED <<disk, queued, pending, nextPosition, waiters, orphans, extractors, budget>>

\* An exception in _run: the `except Exception` branch records FAILED.  The provider may
\* leave part of the content behind.
RunFails(r) ==
  LET t == taskOf[r] IN
  /\ kind[r] = "queued"
  /\ \/ loop = Free /\ pc[r] \in {"created", "pointers", "provider", "hashing"}
     \/ loop = r /\ pc[r] \in {"publishing", "published"}
     \/ loop = r /\ pc[r] \in {"fetched", "verified"} /\ ~Stopped(t)
  /\ status[t] # "DELETED"
  /\ status' = [status EXCEPT ![t] = "FAILED"]
  /\ stage' = IF pc[r] = "provider" THEN [stage EXCEPT ![t].content = "partial"] ELSE stage
  /\ EndRun(r)
  /\ UNCHANGED position /\ RunFrame

\* Bug: a confirmation that fails drops what was downloaded.
ConfirmFailsDiscarding(r) ==
  /\ loop = Free /\ pc[r] = "extracting"
  /\ stage' = [stage EXCEPT ![taskOf[r]] = EmptyStage]
  /\ EndRun(r)
  /\ UNCHANGED <<status, position, shelf>>
  /\ UNCHANGED <<queued, pending, nextPosition, waiters, orphans, extractors, budget>>

\* An exception in _confirm_http goes to the HTTP client; the task is left as it is.  The
\* removal of the staging directory may be what fails.
ConfirmFails(r) ==
  /\ kind[r] # "queued"
  /\ \/ loop = Free /\ pc[r] \in {"extracting", "hashing"}
     \/ loop = r /\ pc[r] \in {"verified", "publishing", "published"}
  /\ UNCHANGED stage \/ (pc[r] = "published" /\ RemovalFails(taskOf[r]))
  /\ EndRun(r)
  /\ UNCHANGED <<status, position, shelf>>
  /\ UNCHANGED <<queued, pending, nextPosition, waiters, orphans, extractors, budget>>

\* _raise_if_stopped found the task paused or cancelled under a run nobody cancelled, or
\* its record is gone.
RunGivesUp(r) ==
  LET t == taskOf[r] IN
  /\ \/ loop = r /\ pc[r] \in {"fetched", "verified"} /\ kind[r] = "queued" /\ Stopped(t)
     \/ loop = Free /\ pc[r] = "slot" /\ slot = None /\ Stopped(t)
     \/ /\ loop = Free
        /\ \/ pc[r] \in {"created", "pointers", "provider", "hashing"}
           \/ pc[r] = "slot" /\ slot = None
        /\ status[t] = "DELETED"
  /\ EndRun(r)
  /\ UNCHANGED <<disk, queued, pending, nextPosition, waiters, orphans, extractors, budget>>

\* A cancelled run ends: the provider's processes are gone, or the hashing thread is; a
\* run cancelled twice leaves its thread behind and gives the slot away.
RunUnwinds(r) ==
  /\ loop = Free
  /\ pc[r] \in {"stopping", "aborting"}
  /\ orphans' = IF pc[r] = "aborting" /\ slot = r THEN orphans + 1 ELSE orphans
  /\ EndRun(r)
  /\ UNCHANGED <<disk, queued, pending, nextPosition, waiters, extractors, budget>>

OrphanEnds ==
  /\ orphans > 0
  /\ orphans' = orphans - 1
  /\ UNCHANGED <<disk, queues, table, waiters, slot, extractors, runs, calls, loop, budget>>

\* An extraction thread runs beside the event loop: extractall creates the directories it
\* misses, so it writes on when the staging directory has been removed under it.
ExtractorWrites(t) ==
  /\ extractors[t] > 0
  /\ stage' = [stage EXCEPT ![t].loose = TRUE]
  /\ UNCHANGED <<status, position, shelf, queues, table, waiters, threads, runs, calls, loop,
                 budget>>

ExtractorEnds(t) ==
  /\ extractors[t] > 0
  /\ extractors' = [extractors EXCEPT ![t] = @ - 1]
  /\ UNCHANGED <<disk, queues, table, waiters, slot, orphans, runs, calls, loop, budget>>

\* confirm_http: the HTTP handler's own asyncio task is the run.  The verified inventory
\* _run saved is read back, so only an extraction leads to another verification.
ConfirmHttp(t, r, extract) ==
  /\ loop = Free
  /\ ops < MaxOps /\ ops' = ops + 1
  /\ status[t] = "AWAITING_CONFIRMATION"
  /\ active[t] = None
  /\ pc[r] = "idle"
  /\ stage[t].inventory
  /\ status' = [status EXCEPT ![t] = "VERIFYING"]
  /\ active' = [active EXCEPT ![t] = r]
  /\ taskOf' = [taskOf EXCEPT ![r] = t]
  /\ \/ /\ extract
        /\ kind' = [kind EXCEPT ![r] = "extract"]
        /\ pc' = [pc EXCEPT ![r] = "extracting"]
        /\ UNCHANGED loop
     \/ /\ ~extract
        /\ kind' = [kind EXCEPT ![r] = "confirm"]
        /\ pc' = [pc EXCEPT ![r] = "verified"]
        /\ loop' = r
  /\ UNCHANGED <<position, stage, shelf, queues, bySource, waiters, threads, calls, crashes>>

\* extract_archive has returned: the extracted tree is hashed.
RunExtracted(r) ==
  /\ Begins(r, "extracting")
  /\ status[taskOf[r]] # "DELETED" /\ stage[taskOf[r]].content # "none"
  /\ EnterVerification(r)
  /\ UNCHANGED <<status, position, stage>> /\ KeepRun /\ RunFrame

-----------------------------------------------------------------------------
(* The process dies, or is stopped: stop() cancels the runs, which writes   *)
(* nothing.  Only what is on disk is left.                                  *)

LoseMemory ==
  /\ queued' = [t \in Tasks |-> 0]
  /\ pending' = [t \in Tasks |-> 0]
  /\ active' = [t \in Tasks |-> None]
  /\ bySource' = [s \in Sources |-> 0]
  /\ waiters' = {}
  /\ nextPosition' = 0
  /\ slot' = None
  /\ orphans' = 0
  /\ extractors' = [t \in Tasks |-> 0]
  /\ pc' = [r \in Runs |-> "idle"]
  /\ taskOf' = [r \in Runs |-> NoTask]
  /\ kind' = [r \in Runs |-> "queued"]
  /\ calls' = {}
  /\ wakeup' = FALSE

Dies ==
  /\ crashes < MaxCrashes /\ crashes' = crashes + 1
  /\ LoseMemory
  /\ loop' = Down
  /\ UNCHANGED ops

Crash ==
  /\ loop # Down
  /\ Dies
  /\ UNCHANGED disk

\* A crash between two of the writes of delete_task: the artifact is gone, and some or all of
\* the staging directory, and the record is still there.
DeletionIsCut(t, withArtifact) ==
  /\ loop = Free
  /\ status[t] \in Deletable
  /\ withArtifact => status[t] = "COMPLETED"
  /\ Dies
  /\ shelf' = IF withArtifact THEN [shelf EXCEPT ![t] = "absent"] ELSE shelf
  /\ \E left \in Ruins(t) : stage' = [stage EXCEPT ![t] = left]
  /\ UNCHANGED <<status, position>>

\* A crash while the staging directory of a published task is removed.
DiscardIsCut(r) ==
  /\ GoesOn(r, "published")
  /\ Dies
  /\ \E left \in Ruins(taskOf[r]) : stage' = [stage EXCEPT ![taskOf[r]] = left]
  /\ UNCHANGED <<status, position, shelf>>

\* A crash while reorder_queued writes the records in their new order.
ReorderIsCut ==
  LET movable == {t \in Tasks : status[t] \in {"QUEUED", "PAUSED"}} IN
  /\ loop = Free
  /\ Dies
  /\ \E place \in [movable -> 0 .. Cardinality(movable) - 1],
        written \in 1 .. Cardinality(movable) :
       /\ \A t, u \in movable : t # u => place[t] # place[u]
       /\ position' = [t \in Tasks |-> IF t \in movable /\ place[t] < written
                                      THEN place[t] ELSE position[t]]
  /\ UNCHANGED <<status, stage, shelf>>

\* A crash while _run gives up a checkout with pointers: the result has been unlinked, the
\* inventory perhaps not.
PointersAreCut(r) ==
  LET t == taskOf[r] IN
  /\ Begins(r, "pointers")
  /\ status[t] # "DELETED" /\ stage[t].content # "none"
  /\ Dies
  /\ \E inventory \in {stage[t].inventory, FALSE} :
       stage' = [stage EXCEPT ![t] =
                   [@ EXCEPT !.content = "partial", !.result = FALSE, !.inventory = inventory]]
  /\ UNCHANGED <<status, position, shelf>>

\* Bug: tasks that were only waiting are not queued again.
RecoveredInterrupted == {t \in Tasks : status[t] \in Interrupted \cup {"PAUSED"}}
\* The tasks start() puts in order: what was interrupted first, by age, then the queue.
Recovered == {t \in Tasks : status[t] \in Interrupted \cup {"QUEUED", "PAUSED"}}
RecoveredBefore(t, u) ==
  \/ status[t] \in Interrupted /\ status[u] \notin Interrupted
  \/ status[t] \in Interrupted /\ status[u] \in Interrupted /\ t < u
  \/ status[t] \notin Interrupted /\ status[u] \notin Interrupted /\ Precedes(t, u)
Place(t) == Cardinality({u \in Recovered : RecoveredBefore(u, t)})

\* __init__ finds the next free queue position, start() renumbers and queues the tasks.
Start ==
  /\ loop = Down
  /\ status' = [t \in Tasks |-> IF status[t] \in Interrupted THEN "QUEUED" ELSE status[t]]
  /\ position' = [t \in Tasks |-> IF t \in Recovered THEN Place(t) ELSE position[t]]
  /\ stage' = [t \in Tasks |-> IF status[t] = "CANCELLED" THEN EmptyStage ELSE stage[t]]
  /\ queued' = [t \in Tasks |-> IF t \in Recovered /\ status[t] # "PAUSED" THEN 1 ELSE 0]
  /\ waiters' = {t \in Tasks : status[t] = "SCHEDULED"}
  /\ nextPosition' \in {n \in {position[t] + 1 : t \in Tasks} \cup {Cardinality(Recovered)} :
                          \A t \in Tasks : position[t] < n /\ Cardinality(Recovered) <= n}
  /\ wakeup' = TRUE
  /\ loop' = Free
  /\ UNCHANGED <<shelf, pending, table, threads, runs, calls, budget>>

\* A crash while start() writes the records one by one: a prefix of them is written.
StartIsCut ==
  /\ loop = Down
  /\ crashes < MaxCrashes /\ crashes' = crashes + 1
  /\ \E written \in 1 .. Cardinality(Recovered) :
       LET done == {t \in Recovered : Place(t) < written} IN
       /\ status' = [t \in Tasks |->
                       IF t \in done /\ status[t] \in Interrupted THEN "QUEUED" ELSE status[t]]
       /\ position' = [t \in Tasks |-> IF t \in done THEN Place(t) ELSE position[t]]
  /\ stage' = [t \in Tasks |-> IF status[t] = "CANCELLED" THEN EmptyStage ELSE stage[t]]
  /\ UNCHANGED <<shelf, queues, table, waiters, threads, runs, calls, loop, ops>>

-----------------------------------------------------------------------------

OperatorStep ==
  \E t \in Tasks :
    \/ \E delayed \in BOOLEAN : Create(t, delayed)
    \/ StartNow(t) \/ Reschedule(t)
    \/ Pause(t) \/ Resume(t) \/ ResumeLater(t) \/ Cancel(t)
    \/ \E withArtifact \in BOOLEAN : DeleteTask(t, withArtifact)
    \/ DeleteArtifact(t)
    \/ \E r \in Runs, extract \in BOOLEAN : ConfirmHttp(t, r, extract)

CallStep(t) == StartNowReturns(t) \/ PauseReturns(t) \/ CancelReturns(t)

SchedulerStep ==
  \/ ScheduleWakes
  \/ \E t \in Tasks, r \in Runs : SchedulePick(t, r)
  \/ ScheduleWaits

RunStep(r) ==
  \/ RunStart(r) \/ RunDownload(r) \/ RunPointers(r) \/ RunProvider(r) \/ RunFetched(r)
  \/ RunSlot(r) \/ RunHashed(r) \/ RunAwaits(r) \/ RunPublishing(r) \/ RunPublished(r)
  \/ RunDiscards(r) \/ RunCompletes(r) \/ RunFails(r) \/ ConfirmFails(r)
  \/ RunGivesUp(r) \/ RunUnwinds(r) \/ RunExtracted(r)

ThreadStep == OrphanEnds \/ \E t \in Tasks : ExtractorWrites(t) \/ ExtractorEnds(t)

CrashStep ==
  \/ Crash
  \/ \E t \in Tasks, withArtifact \in BOOLEAN : DeletionIsCut(t, withArtifact)
  \/ ReorderIsCut
  \/ \E r \in Runs : DiscardIsCut(r) \/ PointersAreCut(r)

Next ==
  \/ OperatorStep
  \/ ReorderQueued
  \/ \E t \in Tasks : WaiterFires(t) \/ CallStep(t)
  \/ SchedulerStep
  \/ \E r \in Runs : RunStep(r)
  \/ ThreadStep
  \/ CrashStep \/ Start \/ StartIsCut

Spec == Init /\ [][Next]_vars

\* Suspended segments are resumed by the event loop, a hashing or extracting thread ends,
\* a provider either returns or fails, timers go off, and a dead server is restarted.
Fairness ==
  /\ WF_vars(SchedulerStep)
  /\ WF_vars(Start)
  /\ WF_vars(OrphanEnds)
  /\ \A r \in Runs : WF_vars(RunStep(r))
  /\ \A t \in Tasks : WF_vars(WaiterFires(t)) /\ WF_vars(CallStep(t))

FairSpec == Spec /\ Fairness

-----------------------------------------------------------------------------
(* Properties.                                                              *)

\* A run of the queue between its creation and its end.
Live(r) == pc[r] # "idle" /\ kind[r] = "queued"
LiveRuns == {r \in Runs : Live(r)}

\* The limit per source: never more queued runs of a source than
\* max_concurrent_downloads_per_source, whatever is paused, resumed or cancelled while
\* an earlier run of the same task is still winding down.
PerSourceBound ==
  \A s \in Sources :
    Cardinality({r \in LiveRuns : SourceOf[taskOf[r]] = s}) <= MaxPerSource

\* Two runs of the queue never work on one task: they would share its staging directory.
\* (A confirmation that winds down can still be there, and the extraction thread it leaves
\* behind: see DeletedLeavesNothing.)
OneRunPerTask ==
  \A q, r \in LiveRuns : taskOf[q] = taskOf[r] => q = r

\* The global limit on downloads of README.md.  Confirmations are not downloads.
GlobalBound == Cardinality(LiveRuns) <= MaxActive

\* No run of the queue makes progress for a task its operator has paused or cancelled: what
\* is left of it is only winding down.  (Of a confirmation an extraction thread can be left.)
StoppedIsQuiet ==
  \A r \in LiveRuns : Stopped(taskOf[r]) => pc[r] \in {"stopping", "aborting"}

\* A task that is QUEUED is never forgotten: it is in the queue, or a run that has not got
\* to its first status change has taken it, or a start_now call is about to queue it.
NoLostTask ==
  loop # Down =>
    \A t \in Tasks : status[t] = "QUEUED" =>
      \/ queued[t] + pending[t] > 0
      \/ \E r \in LiveRuns : taskOf[r] = t /\ pc[r] \in {"created", "pointers", "fetched"}
      \/ [op |-> "start_now", task |-> t, on |-> None] \in calls

\* The scheduler never sleeps through work it could start: with capacity and a candidate,
\* the wakeup event is set, or a suspended call is about to set it.
NoLostWakeup ==
  (/\ loop = Free
   /\ Cardinality(ActiveTasks) < MaxActive
   /\ \E t \in Tasks : /\ status[t] = "QUEUED" /\ queued[t] + pending[t] > 0
                       /\ bySource[SourceOf[t]] < MaxPerSource)
  => wakeup \/ \E c \in calls : c.on = None

\* cancel and delete_task leave nothing behind: when no call is outstanding, the staging
\* directory of a cancelled task is gone, and no late run brings it back.  Only an extraction
\* thread does, which neither call waits for; DeletedLeavesNothing is about that.
CancelledIsDiscarded ==
  loop = Free =>
    \A t \in Tasks : status[t] \in {"CANCELLED", "DELETED"} =>
      \/ stage[t] = EmptyStage \/ stage[t].loose
      \/ \E c \in calls : c.op = "cancel" /\ c.task = t

\* delete_task "removes_staging": a task whose record is gone has no staging directory, which
\* nothing would remove any more.
DeletedLeavesNothing ==
  \A t \in Tasks : status[t] = "DELETED" => stage[t] = EmptyStage

\* A task shown as being worked on has a run that will bring it to an end.  It is no
\* property of generic HTTP tasks: a confirmation that fails leaves its task as it is.
WorkHasRun ==
  loop # Down =>
    \A t \in Tasks : status[t] \in Interrupted /\ SourceOf[t] \notin Http =>
      \E r \in LiveRuns : taskOf[r] = t

\* "The saved result lets retries skip transfer and repeat verification safely": whatever
\* was interrupted or retried, an artifact on the shelf has its files.
ShelfIsWhole == \A t \in Tasks : shelf[t] # "hollow"

\* "Verification is globally bounded to one artifact at a time."
OneVerification ==
  Cardinality({r \in Runs : slot = r /\ pc[r] \in {"hashing", "stopping"}}) + orphans <= 1

\* "Staging is discarded only after successful publication or explicit task
\* cancellation/deletion": downloaded content only leaves staging that way, or by a deletion
\* that fails or is cut before the record is removed.
StagingIsRetained ==
  [][\A t \in Tasks : stage[t].content # "none" /\ stage'[t].content = "none" =>
       \/ shelf'[t] # "absent" \/ status'[t] \in {"CANCELLED", "DELETED"}
       \/ \E withArtifact \in BOOLEAN :
            DeleteTask(t, withArtifact) \/ DeletionIsCut(t, withArtifact)]_vars

\* A slot that a run cancelled before its first step has left taken.
SlotLeaked ==
  \E s \in Sources : bySource[s] > Cardinality({r \in LiveRuns : SourceOf[taskOf[r]] = s})

\* Every queued task is eventually taken up or stopped, unless a slot was leaked.  ([]<>P says
\* the same as ~P ~> P.)
QueuedIsServed ==
  \A t \in Tasks : []<>(status[t] # "QUEUED" \/ SlotLeaked)

\* Downloads "can be paused, resumed immediately or at a later time, and cancelled", so a task
\* that waits in the queue, resumed or not, does not wait for ever.
QueueMoves == \A t \in Tasks : []<>(status[t] # "QUEUED")

\* Work that was started ends: the task does not stay in a working status for ever.  Generic
\* HTTP tasks are left out for the reason given at WorkHasRun.
WorkEnds ==
  \A t \in {u \in Tasks : SourceOf[u] \notin Http} :
    []<>(status[t] \notin Interrupted)

\* Every suspended pause, cancel and start_now call returns to its operator.
CallsReturn == \A t \in Tasks : []<>(\A c \in calls : c.task # t)

=============================================================================
