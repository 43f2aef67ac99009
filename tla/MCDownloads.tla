---------------------------- MODULE MCDownloads ----------------------------
(* Instances of the modules of the pages /tasks and /tasks/:id for TLC, side by side in one   *)
(* run: `part` says which of them a behaviour is about, and the variables of the others keep  *)
(* their initial values.                                                                      *)
EXTENDS TaskSteps, DownloadQueue, TaskDetail

VARIABLE part

\* One initial state of each module that is not looked at.
StepsAside  == /\ record.provider = "hub" /\ record.status = "queued"
               /\ record.totalBytes = Unknown /\ ~record.resolvedRevision
QueueAside  == \A t \in QueueTasks : tasks[t] = "paused"
DetailAside == \A t \in DetailTasks : held[t] = "running"

\* The details are of two tasks that are at different points.
DetailsDiffer == <<held[1], held[2]>> \in
  {<<"scheduled", "running">>, <<"awaiting_confirmation", "completed">>}

DownloadsInit ==
  /\ part \in {"steps", "queue", "detail"}
  /\ StepInit /\ QueueInit /\ DetailInit
  /\ part # "steps" => StepsAside
  /\ part # "queue" => QueueAside
  /\ IF part = "detail" THEN DetailsDiffer ELSE DetailAside

OnSteps(action)  == part = "steps"  /\ action /\ UNCHANGED <<part, queueVars, detailVars>>
OnQueue(action)  == part = "queue"  /\ action /\ UNCHANGED <<part, stepVars, detailVars>>
OnDetail(action) == part = "detail" /\ action /\ UNCHANGED <<part, stepVars, queueVars>>

DownloadsNext == OnSteps(StepNext) \/ OnQueue(QueueNext) \/ OnDetail(DetailNext)

downloadsVars == <<part, stepVars, queueVars, detailVars>>

\* QueueFairness and DetailFairness, each for the behaviours that are about its module.
DownloadsFairness ==
  /\ WF_downloadsVars(OnQueue(Poll))         /\ WF_downloadsVars(OnQueue(LoadReturns))
  /\ WF_downloadsVars(OnQueue(DeleteServed)) /\ WF_downloadsVars(OnQueue(DeleteReturns))
  /\ WF_downloadsVars(OnQueue(MoveServed))   /\ WF_downloadsVars(OnQueue(MoveReturns))
  /\ WF_downloadsVars(OnDetail(DetailPoll))  /\ WF_downloadsVars(OnDetail(PollReturns))
  /\ WF_downloadsVars(OnDetail(CallServed))  /\ WF_downloadsVars(OnDetail(CallReturns))
  /\ WF_downloadsVars(OnDetail(ModalFolded))

DownloadsSpec == DownloadsInit /\ [][DownloadsNext]_downloadsVars /\ DownloadsFairness

DownloadsTypeOK == StepTypeOK /\ QueueTypeOK /\ DetailTypeOK

\* QueueConverges of the page of downloads: whatever order polls, moves and deletions ended
\* in, the page settles on what the server has.
QueuePageConverges == <>[](part = "queue" => PageIsCurrent)

\* GripsComeBack of the queue and ButtonsComeBack of the details: a call that fails or is
\* refused leaves no control of either page waiting for good.
ControlsComeBack == []<>(move = NoMove /\ ~actionBusy)
=============================================================================
