----------------------------- MODULE TaskSteps -----------------------------
(***************************************************************************)
(* What the web interface shows of one task's way through the pipeline:    *)
(* packages/ui/src/taskProgress.ts, over the fields that the task manager  *)
(* (packages/server/src/modelshelf_server/tasks.py) writes to its record.  *)
(*                                                                         *)
(* The interface is given a record and nothing else; it has to guess from  *)
(* fields that outlive a stop where a stopped task was.  The actions are   *)
(* the writes of the manager, one per write, in the order it makes them.   *)
(***************************************************************************)
EXTENDS Naturals, Sequences

CONSTANTS
  StepProviders,  \* the flows: "modelscope", "http", and "hub" for all the others
  Bytes           \* the size of a transfer

ASSUME StepAssumption ==
  /\ StepProviders \subseteq {"hub", "modelscope", "http"}
  /\ Bytes \in Nat \ {0}

VARIABLES
  record,    \* the fields of DownloadTask that taskProgress.ts reads
  staged,    \* which files the manager has saved in the staging directory
  confirms,  \* confirm_http is working on the task, and not a run
  refetched  \* a transfer has begun anew after a verification of its result

stepVars == <<record, staged, confirms, refetched>>

Unknown == 0

StepStatus == {"scheduled", "queued", "resolving", "downloading", "verifying", "publishing",
               "awaiting_confirmation", "paused", "failed", "cancelled", "completed"}
Working == {"resolving", "downloading", "verifying", "publishing"}
Halted  == {"paused", "failed", "cancelled"}

\* `verification` stands for the verification fields: absent until the first verification,
\* then the hashed share of a known total or, with `hashes` unknown, of an unknown one.
StepRecord ==
  [provider : StepProviders, status : StepStatus, progress : 0 .. 100,
   bytesDownloaded : 0 .. Bytes, totalBytes : {Unknown, Bytes},
   verification : {"absent", "unsized", "sized"},
   artifactId : BOOLEAN, resolvedRevision : BOOLEAN, inferredMetadata : BOOLEAN,
   resumeFromStage : BOOLEAN]

StepTypeOK ==
  /\ record \in StepRecord
  /\ staged \in {"nothing", "result", "inventory"}
  /\ confirms \in BOOLEAN
  /\ refetched \in BOOLEAN

-----------------------------------------------------------------------------
(* taskProgress.ts *)

NoStep == "none"

StepKeys(task) ==
  CASE task.provider = "modelscope" ->
         <<"resolving", "downloading", "processing", "verifying", "publishing">>
    [] task.provider = "http" ->
         <<"resolving", "downloading", "confirmation", "verifying", "publishing">>
    [] OTHER -> <<"resolving", "downloading", "verifying", "publishing">>

\* A bug for comparison: any transfer that has begun is taken for a finished one.
HasBegunTransfer(task) == task.provider = "modelscope" /\ task.bytesDownloaded > 0

HasFinishedTransfer(task) ==
  /\ task.provider = "modelscope"
  /\ task.totalBytes # Unknown
  /\ task.bytesDownloaded >= task.totalBytes

\* A bug for comparison: progress alone locates the phase of a stopped task.
StoppedStepByProgress(task) ==
  IF task.progress >= 99 THEN "publishing"
  ELSE IF task.progress >= 92 THEN "verifying"
  ELSE IF task.progress >= 2 THEN "downloading" ELSE "resolving"

StoppedStep(task) ==
  IF task.artifactId \/ task.progress >= 99 THEN "publishing"
  ELSE IF task.verification # "absent" THEN "verifying"
  ELSE IF task.provider = "http" /\ task.inferredMetadata THEN "confirmation"
  ELSE IF task.progress >= 92 THEN "verifying"
  ELSE IF HasFinishedTransfer(task) THEN "processing"
  ELSE IF task.resolvedRevision \/ task.bytesDownloaded > 0 \/ task.progress >= 2
    THEN "downloading" ELSE "resolving"

CurrentTaskStep(task) ==
  CASE task.status = "downloading" ->
         IF HasFinishedTransfer(task) THEN "processing" ELSE "downloading"
    [] task.status = "awaiting_confirmation" -> "confirmation"
    [] task.status \in {"resolving", "verifying", "publishing"} -> task.status
    [] task.status \in Halted -> StoppedStep(task)
    [] task.status \in {"scheduled", "queued"} ->
         IF task.resumeFromStage THEN StoppedStep(task) ELSE NoStep
    [] task.status = "completed" -> NoStep

ActiveState(status) ==
  CASE status \in Halted -> status
    [] status \in {"scheduled", "queued", "awaiting_confirmation"} -> "waiting"
    [] OTHER -> "active"

IndexOf(keys, step) ==
  IF \E i \in DOMAIN keys : keys[i] = step THEN CHOOSE i \in DOMAIN keys : keys[i] = step ELSE 0

\* The state shown beside each step of the pipeline.
TaskStepsOf(task) ==
  LET current == IndexOf(StepKeys(task), CurrentTaskStep(task)) IN
  [i \in DOMAIN StepKeys(task) |->
     IF task.status = "completed" \/ i < current THEN "complete"
     ELSE IF i = current THEN ActiveState(task.status) ELSE "pending"]

\* A bug for comparison: the bar of a step is shown only when it has a percentage.
TaskStepProgressMeasured(task) ==
  LET step == CurrentTaskStep(task) IN
  [bar           |-> task.totalBytes # Unknown,
   percent       |-> task.totalBytes # Unknown,
   indeterminate |-> FALSE]

\* The progress bar: whether there is one, and whether it runs without a percentage.  A
\* percentage needs a known total; the steps that do not measure anything have a bar only
\* while they are at work.
TaskStepProgress(task) ==
  LET step     == CurrentTaskStep(task)
      measured == CASE step = "downloading" -> task.totalBytes # Unknown
                    [] step = "verifying" -> task.verification = "sized"
                    [] OTHER -> FALSE
      works    == task.status = step \/ (step = "processing" /\ task.status = "downloading")
  IN  [bar           |-> step \in {"downloading", "verifying"} \/ (step # NoStep /\ works),
       percent       |-> measured,
       indeterminate |-> step # NoStep /\ works /\ ~measured]

-----------------------------------------------------------------------------
(* tasks.py: the writes to the record *)

Write(changes) ==
  record' = [f \in DOMAIN record |-> IF f \in DOMAIN changes THEN changes[f] ELSE record[f]]

StepInit ==
  /\ \E p \in StepProviders, size \in {Unknown, Bytes}, revision \in BOOLEAN,
        s \in {"queued", "scheduled"} :
       record = [provider |-> p, status |-> s, progress |-> 0,
                 bytesDownloaded |-> 0, totalBytes |-> size, verification |-> "absent",
                 artifactId |-> FALSE, resolvedRevision |-> revision,
                 inferredMetadata |-> FALSE, resumeFromStage |-> FALSE]
  /\ staged = "nothing" /\ confirms = FALSE /\ refetched = FALSE

\* _run begins a transfer, when no provider result has been saved.
Resolves ==
  /\ record.status = "queued" /\ staged = "nothing"
  /\ Write([status |-> "resolving", progress |-> 1, resumeFromStage |-> TRUE])
  /\ UNCHANGED <<staged, confirms, refetched>>

\* A ModelScope result with unexpanded LFS pointers is thrown away with the inventory.
Refetches ==
  /\ record.status = "queued" /\ staged # "nothing" /\ record.provider = "modelscope"
  /\ staged' = "nothing" /\ refetched' = TRUE
  /\ Write([status |-> "resolving", progress |-> 1, resumeFromStage |-> TRUE])
  /\ UNCHANGED confirms

Downloads ==
  /\ record.status = "resolving"
  /\ Write([status |-> "downloading", progress |-> 2])
  /\ UNCHANGED <<staged, confirms, refetched>>

\* _progress: a provider may not know the total, and then the preflight's is used.
Transfers ==
  /\ record.status = "downloading"
  /\ \E total \in {record.totalBytes, Bytes}, done \in 0 .. Bytes :
       Write([bytesDownloaded |-> done, totalBytes |-> total,
              progress |-> IF total = Unknown THEN 20 ELSE 2 + (done * 87) \div total])
  /\ UNCHANGED <<staged, confirms, refetched>>

\* _run saves the provider's result and turns to its verification; a run that finds a
\* result saved starts here, and one that finds an inventory has nothing left to hash.
Verifies ==
  /\ \/ record.status = "downloading"
     \/ record.status = "queued" /\ staged # "nothing"
  /\ staged' = IF staged = "nothing" THEN "result" ELSE staged
  /\ \E sized \in {"sized", "unsized"} :
       /\ staged' = "inventory" => sized = "sized"
       /\ Write([status |-> "verifying", verification |-> sized, resumeFromStage |-> TRUE,
                 progress |-> IF staged' = "inventory" THEN 98 ELSE 92])
  /\ UNCHANGED <<confirms, refetched>>

Hashes ==
  /\ record.status = "verifying"
  /\ \E progress \in {92, 95, 98} : Write([progress |-> progress, verification |-> "sized"])
  /\ UNCHANGED <<staged, confirms, refetched>>

SavesInventory ==
  /\ record.status = "verifying"
  /\ staged' = "inventory"
  /\ UNCHANGED <<record, confirms, refetched>>

\* An HTTP download waits for its user.
Awaits ==
  /\ record.status = "verifying" /\ record.provider = "http" /\ ~confirms
  /\ staged = "inventory"
  /\ Write([status |-> "awaiting_confirmation", progress |-> 95,
            resolvedRevision |-> TRUE, inferredMetadata |-> TRUE])
  /\ UNCHANGED <<staged, confirms, refetched>>

Confirms ==
  /\ record.status = "awaiting_confirmation"
  /\ confirms' = TRUE
  /\ Write([status |-> "verifying", progress |-> 96])
  /\ UNCHANGED <<staged, refetched>>

Publishes ==
  /\ record.status = "verifying" /\ (record.provider = "http" => confirms)
  /\ staged = "inventory"
  /\ Write([status |-> "publishing", progress |-> 99, resolvedRevision |-> TRUE])
  /\ UNCHANGED <<staged, confirms, refetched>>

Completes ==
  /\ record.status = "publishing"
  /\ staged' = "nothing" /\ confirms' = FALSE
  /\ Write([status |-> "completed", progress |-> 100, artifactId |-> TRUE,
            resumeFromStage |-> confirms /\ record.resumeFromStage])
  /\ UNCHANGED refetched

\* A run records its failure; one of confirm_http leaves the record as it is.
Fails ==
  /\ record.status \in Working \cup {"queued"}
  /\ IF confirms THEN UNCHANGED record
                 ELSE Write([status |-> "failed", resumeFromStage |-> TRUE])
  /\ confirms' = FALSE
  /\ UNCHANGED <<staged, refetched>>

Pauses ==
  /\ record.status \in {"queued", "resolving", "downloading", "verifying"}
  /\ Write([status |-> "paused", resumeFromStage |-> TRUE])
  /\ confirms' = FALSE
  /\ UNCHANGED <<staged, refetched>>

Resumes ==
  /\ record.status \in {"paused", "failed"}
  /\ \E s \in {"queued", "scheduled"} : Write([status |-> s, resumeFromStage |-> TRUE])
  /\ UNCHANGED <<staged, confirms, refetched>>

\* The scheduled time has come, or the user does not wait for it.
Starts ==
  /\ record.status = "scheduled"
  /\ Write([status |-> "queued"])
  /\ UNCHANGED <<staged, confirms, refetched>>

Cancels ==
  /\ record.status \notin {"publishing", "completed", "failed", "cancelled"}
  /\ Write([status |-> "cancelled"])
  /\ staged' = "nothing" /\ confirms' = FALSE
  /\ UNCHANGED refetched

\* The server is restarted: start() queues what was interrupted.
Recovers ==
  /\ record.status \in Working
  /\ Write([status |-> "queued", progress |-> 0, resumeFromStage |-> TRUE])
  /\ confirms' = FALSE
  /\ UNCHANGED <<staged, refetched>>

StepNext ==
  \/ Resolves \/ Refetches \/ Downloads \/ Transfers \/ Verifies \/ Hashes \/ SavesInventory
  \/ Awaits \/ Confirms \/ Publishes \/ Completes \/ Fails
  \/ Pauses \/ Resumes \/ Starts \/ Cancels \/ Recovers

StepSpec == StepInit /\ [][StepNext]_stepVars

-----------------------------------------------------------------------------
(* Properties *)

ShownAs(step, state) ==
  LET i == IndexOf(StepKeys(record), step) IN i # 0 /\ TaskStepsOf(record)[i] = state

\* A step that is shown as complete has left its result behind: what is said to be downloaded
\* has been saved or at least transferred, what is said to be verified has an inventory.  The
\* interface only has fields to go by that outlive stops, retries and restarts, each of
\* which rewrites some of them.  HTTP downloads are left out (Confirm is shown as complete
\* while the first verification, before it, is running), and so are repeated transfers.
CompleteStepsAreDone ==
  (record.provider # "http" /\ ~refetched /\ record.status \notin {"cancelled", "completed"}) =>
    /\ ShownAs("downloading", "complete") =>
         staged # "nothing" \/ (record.totalBytes # Unknown /\ record.bytesDownloaded = Bytes)
    /\ ShownAs("verifying", "complete") => staged = "inventory"

\* A task that is stopped, by its user or by a failure, is shown stopped at the step it was
\* at, although its status no longer says which that was.  (A verification repeats after
\* Refetches with the verification fields of the first one still in the record.  "resolving"
\* is left out: the manager writes "downloading" before it suspends again, tasks.py:1331-1338,
\* so no operator and no failure finds a task there.)
StopKeepsStep ==
  [][(record.status \in Working \ {"resolving"} /\ record'.status \in Halted /\ ~refetched)
       => CurrentTaskStep(record') = CurrentTaskStep(record)]_stepVars

\* A task at work always has a moving or measured bar at a step of its own pipeline, and a
\* task that is not at work never has a moving one.
WorkIsVisible ==
  LET shown == TaskStepProgress(record) IN
  /\ record.status \in Working =>
       /\ IndexOf(StepKeys(record), CurrentTaskStep(record)) # 0
       /\ shown.bar /\ (shown.percent \/ shown.indeterminate)
  /\ record.status \notin Working => ~shown.indeterminate
=============================================================================
