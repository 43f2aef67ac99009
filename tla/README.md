# ModelShelf in TLA+

ModelShelf ingests AI model artifacts from public hubs onto a shared shelf and lets clients
synchronise them; a web interface shows and drives both. This directory holds TLA+ models of it, their
TLC configurations and proofs that TLAPS checks. The models are translated from the code under `packages/`; where a document and the
code disagree, the models follow the code and the document becomes a property.

    tlc -config scheduler.cfg MCTaskManager     # one of the runs below
    tlapm TaskManagerProofs.tla                 # all proofs of the scheduler
    tlapm CatalogProofs.tla                     # all proofs of the catalog
    tlapm ListProofs.tla                        # lemmas on lists
    tlapm DownloadsProofs.tla                   # and of the pages of the web interface
    tlapm NewDownloadProofs.tla
    tlapm ArtifactBrowserProofs.tla
    tlapm SessionProofs.tla
    tlapm PagesProofs.tla

## The system

| Component | Code | State | Operations | What is hard |
|---|---|---|---|---|
| Ingestion task manager | `server/tasks.py` | job records on disk; queue, `_pending`, `_active_runs`, `_active_by_source`, `_scheduled_runs`, the wakeup event and the verification lock in memory | create, start now, reschedule, pause, resume, cancel, delete, reorder, confirm; scheduler loop; runs; start and stop | interleavings at every `await`, operator calls against runs that are winding down, crash anywhere |
| Provider downloads | `server/providers.py`, `provider_worker.py` | a subprocess per download | download, preflight, search | failure, cancellation, retained partial content |
| Artifact catalog | `core/catalog.py` | the shelf (one directory with a manifest per artifact), tombstones, alias registry | publish, delete, set alias, verify, statistics | several disk writes per operation, a second process that imports |
| Catalog index | `core/catalog_index.py` | a SQLite cache of the manifests | upsert, delete, reconcile, find | staleness |
| Aliases and duplicates | `server/tasks.py`, `core/catalog.py` | aliases of tasks and of artifacts | reservation, duplicate detection | a reservation outlives its check |
| Filesystem import | `server/filesystem_import.py` | a staging directory | copy and publish | runs in a process of its own |
| Metadata caches | `server/app.py` | answers and requests in flight per key | cached preflight, revisions and file trees | shared requests, timeouts |
| Schema migrations | `core/schema.py` | schema version of each document | upgrade chains | a document left half-way |
| Identities | `core/identity.py` | none | artifact ids and paths and their inverse | escaping |
| Client synchronisation | `client/internal/syncer` | staging and store directories | select, stage, verify, publish | kill and resume, shared store |
| Client configuration | `client/internal/cli`, `lockfile`, `config` | desired configuration, lock, symlinks | add, remove, sync, reconcile | partial failure between the three |
| Client distribution and upgrade | `client/internal/distribution`, `upgrade` | published binaries | export, replace | interruption |
| Progress of a task | `ui/taskProgress.ts` | none: it reads a record | current step, states of all steps, bar | guesses from fields that outlive stops |
| Downloads page | `ui/pages/TasksPage.tsx` | filters and page of the address, rows, total, drag, requests | filter, page, poll, delete, move | polls overlap, with each other and with all else |
| Task details | `ui/pages/TaskPage.tsx`, `ResumeControl`, `ScheduleControl`, `DeleteConfirm` | the record, popovers, who waits | poll; pause, start, schedule, resume, cancel, delete, confirm | answers for another task, requests that cross |
| New download form | `ui/pages/NewTaskPage.tsx`, `FileTree.tsx` | fields, three lookups, the preflight, chosen files | edit, look up, choose, submit | an answer changes a field another lookup depends on |
| Artifacts page | `ui/pages/ArtifactsPage.tsx` | filters, cards, details, alias field, disk usage | search, load more, open, save alias, scan, delete | one state for the details of all artifacts |
| Notices, theme, session, search field, select field | `ui/components`, `ui/theme`, `ui/App.tsx`, `LoginPage.tsx` | each its own | | timers, events between tabs, redirects against navigation, keys between commits |
| Terminal interface, authentication, NFS mount, integration documents, deployment | | | | presentation or operating-system calls |

The HTTP handlers of `app.py` call the task manager; runs of the task manager call a provider in a
subprocess, then the catalog; clients read the catalog over HTTP and the shelf over a read-only
mount; the pages of the web interface call the handlers and poll them. Each page is one JavaScript event loop
in which clicks, timers, answers and commits of React interleave. The server is one asyncio event loop with threads for hashing and extraction, and all that
survives a crash is on disk: job records, staging directories, the shelf and the alias registry.

Correctness, component by component:

* task manager: limits on parallel downloads hold; no queued task is forgotten; two runs never share
  a staging directory; a stopped task makes no progress; staging is kept until it may go; work ends.
* catalog: an artifact on the shelf is complete and never changes; an alias names one artifact that
  exists; the index agrees with the shelf once reconciled; deletion is atomic for readers.
* pages: what is shown is, in the end, what the server has, and always what was asked for; a request is not sent
  twice; nothing waits for ever; what is submitted is what was reviewed; what is deleted was meant.
* client: what is in the store is complete and verified; a synchronisation can be killed anywhere and
  repeated; lock, store and symlinks agree after a successful one.

## Modules

| Module | Content |
|---|---|
| `TaskManager` | the scheduler, its operations and its runs; faulty variants of single definitions, each marked `Bug:`, are there to show that the properties can fail |
| `MCTaskManager` | instances for TLC |
| `TaskManagerProofs` | theorems |
| `Catalog` | the catalog and its index, shared by the server and import processes; `Bug:` variants as above |
| `Shelf` | what the catalog promises: atomic publication and deletion of immutable artifacts, unique aliases |
| `MCCatalog` | an instance for TLC |
| `CatalogProofs` | theorems, among them that `Catalog` implements `Shelf` |
| `TaskSteps` | the progress that is shown for a record, over every record the task manager writes |
| `DownloadQueue` | the downloads page and the tasks of the server it shows |
| `TaskDetail` | the details of one task with all their controls |
| `MCDownloads` | the three of them side by side, for TLC |
| `DownloadsProofs` | theorems about each of them and about the three together |
| `Lists`, `ListProofs` | `Array.filter` by the places of what stays, and lemmas on lists |
| `FileTree` | filter, folding and ticking of a tree of files, as operators |
| `NewDownload` | the form for a new download, over `FileTree` |
| `ArtifactBrowser` | the artifacts page with the details of an artifact |
| `Toasts`, `Theme`, `Session`, `Combobox`, `SelectField` | what every page has: notices and the copy button, the theme, sign-in and routes, the field with suggestions, the field with a list |
| `MCPages` | the seven of them side by side, for TLC |
| `NewDownloadProofs`, `ArtifactBrowserProofs`, `SessionProofs` | theorems |
| `PagesProofs` | theorems about the theme, the notices and the two kinds of fields, and about the pages of `MCPages` together |

The modules of the pages do not share variables: a page is unmounted when another is shown, and what it leaves
behind, requests on their way, is part of its own module. `MCDownloads` and `MCPages` put them into one state space
each; `part` says which of them a behaviour is about, so nothing is multiplied. Each page holds its own small
picture of the server, with the statuses and answers its controls tell apart.

`TaskManager` and `Catalog` meet in one call, `Catalog.publish`: the former has it as `RunPublished`, one
step on the artifact of one task, which `CatalogIsShelf` justifies; the latter has it as `Publish`, for any
caller. Operator calls that delete an artifact or set its alias are `Delete` and `SetAlias`.

### How `TaskManager` corresponds to the code

*Steps.* Code between two awaits that really suspend is atomic. `loop` says who holds the event
loop: nobody, the scheduler, or a run in the middle of a segment. A segment is cut in several
actions only where it has written to disk, and between these pieces only a crash may happen
(`RunFetched`, `RunPublishing`, `RunPublished`, `RunDiscards`, `RunCompletes` are one segment).
`_update_lock`, `_create_lock` and `_artifact_lock` are never held over a suspension, so nobody
ever waits for them and they do not appear; `_verification_slot` is, and does. `asyncio.Lock` hands
itself to waiters first, so a newcomer does not overtake one (`EnterVerification`); which waiter is
served is left open.

*State.* `status`, `position` are the job records. `stage` is what matters of a staging directory:
whether the content is absent, partial or complete, and whether `provider-result.json` and
`verified-inventory.json` are there. `shelf` is the artifact each task publishes: absent, whole, or
hollow (a manifest without its files). Each task has an artifact of its own: `create_with_result`
gives no task to a selection that another live task downloads, and the cases in which two tasks
still share an artifact (a failed one that is resumed, different mirrors) are left to the plan. `queued` and `pending` count the
entries of each task in the asyncio queue and in `_pending`, since a task can have several.
`active` is `_active_runs`; its value `Dead` is a finished asyncio task nobody will remove.
`bySource`, `waiters`, `nextPosition`, `wakeup`, `slot` are the fields of those names. `pc`,
`taskOf`, `kind` describe the asyncio tasks of runs and confirmations, and `calls` the operator
calls that wait in pause, cancel or start_now.

*Cancellation.* `Task.cancel()` depends on where the run is suspended (`AfterCancel`): a run that was
never stepped is finished without entering its body, one that waits for a provider or a hashing
thread first winds that down, and a second cancel breaks off the wait for the thread, which then
outlives its run (`orphans`). One that extracts an archive does not wait for its thread at all
(tasks.py:1663): the thread goes on (`extractors`) and writes into the staging directory whether that
is still there or not, because `extractall` creates the directories it misses (`ExtractorWrites`; the field
`loose` of `stage` says that such files are there). A removal that meets the thread may fail half-way
(`RemovalFails`), and a second confirmation that extracts may publish a tree with a file the first thread is
rewriting (`RunPublished`). The operator's call goes on when the run has ended.

*Crashes.* `Crash` keeps `status`, `position`, `stage` and `shelf` and forgets the rest; an orderly
`stop()` writes nothing either, so it is the same step as far as later behaviour goes. `Start` is
`__init__` and `start()`; `StartIsCut` is a crash after some of the records it rewrites. Four other
segments that write to disk more than once have actions for a crash between their writes: `DeletionIsCut`
(artifact, staging, record), `DiscardIsCut` (a staging directory half removed after publication), `ReorderIsCut`
(some of the records renumbered) and `PointersAreCut` (result unlinked, inventory not).

*Abstractions.* A provider either returns or fails, at any moment, and may leave partial content.
Every exception in a run (a symlink in the way, an unreadable record, a mismatch of sizes, hashes
or selected paths, a failed publication) is the nondeterministic `RunFails`. `resume_from_stage` is
left out, because an existing staging directory implies it (tasks.py:1304). Progress, speed, ETA
and disk-space admission are left out.

### How `Catalog` corresponds to the code

*Processes.* The server and each `modelshelf-server import` open the same storage directory
(main.py:50), and `initialize` of either reconciles the index. `_aliases_lock` is a lock of one process;
only the server writes the registry. The catalog's methods never await, so within the server one of
them runs at a time; across processes they interleave at every access to the disk. An action is what a
process does from one access to the next.

*State.* `contents` is the directory of each artifact, which `os.rename` makes appear and disappear as a
whole; `registry` is `artifact-aliases.json`, which is replaced atomically; `index` is the SQLite
table. A row's `stamp` stands for the modification time and size of the manifest file it was made for;
`manifest` for its other columns. `job` holds the local variables of what each process does. Two imports
of one identity have equal files, since the digest of the files is their revision, but can differ in
the manifest. `dirty` is for the property `IndexIsHealed` alone: it is cleared when a process reads the
index to reconcile it while no other is at work, and set by an overlap, a kill or a failing statement.

*Operations.* `publish` looks for the destination, renames onto it (which fails on a directory that is
there) and indexes the artifact; `set_alias` writes the registry, indexes and reads back; `delete`
moves the directory to a tombstone, writes the registry and deletes the row, and undoes this if the row
cannot be deleted; `reconcile_index` reads the rows, then the registry, walks over the shelf in the order
of paths and writes one transaction. At each place it takes the manifest's time and size (`ReconcileScans`) and then,
if they are not those of the row, reads the manifest (`ReconcileParses`), which may by then be another or gone; such
a row has the time of the one and the contents of the other. An import that was killed is not restarted, the server is.

*Faults.* A kill can happen anywhere. A SQLite statement can be refused: in `_index_artifact` the failure is
logged, in `delete` it is undone, in `reconcile_index` it ends the start or the call, and a database that
cannot be read is replaced by an empty one.

*Refinement.* `Shelf` sees the alias of an artifact only while the artifact is there. So a deletion is one step
of `Shelf`, the move to the tombstone, however it goes on: a kill before the registry is written leaves an
alias nobody sees, which the artifact has again if it is published again, and an undone deletion publishes the
artifact again. `Publish` of `Shelf` therefore lets an artifact come back under an alias that is free.

*Abstractions.* The file's time and size and the alias are read in one step in `_index_artifact`, which follows the
publication of that same file, as are the row and the manifest in `find`. Files without a readable manifest, wrong places on the shelf and failing
writes of the registry are left out.

### How the pages correspond to the code

*Steps.* An action is one turn of the browser's event loop: a handler with all state it sets, the answer to a
request, a timer, a commit of React with the effects it runs. The server's side of a request is a step of its own,
between the request and the answer. A failure of a request is either the server's refusal or a loss, and a lost
request may or may not have been served. Where React batches (`Combobox`: keys between two commits; `Session`: the
new state is committed before the new address) the batch is in the model.

*Effects.* A cleanup that sets `active = false` or aborts a controller empties the set of requests the component
listens to (`loads`, `polls`, `cardsFlights`, `flights`). Requests of handlers have no cleanup: they stay, and what their
answers do then is in the actions (`CallReturns`, `SaveReturns`, `MoreReturns`, `SubmitReturns`).

*`TaskSteps`.* `record` has the fields that `taskProgress.ts` reads. The actions are the writes of the task manager
in the order it makes them, with the fields each of them leaves alone; that is the point, since a stopped task is
placed by what it was left with. `Bytes` = 2 gives a transfer that has not begun, is half done and is done.

*`DownloadQueue`.* `tasks` and `line` are the server's; `PageOf` is its answer. `loads` holds the answers to the polls
of the effect that is there, any of which may arrive next. `dragged`, `move`, `deletes` and `deleting` are the states
of the handlers. A `Deletion` is a request under way; its `busy` is the state of the `DeleteConfirm` it was sent from,
which ends with the row: a row that a poll takes away and an older poll brings back has a fresh one, from which the
task can be deleted a second time. Filters that are alike (provider, search) are one filter with two values.

*`TaskDetail`.* `route` is the address and `shown` what the modal still shows while it folds. `detail` is the state of
the component, which is keyed by the task: `Fresh` is its replacement, after which old requests are no longer `mine`.
`opened` and `busy` are the popovers' own states, which end with the control when a record no longer offers it
(`Render`). `crossed` is there for `OneRequestPerControl` only.

*`NewDownload`.* `lookups` and `flights` are the three effects: timer, state, requests that were not aborted. `Deps`
are their dependencies, for the preflight the key that decides whether what is there may be submitted. Every file has
size 1 and no file is reused. Routing through a mirror, a proxy or neither is one field, `routing`, since each is a
part of the key and resets the preflight alike. What React draws and the effect it runs then are two steps where the
user can come between: after an answer that changes the identity of the estimate (`Identity`, the resolved revision
included) `resetDue` is set until `ResetSelection` has dropped the chosen files, and `Submit` may come first. Nothing
else can, since React runs what is due before it handles another change. `FileTree` is pure; a node is the path of a file or a folder.

*`ArtifactBrowser`.* The state of the details belongs to the page and not to a component per artifact, so answers come
back into the details of the next artifact; `ShownDetail` is the comparison that keeps them apart. The
confirmation of a deletion goes with its card, as in `DownloadQueue` (`CardsStillBusy`). `about` in
`aliasInput`, `cardsOf` and `cardsMissed` are for the properties.

*`Toasts`* counts time in steps of a clock; timers fire at their time or later, and the effect that sets them runs
some time after the stack has changed. *`Theme`* has one browser storage for all tabs and a queue of storage events per
tab. *`Session`* keeps the entries of the history apart from the page that has been committed; a link to the address that
is shown replaces its entry (`Visited`). *`Combobox`* works out
registration, filter, highlight and cursor as the hooks do; a text is a sequence of letters because the fuzzy filter
looks at them. Enter takes the row that was active at the last commit, also when arrows were pressed since. *`SelectField`* moves the focus in animation frames.

*Abstractions.* Layout, animation, wording, focus and scrolling elsewhere than in the select field, and the contents
of the fields nobody compares.

## Runs

| Run | Instance | Properties | Result |
|---|---|---|---|
| `scheduler` | two tasks of two sources, both limits 1, two operator calls, one crash | `TypeOK`, `GlobalBound`, `NoLostTask`, `NoLostWakeup`, `WorkHasRun` | hold, 1 180 000 states |
| `confirmation` | one generic HTTP task, limits 2 and 1, five calls, two crashes | `OneRunPerTask`, `StoppedIsQuiet`, `CancelledIsDiscarded`, `StagingIsRetained` | hold, 440 000 states |
| `overlap` | one task, limits 3 and 2, four calls, one crash | `PerSourceBound` | holds, 270 000 states |
| `liveness` | two tasks of two sources, both limits 1, one call, one crash, fairness | `QueuedIsServed`, `WorkEnds`, `CallsReturn` | hold, 125 000 states |
| `catalog` | server, two imports, two artifacts, one alias, three calls, two faults | `AliasesAreUnique`, `IndexIsHealed`, `ImplementsShelf` | hold, 2 200 000 states |
| `downloads` | records of three flows; three tasks on pages of two rows; the details of two tasks; fairness | `DownloadsTypeOK`, `CompleteStepsAreDone`, `StopKeepsStep`, `WorkIsVisible`, `RowsMatchFilters`, `QueuePageConverges`, `DetailIsOfShown`, `OneRequestPerControl`, `OptionIsDeliberate`, `DetailConverges`, `ControlsComeBack` | hold, 270 000 states |
| `pages` | the seven modules of `MCPages`, each by itself; fairness | `PagesTypeOK`, `SubmittedIsPreflighted`, `SelectionIsOfEstimate`, `RevisionIsOfModel`, `FilterShowsMatches`, `CardsMatchSearch`, `DetailIsOfOneArtifact`, `AliasGoesWhereTyped`, `TimersAreOfToasts`, `ReturnsWhereHeaded`, `EnterKeepsTyped`, `TwoKeysMoveTwo`, `PagesSettle` | hold, 290 000 states |
| `global_bound` | two tasks, both limits 2, four calls | `GlobalBound` | violated |
| `shelf_whole` | one task, three calls, no crash | `ShelfIsWhole` | violated |
| `one_verification` | two HTTP tasks, two calls | `OneVerification` | violated |
| `late_extraction` | one generic HTTP task, three calls, no crash | `DeletedLeavesNothing` | violated |
| `paused_early` | one task, two calls, fairness | `QueueMoves` | violated |

*Bounds.* `MaxOps` counts operator calls other than create, `MaxCrashes` crashes; `Runs` is a pool of
identities that return to it, and three are enough for the scheduler never to lack one under these
limits. Two tasks of different sources are the smallest instance with competition for the global
limit and for the verification slot; one task with many calls is enough for everything that
happens between an operator and the runs of one task (pause, resume and pause again, delete during
a cancel, a crash in a confirmation). Symmetry over `Runs` is used for invariants and for the
action property, not for liveness. Deadlock is not checked: the system stops when the bounds are
used up.

For `catalog`, `MaxOps` counts calls of the server and `MaxFaults` kills and refused statements together. Two
imports of one artifact race each other and the server; three calls are publish, set alias and
delete, or a deletion between the imports; two faults are a deletion that is undone and killed while it
is. In this instance the server's artifact has one possible content, so a collision of different
contents is reached by the theorem only.

For the pages, every bound counts what would otherwise go on for ever: clicks, keys, edits, visits, changes from
elsewhere, lost requests (one of each page). Polls are bounded by how many are on their way at once, two, the least
at which one overtakes another; they never run out. Two tasks, models, artifacts or tabs are the least that can be
confused; three tasks on pages of two rows give a second page, a neighbour to move beside, and a page that becomes
empty. A second deletion of a task while the first is on its way takes two finished tasks and three clicks, which no run has; from
two finished tasks, three clicks and one change it is reached, and `DownloadQueue` keeps all its properties (17 830 states).
Each module was also checked once, by itself, with its bounds raised by one or more, safety and liveness, to
the same results; the larger instances are not runs because they find nothing the smaller ones do not reach.
`PagesSettle`, `QueuePageConverges` and `ControlsComeBack` join the liveness properties of the modules, which are
stated there under names of their own, for the behaviours about each.

*Fairness.* Weak fairness of the scheduler's step, of each run, of timers, of suspended calls, of the
ends of orphaned threads and of the restart. The event loop resumes every runnable asyncio task, a
thread that hashes files ends, a process that is stopped gets SIGTERM and after five seconds SIGKILL
(providers.py:1425), and the deployment restarts a dead server. That a provider eventually returns
or fails is an assumption: the code sets no time limit on a download. Operators are not fair.

For the pages: timers fire, polls are sent for as long as the page is there (`setInterval` does not wait), React
commits and runs effects, storage and media events arrive, and the browser ends every request, with an answer or an
error. For the lookups of the form not even this is assumed: `LookupTimesOut` is fair and their answers are not, since
`lookup` has a timer of its own (NewTaskPage.tsx:100). Users are not fair, nor are tasks.

### The disagreements

* `global_bound`: with two downloads allowed per source, pausing and resuming a task that still has a
  queue entry gives it a second one; both are started, `_active_runs` has one key for both, and
  capacity is undercounted. README.md:131 promises a global bound.
* `shelf_whole`: a crash or error after publication leaves the saved result and inventory without
  their files; if the artifact is deleted before the retry, the retry publishes an empty tree with a
  full manifest. tasks.py:1388 says the saved result makes retries safe.
* `one_verification`: pause, then cancel while the pause still waits: the hashing thread outlives its
  run and a second artifact is hashed. docs/design-decisions.md:33 promises one at a time.
* `late_extraction`: a confirmation that is cancelled while it extracts an archive leaves its thread running.
  `cancel` removes the staging directory under it and `delete_task` does so again and then drops the record;
  the thread goes on creating files there, and nothing removes them any more, since a start discards the staging
  of tasks that are CANCELLED only. tests/test_tasks.py:66 says that a deletion removes staging.
  `CancelledIsDiscarded` is what does hold: only such a thread leaves anything behind.
* `paused_early`: a run that is cancelled before its first step never returns its place; after a
  resume the task waits for ever, and with it every task of its source. README.md:124 says
  downloads can be paused and resumed. `QueuedIsServed` holds with exactly this case excepted.

`GlobalBound`, `OneRunPerTask` and `StoppedIsQuiet` are about the runs of the queue (`LiveRuns`). A confirmation is no
download, it needs its task to have no entry in `_active_runs`, and a queued run can start beside one that is still
winding down. `StopKeepsStep` leaves "resolving" out: the manager goes on to "downloading" without suspending
(tasks.py:1331-1338), so nothing stops a task there.

There is one more that no run repeats: `reconcile_index` deletes the rows its walk has not seen, so an artifact that
another process publishes behind the walk loses its row although it is on the shelf, and `find` does not know it until a
process reconciles again; docs/schema-migrations.md:15 calls the index a projection of the manifests.
`IndexIsProjection` of `Catalog` says so, and TLC finds it violated with a server, one import and no fault.
`IndexIsHealed` is what does hold: a reconcile that nothing disturbs repairs everything.

Not a disagreement with any document, but worth knowing: a confirmation that fails leaves its task
in VERIFYING or PUBLISHING, which is why `WorkHasRun` and `WorkEnds` leave generic HTTP tasks out. And
`_index_artifact` takes the stamp of a row from the file but its data from the manifest it was given: if the
artifact is deleted and imported again in between, the row is wrong for good, because reconciling trusts the
stamp. `IndexIsHealed` compares stamp and alias only. On the pages: two requests for one task can cross, because the
button inside an open popover is not disabled by `actionBusy`, and the first that ends releases the other's button;
`OneRequestPerControl` is stated for as long as none have. `loadMore` appends cards of whatever filters the address
has by then. And a scan of the disk usage that ends after another artifact was opened is shown with that artifact:
`StatsAreOfShown` of `ArtifactBrowser` states the contrary and is violated, but no document promises it. In the
field with suggestions the arrow keys step through the rows in the order they registered, and a typed value registers
last but is shown first, so the highlight jumps (`RowsInListOrder` of `Combobox`).

## Theorems

Those of `TaskManagerProofs` hold for every set of tasks, sources and runs and all limits, from the
assumption `ConstantsOK` of `TaskManager` (finite sets, limits of at least one, as the constructor
demands).

* `TypeCorrect`: `Spec => []TypeOK`.
* `PerSourceBounded`: `Spec => []PerSourceBound`. The bound counts live runs, but the scheduler looks at
  the counter `bySource`. The invariant that closes the gap, `Counted`, says that the counter is at
  least the number of live runs of its source and at most the limit; it needs that live runs have
  tasks (`RunsHaveTasks`) and that what `_active_runs` holds are runs of the task it is filed under
  (`ActiveAreRuns`). Together: `CapacityInv`. Each action is shown to belong to one of six classes by
  what it does to the set of live runs (keeps it, adds one, ends one, drops one never stepped,
  starts a confirmation, loses everything), and each class preserves the invariant.
* `RunsAreExclusive`: with `MaxPerSource = 1`, `Spec => []OneRunPerTask`, a consequence of the former: two
  runs of one task would be two of one source.
* `GloballyBounded`: with `MaxPerSource = 1`, `Spec => []GlobalBound`. `GlobalInv` adds `Registered`: every
  live run is the one `_active_runs` holds for its task. It is inductive only because two runs never
  share a task, so an ended run removes its own entry. Without the hypothesis the theorem is false,
  as `global_bound` shows.
* `NoTaskIsLost`: `Spec => []NoLostTask`. The property (`QueuedAreHeld`) is inductive beside `CapacityInv`, which
  says of which task the runs are that were just taken from the queue.
* `NoWakeupIsLost`: `Spec => []NoLostWakeup`. The scheduler drains the queue into `_pending` and then looks for a task it
  may start; `Drained` says that while it does so nobody adds to the queue, and `Woken` that when it does not, whatever
  could be started has set the event or is in a call that still has to. A run that ends may free a source that a waiting
  task needs, which is why the counters of `CapacityInv` are part of it.
* `WorkIsDone`: `Spec => []WorkHasRun`. Of several runs of a task one may have been told to stop; the invariant
  `WorkHasWorker` asks for one that was not, and `ConfirmsAreHttp` keeps requests that confirm apart.
* `StoppedTasksAreQuiet`, `CancelledAreDiscarded` and `StagedIsRetained`, with `MaxPerSource = 1`: `[]StoppedIsQuiet`,
  `[]CancelledIsDiscarded` and the action property `StagingIsRetained`. `WorkersInv` adds to `GlobalInv` what each point of a
  run says of the status of its task (`Workers`); `StageInv` adds what the pieces of a segment leave on the disk
  between them (`SegmentInv`) and that a task stays cancelled while the call that cancels it waits (`CancelSticks`).
  `CancelledIsDiscarded` allows for what an extraction thread has written (`Cleared`): removals only fail by such a
  thread (`Clears`), and a crash only cuts segments of tasks that have a record (`CrashSpares`).
  The hypothesis is needed: with two downloads per source, where two runs may share a task (as in `overlap`), TLC finds all
  three violated.

Those of `CatalogProofs` hold for all sets of artifacts, contents, aliases and imports, and any number of calls and
faults, from `CatalogAssumption`.

* `TypeCorrect`: `Spec => []TypeOK`, the local variables of the operations included.
* `AliasesUnique`: `Spec => []AliasesAreUnique`. A deletion puts the registry back as it was read, so the invariant
  needs `Recallable`: what a deletion may put back is unique, and is the present registry but for the
  alias it has taken away (nobody else writes the registry). Steps that leave the registry alone and do not
  lead into such a deletion (`Aside`) are dealt with at once; five actions remain.
* `CatalogIsShelf`: `Spec => ImplementsShelf`. Publication, restoration of a deletion, deletion, and the three
  writes of the registry are steps of `Shelf`; `Recallable` says that undoing changes one alias only, and uniqueness
  that the alias an artifact appears with is free. All other steps are not seen.
* `IndexHealed`: `Spec => []IndexIsHealed`. `HealInv`: as long as nothing has disturbed the index, one process at most works on
  the catalog, and what it has still to do mends every row that does not agree (`Mends`, by the point it is at: a
  reconciliation by what it has scanned, an operation by its artifact).

`DownloadsProofs` proves, for any number of tasks, polls on their way, presses, visits and lost requests:

* `RowsAreOfFilters`: `QueueSpec => []RowsMatchFilters`. What makes it inductive is `PollsAreCurrent`: every answer the page
  still listens to is for the present filters, because a change of them empties `loads` in the same step.
* `QueueTypeCorrect`: `QueueSpec => [](QueueTypeOK /\ LineHolds)`. `LineHolds` is more than a type: through drags that cross
  deletions and tasks that start or end elsewhere, the server's order has each task that waits or is paused once and no other.
  `MoveFits` says that a move under way is between two tasks and what its answer may bring back.
* `StepsTypeCorrect`: `StepSpec => []StepInv`. `RecordFits` and `FieldsSpeak` say what status, progress and verification of a record
  still tell of its files although stops, retries and restarts rewrite some of them; on it rest
  `CompleteMeansDone` (`[]CompleteStepsAreDone`), `WorkShown` (`[]WorkIsVisible`) and `StopsKeepStep` (`StopKeepsStep`), for every size of
  a transfer where TLC has one.
* `DetailTypeCorrect`: `DetailSpec => []DetailTypeOK`. An answer to a request becomes the record, so the invariant also
  says that an answer fits its request (`AnsweredWell`), and that a popover belongs to a task that is shown (`OpenIsShown`).
* `RecordIsOfShown`: `DetailSpec => []DetailIsOfShown`, from `PollsAreOfShown` and `CallsAreOfShown`: what the component
  still listens to is about the task it shows; `Fresh` disowns the rest whenever that task changes.
* `RequestsAreSingle`: `DetailSpec => []OneRequestPerControl`. The invariant `OneWaits`: until two requests cross, at most one
  (the form of HTTP downloads aside) is out, `actionBusy` is set, and the button inside its popover is gone or busy; an
  older poll may bring the control back but never clears `actionBusy`.
* `TickedByUser`: `DetailSpec => []OptionIsDeliberate`: all ways in which the confirmation of a deletion goes away clear the tick.
* `DownloadsTypeCorrect`: `DownloadsSpec => []DownloadsTypeOK`: the specification the runs check keeps the invariants of its three
  modules (`SideBySide`: a step of it is a step or a stutter of each).

Those of `NewDownloadProofs` hold for any models, revisions, answers of the server and number of edits, from
`NewDownloadAssumption` (what an answer holds, that a path is a sequence of names, and that no file has an empty one).

* `FormTypeCorrect`: `FormSpec => []FormTypeOK`.
* `SelectionOfEstimate`: `FormSpec => []SelectionIsOfEstimate`. An answer resets the files only if it has another identity (and then, once its effect has run), so
  no answer with the identity of the estimate that is there, and other files, may come. The invariant `EstimateIsOfFields` excludes
  that: an estimate is for the fields as they are and nothing is on its way, or the default of the model has replaced the
  revision (`Replaced`), and the next answer differs in it. It rests on `FlightsMatch` and `TimersReady`: what waits or is
  under way is for the present fields, is there once, and is never both.
* `RevisionOfModel`: `FormSpec => []RevisionIsOfModel`, also from `FlightsMatch`.
* `SubmittedPreflighted`: `FormSpec => []SubmittedIsPreflighted`. The guards of `CanSubmit` are those of one moment; `EstimateTyped`
  adds that the estimate is one the server gave.
* `FilterHidesNoMatch`: `FormSpec => []FilterShowsMatches`: every folder above a match matches with it and is open.

Those of `ArtifactBrowserProofs` hold for any shelf, page size, and number of turns and failures.

* `FirstPageIsOfSearch`: `BrowserSpec => []CardsMatchSearch`, from `FlightsAreOfSearch`: a change of the filters disowns what is on its way.
* `DetailsAreOfOne`: `BrowserSpec => []DetailIsOfOneArtifact`. The answer to a saved alias is merged into whatever details are there, so
  the invariant `FilesAreOfShown` speaks of the files, the address and the request apart from the summary.
* `AliasIsForItsArtifact`: `BrowserSpec => []AliasGoesWhereTyped`, from `InputIsOfSummary`: the field is filled in anew in the step that
  changes what the summary is about.

`SessionProofs`: `UsersReturn`, `SessionSpec => ReturnsWhereHeaded`, an action property, for any number of moves, requests and
expiries. The invariant `HeadedIsKnown` says that while a user is headed somewhere the top of the history is the login page
that knows it; `AskedIsFrom` says the same of a sign-in on its way, unless he has gone elsewhere since.

Those of `PagesProofs` hold for any number of tabs, notices, options and keys, and for all texts and suggestions of `ComboAssumption`:
a list names no option twice, since its rows are keyed by their values, and none is empty.

* `ThemeTypeCorrect`, and `QuietTabsAgree`, the safe half of `ThemesSettle`: as soon as no event and no effect is under way all tabs
  show the theme that is stored. It follows from `HeardIsStored` (a tab with no event to come has what is stored) and `HeardIsApplied`.
* `ToastsHaveTheirTimers`: `ToastsSpec => []TimersAreOfToasts`. `StackInv`: ids are never given twice, a timer is set for the end of its
  toast or for the moment its effect was late, and once the effect has run the ids of the two are the same set
  (`TimersComplete`); as both are without repetition, they are as many.
* `ComboTypeCorrect`, and the action properties `TypedIsKept` (`EnterKeepsTyped`) and `KeysAddUp` (`TwoKeysMoveTwo`), from `ComboInv`: the
  registered rows are those on offer in some order, a cursor is on a row and of the query of the list, none is left
  that the user has not placed since he typed, and while keys wait for a commit the cursor is as many rows from
  the active one, round the list, as they say (`KeysAreMade`).
* `FocusIsNotLost`: `SelectSpec => [](frames = << >> => FocusAtRest)`, the safe half of `FocusSettles`. `FocusIsDue`: when a choice has
  taken the focus away the last frame asked for gives it back, whatever frames were asked for before.
* `PagesTypeCorrect`: `PagesSpec => []PagesTypeOK`, from the invariants of all seven modules. `AnswerTyped` of `ArtifactBrowserProofs` shows that
  a page the server cuts out of the shelf is made of cards for any offset; `ButtonInv` bounds the notices by the uses of the button.

*How the models are written for it.* The provers know nothing of `SelectSeq`, so `Array.filter` is `Only` of `Lists`, by the places of the
elements that stay: `ListProofs` shows once that it keeps the type, the set and the distinctness of a list. Where guards overlap, as
in `StoppedStep`, the models have chains of IF and ELSE, in the order of the code, and not CASE.

Every invariant and action property of a passing run is the subject of a theorem, with `MaxPerSource = 1`, the default of the server, where
that is said. Only model-checked: liveness, out of the prover's reach as ENABLED is (`QueuedIsServed`, `WorkEnds`, `CallsReturn`,
`QueuePageConverges`, `DetailConverges`, `ControlsComeBack`, `PagesSettle`). The runs that expect a violation have no theorem.

## Not modelled

* Aliases of tasks: a task's alias only keeps other tasks from taking it, under one lock and in one segment of the event
  loop; where uniqueness is decided, the registry, is in `Catalog`. Duplicates are what the form of `NewDownload` shows of them.
* Client synchronisation, lock file and references, distribution and upgrade: the Go client is one sequential process over
  directories of its own. Its hazards are kills between two of its file operations; they are listed, and not covered.
* Metadata caches of `app.py`: a cached answer is an answer; the pages are correct for any.
* Schema migrations and identities: tables and string operations without state between calls.
* Progress, speed and disk-space admission of the task manager; queries and paging of the index, which only read;
  verification and statistics of the catalog, likewise.
* Integration page and documents, animated widgets, terminal interface, mount, deployment: presentation, generated
  text, and calls to the operating system.
