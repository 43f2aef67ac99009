------------------------------ MODULE Catalog ------------------------------
(***************************************************************************)
(* The artifact catalog: the class Catalog of                              *)
(* packages/core/src/modelshelf_core/catalog.py and the index it keeps in  *)
(* catalog_index.py.                                                       *)
(*                                                                         *)
(* The server and every `modelshelf-server import` are processes of their  *)
(* own that share the storage directory, and _aliases_lock belongs to one  *)
(* process only.  An action is what a process does between two accesses to *)
(* the shared storage.  Inside the server one operation runs at a time:    *)
(* none of them awaits anything.                                           *)
(***************************************************************************)
EXTENDS Naturals

CONSTANTS
  Artifacts,     \* artifact identities, numbered in the order of their paths
  Imported,      \* those of filesystem imports; the others are published by the server
  Contents,      \* what an artifact may consist of: its files and its manifest
  ContentsOf,    \* what each artifact may turn out to consist of
  DigestOf,      \* content_sha256 of each content, which covers the files only
  Aliases,
  Importers,     \* import processes
  MaxOps,        \* bound on the operations the server begins
  MaxFaults      \* bound on the processes killed and the statements SQLite refuses

Server  == "server"
Absent  == "absent"
NoAlias == "no alias"

Processes == Importers \cup {Server}

ASSUME CatalogAssumption ==
  /\ Artifacts \subseteq Nat /\ Artifacts # {} /\ Contents # {}
  /\ Imported \subseteq Artifacts
  /\ ContentsOf \in [Artifacts -> SUBSET Contents]
  /\ \A a \in Imported : \A c, d \in ContentsOf[a] : DigestOf[c] = DigestOf[d]
  /\ Server \notin Importers /\ Absent \notin Contents /\ NoAlias \notin Aliases
  /\ MaxOps \in Nat /\ MaxFaults \in Nat

VARIABLES
  contents,   \* the directory of each artifact
  registry,   \* artifact-aliases.json
  index,      \* the table of catalog.sqlite3
  job,        \* what each process is doing
  dirty,      \* since the last undisturbed reconcile_index: an overlap, a crash or a failure
  ops, faults

storage == <<contents, registry, index>>
bounds  == <<ops, faults>>
vars == <<storage, job, dirty, bounds>>

Registry == [Artifacts -> Aliases \cup {NoAlias}]

\* `stamp` stands for the time and size of the manifest file a row was made for.
Row   == [manifest : Contents, stamp : Contents, alias : Aliases \cup {NoAlias}]
NoRow == [manifest |-> Absent, stamp |-> Absent, alias |-> NoAlias]
Table == [Artifacts -> Row \cup {NoRow}]

Resting == {"down", "idle", "ready", "done"}
PC == Resting \cup {"renaming", "indexing", "upserting", "refreshing", "reading", "naming",
                    "scanning", "parsing", "forgetting", "unindexing", "undoing", "restoring"}

\* The local variables of an operation.
Job ==
  [pc      : PC,
   op      : {"start", "publish", "set_alias"},
   subject : Artifacts,
   staged  : Contents,                  \* what is published, indexed or in a tombstone
   stamp   : Contents,                  \* the manifest file that was looked at last
   wanted  : Aliases \cup {NoAlias},
   names   : Registry,                  \* the registry as it was read
   rows    : Table,                     \* the index as reconcile_index read it
   found   : Table,                     \* the rows reconcile_index worked out
   todo    : SUBSET Artifacts]          \* what its walk has not come to

TypeOK ==
  /\ contents \in [Artifacts -> Contents \cup {Absent}]
  /\ registry \in Registry
  /\ index \in Table
  /\ job \in [Processes -> Job]
  /\ dirty \in BOOLEAN
  /\ ops \in Nat /\ faults \in Nat

NoNames == [a \in Artifacts |-> NoAlias]
NoRows  == [a \in Artifacts |-> NoRow]

\* No operation is running: its local variables mean nothing.
Rest(place) ==
  [pc |-> place, op |-> "start", subject |-> CHOOSE a \in Artifacts : TRUE,
   staged |-> CHOOSE c \in Contents : TRUE, stamp |-> CHOOSE c \in Contents : TRUE,
   wanted |-> NoAlias, names |-> NoNames, rows |-> NoRows, found |-> NoRows, todo |-> {}]

Init ==
  /\ contents = [a \in Artifacts |-> Absent]
  /\ registry = NoNames
  /\ index = NoRows
  /\ job = [p \in Processes |-> Rest("down")]
  /\ dirty = TRUE
  /\ ops = 0 /\ faults = 0

At(p, place) == job[p].pc = place
Busy(p) == job[p].pc \notin Resting
Disturbed(p) == \E q \in Processes \ {p} : Busy(q)
Goto(p, place) == job' = [job EXCEPT ![p].pc = place]

\* The process is through: the server waits for its next call, an import exits.
Finish(p) == job' = [job EXCEPT ![p] = Rest(IF p = Server THEN "idle" ELSE "done")]

\* A process is killed, or SQLite refuses a statement.
Fault == faults < MaxFaults /\ faults' = faults + 1
NoFault == UNCHANGED faults

\* The server takes a call.
Call ==
  /\ At(Server, "idle")
  /\ ops < MaxOps /\ ops' = ops + 1
  /\ dirty' = (dirty \/ Disturbed(Server))

-----------------------------------------------------------------------------
(* initialize and reconcile_index.                                          *)

\* manifest_metadata.  A broken database is replaced by an empty one.
ReadIndex(p) ==
  /\ \/ NoFault /\ UNCHANGED index
     \/ Fault /\ index' = NoRows
  /\ job' = [job EXCEPT ![p].rows = index', ![p].pc = "naming"]
  /\ dirty' = Disturbed(p)
  /\ UNCHANGED <<contents, registry, ops>>

\* A process starts, which reconciles the index.
Initialize(p) == At(p, "down") /\ ReadIndex(p)

\* find or list meets a broken database.
RecreateIndex ==
  /\ Call /\ Fault
  /\ index' = NoRows
  /\ job' = [job EXCEPT ![Server] = [Rest("reading") EXCEPT !.op = "publish"]]
  /\ UNCHANGED <<contents, registry>>

ReconcileReads(p) == At(p, "reading") /\ ReadIndex(p)

ReconcileNames(p) ==
  /\ At(p, "naming")
  /\ job' = [job EXCEPT ![p].names = registry, ![p].found = NoRows, ![p].todo = Artifacts,
                        ![p].pc = "scanning"]
  /\ UNCHANGED <<storage, dirty, bounds>>

\* What the row of an artifact on the shelf should be, for a reading of the registry.
RowOf(a, names) == [manifest |-> contents[a], stamp |-> contents[a], alias |-> names[a]]

\* Whether the walk has found a row to be up to date.
Fresh(j, a) ==
  /\ j.found[a] # NoRow
  /\ j.found[a].stamp = j.rows[a].stamp /\ j.found[a].alias = j.rows[a].alias

\* The walk over the shelf comes to the place of the next artifact, and looks at its manifest
\* file.  A row that is up to date spares it reading the manifest.
ReconcileScans(p, a) ==
  LET row == IF contents[a] = Absent THEN NoRow ELSE RowOf(a, job[p].names)
      looked == [job[p] EXCEPT !.found[a] = row]
  IN
  /\ At(p, "scanning")
  /\ a \in job[p].todo /\ \A b \in job[p].todo : a <= b
  /\ \/ /\ contents[a] = Absent \/ Fresh(looked, a)
        /\ job' = [job EXCEPT ![p] = [looked EXCEPT !.todo = @ \ {a}]]
     \/ /\ contents[a] # Absent /\ ~Fresh(looked, a)
        /\ job' = [job EXCEPT ![p].stamp = contents[a], ![p].pc = "parsing"]
  /\ UNCHANGED <<storage, dirty, bounds>>

\* The manifest is read from the file that is there by now; if there is none, the place is
\* passed over.
ReconcileParses(p, a) ==
  LET row == IF contents[a] = Absent THEN NoRow
             ELSE [RowOf(a, job[p].names) EXCEPT !.stamp = job[p].stamp]
  IN
  /\ At(p, "parsing")
  /\ a \in job[p].todo /\ \A b \in job[p].todo : a <= b
  /\ job' = [job EXCEPT ![p].found[a] = row, ![p].todo = @ \ {a}, ![p].pc = "scanning"]
  /\ UNCHANGED <<storage, dirty, bounds>>

\* Bug: the rows of artifacts that are gone are kept.
ReconciledKeepingAll(j) ==
  [a \in Artifacts |-> IF Fresh(j, a) \/ j.found[a] = NoRow THEN index[a] ELSE j.found[a]]

\* What one transaction makes of the table: fresh rows are left as they are, the others are
\* written or deleted.
Reconciled(j) == [a \in Artifacts |-> IF Fresh(j, a) THEN index[a] ELSE j.found[a]]

ReconcileWrites(p) ==
  /\ At(p, "scanning")
  /\ job[p].todo = {}
  /\ index' = Reconciled(job[p])
  /\ job' = [job EXCEPT ![p] = Rest(IF p = Server THEN "idle" ELSE "ready")]
  /\ UNCHANGED <<contents, registry, dirty, bounds>>

\* The transaction fails: a process that was starting ends, a call of the server reports it.
ReconcileFails(p) ==
  /\ At(p, "scanning")
  /\ job[p].todo = {}
  /\ Fault
  /\ job' = [job EXCEPT ![p] = Rest(IF p # Server THEN "done"
                                   ELSE IF job[p].op = "start" THEN "down" ELSE "idle")]
  /\ dirty' = TRUE
  /\ UNCHANGED <<storage, ops>>

-----------------------------------------------------------------------------
(* publish, and _index_artifact after it.                                   *)

\* The directory of the artifact is there: with equal files the staged tree is a duplicate,
\* which is removed, otherwise it is a collision, which is refused.
Deduplicates(p, a, c) ==
  IF DigestOf[contents[a]] = DigestOf[c]
  THEN job' = [job EXCEPT ![p] = [Rest("indexing") EXCEPT
         !.op = "publish", !.subject = a, !.staged = contents[a]]]
  ELSE Finish(p)

\* publish up to os.rename; _run, _confirm_http and import_filesystem come to it.
Begin(p, a, c) ==
  \/ /\ contents[a] = Absent
     /\ job' = [job EXCEPT ![p] = [Rest("renaming") EXCEPT
          !.op = "publish", !.subject = a, !.staged = c]]
  \/ contents[a] # Absent /\ Deduplicates(p, a, c)

Publish(a, c) ==
  /\ Call /\ NoFault
  /\ a \notin Imported /\ c \in ContentsOf[a]
  /\ Begin(Server, a, c)
  /\ UNCHANGED storage

\* import_filesystem: the identity of the artifact contains the digest of its files, so two
\* imports of it differ in the manifest only.
ImportFilesystem(p, a, c) ==
  /\ At(p, "ready")
  /\ a \in Imported /\ c \in ContentsOf[a]
  /\ Begin(p, a, c)
  /\ dirty' = (dirty \/ Disturbed(p))
  /\ UNCHANGED <<storage, bounds>>

\* Bug: a directory that has appeared in the meantime is replaced.
PublishReplaces(p) ==
  /\ At(p, "renaming")
  /\ contents' = [contents EXCEPT ![job[p].subject] = job[p].staged]
  /\ Goto(p, "indexing")
  /\ UNCHANGED <<registry, index, dirty, bounds>>

\* os.rename fails on a directory that has appeared in the meantime; then as above.
PublishRenames(p) ==
  LET a == job[p].subject IN
  /\ At(p, "renaming")
  /\ \/ /\ contents[a] = Absent
        /\ contents' = [contents EXCEPT ![a] = job[p].staged]
        /\ Goto(p, "indexing")
     \/ /\ contents[a] # Absent
        /\ Deduplicates(p, a, job[p].staged)
        /\ UNCHANGED contents
  /\ UNCHANGED <<registry, index, dirty, bounds>>

\* What follows _index_artifact.
Indexed(p) == IF job[p].op = "set_alias" THEN Goto(p, "refreshing") ELSE Finish(p)

\* _index_artifact looks at the manifest file and reads the aliases; without a manifest it
\* logs and returns.
IndexReads(p) ==
  LET a == job[p].subject IN
  /\ At(p, "indexing")
  /\ \/ /\ contents[a] # Absent
        /\ job' = [job EXCEPT ![p].stamp = contents[a], ![p].names = registry,
                              ![p].pc = "upserting"]
     \/ contents[a] = Absent /\ Indexed(p)
  /\ UNCHANGED <<storage, dirty, bounds>>

\* A failure to write the row is logged.
IndexWrites(p) ==
  LET j == job[p] IN
  /\ At(p, "upserting")
  /\ \/ /\ index' = [index EXCEPT ![j.subject] =
             [manifest |-> j.staged, stamp |-> j.stamp, alias |-> j.names[j.subject]]]
        /\ NoFault /\ UNCHANGED dirty
     \/ Fault /\ dirty' = TRUE /\ UNCHANGED index
  /\ Indexed(p)
  /\ UNCHANGED <<contents, registry, ops>>

-----------------------------------------------------------------------------
(* set_alias and delete, which only the server calls.                       *)

\* find: the row, and the manifest it leads to.
Findable(a) == index[a] # NoRow /\ contents[a] # Absent

\* Bug: the registry is not looked at.
FreeForAny(a) == Aliases \cup {NoAlias}
FreeFor(a) == {x \in Aliases : \A b \in Artifacts \ {a} : registry[b] # x} \cup {NoAlias}

SetAlias(a, x) ==
  /\ Call /\ NoFault
  /\ Findable(a)
  /\ x \in FreeFor(a)
  /\ registry' = [registry EXCEPT ![a] = x]
  /\ job' = [job EXCEPT ![Server] = [Rest("indexing") EXCEPT
               !.op = "set_alias", !.subject = a, !.staged = contents[a], !.wanted = x]]
  /\ UNCHANGED <<contents, index>>

\* The index is read back, and reconciled if it does not have the alias.
SetAliasRefreshes ==
  LET j == job[Server]
      row == index[j.subject]
  IN
  /\ At(Server, "refreshing")
  /\ IF row # NoRow /\ row.alias = j.wanted THEN Finish(Server) ELSE Goto(Server, "reading")
  /\ UNCHANGED <<storage, dirty, bounds>>

\* The artifact is hidden first: it is moved to a tombstone.
Delete(a) ==
  /\ Call /\ NoFault
  /\ Findable(a)
  /\ contents' = [contents EXCEPT ![a] = Absent]
  /\ job' = [job EXCEPT ![Server] =
               [Rest("forgetting") EXCEPT !.subject = a, !.staged = contents[a]]]
  /\ UNCHANGED <<registry, index>>

DeleteForgets ==
  /\ At(Server, "forgetting")
  /\ registry' = [registry EXCEPT ![job[Server].subject] = NoAlias]
  /\ job' = [job EXCEPT ![Server].names = registry, ![Server].pc = "unindexing"]
  /\ UNCHANGED <<contents, index, dirty, bounds>>

DeleteUnindexes ==
  /\ At(Server, "unindexing")
  /\ \/ /\ index' = [index EXCEPT ![job[Server].subject] = NoRow]
        /\ NoFault /\ Finish(Server)
     \/ Fault /\ Goto(Server, "undoing") /\ UNCHANGED index
  /\ UNCHANGED <<contents, registry, dirty, ops>>

\* The row could not be deleted: the registry is put back, then the artifact.
DeleteRecalls ==
  /\ At(Server, "undoing")
  /\ registry' = job[Server].names
  /\ Goto(Server, "restoring")
  /\ UNCHANGED <<contents, index, dirty, bounds>>

DeleteRestores ==
  LET j == job[Server] IN
  /\ At(Server, "restoring")
  /\ contents' = IF contents[j.subject] = Absent
                 THEN [contents EXCEPT ![j.subject] = j.staged] ELSE contents
  /\ Finish(Server)
  /\ UNCHANGED <<registry, index, dirty, bounds>>

-----------------------------------------------------------------------------

\* A process is killed.  The server is started again, an import is not.
Crash(p) ==
  /\ job[p].pc \notin {"down", "done"}
  /\ Fault
  /\ job' = [job EXCEPT ![p] = Rest(IF p = Server THEN "down" ELSE "done")]
  /\ dirty' = TRUE
  /\ UNCHANGED <<storage, ops>>

ReconcileStep(p) ==
  \/ ReconcileReads(p) \/ ReconcileNames(p) \/ ReconcileWrites(p) \/ ReconcileFails(p)
  \/ \E a \in Artifacts : ReconcileScans(p, a) \/ ReconcileParses(p, a)

PublishStep(p) == PublishRenames(p) \/ IndexReads(p) \/ IndexWrites(p)

DeleteStep == DeleteForgets \/ DeleteUnindexes \/ DeleteRecalls \/ DeleteRestores

Next ==
  \/ \E p \in Processes : Initialize(p) \/ ReconcileStep(p) \/ PublishStep(p) \/ Crash(p)
  \/ \E a \in Artifacts, c \in Contents : Publish(a, c)
  \/ \E p \in Importers, a \in Imported, c \in Contents : ImportFilesystem(p, a, c)
  \/ \E a \in Artifacts, x \in Aliases \cup {NoAlias} : SetAlias(a, x)
  \/ SetAliasRefreshes
  \/ \E a \in Artifacts : Delete(a)
  \/ DeleteStep
  \/ RecreateIndex

Spec == Init /\ [][Next]_vars

-----------------------------------------------------------------------------
(* Properties.                                                              *)

Unique(f) == \A a, b \in Artifacts : a # b /\ f[a] = f[b] => f[a] = NoAlias

\* "Aliases are unique references": also while a deletion is being undone, and whatever a
\* deletion that was cut short has left in the registry.
AliasesAreUnique == Unique(registry)

Projection ==
  [a \in Artifacts |-> IF contents[a] = Absent THEN NoRow ELSE RowOf(a, registry)]

Settled == At(Server, "idle") /\ \A p \in Processes : ~Busy(p)

\* The row of an artifact is there if the artifact is, made for its manifest and its alias.
Agrees(a) ==
  IF contents[a] = Absent THEN index[a] = NoRow
  ELSE index[a] # NoRow /\ index[a].stamp = contents[a] /\ index[a].alias = registry[a]

\* Between operations the index has a row for each artifact on the shelf, with its alias, and
\* no other, and a start of the server makes it so again after a crash, a failure or an
\* overlap of two processes.
IndexIsHealed == Settled /\ ~dirty => \A a \in Artifacts : Agrees(a)

\* The index is a "disposable projection of manifests" (docs/schema-migrations.md).  It is not
\* always: a reconciliation deletes the row of an artifact published behind its walk.
IndexIsProjection == Settled => index = Projection

\* The catalog is the shelf it promises to be.  The alias of an artifact that is not there is
\* hidden, so the writes of a deletion are one step of the shelf, also when it is cut short
\* or undone.
Promised == INSTANCE Shelf WITH
  names <- [a \in Artifacts |-> IF contents[a] = Absent THEN NoAlias ELSE registry[a]]
ImplementsShelf == Promised!Spec
=============================================================================
