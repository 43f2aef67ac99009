--------------------------- MODULE CatalogProofs ---------------------------
(***************************************************************************)
(* Proofs about the catalog, for every set of artifacts, contents, aliases *)
(* and import processes, and any number of operations and faults.          *)
(***************************************************************************)
EXTENDS Catalog, TLAPS

-----------------------------------------------------------------------------
(* Type correctness.                                                        *)

\* A process at rest has typed local variables.
LEMMA RestType == ASSUME NEW place \in PC PROVE Rest(place) \in Job
<1>1. /\ (CHOOSE a \in Artifacts : TRUE) \in Artifacts
      /\ (CHOOSE c \in Contents : TRUE) \in Contents
  BY CatalogAssumption
<1>2. NoNames \in Registry /\ NoRows \in Table
  BY DEF NoNames, NoRows, Registry, Table
<1> QED
  BY <1>1, <1>2 DEF Rest, Job

\* The initial state is type correct.
LEMMA InitType == Init => TypeOK
<1>1. NoNames \in Registry /\ NoRows \in Table /\ Rest("down") \in Job
  BY RestType DEF NoNames, NoRows, Registry, Table, PC, Resting
<1> QED
  BY <1>1 DEF Init, TypeOK

\* Replacing the local variables of one process keeps them typed.
LEMMA JobUpdate ==
  ASSUME job \in [Processes -> Job], NEW p \in Processes, NEW j \in Job,
         job' = [job EXCEPT ![p] = j]
  PROVE  job' \in [Processes -> Job]
OBVIOUS

\* Nor are those of a process that begins an operation.
LEMMA StartType ==
  ASSUME NEW place \in PC, NEW op \in {"start", "publish", "set_alias"}, NEW a \in Artifacts,
         NEW c \in Contents, NEW x \in Aliases \cup {NoAlias}
  PROVE  /\ [Rest(place) EXCEPT !.subject = a, !.staged = c] \in Job
         /\ [Rest(place) EXCEPT !.op = op, !.subject = a, !.staged = c] \in Job
         /\ [Rest(place) EXCEPT !.op = op, !.subject = a, !.staged = c, !.wanted = x] \in Job
<1> Rest(place) \in Job
  BY RestType
<1> QED
  BY DEF Job

\* What a change of a few local variables must preserve.
LEMMA FieldTypes ==
  ASSUME NEW j \in Job, NEW place \in PC
  PROVE  /\ [j EXCEPT !.pc = place] \in Job
         /\ \A rows \in Table : [j EXCEPT !.rows = rows, !.pc = place] \in Job
         /\ \A names \in Registry : [j EXCEPT !.names = names, !.pc = place] \in Job
         /\ \A names \in Registry, found \in Table, todo \in SUBSET Artifacts :
              [j EXCEPT !.names = names, !.found = found, !.todo = todo, !.pc = place] \in Job
         /\ \A names \in Registry, stamp \in Contents :
              [j EXCEPT !.stamp = stamp, !.names = names, !.pc = place] \in Job
         /\ \A found \in Table, todo \in SUBSET Artifacts :
              [j EXCEPT !.todo = todo, !.found = found] \in Job
<1> USE DEF Job
<1>1. [j EXCEPT !.pc = place] \in Job
  OBVIOUS
<1>2. ASSUME NEW rows \in Table PROVE [j EXCEPT !.rows = rows, !.pc = place] \in Job
  OBVIOUS
<1>3. ASSUME NEW names \in Registry PROVE [j EXCEPT !.names = names, !.pc = place] \in Job
  OBVIOUS
<1>4. ASSUME NEW names \in Registry, NEW found \in Table, NEW todo \in SUBSET Artifacts
      PROVE  [j EXCEPT !.names = names, !.found = found, !.todo = todo, !.pc = place] \in Job
  OBVIOUS
<1>5. ASSUME NEW names \in Registry, NEW stamp \in Contents
      PROVE  [j EXCEPT !.stamp = stamp, !.names = names, !.pc = place] \in Job
  OBVIOUS
<1>6. ASSUME NEW found \in Table, NEW todo \in SUBSET Artifacts
      PROVE  [j EXCEPT !.todo = todo, !.found = found] \in Job
  OBVIOUS
<1> QED
  BY <1>1, <1>2, <1>3, <1>4, <1>5, <1>6

\* Moving one process on keeps the local variables typed.
LEMMA GotoType ==
  ASSUME job \in [Processes -> Job], NEW p \in Processes, NEW place \in PC, Goto(p, place)
  PROVE  job' \in [Processes -> Job]
BY DEF Goto, Job

\* So does the end of an operation.
LEMMA FinishType ==
  ASSUME job \in [Processes -> Job], NEW p \in Processes, Finish(p)
  PROVE  job' \in [Processes -> Job]
<1>1. (IF p = Server THEN "idle" ELSE "done") \in PC
  BY DEF PC, Resting
<1> QED
  BY <1>1, RestType, JobUpdate DEF Finish

\* A step of the walk is through with an artifact, for which it has worked out a row, or has
\* looked at its manifest file and is about to read it.
Walked(p, a, row) ==
  [job[p] EXCEPT !.pc = "scanning", !.todo = job[p].todo \ {a},
                 !.found = [job[p].found EXCEPT ![a] = row]]
Halted(p, a) == [job[p] EXCEPT !.stamp = contents[a], !.pc = "parsing"]

LEMMA WalkSteps ==
  ASSUME TypeOK, NEW p \in Processes, NEW a \in Artifacts,
         ReconcileScans(p, a) \/ ReconcileParses(p, a)
  PROVE  /\ UNCHANGED <<contents, registry, index, dirty>>
         /\ \/ /\ contents[a] # Absent /\ Halted(p, a) \in Job
               /\ job' = [job EXCEPT ![p] = Halted(p, a)]
            \/ \E row \in Row \cup {NoRow} :
                 /\ Walked(p, a, row) \in Job /\ job' = [job EXCEPT ![p] = Walked(p, a, row)]
                 /\ row = IF contents[a] = Absent THEN NoRow
                          ELSE IF job[p].pc = "scanning" THEN RowOf(a, job[p].names)
                          ELSE [RowOf(a, job[p].names) EXCEPT !.stamp = job[p].stamp]
<1> USE DEF TypeOK, storage
<1>1. job[p] \in Job /\ contents[a] \in Contents \cup {Absent}
  OBVIOUS
<1>2. ASSUME NEW row \in Row \cup {NoRow} PROVE Walked(p, a, row) \in Job
  BY <1>1 DEF Walked, Job, PC, Table
<1>3. CASE ReconcileScans(p, a)
  <2> DEFINE row == IF contents[a] = Absent THEN NoRow ELSE RowOf(a, job[p].names)
             looked == [job[p] EXCEPT !.found[a] = row]
  <2>1. row \in Row \cup {NoRow}
    BY <1>1 DEF RowOf, Row, Job, Registry
  <2>2. CASE /\ contents[a] = Absent \/ Fresh(looked, a)
             /\ job' = [job EXCEPT ![p] = [looked EXCEPT !.todo = @ \ {a}]]
    <3>1. job[p].pc = "scanning"
      BY <1>3 DEF ReconcileScans, At
    <3>2. [looked EXCEPT !.todo = @ \ {a}] = Walked(p, a, row)
      BY <1>1, <3>1 DEF Walked, Job
    <3> QED
      BY <1>2, <1>3, <2>1, <2>2, <3>1, <3>2 DEF ReconcileScans
  <2>3. CASE /\ contents[a] # Absent
             /\ job' = [job EXCEPT ![p].stamp = contents[a], ![p].pc = "parsing"]
    <3>1. Halted(p, a) \in Job
      BY <1>1, <2>3 DEF Halted, Job, PC
    <3>2. job' = [job EXCEPT ![p] = Halted(p, a)]
      BY <2>3 DEF Halted
    <3> QED
      BY <1>3, <2>3, <3>1, <3>2 DEF ReconcileScans
  <2> QED
    BY <1>3, <2>2, <2>3 DEF ReconcileScans
<1>4. CASE ReconcileParses(p, a)
  <2> DEFINE row == IF contents[a] = Absent THEN NoRow
                    ELSE [RowOf(a, job[p].names) EXCEPT !.stamp = job[p].stamp]
  <2>1. row \in Row \cup {NoRow}
    BY <1>1 DEF RowOf, Row, Job, Registry
  <2>2. job' = [job EXCEPT ![p] = Walked(p, a, row)] /\ job[p].pc = "parsing"
    BY <1>4 DEF ReconcileParses, Walked, At
  <2> QED
    BY <1>2, <1>4, <2>1, <2>2 DEF ReconcileParses
<1> QED
  BY <1>3, <1>4

\* initialize and reconcile_index keep the types.
LEMMA ReconcileType ==
  ASSUME TypeOK, NEW p \in Processes,
         RecreateIndex \/ Initialize(p) \/ ReconcileStep(p)
  PROVE  TypeOK'
<1> USE DEF TypeOK, storage, bounds, Fault, NoFault
<1>1. NoRow \in Row \cup {NoRow} /\ NoRows \in Table /\ Server \in Processes
  BY DEF NoRows, Table, Processes
<1>2. CASE RecreateIndex
  <2>1. [Rest("reading") EXCEPT !.op = "publish"] \in Job
    BY RestType DEF Job, PC
  <2> QED
    BY <1>1, <1>2, <2>1, JobUpdate DEF RecreateIndex, Call, Disturbed
<1>3. ASSUME ReadIndex(p) PROVE TypeOK'
  <2>1. index' \in Table
    BY <1>1, <1>3 DEF ReadIndex
  <2>2. job' \in [Processes -> Job]
    <3>1. job' = [job EXCEPT ![p] = [job[p] EXCEPT !.rows = index', !.pc = "naming"]]
      BY <1>3 DEF ReadIndex
    <3> QED
      BY <2>1, <3>1, FieldTypes, JobUpdate DEF PC
  <2> QED
    BY <1>3, <2>1, <2>2 DEF ReadIndex, Disturbed
<1>4. CASE ReconcileNames(p)
  <2>1. job' \in [Processes -> Job]
    <3>1. job' = [job EXCEPT ![p] = [job[p] EXCEPT
                    !.names = registry, !.found = NoRows, !.todo = Artifacts, !.pc = "scanning"]]
      BY <1>4 DEF ReconcileNames
    <3> QED
      BY <1>1, <3>1, FieldTypes, JobUpdate DEF PC
  <2> QED
    BY <1>4, <2>1 DEF ReconcileNames
<1>5. ASSUME NEW a \in Artifacts, ReconcileScans(p, a) \/ ReconcileParses(p, a) PROVE TypeOK'
  <2>1. job' \in [Processes -> Job]
    <3>1. PICK j \in Job : job' = [job EXCEPT ![p] = j]
      BY <1>5, WalkSteps DEF Walked, Halted
    <3> QED
      BY <3>1, JobUpdate
  <2> QED
    BY <1>5, <2>1 DEF ReconcileScans, ReconcileParses
<1>6. CASE ReconcileWrites(p)
  <2>1. Reconciled(job[p]) \in Table
    BY DEF Reconciled, Table, Job
  <2>2. job' \in [Processes -> Job]
    BY <1>6, RestType, JobUpdate DEF ReconcileWrites, PC, Resting
  <2> QED
    BY <1>6, <2>1, <2>2 DEF ReconcileWrites
<1>7. CASE ReconcileFails(p)
  <2>1. job' \in [Processes -> Job]
    BY <1>7, RestType, JobUpdate DEF ReconcileFails, PC, Resting
  <2> QED
    BY <1>7, <2>1 DEF ReconcileFails
<1> QED
  BY <1>2, <1>3, <1>4, <1>5, <1>6, <1>7 DEF Initialize, ReconcileReads, ReconcileStep

\* A duplicate that is met leads to typed local variables.
LEMMA DeduplicatesType ==
  ASSUME TypeOK, NEW p \in Processes, NEW a \in Artifacts, NEW c \in Contents,
         contents[a] # Absent, Deduplicates(p, a, c)
  PROVE  job' \in [Processes -> Job]
<1> USE DEF TypeOK
<1>1. [Rest("indexing") EXCEPT !.op = "publish", !.subject = a, !.staged = contents[a]] \in Job
  BY StartType DEF PC
<1> QED
  BY <1>1, JobUpdate, FinishType DEF Deduplicates

\* publish and _index_artifact keep the types of the local variables.
LEMMA BeginType ==
  ASSUME TypeOK, NEW p \in Processes, NEW a \in Artifacts, NEW c \in Contents, Begin(p, a, c)
  PROVE  job' \in [Processes -> Job]
<1> USE DEF TypeOK
<1>1. CASE contents[a] = Absent
  BY <1>1, StartType, JobUpdate DEF Begin, PC
<1>2. CASE contents[a] # Absent
  BY <1>2, DeduplicatesType DEF Begin
<1> QED
  BY <1>1, <1>2

\* So do the steps that publish and index an artifact.
LEMMA PublishType ==
  ASSUME TypeOK, NEW p \in Processes,
         \/ PublishStep(p)
         \/ \E a \in Artifacts, c \in Contents : Publish(a, c)
         \/ \E a \in Imported, c \in Contents : ImportFilesystem(p, a, c)
  PROVE  TypeOK'
<1> USE DEF TypeOK, storage, bounds, Fault, NoFault
<1>1. Server \in Processes /\ Imported \subseteq Artifacts
  BY CatalogAssumption DEF Processes
<1>2. ASSUME NEW a \in Artifacts, NEW c \in Contents, Publish(a, c) PROVE TypeOK'
  <2>1. job' \in [Processes -> Job]
    BY <1>1, <1>2, BeginType DEF Publish
  <2> QED
    BY <1>2, <2>1 DEF Publish, Call, Disturbed
<1>3. ASSUME NEW a \in Imported, NEW c \in Contents, ImportFilesystem(p, a, c) PROVE TypeOK'
  <2>1. job' \in [Processes -> Job]
    BY <1>1, <1>3, BeginType DEF ImportFilesystem
  <2> QED
    BY <1>3, <2>1 DEF ImportFilesystem, Disturbed
<1>4. CASE PublishRenames(p)
  <2> DEFINE a == job[p].subject
  <2>1. a \in Artifacts /\ job[p].staged \in Contents
    BY DEF Job
  <2>2. contents' \in [Artifacts -> Contents \cup {Absent}]
    BY <1>4, <2>1 DEF PublishRenames
  <2>3. job' \in [Processes -> Job]
    <3>1. CASE contents[a] = Absent
      <4>1. Goto(p, "indexing")
        BY <1>4, <3>1 DEF PublishRenames
      <4> QED
        BY <4>1, GotoType DEF PC
    <3>2. CASE contents[a] # Absent
      BY <1>4, <2>1, <3>2, DeduplicatesType DEF PublishRenames
    <3> QED
      BY <3>1, <3>2
  <2> QED
    BY <1>4, <2>2, <2>3 DEF PublishRenames
<1>5. ASSUME Indexed(p) PROVE job' \in [Processes -> Job]
  BY <1>5, GotoType, FinishType DEF Indexed, PC
<1>6. CASE IndexReads(p)
  <2> DEFINE a == job[p].subject
  <2>1. job' \in [Processes -> Job]
    <3>1. CASE contents[a] # Absent
      <4>1. job' = [job EXCEPT ![p] = [job[p] EXCEPT
                      !.stamp = contents[a], !.names = registry, !.pc = "upserting"]]
        BY <1>6, <3>1 DEF IndexReads
      <4>2. contents[a] \in Contents
        BY <3>1 DEF Job
      <4> QED
        BY <4>1, <4>2, FieldTypes, JobUpdate DEF PC
    <3>2. CASE contents[a] = Absent
      BY <1>5, <1>6, <3>2 DEF IndexReads
    <3> QED
      BY <3>1, <3>2
  <2> QED
    BY <1>6, <2>1 DEF IndexReads
<1>7. CASE IndexWrites(p)
  <2> DEFINE j == job[p]
             row == [manifest |-> j.staged, stamp |-> j.stamp, alias |-> j.names[j.subject]]
  <2>1. row \in Row /\ j.subject \in Artifacts
    BY DEF Row, Job, Registry
  <2>2. [index EXCEPT ![j.subject] = row] \in Table
    BY <2>1 DEF Table
  <2>3. index' \in Table /\ ops' \in Nat /\ faults' \in Nat /\ dirty' \in BOOLEAN
    <3>1. /\ index' = [index EXCEPT ![j.subject] = row] \/ UNCHANGED index
          /\ UNCHANGED dirty \/ dirty' = TRUE
          /\ UNCHANGED faults \/ faults' = faults + 1
          /\ UNCHANGED ops
      BY <1>7 DEF IndexWrites
    <3>2. index' \in Table
      BY <2>2, <3>1
    <3>3. ops' \in Nat /\ faults' \in Nat
      BY <3>1
    <3>4. dirty' \in BOOLEAN
      BY <3>1
    <3> QED
      BY <3>2, <3>3, <3>4
  <2>4. job' \in [Processes -> Job]
    BY <1>5, <1>7 DEF IndexWrites
  <2> QED
    BY <1>7, <2>3, <2>4 DEF IndexWrites
<1> QED
  BY <1>2, <1>3, <1>4, <1>6, <1>7 DEF PublishStep

\* A call counts itself and notes an overlap.
LEMMA CallType ==
  ASSUME TypeOK, Call, NoFault PROVE ops' \in Nat /\ faults' \in Nat /\ dirty' \in BOOLEAN
<1>1. ops' \in Nat /\ faults' \in Nat
  BY DEF TypeOK, Call, NoFault
<1>2. dirty' \in BOOLEAN
  BY DEF TypeOK, Call
<1> QED
  BY <1>1, <1>2

\* And those of set_alias and delete, and a crash.
LEMMA ServerType ==
  ASSUME TypeOK,
         \/ \E a \in Artifacts, x \in Aliases \cup {NoAlias} : SetAlias(a, x)
         \/ SetAliasRefreshes
         \/ \E a \in Artifacts : Delete(a)
         \/ DeleteStep
         \/ \E p \in Processes : Crash(p)
  PROVE  TypeOK'
<1> USE DEF TypeOK, storage, bounds, Fault, NoFault
<1>1. /\ Server \in Processes
      /\ job[Server].subject \in Artifacts /\ job[Server].staged \in Contents
      /\ job[Server].names \in Registry
  BY DEF Processes, Job
<1>2. ASSUME NEW a \in Artifacts, NEW x \in Aliases \cup {NoAlias}, SetAlias(a, x)
      PROVE  TypeOK'
  <2>1. job' \in [Processes -> Job]
    <3>1. /\ job' = [job EXCEPT ![Server] = [Rest("indexing") EXCEPT
                      !.op = "set_alias", !.subject = a, !.staged = contents[a], !.wanted = x]]
          /\ contents[a] \in Contents
      BY <1>2 DEF SetAlias, Findable
    <3>2. [Rest("indexing") EXCEPT !.op = "set_alias", !.subject = a, !.staged = contents[a],
                                   !.wanted = x] \in Job
      BY <3>1, StartType DEF PC
    <3> QED
      BY <1>1, <3>1, <3>2, JobUpdate
  <2>2. registry' \in Registry
    BY <1>2 DEF SetAlias, Registry
  <2> QED
    BY <1>2, <2>1, <2>2, CallType DEF SetAlias
<1>3. CASE SetAliasRefreshes
  <2>1. job' \in [Processes -> Job]
    BY <1>1, <1>3, GotoType, FinishType DEF SetAliasRefreshes, PC
  <2> QED
    BY <1>3, <2>1 DEF SetAliasRefreshes
<1>4. ASSUME NEW a \in Artifacts, Delete(a) PROVE TypeOK'
  <2>1. job' \in [Processes -> Job]
    <3>1. /\ job' = [job EXCEPT ![Server] =
                      [Rest("forgetting") EXCEPT !.subject = a, !.staged = contents[a]]]
          /\ contents[a] \in Contents
      BY <1>4 DEF Delete, Findable
    <3>2. [Rest("forgetting") EXCEPT !.subject = a, !.staged = contents[a]] \in Job
      <4>1. NoAlias \in Aliases \cup {NoAlias} /\ "start" \in {"start", "publish", "set_alias"}
        OBVIOUS
      <4> QED
        BY <3>1, <4>1, StartType DEF PC
    <3> QED
      BY <1>1, <3>1, <3>2, JobUpdate
  <2> QED
    <3>1. contents' = [contents EXCEPT ![a] = Absent] /\ UNCHANGED <<registry, index>>
      BY <1>4 DEF Delete
    <3>2. contents' \in [Artifacts -> Contents \cup {Absent}]
      BY <3>1
    <3>3. ops' \in Nat /\ faults' \in Nat /\ dirty' \in BOOLEAN
      BY <1>4, CallType DEF Delete
    <3> QED
      BY <2>1, <3>1, <3>2, <3>3
<1>5. CASE DeleteForgets
  <2>1. job' = [job EXCEPT ![Server] = [job[Server] EXCEPT
                  !.names = registry, !.pc = "unindexing"]]
    BY <1>5 DEF DeleteForgets
  <2>2. job' \in [Processes -> Job]
    BY <1>1, <2>1, FieldTypes, JobUpdate DEF PC
  <2>3. registry' \in Registry
    BY <1>1, <1>5 DEF DeleteForgets, Registry
  <2> QED
    BY <1>5, <2>2, <2>3 DEF DeleteForgets
<1>6. CASE DeleteUnindexes
  <2>1. index' \in Table
    BY <1>1, <1>6 DEF DeleteUnindexes, Table
  <2>2. job' \in [Processes -> Job]
    BY <1>1, <1>6, GotoType, FinishType DEF DeleteUnindexes, PC
  <2> QED
    BY <1>6, <2>1, <2>2 DEF DeleteUnindexes
<1>7. CASE DeleteRecalls
  <2>1. job' \in [Processes -> Job]
    BY <1>1, <1>7, GotoType DEF DeleteRecalls, PC
  <2> QED
    BY <1>1, <1>7, <2>1 DEF DeleteRecalls
<1>8. CASE DeleteRestores
  <2>1. job' \in [Processes -> Job]
    BY <1>1, <1>8, FinishType DEF DeleteRestores
  <2> QED
    BY <1>1, <1>8, <2>1 DEF DeleteRestores
<1>9. ASSUME NEW p \in Processes, Crash(p) PROVE TypeOK'
  <2>1. job' \in [Processes -> Job]
    BY <1>9, RestType, JobUpdate DEF Crash, PC, Resting
  <2> QED
    BY <1>9, <2>1 DEF Crash
<1> QED
  BY <1>2, <1>3, <1>4, <1>5, <1>6, <1>7, <1>8, <1>9 DEF DeleteStep

\* Every variable of the catalog keeps its type.
THEOREM TypeCorrect == Spec => []TypeOK
<1>1. Init => TypeOK
  BY InitType
<1>2. TypeOK /\ [Next]_vars => TypeOK'
  <2> SUFFICES ASSUME TypeOK, [Next]_vars PROVE TypeOK'
    OBVIOUS
  <2>1. CASE UNCHANGED vars
    BY <2>1 DEF TypeOK, vars, storage, bounds
  <2>2. CASE Next
    <3> Server \in Processes /\ Importers \subseteq Processes
      BY DEF Processes
    <3> QED
      BY <2>2, ReconcileType, PublishType, ServerType DEF Next
  <2> QED
    BY <2>1, <2>2
<1> QED
  BY <1>1, <1>2, PTL DEF Spec

-----------------------------------------------------------------------------
(* Aliases are unique.  The registry a deletion has read must be unique     *)
(* too, since it may be put back, and must not be older than what is there. *)

Undoable == {"unindexing", "undoing"}

\* What a deletion may put back is the registry but for the alias it has taken away.
Recallable ==
  job[Server].pc \in Undoable =>
    /\ Unique(job[Server].names)
    /\ registry = [job[Server].names EXCEPT ![job[Server].subject] = NoAlias]

CatalogInv == TypeOK /\ AliasesAreUnique /\ Recallable

\* A step that does not concern the registry.
Aside ==
  /\ UNCHANGED registry
  /\ job'[Server] = job[Server] \/ job'[Server].pc \notin Undoable

\* Such a step preserves the invariant.
LEMMA AsideKeeps == CatalogInv /\ TypeOK' /\ Aside => CatalogInv'
BY DEF CatalogInv, Aside, AliasesAreUnique, Unique, Recallable

\* Only steps of the server that lead into an undoable deletion concern it.
LEMMA ElsewhereIsAside ==
  ASSUME job \in [Processes -> Job], NEW p \in Processes, NEW j, j.pc \notin Undoable,
         job' = [job EXCEPT ![p] = j], UNCHANGED registry
  PROVE  Aside
BY DEF Aside, Processes

\* Where a process stands that begins or ends an operation.
LEMMA RestPlace == ASSUME NEW place PROVE Rest(place).pc = place
BY DEF Rest

\* A process that begins an operation is aside.
LEMMA StartIsAside ==
  ASSUME job \in [Processes -> Job], NEW p \in Processes, NEW place, place \notin Undoable,
         NEW op, NEW a, NEW c, NEW x, UNCHANGED registry,
         \/ job' = [job EXCEPT ![p] = [Rest(place) EXCEPT !.op = op]]
         \/ job' = [job EXCEPT ![p] = [Rest(place) EXCEPT !.subject = a, !.staged = c]]
         \/ job' = [job EXCEPT ![p] = [Rest(place) EXCEPT !.op = op, !.subject = a, !.staged = c]]
  PROVE  Aside
<1> DEFINE called == [Rest(place) EXCEPT !.op = op]
           held   == [Rest(place) EXCEPT !.subject = a, !.staged = c]
           both   == [Rest(place) EXCEPT !.op = op, !.subject = a, !.staged = c]
<1>1. called.pc = place /\ held.pc = place /\ both.pc = place
  BY DEF Rest
<1>2. \/ job' = [job EXCEPT ![p] = called]
      \/ job' = [job EXCEPT ![p] = held]
      \/ job' = [job EXCEPT ![p] = both]
  OBVIOUS
<1> HIDE DEF called, held, both
<1> QED
  BY <1>1, <1>2, ElsewhereIsAside

\* A process that goes on somewhere else, or finishes, is aside.
LEMMA GotoIsAside ==
  ASSUME job \in [Processes -> Job], NEW p \in Processes, NEW place \in PC \ Undoable,
         Goto(p, place) \/ Finish(p), UNCHANGED registry
  PROVE  Aside
<1>1. CASE Goto(p, place)
  <2>1. [job[p] EXCEPT !.pc = place].pc = place
    BY DEF Job
  <2>2. job' = [job EXCEPT ![p] = [job[p] EXCEPT !.pc = place]]
    BY <1>1 DEF Goto
  <2> QED
    BY <2>1, <2>2, ElsewhereIsAside
<1>2. CASE Finish(p)
  <2> DEFINE end == IF p = Server THEN "idle" ELSE "done"
  <2>1. Rest(end).pc \notin Undoable
    BY RestPlace DEF Undoable
  <2> QED
    BY <1>2, <2>1, ElsewhereIsAside DEF Finish
<1> QED
  BY <1>1, <1>2

\* initialize and reconcile_index only read the registry.
LEMMA ReconcileIsAside ==
  ASSUME TypeOK, NEW p \in Processes, RecreateIndex \/ Initialize(p) \/ ReconcileStep(p)
  PROVE  Aside
<1> USE DEF TypeOK, storage, Undoable
<1>1. Server \in Processes /\ job[p] \in Job
  BY DEF Processes
<1>2. CASE RecreateIndex
  <2>1. job' = [job EXCEPT ![Server] = [Rest("reading") EXCEPT !.op = "publish"]]
    BY <1>2 DEF RecreateIndex
  <2> QED
    BY <1>1, <1>2, <2>1, StartIsAside DEF RecreateIndex
<1>3. ASSUME ReadIndex(p) PROVE Aside
  <2>1. job' = [job EXCEPT ![p] = [job[p] EXCEPT !.rows = index', !.pc = "naming"]]
    BY <1>3 DEF ReadIndex
  <2>2. [job[p] EXCEPT !.rows = index', !.pc = "naming"].pc = "naming"
    BY <1>1 DEF Job
  <2> QED
    BY <1>3, <2>1, <2>2, ElsewhereIsAside DEF ReadIndex
<1>4. CASE ReconcileNames(p)
  <2> DEFINE j == [job[p] EXCEPT
                     !.names = registry, !.found = NoRows, !.todo = Artifacts, !.pc = "scanning"]
  <2>1. job' = [job EXCEPT ![p] = j]
    BY <1>4 DEF ReconcileNames
  <2>2. j.pc = "scanning"
    BY <1>1 DEF Job
  <2> QED
    BY <1>4, <2>1, <2>2, ElsewhereIsAside DEF ReconcileNames
<1>5. ASSUME NEW a \in Artifacts, ReconcileScans(p, a) \/ ReconcileParses(p, a) PROVE Aside
  <2>1. UNCHANGED registry
    BY <1>5, WalkSteps
  <2>2. /\ Halted(p, a).pc = "parsing"
        /\ \A row : Walked(p, a, row).pc = "scanning"
    BY <1>1 DEF Walked, Halted, Job
  <2>3. CASE job' = [job EXCEPT ![p] = Halted(p, a)]
    BY <2>1, <2>2, <2>3, ElsewhereIsAside
  <2>4. CASE \E row : job' = [job EXCEPT ![p] = Walked(p, a, row)]
    BY <2>1, <2>2, <2>4, ElsewhereIsAside
  <2> QED
    BY <1>5, <2>3, <2>4, WalkSteps
<1>6. CASE ReconcileWrites(p)
  BY <1>6, RestPlace, ElsewhereIsAside DEF ReconcileWrites
<1>7. CASE ReconcileFails(p)
  <2> DEFINE end == IF p # Server THEN "done" ELSE IF job[p].op = "start" THEN "down" ELSE "idle"
  <2>1. Rest(end).pc \notin Undoable
    BY RestPlace
  <2>2. job' = [job EXCEPT ![p] = Rest(end)] /\ UNCHANGED registry
    BY <1>7 DEF ReconcileFails
  <2> HIDE DEF end
  <2> QED
    BY <2>1, <2>2, ElsewhereIsAside
<1> QED
  BY <1>2, <1>3, <1>4, <1>5, <1>6, <1>7 DEF Initialize, ReconcileReads, ReconcileStep

\* So do publish and _index_artifact.
LEMMA PublishIsAside ==
  ASSUME TypeOK, NEW p \in Processes,
         \/ PublishStep(p)
         \/ \E a \in Artifacts, c \in Contents : Publish(a, c)
         \/ \E a \in Imported, c \in Contents : ImportFilesystem(p, a, c)
  PROVE  Aside
<1> USE DEF TypeOK, storage, Undoable
<1>1. Server \in Processes /\ job[p] \in Job
  BY DEF Processes
<1>2. ASSUME NEW q \in Processes, NEW a, NEW c, Deduplicates(q, a, c), UNCHANGED registry
      PROVE  Aside
  <2>1. CASE DigestOf[contents[a]] = DigestOf[c]
    <3>1. job' = [job EXCEPT ![q] = [Rest("indexing") EXCEPT
                    !.op = "publish", !.subject = a, !.staged = contents[a]]]
      BY <1>2, <2>1 DEF Deduplicates
    <3> QED
      BY <1>2, <3>1, StartIsAside
  <2>2. CASE DigestOf[contents[a]] # DigestOf[c]
    <3>1. Finish(q) /\ "indexing" \in PC \ Undoable
      BY <1>2, <2>2 DEF Deduplicates, PC
    <3> QED
      BY <1>2, <3>1, GotoIsAside
  <2> QED
    BY <2>1, <2>2
<1>3. ASSUME NEW q \in Processes, NEW a, NEW c, Begin(q, a, c), UNCHANGED registry PROVE Aside
  <2>1. CASE contents[a] = Absent
    <3>1. job' = [job EXCEPT ![q] = [Rest("renaming") EXCEPT
                    !.op = "publish", !.subject = a, !.staged = c]]
      BY <1>3, <2>1 DEF Begin
    <3> QED
      BY <1>3, <3>1, StartIsAside
  <2>2. CASE contents[a] # Absent
    BY <1>2, <1>3, <2>2 DEF Begin
  <2> QED
    BY <2>1, <2>2
<1>4. ASSUME NEW a \in Artifacts, NEW c \in Contents, Publish(a, c) PROVE Aside
  BY <1>1, <1>3, <1>4 DEF Publish
<1>5. ASSUME NEW a \in Imported, NEW c \in Contents, ImportFilesystem(p, a, c) PROVE Aside
  BY <1>3, <1>5 DEF ImportFilesystem
<1>6. CASE PublishRenames(p)
  <2>1. CASE Goto(p, "indexing")
    BY <1>6, <2>1, GotoIsAside DEF PublishRenames, PC
  <2> QED
    BY <1>2, <1>6, <2>1 DEF PublishRenames
<1>7. ASSUME Indexed(p), UNCHANGED registry PROVE Aside
  BY <1>7, GotoIsAside DEF Indexed, PC
<1>8. CASE IndexReads(p)
  <2> DEFINE j == [job[p] EXCEPT !.stamp = contents[job[p].subject], !.names = registry,
                                 !.pc = "upserting"]
  <2>1. CASE job' = [job EXCEPT ![p] = j]
    <3>1. j.pc = "upserting"
      BY <1>1 DEF Job
    <3> QED
      BY <1>8, <2>1, <3>1, ElsewhereIsAside DEF IndexReads
  <2> QED
    BY <1>7, <1>8, <2>1 DEF IndexReads
<1>9. CASE IndexWrites(p)
  BY <1>7, <1>9 DEF IndexWrites
<1> QED
  BY <1>4, <1>5, <1>6, <1>8, <1>9 DEF PublishStep

\* The server keeps the registry unique, and what it may put back with it.
LEMMA ServerKeeps ==
  ASSUME CatalogInv, TypeOK',
         \/ \E a \in Artifacts, x \in Aliases \cup {NoAlias} : SetAlias(a, x)
         \/ SetAliasRefreshes
         \/ \E a \in Artifacts : Delete(a)
         \/ DeleteStep
         \/ \E p \in Processes : Crash(p)
  PROVE  CatalogInv'
<1> USE DEF CatalogInv, TypeOK, storage, Undoable
<1>1. /\ Server \in Processes /\ job[Server] \in Job
      /\ job[Server].subject \in Artifacts /\ job[Server].names \in Registry
  BY DEF Processes, Job
<1>2. ASSUME NEW a \in Artifacts, NEW x \in Aliases \cup {NoAlias}, SetAlias(a, x)
      PROVE  CatalogInv'
  <2> DEFINE j == [Rest("indexing") EXCEPT
                     !.op = "set_alias", !.subject = a, !.staged = contents[a], !.wanted = x]
  <2>1. job'[Server] = j
    BY <1>1, <1>2 DEF SetAlias
  <2>2. j.pc = "indexing"
    BY DEF Rest
  <2>3. Recallable'
    BY <2>1, <2>2 DEF Recallable
  <2>4. registry' = [registry EXCEPT ![a] = x] /\ x \in FreeFor(a)
    BY <1>2 DEF SetAlias
  <2>5. AliasesAreUnique'
    BY <2>4 DEF AliasesAreUnique, Unique, FreeFor, Registry
  <2> QED
    BY <2>3, <2>5
<1>3. CASE SetAliasRefreshes
  BY <1>1, <1>3, GotoIsAside, AsideKeeps DEF SetAliasRefreshes, PC
<1>4. ASSUME NEW a \in Artifacts, Delete(a) PROVE CatalogInv'
  <2>1. /\ job' = [job EXCEPT ![Server] =
                 [Rest("forgetting") EXCEPT !.subject = a, !.staged = contents[a]]]
        /\ UNCHANGED registry
    BY <1>4 DEF Delete
  <2> QED
    BY <1>1, <2>1, StartIsAside, AsideKeeps
<1>5. CASE DeleteForgets
  <2> DEFINE j == [job[Server] EXCEPT !.names = registry, !.pc = "unindexing"]
  <2>1. /\ job'[Server] = j
        /\ registry' = [registry EXCEPT ![job[Server].subject] = NoAlias]
    BY <1>1, <1>5 DEF DeleteForgets
  <2>2. j.names = registry /\ j.subject = job[Server].subject
    BY <1>1 DEF Job
  <2> HIDE DEF j
  <2>3. AliasesAreUnique'
    BY <1>1, <2>1 DEF AliasesAreUnique, Unique, Registry
  <2>4. Recallable'
    BY <2>1, <2>2 DEF Recallable, AliasesAreUnique
  <2> QED
    BY <2>3, <2>4
<1>6. CASE DeleteUnindexes
  <2>1. CASE Finish(Server)
    BY <1>1, <1>6, <2>1, GotoIsAside, AsideKeeps DEF DeleteUnindexes, PC
  <2>2. CASE Goto(Server, "undoing")
    <3>1. /\ job'[Server].names = job[Server].names
          /\ job'[Server].subject = job[Server].subject
      BY <1>1, <2>2 DEF Goto, Job
    <3>2. job[Server].pc = "unindexing" /\ UNCHANGED registry
      BY <1>6 DEF DeleteUnindexes, At
    <3> QED
      BY <3>1, <3>2 DEF Recallable, AliasesAreUnique, Unique
  <2> QED
    BY <1>6, <2>1, <2>2 DEF DeleteUnindexes
<1>7. CASE DeleteRecalls
  <2>1. job'[Server].pc = "restoring"
    BY <1>1, <1>7 DEF DeleteRecalls, Goto, Job
  <2>2. registry' = job[Server].names /\ job[Server].pc = "undoing"
    BY <1>7 DEF DeleteRecalls, At
  <2> QED
    BY <2>1, <2>2 DEF Recallable, AliasesAreUnique, Unique
<1>8. CASE DeleteRestores
  BY <1>1, <1>8, GotoIsAside, AsideKeeps DEF DeleteRestores, PC
<1>9. ASSUME NEW p \in Processes, Crash(p) PROVE CatalogInv'
  <2> DEFINE end == IF p = Server THEN "down" ELSE "done"
  <2>1. Rest(end).pc \notin Undoable
    BY RestPlace
  <2>2. job' = [job EXCEPT ![p] = Rest(end)] /\ UNCHANGED registry
    BY <1>9 DEF Crash
  <2> HIDE DEF end
  <2> QED
    BY <2>1, <2>2, ElsewhereIsAside, AsideKeeps
<1> QED
  BY <1>2, <1>3, <1>4, <1>5, <1>6, <1>7, <1>8, <1>9 DEF DeleteStep

\* The invariant holds at first: nothing is on the shelf and nothing has an alias.
LEMMA CatalogInit == Init => CatalogInv
<1>1. Init => AliasesAreUnique /\ Recallable
  <2> SUFFICES ASSUME Init PROVE AliasesAreUnique /\ Recallable
    OBVIOUS
  <2>1. AliasesAreUnique
    BY DEF Init, AliasesAreUnique, Unique, NoNames
  <2>2. job[Server].pc = "down"
    BY RestPlace DEF Init, Processes
  <2>3. Recallable
    BY <2>2 DEF Recallable, Undoable
  <2> QED
    BY <2>1, <2>3
<1> QED
  BY <1>1, InitType DEF CatalogInv

\* Every step preserves it.
LEMMA CatalogPreserved == CatalogInv /\ TypeOK' /\ [Next]_vars => CatalogInv'
<1> SUFFICES ASSUME CatalogInv, TypeOK', [Next]_vars PROVE CatalogInv'
  OBVIOUS
<1>1. Server \in Processes /\ Importers \subseteq Processes /\ TypeOK
  BY DEF Processes, CatalogInv
<1>2. CASE UNCHANGED vars
  BY <1>2, AsideKeeps DEF Aside, vars, storage
<1>3. CASE Next
  BY <1>1, <1>3, ReconcileIsAside, PublishIsAside, AsideKeeps, ServerKeeps DEF Next
<1> QED
  BY <1>2, <1>3

\* So it holds always.
LEMMA CatalogInvariant == Spec => []CatalogInv
<1>1. Init => CatalogInv
  BY CatalogInit
<1>2. CatalogInv /\ TypeOK' /\ [Next]_vars => CatalogInv'
  BY CatalogPreserved
<1> QED
  BY <1>1, <1>2, TypeCorrect, PTL DEF Spec

\* No two artifacts ever have the same alias in artifact-aliases.json, also while a deletion is
\* undone, and whatever faults leave there.
THEOREM AliasesUnique == Spec => []AliasesAreUnique
<1>1. CatalogInv => AliasesAreUnique
  BY DEF CatalogInv
<1> QED
  BY <1>1, CatalogInvariant, PTL

-----------------------------------------------------------------------------
(* The catalog implements the shelf: only three of its steps are steps of   *)
(* the shelf, and the invariant says that the aliases they give are free.   *)

\* The alias that is seen of each artifact.
Seen == [a \in Artifacts |-> IF contents[a] = Absent THEN NoAlias ELSE registry[a]]

\* A step that changes neither the shelf nor the registry.
Unseen == UNCHANGED <<contents, registry>>

\* An alias that is unique in the registry is free on the shelf.
LEMMA FreeOnShelf ==
  ASSUME registry \in Registry, AliasesAreUnique, NEW a \in Artifacts
  PROVE  registry[a] \in Promised!FreeFor(a)
BY CatalogAssumption DEF Registry, AliasesAreUnique, Unique, Promised!FreeFor

\* An artifact that appears is published, with whatever alias the registry has for it.
LEMMA Appears ==
  ASSUME TypeOK, AliasesAreUnique, NEW a \in Artifacts, NEW c \in Contents,
         contents[a] = Absent, contents' = [contents EXCEPT ![a] = c], UNCHANGED registry
  PROVE  Promised!Next
<1> USE DEF TypeOK
<1>1. Seen' = [Seen EXCEPT ![a] = registry[a]]
  BY CatalogAssumption DEF Seen
<1>2. Promised!Publish(a)
  BY <1>1, FreeOnShelf DEF Promised!Publish, Seen
<1> QED
  BY <1>2 DEF Promised!Next

\* A change of one alias renames the artifact, or is hidden with it.
LEMMA Renames ==
  ASSUME TypeOK, TypeOK', AliasesAreUnique', NEW a \in Artifacts, UNCHANGED contents,
         \A b \in Artifacts \ {a} : registry'[b] = registry[b]
  PROVE  Promised!Next \/ UNCHANGED <<contents, Seen>>
<1> USE DEF TypeOK
<1>1. CASE contents[a] = Absent
  BY <1>1 DEF Seen
<1>2. CASE contents[a] # Absent
  <2>1. Seen' = [Seen EXCEPT ![a] = registry'[a]]
    BY <1>2 DEF Seen
  <2>2. registry'[a] \in Promised!FreeFor(a)
    BY CatalogAssumption DEF Registry, AliasesAreUnique, Unique, Promised!FreeFor
  <2>3. Promised!Rename(a)
    BY <1>2, <2>1, <2>2 DEF Promised!Rename, Seen
  <2> QED
    BY <2>3 DEF Promised!Next
<1> QED
  BY <1>1, <1>2

\* An artifact that goes takes its alias with it.
LEMMA Disappears ==
  ASSUME TypeOK, NEW a \in Artifacts, contents[a] # Absent,
         contents' = [contents EXCEPT ![a] = Absent], UNCHANGED registry
  PROVE  Promised!Next
<1>1. Seen' = [Seen EXCEPT ![a] = NoAlias]
  BY CatalogAssumption DEF TypeOK, Seen
<1>2. Promised!Remove(a)
  BY <1>1 DEF Promised!Remove, Seen
<1> QED
  BY <1>2 DEF Promised!Next

\* Every step of the catalog is a step of the shelf, or is not seen.
LEMMA StepImplements ==
  ASSUME CatalogInv, CatalogInv', [Next]_vars
  PROVE  Promised!Next \/ UNCHANGED <<contents, Seen>>
<1> USE DEF CatalogInv, storage
<1>1. /\ Server \in Processes /\ TypeOK /\ TypeOK' /\ AliasesAreUnique /\ AliasesAreUnique'
      /\ \A p \in Processes : job[p].subject \in Artifacts /\ job[p].staged \in Contents
  BY DEF Processes, TypeOK, Job
<1>2. ASSUME Unseen PROVE UNCHANGED <<contents, Seen>>
  BY <1>2 DEF Unseen, Seen
<1>3. CASE UNCHANGED vars
  BY <1>2, <1>3 DEF vars, Unseen
<1>4. ASSUME NEW p \in Processes, Initialize(p) \/ ReconcileStep(p) \/ RecreateIndex PROVE Unseen
  BY <1>4 DEF Initialize, ReadIndex, ReconcileStep, ReconcileReads, ReconcileNames, ReconcileScans,
              ReconcileParses, ReconcileWrites, ReconcileFails, RecreateIndex, Unseen
<1>5. ASSUME NEW p \in Processes, PublishRenames(p)
      PROVE  Promised!Next \/ UNCHANGED <<contents, Seen>>
  <2> DEFINE a == job[p].subject
  <2>1. UNCHANGED registry
    BY <1>5 DEF PublishRenames
  <2>2. CASE contents[a] = Absent
    <3>1. contents' = [contents EXCEPT ![a] = job[p].staged]
      BY <1>5, <2>2 DEF PublishRenames
    <3> QED
      BY <1>1, <2>1, <2>2, <3>1, Appears
  <2>3. CASE contents[a] # Absent
    BY <1>2, <1>5, <2>1, <2>3 DEF PublishRenames, Unseen
  <2> QED
    BY <2>2, <2>3
<1>6. ASSUME NEW p \in Processes, IndexReads(p) \/ IndexWrites(p) \/ Crash(p) PROVE Unseen
  BY <1>6 DEF IndexReads, IndexWrites, Crash, Unseen
<1>7. ASSUME NEW p, NEW a, NEW c, Publish(a, c) \/ ImportFilesystem(p, a, c) PROVE Unseen
  BY <1>7 DEF Publish, ImportFilesystem, Unseen
<1>8. ASSUME NEW a \in Artifacts, NEW x \in Aliases \cup {NoAlias}, SetAlias(a, x)
      PROVE  Promised!Next \/ UNCHANGED <<contents, Seen>>
  <2>1. registry' = [registry EXCEPT ![a] = x] /\ UNCHANGED contents
    BY <1>8 DEF SetAlias
  <2> QED
    BY <1>1, <2>1, Renames DEF TypeOK, Registry
<1>9. CASE SetAliasRefreshes \/ DeleteUnindexes
  <2>1. Unseen
    BY <1>9 DEF SetAliasRefreshes, DeleteUnindexes, Unseen
  <2> QED
    BY <1>2, <2>1
<1>10. ASSUME NEW a \in Artifacts, Delete(a) PROVE Promised!Next
  <2>1. /\ contents[a] # Absent /\ contents' = [contents EXCEPT ![a] = Absent]
        /\ UNCHANGED registry
    BY <1>10 DEF Delete, Findable
  <2> QED
    BY <1>1, <2>1, Disappears
<1>11. CASE DeleteForgets
  <2>1. registry' = [registry EXCEPT ![job[Server].subject] = NoAlias] /\ UNCHANGED contents
    BY <1>11 DEF DeleteForgets
  <2> QED
    BY <1>1, <2>1, Renames DEF TypeOK, Registry
<1>12. CASE DeleteRecalls
  <2>1. registry' = job[Server].names /\ UNCHANGED contents /\ job[Server].pc = "undoing"
    BY <1>12 DEF DeleteRecalls, At
  <2>2. registry = [job[Server].names EXCEPT ![job[Server].subject] = NoAlias]
    BY <2>1 DEF Recallable, Undoable
  <2>3. job[Server].names \in Registry
    BY <1>1 DEF TypeOK, Job
  <2>4. \A b \in Artifacts \ {job[Server].subject} : registry'[b] = registry[b]
    BY <2>1, <2>2, <2>3 DEF Registry
  <2> QED
    BY <1>1, <2>1, <2>4, Renames
<1>13. CASE DeleteRestores
  <2> DEFINE a == job[Server].subject
  <2>1. UNCHANGED registry
    BY <1>13 DEF DeleteRestores
  <2>2. CASE contents[a] = Absent
    <3>1. contents' = [contents EXCEPT ![a] = job[Server].staged]
      BY <1>13, <2>2 DEF DeleteRestores
    <3> QED
      BY <1>1, <2>1, <2>2, <3>1, Appears
  <2>3. CASE contents[a] # Absent
    BY <1>2, <1>13, <2>1, <2>3 DEF DeleteRestores, Unseen
  <2> QED
    BY <2>2, <2>3
<1>14. CASE Next
  BY <1>1, <1>2, <1>4, <1>5, <1>6, <1>7, <1>8, <1>9, <1>10, <1>11, <1>12, <1>13, <1>14
     DEF Next, PublishStep, DeleteStep
<1> QED
  BY <1>3, <1>14

\* The catalog, with its import processes, its faults and its deletions that are cut short or
\* undone, is a shelf on which publication and deletion are atomic.
THEOREM CatalogIsShelf == Spec => ImplementsShelf
<1>1. Init => Promised!Init
  BY DEF Init, NoNames, Promised!Init
<1>2. CatalogInv /\ CatalogInv' /\ [Next]_vars => [Promised!Next]_<<contents, Seen>>
  BY StepImplements
<1>3. CatalogInv /\ CatalogInv' /\ [Next]_vars
        => [Promised!Next]_<<contents,
              [a \in Artifacts |-> IF contents[a] = Absent THEN NoAlias ELSE registry[a]]>>
  BY <1>2 DEF Seen
<1> QED
  BY <1>1, <1>3, CatalogInvariant, PTL DEF Spec, ImplementsShelf, Promised!Spec

-----------------------------------------------------------------------------
(* The index is healed.  As long as `dirty` is not set one process works at *)
(* most, and the invariant says what it has already repaired, or what it    *)
(* has still to write, at each of its places.                               *)

AllAgree == \A a \in Artifacts : Agrees(a)
AllBut(s) == \A a \in Artifacts \ {s} : Agrees(a)

Removing == {"forgetting", "unindexing", "undoing", "restoring"}

\* The row a walk should have found.
Found(a) == IF contents[a] = Absent THEN NoRow ELSE RowOf(a, registry)

Mends(p) ==
  LET j == job[p]
      s == j.subject
  IN
  /\ j.pc = "naming" => j.rows = index
  /\ j.pc \in {"scanning", "parsing"} => /\ j.rows = index /\ j.names = registry
                                        /\ \A a \in Artifacts \ j.todo : j.found[a] = Found(a)
  /\ j.pc = "parsing" => \A a \in j.todo : (\A b \in j.todo : a <= b) => j.stamp = contents[a]
  /\ j.pc \in {"renaming", "refreshing"} => AllAgree
  /\ j.pc \in {"indexing", "upserting"} => contents[s] # Absent /\ AllBut(s)
  /\ j.pc = "upserting" => j.stamp = contents[s] /\ j.names[s] = registry[s]
  /\ j.pc \in Removing =>
       /\ contents[s] = Absent /\ AllBut(s)
       /\ index[s] # NoRow /\ index[s].stamp = j.staged
       /\ index[s].alias = IF j.pc \in Undoable THEN j.names[s] ELSE registry[s]

HealInv ==
  ~dirty =>
    /\ \A p, q \in Processes : Busy(p) /\ Busy(q) => p = q
    /\ (\A p \in Processes : ~Busy(p)) => AllAgree
    /\ \A p \in Processes : Busy(p) => Mends(p)

\* A process that works works alone; where nobody works the index is in order.
LEMMA Alone ==
  ASSUME HealInv, ~dirty, NEW p \in Processes
  PROVE  /\ Busy(p) => ~Disturbed(p) /\ Mends(p)
         /\ ~Busy(p) /\ ~Disturbed(p) => AllAgree
BY DEF HealInv, Disturbed

\* What a step of a process that works alone has to show.
LEMMA HealedAlone ==
  ASSUME NEW p \in Processes, ~Disturbed(p), \A q \in Processes \ {p} : job'[q] = job[q],
         Busy(p)' => Mends(p)', ~Busy(p)' => AllAgree'
  PROVE  HealInv'
<1>1. \A q \in Processes \ {p} : ~Busy(q)'
  BY DEF Disturbed, Busy
<1> QED
  BY <1>1 DEF HealInv

\* A process that finishes is at rest.
LEMMA FinishRests ==
  ASSUME job \in [Processes -> Job], NEW p \in Processes, Finish(p)
  PROVE  ~Busy(p)' /\ \A q \in Processes \ {p} : job'[q] = job[q]
<1>1. job'[p].pc = IF p = Server THEN "idle" ELSE "done"
  BY RestPlace DEF Finish
<1> QED
  BY <1>1 DEF Finish, Busy, Resting

\* A process that goes on keeps its other local variables.
LEMMA GotoKeeps ==
  ASSUME job \in [Processes -> Job], NEW p \in Processes, NEW place, Goto(p, place)
  PROVE  /\ job'[p].pc = place /\ job'[p].subject = job[p].subject
         /\ job'[p].staged = job[p].staged /\ job'[p].names = job[p].names
         /\ \A q \in Processes \ {p} : job'[q] = job[q]
BY DEF Goto, Job

LEMMA HealedByReconcile ==
  ASSUME TypeOK, HealInv, NEW p \in Processes,
         RecreateIndex \/ Initialize(p) \/ ReconcileStep(p)
  PROVE  HealInv'
<1> USE DEF TypeOK, storage, bounds
<1> SUFFICES ASSUME ~dirty' PROVE HealInv'
  BY DEF HealInv
<1>1. Server \in Processes /\ \A q \in Processes : job[q] \in Job
  BY DEF Processes
<1>2. CASE RecreateIndex
  <2>1. ~Disturbed(Server)
    BY <1>2 DEF RecreateIndex, Call
  <2> DEFINE j == [Rest("reading") EXCEPT !.op = "publish"]
  <2>2. j.pc = "reading"
    BY DEF Rest
  <2>3. job' = [job EXCEPT ![Server] = j]
    BY <1>2 DEF RecreateIndex
  <2> HIDE DEF j
  <2>4. job'[Server].pc = "reading" /\ \A q \in Processes \ {Server} : job'[q] = job[q]
    BY <1>1, <2>2, <2>3
  <2>5. Busy(Server)' /\ Mends(Server)'
    BY <2>4 DEF Busy, Resting, Mends, Removing
  <2> QED
    BY <1>1, <2>1, <2>4, <2>5, HealedAlone
<1>3. ASSUME ReadIndex(p) PROVE HealInv'
  <2>1. ~Disturbed(p)
    BY <1>3 DEF ReadIndex
  <2>2. /\ job'[p].pc = "naming" /\ job'[p].rows = index'
        /\ \A q \in Processes \ {p} : job'[q] = job[q]
    BY <1>1, <1>3 DEF ReadIndex, Job
  <2>3. Busy(p)' /\ Mends(p)'
    BY <2>2 DEF Busy, Resting, Mends, Removing
  <2> QED
    BY <2>1, <2>2, <2>3, HealedAlone
<1>4. CASE ReconcileNames(p)
  <2>1. ~dirty /\ Busy(p) /\ job[p].pc = "naming"
    BY <1>4 DEF ReconcileNames, At, Busy, Resting
  <2>2. ~Disturbed(p) /\ job[p].rows = index
    BY <2>1, Alone DEF Mends
  <2>3. /\ job'[p].pc = "scanning" /\ job'[p].rows = index' /\ job'[p].names = registry'
        /\ job'[p].todo = Artifacts
        /\ \A q \in Processes \ {p} : job'[q] = job[q]
    BY <1>1, <1>4, <2>2 DEF ReconcileNames, Job
  <2>4. Busy(p)' /\ Mends(p)'
    BY <2>3 DEF Busy, Resting, Mends, Removing
  <2> QED
    BY <2>2, <2>3, <2>4, HealedAlone
<1>5. ASSUME NEW a \in Artifacts, ReconcileScans(p, a) \/ ReconcileParses(p, a) PROVE HealInv'
  <2>1. ~dirty /\ Busy(p) /\ job[p].pc \in {"scanning", "parsing"}
        /\ a \in job[p].todo /\ \A b \in job[p].todo : a <= b
    BY <1>5 DEF ReconcileScans, ReconcileParses, At, Busy, Resting
  <2>2. ~Disturbed(p) /\ job[p].rows = index /\ job[p].names = registry
        /\ \A b \in Artifacts \ job[p].todo : job[p].found[b] = Found(b)
    BY <2>1, Alone DEF Mends
  <2>3. job[p].pc = "parsing" => job[p].stamp = contents[a]
    BY <2>1, Alone DEF Mends
  <2>4. UNCHANGED <<contents, registry, index>> /\ \A b \in Artifacts : Found(b)' = Found(b)
    BY <1>5, WalkSteps DEF Found, RowOf
  <2>5. CASE job' = [job EXCEPT ![p] = Halted(p, a)]
    <3>1. /\ job'[p].pc = "parsing" /\ job'[p].rows = job[p].rows /\ job'[p].names = job[p].names
          /\ job'[p].todo = job[p].todo /\ job'[p].found = job[p].found
          /\ job'[p].stamp = contents[a]
          /\ \A q \in Processes \ {p} : job'[q] = job[q]
      BY <1>1, <2>5 DEF Halted, Job
    <3>2. \A b \in job[p].todo : (\A c \in job[p].todo : b <= c) => b = a
      <4>1. \A b \in job[p].todo : b \in Nat
        BY <1>1, CatalogAssumption DEF Job
      <4> QED
        BY <2>1, <4>1
    <3>3. Busy(p)' /\ Mends(p)'
      BY <2>2, <2>4, <3>1, <3>2 DEF Busy, Resting, Mends, Removing
    <3> QED
      BY <2>2, <3>1, <3>3, HealedAlone
  <2>6. CASE \E row \in Row \cup {NoRow} :
               /\ job' = [job EXCEPT ![p] = Walked(p, a, row)]
               /\ row = IF contents[a] = Absent THEN NoRow
                        ELSE IF job[p].pc = "scanning" THEN RowOf(a, job[p].names)
                        ELSE [RowOf(a, job[p].names) EXCEPT !.stamp = job[p].stamp]
    <3>1. PICK row \in Row \cup {NoRow} :
               /\ job' = [job EXCEPT ![p] = Walked(p, a, row)]
               /\ row = IF contents[a] = Absent THEN NoRow
                        ELSE IF job[p].pc = "scanning" THEN RowOf(a, job[p].names)
                        ELSE [RowOf(a, job[p].names) EXCEPT !.stamp = job[p].stamp]
      BY <2>6
    <3>2. [RowOf(a, job[p].names) EXCEPT !.stamp = contents[a]] = RowOf(a, job[p].names)
      BY DEF RowOf
    <3>3. row = Found(a)
      BY <2>1, <2>2, <2>3, <3>1, <3>2 DEF Found
    <3>4. /\ job'[p].pc = "scanning" /\ job'[p].rows = job[p].rows /\ job'[p].names = job[p].names
          /\ job'[p].todo = job[p].todo \ {a}
          /\ job'[p].found = [job[p].found EXCEPT ![a] = row]
          /\ \A q \in Processes \ {p} : job'[q] = job[q]
      BY <1>1, <3>1 DEF Walked, Job
    <3>5. job[p].found \in [Artifacts -> Row \cup {NoRow}]
      BY <1>1 DEF Job, Table
    <3>6. \A b \in Artifacts \ job'[p].todo : job'[p].found[b] = Found(b)'
      BY <2>2, <2>4, <3>3, <3>4, <3>5
    <3>7. Busy(p)' /\ Mends(p)'
      BY <2>2, <2>4, <3>4, <3>6 DEF Busy, Resting, Mends, Removing
    <3> QED
      BY <2>2, <3>4, <3>7, HealedAlone
  <2> QED
    BY <1>5, <2>5, <2>6, WalkSteps
<1>6. CASE ReconcileWrites(p)
  <2>1. ~dirty /\ Busy(p) /\ job[p].pc = "scanning" /\ job[p].todo = {}
    BY <1>6 DEF ReconcileWrites, At, Busy, Resting
  <2>2. ~Disturbed(p) /\ job[p].rows = index
        /\ \A b \in Artifacts : job[p].found[b] = Found(b)
    BY <2>1, Alone DEF Mends
  <2>3. ~Busy(p)' /\ \A q \in Processes \ {p} : job'[q] = job[q]
    BY <1>6, RestPlace DEF ReconcileWrites, Busy, Resting
  <2>4. ASSUME NEW a \in Artifacts PROVE Agrees(a)'
    <3>1. index'[a] = IF Fresh(job[p], a) THEN index[a] ELSE Found(a)
      BY <1>6, <2>2 DEF ReconcileWrites, Reconciled
    <3>2. UNCHANGED <<contents, registry>>
      BY <1>6 DEF ReconcileWrites
    <3>3. Fresh(job[p], a) <=> /\ Found(a) # NoRow
                               /\ Found(a).stamp = index[a].stamp /\ Found(a).alias = index[a].alias
      BY <2>2 DEF Fresh
    <3>4. CASE contents[a] = Absent
      BY <3>1, <3>2, <3>3, <3>4 DEF Agrees, Found
    <3>5. CASE contents[a] # Absent
      <4>1. Found(a) # NoRow /\ Found(a).stamp = contents[a] /\ Found(a).alias = registry[a]
        BY <3>5 DEF Found, RowOf, NoRow
      <4>2. index'[a].stamp = contents[a] /\ index'[a].alias = registry[a]
        BY <3>1, <3>3, <4>1
      <4>3. index'[a] # NoRow
        BY <3>5, <4>2 DEF NoRow
      <4> QED
        BY <3>2, <3>5, <4>2, <4>3 DEF Agrees
    <3> QED
      BY <3>4, <3>5
  <2> QED
    BY <2>2, <2>3, <2>4, HealedAlone DEF AllAgree
<1>7. ~ReconcileFails(p)
  BY DEF ReconcileFails
<1> QED
  BY <1>2, <1>3, <1>4, <1>5, <1>6, <1>7 DEF Initialize, ReconcileReads, ReconcileStep

\* What a step that leaves the storage alone leaves in order.
LEMMA AgreeKept ==
  ASSUME UNCHANGED storage PROVE \A a \in Artifacts : Agrees(a)' <=> Agrees(a)
BY DEF storage, Agrees

\* publish begins, or meets a duplicate, on a shelf that is in order.
LEMMA HealedByDeduplicates ==
  ASSUME TypeOK, NEW p \in Processes, NEW a \in Artifacts, NEW c, Deduplicates(p, a, c),
         contents[a] # Absent, UNCHANGED storage, AllAgree, ~Disturbed(p)
  PROVE  HealInv'
<1> USE DEF TypeOK
<1>1. AllAgree' /\ AllBut(a)' /\ contents'[a] # Absent
  BY AgreeKept DEF AllAgree, AllBut, storage
<1>2. CASE DigestOf[contents[a]] = DigestOf[c]
  <2> DEFINE j == [Rest("indexing") EXCEPT !.op = "publish", !.subject = a,
                                          !.staged = contents[a]]
  <2>1. j.pc = "indexing" /\ j.subject = a
    BY DEF Rest
  <2>2. job' = [job EXCEPT ![p] = j]
    BY <1>2 DEF Deduplicates
  <2> HIDE DEF j
  <2>3. /\ job'[p].pc = "indexing" /\ job'[p].subject = a
        /\ \A q \in Processes \ {p} : job'[q] = job[q]
    BY <2>1, <2>2
  <2>4. Busy(p)' /\ Mends(p)'
    BY <1>1, <2>3 DEF Busy, Resting, Mends, Removing
  <2> QED
    BY <2>3, <2>4, HealedAlone
<1>3. CASE DigestOf[contents[a]] # DigestOf[c]
  BY <1>1, <1>3, FinishRests, HealedAlone DEF Deduplicates
<1> QED
  BY <1>2, <1>3

LEMMA HealedByBegin ==
  ASSUME TypeOK, NEW p \in Processes, NEW a \in Artifacts, NEW c, Begin(p, a, c),
         UNCHANGED storage, AllAgree, ~Disturbed(p)
  PROVE  HealInv'
<1>1. CASE contents[a] = Absent
  <2> DEFINE j == [Rest("renaming") EXCEPT !.op = "publish", !.subject = a, !.staged = c]
  <2>1. j.pc = "renaming"
    BY DEF Rest
  <2>2. job' = [job EXCEPT ![p] = j]
    BY <1>1 DEF Begin
  <2> HIDE DEF j
  <2>3. /\ job'[p].pc = "renaming" /\ \A q \in Processes \ {p} : job'[q] = job[q]
    BY <2>1, <2>2 DEF TypeOK
  <2>4. Busy(p)' /\ Mends(p)'
    BY <2>3, AgreeKept DEF Busy, Resting, Mends, Removing, AllAgree
  <2> QED
    BY <2>3, <2>4, HealedAlone
<1>2. CASE contents[a] # Absent
  BY <1>2, HealedByDeduplicates DEF Begin
<1> QED
  BY <1>1, <1>2

LEMMA HealedByPublish ==
  ASSUME TypeOK, HealInv, NEW p \in Processes,
         \/ PublishStep(p)
         \/ \E a \in Artifacts, c \in Contents : Publish(a, c)
         \/ \E a \in Imported, c \in Contents : ImportFilesystem(p, a, c)
  PROVE  HealInv'
<1> USE DEF TypeOK
<1> SUFFICES ASSUME ~dirty' PROVE HealInv'
  BY DEF HealInv
<1>1. Server \in Processes /\ Imported \subseteq Artifacts /\ job[p] \in Job
  BY CatalogAssumption DEF Processes
<1>2. ASSUME NEW a \in Artifacts, NEW c \in Contents, Publish(a, c) PROVE HealInv'
  <2>1. ~dirty /\ ~Disturbed(Server) /\ ~Busy(Server)
    BY <1>2 DEF Publish, Call, At, Busy, Resting
  <2>2. AllAgree
    BY <1>1, <2>1, Alone
  <2> QED
    BY <1>1, <1>2, <2>1, <2>2, HealedByBegin DEF Publish
<1>3. ASSUME NEW a \in Imported, NEW c \in Contents, ImportFilesystem(p, a, c) PROVE HealInv'
  <2>1. ~dirty /\ ~Disturbed(p) /\ ~Busy(p)
    BY <1>3 DEF ImportFilesystem, At, Busy, Resting
  <2>2. AllAgree
    BY <2>1, Alone
  <2> QED
    BY <1>1, <1>3, <2>1, <2>2, HealedByBegin DEF ImportFilesystem
<1>4. CASE PublishRenames(p)
  <2> DEFINE a == job[p].subject
  <2>1. ~dirty /\ Busy(p) /\ job[p].pc = "renaming" /\ a \in Artifacts /\ job[p].staged \in Contents
    BY <1>1, <1>4 DEF PublishRenames, At, Busy, Resting, Job
  <2>2. ~Disturbed(p) /\ AllAgree
    BY <2>1, Alone DEF Mends
  <2>3. CASE contents[a] = Absent
    <3>1. /\ contents' = [contents EXCEPT ![a] = job[p].staged] /\ Goto(p, "indexing")
          /\ UNCHANGED <<registry, index>>
      BY <1>4, <2>3 DEF PublishRenames
    <3>2. /\ job'[p].pc = "indexing" /\ job'[p].subject = a
          /\ \A q \in Processes \ {p} : job'[q] = job[q]
      BY <3>1, GotoKeeps
    <3>3. contents'[a] # Absent /\ \A b \in Artifacts \ {a} : contents'[b] = contents[b]
      BY <2>1, <3>1, CatalogAssumption
    <3>4. \A b \in Artifacts \ {a} : Agrees(b)'
      BY <2>2, <3>1, <3>3 DEF AllAgree, Agrees
    <3>5. \A b \in Artifacts : b # job'[p].subject => Agrees(b)'
      BY <3>2, <3>4
    <3>6. contents'[job'[p].subject] # Absent
      BY <3>2, <3>3
    <3>7. Busy(p)' /\ Mends(p)'
      BY <3>2, <3>5, <3>6 DEF Busy, Resting, Mends, Removing, AllBut
    <3> QED
      BY <2>2, <3>2, <3>7, HealedAlone
  <2>4. CASE contents[a] # Absent
    BY <1>4, <2>1, <2>2, <2>4, HealedByDeduplicates DEF PublishRenames, storage
  <2> QED
    BY <2>3, <2>4
<1>5. CASE IndexReads(p)
  <2> DEFINE a == job[p].subject
  <2>1. ~dirty /\ Busy(p) /\ job[p].pc = "indexing" /\ UNCHANGED storage
    BY <1>5 DEF IndexReads, At, Busy, Resting
  <2>2. ~Disturbed(p) /\ contents[a] # Absent /\ AllBut(a)
    BY <2>1, Alone DEF Mends
  <2>3. /\ job'[p].pc = "upserting" /\ job'[p].subject = a
        /\ job'[p].stamp = contents[a] /\ job'[p].names = registry
        /\ \A q \in Processes \ {p} : job'[q] = job[q]
    BY <1>1, <1>5, <2>2 DEF IndexReads, Job
  <2>4. Busy(p)' /\ Mends(p)'
    BY <2>1, <2>2, <2>3, AgreeKept DEF Busy, Resting, Mends, Removing, AllBut, storage
  <2> QED
    BY <2>2, <2>3, <2>4, HealedAlone
<1>6. CASE IndexWrites(p)
  <2> DEFINE a == job[p].subject
             row == [manifest |-> job[p].staged, stamp |-> job[p].stamp, alias |-> job[p].names[a]]
  <2>1. /\ ~dirty /\ Busy(p) /\ job[p].pc = "upserting" /\ Indexed(p) /\ a \in Artifacts
        /\ index' = [index EXCEPT ![a] = row] /\ UNCHANGED <<contents, registry>>
    BY <1>1, <1>6 DEF IndexWrites, At, Busy, Resting, Job
  <2>2. /\ ~Disturbed(p) /\ contents[a] # Absent /\ AllBut(a)
        /\ job[p].stamp = contents[a] /\ job[p].names[a] = registry[a]
    BY <2>1, Alone DEF Mends
  <2>3. row.stamp = contents[a] /\ row.alias = registry[a] /\ row # NoRow
    BY <2>2 DEF NoRow
  <2> HIDE DEF row
  <2>4. index'[a] = row /\ \A b \in Artifacts \ {a} : index'[b] = index[b]
    BY <2>1 DEF Table
  <2>5. AllAgree'
    BY <2>1, <2>2, <2>3, <2>4 DEF AllAgree, AllBut, Agrees
  <2>6. CASE Finish(p)
    BY <2>2, <2>5, <2>6, FinishRests, HealedAlone
  <2>7. CASE Goto(p, "refreshing")
    <3>1. job'[p].pc = "refreshing" /\ \A q \in Processes \ {p} : job'[q] = job[q]
      BY <2>7, GotoKeeps
    <3>2. Busy(p)' /\ Mends(p)'
      BY <2>5, <3>1 DEF Busy, Resting, Mends, Removing
    <3> QED
      BY <2>2, <3>1, <3>2, HealedAlone
  <2> QED
    BY <2>1, <2>6, <2>7 DEF Indexed
<1> QED
  BY <1>2, <1>3, <1>4, <1>5, <1>6 DEF PublishStep

LEMMA HealedByServer ==
  ASSUME CatalogInv, HealInv,
         \/ \E a \in Artifacts, x \in Aliases \cup {NoAlias} : SetAlias(a, x)
         \/ SetAliasRefreshes
         \/ \E a \in Artifacts : Delete(a)
         \/ DeleteStep
         \/ \E p \in Processes : Crash(p)
  PROVE  HealInv'
<1> USE DEF TypeOK, CatalogInv
<1> DEFINE s == job[Server].subject
<1> SUFFICES ASSUME ~dirty' PROVE HealInv'
  BY DEF HealInv
<1>1. Server \in Processes /\ job[Server] \in Job /\ s \in Artifacts
  BY DEF Processes, Job
<1>2. ASSUME Call PROVE ~dirty /\ ~Disturbed(Server) /\ ~Busy(Server) /\ AllAgree
  <2>1. ~dirty /\ ~Disturbed(Server) /\ ~Busy(Server)
    BY <1>2 DEF Call, At, Busy, Resting
  <2> QED
    BY <1>1, <2>1, Alone
<1>3. ASSUME NEW a \in Artifacts, NEW x \in Aliases \cup {NoAlias}, SetAlias(a, x) PROVE HealInv'
  <2>1. ~Disturbed(Server) /\ AllAgree
    BY <1>2, <1>3 DEF SetAlias
  <2> DEFINE j == [Rest("indexing") EXCEPT !.op = "set_alias", !.subject = a,
                                          !.staged = contents[a], !.wanted = x]
  <2>2. j.pc = "indexing" /\ j.subject = a
    BY DEF Rest
  <2>3. job' = [job EXCEPT ![Server] = j]
    BY <1>3 DEF SetAlias
  <2> HIDE DEF j
  <2>4. /\ job'[Server].pc = "indexing" /\ job'[Server].subject = a
        /\ \A q \in Processes \ {Server} : job'[q] = job[q]
    BY <1>1, <2>2, <2>3
  <2>5. /\ contents[a] # Absent /\ UNCHANGED <<contents, index>>
        /\ \A b \in Artifacts \ {a} : registry'[b] = registry[b]
    BY <1>3 DEF SetAlias, Findable, Registry
  <2>6. \A b \in Artifacts \ {a} : Agrees(b)'
    BY <2>1, <2>5 DEF AllAgree, Agrees
  <2>7. Busy(Server)' /\ Mends(Server)'
    BY <2>4, <2>5, <2>6 DEF Busy, Resting, Mends, Removing, AllBut
  <2> QED
    BY <1>1, <2>1, <2>4, <2>7, HealedAlone
<1>4. CASE SetAliasRefreshes
  <2>1. ~dirty /\ Busy(Server) /\ job[Server].pc = "refreshing" /\ UNCHANGED storage
    BY <1>4 DEF SetAliasRefreshes, At, Busy, Resting
  <2>2. ~Disturbed(Server) /\ AllAgree
    BY <1>1, <2>1, Alone DEF Mends
  <2>3. CASE Finish(Server)
    BY <1>1, <2>1, <2>2, <2>3, AgreeKept, FinishRests, HealedAlone DEF AllAgree
  <2>4. CASE Goto(Server, "reading")
    <3>1. job'[Server].pc = "reading" /\ \A q \in Processes \ {Server} : job'[q] = job[q]
      BY <1>1, <2>4, GotoKeeps
    <3>2. Busy(Server)' /\ Mends(Server)'
      BY <3>1 DEF Busy, Resting, Mends, Removing
    <3> QED
      BY <1>1, <2>2, <3>1, <3>2, HealedAlone
  <2> QED
    BY <1>4, <2>3, <2>4 DEF SetAliasRefreshes
<1>5. ASSUME NEW a \in Artifacts, Delete(a) PROVE HealInv'
  <2>1. ~Disturbed(Server) /\ AllAgree
    BY <1>2, <1>5 DEF Delete
  <2> DEFINE j == [Rest("forgetting") EXCEPT !.subject = a, !.staged = contents[a]]
  <2>2. j.pc = "forgetting" /\ j.subject = a /\ j.staged = contents[a]
    BY DEF Rest
  <2>3. job' = [job EXCEPT ![Server] = j]
    BY <1>5 DEF Delete
  <2> HIDE DEF j
  <2>4. /\ job'[Server].pc = "forgetting" /\ job'[Server].subject = a
        /\ job'[Server].staged = contents[a]
        /\ \A q \in Processes \ {Server} : job'[q] = job[q]
    BY <1>1, <2>2, <2>3
  <2>5. /\ contents[a] # Absent /\ contents' = [contents EXCEPT ![a] = Absent]
        /\ UNCHANGED <<registry, index>>
    BY <1>5 DEF Delete, Findable
  <2>6. AllBut(a)'
    BY <2>1, <2>5 DEF AllAgree, AllBut, Agrees
  <2>7. index[a] # NoRow /\ index[a].stamp = contents[a] /\ index[a].alias = registry[a]
    BY <2>1, <2>5 DEF AllAgree, Agrees
  <2>8. Busy(Server)' /\ Mends(Server)'
    BY <2>4, <2>5, <2>6, <2>7 DEF Busy, Resting, Mends, Removing, Undoable
  <2> QED
    BY <1>1, <2>1, <2>4, <2>8, HealedAlone
<1>6. ASSUME ~dirty, job[Server].pc \in Removing
      PROVE  /\ ~Disturbed(Server) /\ contents[s] = Absent /\ AllBut(s)
             /\ index[s] # NoRow /\ index[s].stamp = job[Server].staged
             /\ index[s].alias = IF job[Server].pc \in Undoable THEN job[Server].names[s]
                                 ELSE registry[s]
  <2>1. Busy(Server)
    BY <1>6 DEF Busy, Resting, Removing
  <2> QED
    BY <1>1, <1>6, <2>1, Alone DEF Mends
<1>7. CASE DeleteForgets
  <2>1. ~dirty /\ job[Server].pc = "forgetting"
    BY <1>7 DEF DeleteForgets, At
  <2>2. /\ job'[Server].pc = "unindexing" /\ job'[Server].subject = s
        /\ job'[Server].staged = job[Server].staged /\ job'[Server].names = registry
        /\ \A q \in Processes \ {Server} : job'[q] = job[q]
    BY <1>1, <1>7 DEF DeleteForgets, Job
  <2>3. UNCHANGED <<contents, index>> /\ \A b \in Artifacts \ {s} : registry'[b] = registry[b]
    BY <1>7 DEF DeleteForgets, Registry
  <2>4. \A b \in Artifacts \ {s} : Agrees(b)'
    BY <1>6, <2>1, <2>3 DEF AllBut, Agrees, Removing
  <2>5. Busy(Server)' /\ Mends(Server)'
    BY <1>6, <2>1, <2>2, <2>3, <2>4 DEF Busy, Resting, Mends, Removing, Undoable, AllBut
  <2> QED
    BY <1>1, <1>6, <2>1, <2>2, <2>5, HealedAlone DEF Removing
<1>8. CASE DeleteUnindexes
  <2>1. ~dirty /\ job[Server].pc = "unindexing" /\ UNCHANGED <<contents, registry>>
    BY <1>8 DEF DeleteUnindexes, At
  <2>2. CASE index' = [index EXCEPT ![s] = NoRow] /\ Finish(Server)
    <3>1. index'[s] = NoRow /\ \A b \in Artifacts \ {s} : index'[b] = index[b]
      BY <1>1, <2>2 DEF Table
    <3>2. AllAgree'
      BY <1>6, <2>1, <3>1 DEF AllAgree, AllBut, Agrees, Removing
    <3> QED
      BY <1>1, <1>6, <2>1, <2>2, <3>2, FinishRests, HealedAlone DEF Removing
  <2>3. CASE Goto(Server, "undoing") /\ UNCHANGED index
    <3>1. /\ job'[Server].pc = "undoing" /\ job'[Server].subject = s
          /\ job'[Server].staged = job[Server].staged /\ job'[Server].names = job[Server].names
          /\ \A q \in Processes \ {Server} : job'[q] = job[q]
      BY <1>1, <2>3, GotoKeeps
    <3>2. \A b \in Artifacts \ {s} : Agrees(b)'
      BY <1>6, <2>1, <2>3 DEF AllBut, Agrees, Removing
    <3>3. Busy(Server)' /\ Mends(Server)'
      BY <1>6, <2>1, <2>3, <3>1, <3>2 DEF Busy, Resting, Mends, Removing, Undoable, AllBut
    <3> QED
      BY <1>1, <1>6, <2>1, <3>1, <3>3, HealedAlone DEF Removing
  <2> QED
    BY <1>8, <2>2, <2>3 DEF DeleteUnindexes
<1>9. CASE DeleteRecalls
  <2>1. /\ ~dirty /\ job[Server].pc = "undoing" /\ UNCHANGED <<contents, index>>
        /\ registry' = job[Server].names /\ Goto(Server, "restoring")
    BY <1>9 DEF DeleteRecalls, At
  <2>2. /\ job'[Server].pc = "restoring" /\ job'[Server].subject = s
        /\ job'[Server].staged = job[Server].staged
        /\ \A q \in Processes \ {Server} : job'[q] = job[q]
    BY <1>1, <2>1, GotoKeeps
  <2>3. registry = [job[Server].names EXCEPT ![s] = NoAlias] /\ job[Server].names \in Registry
    BY <1>1, <2>1 DEF Recallable, Undoable, Job
  <2>4. \A b \in Artifacts \ {s} : registry'[b] = registry[b]
    BY <2>1, <2>3 DEF Registry
  <2>5. \A b \in Artifacts \ {s} : Agrees(b)'
    BY <1>6, <2>1, <2>4 DEF AllBut, Agrees, Removing
  <2>6. Busy(Server)' /\ Mends(Server)'
    BY <1>6, <2>1, <2>2, <2>5 DEF Busy, Resting, Mends, Removing, Undoable, AllBut
  <2> QED
    BY <1>1, <1>6, <2>1, <2>2, <2>6, HealedAlone DEF Removing
<1>10. CASE DeleteRestores
  <2>1. ~dirty /\ job[Server].pc = "restoring" /\ UNCHANGED <<registry, index>> /\ Finish(Server)
    BY <1>10 DEF DeleteRestores, At
  <2>2. job[Server].staged \in Contents
    BY <1>1 DEF Job
  <2>3. contents' = [contents EXCEPT ![s] = job[Server].staged]
    BY <1>6, <1>10, <2>1 DEF DeleteRestores, Removing
  <2>4. contents'[s] = job[Server].staged /\ contents'[s] # Absent
        /\ \A b \in Artifacts \ {s} : contents'[b] = contents[b]
    BY <1>1, <2>2, <2>3, CatalogAssumption
  <2>5. AllAgree'
    BY <1>1, <1>6, <2>1, <2>4 DEF AllAgree, AllBut, Agrees, Removing, Undoable
  <2> QED
    BY <1>1, <1>6, <2>1, <2>5, FinishRests, HealedAlone DEF Removing
<1>11. \A p \in Processes : ~Crash(p)
  BY DEF Crash
<1> QED
  BY <1>3, <1>4, <1>5, <1>7, <1>8, <1>9, <1>10, <1>11 DEF DeleteStep

\* The index is healed in every reachable state: between operations, and after the last start
\* has met no fault and no other process, it has a row for each artifact on the shelf, made for
\* its manifest and its alias, and no other; a deletion whose row could not be taken away puts
\* back what the row says.
THEOREM IndexHealed == Spec => []IndexIsHealed
<1>1. Init => HealInv
  BY DEF Init, HealInv
<1>2. CatalogInv /\ HealInv /\ [Next]_vars => HealInv'
  <2> SUFFICES ASSUME CatalogInv, HealInv, [Next]_vars PROVE HealInv'
    OBVIOUS
  <2>1. Server \in Processes /\ Importers \subseteq Processes /\ TypeOK
    BY DEF Processes, CatalogInv
  <2>2. CASE UNCHANGED vars
    <3>1. UNCHANGED <<dirty, job, contents, registry, index>>
      BY <2>2 DEF vars, storage
    <3>2. \A p \in Processes : Busy(p)' = Busy(p) /\ Mends(p)' = Mends(p)
      BY <3>1 DEF Busy, Mends, AllAgree, AllBut, Agrees, Found, RowOf
    <3>3. AllAgree' = AllAgree
      BY <3>1 DEF AllAgree, Agrees
    <3> QED
      BY <3>1, <3>2, <3>3 DEF HealInv
  <2>3. CASE Next
    BY <2>1, <2>3, HealedByReconcile, HealedByPublish, HealedByServer DEF Next
  <2> QED
    BY <2>2, <2>3
<1>3. HealInv => IndexIsHealed
  BY DEF HealInv, IndexIsHealed, Settled, AllAgree
<1> QED
  BY <1>1, <1>2, <1>3, CatalogInvariant, PTL DEF Spec

=============================================================================
