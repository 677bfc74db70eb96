--------------------------- MODULE BackgroundProofs ---------------------------
(***************************************************************************)
(* Proofs about the start-up of the pods, the Dask check, the TNS snapshot *)
(* and the retention sweep, each from an inductive invariant of its own    *)
(* part of the state, which the steps of the other parts leave alone.      *)
(***************************************************************************)
EXTENDS Background, FiniteSetTheorems, TLAPS

Periods == {PeriodOf[t] : t \in PeriodicTasks}

PodPlaces == {"migrating", "indexing", "recording", "register", "create", "superuser",
              "connecting", "polling", "started", "exited"}

PodRecords ==
    [pc : PodPlaces,
     attempt : 1 .. MaxConnects, next : 0 .. Len(Migrations) + 1,
     waitsFor : SUBSET (Pods \cup {Reader}), left : SUBSET PeriodicTasks,
     task : PeriodicTasks \cup {"none"}, found : BOOLEAN]

StartUpTyped ==
    /\ pod \in [Pods -> PodRecords]
    /\ lockHolder \in Pods \cup {"none"}
    /\ cut \subseteq Pods
    /\ snapshots \subseteq Pods \cup {Reader}
    /\ schema \in [applied : 0 .. Len(Migrations), index : IndexStates]
    /\ beat \in [intervals : [Periods -> Nat], enabled : SUBSET PeriodicTasks]
    /\ superuser \in {"missing", "unnamed", "exists"}

\* A pod in its initialization holds the lock, or its session was cut.
LockHeld == \A p \in Pods : pod[p].pc \in InInit /\ p \notin cut => lockHolder = p

\* The plan of a pod never runs ahead of what is applied, and the one migration
\* that is not atomic is built by one pod at a time.
PlanFits ==
    \A p \in Pods :
        /\ pod[p].pc = "migrating" => pod[p].next \in 1 .. schema.applied + 1
        /\ pod[p].pc \in {"indexing", "recording"} =>
              /\ schema.index = IF pod[p].pc = "indexing" THEN "building" ELSE "built"
              /\ pod[p].next = schema.applied + 1
              /\ pod[p].next \in 1 .. Len(Migrations)
              /\ Migrations[pod[p].next] = "concurrent"
              /\ \A q \in Pods : pod[q].pc \in {"indexing", "recording"} => q = p
        /\ pod[p].pc \in {"register", "create", "superuser", "started"} =>
              schema.applied = Len(Migrations)

\* The tasks a pod is past are registered.
TasksWritten ==
    \A p \in Pods :
        /\ pod[p].pc \in {"connecting", "polling", "migrating", "indexing", "recording", "exited"} =>
              pod[p].left = PeriodicTasks
        /\ pod[p].pc = "register" => PeriodicTasks \ pod[p].left \subseteq beat.enabled
        /\ pod[p].pc = "create" =>
              /\ pod[p].task \in PeriodicTasks
              /\ PeriodicTasks \ (pod[p].left \cup {pod[p].task}) \subseteq beat.enabled
        /\ pod[p].pc = "superuser" => beat.enabled = PeriodicTasks
        /\ pod[p].pc = "started" => beat.enabled = PeriodicTasks /\ superuser # "missing"

\* What a pod found is what is still there when it writes.
FoundIsThere ==
    cut = {} =>
        /\ \A d \in Periods : beat.intervals[d] <= 1
        /\ \A p \in Pods : pod[p].pc = "create" =>
              (pod[p].found <=> beat.intervals[PeriodOf[pod[p].task]] = 1)

StartUpInv == StartUpTyped /\ LockHeld /\ PlanFits /\ TasksWritten /\ FoundIsThere

LEMMA MigrationCount == Len(Migrations) \in Nat /\ MaxConnects \in Nat \ {0} /\ "none" \notin Pods
BY StartUpAssumption

LEMMA FreshTyped == Fresh \in PodRecords
BY MigrationCount DEF Fresh, PodRecords, PodPlaces

\* One pod's record is replaced.
LEMMA PodMoves ==
    ASSUME pod \in [Pods -> PodRecords], NEW p \in Pods, NEW r \in PodRecords,
           pod' = [pod EXCEPT ![p] = r]
    PROVE  pod' \in [Pods -> PodRecords] /\ pod'[p] = r /\ \A q \in Pods \ {p} : pod'[q] = pod[q]
OBVIOUS

\* The records the steps write: a new place, a new plan, a build, a task.
LEMMA PodWrites ==
    ASSUME NEW r \in PodRecords
    PROVE  /\ \A x \in PodPlaces : [r EXCEPT !.pc = x] \in PodRecords
           /\ \A x \in 1 .. MaxConnects : [r EXCEPT !.attempt = x] \in PodRecords
           /\ \A x \in 0 .. Len(Migrations) + 1 : [r EXCEPT !.next = x] \in PodRecords
           /\ \A x \in SUBSET (Pods \cup {Reader}) : [r EXCEPT !.waitsFor = x] \in PodRecords
           /\ \A x \in SUBSET PeriodicTasks : [r EXCEPT !.left = x] \in PodRecords
           /\ \A x \in PeriodicTasks : [r EXCEPT !.task = x] \in PodRecords
           /\ \A x \in BOOLEAN : [r EXCEPT !.found = x] \in PodRecords
BY DEF PodRecords

\* The invariant holds of every start, and from wherever the parts begin.
LEMMA StartUpBegins ==
    ASSUME NEW pc \in {"connecting", "exited"}, StartUpFrom(pc) PROVE StartUpInv
<1> USE MigrationCount, FreshTyped
<1>1. pod = [p \in Pods |-> [Fresh EXCEPT !.pc = pc]]
    BY DEF StartUpFrom
<1>2. [Fresh EXCEPT !.pc = pc] \in PodRecords
    BY PodWrites DEF PodPlaces
<1>3. \A p \in Pods : pod[p].pc = pc /\ pod[p].left = PeriodicTasks
    BY <1>1 DEF Fresh
<1>4. StartUpTyped
    <2>1. pod \in [Pods -> PodRecords]
        BY <1>1, <1>2
    <2>2. schema \in [applied : 0 .. Len(Migrations), index : IndexStates]
        BY DEF StartUpFrom, IndexStates
    <2>3. beat \in [intervals : [Periods -> Nat], enabled : SUBSET PeriodicTasks]
        BY DEF StartUpFrom, Periods
    <2> QED BY <2>1, <2>2, <2>3 DEF StartUpFrom, StartUpTyped
<1>5. LockHeld /\ PlanFits
    BY <1>3 DEF LockHeld, PlanFits, InInit
<1>6. TasksWritten
    BY <1>3 DEF TasksWritten
<1>7. FoundIsThere
    BY <1>3 DEF FoundIsThere, StartUpFrom, Periods
<1> QED BY <1>4, <1>5, <1>6, <1>7 DEF StartUpInv

\* A pod that exits keeps the invariant, whatever it was doing.
LEMMA EndedKeeps ==
    ASSUME StartUpInv, NEW p \in Pods, NEW pc \in {"exited"}, Ended(p, pc),
           UNCHANGED <<cut, schema, beat, superuser>>
    PROVE  StartUpInv'
<1> USE MigrationCount DEF StartUpInv
<1> DEFINE r == [Fresh EXCEPT !.pc = pc]
<1>1. /\ lockHolder' = IF lockHolder = p THEN "none" ELSE lockHolder
      /\ snapshots' = snapshots \ {p}
    BY DEF Ended
<1>2. /\ \A q \in Pods \ {p} : pod'[q] = pod[q]
      /\ pod'[p].pc = "exited" /\ pod'[p].left = PeriodicTasks
      /\ pod' \in [Pods -> PodRecords]
    <2>1. r \in PodRecords
        BY FreshTyped DEF PodRecords, PodPlaces
    <2>2. pod' = [pod EXCEPT ![p] = r]
        BY DEF Ended
    <2>3. r.pc = "exited" /\ r.left = PeriodicTasks
        BY DEF Fresh
    <2> QED BY <2>1, <2>2, <2>3 DEF StartUpTyped
<1>3. StartUpTyped'
    BY <1>1, <1>2 DEF StartUpTyped
<1>4. LockHeld'
    BY <1>1, <1>2 DEF LockHeld, InInit
<1>5. PlanFits' /\ TasksWritten' /\ FoundIsThere'
    BY <1>1, <1>2 DEF PlanFits, TasksWritten, FoundIsThere
<1> QED BY <1>3, <1>4, <1>5

\* The steps of one pod.  Each proof names what the step does to that pod; the
\* others are as they were.
LEMMA ConnectKeeps ==
    ASSUME StartUpInv, NEW p \in Pods, Connect(p) PROVE StartUpInv'
<1> USE MigrationCount DEF StartUpInv
<1>1. CASE ~ database /\ ~ (pod[p].attempt < MaxConnects)
    BY <1>1, EndedKeeps DEF Connect
<1>2. CASE database \/ pod[p].attempt < MaxConnects
    <2>1. /\ \A q \in Pods \ {p} : pod'[q] = pod[q]
          /\ pod'[p].pc \in {"connecting", "polling"}
          /\ pod'[p].left = pod[p].left
          /\ pod' \in [Pods -> PodRecords]
        <3> DEFINE r == IF database THEN [pod[p] EXCEPT !.pc = "polling"]
                        ELSE [pod[p] EXCEPT !.attempt = @ + 1]
        <3>1. pod[p] \in PodRecords
            BY DEF StartUpTyped
        <3>2. database \/ pod[p].attempt + 1 \in 1 .. MaxConnects
            BY <1>2, <3>1 DEF PodRecords
        <3>3. r \in PodRecords
            BY <3>1, <3>2, PodWrites DEF PodPlaces
        <3>4. pod' = [pod EXCEPT ![p] = r] /\ pod[p].pc = "connecting"
            BY <1>2 DEF Connect, Move
        <3>5. r.pc \in {"connecting", "polling"} /\ r.left = pod[p].left
            BY <3>1, <3>4 DEF PodRecords
        <3> QED BY <3>3, <3>4, <3>5, PodMoves DEF StartUpTyped
    <2>2. pod[p].pc = "connecting" /\ UNCHANGED <<lockHolder, snapshots, cut, schema, beat, superuser>>
        BY <1>2 DEF Connect
    <2>3. StartUpTyped'
        BY <2>1, <2>2 DEF StartUpTyped
    <2>4. LockHeld' /\ TasksWritten'
        BY <2>1, <2>2 DEF LockHeld, TasksWritten, InInit
    <2>5. PlanFits' /\ FoundIsThere'
        BY <2>1, <2>2 DEF PlanFits, FoundIsThere
    <2> QED BY <2>3, <2>4, <2>5
<1> QED BY <1>1, <1>2

LEMMA AcquireLockKeeps ==
    ASSUME StartUpInv, NEW p \in Pods, AcquireLock(p) PROVE StartUpInv'
<1> USE MigrationCount DEF StartUpInv
<1>1. /\ \A q \in Pods \ {p} : pod'[q] = pod[q]
      /\ pod'[p].pc = "migrating" /\ pod'[p].next = schema.applied + 1
      /\ pod'[p].left = pod[p].left
      /\ pod' \in [Pods -> PodRecords]
    <2> DEFINE r == [[pod[p] EXCEPT !.pc = "migrating"] EXCEPT !.next = schema.applied + 1]
    <2>1. pod[p] \in PodRecords /\ schema.applied + 1 \in 0 .. Len(Migrations) + 1
        BY DEF StartUpTyped
    <2>2. r \in PodRecords
        BY <2>1, PodWrites DEF PodPlaces
    <2>3. pod' = [pod EXCEPT ![p] = r]
        BY DEF AcquireLock, BeginMigrate
    <2>4. r.pc = "migrating" /\ r.next = schema.applied + 1 /\ r.left = pod[p].left
        BY <2>1 DEF PodRecords
    <2> QED BY <2>2, <2>3, <2>4, PodMoves DEF StartUpTyped
<1>2. /\ pod[p].pc = "polling" /\ lockHolder = "none" /\ lockHolder' = p
      /\ UNCHANGED <<snapshots, cut, schema, beat, superuser>>
    BY DEF AcquireLock
<1>3. StartUpTyped'
    BY <1>1, <1>2 DEF StartUpTyped
<1>4. LockHeld'
    BY <1>1, <1>2 DEF LockHeld
<1>5. PlanFits'
    BY <1>1, <1>2 DEF PlanFits, StartUpTyped
<1>6. TasksWritten' /\ FoundIsThere'
    BY <1>1, <1>2 DEF TasksWritten, FoundIsThere
<1> QED BY <1>3, <1>4, <1>5, <1>6

LEMMA MigrateKeeps ==
    ASSUME StartUpInv, NEW p \in Pods, Migrate(p) PROVE StartUpInv'
<1> USE MigrationCount DEF StartUpInv
<1> DEFINE next == pod[p].next
<1>1. /\ pod[p].pc = "migrating" /\ next \in 1 .. schema.applied + 1
      /\ schema.applied \in 0 .. Len(Migrations)
      /\ UNCHANGED <<cut, beat, superuser>>
    BY DEF Migrate, PlanFits, StartUpTyped
<1>2. CASE next > Len(Migrations)
    <2>1. /\ \A q \in Pods \ {p} : pod'[q] = pod[q]
          /\ pod'[p].pc = "register" /\ pod'[p].left = pod[p].left
          /\ pod' \in [Pods -> PodRecords]
        <3> DEFINE r == [pod[p] EXCEPT !.pc = "register"]
        <3>1. pod[p] \in PodRecords
            BY <1>1, <1>2 DEF StartUpTyped
        <3>2. r \in PodRecords
            BY <3>1, PodWrites DEF PodPlaces
        <3>3. pod' = [pod EXCEPT ![p] = r]
            BY <1>1, <1>2 DEF Migrate, Move
        <3>4. r.pc = "register" /\ r.left = pod[p].left
            BY <3>1 DEF PodRecords
        <3> QED BY <3>2, <3>3, <3>4, PodMoves DEF StartUpTyped
    <2>2. UNCHANGED <<lockHolder, snapshots, schema>>
        BY <1>1, <1>2 DEF Migrate
    <2>3. schema.applied = Len(Migrations)
        BY <1>1, <1>2
    <2>4. StartUpTyped'
        BY <1>1, <2>1, <2>2 DEF StartUpTyped
    <2>5. LockHeld'
        BY <1>1, <2>1, <2>2 DEF LockHeld, InInit
    <2>6. PlanFits'
        BY <1>1, <2>1, <2>2, <2>3 DEF PlanFits
    <2>7. TasksWritten' /\ FoundIsThere'
        BY <1>1, <2>1, <2>2 DEF TasksWritten, FoundIsThere
    <2> QED BY <2>4, <2>5, <2>6, <2>7
<1>3. CASE /\ ~ (next > Len(Migrations))
           /\ next # schema.applied + 1 \/ (Migrations[next] = "concurrent" /\ schema.index # "none")
    BY <1>1, <1>3, EndedKeeps DEF Migrate
<1>4. CASE /\ next <= Len(Migrations) /\ next = schema.applied + 1
           /\ Migrations[next] = "atomic"
    <2>1. /\ \A q \in Pods \ {p} : pod'[q] = pod[q]
          /\ pod'[p].pc = "migrating" /\ pod'[p].next = next + 1
          /\ pod'[p].left = pod[p].left
          /\ pod' \in [Pods -> PodRecords]
        <3> DEFINE r == [pod[p] EXCEPT !.next = next + 1]
        <3>1. pod[p] \in PodRecords /\ next + 1 \in 0 .. Len(Migrations) + 1
            BY <1>1, <1>4 DEF StartUpTyped
        <3>2. r \in PodRecords
            BY <3>1, PodWrites DEF PodPlaces
        <3>3. pod' = [pod EXCEPT ![p] = r]
            BY <1>1, <1>4 DEF Migrate
        <3>4. r.pc = pod[p].pc /\ r.next = next + 1 /\ r.left = pod[p].left
            BY <3>1 DEF PodRecords
        <3> QED BY <3>2, <3>3, <3>4, <1>1, PodMoves DEF StartUpTyped
    <2>2. /\ UNCHANGED <<lockHolder, snapshots>>
          /\ schema' = [schema EXCEPT !.applied = next]
        BY <1>1, <1>4 DEF Migrate
    <2>3. schema'.applied = next /\ schema'.index = schema.index
        BY <2>2 DEF StartUpTyped
    <2>4. StartUpTyped'
        BY <1>1, <1>4, <2>1, <2>2 DEF StartUpTyped
    <2>5. LockHeld'
        BY <1>1, <2>1, <2>2 DEF LockHeld, InInit
    <2>6. PlanFits'
        <3>1. \A q \in Pods : pod[q].pc \notin {"indexing", "recording"}
            BY <1>4 DEF PlanFits
        <3>2. \A q \in Pods : pod[q].pc \notin {"register", "create", "superuser", "started"}
            BY <1>1, <1>4 DEF PlanFits
        <3>3. \A q \in Pods : pod[q].pc = "migrating" => pod[q].next \in 1 .. next + 1
            BY <1>1, <1>4 DEF PlanFits, StartUpTyped
        <3> QED BY <1>1, <2>1, <2>3, <3>1, <3>2, <3>3 DEF PlanFits
    <2>7. TasksWritten' /\ FoundIsThere'
        BY <1>1, <2>1, <2>2 DEF TasksWritten, FoundIsThere
    <2> QED BY <2>4, <2>5, <2>6, <2>7
<1>5. CASE /\ next <= Len(Migrations) /\ next = schema.applied + 1
           /\ Migrations[next] # "atomic" /\ schema.index = "none"
    <2>1. /\ \A q \in Pods \ {p} : pod'[q] = pod[q]
          /\ pod'[p].pc = "indexing" /\ pod'[p].next = next
          /\ pod'[p].left = pod[p].left
          /\ pod' \in [Pods -> PodRecords]
        <3> DEFINE r == [[pod[p] EXCEPT !.pc = "indexing"] EXCEPT !.waitsFor = snapshots]
        <3>1. pod[p] \in PodRecords /\ snapshots \in SUBSET (Pods \cup {Reader})
            BY <1>1, <1>5 DEF StartUpTyped
        <3>2. r \in PodRecords
            <4>1. [pod[p] EXCEPT !.pc = "indexing"] \in PodRecords
                BY <3>1, PodWrites DEF PodPlaces
            <4> QED BY <3>1, <4>1, PodWrites
        <3>3. pod' = [pod EXCEPT ![p] = r]
            <4>1. pod' = [pod EXCEPT ![p].pc = "indexing", ![p].waitsFor = snapshots]
                BY <1>1, <1>5 DEF Migrate
            <4> QED BY <4>1
        <3>4. r.pc = "indexing" /\ r.next = next /\ r.left = pod[p].left
            BY <3>1 DEF PodRecords
        <3> QED BY <3>2, <3>3, <3>4, PodMoves DEF StartUpTyped
    <2>2. /\ UNCHANGED <<lockHolder, snapshots>>
          /\ schema' = [schema EXCEPT !.index = "building"]
        BY <1>1, <1>5 DEF Migrate
    <2>3. schema'.applied = schema.applied /\ schema'.index = "building"
        BY <2>2 DEF StartUpTyped
    <2>4. StartUpTyped'
        BY <1>1, <2>1, <2>2 DEF StartUpTyped, IndexStates
    <2>5. LockHeld'
        BY <1>1, <2>1, <2>2 DEF LockHeld, InInit
    <2>6. PlanFits'
        <3>1. \A q \in Pods : pod[q].pc \notin {"indexing", "recording"}
            BY <1>5 DEF PlanFits
        <3>2. Migrations[next] = "concurrent"
            <4>1. Migrations \in Seq({"atomic", "concurrent"}) /\ next \in 1 .. Len(Migrations)
                BY <1>1, <1>5, StartUpAssumption
            <4> QED BY <4>1, <1>5
        <3> QED BY <1>1, <1>5, <2>1, <2>3, <3>1, <3>2 DEF PlanFits
    <2>7. TasksWritten' /\ FoundIsThere'
        BY <1>1, <2>1, <2>2 DEF TasksWritten, FoundIsThere
    <2> QED BY <2>4, <2>5, <2>6, <2>7
<1> QED
    <2>1. Migrations \in Seq({"atomic", "concurrent"})
        BY StartUpAssumption
    <2> QED BY <1>1, <1>2, <1>3, <1>4, <1>5, <2>1

LEMMA IndexBuiltKeeps ==
    ASSUME StartUpInv, NEW p \in Pods, IndexBuilt(p) PROVE StartUpInv'
<1> USE MigrationCount DEF StartUpInv, IndexStates
<1>1. /\ pod[p].pc = "indexing" /\ pod[p].next = schema.applied + 1
      /\ pod[p].next \in 1 .. Len(Migrations) /\ Migrations[pod[p].next] = "concurrent"
      /\ \A q \in Pods : pod[q].pc \in {"indexing", "recording"} => q = p
    BY DEF IndexBuilt, PlanFits
<1>2. /\ UNCHANGED <<lockHolder, cut, snapshots, beat, superuser>>
      /\ schema' = [schema EXCEPT !.index = "built"]
    BY DEF IndexBuilt
<1>3. /\ \A q \in Pods \ {p} : pod'[q] = pod[q]
      /\ pod'[p].pc = "recording" /\ pod'[p].next = pod[p].next
      /\ pod'[p].left = pod[p].left
      /\ pod' \in [Pods -> PodRecords]
    <2> DEFINE r == [[pod[p] EXCEPT !.pc = "recording"] EXCEPT !.waitsFor = {}]
    <2>1. pod[p] \in PodRecords
        BY <1>1 DEF StartUpTyped
    <2>2. r \in PodRecords
        <3>1. [pod[p] EXCEPT !.pc = "recording"] \in PodRecords
            BY <2>1, PodWrites DEF PodPlaces
        <3> QED BY <3>1, PodWrites
    <2>3. pod' = [pod EXCEPT ![p] = r]
        BY <1>1 DEF IndexBuilt
    <2>4. r.pc = "recording" /\ r.next = pod[p].next /\ r.left = pod[p].left
        BY <2>1 DEF PodRecords
    <2> QED BY <2>2, <2>3, <2>4, PodMoves DEF StartUpTyped
<1>4. schema'.applied = schema.applied /\ schema'.index = "built"
    BY <1>2 DEF StartUpTyped
<1>5. StartUpTyped'
    BY <1>1, <1>2, <1>3 DEF StartUpTyped
<1>6. LockHeld'
    BY <1>1, <1>2, <1>3 DEF LockHeld, InInit
<1>7. PlanFits'
    BY <1>1, <1>3, <1>4 DEF PlanFits
<1>8. TasksWritten' /\ FoundIsThere'
    BY <1>1, <1>2, <1>3 DEF TasksWritten, FoundIsThere
<1> QED BY <1>5, <1>6, <1>7, <1>8

LEMMA RecordMigrationKeeps ==
    ASSUME StartUpInv, NEW p \in Pods, RecordMigration(p) PROVE StartUpInv'
<1> USE MigrationCount DEF StartUpInv
<1>1. /\ pod[p].pc = "recording" /\ pod[p].next = schema.applied + 1
      /\ pod[p].next \in 1 .. Len(Migrations)
      /\ \A q \in Pods : pod[q].pc \in {"indexing", "recording"} => q = p
    BY DEF RecordMigration, PlanFits
<1>2. /\ UNCHANGED <<lockHolder, cut, snapshots, beat, superuser>>
      /\ schema' = [applied |-> schema.applied + 1, index |-> "none"]
    BY DEF RecordMigration
<1>3. /\ \A q \in Pods \ {p} : pod'[q] = pod[q]
      /\ pod'[p].pc = "migrating" /\ pod'[p].next = pod[p].next + 1
      /\ pod'[p].left = pod[p].left
      /\ pod' \in [Pods -> PodRecords]
    <2> DEFINE r == [[pod[p] EXCEPT !.pc = "migrating"] EXCEPT !.next = @ + 1]
    <2>1. pod[p] \in PodRecords /\ pod[p].next + 1 \in 0 .. Len(Migrations) + 1
        BY <1>1 DEF StartUpTyped
    <2>2. r \in PodRecords
        <3>1. [pod[p] EXCEPT !.pc = "migrating"] \in PodRecords
            BY <2>1, PodWrites DEF PodPlaces
        <3>2. [pod[p] EXCEPT !.pc = "migrating"].next = pod[p].next
            BY <2>1 DEF PodRecords
        <3> QED BY <2>1, <3>1, <3>2, PodWrites
    <2>3. pod' = [pod EXCEPT ![p] = r]
        BY <1>1 DEF RecordMigration
    <2>4. r.pc = "migrating" /\ r.next = pod[p].next + 1 /\ r.left = pod[p].left
        BY <2>1 DEF PodRecords
    <2> QED BY <2>2, <2>3, <2>4, PodMoves DEF StartUpTyped
<1>4. StartUpTyped'
    BY <1>1, <1>2, <1>3 DEF StartUpTyped, IndexStates
<1>5. LockHeld'
    BY <1>1, <1>2, <1>3 DEF LockHeld, InInit
<1>6. PlanFits'
    BY <1>1, <1>2, <1>3 DEF PlanFits, StartUpTyped
<1>7. TasksWritten' /\ FoundIsThere'
    BY <1>1, <1>2, <1>3 DEF TasksWritten, FoundIsThere
<1> QED BY <1>4, <1>5, <1>6, <1>7

LEMMA SelectIntervalKeeps ==
    ASSUME StartUpInv, NEW p \in Pods, NEW t \in PeriodicTasks, SelectInterval(p, t)
    PROVE  StartUpInv'
<1> USE MigrationCount DEF StartUpInv
<1>1. CASE beat.intervals[PeriodOf[t]] > 1
    BY <1>1, EndedKeeps DEF SelectInterval
<1>2. CASE ~ (beat.intervals[PeriodOf[t]] > 1)
    <2>1. /\ pod[p].pc = "register" /\ t \in pod[p].left
          /\ UNCHANGED <<lockHolder, snapshots, cut, schema, beat, superuser>>
        BY <1>2 DEF SelectInterval
    <2>2. /\ \A q \in Pods \ {p} : pod'[q] = pod[q]
          /\ pod'[p].pc = "create" /\ pod'[p].task = t
          /\ pod'[p].left = pod[p].left \ {t}
          /\ pod'[p].found = (beat.intervals[PeriodOf[t]] = 1)
          /\ pod' \in [Pods -> PodRecords]
        <3> DEFINE r == [[[[pod[p] EXCEPT !.pc = "create"] EXCEPT !.left = @ \ {t}]
                             EXCEPT !.task = t] EXCEPT !.found = (beat.intervals[PeriodOf[t]] = 1)]
        <3>1. pod[p] \in PodRecords
            BY DEF StartUpTyped
        <3>2. pod[p].left \ {t} \in SUBSET PeriodicTasks
            BY <3>1 DEF PodRecords
        <3>3. [pod[p] EXCEPT !.pc = "create"] \in PodRecords
            BY <3>1, PodWrites DEF PodPlaces
        <3>4. r \in PodRecords
            <4> DEFINE s == [[pod[p] EXCEPT !.pc = "create"] EXCEPT !.left = pod[p].left \ {t}]
            <4>1. s \in PodRecords
                BY <3>2, <3>3, PodWrites
            <4>2. [s EXCEPT !.task = t] \in PodRecords
                BY <4>1, PodWrites
            <4>3. [[s EXCEPT !.task = t] EXCEPT !.found = (beat.intervals[PeriodOf[t]] = 1)]
                     \in PodRecords
                BY <4>2, PodWrites
            <4>4. [pod[p] EXCEPT !.pc = "create"].left = pod[p].left
                BY <3>1 DEF PodRecords
            <4> QED BY <4>3, <4>4
        <3>5. pod' = [pod EXCEPT ![p] = r]
            <4>1. pod' = [pod EXCEPT ![p].pc = "create", ![p].left = @ \ {t},
                                     ![p].task = t, ![p].found = (beat.intervals[PeriodOf[t]] = 1)]
                BY <1>2 DEF SelectInterval
            <4>2. ASSUME NEW f
                  PROVE  [pod EXCEPT ![p].pc = "create", ![p].left = @ \ {t}, ![p].task = t, ![p].found = f]
                         = [pod EXCEPT ![p] = [[[[pod[p] EXCEPT !.pc = "create"] EXCEPT !.left = @ \ {t}]
                                                   EXCEPT !.task = t] EXCEPT !.found = f]]
                OBVIOUS
            <4> QED BY <4>1, <4>2, Zenon
        <3>6. /\ r.pc = "create" /\ r.task = t /\ r.left = pod[p].left \ {t}
              /\ r.found = (beat.intervals[PeriodOf[t]] = 1)
            BY <3>1 DEF PodRecords
        <3> QED BY <3>4, <3>5, <3>6, PodMoves DEF StartUpTyped
    <2>3. StartUpTyped'
        BY <2>1, <2>2 DEF StartUpTyped
    <2>4. LockHeld' /\ PlanFits'
        BY <2>1, <2>2 DEF LockHeld, PlanFits, InInit
    <2>5. TasksWritten'
        BY <2>1, <2>2 DEF TasksWritten
    <2>6. FoundIsThere'
        BY <2>1, <2>2 DEF FoundIsThere
    <2> QED BY <2>3, <2>4, <2>5, <2>6
<1> QED BY <1>1, <1>2

LEMMA WriteTaskKeeps ==
    ASSUME StartUpInv, NEW p \in Pods, WriteTask(p) PROVE StartUpInv'
<1> USE MigrationCount DEF StartUpInv
<1> DEFINE t == pod[p].task
           d == PeriodOf[t]
           n == IF pod[p].found THEN beat.intervals[d] ELSE beat.intervals[d] + 1
<1>1. /\ pod[p].pc = "create" /\ t \in PeriodicTasks /\ d \in Periods
      /\ PeriodicTasks \ (pod[p].left \cup {t}) \subseteq beat.enabled
      /\ UNCHANGED <<lockHolder, cut, snapshots, schema, superuser>>
    BY DEF WriteTask, TasksWritten, Periods
<1>2. beat' = [intervals |-> [beat.intervals EXCEPT ![d] = n],
               enabled |-> beat.enabled \cup {t}]
    BY DEF WriteTask, StartUpTyped
<1>3. /\ \A q \in Pods \ {p} : pod'[q] = pod[q]
      /\ pod'[p].pc = IF pod[p].left = {} THEN "superuser" ELSE "register"
      /\ pod'[p].left = pod[p].left
      /\ pod' \in [Pods -> PodRecords]
    <2> DEFINE r == [pod[p] EXCEPT !.pc = IF pod[p].left = {} THEN "superuser" ELSE "register"]
    <2>1. pod[p] \in PodRecords
        BY <1>1 DEF StartUpTyped
    <2>2. r \in PodRecords
        BY <2>1, PodWrites DEF PodPlaces
    <2>3. pod' = [pod EXCEPT ![p] = r]
        BY <1>1 DEF WriteTask, Move
    <2>4. r.pc = (IF pod[p].left = {} THEN "superuser" ELSE "register") /\ r.left = pod[p].left
        BY <2>1 DEF PodRecords
    <2> QED BY <2>2, <2>3, <2>4, PodMoves DEF StartUpTyped
<1>4. beat.intervals \in [Periods -> Nat] /\ n \in Nat /\ beat.enabled \subseteq PeriodicTasks
    BY <1>1 DEF StartUpTyped
<1>5. StartUpTyped'
    BY <1>1, <1>2, <1>3, <1>4 DEF StartUpTyped
<1>6. LockHeld' /\ PlanFits'
    BY <1>1, <1>3 DEF LockHeld, PlanFits, InInit
<1>7. TasksWritten'
    <2>1. \A q \in Pods \ {p} : pod[q].pc \in {"superuser", "started"} => beat.enabled = PeriodicTasks
        BY DEF TasksWritten
    <2> QED BY <1>1, <1>2, <1>3, <1>4, <2>1 DEF TasksWritten
<1>8. FoundIsThere'
    <2> SUFFICES ASSUME cut = {} PROVE FoundIsThere'
        BY <1>1 DEF FoundIsThere
    <2>1. n <= 1
        BY <1>1, <1>4 DEF FoundIsThere
    <2>2. \A q \in Pods \ {p} : pod[q].pc # "create"
        BY <1>1 DEF LockHeld, InInit
    <2> QED BY <1>1, <1>2, <1>3, <1>4, <2>1, <2>2 DEF FoundIsThere
<1> QED BY <1>5, <1>6, <1>7, <1>8

LEMMA CreateSuperuserKeeps ==
    ASSUME StartUpInv, NEW p \in Pods, CreateSuperuser(p) PROVE StartUpInv'
<1> USE MigrationCount DEF StartUpInv
<1>1. CASE Ended(p, "exited") /\ UNCHANGED superuser
    BY <1>1, EndedKeeps DEF CreateSuperuser
<1>2. CASE /\ superuser' = IF superuser = "unnamed" THEN superuser ELSE "exists"
           /\ Ended(p, "started")
    <2>1. /\ pod[p].pc = "superuser"
          /\ superuser' \in {"unnamed", "exists"}
          /\ UNCHANGED <<cut, schema, beat>>
          /\ lockHolder' = IF lockHolder = p THEN "none" ELSE lockHolder
          /\ snapshots' = snapshots \ {p}
        BY <1>2 DEF CreateSuperuser, Ended
    <2>2. /\ \A q \in Pods \ {p} : pod'[q] = pod[q]
          /\ pod'[p].pc = "started" /\ pod'[p].left = PeriodicTasks
          /\ pod' \in [Pods -> PodRecords]
        <3> DEFINE r == [Fresh EXCEPT !.pc = "started"]
        <3>1. r \in PodRecords
            BY FreshTyped, PodWrites DEF PodPlaces
        <3>2. pod' = [pod EXCEPT ![p] = r]
            BY <1>2 DEF Ended
        <3>3. r.pc = "started" /\ r.left = PeriodicTasks
            BY DEF Fresh
        <3> QED BY <3>1, <3>2, <3>3, PodMoves DEF StartUpTyped
    <2>3. schema.applied = Len(Migrations) /\ beat.enabled = PeriodicTasks
        BY <2>1 DEF PlanFits, TasksWritten
    <2>4. StartUpTyped'
        BY <2>1, <2>2 DEF StartUpTyped
    <2>5. LockHeld'
        BY <2>1, <2>2 DEF LockHeld, InInit
    <2>6. PlanFits' /\ TasksWritten'
        BY <2>1, <2>2, <2>3 DEF PlanFits, TasksWritten
    <2>7. FoundIsThere'
        BY <2>1, <2>2 DEF FoundIsThere
    <2> QED BY <2>4, <2>5, <2>6, <2>7
<1> QED BY <1>1, <1>2 DEF CreateSuperuser

LEMMA RestartKeeps ==
    ASSUME StartUpInv, NEW p \in Pods, Restart(p) PROVE StartUpInv'
<1> USE MigrationCount DEF StartUpInv
<1>1. pod[p].pc = "exited" /\ UNCHANGED <<lockHolder, cut, snapshots, schema, beat, superuser>>
    BY DEF Restart
<1>2. /\ \A q \in Pods \ {p} : pod'[q] = pod[q]
      /\ pod'[p].pc = "connecting" /\ pod'[p].left = pod[p].left
      /\ pod' \in [Pods -> PodRecords]
    <2> DEFINE r == [pod[p] EXCEPT !.pc = "connecting"]
    <2>1. pod[p] \in PodRecords
        BY <1>1 DEF StartUpTyped
    <2>2. r \in PodRecords
        BY <2>1, PodWrites DEF PodPlaces
    <2>3. pod' = [pod EXCEPT ![p] = r]
        BY <1>1 DEF Restart, Move
    <2>4. r.pc = "connecting" /\ r.left = pod[p].left
        BY <2>1 DEF PodRecords
    <2> QED BY <2>2, <2>3, <2>4, PodMoves DEF StartUpTyped
<1>3. StartUpTyped' /\ LockHeld'
    BY <1>1, <1>2 DEF StartUpTyped, LockHeld, InInit
<1>4. PlanFits' /\ TasksWritten' /\ FoundIsThere'
    BY <1>1, <1>2 DEF PlanFits, TasksWritten, FoundIsThere
<1> QED BY <1>3, <1>4

LEMMA KillPodKeeps ==
    ASSUME StartUpInv, NEW p \in Pods, KillPod(p) PROVE StartUpInv'
<1> USE MigrationCount DEF StartUpInv
<1>1. /\ pod[p].pc # "exited" /\ UNCHANGED <<cut, beat, superuser>>
      /\ lockHolder' = IF lockHolder = p THEN "none" ELSE lockHolder
      /\ snapshots' = snapshots \ {p}
    BY DEF KillPod, Ended
<1>2. /\ \A q \in Pods \ {p} : pod'[q] = pod[q]
      /\ pod'[p].pc = "exited" /\ pod'[p].left = PeriodicTasks
      /\ pod' \in [Pods -> PodRecords]
    <2> DEFINE r == [Fresh EXCEPT !.pc = "exited"]
    <2>1. r \in PodRecords
        BY FreshTyped, PodWrites DEF PodPlaces
    <2>2. pod' = [pod EXCEPT ![p] = r]
        BY DEF KillPod, Ended
    <2>3. r.pc = "exited" /\ r.left = PeriodicTasks
        BY DEF Fresh
    <2> QED BY <2>1, <2>2, <2>3, PodMoves DEF StartUpTyped
<1>3. /\ schema' \in [applied : 0 .. Len(Migrations), index : IndexStates]
      /\ schema'.applied = schema.applied
      /\ pod[p].pc # "indexing" => schema' = schema
    BY DEF KillPod, StartUpTyped, IndexStates
<1>4. StartUpTyped'
    BY <1>1, <1>2, <1>3 DEF StartUpTyped
<1>5. LockHeld'
    BY <1>1, <1>2 DEF LockHeld, InInit
<1>6. PlanFits'
    BY <1>1, <1>2, <1>3 DEF PlanFits
<1>7. TasksWritten' /\ FoundIsThere'
    BY <1>1, <1>2 DEF TasksWritten, FoundIsThere
<1> QED BY <1>4, <1>5, <1>6, <1>7

LEMMA ReaderEndsKeeps ==
    ASSUME StartUpInv, ReaderEnds PROVE StartUpInv'
<1> USE MigrationCount DEF StartUpInv
<1>1. /\ UNCHANGED <<lockHolder, cut, schema, beat, superuser>>
      /\ snapshots' = snapshots \ {Reader}
    BY DEF ReaderEnds
<1>2. \A q \in Pods : /\ pod'[q].pc = pod[q].pc /\ pod'[q].next = pod[q].next
                      /\ pod'[q].left = pod[q].left /\ pod'[q].task = pod[q].task
                      /\ pod'[q].found = pod[q].found
    BY DEF ReaderEnds, StartUpTyped, PodRecords
<1>3. pod' \in [Pods -> PodRecords]
    <2> SUFFICES ASSUME NEW q \in Pods
                 PROVE  [pod[q] EXCEPT !.waitsFor = @ \ {Reader}] \in PodRecords
        BY DEF ReaderEnds
    <2>1. pod[q] \in PodRecords
        BY DEF StartUpTyped
    <2>2. pod[q].waitsFor \ {Reader} \in SUBSET (Pods \cup {Reader})
        BY <2>1 DEF PodRecords
    <2> QED BY <2>1, <2>2, PodWrites
<1>4. StartUpTyped'
    BY <1>1, <1>3 DEF StartUpTyped
<1>5. LockHeld' /\ PlanFits'
    BY <1>1, <1>2 DEF LockHeld, PlanFits
<1>6. TasksWritten' /\ FoundIsThere'
    BY <1>1, <1>2 DEF TasksWritten, FoundIsThere
<1> QED BY <1>4, <1>5, <1>6

\* What happens to no pod's own record.
LEMMA OtherStepsKeep ==
    ASSUME StartUpInv,
           \/ \E p \in Pods : CutSession(p)
           \/ DatabaseUp \/ DatabaseDown \/ DropIndex \/ ReaderOpens
           \/ UNCHANGED startVars
    PROVE  StartUpInv'
<1> USE MigrationCount DEF StartUpInv
<1>1. ASSUME NEW p \in Pods, CutSession(p) PROVE StartUpInv'
    BY <1>1 DEF CutSession, StartUpTyped, LockHeld, PlanFits, TasksWritten, FoundIsThere
<1>2. CASE DropIndex
    <2>1. /\ schema.index \in {"invalid", "built"} /\ schema'.applied = schema.applied
          /\ schema' \in [applied : 0 .. Len(Migrations), index : IndexStates]
        BY <1>2 DEF DropIndex, StartUpTyped, IndexStates
    <2>2. \A p \in Pods : pod[p].pc \notin {"indexing", "recording"}
        BY <1>2 DEF DropIndex, PlanFits
    <2> QED BY <1>2, <2>1, <2>2
            DEF DropIndex, StartUpTyped, LockHeld, PlanFits, TasksWritten, FoundIsThere
<1>3. CASE DatabaseUp \/ DatabaseDown \/ ReaderOpens \/ UNCHANGED startVars
    BY <1>3 DEF DatabaseUp, DatabaseDown, ReaderOpens, startVars,
                StartUpTyped, LockHeld, PlanFits, TasksWritten, FoundIsThere
<1> QED BY <1>1, <1>2, <1>3

LEMMA StartUpGoesOn ==
    ASSUME StartUpInv, StartUpStep \/ UNCHANGED startVars PROVE StartUpInv'
<1>1. ASSUME NEW p \in Pods, PodStep(p) PROVE StartUpInv'
    BY <1>1, ConnectKeeps, AcquireLockKeeps, MigrateKeeps, IndexBuiltKeeps, RecordMigrationKeeps, SelectIntervalKeeps,
       WriteTaskKeeps, CreateSuperuserKeeps, RestartKeeps DEF PodStep
<1> QED BY <1>1, KillPodKeeps, ReaderEndsKeeps, OtherStepsKeep DEF StartUpStep, Recovery

-----------------------------------------------------------------------------
DaskTyped ==
    /\ cluster \in [up : BOOLEAN, scheduler : {"same", "other", "unreported"},
                    app : {"same", "missing"}, workers : [DaskWorkers -> Builds \cup {Gone}]]
    /\ master \in [pc : {"connecting", "waiting", "versions", "probing", "started", "unverified",
                         "exited"},
                   left : 0 .. Timeout, backoff : 1 .. BackoffMax, drift : BOOLEAN,
                   compared : SUBSET {"same", "other", "missing", "gone"}]

DaskInv == DaskTyped /\ VerifiedMeansCompared

LEMMA DaskBegins ==
    ASSUME DaskInit \/ DaskAtRest PROVE DaskInv
<1>1. PICK workers \in [DaskWorkers -> Builds \cup {Gone}], up \in BOOLEAN,
           app \in {"same", "missing"}, pc \in {"connecting", "exited"} :
         DaskFrom(pc, workers, up, app)
    <2>1. [core |-> "same", engine |-> "same"] \in Builds
        BY DEF Builds
    <2>2. CASE DaskInit
        <3>1. PICK workers \in [DaskWorkers -> {Gone, [core |-> "same", engine |-> "same"]}],
                   up \in BOOLEAN, app \in {"same", "missing"} :
                 DaskFrom("connecting", workers, up, app)
            BY <2>2 DEF DaskInit
        <3>2. workers \in [DaskWorkers -> Builds \cup {Gone}]
            BY <2>1, <3>1
        <3> QED BY <3>1, <3>2
    <2>3. CASE DaskAtRest
        <3>1. [w \in DaskWorkers |-> Gone] \in [DaskWorkers -> Builds \cup {Gone}]
            OBVIOUS
        <3> QED BY <2>3, <3>1 DEF DaskAtRest
    <2> QED BY <2>2, <2>3
<1>2. FreshMaster \in [pc : {"connecting"}, left : 0 .. Timeout, backoff : 1 .. BackoffMax,
                      drift : BOOLEAN, compared : SUBSET {"same", "other", "missing", "gone"}]
    BY DaskAssumption DEF FreshMaster
<1>3. master = [FreshMaster EXCEPT !.pc = pc] /\ pc # "started"
    BY <1>1 DEF DaskFrom
<1>4. cluster = [up |-> up, scheduler |-> "same", app |-> app, workers |-> workers]
    BY <1>1 DEF DaskFrom
<1>5. DaskTyped
    BY <1>2, <1>3, <1>4 DEF DaskTyped
<1> QED BY <1>2, <1>3, <1>5 DEF DaskInv, VerifiedMeansCompared

LEMMA ProbeKeeps ==
    ASSUME DaskInv, Probe PROVE DaskInv'
<1> USE DEF DaskInv
<1>1. CASE Unreachable
    BY <1>1 DEF Probe, Unreachable, To, DaskTyped, VerifiedMeansCompared
<1>2. CASE ~ Unreachable
    <2> DEFINE engines == {cluster.workers[w].engine : w \in Registered}
    <2>1. /\ master' = [master EXCEPT
                !.pc = IF master.drift \/ EngineDrift(Registered) THEN "exited" ELSE "started",
                !.compared = engines]
          /\ UNCHANGED cluster
        BY <1>2 DEF Probe
    <2>2. engines \subseteq {"same", "other", "missing", "gone"}
        BY DEF DaskTyped, Registered, Builds, Gone
    <2>3. DaskTyped'
        BY <2>1, <2>2 DEF DaskTyped
    <2>4. ~ EngineDrift(Registered) => engines = {cluster.app}
        BY DEF EngineDrift
    <2> QED BY <2>1, <2>3, <2>4 DEF DaskTyped, VerifiedMeansCompared
<1> QED BY <1>1, <1>2

LEMMA DaskGoesOn ==
    ASSUME DaskInv, DaskStep \/ UNCHANGED daskVars PROVE DaskInv'
<1> USE DaskAssumption DEF DaskInv
<1>1. CASE ConnectFails
    <2>1. PICK spent \in 0 .. ConnectTime :
             LET left == master.left - spent
             IN  master' = IF left <= 0 THEN [master EXCEPT !.pc = "exited"]
                           ELSE [master EXCEPT !.left = left - Smaller(master.backoff, left),
                                               !.backoff = Smaller(@ * 2, BackoffMax)]
        BY <1>1 DEF ConnectFails
    <2>2. DaskTyped'
        <3>1. UNCHANGED cluster
            BY <1>1 DEF ConnectFails
        <3>2. CASE master.left - spent <= 0
            BY <2>1, <3>1, <3>2 DEF DaskTyped
        <3>3. CASE ~ (master.left - spent <= 0)
            <4> DEFINE left == master.left - spent
            <4>1. left - Smaller(master.backoff, left) \in 0 .. Timeout
                BY <3>3 DEF DaskTyped, Smaller
            <4>2. Smaller(master.backoff * 2, BackoffMax) \in 1 .. BackoffMax
                BY DEF DaskTyped, Smaller
            <4>3. master' = [master EXCEPT !.left = left - Smaller(master.backoff, left),
                                           !.backoff = Smaller(master.backoff * 2, BackoffMax)]
                BY <2>1, <3>3
            <4> HIDE DEF left
            <4> QED BY <3>1, <4>1, <4>2, <4>3 DEF DaskTyped
        <3> QED BY <3>2, <3>3
    <2> QED BY <1>1, <2>1, <2>2 DEF ConnectFails, DaskTyped, VerifiedMeansCompared
<1>2. CASE Connected
    BY <1>2 DEF Connected, To, DaskTyped, VerifiedMeansCompared
<1>3. CASE WaitForWorker
    <2>1. UNCHANGED cluster /\ master.pc = "waiting"
        BY <1>3 DEF WaitForWorker
    <2>2. \/ master' = [master EXCEPT !.pc = "versions"]
          \/ master' = [master EXCEPT !.pc = "exited"]
          \/ master' = [master EXCEPT !.pc = "exited", !.left = 0]
        BY <1>3 DEF WaitForWorker, To
    <2>3. CASE master' = [master EXCEPT !.pc = "versions"]
        BY <2>1, <2>3 DEF DaskTyped, VerifiedMeansCompared
    <2>4. CASE master' = [master EXCEPT !.pc = "exited"]
        BY <2>1, <2>4 DEF DaskTyped, VerifiedMeansCompared
    <2>5. CASE master' = [master EXCEPT !.pc = "exited", !.left = 0]
        <3>1. 0 \in 0 .. Timeout
            OBVIOUS
        <3> QED BY <2>1, <2>5, <3>1 DEF DaskTyped, VerifiedMeansCompared
    <2> QED BY <2>2, <2>3, <2>4, <2>5
<1>4. CASE CheckVersions
    BY <1>4 DEF CheckVersions, Unreachable, To, CoreDrift, DaskTyped, VerifiedMeansCompared
<1>5. CASE RestartWorker
    BY <1>5 DEF RestartWorker, FreshMaster, DaskTyped, VerifiedMeansCompared
<1>6. CASE WorkerChanges
    BY <1>6 DEF WorkerChanges, Change, DaskTyped, VerifiedMeansCompared
<1>7. CASE SchedulerChanges
    BY <1>7 DEF SchedulerChanges, Change, DaskTyped, VerifiedMeansCompared
<1>8. CASE ProbeLosesWorker
    BY <1>8 DEF ProbeLosesWorker, To, DaskTyped, VerifiedMeansCompared
<1>9. CASE UNCHANGED daskVars
    BY <1>9 DEF daskVars, DaskTyped, VerifiedMeansCompared
<1> QED BY <1>1, <1>2, <1>3, <1>4, <1>5, <1>6, <1>7, <1>8, <1>9, ProbeKeeps DEF DaskStep, MasterStep

-----------------------------------------------------------------------------
Listings == [TnsNames -> 0 .. MaxVersion]
Hours == 0 .. Day - 1

TnsTyped ==
    /\ tns \in [listed : Listings, changed : SUBSET TnsNames, full : Listings,
                delta : [Hours -> Listings], listing : [Hours -> Listings]]
    /\ hour \in Hours
    /\ snapshot \in [rows : Listings, age : -1 .. MaxAge + 1, loaded : Listings,
                     complete : BOOLEAN, behind : 0 .. 3, asOf : Listings]
    /\ refresh \in [pc : {"idle", "due", "download", "merge"}, seed : BOOLEAN, hour : Hours,
                    attempt : 1 .. Attempts, records : Listings, crossed : BOOLEAN,
                    credentials : BOOLEAN]
    /\ reader \in [pc : {"idle", "unchecked", "matching", "checked"}, known : Listings,
                   found : Listings]

\* The rows never lose an object, so they hold what any epoch read before did.
RowsHold(known) == \A n \in TnsNames : known[n] > 0 => snapshot.rows[n] > 0

TnsInv ==
    /\ TnsTyped
    /\ RowsHold(snapshot.loaded)
    /\ reader.pc = "matching" => RowsHold(reader.known)
    /\ CheckedCoversEpoch

LEMMA TnsBegins ==
    ASSUME TnsInit \/ TnsAtRest PROVE TnsInv
<1>1. PICK listed \in [TnsNames -> {0, 1}], seeded \in BOOLEAN, credentials \in BOOLEAN :
         TnsStart(listed, seeded, credentials)
    BY DEF TnsInit, TnsAtRest, Nothing
<1>2. listed \in Listings /\ Nothing \in Listings
    BY <1>1, TnsAssumption DEF Listings, Nothing
<1>3. TnsTyped
    BY <1>1, <1>2, TnsAssumption DEF TnsStart, TnsTyped, Hours
<1> QED BY <1>1, <1>2, <1>3 DEF TnsStart, TnsInv, RowsHold, CheckedCoversEpoch, Nothing

LEMMA HourTurnsKeeps ==
    ASSUME TnsInv, HourTurns PROVE TnsInv'
<1> USE TnsAssumption
<1> DEFINE h == (hour + 1) % Day
           d == [n \in TnsNames |-> IF n \in tns.changed THEN tns.listed[n] ELSE 0]
<1>1. TnsTyped
    BY DEF TnsInv
<1>2. h \in Hours
    BY <1>1 DEF TnsTyped, Hours
<1>3. d \in Listings
    BY <1>1 DEF TnsTyped, Listings
<1>4. Nothing \in Listings
    BY DEF Nothing, Listings
<1>5. /\ hour' = h
      /\ tns' = [tns EXCEPT !.changed = {}, !.delta[h] = d, !.listing[h] = tns.listed,
                            !.full = IF h = 0 THEN tns.listed ELSE @]
      /\ snapshot' = [snapshot EXCEPT !.age = IF Stale(@) THEN @ ELSE @ + 1,
                                     !.behind = IF @ = 3 THEN 3 ELSE @ + 1]
      /\ refresh' = IF refresh.pc \in {"idle", "due"} THEN [refresh EXCEPT !.pc = "due"]
                    ELSE [refresh EXCEPT !.crossed = TRUE]
      /\ reader' = IF reader.pc = "matching" THEN reader
                   ELSE [reader EXCEPT !.pc = "idle", !.known = Nothing, !.found = Nothing]
    BY DEF HourTurns
<1>6. tns' \in [listed : Listings, changed : SUBSET TnsNames, full : Listings,
                delta : [Hours -> Listings], listing : [Hours -> Listings]]
    BY <1>1, <1>2, <1>3, <1>5 DEF TnsTyped
<1>7. snapshot'.age \in -1 .. MaxAge + 1 /\ snapshot'.behind \in 0 .. 3
    <2>1. snapshot.age \in -1 .. MaxAge + 1 /\ snapshot.behind \in 0 .. 3
        BY <1>1 DEF TnsTyped
    <2>2. /\ snapshot'.age = IF Stale(snapshot.age) THEN snapshot.age ELSE snapshot.age + 1
          /\ snapshot'.behind = IF snapshot.behind = 3 THEN 3 ELSE snapshot.behind + 1
        BY <1>1, <1>5 DEF TnsTyped
    <2> QED BY <2>1, <2>2 DEF Stale
<1>8. TnsTyped'
    BY <1>1, <1>2, <1>4, <1>5, <1>6, <1>7 DEF TnsTyped
<1>9. snapshot'.rows = snapshot.rows /\ snapshot'.loaded = snapshot.loaded
    BY <1>1, <1>5 DEF TnsTyped
<1> QED BY <1>1, <1>5, <1>8, <1>9 DEF TnsInv, TnsTyped, RowsHold, CheckedCoversEpoch

LEMMA MergeKeeps ==
    ASSUME TnsInv, Merge PROVE TnsInv'
<1> USE TnsAssumption
<1>1. TnsTyped
    BY DEF TnsInv
<1>2. Upserted \in Listings /\ \A n \in TnsNames : snapshot.rows[n] > 0 => Upserted[n] > 0
    BY <1>1 DEF TnsTyped, Upserted, Listings
<1>3. /\ Completeness.complete \in BOOLEAN /\ Completeness.behind \in 0 .. 3
      /\ Completeness.asOf \in Listings
    <2> DEFINE c == IF refresh.seed THEN refresh.hour = 0
                    ELSE snapshot.complete /\ snapshot.behind = IF refresh.crossed THEN 2 ELSE 1
    <2>1. snapshot.complete \in BOOLEAN
        BY <1>1 DEF TnsTyped
    <2>2. c \in BOOLEAN
        BY <2>1
    <2>3. tns.listing[refresh.hour] \in Listings
        BY <1>1 DEF TnsTyped
    <2> HIDE DEF c
    <2>4. Completeness = [complete |-> c, behind |-> IF refresh.crossed THEN 1 ELSE 0,
                          asOf |-> tns.listing[refresh.hour]]
        BY DEF Completeness, c
    <2> QED BY <2>2, <2>3, <2>4
<1>4. /\ snapshot' = Stamped(Upserted)
      /\ UNCHANGED <<tns, hour, reader>>
      /\ refresh' = Over
    BY DEF Merge
<1>5. Over \in [pc : {"idle", "due", "download", "merge"}, seed : BOOLEAN, hour : Hours,
                 attempt : 1 .. Attempts, records : Listings, crossed : BOOLEAN,
                 credentials : BOOLEAN]
    BY <1>1 DEF Over, TnsTyped, Nothing, Listings, Hours
<1>6. /\ Stamped(Upserted) \in [rows : Listings, age : -1 .. MaxAge + 1, loaded : Listings,
                               complete : BOOLEAN, behind : 0 .. 3, asOf : Listings]
      /\ Stamped(Upserted).rows = Upserted /\ Stamped(Upserted).loaded = Upserted
    BY <1>2, <1>3 DEF Stamped
<1>7. TnsTyped'
    BY <1>1, <1>4, <1>5, <1>6 DEF TnsTyped
<1> QED BY <1>2, <1>4, <1>6, <1>7 DEF TnsInv, RowsHold, CheckedCoversEpoch

LEMMA RefreshKeeps ==
    ASSUME TnsInv, StartRefresh \/ Download \/ DownloadFails PROVE TnsInv'
<1> USE TnsAssumption
<1> DEFINE Jobs == [pc : {"idle", "due", "download", "merge"}, seed : BOOLEAN, hour : Hours,
                    attempt : 1 .. Attempts, records : Listings, crossed : BOOLEAN,
                    credentials : BOOLEAN]
<1>1. TnsTyped /\ UNCHANGED <<tns, hour, snapshot, reader>>
    BY DEF TnsInv, StartRefresh, Download, DownloadFails
<1>2. Over \in Jobs
    BY <1>1 DEF Over, TnsTyped, Nothing, Listings, Hours
<1>3. FileOf(refresh) \in Listings
    BY <1>1 DEF FileOf, TnsTyped
<1>4. refresh' \in Jobs
    <2>1. CASE StartRefresh
        BY <1>1, <1>2, <2>1 DEF StartRefresh, TnsTyped, Stale
    <2>2. CASE Download
        BY <1>1, <1>2, <1>3, <2>2 DEF Download, TnsTyped
    <2>3. CASE DownloadFails
        BY <1>1, <1>2, <2>3 DEF DownloadFails, TnsTyped
    <2> QED BY <2>1, <2>2, <2>3
<1>5. TnsTyped'
    BY <1>1, <1>4 DEF TnsTyped
<1> QED BY <1>1, <1>5 DEF TnsInv, RowsHold, CheckedCoversEpoch

\* The hour after, with midnight after the last.
NextHour(k) == IF k = Day - 1 THEN 0 ELSE k + 1

\* A file of changes leads from what TNS listed before it to what it lists after.
Publishes(before, delta, after) ==
    \A n \in TnsNames : after[n] = IF delta[n] > 0 THEN delta[n] ELSE before[n]

\* Whatever was published or merged is still listed; the file of the present
\* hour holds what changed in the hour before.
FilesAgree ==
    /\ tns.full = tns.listing[0]
    /\ \A n \in TnsNames :
          /\ n \in tns.changed => tns.listed[n] > 0
          /\ n \notin tns.changed => tns.listed[n] = tns.listing[hour][n]
          /\ \/ snapshot.rows[n] > 0 \/ tns.full[n] > 0 \/ refresh.records[n] > 0
             \/ \E k \in Hours : tns.delta[k][n] > 0
             => tns.listing[hour][n] > 0
    /\ \A k \in Hours : NextHour(k) = hour => Publishes(tns.listing[k], tns.delta[hour], tns.listing[hour])

\* A refresh runs in its hour or the next and holds the file of its own.
JobFits ==
    /\ refresh.pc \in {"idle", "due"} => ~ refresh.crossed
    /\ refresh.pc \in {"download", "merge"} =>
          /\ hour = IF refresh.crossed THEN NextHour(refresh.hour) ELSE refresh.hour
          /\ \A n \in TnsNames : snapshot.rows[n] > 0 => tns.listing[refresh.hour][n] > 0
    /\ refresh.pc = "merge" =>
          /\ ~ refresh.seed => refresh.records = tns.delta[refresh.hour]
          /\ refresh.seed /\ refresh.hour = 0 => refresh.records = tns.listing[0]

\* A complete snapshot lacks only the files published since its last merge.
CompleteFollows ==
    snapshot.complete =>
        /\ snapshot.rows = snapshot.asOf
        /\ snapshot.behind = 0 => snapshot.asOf = tns.listing[hour]
        /\ snapshot.behind = 1 => Publishes(snapshot.asOf, tns.delta[hour], tns.listing[hour])
        /\ snapshot.behind = 2 =>
              \A k \in Hours : NextHour(k) = hour =>
                  Publishes(snapshot.asOf, tns.delta[k], tns.listing[k])

FollowInv == TnsInv /\ FilesAgree /\ JobFits /\ CompleteFollows

LEMMA HoursFollow ==
    ASSUME NEW k \in Hours
    PROVE  /\ NextHour(k) = (k + 1) % Day
           /\ NextHour(k) \in Hours /\ NextHour(k) # k
           /\ \A j \in Hours : NextHour(j) = NextHour(k) => j = k
<1> USE TnsAssumption DEF Hours
<1>1. CASE k = Day - 1
    BY <1>1 DEF NextHour
<1>2. CASE k # Day - 1
    <2>1. k + 1 \in 0 .. Day - 1
        BY <1>2
    <2>2. (k + 1) % Day = k + 1
        BY <2>1
    <2> QED BY <1>2, <2>1, <2>2 DEF NextHour
<1> QED BY <1>1, <1>2

LEMMA FollowBegins ==
    ASSUME TnsInit \/ TnsAtRest PROVE FollowInv
<1>1. PICK listed \in [TnsNames -> {0, 1}], seeded \in BOOLEAN, credentials \in BOOLEAN :
         TnsStart(listed, seeded, credentials)
    BY DEF TnsInit, TnsAtRest, Nothing
<1>2. /\ hour = 0 /\ hour \in Hours /\ 0 \in Hours
      /\ \A k \in Hours : tns.listing[k] = listed /\ tns.delta[k] = Nothing
      /\ tns.full = listed /\ tns.listed = listed /\ tns.changed = {}
      /\ refresh.pc \in {"idle", "due"} /\ ~ refresh.crossed /\ refresh.records = Nothing
      /\ snapshot.complete = seeded /\ snapshot.behind = 0
      /\ snapshot.asOf = snapshot.rows
      /\ snapshot.rows = IF seeded THEN listed ELSE Nothing
    BY <1>1, TnsAssumption DEF TnsStart, Hours
<1>3. \A n \in TnsNames : Nothing[n] = 0 /\ listed[n] \in {0, 1}
    BY <1>1 DEF Nothing
<1>4. FilesAgree
    BY <1>2, <1>3 DEF FilesAgree, Publishes
<1>5. JobFits /\ CompleteFollows
    BY <1>2, <1>3 DEF JobFits, CompleteFollows, Publishes
<1> QED BY <1>4, <1>5, TnsBegins DEF FollowInv

\* At the turn of the hour one file is published under the new hour's number.
LEMMA HourTurnsFollows ==
    ASSUME FollowInv, HourTurns PROVE FilesAgree' /\ JobFits' /\ CompleteFollows'
<1> USE TnsAssumption
<1> DEFINE h == NextHour(hour)
           d == [n \in TnsNames |-> IF n \in tns.changed THEN tns.listed[n] ELSE 0]
<1>1. TnsTyped /\ FilesAgree /\ JobFits /\ CompleteFollows
    BY DEF FollowInv, TnsInv
<1>2. /\ h = (hour + 1) % Day /\ h \in Hours /\ hour \in Hours /\ h # hour /\ 0 \in Hours
      /\ \A j \in Hours : NextHour(j) = h <=> j = hour
    <2>1. hour \in Hours /\ 0 \in Hours
        BY <1>1 DEF TnsTyped, Hours
    <2> QED BY <2>1, HoursFollow
<1>3. /\ hour' = h
      /\ tns' = [tns EXCEPT !.changed = {}, !.delta[h] = d, !.listing[h] = tns.listed,
                            !.full = IF h = 0 THEN tns.listed ELSE @]
      /\ snapshot' = [snapshot EXCEPT !.age = IF Stale(@) THEN @ ELSE @ + 1,
                                     !.behind = IF @ = 3 THEN 3 ELSE @ + 1]
      /\ refresh' = IF refresh.pc \in {"idle", "due"} THEN [refresh EXCEPT !.pc = "due"]
                    ELSE [refresh EXCEPT !.crossed = TRUE]
      /\ refresh.pc # "idle" => ~ refresh.crossed
    BY <1>2 DEF HourTurns
<1>4. /\ tns'.changed = {} /\ tns'.listed = tns.listed
      /\ tns'.delta[h] = d /\ tns'.listing[h] = tns.listed
      /\ \A k \in Hours \ {h} : tns'.delta[k] = tns.delta[k] /\ tns'.listing[k] = tns.listing[k]
      /\ tns'.full = IF h = 0 THEN tns.listed ELSE tns.full
    BY <1>1, <1>2, <1>3 DEF TnsTyped
<1>5. /\ snapshot'.rows = snapshot.rows /\ snapshot'.asOf = snapshot.asOf
      /\ snapshot'.complete = snapshot.complete
      /\ snapshot'.behind = IF snapshot.behind = 3 THEN 3 ELSE snapshot.behind + 1
    BY <1>1, <1>3 DEF TnsTyped
<1>6. /\ refresh'.records = refresh.records /\ refresh'.seed = refresh.seed
      /\ refresh'.hour = refresh.hour
      /\ refresh.pc \in {"idle", "due"} => refresh'.pc = "due" /\ refresh'.crossed = refresh.crossed
      /\ refresh.pc \in {"download", "merge"} =>
            refresh'.pc = refresh.pc /\ refresh'.crossed /\ ~ refresh.crossed
      /\ refresh.pc \in {"idle", "due", "download", "merge"}
    BY <1>1, <1>3 DEF TnsTyped
<1>7. /\ Publishes(tns.listing[hour], d, tns.listed)
      /\ \A n \in TnsNames : tns.listing[hour][n] > 0 => tns.listed[n] > 0
      /\ \A n \in TnsNames : d[n] > 0 => tns.listed[n] > 0
    BY <1>1 DEF FilesAgree, Publishes, TnsTyped, Listings
<1>8. FilesAgree'
    <2>1. tns'.full = tns'.listing[0]
        BY <1>1, <1>2, <1>4 DEF FilesAgree
    <2>2. \A k \in Hours : NextHour(k) = h => Publishes(tns'.listing[k], tns'.delta[h], tns'.listing[h])
        BY <1>2, <1>4, <1>7
    <2>3. ASSUME NEW n \in TnsNames,
                 \/ snapshot'.rows[n] > 0 \/ tns'.full[n] > 0 \/ refresh'.records[n] > 0
                 \/ \E k \in Hours : tns'.delta[k][n] > 0
          PROVE  tns'.listing[h][n] > 0
        BY <1>1, <1>4, <1>5, <1>6, <1>7, <2>3 DEF FilesAgree
    <2> QED BY <1>3, <1>4, <2>1, <2>2, <2>3 DEF FilesAgree, Publishes
<1>9. JobFits'
    <2>1. CASE refresh.pc \in {"idle", "due"}
        BY <1>1, <1>6, <2>1 DEF JobFits
    <2>2. CASE refresh.pc \in {"download", "merge"}
        <3>1. refresh.hour = hour /\ refresh'.hour # h
            BY <1>1, <1>2, <1>6, <2>2 DEF JobFits
        <3>2. refresh.hour = 0 => 0 # h
            BY <3>1, <1>2
        <3> QED BY <1>1, <1>2, <1>3, <1>4, <1>5, <1>6, <2>2, <3>1, <3>2 DEF JobFits
    <2> QED BY <1>6, <2>1, <2>2
<1>10. CompleteFollows'
    <2> SUFFICES ASSUME snapshot.complete
                 PROVE  /\ snapshot'.rows = snapshot'.asOf
                        /\ snapshot'.behind = 0 => snapshot'.asOf = tns'.listing[h]
                        /\ snapshot'.behind = 1 => Publishes(snapshot'.asOf, tns'.delta[h], tns'.listing[h])
                        /\ snapshot'.behind = 2 =>
                              \A k \in Hours : NextHour(k) = h =>
                                  Publishes(snapshot'.asOf, tns'.delta[k], tns'.listing[k])
        BY <1>3, <1>5 DEF CompleteFollows, Publishes
    <2>1. snapshot.behind \in 0 .. 3
        BY <1>1 DEF TnsTyped
    <2>2. snapshot'.behind # 0 /\ snapshot'.rows = snapshot'.asOf
        BY <1>1, <1>5, <2>1 DEF CompleteFollows
    <2>3. ASSUME snapshot'.behind = 1
          PROVE  Publishes(snapshot'.asOf, tns'.delta[h], tns'.listing[h])
        <3>1. snapshot.behind = 0
            BY <1>5, <2>1, <2>3
        <3> QED BY <1>1, <1>4, <1>5, <1>7, <3>1 DEF CompleteFollows
    <2>4. ASSUME snapshot'.behind = 2, NEW k \in Hours, NextHour(k) = h
          PROVE  Publishes(snapshot'.asOf, tns'.delta[k], tns'.listing[k])
        <3>1. snapshot.behind = 1 /\ k = hour
            BY <1>2, <1>5, <2>1, <2>4
        <3> QED BY <1>1, <1>2, <1>4, <1>5, <3>1 DEF CompleteFollows
    <2> QED BY <2>2, <2>3, <2>4
<1> QED BY <1>8, <1>9, <1>10

\* A merge applies exactly the file the snapshot lacked.
LEMMA MergeFollows ==
    ASSUME FollowInv, Merge PROVE FilesAgree' /\ JobFits' /\ CompleteFollows'
<1> USE TnsAssumption
<1> DEFINE rh == refresh.hour
<1>1. TnsTyped /\ FilesAgree /\ JobFits /\ CompleteFollows
    BY DEF FollowInv, TnsInv
<1>2. /\ refresh.pc = "merge" /\ rh \in Hours /\ hour \in Hours
      /\ hour = IF refresh.crossed THEN NextHour(rh) ELSE rh
      /\ UNCHANGED <<tns, hour>>
      /\ \A n \in TnsNames : snapshot.rows[n] > 0 => tns.listing[rh][n] > 0
      /\ ~ refresh.seed => refresh.records = tns.delta[rh]
      /\ refresh.seed /\ rh = 0 => refresh.records = tns.listing[0]
    BY <1>1 DEF Merge, JobFits, TnsTyped
<1>3. refresh'.pc \in {"idle", "due"} /\ ~ refresh'.crossed /\ refresh'.records = Nothing
    BY DEF Merge, Over
<1>4. /\ snapshot'.rows = Upserted
      /\ snapshot'.complete <=> IF refresh.seed THEN rh = 0
            ELSE snapshot.complete /\ snapshot.behind = IF refresh.crossed THEN 2 ELSE 1
      /\ snapshot'.behind = IF refresh.crossed THEN 1 ELSE 0
      /\ snapshot'.asOf = tns.listing[rh]
    BY DEF Merge, Stamped, Completeness
<1>5. \A n \in TnsNames : Upserted[n] = IF refresh.records[n] > 0 THEN refresh.records[n]
                                        ELSE snapshot.rows[n]
    BY DEF Upserted
<1>6. \A n \in TnsNames : Nothing[n] = 0
    BY DEF Nothing
<1>7. FilesAgree'
    BY <1>1, <1>2, <1>3, <1>4, <1>5, <1>6 DEF FilesAgree, Publishes
<1>8. JobFits'
    BY <1>3 DEF JobFits
<1>9. CompleteFollows'
    <2> SUFFICES ASSUME snapshot'.complete
                 PROVE  /\ Upserted = tns.listing[rh]
                        /\ ~ refresh.crossed => tns.listing[rh] = tns.listing[hour]
                        /\ refresh.crossed => Publishes(tns.listing[rh], tns.delta[hour], tns.listing[hour])
        BY <1>2, <1>4 DEF CompleteFollows, Publishes
    <2>1. /\ ~ refresh.crossed => tns.listing[rh] = tns.listing[hour]
          /\ refresh.crossed => Publishes(tns.listing[rh], tns.delta[hour], tns.listing[hour])
        BY <1>1, <1>2 DEF FilesAgree
    <2>2. tns.listing[rh] \in Listings /\ snapshot.rows \in Listings /\ refresh.records \in Listings
        BY <1>1, <1>2 DEF TnsTyped
    <2>3. ASSUME NEW n \in TnsNames PROVE Upserted[n] = tns.listing[rh][n]
        <3>1. CASE refresh.seed
            BY <1>2, <1>4, <1>5, <2>2, <3>1 DEF Listings
        <3>2. CASE ~ refresh.seed
            <4>1. snapshot.complete /\ snapshot.rows = snapshot.asOf
                BY <1>1, <1>4, <3>2 DEF CompleteFollows
            <4>2. Publishes(snapshot.asOf, tns.delta[rh], tns.listing[rh])
                BY <1>1, <1>2, <1>4, <3>2 DEF CompleteFollows
            <4> QED BY <1>2, <1>5, <3>2, <4>1, <4>2 DEF Publishes
        <3> QED BY <3>1, <3>2
    <2>4. Upserted = tns.listing[rh]
        BY <2>2, <2>3 DEF Upserted, Listings
    <2> QED BY <2>1, <2>4
<1> QED BY <1>7, <1>8, <1>9

LEMMA RefreshFollows ==
    ASSUME FollowInv, StartRefresh \/ Download \/ DownloadFails
    PROVE  FilesAgree' /\ JobFits' /\ CompleteFollows'
<1> USE TnsAssumption
<1>1. TnsTyped /\ FilesAgree /\ JobFits /\ CompleteFollows /\ UNCHANGED <<tns, hour, snapshot>>
    BY DEF FollowInv, TnsInv, StartRefresh, Download, DownloadFails
<1>2. /\ Over.pc \in {"idle", "due"} /\ ~ Over.crossed /\ Over.records = Nothing
      /\ \A n \in TnsNames : Nothing[n] = 0
    BY DEF Over, Nothing
<1>3. CompleteFollows'
    BY <1>1 DEF CompleteFollows, Publishes
<1>4. CASE refresh' = Over
    <2>1. refresh'.pc \in {"idle", "due"} /\ ~ refresh'.crossed /\ refresh'.records = Nothing
        BY <1>2, <1>4
    <2>2. FilesAgree'
        BY <1>1, <1>2, <2>1 DEF FilesAgree, Publishes
    <2>3. JobFits'
        BY <2>1 DEF JobFits
    <2> QED BY <1>3, <2>2, <2>3
<1>5. CASE StartRefresh /\ refresh' # Over
    <2>1. /\ refresh.pc = "due" /\ refresh'.pc = "download" /\ refresh'.hour = hour
          /\ refresh'.crossed = refresh.crossed /\ refresh'.records = refresh.records
        BY <1>1, <1>5 DEF StartRefresh, TnsTyped
    <2> QED BY <1>1, <1>3, <2>1 DEF FilesAgree, JobFits, Publishes
<1>6. CASE Download /\ refresh' # Over
    <2>0. refresh.pc = "download" /\ refresh' = [refresh EXCEPT !.pc = "merge", !.records = FileOf(refresh)]
        BY <1>6 DEF Download
    <2>1. /\ refresh.pc = "download" /\ refresh'.pc = "merge" /\ refresh'.hour = refresh.hour
          /\ refresh'.crossed = refresh.crossed /\ refresh'.seed = refresh.seed
          /\ refresh'.records = IF refresh.seed THEN tns.full ELSE tns.delta[refresh.hour]
          /\ refresh.hour \in Hours
        BY <1>1, <2>0 DEF TnsTyped, FileOf
    <2>2. FilesAgree'
        BY <1>1, <2>1 DEF FilesAgree, Publishes
    <2>3. JobFits'
        BY <1>1, <2>1 DEF FilesAgree, JobFits
    <2> QED BY <1>3, <2>2, <2>3
<1>7. CASE DownloadFails /\ refresh' # Over
    <2>1. /\ refresh.pc = "download"
          /\ refresh' = [refresh EXCEPT !.attempt = @ + 1]
        BY <1>7 DEF DownloadFails
    <2>2. /\ refresh'.pc = refresh.pc /\ refresh'.hour = refresh.hour
          /\ refresh'.crossed = refresh.crossed /\ refresh'.seed = refresh.seed
          /\ refresh'.records = refresh.records
        BY <1>1, <2>1 DEF TnsTyped
    <2> QED BY <1>1, <1>3, <2>2 DEF FilesAgree, JobFits, Publishes
<1> QED BY <1>3, <1>4, <1>5, <1>6, <1>7

LEMMA ListingFollows ==
    ASSUME FollowInv, NEW m \in TnsNames, ListObject(m)
    PROVE  FilesAgree' /\ JobFits' /\ CompleteFollows'
<1>1. TnsTyped /\ FilesAgree /\ JobFits /\ CompleteFollows /\ UNCHANGED <<hour, snapshot, refresh>>
    BY DEF FollowInv, TnsInv, ListObject
<1>2. /\ tns'.full = tns.full /\ tns'.delta = tns.delta /\ tns'.listing = tns.listing
      /\ tns'.changed = tns.changed \cup {m}
      /\ \A n \in TnsNames : tns'.listed[n] = IF n = m THEN tns.listed[n] + 1 ELSE tns.listed[n]
      /\ tns.listed[m] >= 0
    BY <1>1 DEF ListObject, TnsTyped, Listings
<1>3. tns.listed[m] + 1 > 0
    BY <1>1, <1>2 DEF TnsTyped, Listings
<1>4. FilesAgree'
    BY <1>1, <1>2, <1>3 DEF FilesAgree, Publishes
<1>5. JobFits' /\ CompleteFollows'
    BY <1>1, <1>2 DEF JobFits, CompleteFollows, Publishes
<1> QED BY <1>4, <1>5

LEMMA TnsGoesOn ==
    ASSUME TnsInv, TnsStep \/ UNCHANGED tnsVars PROVE TnsInv'
<1> USE TnsAssumption
<1>1. ASSUME NEW n \in TnsNames, ListObject(n) PROVE TnsInv'
    <2>1. UNCHANGED <<hour, snapshot, refresh, reader>>
        BY <1>1 DEF ListObject
    <2>2. tns' \in [listed : Listings, changed : SUBSET TnsNames, full : Listings,
                    delta : [Hours -> Listings], listing : [Hours -> Listings]]
        <3>1. tns.listed[n] + 1 \in 0 .. MaxVersion /\ tns.listed \in Listings
            BY <1>1 DEF ListObject, TnsInv, TnsTyped, Listings
        <3>2. [tns.listed EXCEPT ![n] = @ + 1] \in Listings
            BY <3>1 DEF Listings
        <3>3. tns' = [tns EXCEPT !.listed = [tns.listed EXCEPT ![n] = @ + 1],
                                 !.changed = @ \cup {n}]
            BY <1>1 DEF ListObject
        <3> QED BY <3>2, <3>3 DEF TnsInv, TnsTyped
    <2> QED BY <2>1, <2>2 DEF TnsInv, TnsTyped, RowsHold, CheckedCoversEpoch
<1>2. CASE ReadEpoch
    <2>1. TnsTyped'
        BY <1>2 DEF ReadEpoch, TnsInv, TnsTyped
    <2>2. RowsHold(snapshot.loaded)' /\ (reader.pc = "matching" => RowsHold(reader.known))'
        BY <1>2 DEF ReadEpoch, TnsInv, TnsTyped, RowsHold
    <2> QED BY <1>2, <2>1, <2>2 DEF ReadEpoch, TnsInv, TnsTyped, CheckedCoversEpoch
<1>3. CASE ReadRows
    BY <1>3 DEF ReadRows, TnsInv, TnsTyped, RowsHold, CheckedCoversEpoch
<1>4. CASE UNCHANGED tnsVars
    BY <1>4 DEF tnsVars, TnsInv, TnsTyped, RowsHold, CheckedCoversEpoch
<1> QED BY <1>1, <1>2, <1>3, <1>4, HourTurnsKeeps, MergeKeeps, RefreshKeeps
        DEF TnsStep, RefreshStep

LEMMA FollowGoesOn ==
    ASSUME FollowInv, TnsStep \/ UNCHANGED tnsVars PROVE FollowInv'
<1>1. TnsInv'
    BY TnsGoesOn DEF FollowInv
<1>2. FilesAgree' /\ JobFits' /\ CompleteFollows'
    <2>1. CASE ReadEpoch \/ ReadRows \/ UNCHANGED tnsVars
        <3>1. UNCHANGED <<tns, hour, snapshot, refresh>>
            BY <2>1 DEF ReadEpoch, ReadRows, tnsVars
        <3> QED BY <3>1 DEF FollowInv, FilesAgree, JobFits, CompleteFollows, Publishes
    <2> QED BY <2>1, HourTurnsFollows, MergeFollows, RefreshFollows, ListingFollows
            DEF TnsStep, RefreshStep
<1> QED BY <1>1, <1>2 DEF FollowInv

-----------------------------------------------------------------------------
RetentionTyped ==
    /\ anchor \in [Payloads -> -1 .. Grace + 1]
    /\ open \subseteq Payloads /\ payload \subseteq Payloads
    /\ sweep \in [Sweeps -> [pc : {"idle", "selected"}, keys : SUBSET Payloads]]
    /\ reopened \in Nat

\* What a run has selected was anchored then and stays so; a row that was never
\* taken up again has no anchor while the pipeline has work for it.
RetentionInv ==
    /\ RetentionTyped
    /\ \A s \in Sweeps :
          /\ Cardinality(sweep[s].keys) <= MaxRows
          /\ \A r \in sweep[s].keys : anchor[r] # NoAnchor
    /\ \A r \in Payloads \ payload : anchor[r] # NoAnchor
    /\ reopened = 0 => \A r \in open : anchor[r] = NoAnchor

LEMMA RetentionBegins ==
    ASSUME RetentionInit PROVE RetentionInv
BY RetentionAssumption, FS_EmptySet
DEF RetentionInit, RetentionInv, RetentionTyped, Idle, NoAnchor

LEMMA SelectKeeps ==
    ASSUME RetentionInv, NEW s \in Sweeps, Select(s) PROVE RetentionInv'
<1> USE RetentionAssumption
<1>1. PICK keys \in Slices : sweep' = [sweep EXCEPT ![s] = [pc |-> "selected", keys |-> keys]]
    BY DEF Select
<1>2. keys \subseteq Expired /\ Expired \subseteq Payloads /\ \A r \in keys : anchor[r] # NoAnchor
    BY <1>1 DEF Slices, Expired, RetentionInv, RetentionTyped, NoAnchor
<1>3. Cardinality(keys) <= MaxRows
    <2>1. Cardinality(Expired) \in Nat
        BY <1>2, FS_Subset, FS_CardinalityType
    <2> QED BY <1>1, <2>1 DEF Slices
<1>4. UNCHANGED <<anchor, open, payload, reopened>>
    BY DEF Select
<1> QED BY <1>1, <1>2, <1>3, <1>4 DEF RetentionInv, RetentionTyped

LEMMA RetentionGoesOn ==
    ASSUME RetentionInv, RetentionStep \/ UNCHANGED retentionVars PROVE RetentionInv'
<1> USE RetentionAssumption
<1>1. ASSUME NEW s \in Sweeps, Clear(s) PROVE RetentionInv'
    BY <1>1, FS_EmptySet DEF Clear, RetentionInv, RetentionTyped, Idle
<1>2. ASSUME NEW r \in Payloads, Finish(r) PROVE RetentionInv'
    BY <1>2 DEF Finish, RetentionInv, RetentionTyped, NoAnchor
<1>3. ASSUME NEW r \in Payloads, Reopen(r) PROVE RetentionInv'
    BY <1>3 DEF Reopen, RetentionInv, RetentionTyped, NoAnchor
<1>4. CASE Days
    <2>1. \A r \in Payloads :
             /\ anchor'[r] \in -1 .. Grace + 1
             /\ anchor'[r] = NoAnchor <=> anchor[r] = NoAnchor
        <3> SUFFICES ASSUME NEW r \in Payloads
                     PROVE  /\ anchor'[r] \in -1 .. Grace + 1
                            /\ anchor'[r] = -1 <=> anchor[r] = -1
            BY DEF NoAnchor
        <3>1. anchor[r] \in -1 .. Grace + 1
            BY DEF RetentionInv, RetentionTyped
        <3>2. anchor'[r] = IF anchor[r] \in 0 .. Grace THEN anchor[r] + 1 ELSE anchor[r]
            BY <1>4 DEF Days
        <3> QED BY <3>1, <3>2
    <2>2. anchor' \in [Payloads -> -1 .. Grace + 1]
        BY <1>4, <2>1 DEF Days
    <2> QED BY <1>4, <2>1, <2>2 DEF Days, RetentionInv, RetentionTyped
<1>5. CASE UNCHANGED retentionVars
    BY <1>5 DEF retentionVars, RetentionInv, RetentionTyped
<1> QED BY <1>1, <1>2, <1>3, <1>4, <1>5, SelectKeeps DEF RetentionStep

-----------------------------------------------------------------------------
BackgroundInv == StartUpInv /\ DaskInv /\ FollowInv /\ RetentionInv

LEMMA BackgroundBegins == Init => BackgroundInv
BY StartUpBegins, DaskBegins, FollowBegins, RetentionBegins
DEF Init, BackgroundInv, StartUpInit

LEMMA BackgroundGoesOn == BackgroundInv /\ [Next]_backgroundVars => BackgroundInv'
BY StartUpGoesOn, DaskGoesOn, FollowGoesOn, RetentionGoesOn
DEF BackgroundInv, Next, StartUpPart, DaskPart, TnsPart, RetentionPart, backgroundVars,
    startVars, daskVars, tnsVars, retentionVars

LEMMA BackgroundStays == Spec => []BackgroundInv
BY BackgroundBegins, BackgroundGoesOn, PTL DEF Spec

\* Every variable keeps the values TypeOK gives it, for any number of pods,
\* migrations, Dask workers, TNS objects and payloads.
THEOREM BackgroundIsTyped == Spec => []TypeOK
<1>1. BackgroundInv => TypeOK
    <2> SUFFICES ASSUME BackgroundInv PROVE TypeOK
        OBVIOUS
    <2>1. \A p \in Pods : /\ pod[p].pc \in InInit \cup {"connecting", "polling", "started", "exited"}
                         /\ pod[p].attempt \in 1 .. MaxConnects
                         /\ pod[p].next \in 0 .. Len(Migrations) + 1
                         /\ pod[p].waitsFor \subseteq Pods \cup {Reader}
        BY DEF BackgroundInv, StartUpInv, StartUpTyped, PodRecords, PodPlaces, InInit
    <2>2. /\ lockHolder \in Pods \cup {"none"}
          /\ schema.applied \in 0 .. Len(Migrations)
          /\ schema.index \in IndexStates
        BY DEF BackgroundInv, StartUpInv, StartUpTyped
    <2>3. master.left \in 0 .. Timeout /\ master.backoff \in 1 .. BackoffMax
        BY DEF BackgroundInv, DaskInv, DaskTyped
    <2>4. /\ snapshot.age \in -1 .. MaxAge + 1 /\ snapshot.rows \in [TnsNames -> 0 .. MaxVersion]
          /\ refresh.attempt \in 1 .. Attempts
        BY DEF BackgroundInv, FollowInv, TnsInv, TnsTyped, Listings
    <2>5. /\ anchor \in [Payloads -> -1 .. Grace + 1]
          /\ open \subseteq Payloads /\ payload \subseteq Payloads
          /\ \A s \in Sweeps : Cardinality(sweep[s].keys) <= MaxRows
        BY DEF BackgroundInv, RetentionInv, RetentionTyped
    <2> QED BY <2>1, <2>2, <2>3, <2>4, <2>5 DEF TypeOK
<1> QED BY <1>1, BackgroundStays, PTL

\* Two pods never initialise at once while neither lost its lock's session, for
\* any number of pods (locked_init.py).
THEOREM OnePodInitializes == Spec => []OneInitializer
<1>1. BackgroundInv => OneInitializer
    BY DEF BackgroundInv, StartUpInv, LockHeld, OneInitializer
<1> QED BY <1>1, BackgroundStays, PTL

\* A pod that consumes alerts does so on a migrated database with every task
\* registered, for any plan of migrations and whatever was killed or cut.
THEOREM StartedIsReady == Spec => []StartedMeansReady
<1>1. BackgroundInv => StartedMeansReady
    BY DEF BackgroundInv, StartUpInv, PlanFits, TasksWritten, StartedMeansReady
<1> QED BY <1>1, BackgroundStays, PTL

\* No period has two interval rows as long as no lock session was cut.
THEOREM IntervalsStayUnique == Spec => []IntervalsUnique
<1>1. BackgroundInv => IntervalsUnique
    BY DEF BackgroundInv, StartUpInv, StartUpTyped, FoundIsThere, IntervalsUnique
<1> QED BY <1>1, BackgroundStays, PTL

\* A Celery worker that passed the check compared its engine with some Dask
\* worker and differed from none, for any cluster and any changes of it.
THEOREM VerifiedIsCompared == Spec => []VerifiedMeansCompared
<1>1. BackgroundInv => VerifiedMeansCompared
    BY DEF BackgroundInv, DaskInv
<1> QED BY <1>1, BackgroundStays, PTL

\* What is reported as checked against an epoch was checked against every
\* object of that epoch, whatever refresh commits between the two statements.
THEOREM CheckedIsCovered == Spec => []CheckedCoversEpoch
<1>1. BackgroundInv => CheckedCoversEpoch
    BY DEF BackgroundInv, FollowInv, TnsInv
<1> QED BY <1>1, BackgroundStays, PTL

\* While no hourly refresh since a seed at midnight failed or came late by more
\* than its hour, the rows are exactly what TNS had listed, for any length of
\* the day and of the snapshot's age, and any changes at TNS (tasks/tns.py).
THEOREM UnbrokenIsKept == Spec => []UnbrokenIsComplete
<1>1. BackgroundInv => UnbrokenIsComplete
    BY DEF BackgroundInv, FollowInv, CompleteFollows, UnbrokenIsComplete
<1> QED BY <1>1, BackgroundStays, PTL

\* The epoch stands for all that was merged and, unbroken, for all TNS had.
THEOREM EpochStandsForAll == Spec => []EpochIsHonest
BY CheckedIsCovered, UnbrokenIsKept, PTL DEF EpochIsHonest

\* No sweep takes the payload of a row the pipeline has not finished, for any
\* number of overlapping sweeps, slices and rows.
THEOREM InFlightIsKept == Spec => []PayloadKeptInFlight
<1>1. BackgroundInv => PayloadKeptInFlight
    BY DEF BackgroundInv, RetentionInv, RetentionTyped, PayloadKeptInFlight
<1> QED BY <1>1, BackgroundStays, PTL

\* The pods initialize one at a time and leave one row per period.
THEOREM PodsTakeTurns == Spec => []OneAtATime
BY OnePodInitializes, IntervalsStayUnique, PTL DEF OneAtATime
=============================================================================
