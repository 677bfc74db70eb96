------------------------------ MODULE StartUp ------------------------------
(***************************************************************************)
(* The start-up of the ingest consumers: every pod runs locked_init        *)
(* (project/management/commands/locked_init.py) before it consumes, under  *)
(* one PostgreSQL advisory lock, and in it the migrations and              *)
(* initialize_periodic_tasks.  A pod that exits is started again.          *)
(***************************************************************************)
EXTENDS Integers, Sequences, FiniteSets

CONSTANTS
    Pods,           \* the consumer replicas
    Migrations,     \* the migrations not yet applied, in order, by kind
    PeriodOf,       \* periodic task -> its task_frequency_seconds
    MaxConnects,    \* max_attempts of _connect_with_retry
    MaxHits         \* bound: kills, cut connections and database outages

\* "atomic": runs in one transaction.  "concurrent": atomic = False, one CREATE
\* INDEX CONCURRENTLY (0007, 0009, 0012), which waits for older snapshots.
ASSUME StartUpAssumption ==
    /\ "none" \notin Pods
    /\ Migrations \in Seq({"atomic", "concurrent"})
    /\ MaxConnects \in Nat \ {0}
    /\ MaxHits \in Nat

VARIABLES
    pod,            \* where each pod is
    lockHolder,     \* whose session holds the advisory lock, or "none"
    cut,            \* pods that lost the session while they went on
    snapshots,      \* sessions with a statement or transaction open
    schema,         \* migrations recorded as applied, and the index not recorded yet
    beat,           \* the interval and task rows of django_celery_beat
    superuser,      \* the Django superuser: "exists", "missing", or "unnamed" by the
                    \* environment
    database,       \* does it accept connections?
    hits            \* faults so far

startVars == <<pod, lockHolder, cut, snapshots, schema, beat, superuser, database, hits>>

\* A session of another workload, whose transactions are open now and then.
Reader == "reader"

PeriodicTasks == DOMAIN PeriodOf

\* Of the index a migration that is not atomic builds.
IndexStates == {"none", "building", "built", "invalid"}

\* The order of tasks.schedule.periodic_tasks does not matter here.
Fresh == [pc |-> "connecting", attempt |-> 1, next |-> 0, waitsFor |-> {},
          left |-> PeriodicTasks, task |-> "none", found |-> FALSE]

InInit == {"migrating", "indexing", "recording", "register", "create", "superuser"}

\* The command exits, however: its session ends, and the lock with it.
Ended(p, pc) ==
    /\ pod' = [pod EXCEPT ![p] = [Fresh EXCEPT !.pc = pc]]
    /\ lockHolder' = IF lockHolder = p THEN "none" ELSE lockHolder
    /\ snapshots' = snapshots \ {p}

Move(p, pc) == pod' = [pod EXCEPT ![p].pc = pc]

\* migrate plans from the migrations recorded when it begins.
BeginMigrate(p) == pod' = [pod EXCEPT ![p].pc = "migrating", ![p].next = schema.applied + 1]

\* _connect_with_retry: MaxConnects attempts, then the command fails.
Connect(p) ==
    /\ pod[p].pc = "connecting"
    /\ IF database THEN Move(p, "polling") /\ UNCHANGED <<lockHolder, snapshots>>
       ELSE IF pod[p].attempt < MaxConnects
       THEN pod' = [pod EXCEPT ![p].attempt = @ + 1] /\ UNCHANGED <<lockHolder, snapshots>>
       ELSE Ended(p, "exited")
    /\ UNCHANGED <<cut, schema, beat, superuser, database, hits>>

\* Mutant of AcquireLock: the blocking pg_advisory_lock, one open statement.
BlockOnLock(p) ==
    /\ pod[p].pc = "polling"
    /\ IF lockHolder = "none"
       THEN lockHolder' = p /\ BeginMigrate(p) /\ snapshots' = snapshots \ {p}
       ELSE snapshots' = snapshots \cup {p} /\ UNCHANGED <<lockHolder, pod>>
    /\ UNCHANGED <<cut, schema, beat, superuser, database, hits>>

\* Mutant of AcquireLock: the answer of pg_try_advisory_lock is not looked at.
IgnoreGranted(p) ==
    /\ pod[p].pc = "polling"
    /\ lockHolder' = IF lockHolder = "none" THEN p ELSE lockHolder
    /\ BeginMigrate(p)
    /\ UNCHANGED <<cut, snapshots, schema, beat, superuser, database, hits>>

\* _acquire_lock: pg_try_advisory_lock returns at once; a pod that is refused
\* sleeps with no statement open and polls again.
AcquireLock(p) ==
    /\ pod[p].pc = "polling"
    /\ lockHolder = "none"
    /\ lockHolder' = p
    /\ BeginMigrate(p)
    /\ UNCHANGED <<cut, snapshots, schema, beat, superuser, database, hits>>

\* Mutant of Migrate: a migration that fails is logged, and the command goes on.
MigrateFailsSoft(p) ==
    /\ pod[p].pc = "migrating"
    /\ LET next == pod[p].next
       IN  IF \/ next > Len(Migrations) \/ next # schema.applied + 1
              \/ (Migrations[next] = "concurrent" /\ schema.index # "none")
           THEN Move(p, "register") /\ UNCHANGED <<lockHolder, snapshots, schema>>
           ELSE IF Migrations[next] = "atomic"
           THEN /\ schema' = [schema EXCEPT !.applied = next]
                /\ pod' = [pod EXCEPT ![p].next = next + 1]
                /\ UNCHANGED <<lockHolder, snapshots>>
           ELSE /\ schema' = [schema EXCEPT !.index = "building"]
                /\ pod' = [pod EXCEPT ![p].pc = "indexing", ![p].waitsFor = snapshots]
                /\ UNCHANGED <<lockHolder, snapshots>>
    /\ UNCHANGED <<cut, beat, superuser, database, hits>>

\* The planned migrations, one after another.  One that another session has
\* applied meanwhile, or whose index exists, valid or not, fails the command.
Migrate(p) ==
    /\ pod[p].pc = "migrating"
    /\ LET next == pod[p].next
       IN  IF next > Len(Migrations)
           THEN Move(p, "register") /\ UNCHANGED <<lockHolder, snapshots, schema>>
           ELSE IF next # schema.applied + 1 \/ (Migrations[next] = "concurrent" /\ schema.index # "none")
           THEN Ended(p, "exited") /\ UNCHANGED schema
           ELSE IF Migrations[next] = "atomic"
           THEN /\ schema' = [schema EXCEPT !.applied = next]
                /\ pod' = [pod EXCEPT ![p].next = next + 1]
                /\ UNCHANGED <<lockHolder, snapshots>>
           ELSE /\ schema' = [schema EXCEPT !.index = "building"]
                /\ pod' = [pod EXCEPT ![p].pc = "indexing", ![p].waitsFor = snapshots]
                /\ UNCHANGED <<lockHolder, snapshots>>
    /\ UNCHANGED <<cut, beat, superuser, database, hits>>

\* CREATE INDEX CONCURRENTLY ends when the snapshots older than it are gone.
IndexBuilt(p) ==
    /\ pod[p].pc = "indexing"
    /\ pod[p].waitsFor \cap snapshots = {}
    /\ schema' = [schema EXCEPT !.index = "built"]
    /\ pod' = [pod EXCEPT ![p].pc = "recording", ![p].waitsFor = {}]
    /\ UNCHANGED <<lockHolder, cut, snapshots, beat, superuser, database, hits>>

\* Only then does a second statement record the migration, which is not atomic.
RecordMigration(p) ==
    /\ pod[p].pc = "recording"
    /\ schema' = [applied |-> schema.applied + 1, index |-> "none"]
    /\ pod' = [pod EXCEPT ![p].pc = "migrating", ![p].next = @ + 1]
    /\ UNCHANGED <<lockHolder, cut, snapshots, beat, superuser, database, hits>>

\* IntervalSchedule.get_or_create, the SELECT: no unique key backs it, and two
\* rows for one period make it raise.
SelectInterval(p, t) ==
    /\ pod[p].pc = "register" /\ t \in pod[p].left
    /\ LET n == beat.intervals[PeriodOf[t]]
       IN  IF n > 1 THEN Ended(p, "exited")
           ELSE /\ pod' = [pod EXCEPT ![p].pc = "create", ![p].left = @ \ {t},
                                       ![p].task = t, ![p].found = (n = 1)]
                /\ UNCHANGED <<lockHolder, snapshots>>
    /\ UNCHANGED <<cut, schema, beat, superuser, database, hits>>

\* Mutant of WriteTask: the interval is created, found or not.
WriteTaskCreates(p) ==
    /\ pod[p].pc = "create"
    /\ beat' = [beat EXCEPT !.intervals[PeriodOf[pod[p].task]] = @ + 1,
                            !.enabled = @ \cup {pod[p].task}]
    /\ Move(p, IF pod[p].left = {} THEN "superuser" ELSE "register")
    /\ UNCHANGED <<lockHolder, cut, snapshots, schema, superuser, database, hits>>

\* ... its INSERT, and PeriodicTask.update_or_create by the unique name.
WriteTask(p) ==
    /\ pod[p].pc = "create"
    /\ beat' = [beat EXCEPT !.intervals[PeriodOf[pod[p].task]] = IF pod[p].found THEN @ ELSE @ + 1,
                            !.enabled = @ \cup {pod[p].task}]
    /\ Move(p, IF pod[p].left = {} THEN "superuser" ELSE "register")
    /\ UNCHANGED <<lockHolder, cut, snapshots, schema, superuser, database, hits>>

Hit == hits < MaxHits /\ hits' = hits + 1

\* createsuperuser: "already taken" and an environment that names no superuser are
\* fine, and the pod goes on to consume alerts; any other CommandError is raised.
CreateSuperuser(p) ==
    /\ pod[p].pc = "superuser"
    /\ \/ /\ superuser' = IF superuser = "unnamed" THEN superuser ELSE "exists"
          /\ Ended(p, "started") /\ UNCHANGED hits
       \/ Hit /\ Ended(p, "exited") /\ UNCHANGED superuser
    /\ UNCHANGED <<cut, schema, beat, database>>

-----------------------------------------------------------------------------
\* The container is started again.
Restart(p) ==
    /\ pod[p].pc = "exited"
    /\ Move(p, "connecting")
    /\ UNCHANGED <<lockHolder, cut, snapshots, schema, beat, superuser, database, hits>>

\* The pod dies.  An index build that dies leaves an INVALID index behind.
KillPod(p) ==
    /\ Hit
    /\ pod[p].pc # "exited"
    /\ Ended(p, "exited")
    /\ schema' = IF pod[p].pc = "indexing" THEN [schema EXCEPT !.index = "invalid"] ELSE schema
    /\ UNCHANGED <<cut, beat, superuser, database>>

\* The lock's own connection is cut while Django goes on over its other one.
CutSession(p) ==
    /\ Hit
    /\ lockHolder = p
    /\ lockHolder' = "none" /\ cut' = cut \cup {p}
    /\ UNCHANGED <<pod, snapshots, schema, beat, superuser, database>>

\* The database refuses connections; for a pod past connecting this is KillPod.
DatabaseDown ==
    /\ Hit /\ database
    /\ database' = FALSE
    /\ \A p \in Pods : pod[p].pc \in {"connecting", "exited", "started"}
    /\ UNCHANGED <<pod, lockHolder, cut, snapshots, schema, beat, superuser>>

DatabaseUp ==
    /\ ~ database /\ database' = TRUE
    /\ UNCHANGED <<pod, lockHolder, cut, snapshots, schema, beat, superuser, hits>>

\* The operator drops the index of an interrupted migration (CHANGELOG, migration
\* 0012): INVALID, or whole but not recorded when the pod died.
DropIndex ==
    /\ \/ schema.index = "invalid"
       \/ schema.index = "built" /\ \A p \in Pods : pod[p].pc # "recording"
    /\ schema' = [schema EXCEPT !.index = "none"]
    /\ UNCHANGED <<pod, lockHolder, cut, snapshots, beat, superuser, database, hits>>

ReaderOpens ==
    /\ Reader \notin snapshots
    /\ snapshots' = snapshots \cup {Reader}
    /\ UNCHANGED <<pod, lockHolder, cut, schema, beat, superuser, database, hits>>

ReaderEnds ==
    /\ Reader \in snapshots
    /\ snapshots' = snapshots \ {Reader}
    /\ pod' = [p \in Pods |-> [pod[p] EXCEPT !.waitsFor = @ \ {Reader}]]
    /\ UNCHANGED <<lockHolder, cut, schema, beat, superuser, database, hits>>

PodStep(p) ==
    \/ Connect(p) \/ AcquireLock(p) \/ Migrate(p) \/ IndexBuilt(p) \/ RecordMigration(p)
    \/ \E t \in PeriodicTasks : SelectInterval(p, t)
    \/ WriteTask(p) \/ CreateSuperuser(p) \/ Restart(p)

\* What recovers without a pod: open transactions end, outages end, and the
\* operator acts.
Recovery == ReaderEnds \/ DatabaseUp \/ DropIndex

StartUpStep ==
    \/ \E p \in Pods : PodStep(p) \/ KillPod(p) \/ CutSession(p)
    \/ Recovery \/ DatabaseDown \/ ReaderOpens

StartUpFrom(pc) ==
    /\ pod = [p \in Pods |-> [Fresh EXCEPT !.pc = pc]]
    /\ lockHolder = "none" /\ cut = {} /\ snapshots = {}
    /\ schema = [applied |-> 0, index |-> "none"]
    /\ beat = [intervals |-> [d \in {PeriodOf[t] : t \in PeriodicTasks} |-> 0], enabled |-> {}]
    /\ superuser \in {"missing", "unnamed"} /\ database = TRUE /\ hits = 0

StartUpInit == StartUpFrom("connecting")

\* Two pods are in their initialization at once only if one of them lost its
\* lock's session on the way (locked_init.py).
OneInitializer ==
    \A p, q \in Pods : pod[p].pc \in InInit /\ pod[q].pc \in InInit /\ p # q => {p, q} \cap cut # {}

\* A pod that consumes alerts does so on a fully migrated database with every
\* periodic task registered and the superuser there, if the environment names one,
\* whatever died, was cut or was retried before.
StartedMeansReady ==
    \A p \in Pods :
        pod[p].pc = "started" =>
            /\ schema.applied = Len(Migrations) /\ beat.enabled = PeriodicTasks
            /\ superuser # "missing"

\* No period gets two interval rows, which every later start would fail on,
\* unless a session was cut (initialize_periodic_tasks.py).
IntervalsUnique == cut = {} => \A d \in DOMAIN beat.intervals : beat.intervals[d] <= 1

\* Every pod starts in the end, although the others wait for the lock while an
\* index build waits for every older snapshot, unless a session was cut.
EveryPodStarts ==
    \A p \in Pods : (pod[p].pc = "connecting") ~> (pod[p].pc = "started" \/ cut # {})

\* While no session is cut the pods initialize one at a time, and what one has
\* written the next one finds (locked_init.py).
OneAtATime == OneInitializer /\ IntervalsUnique
=============================================================================
