---------------------------- MODULE BatchDispatch ----------------------------
(***************************************************************************)
(* dispatch_crossmatch_batch (tasks/schedule.py), which Celery Beat queues *)
(* every 30 seconds and any worker process may run: its guard, its         *)
(* recovery of stuck batches, its thresholds and its dispatching           *)
(* transaction are separate statements under autocommit.                   *)
(***************************************************************************)
EXTENDS CrossmatchTask

CONSTANTS
    Dispatchers,   \* worker processes that may run the task at the same time
    MaxSize        \* settings.CROSSMATCH_BATCH_MAX_SIZE

VARIABLE dpc       \* the next statement of each dispatcher

ASSUME DispatchAssumption == MaxSize \in Nat \ {0}

DispatchPC == {"idle", "recover", "thresholds", "select"}

DispatchTypeOK == dpc \in [Dispatchers -> DispatchPC]

DispatchInit == dpc = [d \in Dispatchers |-> "idle"]

Goto(d, pc) == dpc' = [dpc EXCEPT ![d] = pc]

\* Mutants of StuckBatch: the age of ingest_time; a threshold one tick short; no
\* recovery.
StuckByIngestTime == \E a \in WithStatus("QUEUED") : ingestAge[a] = MaxWait
StuckTooSoon == \E a \in WithStatus("QUEUED") : queuedAge[a] >= Stuck - 1
StuckNever == FALSE

\* The age of the oldest queued_at has reached the threshold.
StuckBatch == \E a \in WithStatus("QUEUED") : queuedAge[a] = Stuck

-----------------------------------------------------------------------------
\* Mutant of Guard: a batch in progress does not stop the dispatcher.
GuardSkipped(d) ==
    /\ dpc[d] = "idle"
    /\ Goto(d, "thresholds")
    /\ UNCHANGED <<storeVars, taskVars, faults>>

\* queued.exists() and the age of the row with the oldest queued_at.  (A batch
\* that finishes between the two queries makes first() return None, and the
\* task ends with an AttributeError: no effect.)
Guard(d) ==
    /\ dpc[d] = "idle"
    /\ \/ /\ WithStatus("QUEUED") = {}
          /\ Goto(d, "thresholds")
       \/ /\ WithStatus("QUEUED") # {}
          /\ ~ StuckBatch
          /\ UNCHANGED dpc
       \/ /\ StuckBatch
          /\ Goto(d, "recover")
    /\ UNCHANGED <<storeVars, taskVars, faults>>

\* queued.update(...): whatever is QUEUED now, whatever its age.
Recover(d) ==
    /\ dpc[d] = "recover"
    /\ RevertToIngested(WithStatus("QUEUED"))
    /\ Goto(d, "thresholds")
    /\ UNCHANGED <<taskVars, faults>>

\* Enough INGESTED alerts, or one that has waited long enough.
ThresholdMet ==
    \/ Cardinality(WithStatus("INGESTED")) >= MaxSize
    \/ \E a \in WithStatus("INGESTED") : ingestAge[a] = MaxWait

CheckThresholds(d) ==
    /\ dpc[d] = "thresholds"
    /\ IF ThresholdMet THEN Goto(d, "select") ELSE Goto(d, "idle")
    /\ UNCHANGED <<storeVars, taskVars, faults>>

\* order_by('ingest_time')[:MAX_SIZE], up to rows of the same (saturated) age.
OldestFirst(S) ==
    /\ S \subseteq WithStatus("INGESTED")
    /\ \/ Cardinality(S) = MaxSize
       \/ Cardinality(S) < MaxSize /\ S = WithStatus("INGESTED")
    /\ \A a \in S, b \in WithStatus("INGESTED") \ S : ingestAge[a] >= ingestAge[b]

\* The transaction: lock the rows, stamp queued_at, enqueue the task on commit.
Dispatch(d) ==
    /\ dpc[d] = "select"
    /\ \E S \in SUBSET Alerts :
        /\ OldestFirst(S)
        /\ S # {}
        /\ status' = SetStatus(S, "QUEUED")
        /\ queuedAge' = [a \in Alerts |-> IF a \in S THEN 0 ELSE queuedAge[a]]
        /\ \E t \in Tasks : Submit(t, S)
    /\ Goto(d, "idle")
    /\ UNCHANGED <<ingestAge, notifiedAt, round, nstate, faults>>

\* if not batch_ids: return.  Another dispatcher took the alerts.
NothingLeft(d) ==
    /\ dpc[d] = "select"
    /\ WithStatus("INGESTED") = {}
    /\ Goto(d, "idle")
    /\ UNCHANGED <<storeVars, taskVars, faults>>

\* The worker process dies between two statements.
DispatcherCrash(d) ==
    /\ dpc[d] # "idle"
    /\ Fault("crash")
    /\ Goto(d, "idle")
    /\ UNCHANGED <<storeVars, taskVars>>

DispatchStep(d) ==
    \/ Guard(d)
    \/ Recover(d)
    \/ CheckThresholds(d)
    \/ Dispatch(d)
    \/ NothingLeft(d)

DispatchNext == \E d \in Dispatchers : DispatchStep(d) \/ DispatcherCrash(d)
=============================================================================
