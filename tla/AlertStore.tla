----------------------------- MODULE AlertStore -----------------------------
(***************************************************************************)
(* The tables the pipeline's processes share: core_alert and               *)
(* core_notification (crossmatch/core/models.py), and the clock they are   *)
(* read against.  Every process of the pipeline is a client of this store; *)
(* none talks to another except through it and through the Celery queue.   *)
(*                                                                         *)
(* Timestamps are kept as ages.  The code only ever asks whether an age    *)
(* has reached a threshold, so an age stops growing at the largest         *)
(* threshold it is compared with.                                          *)
(***************************************************************************)
EXTENDS Integers, FiniteSets

CONSTANTS
    Alerts,        \* the LSST objects (core_alert rows)
    Catalogs,      \* settings.CROSSMATCH_CATALOGS
    MaxWait,       \* settings.CROSSMATCH_BATCH_MAX_WAIT_SECONDS, in ticks
    Stuck,         \* settings.CROSSMATCH_BATCH_STUCK_SECONDS, in ticks
    MaxRounds,     \* bound: crossmatch commits that may cover one alert
    Faults,        \* the kinds of fault that may strike (see FaultKinds)
    MaxFaults      \* bound: faults in one behaviour

VARIABLES
    status,        \* Alert.status, or "absent" before ingest
    ingestAge,     \* time since Alert.ingest_time, up to MaxWait
    queuedAge,     \* time since Alert.queued_at, up to Stuck; NoTime is NULL
    notifiedAt,    \* TRUE when Alert.notified_at is not NULL
    round,         \* history: crossmatch transactions committed for the alert
    nstate,        \* Notification.state of each row, "none" when there is no row
    faults         \* faults so far

storeVars == <<status, ingestAge, queuedAge, notifiedAt, round, nstate>>

\* "fail": a crossmatch run raises and reverts its batch.  "kill": the worker
\* dies, or the revert itself fails.  "lose": the Celery message never reaches
\* a worker.  "reject": the Kafka broker refuses or does not confirm a message.
\* "crash": the worker running dispatch_notifications or
\* dispatch_crossmatch_batch dies between two of its statements.
FaultKinds == {"fail", "kill", "lose", "reject", "crash"}

ASSUME StoreAssumption ==
    /\ MaxWait \in Nat
    /\ Stuck \in Nat
    /\ MaxRounds \in Nat \ {0}
    /\ Faults \subseteq FaultKinds
    /\ MaxFaults \in Nat

Status == {"absent", "INGESTED", "QUEUED", "MATCHED", "NOTIFIED"}

NoTime == -1

\* A Notification row is named by its alert, the crossmatch commit that created
\* it, and the catalog whose match it announces: a run keeps one neighbour per
\* catalog, and nothing stops a second run from adding a second row.
Notifications == Alerts \X (1 .. MaxRounds) \X Catalogs

NState == {"none", "PENDING", "SENT", "FAILED"}

StoreTypeOK ==
    /\ status \in [Alerts -> Status]
    /\ ingestAge \in [Alerts -> 0 .. MaxWait]
    /\ queuedAge \in [Alerts -> {NoTime} \cup (0 .. Stuck)]
    /\ notifiedAt \in [Alerts -> BOOLEAN]
    /\ round \in [Alerts -> 0 .. MaxRounds]
    /\ nstate \in [Notifications -> NState]
    /\ faults \in Nat

StoreInit ==
    /\ status = [a \in Alerts |-> "absent"]
    /\ ingestAge = [a \in Alerts |-> 0]
    /\ queuedAge = [a \in Alerts |-> NoTime]
    /\ notifiedAt = [a \in Alerts |-> FALSE]
    /\ round = [a \in Alerts |-> 0]
    /\ nstate = [i \in Notifications |-> "none"]
    /\ faults = 0

WithStatus(s) == {a \in Alerts : status[a] = s}
WithNState(s) == {i \in Notifications : nstate[i] = s}
RowsOf(a) == {i \in Notifications : i[1] = a /\ nstate[i] # "none"}

SetStatus(S, s) == [a \in Alerts |-> IF a \in S THEN s ELSE status[a]]

\* One fault of kind k strikes, within the bound.
Fault(k) ==
    /\ k \in Faults
    /\ faults < MaxFaults
    /\ faults' = faults + 1

-----------------------------------------------------------------------------
\* brokers.ingest_alert, as the pipeline sees it: a new row at INGESTED whose
\* ingest_time is now.  Repeat deliveries of the object change nothing here.
Ingest(a) ==
    /\ status[a] = "absent"
    /\ status' = [status EXCEPT ![a] = "INGESTED"]
    /\ UNCHANGED <<ingestAge, queuedAge, notifiedAt, round, nstate, faults>>

\* queryset.update(status=INGESTED, queued_at=None) over the alerts S.
RevertToIngested(S) ==
    /\ status' = SetStatus(S, "INGESTED")
    /\ queuedAge' = [a \in Alerts |-> IF a \in S THEN NoTime ELSE queuedAge[a]]
    /\ UNCHANGED <<ingestAge, notifiedAt, round, nstate>>

\* Mutant of Aged: the clock runs past the threshold.
AgedPast(age, threshold) == age + 1

\* An age one tick later, saturating at the threshold it is compared with.
Aged(age, threshold) == IF age < threshold THEN age + 1 ELSE threshold

AgeRows ==
    /\ ingestAge' = [a \in Alerts |->
                        IF status[a] = "absent" THEN 0
                        ELSE Aged(ingestAge[a], MaxWait)]
    /\ queuedAge' = [a \in Alerts |->
                        IF queuedAge[a] = NoTime THEN NoTime
                        ELSE Aged(queuedAge[a], Stuck)]
    /\ UNCHANGED <<status, notifiedAt, round, nstate, faults>>
=============================================================================
