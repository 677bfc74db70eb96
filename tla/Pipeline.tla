------------------------------ MODULE Pipeline ------------------------------
(***************************************************************************)
(* The alert pipeline: ingest, batch dispatch, crossmatch tasks and        *)
(* notification dispatch over one database, with time passing.  The        *)
(* constants also say how the deployment schedules them, which the code    *)
(* does not control; SafeEnv is the schedule its comments rely on.         *)
(***************************************************************************)
EXTENDS BatchDispatch, Notifier

vars == <<storeVars, faults, taskVars, dpc, notifierVars>>

TypeOK ==
    /\ StoreTypeOK
    /\ TaskTypeOK
    /\ DispatchTypeOK
    /\ NotifierTypeOK

Init == StoreInit /\ TaskInit /\ DispatchInit /\ NotifierInit

IngestStep == \E a \in Alerts : Ingest(a) /\ UNCHANGED <<taskVars, dpc, notifierVars>>

TaskStep == TaskNext /\ UNCHANGED <<dpc, notifierVars>>

DispatcherStep == DispatchNext /\ UNCHANGED notifierVars

NotifyStep == NotifierNext /\ UNCHANGED <<taskVars, dpc>>

Tick ==
    /\ MayTick
    /\ AgeRows
    /\ AgeTasks
    /\ UNCHANGED <<dpc, notifierVars>>

Next == IngestStep \/ TaskStep \/ DispatcherStep \/ NotifyStep \/ Tick

Spec == Init /\ [][Next]_vars

\* Beat keeps queueing both dispatch tasks and workers keep running them; a
\* message that is not lost is taken, and a run the time limits do not end ends
\* by itself.  Faults are finitely many, so none of this waits on a fault.
Fairness ==
    /\ WF_vars(Tick)
    /\ \A d \in Dispatchers : WF_vars(DispatchStep(d) /\ UNCHANGED notifierVars)
    /\ \A t \in Tasks : WF_vars(Start(t) /\ UNCHANGED <<dpc, notifierVars>>)
    /\ \A t \in Tasks : WF_vars(Commit(t) /\ UNCHANGED <<dpc, notifierVars>>)
    /\ \A t \in Tasks : WF_vars(Return(t) /\ UNCHANGED <<dpc, notifierVars>>)
    /\ \A n \in Notifiers : WF_vars(NotifierStep(n) /\ UNCHANGED <<taskVars, dpc>>)

FairSpec == Spec /\ Fairness

-----------------------------------------------------------------------------
\* The schedule the comments in schedule.py and settings.py rely on: a task is
\* picked up early enough to be over before its batch counts as stuck, runs of
\* dispatch_crossmatch_batch do not overlap, and the soft time limit does not
\* strike in the few statements after the MATCHED commit.
SafeEnv ==
    /\ PickupBound + TimeLimit < Stuck
    /\ \A d1, d2 \in Dispatchers : d1 = d2
    /\ ~ SoftAfterCommit

\* At most one batch is in flight (the concurrency guard, schedule.py).
OneBatchInFlight == \A t1, t2 \in Tasks : Live(t1) /\ Live(t2) => t1 = t2

\* The recovery of stuck batches takes no alert from a task that may still
\* finish: its alerts stay QUEUED until its own outcome (schedule.py).
LiveBatchKept ==
    \A t \in Tasks : Live(t) => \A a \in batch[t] : status[a] = "QUEUED"

\* No sequence of failures, reverts and recoveries makes two runs commit
\* results for the same alert (crossmatch.py).
CrossmatchedOnce == \A a \in Alerts : round[a] <= 1

\* A PENDING notification is visible only while its alert is MATCHED, so that
\* the MATCHED-gated transition cannot be missed (crossmatch.py).
PendingMeansMatched ==
    \A i \in Notifications : nstate[i] = "PENDING" => status[i[1]] = "MATCHED"

\* An alert is NOTIFIED only when every notification it has was sent, although
\* the check and the update are two statements (schedule.py).
NotifiedMeansAllSent ==
    \A a \in Alerts : status[a] = "NOTIFIED" => ~ HasUnsent(a)

\* notified_at is set exactly on the alerts the pipeline is done with: NOTIFIED,
\* or MATCHED with nothing to announce.  Retention clears payloads by it.
AnchoredIffDone ==
    \A a \in Alerts :
        notifiedAt[a] <=> \/ status[a] = "NOTIFIED"
                          \/ status[a] = "MATCHED" /\ RowsOf(a) = {}

\* A notification recorded SENT was accepted by the Kafka broker, whatever
\* crashed or was refused (impl_hopskotch.py).
SentWasDelivered ==
    \A i \in Notifications : nstate[i] = "SENT" => i \in delivered

\* No run of dispatch_notifications overwrites an outcome another run recorded
\* (the row locks, schedule.py).  FAILED is as final as SENT because nothing selects
\* a FAILED row again: the code does not keep FailedIsRetried below.
OutcomeIsFinal ==
    [][\A i \in Notifications :
          nstate[i] \in {"SENT", "FAILED"} => nstate'[i] = nstate[i]]_vars

\* Retention cannot reach the payload of an alert that is NOTIFIED without its
\* grace period having been started, in any schedule (schedule.py).
NotifiedIsAnchored == \A a \in Alerts : status[a] = "NOTIFIED" => notifiedAt[a]

\* Rows and locks fit together, in any schedule: a row belongs to a crossmatch
\* commit that happened; a locked row is PENDING and has one holder; a run has
\* confirmed only messages it holds and Kafka accepted, and only between its
\* publishing and its commit (schedule.py, impl_hopskotch.py).
RowsAndLocks ==
    /\ \A i \in Notifications : nstate[i] # "none" => i[2] <= round[i[1]]
    /\ \A n \in Notifiers :
        /\ confirmed[n] \subseteq held[n] \cap delivered
        /\ npc[n] # "published" => confirmed[n] = {}
        /\ \A i \in held[n] : nstate[i] = "PENDING"
        /\ \A m \in Notifiers : m # n => held[m] \cap held[n] = {}

\* An outcome is never without what it stands for, in any schedule: SENT is
\* written from what a run confirmed, of rows it alone holds (schedule.py).
OutcomesAreBacked == SentWasDelivered /\ RowsAndLocks

\* The pipeline keeps the promise stated in Lifecycle.
StageOfStatus ==
    [absent |-> "absent", INGESTED |-> "waiting", QUEUED |-> "waiting",
     MATCHED |-> "matched", NOTIFIED |-> "notified"]

StageOf(a) == StageOfStatus[status[a]]

Promise == INSTANCE Lifecycle WITH
    stage <- [a \in Alerts |-> StageOf(a)],
    outcome <- [m \in Alerts \X Catalogs |-> nstate[<<m[1], 1, m[2]>>]]

\* Every behaviour of the pipeline is one of Lifecycle (the whole pipeline).
KeepsPromise == Promise!LifeSpec

-----------------------------------------------------------------------------
\* Every ingested alert is crossmatched in the end, whichever runs fail, die or
\* never start: the dispatcher finds stuck batches again (schedule.py).
EveryAlertCrossmatched ==
    \A a \in Alerts : (status[a] = "INGESTED") ~> (round[a] > 0)

\* Every notification gets an outcome in the end, although a run that dies
\* gives its rows back (schedule.py).
EveryNotificationSettled ==
    \A i \in Notifications : (nstate[i] = "PENDING") ~> (nstate[i] \in {"SENT", "FAILED"})

\* A notification Kafka did not accept "is recorded FAILED (and retried)": it is
\* given another attempt in the end (impl_hopskotch.py).  dispatch_notifications
\* selects PENDING rows only, so it is not.
FailedIsRetried ==
    \A i \in Notifications : (nstate[i] = "FAILED") ~> (nstate[i] \in {"PENDING", "SENT"})

AllSent(a) == RowsOf(a) # {} /\ ~ HasUnsent(a)

\* An alert whose notifications were all sent, in whichever runs and order,
\* becomes NOTIFIED, unless the run that had to mark it died (schedule.py).
MarkedUnlessForgotten ==
    \A a \in Alerts :
        (status[a] = "MATCHED" /\ AllSent(a)) ~> (status[a] = "NOTIFIED" \/ a \in forgotten)
=============================================================================
