------------------------- MODULE SafePipelineProofs -------------------------
(***************************************************************************)
(* What the safe schedule buys, for all constants: no task loses its       *)
(* alerts, so every alert is crossmatched at most once, notifications wait *)
(* for MATCHED, and NOTIFIED means that everything was sent.  So the       *)
(* pipeline implements Lifecycle.                                          *)
(***************************************************************************)
EXTENDS SafePipeline, PipelineProofs

\* Facts about the constants of the safe schedule, unfolded once.
LEMMA Schedule ==
    /\ PickupBound \in Nat /\ TimeLimit \in Nat /\ Stuck \in Nat
    /\ PickupBound + TimeLimit < Stuck
    /\ \A d1, d2 \in Dispatchers : d1 = d2
    /\ ~ SoftAfterCommit
BY SafeSchedule, StoreAssumption, TaskAssumption DEF SafeEnv

\* A live task's alerts were stamped less than Stuck ago.
LEMMA LiveIsYoung ==
    ASSUME TypeOK, Ownership, NEW t \in Tasks, Live(t), NEW a \in batch[t]
    PROVE  a \in WithStatus("QUEUED") /\ queuedAge[a] # Stuck
<1>1. a \in Alerts /\ clock[t] \in Nat
  BY DEF TypeOK, TaskTypeOK
<1>2. queuedAge[a] \in {NoTime} \cup (0 .. Stuck)
  BY <1>1 DEF TypeOK, StoreTypeOK
<1>3. queuedAge[a] <= PickupBound + TimeLimit
  BY <1>1, <1>2, Schedule DEF Ownership, TaskOwnsBatch, Live, InWorker, NoTime
<1> QED BY <1>1, <1>2, <1>3, Schedule
        DEF Ownership, TaskOwnsBatch, WithStatus, NoTime

\* The columns Ownership is about.
LEMMA OwnershipUntouched ==
    ASSUME Ownership, UNCHANGED <<status, queuedAge, round, taskVars, dpc>>
    PROVE  Ownership'
BY DEF Ownership, OneBatchInFlight, TaskOwnsBatch, QueuedTogether,
       DispatcherSeesTruth, StatusCountsRounds, WithStatus, Live, InWorker, taskVars

\* Steps that move alerts only between statuses other than QUEUED, and keep the
\* count of their rounds right.
LEMMA OwnershipElsewhere ==
    ASSUME TypeOK, Ownership, UNCHANGED <<queuedAge, taskVars, dpc>>,
           \A a \in Alerts : (status'[a] = "QUEUED") <=> (status[a] = "QUEUED"),
           StatusCountsRounds'
    PROVE  Ownership'
<1>1. WithStatus("QUEUED")' = WithStatus("QUEUED")
  BY DEF WithStatus
<1>2. \A t \in Tasks : batch[t] \subseteq Alerts
  BY DEF TypeOK, TaskTypeOK
<1>3. TaskOwnsBatch'
  BY <1>2 DEF Ownership, TaskOwnsBatch, Live, InWorker, taskVars
<1>4. OneBatchInFlight'
  BY DEF Ownership, OneBatchInFlight, Live, taskVars
<1> QED BY <1>1, <1>3, <1>4 DEF Ownership, QueuedTogether, DispatcherSeesTruth

\* The slot t ends, others stay, and some QUEUED alerts leave QUEUED, none of
\* them in another live batch.
LEMMA OwnershipRelease ==
    ASSUME TypeOK, Ownership, NEW t \in Tasks, UNCHANGED dpc,
           tpc'[t] \notin {"waiting", "running"},
           InWorker(t)' => InWorker(t) /\ clock'[t] = clock[t],
           \A u \in Tasks \ {t} : /\ tpc'[u] = tpc[u]
                                  /\ batch'[u] = batch[u]
                                  /\ clock'[u] = clock[u],
           \A a \in Alerts : \/ status'[a] = status[a] /\ queuedAge'[a] = queuedAge[a]
                             \/ status'[a] # "QUEUED" /\ Live(t),
           StatusCountsRounds'
    PROVE  Ownership'
<1>1. WithStatus("QUEUED")' \subseteq WithStatus("QUEUED")
  BY DEF WithStatus
<1>2. \A a \in WithStatus("QUEUED")' : queuedAge'[a] = queuedAge[a]
  BY DEF WithStatus
<1>3. \A u \in Tasks : batch[u] \subseteq Alerts
  BY DEF TypeOK, TaskTypeOK
<1>4. \A u \in Tasks : Live(u)' => u # t /\ Live(u)
  BY DEF Live
<1>5. OneBatchInFlight'
  BY <1>4 DEF Ownership, OneBatchInFlight
<1>6. ASSUME NEW u \in Tasks, Live(u)'
      PROVE  \A a \in Alerts : status'[a] = status[a] /\ queuedAge'[a] = queuedAge[a]
  BY <1>4, <1>6 DEF Ownership, OneBatchInFlight
<1>7. TaskOwnsBatch'
  <2> SUFFICES ASSUME NEW u \in Tasks
               PROVE  /\ tpc'[u] = "waiting" => clock'[u] <= PickupBound
                      /\ InWorker(u)' => clock'[u] <= TimeLimit
                      /\ Live(u)' => batch'[u] # {}
                      /\ Live(u)' => \A a \in batch'[u] :
                           /\ status'[a] = "QUEUED"
                           /\ tpc'[u] = "waiting" => queuedAge'[a] <= clock'[u]
                           /\ tpc'[u] = "running" =>
                                queuedAge'[a] <= PickupBound + clock'[u]
    BY DEF TaskOwnsBatch
  <2>1. CASE u = t
    BY <2>1, <1>4 DEF Ownership, TaskOwnsBatch, Live
  <2>2. CASE u # t
    BY <2>2, <1>3, <1>4, <1>6 DEF Ownership, TaskOwnsBatch, InWorker
  <2> QED BY <2>1, <2>2
<1>8. QueuedTogether'
  BY <1>1, <1>2 DEF Ownership, QueuedTogether
<1>9. DispatcherSeesTruth'
  BY <1>1, <1>2 DEF Ownership, DispatcherSeesTruth
<1> QED BY <1>5, <1>7, <1>8, <1>9 DEF Ownership

-----------------------------------------------------------------------------
\* Every task action leaves the other tasks their alerts.
LEMMA TaskKeepsOwnership ==
    ASSUME TypeOK, Ownership, TaskStep
    PROVE  Ownership'
<1> PICK t \in Tasks :
        \/ LoseMessage(t) \/ Start(t) \/ Fail(t) \/ Commit(t)
        \/ Return(t) \/ SoftLimitAfterCommit(t) \/ Kill(t)
  BY DEF TaskStep, TaskNext
<1> USE DEF TypeOK, TaskTypeOK, StoreTypeOK
<1>0. UNCHANGED dpc
  BY DEF TaskStep
<1>1. ASSUME Release(t)
      PROVE  /\ tpc'[t] \notin {"waiting", "running"} /\ ~ InWorker(t)'
             /\ \A u \in Tasks \ {t} : /\ tpc'[u] = tpc[u]
                                      /\ batch'[u] = batch[u]
                                      /\ clock'[u] = clock[u]
  BY <1>1 DEF Release, InWorker
<1>2. CASE LoseMessage(t) \/ Return(t) \/ Kill(t)
  <2>1. Release(t) /\ UNCHANGED storeVars
    BY <1>2 DEF LoseMessage, Return, Kill
  <2>2. StatusCountsRounds'
    BY <2>1 DEF Ownership, StatusCountsRounds, storeVars
  <2> QED BY <1>0, <1>1, <2>1, <2>2, OwnershipRelease DEF storeVars
<1>3. CASE Start(t)
  <2>1. UNCHANGED <<status, queuedAge, round, batch, dpc>>
    BY <1>0, <1>3 DEF Start, storeVars
  <2>2. /\ tpc[t] = "waiting" /\ tpc'[t] = "running" /\ clock'[t] = 0
        /\ \A u \in Tasks \ {t} : tpc'[u] = tpc[u] /\ clock'[u] = clock[u]
    BY <1>3 DEF Start
  <2>3. OneBatchInFlight'
    BY <2>2 DEF Ownership, OneBatchInFlight, Live
  <2>4. ASSUME NEW u \in Tasks
        PROVE  /\ tpc'[u] = "waiting" => clock'[u] <= PickupBound
               /\ InWorker(u)' => clock'[u] <= TimeLimit
               /\ Live(u)' => batch'[u] # {}
               /\ Live(u)' => \A a \in batch'[u] :
                    /\ status'[a] = "QUEUED"
                    /\ tpc'[u] = "waiting" => queuedAge'[a] <= clock'[u]
                    /\ tpc'[u] = "running" =>
                         queuedAge'[a] <= PickupBound + clock'[u]
    <3>1. CASE u = t
      <4>1. Live(t) /\ clock[t] \in Nat /\ clock[t] <= PickupBound
        BY <2>2 DEF Live, Ownership, TaskOwnsBatch
      <4>2. \A a \in batch[t] : queuedAge[a] <= clock[t] /\ queuedAge[a] \in Int
        BY <2>2, <4>1, Schedule DEF Ownership, TaskOwnsBatch, NoTime
      <4> QED BY <2>1, <2>2, <3>1, <4>1, <4>2, Schedule
              DEF Ownership, TaskOwnsBatch
    <3>2. CASE u # t
      BY <2>1, <2>2, <3>2 DEF Ownership, TaskOwnsBatch, Live, InWorker
    <3> QED BY <3>1, <3>2
  <2> QED BY <2>1, <2>3, <2>4
          DEF Ownership, TaskOwnsBatch, QueuedTogether, DispatcherSeesTruth,
              StatusCountsRounds, WithStatus
<1>4. CASE Fail(t)
  <2>1. Release(t) /\ RevertToIngested(batch[t]) /\ Live(t)
    BY <1>4 DEF Fail, Live
  <2>2. \A a \in Alerts : \/ status'[a] = status[a] /\ queuedAge'[a] = queuedAge[a]
                          \/ status'[a] = "INGESTED" /\ status[a] = "QUEUED"
    BY <2>1 DEF RevertToIngested, SetStatus, Ownership, TaskOwnsBatch
  <2>3. StatusCountsRounds'
    BY <2>1, <2>2 DEF Ownership, StatusCountsRounds, RevertToIngested
  <2> QED BY <1>0, <1>1, <2>1, <2>2, <2>3, OwnershipRelease
<1>5. CASE Commit(t)
  <2> PICK R : CommitMatched(t, R)
    BY <1>5 DEF Commit
  <2>1. Live(t) /\ InWorker(t) /\ tpc'[t] = "committed"
    BY DEF CommitMatched, Live, InWorker
  <2>2. \A u \in Tasks \ {t} : /\ tpc'[u] = tpc[u]
                              /\ batch'[u] = batch[u]
                              /\ clock'[u] = clock[u]
    BY DEF CommitMatched
  <2>3. \A a \in Alerts :
            IF a \in batch[t]
            THEN /\ status[a] = "QUEUED" /\ status'[a] = "MATCHED"
                 /\ round'[a] = round[a] + 1
            ELSE status'[a] = status[a] /\ round'[a] = round[a]
    BY <2>1 DEF CommitMatched, SetStatus, Ownership, TaskOwnsBatch
  <2>4. StatusCountsRounds'
    BY <2>3 DEF Ownership, StatusCountsRounds
  <2>5. UNCHANGED <<queuedAge, clock>>
    BY DEF CommitMatched
  <2> QED BY <1>0, <2>1, <2>2, <2>3, <2>4, <2>5, OwnershipRelease
<1>6. CASE SoftLimitAfterCommit(t)
  BY <1>6, Schedule DEF SoftLimitAfterCommit
<1> QED BY <1>2, <1>3, <1>4, <1>5, <1>6

\* No task is live once no alert is QUEUED.
LEMMA NothingQueuedNothingLive ==
    ASSUME Ownership, TypeOK, WithStatus("QUEUED") = {}
    PROVE  \A t \in Tasks : ~ Live(t)
BY DEF Ownership, TaskOwnsBatch, WithStatus, TypeOK, TaskTypeOK

\* The dispatcher takes alerts from no live task, and dispatches only when
\* there is none.
LEMMA DispatcherKeepsOwnership ==
    ASSUME TypeOK, Ownership, DispatcherStep
    PROVE  Ownership'
<1> PICK d \in Dispatchers : DispatchStep(d) \/ DispatcherCrash(d)
  BY DEF DispatcherStep, DispatchNext
<1> USE DEF TypeOK, TaskTypeOK, StoreTypeOK, DispatchTypeOK
<1>0. \A e \in Dispatchers : e = d
  BY Schedule
<1>1. ASSUME UNCHANGED <<status, queuedAge, round, taskVars>>, DispatcherSeesTruth'
      PROVE  Ownership'
  BY <1>1 DEF Ownership, OneBatchInFlight, TaskOwnsBatch, QueuedTogether,
              StatusCountsRounds, WithStatus, Live, InWorker, taskVars
<1>2. CASE Guard(d)
  <2>1. UNCHANGED <<status, queuedAge, round, taskVars>>
    BY <1>2 DEF Guard, storeVars
  <2>2. StuckBatch => \A a \in WithStatus("QUEUED") : queuedAge[a] = Stuck
    BY DEF StuckBatch, Ownership, QueuedTogether
  <2>3. DispatcherSeesTruth'
    BY <1>0, <1>2, <2>1, <2>2
       DEF Guard, Goto, DispatcherSeesTruth, WithStatus
  <2> QED BY <1>1, <2>1, <2>3
<1>3. CASE CheckThresholds(d) \/ NothingLeft(d) \/ DispatcherCrash(d)
  <2>1. UNCHANGED <<status, queuedAge, round, taskVars>>
    BY <1>3 DEF CheckThresholds, NothingLeft, DispatcherCrash, storeVars
  <2>2. \/ dpc'[d] = "idle"
        \/ dpc[d] = "thresholds" /\ dpc'[d] = "select"
    BY <1>3 DEF CheckThresholds, NothingLeft, DispatcherCrash, Goto
  <2>3. DispatcherSeesTruth'
    BY <1>0, <2>1, <2>2 DEF Ownership, DispatcherSeesTruth, WithStatus
  <2> QED BY <1>1, <2>1, <2>3
<1>4. CASE Recover(d)
  <2>1. \A a \in WithStatus("QUEUED") : queuedAge[a] = Stuck
    BY <1>4 DEF Recover, Ownership, DispatcherSeesTruth
  <2>2. \A t \in Tasks : ~ Live(t)
    <3> SUFFICES ASSUME NEW t \in Tasks, Live(t) PROVE FALSE
      OBVIOUS
    <3> PICK a \in batch[t] : TRUE
      BY DEF Ownership, TaskOwnsBatch
    <3> QED BY <2>1, LiveIsYoung
  <2>3. UNCHANGED <<round, taskVars>>
    BY <1>4 DEF Recover, RevertToIngested
  <2>4. \A a \in Alerts : status'[a] =
          IF status[a] = "QUEUED" THEN "INGESTED" ELSE status[a]
    BY <1>4 DEF Recover, RevertToIngested, SetStatus, WithStatus
  <2>5. WithStatus("QUEUED")' = {}
    BY <2>4 DEF WithStatus
  <2>6. TaskOwnsBatch' /\ OneBatchInFlight'
    BY <2>2, <2>3 DEF Ownership, TaskOwnsBatch, OneBatchInFlight, Live, InWorker,
                      taskVars
  <2>7. StatusCountsRounds'
    BY <2>3, <2>4 DEF Ownership, StatusCountsRounds
  <2>8. DispatcherSeesTruth' /\ QueuedTogether'
    BY <2>5 DEF DispatcherSeesTruth, QueuedTogether
  <2> QED BY <2>6, <2>7, <2>8 DEF Ownership
<1>5. CASE Dispatch(d)
  <2>1. WithStatus("QUEUED") = {}
    BY <1>5 DEF Dispatch, Ownership, DispatcherSeesTruth
  <2>2. \A t \in Tasks : ~ Live(t)
    BY <2>1, NothingQueuedNothingLive
  <2> PICK S \in SUBSET Alerts, t \in Tasks :
        /\ OldestFirst(S)
        /\ S # {}
        /\ status' = SetStatus(S, "QUEUED")
        /\ queuedAge' = [a \in Alerts |-> IF a \in S THEN 0 ELSE queuedAge[a]]
        /\ Submit(t, S)
    BY <1>5 DEF Dispatch
  <2>3. /\ tpc'[t] = "waiting" /\ batch'[t] = S /\ clock'[t] = 0
        /\ \A u \in Tasks \ {t} : /\ tpc'[u] = tpc[u]
                                 /\ batch'[u] = batch[u]
                                 /\ clock'[u] = clock[u]
    BY DEF Submit
  <2>4. /\ WithStatus("QUEUED")' = S
        /\ \A a \in S : status[a] = "INGESTED" /\ queuedAge'[a] = 0
    BY <2>1 DEF WithStatus, SetStatus, OldestFirst
  <2>5. OneBatchInFlight'
    BY <2>2, <2>3 DEF OneBatchInFlight, Live
  <2>6. TaskOwnsBatch'
    BY <2>2, <2>3, <2>4, Schedule
       DEF Ownership, TaskOwnsBatch, Live, InWorker, WithStatus
  <2>7. QueuedTogether'
    BY <2>4 DEF QueuedTogether, NoTime
  <2>8. DispatcherSeesTruth'
    BY <1>0, <1>5 DEF Dispatch, Goto, DispatcherSeesTruth
  <2>9. StatusCountsRounds'
    BY <1>5, <2>4 DEF Dispatch, Ownership, StatusCountsRounds, SetStatus
  <2> QED BY <2>5, <2>6, <2>7, <2>8, <2>9 DEF Ownership
<1> QED BY <1>2, <1>3, <1>4, <1>5 DEF DispatchStep

\* Time passing makes no live batch look stuck.
LEMMA TickKeepsOwnership ==
    ASSUME TypeOK, Ownership, Tick
    PROVE  Ownership'
<1> USE DEF TypeOK, TaskTypeOK, StoreTypeOK
<1>1. UNCHANGED <<status, round, tpc, batch, dpc>>
  BY DEF Tick, AgeRows, AgeTasks
<1>2. \A t \in Tasks : tpc[t] # "free" => clock'[t] = clock[t] + 1
  BY DEF Tick, AgeTasks
<1>3. \A a \in Alerts : queuedAge'[a] =
          IF queuedAge[a] = NoTime THEN NoTime ELSE Aged(queuedAge[a], Stuck)
  BY DEF Tick, AgeRows
<1>4. \A t \in Tasks : /\ tpc[t] = "waiting" => clock[t] < PickupBound
                       /\ InWorker(t) => clock[t] < TimeLimit
  BY DEF Tick, MayTick
<1>5. \A a \in Alerts :
          /\ queuedAge'[a] <= queuedAge[a] + 1
          /\ queuedAge[a] # NoTime => queuedAge'[a] # NoTime
          /\ queuedAge[a] = Stuck => queuedAge'[a] = Stuck
          /\ queuedAge[a] \in Int /\ queuedAge'[a] \in Int
  BY <1>3, Schedule DEF Aged, NoTime
<1>6. TaskOwnsBatch'
  <2> SUFFICES ASSUME NEW t \in Tasks
               PROVE  /\ tpc[t] = "waiting" => clock'[t] <= PickupBound
                      /\ InWorker(t) => clock'[t] <= TimeLimit
                      /\ Live(t) => \A a \in batch[t] :
                           /\ tpc[t] = "waiting" => queuedAge'[a] <= clock'[t]
                           /\ tpc[t] = "running" =>
                                queuedAge'[a] <= PickupBound + clock'[t]
    BY <1>1 DEF Ownership, TaskOwnsBatch, Live, InWorker
  <2>1. clock[t] \in Nat /\ batch[t] \subseteq Alerts
    OBVIOUS
  <2>2. CASE tpc[t] = "waiting"
    BY <1>2, <1>4, <1>5, <2>1, <2>2, Schedule
       DEF Ownership, TaskOwnsBatch, Live, InWorker
  <2>3. CASE InWorker(t)
    BY <1>2, <1>4, <1>5, <2>1, <2>3, Schedule
       DEF Ownership, TaskOwnsBatch, Live, InWorker
  <2> QED BY <2>2, <2>3 DEF Live, InWorker
<1>7. QueuedTogether'
  BY <1>1, <1>3, <1>5 DEF Ownership, QueuedTogether, WithStatus
<1>8. DispatcherSeesTruth'
  BY <1>1, <1>5 DEF Ownership, DispatcherSeesTruth, WithStatus
<1> QED BY <1>1, <1>6, <1>7, <1>8
        DEF Ownership, OneBatchInFlight, StatusCountsRounds, Live

\* Marking an alert NOTIFIED concerns no live batch.
LEMMA NotifierKeepsOwnership ==
    ASSUME TypeOK, Ownership, NotifyStep
    PROVE  Ownership'
<1> PICK n \in Notifiers : NotifierStep(n) \/ NotifierCrash(n)
  BY DEF NotifyStep, NotifierNext
<1>0. UNCHANGED <<taskVars, dpc>>
  BY DEF NotifyStep
<1>1. CASE MarkNotified(n)
  <2>1. UNCHANGED <<queuedAge, round>>
    BY <1>1 DEF MarkNotified
  <2>2. \A a \in Alerts : \/ status'[a] = status[a]
                          \/ status[a] = "MATCHED" /\ status'[a] = "NOTIFIED"
    BY <1>1 DEF MarkNotified, SetStatus, TypeOK, StoreTypeOK
  <2>3. StatusCountsRounds'
    BY <2>1, <2>2 DEF Ownership, StatusCountsRounds
  <2> QED BY <1>0, <2>1, <2>2, <2>3, OwnershipElsewhere
<1>2. CASE ~ MarkNotified(n)
  <2>1. UNCHANGED <<status, queuedAge, round>>
    BY <1>2 DEF NotifierStep, LockPending, Publish, PublishWithFailures,
                PublishOutcome, CommitOutcomes, CheckAlert, NotifierCrash, storeVars
  <2> QED BY <1>0, <2>1, OwnershipUntouched
<1> QED BY <1>1, <1>2

\* The ownership of batches is an invariant of the safe schedule (schedule.py,
\* crossmatch.py).
THEOREM BatchesAreOwned == Spec => []Ownership
<1>1. Init => Ownership
  BY DEF Init, StoreInit, TaskInit, DispatchInit, Ownership, OneBatchInFlight,
         TaskOwnsBatch, QueuedTogether, DispatcherSeesTruth, StatusCountsRounds,
         WithStatus, Live, InWorker
<1>2. TypeOK /\ Ownership /\ [Next]_vars => Ownership'
  <2> SUFFICES ASSUME TypeOK, Ownership, [Next]_vars PROVE Ownership'
    OBVIOUS
  <2>1. CASE IngestStep
    <3> PICK a \in Alerts : Ingest(a) /\ UNCHANGED <<taskVars, dpc, notifierVars>>
      BY <2>1 DEF IngestStep
    <3>1. \A b \in Alerts : status'[b] = IF b = a THEN "INGESTED" ELSE status[b]
      BY DEF Ingest, TypeOK, StoreTypeOK
    <3>2. status[a] = "absent" /\ UNCHANGED <<queuedAge, round>>
      BY DEF Ingest
    <3>3. StatusCountsRounds'
      BY <3>1, <3>2 DEF Ownership, StatusCountsRounds
    <3> QED BY <3>1, <3>2, <3>3, OwnershipElsewhere
  <2>2. CASE TaskStep
    BY <2>2, TaskKeepsOwnership
  <2>3. CASE DispatcherStep
    BY <2>3, DispatcherKeepsOwnership
  <2>4. CASE NotifyStep
    BY <2>4, NotifierKeepsOwnership
  <2>5. CASE Tick
    BY <2>5, TickKeepsOwnership
  <2>6. CASE UNCHANGED vars
    BY <2>6, OwnershipUntouched DEF vars, storeVars
  <2> QED BY <2>1, <2>2, <2>3, <2>4, <2>5, <2>6 DEF Next
<1> QED BY <1>1, <1>2, TypeCorrect, PTL DEF Spec

-----------------------------------------------------------------------------
\* A row belongs to the one crossmatch of an alert that had one.
LEMMA RowsAreFirst ==
    ASSUME TypeOK, Ownership, RowsAndLocks,
           NEW i \in Notifications, nstate[i] # "none"
    PROVE  i[2] = 1 /\ status[i[1]] \in {"MATCHED", "NOTIFIED"}
<1>1. i[1] \in Alerts /\ i[2] \in Nat /\ i[2] >= 1
  BY RowParts, StoreAssumption
<1>2. i[2] <= round[i[1]]
  BY DEF RowsAndLocks
<1> QED BY <1>1, <1>2 DEF Ownership, StatusCountsRounds

\* Steps that change no row, no answer of a notification run and no alert that
\* is, or becomes, MATCHED or NOTIFIED.
LEMMA MarkingUntouched ==
    ASSUME MarkingIsSafe, UNCHANGED <<nstate, notifiedAt>>,
           \A n \in Notifiers : todo'[n] \subseteq todo[n] /\ cur'[n] \subseteq cur[n],
           \A a \in Alerts : \/ status'[a] = status[a]
                             \/ /\ status[a] \notin {"MATCHED", "NOTIFIED"}
                                /\ status'[a] \notin {"MATCHED", "NOTIFIED"}
    PROVE  MarkingIsSafe'
<1>1. \A a : RowsOf(a)' = RowsOf(a) /\ (HasUnsent(a)' <=> HasUnsent(a))
  BY DEF RowsOf, HasUnsent
<1>2. \A a \in Alerts : /\ (status'[a] = "NOTIFIED") <=> (status[a] = "NOTIFIED")
                        /\ (status'[a] = "MATCHED") <=> (status[a] = "MATCHED")
  OBVIOUS
<1> QED BY <1>1, <1>2 DEF MarkingIsSafe, NotifiedMeansAllSent, AnchoredIffDone

\* Only live batches and dispatches change a status outside the notifier, and
\* then only before MATCHED; the commit of a crossmatch is the exception.
LEMMA TaskMovesWaiting ==
    ASSUME TypeOK, Ownership, NEW t \in Tasks,
           \/ LoseMessage(t) \/ Start(t) \/ Fail(t)
           \/ Return(t) \/ SoftLimitAfterCommit(t) \/ Kill(t)
    PROVE  /\ UNCHANGED <<nstate, notifiedAt>>
           /\ \A a \in Alerts : \/ status'[a] = status[a]
                                \/ status[a] = "QUEUED" /\ status'[a] = "INGESTED"
<1>1. CASE Fail(t)
  BY <1>1 DEF Fail, RevertToIngested, SetStatus, Ownership, TaskOwnsBatch, Live,
              TypeOK, StoreTypeOK
<1>2. CASE ~ Fail(t)
  BY <1>2, Schedule
     DEF LoseMessage, Start, Return, SoftLimitAfterCommit, Kill, storeVars
<1> QED BY <1>1, <1>2

LEMMA DispatcherMovesWaiting ==
    ASSUME TypeOK, DispatcherStep
    PROVE  /\ UNCHANGED <<nstate, notifiedAt, notifierVars>>
           /\ \A a \in Alerts : \/ status'[a] = status[a]
                                \/ /\ status[a] \in {"INGESTED", "QUEUED"}
                                   /\ status'[a] \in {"INGESTED", "QUEUED"}
<1> PICK d \in Dispatchers : DispatchStep(d) \/ DispatcherCrash(d)
  BY DEF DispatcherStep, DispatchNext
<1>1. CASE Recover(d)
  BY <1>1 DEF Recover, RevertToIngested, SetStatus, WithStatus, DispatcherStep
<1>2. CASE Dispatch(d)
  BY <1>2 DEF Dispatch, OldestFirst, SetStatus, WithStatus, DispatcherStep
<1>3. CASE ~ Recover(d) /\ ~ Dispatch(d)
  BY <1>3 DEF DispatchStep, Guard, CheckThresholds, NothingLeft, DispatcherCrash,
              storeVars, DispatcherStep
<1> QED BY <1>1, <1>2, <1>3

\* The crossmatch commit adds rows only to alerts that had none and are in no
\* notification run's hands, and anchors those that get none.
LEMMA CommitKeepsMarking ==
    ASSUME TypeOK, Ownership, RowsAndLocks, MarkingIsSafe, UNCHANGED notifierVars,
           NEW t \in Tasks, NEW R \in SUBSET (batch[t] \X Catalogs),
           CommitMatched(t, R)
    PROVE  MarkingIsSafe'
<1> USE DEF TypeOK, StoreTypeOK, TaskTypeOK, NotifierTypeOK
<1>1. \A a \in batch[t] : a \in Alerts /\ status[a] = "QUEUED" /\ round[a] = 0
  BY DEF CommitMatched, Ownership, TaskOwnsBatch, StatusCountsRounds, Live
<1>2. \A a \in batch[t] : RowsOf(a) = {}
  BY <1>1, RowsAreFirst DEF RowsOf
<1>3. \A i \in Notifications : i[1] \notin batch[t] => nstate'[i] = nstate[i]
  BY DEF CommitMatched
<1>4. ASSUME NEW a \in Alerts, a \notin batch[t]
      PROVE  /\ RowsOf(a)' = RowsOf(a) /\ (HasUnsent(a)' <=> HasUnsent(a))
             /\ status'[a] = status[a] /\ notifiedAt'[a] = notifiedAt[a]
  <2>1. RowsOf(a)' = RowsOf(a)
    BY <1>3, <1>4 DEF RowsOf
  <2>2. HasUnsent(a)' <=> HasUnsent(a)
    BY <1>3, <1>4, <2>1 DEF HasUnsent, RowsOf
  <2> QED BY <1>4, <2>1, <2>2 DEF CommitMatched, SetStatus, Unmatched
<1>5. ASSUME NEW a \in batch[t]
      PROVE  /\ status'[a] = "MATCHED"
             /\ notifiedAt'[a] <=> RowsOf(a)' = {}
  <2>1. status'[a] = "MATCHED" /\ ~ notifiedAt[a]
    BY <1>1, <1>5 DEF CommitMatched, SetStatus, MarkingIsSafe, AnchoredIffDone
  <2>2. notifiedAt'[a] <=> \A c \in Catalogs : <<a, c>> \notin R
    BY <1>1, <1>5, <2>1 DEF CommitMatched, Unmatched
  <2>3. ASSUME NEW c \in Catalogs, <<a, c>> \in R PROVE RowsOf(a)' # {}
    <3>1. <<a, 1, c>> \in Notifications
      BY <1>1, <1>5, StoreAssumption DEF Notifications
    <3>2. nstate'[<<a, 1, c>>] = "PENDING"
      BY <1>1, <1>5, <2>3, <3>1 DEF CommitMatched
    <3> QED BY <3>1, <3>2 DEF RowsOf
  <2>4. ASSUME NEW i \in RowsOf(a)' PROVE i[3] \in Catalogs /\ <<a, i[3]>> \in R
    BY <1>2, <1>5, <2>4, RowParts DEF RowsOf, CommitMatched
  <2> QED BY <2>1, <2>2, <2>3, <2>4
<1>6. \A n \in Notifiers : \A a \in todo[n] \cup cur[n] : a \in Alerts /\ a \notin batch[t]
  BY <1>2 DEF MarkingIsSafe
<1>7. \A n \in Notifiers : /\ \A a \in todo'[n] : RowsOf(a)' # {}
                           /\ \A a \in cur'[n] : RowsOf(a)' # {} /\ ~ HasUnsent(a)'
                           /\ \A a, b \in cur'[n] : a = b
  BY <1>4, <1>6 DEF MarkingIsSafe, notifierVars
<1>8. \A a \in Alerts : status'[a] = "NOTIFIED" => RowsOf(a)' # {} /\ ~ HasUnsent(a)'
  BY <1>4, <1>5 DEF MarkingIsSafe, NotifiedMeansAllSent
<1>9. AnchoredIffDone'
  BY <1>4, <1>5 DEF MarkingIsSafe, AnchoredIffDone
<1> QED BY <1>7, <1>8, <1>9 DEF MarkingIsSafe, NotifiedMeansAllSent

\* A notification run changes only PENDING rows, which no NOTIFIED alert and no
\* alert about to be marked has, and marks only alerts found all sent.
LEMMA NotifierKeepsMarking ==
    ASSUME TypeOK, Ownership, RowsAndLocks, MarkingIsSafe,
           NEW n \in Notifiers, NotifierStep(n) \/ NotifierCrash(n)
    PROVE  MarkingIsSafe'
<1> USE DEF TypeOK, StoreTypeOK, NotifierTypeOK
<1>1. CASE LockPending(n) \/ Publish(n) \/ PublishWithFailures(n)
  <2>1. UNCHANGED <<nstate, notifiedAt, status, todo, cur>>
    BY <1>1 DEF LockPending, Publish, PublishWithFailures, PublishOutcome, storeVars
  <2> QED BY <2>1, MarkingUntouched
<1>2. CASE CommitOutcomes(n)
  <2>1. UNCHANGED <<cur, status, notifiedAt>>
    BY <1>2 DEF CommitOutcomes
  <2>2. \A i \in Notifications :
          \/ nstate'[i] = nstate[i]
          \/ nstate[i] = "PENDING" /\ nstate'[i] \in {"SENT", "FAILED"}
    BY <1>2 DEF CommitOutcomes, RowsAndLocks
  <2>3. \A a \in Alerts : RowsOf(a)' = RowsOf(a)
    BY <2>2 DEF RowsOf
  <2>4. \A a \in Alerts : ~ HasUnsent(a) => ~ HasUnsent(a)'
    BY <2>2, <2>3 DEF HasUnsent, RowsOf
  <2>5. \A i \in confirmed[n] : i[1] \in Alerts /\ i \in RowsOf(i[1])
    BY RowParts DEF RowsAndLocks, RowsOf
  <2>6. \A m \in Notifiers : \A a \in todo'[m] : a \in Alerts /\ RowsOf(a)' # {}
    <3> SUFFICES ASSUME NEW m \in Notifiers, NEW a \in todo'[m]
                 PROVE  a \in Alerts /\ RowsOf(a)' # {}
      OBVIOUS
    <3>1. CASE m = n
      <4> PICK i \in confirmed[n] : a = i[1]
        BY <1>2, <3>1 DEF CommitOutcomes
      <4> QED BY <2>3, <2>5
    <3>2. CASE m # n
      BY <1>2, <2>3, <3>2 DEF CommitOutcomes, MarkingIsSafe
    <3> QED BY <3>1, <3>2
  <2> QED BY <2>1, <2>3, <2>4, <2>6
          DEF MarkingIsSafe, NotifiedMeansAllSent, AnchoredIffDone
<1>3. ASSUME NEW a \in Alerts, CheckAlert(n, a)
      PROVE  MarkingIsSafe'
  <2>1. UNCHANGED <<nstate, notifiedAt, status>>
    BY <1>3 DEF CheckAlert, storeVars
  <2>2. \A b : RowsOf(b)' = RowsOf(b) /\ (HasUnsent(b)' <=> HasUnsent(b))
    BY <2>1 DEF RowsOf, HasUnsent
  <2>3. \A m \in Notifiers : todo'[m] \subseteq todo[m]
    BY <1>3 DEF CheckAlert
  <2>4. \A m \in Notifiers : \A b \in cur'[m] :
            b \in cur[m] \/ (b \in todo[m] /\ ~ HasUnsent(b))
    BY <1>3 DEF CheckAlert
  <2>5. \A m \in Notifiers : cur'[m] = cur[m] \/ cur'[m] = {a}
    BY <1>3 DEF CheckAlert
  <2> QED BY <2>1, <2>2, <2>3, <2>4, <2>5
          DEF MarkingIsSafe, NotifiedMeansAllSent, AnchoredIffDone
<1>4. CASE MarkNotified(n)
  <2>1. UNCHANGED <<nstate, todo>> /\ \A m \in Notifiers : cur'[m] \subseteq cur[m]
    BY <1>4 DEF MarkNotified
  <2>2. \A b : RowsOf(b)' = RowsOf(b) /\ (HasUnsent(b)' <=> HasUnsent(b))
    BY <2>1 DEF RowsOf, HasUnsent
  <2>3. \A a \in Alerts :
          \/ status'[a] = status[a] /\ notifiedAt'[a] = notifiedAt[a]
          \/ /\ a \in cur[n] /\ status'[a] = "NOTIFIED" /\ notifiedAt'[a]
    BY <1>4 DEF MarkNotified, SetStatus
  <2> QED BY <2>1, <2>2, <2>3
          DEF MarkingIsSafe, NotifiedMeansAllSent, AnchoredIffDone
<1>5. CASE NotifierCrash(n)
  <2>1. UNCHANGED <<nstate, notifiedAt, status>>
    BY <1>5 DEF NotifierCrash, storeVars
  <2>2. \A m \in Notifiers : todo'[m] \subseteq todo[m] /\ cur'[m] \subseteq cur[m]
    BY <1>5 DEF NotifierCrash
  <2> QED BY <2>1, <2>2, MarkingUntouched
<1> QED BY <1>1, <1>2, <1>3, <1>4, <1>5 DEF NotifierStep

\* What notification runs rely on while they mark alerts is an invariant of the
\* safe schedule (schedule.py).
THEOREM MarkingHolds == Spec => []MarkingIsSafe
<1>1. Init => MarkingIsSafe
  BY DEF Init, StoreInit, NotifierInit, MarkingIsSafe, NotifiedMeansAllSent,
         AnchoredIffDone
<1>2. TypeOK /\ Ownership /\ RowsAndLocks /\ MarkingIsSafe /\ [Next]_vars => MarkingIsSafe'
  <2> SUFFICES ASSUME TypeOK, Ownership, RowsAndLocks, MarkingIsSafe, [Next]_vars
               PROVE  MarkingIsSafe'
    OBVIOUS
  <2>1. CASE IngestStep
    <3> PICK a \in Alerts : Ingest(a) /\ UNCHANGED <<taskVars, dpc, notifierVars>>
      BY <2>1 DEF IngestStep
    <3>1. \A b \in Alerts : \/ status'[b] = status[b]
                            \/ status[b] = "absent" /\ status'[b] = "INGESTED"
      BY DEF Ingest, TypeOK, StoreTypeOK
    <3> QED BY <3>1, MarkingUntouched DEF Ingest, notifierVars
  <2>2. CASE TaskStep
    <3> PICK t \in Tasks :
            \/ LoseMessage(t) \/ Start(t) \/ Fail(t) \/ Commit(t)
            \/ Return(t) \/ SoftLimitAfterCommit(t) \/ Kill(t)
      BY <2>2 DEF TaskStep, TaskNext
    <3>0. UNCHANGED notifierVars
      BY <2>2 DEF TaskStep
    <3>1. CASE Commit(t)
      BY <3>0, <3>1, CommitKeepsMarking DEF Commit
    <3>2. CASE ~ Commit(t)
      BY <3>0, <3>2, TaskMovesWaiting, MarkingUntouched DEF notifierVars
    <3> QED BY <3>1, <3>2
  <2>3. CASE DispatcherStep
    BY <2>3, DispatcherMovesWaiting, MarkingUntouched DEF notifierVars
  <2>4. CASE NotifyStep
    BY <2>4, NotifierKeepsMarking DEF NotifyStep, NotifierNext
  <2>5. CASE Tick
    BY <2>5, MarkingUntouched DEF Tick, AgeRows, notifierVars
  <2>6. CASE UNCHANGED vars
    BY <2>6, MarkingUntouched DEF vars, storeVars, notifierVars
  <2> QED BY <2>1, <2>2, <2>3, <2>4, <2>5, <2>6 DEF Next
<1> QED BY <1>1, <1>2, TypeCorrect, BatchesAreOwned, LocksHold, PTL DEF Spec

-----------------------------------------------------------------------------
\* In the safe schedule at most one batch is in flight, whatever fails, dies or
\* is recovered (schedule.py, the concurrency guard).
THEOREM OneBatch == Spec => []OneBatchInFlight
<1>1. Ownership => OneBatchInFlight
  BY DEF Ownership
<1> QED BY <1>1, BatchesAreOwned, PTL

\* In the safe schedule the recovery never takes an alert from a task that may
\* still finish (schedule.py, the stuck threshold).
THEOREM LiveBatchesAreKept == Spec => []LiveBatchKept
<1>1. Ownership => LiveBatchKept
  BY DEF Ownership, TaskOwnsBatch, LiveBatchKept
<1> QED BY <1>1, BatchesAreOwned, PTL

\* In the safe schedule no alert is crossmatched twice, although failed runs
\* are reverted and dispatched again (crossmatch.py).
THEOREM AtMostOneCrossmatch == Spec => []CrossmatchedOnce
<1>1. Ownership => CrossmatchedOnce
  BY DEF Ownership, StatusCountsRounds, CrossmatchedOnce
<1> QED BY <1>1, BatchesAreOwned, PTL

\* In the safe schedule an alert is NOTIFIED only when all its notifications
\* were sent (schedule.py, the has_unsent check and the update after it).
THEOREM NotifiedAfterAllSent == Spec => []NotifiedMeansAllSent
<1>1. MarkingIsSafe => NotifiedMeansAllSent
  BY DEF MarkingIsSafe
<1> QED BY <1>1, MarkingHolds, PTL

\* In the safe schedule notified_at, the retention anchor, is set exactly on
\* the alerts the pipeline is done with (crossmatch.py, schedule.py).
THEOREM AnchorsAreRight == Spec => []AnchoredIffDone
<1>1. MarkingIsSafe => AnchoredIffDone
  BY DEF MarkingIsSafe
<1> QED BY <1>1, MarkingHolds, PTL

\* In the safe schedule a PENDING notification is only ever visible while its
\* alert is MATCHED (crossmatch.py, the note at step 2).
THEOREM PendingIsMatched == Spec => []PendingMeansMatched
<1>1. ASSUME TypeOK, Ownership, RowsAndLocks, MarkingIsSafe,
             NEW i \in Notifications, nstate[i] = "PENDING"
      PROVE  status[i[1]] = "MATCHED"
  <2>1. i[1] \in Alerts /\ i \in RowsOf(i[1])
    BY <1>1, RowParts DEF RowsOf
  <2>2. status[i[1]] # "NOTIFIED"
    BY <1>1, <2>1 DEF MarkingIsSafe, NotifiedMeansAllSent, HasUnsent
  <2> QED BY <1>1, <2>2, RowsAreFirst
<1>2. TypeOK /\ Ownership /\ RowsAndLocks /\ MarkingIsSafe => PendingMeansMatched
  BY <1>1 DEF PendingMeansMatched
<1> QED BY <1>2, TypeCorrect, BatchesAreOwned, LocksHold, MarkingHolds, PTL

-----------------------------------------------------------------------------
\* The pipeline in the safe schedule implements Lifecycle: every step is a step of
\* the promise or is invisible to it.


\* The mapped variables, and the row that stands for a match.
Stage == [a \in Alerts |-> StageOf(a)]
FirstRow(m) == <<m[1], 1, m[2]>>
Outcome == [m \in Alerts \X Catalogs |-> nstate[FirstRow(m)]]

\* The first row of a match is a notification of its alert.
LEMMA FirstRowType ==
    ASSUME NEW m \in Alerts \X Catalogs
    PROVE  /\ FirstRow(m) \in Notifications
           /\ FirstRow(m)[1] = m[1] /\ FirstRow(m)[2] = 1 /\ FirstRow(m)[3] = m[2]
           /\ m = <<m[1], m[2]>> /\ m[1] \in Alerts /\ m[2] \in Catalogs
BY StoreAssumption DEF FirstRow, Notifications

\* The stage of each status.
LEMMA Stages ==
    /\ StageOfStatus["absent"] = "absent"
    /\ StageOfStatus["INGESTED"] = "waiting"
    /\ StageOfStatus["QUEUED"] = "waiting"
    /\ StageOfStatus["MATCHED"] = "matched"
    /\ StageOfStatus["NOTIFIED"] = "notified"
BY DEF StageOfStatus

\* The instance's definitions over the mapped variables.
LEMMA LifeStep ==
    /\ Promise!LifeNext <=>
         \/ \E a \in Alerts :
              \/ /\ Stage[a] = "absent"
                 /\ Stage' = [Stage EXCEPT ![a] = "waiting"]
                 /\ Outcome' = Outcome
              \/ /\ Stage[a] = "matched"
                 /\ \E c \in Catalogs : Outcome[<<a, c>>] = "SENT"
                 /\ \A c \in Catalogs : Outcome[<<a, c>>] \in {"none", "SENT"}
                 /\ Stage' = [Stage EXCEPT ![a] = "notified"]
                 /\ Outcome' = Outcome
         \/ \E S \in SUBSET {a \in Alerts : Stage[a] = "waiting"} :
            \E R \in SUBSET (S \X Catalogs) :
              /\ Stage' = [a \in Alerts |-> IF a \in S THEN "matched" ELSE Stage[a]]
              /\ Outcome' = [m \in Alerts \X Catalogs |->
                               IF m \in R THEN "PENDING" ELSE Outcome[m]]
         \/ \E P \in SUBSET (Alerts \X Catalogs) : \E OK \in SUBSET P :
              /\ \A m \in P : Outcome[m] = "PENDING"
              /\ Outcome' = [m \in Alerts \X Catalogs |->
                               IF m \in OK THEN "SENT"
                               ELSE IF m \in P THEN "FAILED" ELSE Outcome[m]]
              /\ Stage' = Stage
    /\ (UNCHANGED Promise!lifeVars) <=> Stage' = Stage /\ Outcome' = Outcome
BY DEF Promise!LifeNext, Promise!Arrive, Promise!Finish, Promise!Crossmatch,
       Promise!Settle, Promise!Waiting, Promise!Matches, Promise!lifeVars,
       Stage, Outcome, FirstRow

\* A step that changes no row, and no alert's stage, is a stutter.
LEMMA Invisible ==
    ASSUME UNCHANGED nstate, \A a \in Alerts : StageOf(a)' = StageOf(a)
    PROVE  UNCHANGED Promise!lifeVars
<1>1. Stage' = Stage
  BY DEF Stage
<1>2. Outcome' = Outcome
  BY DEF Outcome
<1> QED BY <1>1, <1>2, LifeStep

\* Waiting for a batch and being in one are the same stage.
LEMMA SameStage ==
    ASSUME NEW a \in Alerts,
           \/ status'[a] = status[a]
           \/ /\ status[a] \in {"INGESTED", "QUEUED"}
              /\ status'[a] \in {"INGESTED", "QUEUED"}
    PROVE  StageOf(a)' = StageOf(a)
BY Stages DEF StageOf

\* The MATCHED commit is the one crossmatch of its batch.
LEMMA CommitIsCrossmatch ==
    ASSUME TypeOK, Ownership, NEW t \in Tasks,
           NEW R \in SUBSET (batch[t] \X Catalogs), CommitMatched(t, R)
    PROVE  Promise!LifeNext
<1>1. \A a \in batch[t] : a \in Alerts /\ status[a] = "QUEUED" /\ round[a] = 0
  BY DEF CommitMatched, Ownership, TaskOwnsBatch, StatusCountsRounds, Live,
         TypeOK, TaskTypeOK
<1>2. batch[t] \in SUBSET {a \in Alerts : Stage[a] = "waiting"}
  BY <1>1, Stages DEF Stage, StageOf
<1>3. Stage' = [a \in Alerts |-> IF a \in batch[t] THEN "matched" ELSE Stage[a]]
  <2>1. \A a \in Alerts : StageOf(a)' = IF a \in batch[t] THEN "matched" ELSE StageOf(a)
    BY <1>1, Stages DEF CommitMatched, SetStatus, StageOf
  <2> QED BY <2>1 DEF Stage
<1>4. Outcome' = [m \in Alerts \X Catalogs |->
                    IF m \in R THEN "PENDING" ELSE Outcome[m]]
  <2>1. ASSUME NEW m \in Alerts \X Catalogs
        PROVE  nstate'[FirstRow(m)] = IF m \in R THEN "PENDING" ELSE nstate[FirstRow(m)]
    <3>1. m \in R => round[m[1]] = 0
      BY <1>1
    <3> QED BY <3>1, FirstRowType DEF CommitMatched
  <2> QED BY <2>1 DEF Outcome
<1> QED BY <1>2, <1>3, <1>4, LifeStep

\* The commit of a publishing transaction settles the announcements it held.
LEMMA CommitOutcomesIsSettle ==
    ASSUME TypeOK, Ownership, RowsAndLocks, NEW n \in Notifiers, CommitOutcomes(n)
    PROVE  Promise!LifeNext
<1> DEFINE P == {m \in Alerts \X Catalogs : FirstRow(m) \in held[n]}
           OK == {m \in Alerts \X Catalogs : FirstRow(m) \in confirmed[n]}
<1>1. OK \in SUBSET P /\ P \in SUBSET (Alerts \X Catalogs)
  BY DEF RowsAndLocks
<1>2. \A m \in P : Outcome[m] = "PENDING"
  BY DEF RowsAndLocks, Outcome
<1>3. Outcome' = [m \in Alerts \X Catalogs |->
                    IF m \in OK THEN "SENT"
                    ELSE IF m \in P THEN "FAILED" ELSE Outcome[m]]
  <2>1. \A m \in Alerts \X Catalogs : nstate'[FirstRow(m)] =
            IF m \in OK THEN "SENT"
            ELSE IF m \in P THEN "FAILED" ELSE nstate[FirstRow(m)]
    BY FirstRowType DEF CommitOutcomes
  <2> QED BY <2>1 DEF Outcome
<1>4. Stage' = Stage
  BY DEF CommitOutcomes, Stage, StageOf
<1> HIDE DEF P, OK
<1> QED BY <1>1, <1>2, <1>3, <1>4, LifeStep

\* Marking an alert that is still MATCHED finishes it; otherwise nothing shows.
LEMMA MarkIsFinish ==
    ASSUME TypeOK, Ownership, RowsAndLocks, MarkingIsSafe,
           NEW n \in Notifiers, MarkNotified(n)
    PROVE  Promise!LifeNext \/ UNCHANGED Promise!lifeVars
<1> DEFINE done == {a \in cur[n] : status[a] = "MATCHED"}
<1>1. status' = SetStatus(done, "NOTIFIED") /\ UNCHANGED nstate
  BY DEF MarkNotified
<1>2. CASE done = {}
  BY <1>1, <1>2, Invisible DEF SetStatus, StageOf
<1>3. CASE done # {}
  <2> PICK a \in Alerts : done = {a} /\ status[a] = "MATCHED"
    BY <1>3 DEF MarkingIsSafe, TypeOK, NotifierTypeOK
  <2>1. RowsOf(a) # {} /\ ~ HasUnsent(a)
    BY DEF MarkingIsSafe
  <2>2. \A c \in Catalogs : Outcome[<<a, c>>] \in {"none", "SENT"}
    <3> SUFFICES ASSUME NEW c \in Catalogs
                 PROVE  nstate[FirstRow(<<a, c>>)] \in {"none", "SENT"}
      BY DEF Outcome
    <3> QED BY <2>1, FirstRowType DEF HasUnsent, RowsOf
  <2>3. \E c \in Catalogs : Outcome[<<a, c>>] = "SENT"
    <3> PICK i \in RowsOf(a) : nstate[i] = "SENT"
      BY <2>1 DEF HasUnsent
    <3>1. i[2] = 1 /\ i[3] \in Catalogs /\ i[1] = a /\ i \in Notifications
      BY RowsAreFirst, RowParts DEF RowsOf
    <3>2. i = FirstRow(<<a, i[3]>>)
      BY <3>1 DEF FirstRow, Notifications
    <3>3. Outcome[<<a, i[3]>>] = nstate[i]
      BY <3>1, <3>2 DEF Outcome
    <3> QED BY <3>1, <3>3
  <2>4. Stage[a] = "matched"
    BY Stages DEF Stage, StageOf
  <2>5. Stage' = [Stage EXCEPT ![a] = "notified"]
    <3>1. \A b \in Alerts : StageOf(b)' = IF b = a THEN "notified" ELSE StageOf(b)
      BY <1>1, Stages DEF SetStatus, StageOf
    <3> QED BY <3>1 DEF Stage
  <2>6. Outcome' = Outcome
    BY <1>1 DEF Outcome
  <2> QED BY <2>2, <2>3, <2>4, <2>5, <2>6, LifeStep
<1> QED BY <1>2, <1>3

\* In the safe schedule every behaviour of the pipeline keeps the promise of
\* Lifecycle (the whole pipeline).
THEOREM Implements == Spec => KeepsPromise
<1>1. Init => Promise!LifeInit
  <2> SUFFICES ASSUME Init PROVE Promise!LifeInit
    OBVIOUS
  <2>1. \A a \in Alerts : StageOf(a) = "absent"
    BY Stages DEF Init, StoreInit, StageOf
  <2>2. \A m \in Alerts \X Catalogs : nstate[<<m[1], 1, m[2]>>] = "none"
    BY FirstRowType DEF Init, StoreInit, FirstRow
  <2> QED BY <2>1, <2>2 DEF Promise!LifeInit, Promise!Matches
<1>2. TypeOK /\ Ownership /\ RowsAndLocks /\ MarkingIsSafe /\ [Next]_vars
        => [Promise!LifeNext]_Promise!lifeVars
  <2> SUFFICES ASSUME TypeOK, Ownership, RowsAndLocks, MarkingIsSafe, [Next]_vars
               PROVE  Promise!LifeNext \/ UNCHANGED Promise!lifeVars
    OBVIOUS
  <2>1. CASE IngestStep
    <3> PICK a \in Alerts : Ingest(a)
      BY <2>1 DEF IngestStep
    <3>1. Stage[a] = "absent" /\ Stage' = [Stage EXCEPT ![a] = "waiting"]
      <4>1. \A b \in Alerts : StageOf(b)' = IF b = a THEN "waiting" ELSE StageOf(b)
        BY Stages DEF Ingest, StageOf, TypeOK, StoreTypeOK
      <4> QED BY <4>1, Stages DEF Ingest, Stage, StageOf
    <3>2. Outcome' = Outcome
      BY DEF Ingest, Outcome
    <3> QED BY <3>1, <3>2, LifeStep
  <2>2. CASE TaskStep
    <3> PICK t \in Tasks :
            \/ LoseMessage(t) \/ Start(t) \/ Fail(t) \/ Commit(t)
            \/ Return(t) \/ SoftLimitAfterCommit(t) \/ Kill(t)
      BY <2>2 DEF TaskStep, TaskNext
    <3>1. CASE Commit(t)
      BY <3>1, CommitIsCrossmatch DEF Commit
    <3>2. CASE ~ Commit(t)
      BY <3>2, TaskMovesWaiting, SameStage, Invisible
    <3> QED BY <3>1, <3>2
  <2>3. CASE DispatcherStep
    BY <2>3, DispatcherMovesWaiting, SameStage, Invisible
  <2>4. CASE NotifyStep
    <3> PICK n \in Notifiers : NotifierStep(n) \/ NotifierCrash(n)
      BY <2>4 DEF NotifyStep, NotifierNext
    <3>1. CASE CommitOutcomes(n)
      BY <3>1, CommitOutcomesIsSettle
    <3>2. CASE MarkNotified(n)
      BY <3>2, MarkIsFinish
    <3>3. CASE ~ CommitOutcomes(n) /\ ~ MarkNotified(n)
      <4>1. UNCHANGED <<nstate, status>>
        BY <3>3 DEF NotifierStep, LockPending, Publish, PublishWithFailures,
                    PublishOutcome, CheckAlert, NotifierCrash, storeVars
      <4> QED BY <4>1, SameStage, Invisible
    <3> QED BY <3>1, <3>2, <3>3
  <2>5. CASE Tick
    BY <2>5, SameStage, Invisible DEF Tick, AgeRows
  <2>6. CASE UNCHANGED vars
    BY <2>6, SameStage, Invisible DEF vars, storeVars
  <2> QED BY <2>1, <2>2, <2>3, <2>4, <2>5, <2>6 DEF Next
<1> QED BY <1>1, <1>2, TypeCorrect, BatchesAreOwned, LocksHold, MarkingHolds, PTL
        DEF Spec, KeepsPromise, Promise!LifeSpec
=============================================================================
