--------------------------- MODULE PipelineProofs ---------------------------
(***************************************************************************)
(* What holds of the pipeline in any schedule, for all constants: the type *)
(* invariant, and the notification facts that rest on row locks alone.     *)
(***************************************************************************)
EXTENDS Pipeline, TLAPS

\* The pieces of a notification's name.
LEMMA RowParts ==
    ASSUME NEW i \in Notifications
    PROVE  i[1] \in Alerts /\ i[2] \in 1 .. MaxRounds /\ i[3] \in Catalogs
BY DEF Notifications

\* A bulk status update keeps the status column well typed.
LEMMA SetStatusType ==
    ASSUME status \in [Alerts -> Status], NEW S, NEW s \in Status
    PROVE  SetStatus(S, s) \in [Alerts -> Status]
BY DEF SetStatus

\* An age stays within its threshold.
LEMMA AgedType ==
    ASSUME NEW m \in Nat, NEW x \in 0 .. m
    PROVE  Aged(x, m) \in 0 .. m
BY DEF Aged

\* A fault counts.
LEMMA FaultType ==
    ASSUME NEW k, Fault(k), faults \in Nat
    PROVE  faults' \in Nat
BY DEF Fault

-----------------------------------------------------------------------------
\* The task actions keep the store and the tasks well typed.
LEMMA TaskStepType ==
    ASSUME TypeOK, NEW t \in Tasks,
           \/ LoseMessage(t) \/ Start(t) \/ Fail(t) \/ Commit(t)
           \/ Return(t) \/ SoftLimitAfterCommit(t) \/ Kill(t)
    PROVE  StoreTypeOK' /\ TaskTypeOK'
<1> USE StoreAssumption, TaskAssumption DEF TypeOK, StoreTypeOK, TaskTypeOK, TaskPC
<1>0. ASSUME Release(t) PROVE TaskTypeOK'
  BY <1>0 DEF Release
<1>r. ASSUME NEW S, RevertToIngested(S), faults' \in Nat PROVE StoreTypeOK'
  <2>1. status' \in [Alerts -> Status]
    BY <1>r, SetStatusType DEF RevertToIngested, Status
  <2>2. queuedAge' \in [Alerts -> {NoTime} \cup (0 .. Stuck)]
    BY <1>r DEF RevertToIngested
  <2> QED BY <1>r, <2>1, <2>2 DEF RevertToIngested
<1>1. CASE LoseMessage(t)
  BY <1>1, <1>0, FaultType DEF LoseMessage, storeVars
<1>2. CASE Start(t)
  BY <1>2 DEF Start, storeVars
<1>3. CASE Fail(t)
  <2>1. faults' \in Nat
    BY <1>3, FaultType DEF Fail
  <2> QED BY <1>3, <1>0, <1>r, <2>1 DEF Fail
<1>4. CASE Commit(t)
  <2> PICK R : CommitMatched(t, R)
    BY <1>4 DEF Commit
  <2>1. TaskTypeOK'
    BY DEF CommitMatched
  <2>2. status' \in [Alerts -> Status]
    BY SetStatusType DEF CommitMatched, Status
  <2>3. round' \in [Alerts -> 0 .. MaxRounds]
    <3>1. \A a \in batch[t] : round[a] # MaxRounds
      BY DEF CommitMatched, RoundsExhausted
    <3>2. \A a \in Alerts : round[a] \in 0 .. MaxRounds /\ MaxRounds \in Nat
      OBVIOUS
    <3>3. \A a \in batch[t] : round[a] + 1 \in 0 .. MaxRounds
      BY <3>1, <3>2
    <3>4. round' = [a \in Alerts |->
                      IF a \in batch[t] THEN round[a] + 1 ELSE round[a]]
      BY DEF CommitMatched
    <3> QED BY ONLY <3>2, <3>3, <3>4
  <2>4. nstate' \in [Notifications -> NState]
    BY DEF CommitMatched, NState
  <2>5. notifiedAt' \in [Alerts -> BOOLEAN]
    BY DEF CommitMatched
  <2> QED BY <2>1, <2>2, <2>3, <2>4, <2>5 DEF CommitMatched
<1>5. CASE Return(t)
  BY <1>5, <1>0 DEF Return, storeVars
<1>6. CASE SoftLimitAfterCommit(t)
  BY <1>6, <1>0, <1>r DEF SoftLimitAfterCommit
<1>7. CASE Kill(t)
  BY <1>7, <1>0, FaultType DEF Kill, storeVars
<1> QED BY <1>1, <1>2, <1>3, <1>4, <1>5, <1>6, <1>7

\* The dispatcher actions keep every variable they touch well typed.
LEMMA DispatchStepType ==
    ASSUME TypeOK, NEW d \in Dispatchers, DispatchStep(d) \/ DispatcherCrash(d)
    PROVE  StoreTypeOK' /\ TaskTypeOK' /\ DispatchTypeOK'
<1> USE StoreAssumption
    DEF TypeOK, StoreTypeOK, TaskTypeOK, DispatchTypeOK, DispatchPC
<1>1. CASE Guard(d)
  BY <1>1 DEF Guard, Goto, storeVars, taskVars
<1>2. CASE Recover(d)
  <2>1. status' \in [Alerts -> Status]
    BY <1>2, SetStatusType DEF Recover, RevertToIngested, Status
  <2>2. queuedAge' \in [Alerts -> {NoTime} \cup (0 .. Stuck)]
    BY <1>2 DEF Recover, RevertToIngested
  <2> QED BY <1>2, <2>1, <2>2 DEF Recover, RevertToIngested, Goto, taskVars
<1>3. CASE CheckThresholds(d)
  BY <1>3 DEF CheckThresholds, Goto, storeVars, taskVars
<1>4. CASE Dispatch(d)
  <2> PICK S \in SUBSET Alerts :
        /\ status' = SetStatus(S, "QUEUED")
        /\ queuedAge' = [a \in Alerts |-> IF a \in S THEN 0 ELSE queuedAge[a]]
        /\ \E t \in Tasks : Submit(t, S)
    BY <1>4 DEF Dispatch
  <2>1. status' \in [Alerts -> Status]
    BY SetStatusType DEF Status
  <2>2. queuedAge' \in [Alerts -> {NoTime} \cup (0 .. Stuck)]
    BY TaskAssumption
  <2>3. TaskTypeOK'
    BY DEF Submit, TaskPC
  <2> QED BY <1>4, <2>1, <2>2, <2>3 DEF Dispatch, Goto
<1>5. CASE NothingLeft(d)
  BY <1>5 DEF NothingLeft, Goto, storeVars, taskVars
<1>6. CASE DispatcherCrash(d)
  BY <1>6, FaultType DEF DispatcherCrash, Goto, storeVars, taskVars
<1> QED BY <1>1, <1>2, <1>3, <1>4, <1>5, <1>6 DEF DispatchStep

\* The notifier actions keep every variable they touch well typed.
LEMMA NotifierStepType ==
    ASSUME TypeOK, NEW n \in Notifiers, NotifierStep(n) \/ NotifierCrash(n)
    PROVE  StoreTypeOK' /\ NotifierTypeOK'
<1> USE StoreAssumption DEF TypeOK, StoreTypeOK, NotifierTypeOK, NotifierPC, LoopPC
<1>1. CASE LockPending(n)
  BY <1>1 DEF LockPending, WithNState, storeVars
<1>2. ASSUME NEW OK \in SUBSET held[n], NEW D \in SUBSET held[n],
             PublishOutcome(n, OK, D), faults' \in Nat
      PROVE  StoreTypeOK' /\ NotifierTypeOK'
  BY <1>2 DEF PublishOutcome, storeVars
<1>3. CASE Publish(n)
  BY <1>3, <1>2 DEF Publish
<1>4. CASE PublishWithFailures(n)
  BY <1>4, <1>2, FaultType DEF PublishWithFailures
<1>5. CASE CommitOutcomes(n)
  <2>1. {i[1] : i \in confirmed[n]} \subseteq Alerts
    BY RowParts
  <2>2. nstate' \in [Notifications -> NState]
    BY <1>5 DEF CommitOutcomes, NState
  <2> QED BY <1>5, <2>1, <2>2 DEF CommitOutcomes
<1>6. ASSUME NEW a \in Alerts, CheckAlert(n, a)
      PROVE  StoreTypeOK' /\ NotifierTypeOK'
  BY <1>6 DEF CheckAlert, storeVars
<1>7. CASE MarkNotified(n)
  <2>1. status' \in [Alerts -> Status]
    BY <1>7, SetStatusType DEF MarkNotified, Status
  <2>2. notifiedAt' \in [Alerts -> BOOLEAN]
    BY <1>7 DEF MarkNotified
  <2> QED BY <1>7, <2>1, <2>2 DEF MarkNotified
<1>8. CASE NotifierCrash(n)
  BY <1>8, FaultType DEF NotifierCrash, storeVars
<1> QED BY <1>1, <1>3, <1>4, <1>5, <1>6, <1>7, <1>8 DEF NotifierStep

\* Time keeps every age within its threshold.
LEMMA TickType == ASSUME TypeOK, Tick PROVE StoreTypeOK' /\ TaskTypeOK'
<1> USE StoreAssumption DEF TypeOK, StoreTypeOK, TaskTypeOK
<1>1. ingestAge' \in [Alerts -> 0 .. MaxWait]
  BY AgedType DEF Tick, AgeRows
<1>2. queuedAge' \in [Alerts -> {NoTime} \cup (0 .. Stuck)]
  <2> SUFFICES ASSUME NEW a \in Alerts, queuedAge[a] # NoTime
               PROVE  Aged(queuedAge[a], Stuck) \in 0 .. Stuck
    BY DEF Tick, AgeRows
  <2> QED BY AgedType
<1>3. clock' \in [Tasks -> Nat]
  BY DEF Tick, AgeTasks
<1> QED BY <1>1, <1>2, <1>3 DEF Tick, AgeRows, AgeTasks

-----------------------------------------------------------------------------
\* Every variable keeps its type in every schedule (the whole pipeline).
THEOREM TypeCorrect == Spec => []TypeOK
<1>1. Init => TypeOK
  BY StoreAssumption
     DEF Init, StoreInit, TaskInit, DispatchInit, NotifierInit,
         TypeOK, StoreTypeOK, TaskTypeOK, DispatchTypeOK, NotifierTypeOK,
         Status, NState, TaskPC, DispatchPC, NotifierPC
<1>2. TypeOK /\ [Next]_vars => TypeOK'
  <2> SUFFICES ASSUME TypeOK, [Next]_vars PROVE TypeOK'
    OBVIOUS
  <2> USE DEF TypeOK
  <2>1. CASE IngestStep
    BY <2>1 DEF IngestStep, Ingest, StoreTypeOK, TaskTypeOK, DispatchTypeOK,
                NotifierTypeOK, Status, taskVars, notifierVars
  <2>2. CASE TaskStep
    BY <2>2, TaskStepType
       DEF TaskStep, TaskNext, DispatchTypeOK, NotifierTypeOK, notifierVars
  <2>3. CASE DispatcherStep
    BY <2>3, DispatchStepType
       DEF DispatcherStep, DispatchNext, NotifierTypeOK, notifierVars
  <2>4. CASE NotifyStep
    BY <2>4, NotifierStepType
       DEF NotifyStep, NotifierNext, TaskTypeOK, DispatchTypeOK, taskVars
  <2>5. CASE Tick
    BY <2>5, TickType DEF Tick, DispatchTypeOK, NotifierTypeOK, notifierVars
  <2>6. CASE UNCHANGED vars
    BY <2>6 DEF vars, storeVars, taskVars, notifierVars,
                StoreTypeOK, TaskTypeOK, DispatchTypeOK, NotifierTypeOK
  <2> QED BY <2>1, <2>2, <2>3, <2>4, <2>5, <2>6 DEF Next
<1> QED BY <1>1, <1>2, PTL DEF Spec

-----------------------------------------------------------------------------
\* A crossmatch commit adds rows and changes none: the rows it adds are those
\* of a round no row belongs to yet.
LEMMA CommitKeepsRows ==
    ASSUME TypeOK, RowsAndLocks, NEW t \in Tasks,
           NEW R \in SUBSET (batch[t] \X Catalogs), CommitMatched(t, R),
           NEW i \in Notifications
    PROVE  /\ nstate[i] # "none" => nstate'[i] = nstate[i]
           /\ nstate'[i] # "none" => i[2] <= round'[i[1]]
<1>1. /\ i[1] \in Alerts /\ i[2] \in Nat /\ round[i[1]] \in Nat
  BY RowParts, StoreAssumption DEF TypeOK, StoreTypeOK
<1>2. nstate[i] # "none" => i[2] <= round[i[1]]
  BY DEF RowsAndLocks
<1>3. round'[i[1]] = round[i[1]] \/ round'[i[1]] = round[i[1]] + 1
  BY <1>1 DEF CommitMatched
<1>4. <<i[1], i[3]>> \in R => i[1] \in batch[t]
  OBVIOUS
<1> QED BY <1>1, <1>2, <1>3, <1>4 DEF CommitMatched

\* Steps that leave the rows, the rounds and the notifiers alone.
LEMMA RowsUntouched ==
    ASSUME RowsAndLocks, UNCHANGED <<nstate, round, notifierVars>>
    PROVE  RowsAndLocks'
BY DEF RowsAndLocks, notifierVars

\* A crossmatch task disturbs no row a notification run holds.
LEMMA TaskKeepsLocks ==
    ASSUME TypeOK, RowsAndLocks, TaskStep
    PROVE  RowsAndLocks'
<1> PICK t \in Tasks :
        \/ LoseMessage(t) \/ Start(t) \/ Fail(t) \/ Commit(t)
        \/ Return(t) \/ SoftLimitAfterCommit(t) \/ Kill(t)
  BY DEF TaskStep, TaskNext
<1>0. UNCHANGED notifierVars
  BY DEF TaskStep
<1>1. CASE Commit(t)
  <2> PICK R \in SUBSET (batch[t] \X Catalogs) : CommitMatched(t, R)
    BY <1>1 DEF Commit
  <2>1. \A i \in Notifications :
          /\ nstate[i] # "none" => nstate'[i] = nstate[i]
          /\ nstate'[i] # "none" => i[2] <= round'[i[1]]
    BY CommitKeepsRows
  <2>2. \A n \in Notifiers : held[n] \subseteq Notifications
    BY DEF TypeOK, NotifierTypeOK
  <2> QED BY <1>0, <2>1, <2>2 DEF RowsAndLocks, notifierVars
<1>2. CASE ~ Commit(t)
  <2>1. UNCHANGED <<nstate, round>>
    BY <1>2 DEF LoseMessage, Start, Fail, Return, SoftLimitAfterCommit, Kill,
                RevertToIngested, storeVars
  <2> QED BY <1>0, <2>1, RowsUntouched
<1> QED BY <1>1, <1>2

\* A notification run locks only free rows, and changes only rows it holds.
LEMMA NotifierKeepsLocks ==
    ASSUME TypeOK, RowsAndLocks, NEW n \in Notifiers,
           NotifierStep(n) \/ NotifierCrash(n)
    PROVE  RowsAndLocks'
<1> USE DEF TypeOK, NotifierTypeOK, StoreTypeOK, RowsAndLocks
<1>1. CASE LockPending(n)
  <2> PICK S \in SUBSET (WithNState("PENDING") \ Locked) :
        held' = [held EXCEPT ![n] = S]
    BY <1>1 DEF LockPending
  <2>1. \A i \in S : nstate[i] = "PENDING" /\ \A m \in Notifiers : i \notin held[m]
    BY DEF WithNState, Locked
  <2>2. confirmed[n] = {} /\ npc[n] = "idle" /\ npc' = [npc EXCEPT ![n] = "locked"]
    BY <1>1 DEF LockPending
  <2> QED BY <1>1, <2>1, <2>2 DEF LockPending, storeVars
<1>2. ASSUME NEW OK \in SUBSET held[n], NEW D \in SUBSET held[n],
             PublishOutcome(n, OK, D), OK \subseteq D
      PROVE  RowsAndLocks'
  BY <1>2 DEF PublishOutcome, storeVars
<1>3. CASE Publish(n)
  <2>1. PublishOutcome(n, held[n], held[n]) /\ held[n] \subseteq held[n]
    BY <1>3 DEF Publish
  <2> HIDE DEF RowsAndLocks
  <2> QED BY <1>2, <2>1
<1>4. CASE PublishWithFailures(n)
  BY <1>4, <1>2 DEF PublishWithFailures
<1>5. CASE CommitOutcomes(n)
  <2>1. held' = [held EXCEPT ![n] = {}] /\ confirmed' = [confirmed EXCEPT ![n] = {}]
    BY <1>5 DEF CommitOutcomes
  <2>2. UNCHANGED <<round, delivered>>
    BY <1>5 DEF CommitOutcomes
  <2>3. \A m \in Notifiers : m # n => npc'[m] = npc[m]
    BY <1>5 DEF CommitOutcomes
  <2>4. \A i \in Notifications : nstate'[i] = nstate[i] \/ i \in held[n]
    BY <1>5 DEF CommitOutcomes
  <2>5. \A i \in Notifications : nstate'[i] # "none" => i[2] <= round'[i[1]]
    BY <2>2, <2>4
  <2>6. ASSUME NEW m \in Notifiers
        PROVE  /\ confirmed'[m] \subseteq held'[m] \cap delivered'
               /\ npc'[m] # "published" => confirmed'[m] = {}
               /\ \A i \in held'[m] : nstate'[i] = "PENDING"
               /\ \A k \in Notifiers : k # m => held'[k] \cap held'[m] = {}
    BY <2>1, <2>2, <2>3, <2>4
  <2> QED BY <2>5, <2>6
<1>6. ASSUME NEW a \in Alerts, CheckAlert(n, a)
      PROVE  RowsAndLocks'
  <2>1. npc[n] = "check" /\ npc' \in [Notifiers -> NotifierPC]
    BY <1>6, NotifierStepType DEF CheckAlert, NotifierStep
  <2>2. \A m \in Notifiers : npc'[m] # "published" => npc[m] # "published"
    BY <1>6, <2>1 DEF CheckAlert
  <2> QED BY <1>6, <2>2 DEF CheckAlert, storeVars
<1>7. CASE MarkNotified(n)
  BY <1>7 DEF MarkNotified
<1>8. CASE NotifierCrash(n)
  BY <1>8 DEF NotifierCrash, storeVars
<1> QED BY <1>1, <1>3, <1>4, <1>5, <1>6, <1>7, <1>8 DEF NotifierStep

\* Rows and locks fit together in every schedule: overlapping runs of
\* dispatch_notifications never hold the same row (schedule.py).
THEOREM LocksHold == Spec => []RowsAndLocks
<1>1. Init => RowsAndLocks
  BY DEF Init, StoreInit, NotifierInit, RowsAndLocks
<1>2. TypeOK /\ RowsAndLocks /\ [Next]_vars => RowsAndLocks'
  <2> SUFFICES ASSUME TypeOK, RowsAndLocks, [Next]_vars PROVE RowsAndLocks'
    OBVIOUS
  <2>1. CASE IngestStep
    BY <2>1, RowsUntouched DEF IngestStep, Ingest
  <2>2. CASE TaskStep
    BY <2>2, TaskKeepsLocks
  <2>3. CASE DispatcherStep
    <3>1. UNCHANGED <<nstate, round, notifierVars>>
      BY <2>3 DEF DispatcherStep, DispatchNext, DispatchStep, Guard, Recover,
                  CheckThresholds, Dispatch, NothingLeft, DispatcherCrash,
                  RevertToIngested, storeVars
    <3> QED BY <3>1, RowsUntouched
  <2>4. CASE NotifyStep
    BY <2>4, NotifierKeepsLocks DEF NotifyStep, NotifierNext
  <2>5. CASE Tick
    BY <2>5, RowsUntouched DEF Tick, AgeRows
  <2>6. CASE UNCHANGED vars
    BY <2>6, RowsUntouched DEF vars, storeVars
  <2> QED BY <2>1, <2>2, <2>3, <2>4, <2>5, <2>6 DEF Next
<1> QED BY <1>1, <1>2, TypeCorrect, PTL DEF Spec
-----------------------------------------------------------------------------
\* No run of dispatch_notifications overwrites an outcome another run recorded,
\* and no later crossmatch does, in any schedule (schedule.py, crossmatch.py).
THEOREM OutcomesAreFinal == Spec => OutcomeIsFinal
<1>1. ASSUME TypeOK, RowsAndLocks, [Next]_vars, NEW i \in Notifications,
             nstate[i] \in {"SENT", "FAILED"}
      PROVE  nstate'[i] = nstate[i]
  <2>1. CASE IngestStep
    BY <2>1 DEF IngestStep, Ingest
  <2>2. CASE TaskStep
    <3> PICK t \in Tasks :
            \/ LoseMessage(t) \/ Start(t) \/ Fail(t) \/ Commit(t)
            \/ Return(t) \/ SoftLimitAfterCommit(t) \/ Kill(t)
      BY <2>2 DEF TaskStep, TaskNext
    <3>1. CASE Commit(t)
      BY <3>1, <1>1, CommitKeepsRows DEF Commit
    <3>2. CASE ~ Commit(t)
      BY <3>2 DEF LoseMessage, Start, Fail, Return, SoftLimitAfterCommit, Kill,
                  RevertToIngested, storeVars
    <3> QED BY <3>1, <3>2
  <2>3. CASE DispatcherStep
    BY <2>3 DEF DispatcherStep, DispatchNext, DispatchStep, Guard, Recover,
                CheckThresholds, Dispatch, NothingLeft, DispatcherCrash,
                RevertToIngested, storeVars
  <2>4. CASE NotifyStep
    <3> PICK n \in Notifiers : NotifierStep(n) \/ NotifierCrash(n)
      BY <2>4 DEF NotifyStep, NotifierNext
    <3>1. CASE CommitOutcomes(n)
      <4>1. i \notin held[n] /\ i \notin confirmed[n]
        BY <1>1 DEF RowsAndLocks
      <4> QED BY <3>1, <4>1 DEF CommitOutcomes
    <3>2. CASE ~ CommitOutcomes(n)
      BY <3>2 DEF NotifierStep, LockPending, Publish, PublishWithFailures,
                  PublishOutcome, CheckAlert, MarkNotified, NotifierCrash, storeVars
    <3> QED BY <3>1, <3>2
  <2>5. CASE Tick
    BY <2>5 DEF Tick, AgeRows
  <2>6. CASE UNCHANGED vars
    BY <2>6 DEF vars, storeVars
  <2> QED BY <1>1, <2>1, <2>2, <2>3, <2>4, <2>5, <2>6 DEF Next
<1>2. TypeOK /\ RowsAndLocks /\ [Next]_vars =>
        [\A i \in Notifications :
            nstate[i] \in {"SENT", "FAILED"} => nstate'[i] = nstate[i]]_vars
  BY <1>1
<1> QED BY <1>2, TypeCorrect, LocksHold, PTL DEF Spec, OutcomeIsFinal

\* A notification recorded SENT was accepted by the broker, in any schedule and
\* whatever crashed in between (impl_hopskotch.py).
THEOREM SentIsDelivered == Spec => []SentWasDelivered
<1>1. Init => SentWasDelivered
  BY DEF Init, StoreInit, SentWasDelivered
<1>2. TypeOK /\ RowsAndLocks /\ SentWasDelivered /\ [Next]_vars => SentWasDelivered'
  <2> SUFFICES ASSUME TypeOK, RowsAndLocks, SentWasDelivered, [Next]_vars,
                      NEW i \in Notifications, nstate'[i] = "SENT"
               PROVE  i \in delivered'
    BY DEF SentWasDelivered
  <2> USE DEF SentWasDelivered
  <2>1. CASE IngestStep
    BY <2>1 DEF IngestStep, Ingest, notifierVars
  <2>2. CASE TaskStep
    <3> PICK t \in Tasks :
            \/ LoseMessage(t) \/ Start(t) \/ Fail(t) \/ Commit(t)
            \/ Return(t) \/ SoftLimitAfterCommit(t) \/ Kill(t)
      BY <2>2 DEF TaskStep, TaskNext
    <3>1. CASE Commit(t)
      <4>1. nstate[i] = "SENT"
        BY <3>1 DEF Commit, CommitMatched
      <4> QED BY <2>2, <4>1 DEF TaskStep, notifierVars
    <3>2. CASE ~ Commit(t)
      BY <2>2, <3>2
         DEF LoseMessage, Start, Fail, Return, SoftLimitAfterCommit, Kill,
             RevertToIngested, storeVars, TaskStep, notifierVars
    <3> QED BY <3>1, <3>2
  <2>3. CASE DispatcherStep
    BY <2>3 DEF DispatcherStep, DispatchNext, DispatchStep, Guard, Recover,
                CheckThresholds, Dispatch, NothingLeft, DispatcherCrash,
                RevertToIngested, storeVars, notifierVars
  <2>4. CASE NotifyStep
    <3> PICK n \in Notifiers : NotifierStep(n) \/ NotifierCrash(n)
      BY <2>4 DEF NotifyStep, NotifierNext
    <3>1. CASE CommitOutcomes(n)
      <4>1. confirmed[n] \subseteq delivered
        BY DEF RowsAndLocks
      <4> QED BY <3>1, <4>1 DEF CommitOutcomes
    <3>2. CASE ~ CommitOutcomes(n)
      BY <3>2 DEF NotifierStep, LockPending, Publish, PublishWithFailures,
                  PublishOutcome, CheckAlert, MarkNotified, NotifierCrash, storeVars
    <3> QED BY <3>1, <3>2
  <2>5. CASE Tick
    BY <2>5 DEF Tick, AgeRows, notifierVars
  <2>6. CASE UNCHANGED vars
    BY <2>6 DEF vars, storeVars, notifierVars
  <2> QED BY <2>1, <2>2, <2>3, <2>4, <2>5, <2>6 DEF Next
<1> QED BY <1>1, <1>2, TypeCorrect, LocksHold, PTL DEF Spec
-----------------------------------------------------------------------------
\* A task sets no alert NOTIFIED and clears no notified_at.
LEMMA TaskKeepsAnchors ==
    ASSUME TypeOK, TaskStep, NEW a \in Alerts
    PROVE  /\ status'[a] = "NOTIFIED" => status[a] = "NOTIFIED"
           /\ notifiedAt[a] => notifiedAt'[a]
<1> USE DEF TypeOK, StoreTypeOK
<1> PICK t \in Tasks :
        \/ LoseMessage(t) \/ Start(t) \/ Fail(t) \/ Commit(t)
        \/ Return(t) \/ SoftLimitAfterCommit(t) \/ Kill(t)
  BY DEF TaskStep, TaskNext
<1>1. CASE Fail(t) \/ SoftLimitAfterCommit(t)
  BY <1>1 DEF Fail, SoftLimitAfterCommit, RevertToIngested, SetStatus
<1>2. CASE Commit(t)
  BY <1>2 DEF Commit, CommitMatched, SetStatus
<1>3. CASE ~ (Fail(t) \/ SoftLimitAfterCommit(t) \/ Commit(t))
  BY <1>3 DEF LoseMessage, Start, Return, Kill, storeVars
<1> QED BY <1>1, <1>2, <1>3

\* Whatever overlaps and whatever is reverted, an alert that is NOTIFIED has
\* its notified_at, so that retention reaches its payload (schedule.py).
THEOREM NotifiedAreAnchored == Spec => []NotifiedIsAnchored
<1>1. Init => NotifiedIsAnchored
  BY DEF Init, StoreInit, NotifiedIsAnchored
<1>2. TypeOK /\ NotifiedIsAnchored /\ [Next]_vars => NotifiedIsAnchored'
  <2> SUFFICES ASSUME TypeOK, NotifiedIsAnchored, [Next]_vars,
                      NEW a \in Alerts, status'[a] = "NOTIFIED"
               PROVE  notifiedAt'[a]
    BY DEF NotifiedIsAnchored
  <2> USE DEF NotifiedIsAnchored, TypeOK, StoreTypeOK
  <2>1. CASE IngestStep
    BY <2>1 DEF IngestStep, Ingest
  <2>2. CASE TaskStep
    BY <2>2, TaskKeepsAnchors
  <2>3. CASE DispatcherStep
    BY <2>3 DEF DispatcherStep, DispatchNext, DispatchStep, Guard, Recover, CheckThresholds,
                Dispatch, NothingLeft, DispatcherCrash, RevertToIngested, SetStatus, storeVars
  <2>4. CASE NotifyStep
    <3> PICK n \in Notifiers : NotifierStep(n) \/ NotifierCrash(n)
      BY <2>4 DEF NotifyStep, NotifierNext
    <3>1. CASE MarkNotified(n)
      <4>1. status'[a] = status[a] \/ a \in {b \in cur[n] : status[b] = "MATCHED"}
        BY <3>1 DEF MarkNotified, SetStatus
      <4>2. notifiedAt' = [b \in Alerts |-> \/ notifiedAt[b]
                                           \/ b \in {c \in cur[n] : status[c] = "MATCHED"}]
        BY <3>1 DEF MarkNotified
      <4> QED BY <4>1, <4>2
    <3>2. CASE ~ MarkNotified(n)
      BY <3>2 DEF NotifierStep, LockPending, Publish, PublishWithFailures, PublishOutcome,
                  CommitOutcomes, CheckAlert, NotifierCrash, storeVars
    <3> QED BY <3>1, <3>2
  <2>5. CASE Tick
    BY <2>5 DEF Tick, AgeRows
  <2>6. CASE UNCHANGED vars
    BY <2>6 DEF vars, storeVars
  <2> QED BY <2>1, <2>2, <2>3, <2>4, <2>5, <2>6 DEF Next
<1> QED BY <1>1, <1>2, TypeCorrect, PTL DEF Spec

\* In any schedule an outcome that was recorded has its cause (schedule.py,
\* impl_hopskotch.py).
THEOREM OutcomesHold == Spec => []OutcomesAreBacked
BY SentIsDelivered, LocksHold, PTL DEF OutcomesAreBacked
=============================================================================
