---------------------------- MODULE SafePipeline ----------------------------
(***************************************************************************)
(* The pipeline under the schedule its comments rely on.  What holds here  *)
(* and fails without the assumption is what that schedule buys.            *)
(***************************************************************************)
EXTENDS Pipeline

ASSUME SafeSchedule == SafeEnv

\* A live batch is QUEUED and was stamped no longer ago than the pickup bound
\* and its running time explain; it is the only one.
TaskOwnsBatch ==
    \A t \in Tasks :
        /\ tpc[t] = "waiting" => clock[t] <= PickupBound
        /\ InWorker(t) => clock[t] <= TimeLimit
        /\ Live(t) => batch[t] # {}
        /\ Live(t) => \A a \in batch[t] :
            /\ status[a] = "QUEUED"
            /\ tpc[t] = "waiting" => queuedAge[a] <= clock[t]
            /\ tpc[t] = "running" => queuedAge[a] <= PickupBound + clock[t]

\* All QUEUED alerts were stamped by the same dispatch.
QueuedTogether ==
    \A a \in WithStatus("QUEUED") :
        /\ queuedAge[a] # NoTime
        /\ \A b \in WithStatus("QUEUED") : queuedAge[a] = queuedAge[b]

\* What a dispatcher has read is still so when it acts on it.
DispatcherSeesTruth ==
    \A d \in Dispatchers :
        /\ dpc[d] \in {"thresholds", "select"} => WithStatus("QUEUED") = {}
        /\ dpc[d] = "recover" => \A a \in WithStatus("QUEUED") : queuedAge[a] = Stuck

\* The status of an alert says how often it was crossmatched.
StatusCountsRounds ==
    \A a \in Alerts :
        round[a] = IF status[a] \in {"MATCHED", "NOTIFIED"} THEN 1 ELSE 0

\* No task loses its alerts to another task or to the recovery: the inductive
\* invariant behind OneBatchInFlight, LiveBatchKept and CrossmatchedOnce.
Ownership ==
    /\ OneBatchInFlight
    /\ TaskOwnsBatch
    /\ QueuedTogether
    /\ DispatcherSeesTruth
    /\ StatusCountsRounds

\* What a notification run still has to mark has rows, and what it has found
\* sent stays sent, while other runs and tasks go on: the inductive invariant
\* behind NotifiedMeansAllSent and AnchoredIffDone.
MarkingIsSafe ==
    /\ \A n \in Notifiers :
        /\ \A a \in todo[n] : RowsOf(a) # {}
        /\ \A a \in cur[n] : RowsOf(a) # {} /\ ~ HasUnsent(a)
        /\ \A a, b \in cur[n] : a = b
    /\ \A a \in Alerts : status[a] = "NOTIFIED" => RowsOf(a) # {}
    /\ NotifiedMeansAllSent
    /\ AnchoredIffDone
=============================================================================
