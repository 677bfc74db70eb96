--------------------------- MODULE CrossmatchTask ---------------------------
(***************************************************************************)
(* The Celery task crossmatch_batch (tasks/crossmatch.py) and the queue    *)
(* that carries it.  A task is a slot: the message in Valkey and then the  *)
(* worker process that runs it.  The handler never looks at the status of  *)
(* the alerts it was given, on the way in or on the way out.               *)
(***************************************************************************)
EXTENDS AlertStore

CONSTANTS
    Tasks,           \* bound: crossmatch_batch calls outstanding at once
    PickupBound,     \* longest time from queued_at to the start of the task
    SoftLimit,       \* CROSSMATCH_BATCH_SOFT_TIME_LIMIT_SECONDS, in ticks
    TimeLimit,       \* CROSSMATCH_BATCH_TIME_LIMIT_SECONDS, in ticks
    SoftAfterCommit  \* may the soft limit strike after the MATCHED commit?

VARIABLES
    tpc,      \* where the task is
    batch,    \* its batch_ids argument
    clock     \* time spent waiting, then time spent running

taskVars == <<tpc, batch, clock>>

\* settings.py refuses to start unless SOFT < HARD < STUCK.
ASSUME TaskAssumption ==
    /\ PickupBound \in Nat
    /\ SoftLimit \in Nat
    /\ TimeLimit \in Nat
    /\ SoftLimit < TimeLimit
    /\ TimeLimit < Stuck
    /\ SoftAfterCommit \in BOOLEAN

TaskPC == {"free", "waiting", "running", "committed"}

TaskTypeOK ==
    /\ tpc \in [Tasks -> TaskPC]
    /\ batch \in [Tasks -> SUBSET Alerts]
    /\ clock \in [Tasks -> Nat]

TaskInit ==
    /\ tpc = [t \in Tasks |-> "free"]
    /\ batch = [t \in Tasks |-> {}]
    /\ clock = [t \in Tasks |-> 0]

\* A task whose outcome for its alerts is still open.
Live(t) == tpc[t] \in {"waiting", "running"}

InWorker(t) == tpc[t] \in {"running", "committed"}

\* transaction.on_commit(crossmatch_batch.delay(S)).  The call waits, first as
\* the hook of the transaction that just committed, then as a message.
Submit(t, S) ==
    /\ tpc[t] = "free"
    /\ tpc' = [tpc EXCEPT ![t] = "waiting"]
    /\ batch' = [batch EXCEPT ![t] = S]
    /\ clock' = [clock EXCEPT ![t] = 0]

\* The handler is over, however it ended.
Release(t) ==
    /\ tpc' = [tpc EXCEPT ![t] = "free"]
    /\ batch' = [batch EXCEPT ![t] = {}]
    /\ clock' = [clock EXCEPT ![t] = 0]

-----------------------------------------------------------------------------
\* The hook or the message dies: the dispatcher is killed after its commit,
\* Valkey refuses or drops the message, the worker holding it goes away.
LoseMessage(t) ==
    /\ tpc[t] = "waiting"
    /\ Fault("lose")
    /\ Release(t)
    /\ UNCHANGED storeVars

\* A worker takes the message; the handler loads its alert rows and computes.
Start(t) ==
    /\ tpc[t] = "waiting"
    /\ tpc' = [tpc EXCEPT ![t] = "running"]
    /\ clock' = [clock EXCEPT ![t] = 0]
    /\ UNCHANGED <<batch, storeVars, faults>>

\* The bound on rounds keeps the task from committing (MaxRounds).
RoundsExhausted(t) == \E a \in batch[t] : round[a] = MaxRounds

\* compute_crossmatch, record preparation or the final transaction raises (all
\* catalogs skipped, a deterministic catalog error, the soft time limit, the
\* database): the except branch reverts the whole batch and re-raises.  A run
\* the bound on rounds stops from committing ends here too.
Fail(t) ==
    /\ tpc[t] = "running"
    /\ Fault("fail") \/ (RoundsExhausted(t) /\ UNCHANGED faults)
    /\ RevertToIngested(batch[t])
    /\ Release(t)

\* Mutants of Unmatched: the exclude() is missing; the stamp is missing.
UnmatchedAll(S, R) == S
UnmatchedNone(S, R) == {}

\* The alerts of a batch that matched nothing: they never reach NOTIFIED.
Unmatched(S, R) == {a \in S : \A c \in Catalogs : <<a, c>> \notin R}

\* The final transaction: one PENDING notification per match, the whole batch
\* MATCHED, and notified_at stamped on the alerts that matched nothing.  R is
\* the set of matches, as <<alert, catalog>> pairs; R = {} is also the early
\* return for a batch with no valid coordinates.
CommitMatched(t, R) ==
    /\ tpc[t] = "running"
    /\ ~ RoundsExhausted(t)
    /\ tpc' = [tpc EXCEPT ![t] = "committed"]
    /\ status' = SetStatus(batch[t], "MATCHED")
    /\ round' = [a \in Alerts |-> IF a \in batch[t] THEN round[a] + 1 ELSE round[a]]
    /\ nstate' = [i \in Notifications |->
                    IF i[2] = round[i[1]] + 1 /\ <<i[1], i[3]>> \in R
                    THEN "PENDING" ELSE nstate[i]]
    /\ notifiedAt' = [a \in Alerts |-> notifiedAt[a] \/ a \in Unmatched(batch[t], R)]
    /\ UNCHANGED <<ingestAge, queuedAge, batch, clock, faults>>

Commit(t) == \E R \in SUBSET (batch[t] \X Catalogs) : CommitMatched(t, R)

\* Mutant of Return: the revert sits in a finally block.
ReturnReverting(t) ==
    /\ tpc[t] = "committed"
    /\ RevertToIngested(batch[t])
    /\ Release(t)
    /\ UNCHANGED faults

\* Metrics and logging after the commit, then the handler returns.
Return(t) ==
    /\ tpc[t] = "committed"
    /\ Release(t)
    /\ UNCHANGED <<storeVars, faults>>

\* The soft limit is an exception the worker raises in whatever statement is
\* executing.  The metrics and logging after the commit are still inside the
\* try block, so there it reverts a batch that is already MATCHED.
SoftLimitAfterCommit(t) ==
    /\ SoftAfterCommit
    /\ tpc[t] = "committed"
    /\ clock[t] >= SoftLimit
    /\ RevertToIngested(batch[t])
    /\ Release(t)
    /\ UNCHANGED faults

\* The worker process dies (pod restart, OOM, the hard limit's SIGKILL), or the
\* revert in the except branch raises as well and is only logged.
Kill(t) ==
    /\ InWorker(t)
    /\ Fault("kill")
    /\ Release(t)
    /\ UNCHANGED storeVars

TaskNext ==
    \E t \in Tasks :
        \/ LoseMessage(t)
        \/ Start(t)
        \/ Fail(t)
        \/ Commit(t)
        \/ Return(t)
        \/ SoftLimitAfterCommit(t)
        \/ Kill(t)

\* Time may pass only while every message is within its pickup bound and every
\* worker within the hard limit, which kills it no later than that.
MayTick ==
    \A t \in Tasks :
        /\ tpc[t] = "waiting" => clock[t] < PickupBound
        /\ InWorker(t) => clock[t] < TimeLimit

AgeTasks ==
    /\ clock' = [t \in Tasks |->
                    IF tpc[t] = "free" THEN 0 ELSE clock[t] + 1]
    /\ UNCHANGED <<tpc, batch>>
=============================================================================
