---------------------------- MODULE DaskAlignment ----------------------------
(***************************************************************************)
(* The start of a Celery worker pod (core/dask.py): the master connects to *)
(* the Dask scheduler, waits for a Dask worker and compares versions, all  *)
(* within one timeout.  It exits on drift or timeout, and the pod is       *)
(* started again.  The cluster changes meanwhile.                          *)
(***************************************************************************)
EXTENDS Integers, FiniteSets

CONSTANTS
    DaskWorkers,    \* workers that may register with the scheduler
    Timeout,        \* DASK_VERSION_CHECK_TIMEOUT_SECONDS, in ticks
    BackoffMax,     \* _BACKOFF_MAX, in ticks; the first backoff is one tick
    ConnectTime,    \* longest time one failed connection attempt takes
    MaxChanges      \* bound: changes of the cluster

ASSUME DaskAssumption ==
    /\ Timeout \in Nat /\ BackoffMax \in Nat \ {0} /\ ConnectTime \in Nat /\ MaxChanges \in Nat

VARIABLES
    cluster,        \* the scheduler and the workers registered with it
    master,         \* the Celery master's start
    changes         \* changes so far

daskVars == <<cluster, master, changes>>

\* Versions as the app sees them.  core: what distributed reports; engine:
\* lsdb and hats, imported by the probe; missing: they cannot be.
Gone == [core |-> "same", engine |-> "gone"]
Builds == [core : {"same", "other"}, engine : {"same", "other", "missing"}]

Registered == {w \in DaskWorkers : cluster.workers[w] # Gone}

FreshMaster == [pc |-> "connecting", left |-> Timeout, backoff |-> 1, drift |-> FALSE,
                compared |-> {}]

To(pc) == master' = [master EXCEPT !.pc = pc]

Smaller(a, b) == IF a < b THEN a ELSE b

\* Mutant of ConnectFails: the deadline is not looked at.
ConnectForever ==
    /\ master.pc = "connecting" /\ ~ cluster.up
    /\ LET left == master.left - master.backoff
       IN  master' = [master EXCEPT !.left = IF left < 0 THEN 0 ELSE left,
                                    !.backoff = Smaller(@ * 2, BackoffMax)]
    /\ UNCHANGED <<cluster, changes>>

\* _connect_with_retry: an attempt fails after some time, and the next one
\* waits for the backoff, cut to what is left.
ConnectFails ==
    /\ master.pc = "connecting" /\ ~ cluster.up
    /\ \E spent \in 0 .. ConnectTime :
          LET left == master.left - spent
          IN  master' = IF left <= 0 THEN [master EXCEPT !.pc = "exited"]
                        ELSE [master EXCEPT !.left = left - Smaller(master.backoff, left),
                                            !.backoff = Smaller(@ * 2, BackoffMax)]
    /\ UNCHANGED <<cluster, changes>>

Connected ==
    /\ master.pc = "connecting" /\ cluster.up
    /\ To("waiting")
    /\ UNCHANGED <<cluster, changes>>

\* _wait_for_worker: one worker, or what is left of the timeout runs out.
WaitForWorker ==
    /\ master.pc = "waiting"
    /\ \/ master.left > 0 /\ cluster.up /\ Registered # {} /\ To("versions")
       \/ master.left <= 0 /\ To("exited")
       \/ /\ master.left > 0 /\ (~ cluster.up \/ Registered = {})
          /\ master' = [master EXCEPT !.pc = "exited", !.left = 0]
    /\ UNCHANGED <<cluster, changes>>

\* A request to the cluster that fails raises, and not DaskAlignmentError: the
\* signal's sender logs it, and the worker starts (Celery, external).
Unreachable == ~ cluster.up /\ To("unverified")

\* Mutant of CoreDrift: a version the scheduler does not report differs.
CoreDriftStrict == cluster.scheduler # "same" \/ \E w \in Registered : cluster.workers[w].core # "same"

\* _check_versions: the scheduler, where it reports a version, and every
\* worker registered now.
CoreDrift ==
    \/ cluster.scheduler \notin {"same", "unreported"}
    \/ \E w \in Registered : cluster.workers[w].core # "same"

CheckVersions ==
    /\ master.pc = "versions"
    /\ \/ Unreachable
       \/ cluster.up /\ master' = [master EXCEPT !.pc = "probing", !.drift = CoreDrift]
    /\ UNCHANGED <<cluster, changes>>

\* Mutant of EngineDrift: nothing to compare with is no drift.
EngineDriftSeen(answers) == \E w \in answers : cluster.workers[w].engine # "same"

\* _check_off_boundary_versions fails closed: an app that cannot import the
\* engine, no answer at all, or an answer that differs.
EngineDrift(answers) ==
    \/ cluster.app = "missing"
    \/ answers = {}
    \/ \E w \in answers : cluster.workers[w].engine # cluster.app

\* The probe runs on the workers registered now; then verify_dask_versions
\* exits on any drift (_fail_fast) or lets the worker start.
Probe ==
    /\ master.pc = "probing"
    /\ \/ Unreachable
       \/ /\ cluster.up
          /\ master' = [master EXCEPT
                !.pc = IF master.drift \/ EngineDrift(Registered) THEN "exited" ELSE "started",
                !.compared = {cluster.workers[w].engine : w \in Registered}]
    /\ UNCHANGED <<cluster, changes>>

\* ... or a worker dies while the probe runs on it, and client.run raises.
ProbeLosesWorker ==
    /\ master.pc = "probing" /\ cluster.up /\ To("unverified")
    /\ changes < MaxChanges /\ changes' = changes + 1
    /\ \E w \in Registered : cluster' = [cluster EXCEPT !.workers[w] = Gone]

\* The container is started again.
RestartWorker ==
    /\ master.pc = "exited"
    /\ master' = FreshMaster
    /\ UNCHANGED <<cluster, changes>>

MasterStep ==
    ConnectFails \/ Connected \/ WaitForWorker \/ CheckVersions \/ Probe \/ RestartWorker

-----------------------------------------------------------------------------
\* The cluster is deployed and scaled by others.
Change(new) ==
    /\ changes < MaxChanges
    /\ changes' = changes + 1 /\ cluster' = new
    /\ UNCHANGED master

WorkerChanges ==
    \E w \in DaskWorkers, b \in Builds \cup {Gone} :
        cluster.workers[w] # b /\ Change([cluster EXCEPT !.workers[w] = b])

SchedulerChanges ==
    \/ Change([cluster EXCEPT !.up = ~ @])
    \/ \E v \in {"same", "other", "unreported"} \ {cluster.scheduler} :
          Change([cluster EXCEPT !.scheduler = v])

DaskStep == MasterStep \/ ProbeLosesWorker \/ WorkerChanges \/ SchedulerChanges

DaskFrom(pc, workers, up, app) ==
    /\ cluster = [up |-> up, scheduler |-> "same", app |-> app, workers |-> workers]
    /\ master = [FreshMaster EXCEPT !.pc = pc] /\ changes = 0

DaskAtRest == DaskFrom("exited", [w \in DaskWorkers |-> Gone], FALSE, "same")

DaskInit ==
    \E workers \in [DaskWorkers -> {Gone, [core |-> "same", engine |-> "same"]}],
       up \in BOOLEAN, app \in {"same", "missing"} : DaskFrom("connecting", workers, up, app)

\* A worker that passed the check compared its engine with at least one Dask
\* worker, and with none that differed, although workers come and go between
\* the wait, the version report and the probe (core/dask.py).
VerifiedMeansCompared == master.pc = "started" => master.compared = {cluster.app}

\* The check ends: the master starts its worker or exits, whatever the cluster
\* does and however often an attempt fails (core/dask.py).
VerificationEnds ==
    (master.pc = "connecting") ~> (master.pc \in {"started", "unverified", "exited"})

Aligned ==
    /\ cluster.up /\ cluster.scheduler # "other" /\ cluster.app = "same"
    /\ Registered # {} /\ \A w \in Registered : cluster.workers[w] = [core |-> "same", engine |-> "same"]

\* Once the cluster is aligned for good, the worker starts.
AlignedStarts == <>[]Aligned => <>(master.pc \in {"started", "unverified"})

\* The check settles: it ends, and in favour of a cluster that stays aligned.
CheckSettles == VerificationEnds /\ AlignedStarts
=============================================================================
