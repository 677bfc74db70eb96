----------------------------- MODULE Background -----------------------------
(***************************************************************************)
(* What runs beside the pipeline and the APIs: the start-up of the ingest  *)
(* consumers and of the Celery workers, the TNS refresh and the retention  *)
(* sweep.  They share no state, so a behaviour follows one of them.        *)
(***************************************************************************)
EXTENDS StartUp, DaskAlignment, TnsSnapshot, Retention

VARIABLE part          \* the one followed

backgroundVars == <<startVars, daskVars, tnsVars, retentionVars, part>>

Init ==
    /\ part \in {"startup", "dask", "tns", "retention"}
    /\ IF part = "startup" THEN StartUpInit ELSE StartUpFrom("exited")
    /\ IF part = "dask" THEN DaskInit ELSE DaskAtRest
    /\ IF part = "tns" THEN TnsInit ELSE TnsAtRest
    /\ RetentionInit

StartUpPart(A) == part = "startup" /\ A /\ UNCHANGED <<daskVars, tnsVars, retentionVars, part>>
DaskPart(A) == part = "dask" /\ A /\ UNCHANGED <<startVars, tnsVars, retentionVars, part>>
TnsPart(A) == part = "tns" /\ A /\ UNCHANGED <<startVars, daskVars, retentionVars, part>>
RetentionPart(A) == part = "retention" /\ A /\ UNCHANGED <<startVars, daskVars, tnsVars, part>>

Next ==
    \/ StartUpPart(StartUpStep)
    \/ DaskPart(DaskStep)
    \/ TnsPart(TnsStep)
    \/ RetentionPart(RetentionStep)

Spec == Init /\ [][Next]_backgroundVars

\* A pod goes on while it can, what blocks it without being a pod ends, Beat
\* and the workers keep running both tasks, and time passes.  Nothing obliges
\* a fault, a second run over an alert, or a change of the cluster or of TNS.
Fairness ==
    /\ \A p \in Pods : WF_backgroundVars(StartUpPart(PodStep(p)))
    /\ WF_backgroundVars(StartUpPart(ReaderEnds))
    /\ WF_backgroundVars(StartUpPart(DatabaseUp))
    /\ WF_backgroundVars(StartUpPart(DropIndex))
    /\ WF_backgroundVars(DaskPart(MasterStep))
    /\ WF_backgroundVars(TnsPart(HourTurns))
    /\ WF_backgroundVars(TnsPart(RefreshStep))
    /\ \A s \in Sweeps : WF_backgroundVars(RetentionPart(Select(s) \/ Clear(s)))
    /\ WF_backgroundVars(RetentionPart(Days))

FairSpec == Spec /\ Fairness

\* The values every variable takes.
TypeOK ==
    /\ \A p \in Pods :
          /\ pod[p].pc \in InInit \cup {"connecting", "polling", "started", "exited"}
          /\ pod[p].attempt \in 1 .. MaxConnects
          /\ pod[p].next \in 0 .. Len(Migrations) + 1
          /\ pod[p].waitsFor \subseteq Pods \cup {Reader}
    /\ lockHolder \in Pods \cup {"none"}
    /\ schema.applied \in 0 .. Len(Migrations) /\ schema.index \in IndexStates
    /\ master.left \in 0 .. Timeout /\ master.backoff \in 1 .. BackoffMax
    /\ snapshot.age \in -1 .. MaxAge + 1
    /\ snapshot.rows \in [TnsNames -> 0 .. MaxVersion]
    /\ refresh.attempt \in 1 .. Attempts
    /\ anchor \in [Payloads -> -1 .. Grace + 1]
    /\ open \subseteq Payloads /\ payload \subseteq Payloads
    /\ \A s \in Sweeps : Cardinality(sweep[s].keys) <= MaxRows
=============================================================================
