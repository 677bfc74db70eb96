--------------------------- MODULE PipelineDetail ---------------------------
(***************************************************************************)
(* The two parts of the pipeline that need more detail than its statuses:  *)
(* the ingest of messages, and one crossmatch run over a batch.  No state  *)
(* of one is read by the other, so a behaviour follows one of them.        *)
(***************************************************************************)
EXTENDS Ingest, CrossmatchRun

VARIABLE part          \* the one followed

detailVars == <<ingestVars, crossmatchVars, part>>

Init == part \in {"ingest", "crossmatch"} /\ IngestInit /\ CrossmatchInit

IngestPart(A) == part = "ingest" /\ A /\ UNCHANGED <<crossmatchVars, part>>
CrossmatchPart(A) == part = "crossmatch" /\ A /\ UNCHANGED <<ingestVars, part>>

\* A batch that is MATCHED needs no further run.
BatchDone == finished /\ pc = "idle" /\ UNCHANGED crossmatchVars

Next ==
    \/ IngestPart(IngestNext)
    \/ CrossmatchPart(CrossmatchNext)
    \/ CrossmatchPart(BatchDone)

Spec == Init /\ [][Next]_detailVars

\* The loops run for ever and errors are finitely many.  A subscription hands
\* out each of its messages in turn, so one that is nacked again and again does
\* not starve the others.
Fairness ==
    /\ \A w \in Consumers : WF_detailVars(IngestPart(Step(w)))
    /\ \A m \in Messages : SF_detailVars(IngestPart(TakeOf(m)))

FairSpec == Spec /\ Fairness

\* Where ingest is followed, every message that is well-formed and redelivered is
\* credited in the end, so that an error between the two steps of the gate is
\* repaired by the next delivery (brokers/__init__.py).
EveryMessageCredited == part = "ingest" => MessagesAreCredited
=============================================================================
