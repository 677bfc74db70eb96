----------------------------- MODULE Retention -----------------------------
(***************************************************************************)
(* The retention sweep (tasks/retention.py) over the payloads of one       *)
(* table: core_alert, anchored on notified_at, and core_notification,      *)
(* anchored on sent_at, are swept alike, one after the other.  A sweep     *)
(* selects primary keys and clears them in a second statement; the         *)
(* pipeline goes on between the two, and another sweep may run.            *)
(***************************************************************************)
EXTENDS Integers, FiniteSets

CONSTANTS
    Payloads,       \* the rows
    Sweeps,         \* runs of retention_sweep at once
    Grace,          \* CROSSMATCH_RETENTION_GRACE_DAYS, in ticks
    MaxRows,        \* CROSSMATCH_RETENTION_MAX_ROWS
    MaxReopens      \* bound: finished alerts that a crossmatch run takes up again

ASSUME RetentionAssumption ==
    /\ IsFiniteSet(Payloads)
    /\ Grace \in Nat /\ MaxRows \in Nat \ {0} /\ MaxReopens \in Nat

VARIABLES
    anchor,         \* age of notified_at or sent_at, up to Grace + 1; -1 is NULL
    open,           \* rows the pipeline still has work for
    payload,        \* rows whose payload is not NULL
    sweep,          \* each run: the keys it selected, or idle
    reopened

retentionVars == <<anchor, open, payload, sweep, reopened>>

NoAnchor == -1

Idle == [pc |-> "idle", keys |-> {}]

\* Mutants of Expired: exclude(anchor__gte=cutoff), which lets NULL through;
\* cleared rows are selected again.
ExpiredByExclude == {r \in payload : anchor[r] \notin 0 .. Grace}
ExpiredAgain == {r \in Payloads : anchor[r] > Grace}

\* payload__isnull=False and the anchor before the cutoff; NULL never is.
Expired == {r \in payload : anchor[r] > Grace}

\* The sliced queryset: any max_rows of them, for it has no order.
Slices == {S \in SUBSET Expired : Cardinality(S) = IF Cardinality(Expired) < MaxRows
                                                   THEN Cardinality(Expired) ELSE MaxRows}

Select(s) ==
    /\ sweep[s].pc = "idle"
    /\ \E keys \in Slices : sweep' = [sweep EXCEPT ![s] = [pc |-> "selected", keys |-> keys]]
    /\ UNCHANGED <<anchor, open, payload, reopened>>

\* filter(pk__in=pks).update(payload=None)
Clear(s) ==
    /\ sweep[s].pc = "selected"
    /\ payload' = payload \ sweep[s].keys
    /\ sweep' = [sweep EXCEPT ![s] = Idle]
    /\ UNCHANGED <<anchor, open, reopened>>

-----------------------------------------------------------------------------
\* The pipeline is done with the row and stamps its anchor: NOTIFIED, MATCHED
\* without matches, or SENT.
Finish(r) ==
    /\ r \in open
    /\ open' = open \ {r} /\ anchor' = [anchor EXCEPT ![r] = 0]
    /\ UNCHANGED <<payload, sweep, reopened>>

\* A late crossmatch run takes up an alert another path finished: it fails and
\* reverts it, or it adds notifications.  notified_at stays (tasks/crossmatch.py).
Reopen(r) ==
    /\ r \notin open /\ reopened < MaxReopens
    /\ open' = open \cup {r} /\ reopened' = reopened + 1
    /\ UNCHANGED <<anchor, payload, sweep>>

Days ==
    /\ anchor' = [r \in Payloads |-> IF anchor[r] \in 0 .. Grace THEN anchor[r] + 1 ELSE anchor[r]]
    /\ UNCHANGED <<open, payload, sweep, reopened>>

RetentionStep ==
    \/ \E s \in Sweeps : Select(s) \/ Clear(s)
    \/ \E r \in Payloads : Finish(r) \/ Reopen(r)
    \/ Days

RetentionInit ==
    /\ anchor = [r \in Payloads |-> NoAnchor] /\ open = Payloads /\ payload = Payloads
    /\ sweep = [s \in Sweeps |-> Idle] /\ reopened = 0

\* A payload is gone only from a row that was finished once, and a row still in
\* the pipeline loses it only if a run took it up again after that (retention.py:
\* "their payloads are retained regardless of age").
PayloadKeptInFlight ==
    /\ \A r \in Payloads \ payload : anchor[r] # NoAnchor
    /\ reopened = 0 => open \subseteq payload

\* Every finished row loses its payload in the end, with however few rows a run
\* may clear and runs that overlap and select the same keys (retention.py).
ExpiredIsCleared ==
    \A r \in Payloads : (anchor[r] > Grace) ~> (r \notin payload)
=============================================================================
