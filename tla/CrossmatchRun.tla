---------------------------- MODULE CrossmatchRun ----------------------------
(***************************************************************************)
(* One batch through crossmatch_batch and compute_crossmatch               *)
(* (tasks/crossmatch.py, matching/catalog.py): the catalog loop with its   *)
(* retries and skips, the matches committed catalog by catalog, the object *)
(* records prepared from them, and the final transaction.  A run that      *)
(* fails or dies leaves its matches behind and the batch is run again.     *)
(* CrossmatchTask sees all of this as one step with a set of matches.      *)
(***************************************************************************)
EXTENDS Integers, FiniteSets

CONSTANTS
    Alerts,        \* the batch
    Valid,         \* alerts of it that have a position
    NCatalogs,     \* length of settings.CROSSMATCH_CATALOGS
    Footprint,     \* <<alert, catalog>> inside the coverage map of the catalog
    Retries        \* settings.CROSSMATCH_READ_RETRIES

VARIABLES
    pc,            \* the next step of the run
    next,          \* the catalog it is at
    attempt,       \* read attempts made for that catalog
    outcome,       \* CATALOG_*: result.catalog_outcomes
    records,       \* result.records: <<alert, catalog>> pairs
    classified,    \* search_outcomes is not None
    prepared,      \* the rows of PreparedRecords, or NoRecord
    struck,        \* history: the soft time limit was raised in a read of the run
    matches,       \* catalog_matches rows
    notes,         \* notification rows: what they announce and how they are stamped
    recorded,      \* object_crossmatch_records rows
    finished       \* the batch is MATCHED

runVars == <<next, attempt, outcome, records, classified, prepared>>
tableVars == <<matches, notes, recorded, finished>>
crossmatchVars == <<pc, struck, runVars, tableVars>>

Catalogs == 1 .. NCatalogs

ASSUME RunAssumption ==
    /\ Valid \subseteq Alerts
    /\ NCatalogs \in Nat \ {0}
    /\ Footprint \subseteq Alerts \X Catalogs
    /\ Retries \in Nat \ {0}

\* CATALOG_MATCHED and CATALOG_EMPTY are both a read that succeeded: "read".
Outcome == {"none", "read", "no_overlap", "skipped"}

SearchOutcome == {"searched", "outside_footprint", "skipped_read_failure",
                  "not_searched_invalid_position"}

NoRecord == [c \in {} |-> "searched"]

RunPC == {"idle", "read", "guard", "prepare", "commit"}

Notes == [alert : Valid, catalog : Catalogs, skipped : SUBSET Catalogs]

Rows == [Alerts -> [Catalogs -> SearchOutcome] \cup {NoRecord}]

CrossmatchTyped ==
    /\ pc \in RunPC
    /\ next \in 1 .. NCatalogs + 1
    /\ attempt \in 1 .. Retries
    /\ outcome \in [Catalogs -> Outcome]
    /\ records \subseteq Valid \X Catalogs
    /\ classified \in BOOLEAN
    /\ prepared \in Rows
    /\ struck \in BOOLEAN
    /\ matches \subseteq Valid \X Catalogs
    /\ notes \subseteq Notes
    /\ recorded \in Rows
    /\ finished \in BOOLEAN

NothingPrepared == [a \in Alerts |-> NoRecord]

NothingRead == [c \in Catalogs |-> "none"]

CrossmatchInit ==
    /\ pc = "idle"
    /\ next = 1
    /\ attempt = 1
    /\ outcome = NothingRead
    /\ records = {}
    /\ classified = TRUE
    /\ prepared = NothingPrepared
    /\ struck = FALSE
    /\ matches = {}
    /\ notes = {}
    /\ recorded = NothingPrepared
    /\ finished = FALSE

-----------------------------------------------------------------------------
\* What is raised by a read.  "chained" is the soft time limit raised while a
\* transient error was being handled: the transient error is its __context__.
Exceptions == {"transient", "deterministic", "soft", "chained"}

TimeLimit == {"soft", "chained"}

\* Mutant of IsSoft: SoftTimeLimitExceeded is left to the generic handlers.
IsSoftNever(e) == FALSE

\* except SoftTimeLimitExceeded, ahead of every other handler.
IsSoft(e) == e \in TimeLimit

\* _transient_read_signature walks the chain of causes and contexts.
IsTransient(e) == e \in {"transient", "chained"}

\* History: e was raised in this run.
Hit(e) == struck' = (struck \/ e \in TimeLimit)

\* The task starts and loads its alerts.
Begin ==
    /\ pc = "idle"
    /\ ~ finished
    /\ pc' = IF Valid = {} THEN "prepare" ELSE "read"
    /\ next' = 1
    /\ attempt' = 1
    /\ outcome' = NothingRead
    /\ records' = {}
    /\ classified' = TRUE
    /\ prepared' = NothingPrepared
    /\ struck' = FALSE
    /\ UNCHANGED tableVars

\* The except branch reverts the batch and re-raises, or the worker dies.
\* Matches already committed stay.
Abandon ==
    /\ pc' = "idle"
    /\ UNCHANGED <<runVars, tableVars>>

Fail ==
    /\ pc # "idle"
    /\ Abandon
    /\ UNCHANGED struck

\* The catalog is done with outcome o and the records R: the search outcomes
\* are worked out (ok) or given up for the batch, the matches are committed,
\* and the loop goes on.
CatalogDone(o, R, ok) ==
    /\ pc = "read"
    /\ outcome' = [outcome EXCEPT ![next] = o]
    /\ records' = records \cup R
    /\ classified' = (classified /\ ok)
    /\ matches' = matches \cup R
    /\ next' = next + 1
    /\ attempt' = 1
    /\ pc' = IF next = NCatalogs THEN "guard" ELSE "read"
    /\ UNCHANGED <<prepared, notes, recorded, finished>>

\* The read succeeds.  A row that cannot be built is dropped, so any set of
\* records may come of it; the coverage map may be missing or unreadable.
Read ==
    /\ \E R \in SUBSET (Valid \X {next}), ok \in BOOLEAN : CatalogDone("read", R, ok)
    /\ UNCHANGED struck

\* "Catalogs do not overlap": a success with nothing here.
NoOverlap ==
    /\ CatalogDone("no_overlap", {}, TRUE)
    /\ UNCHANGED struck

\* if attempt < attempts
AttemptsLeft == attempt < Retries

\* _read_with_retry: another attempt after a transient error.
Retry(e) ==
    /\ pc = "read"
    /\ ~ IsSoft(e)
    /\ IsTransient(e)
    /\ AttemptsLeft
    /\ attempt' = attempt + 1
    /\ Hit(e)
    /\ UNCHANGED <<pc, next, outcome, records, classified, prepared, tableVars>>

\* The retries are exhausted: the catalog is skipped and the batch goes on.
Skip(e) ==
    /\ ~ IsSoft(e)
    /\ IsTransient(e)
    /\ ~ AttemptsLeft
    /\ CatalogDone("skipped", {}, TRUE)
    /\ Hit(e)

\* The soft limit or a deterministic error ends the run.
RaiseOut(e) ==
    /\ pc = "read"
    /\ IsSoft(e) \/ ~ IsTransient(e)
    /\ Abandon
    /\ Hit(e)

Skipped == {c \in Catalogs : outcome[c] = "skipped"}

\* Mutant of AllSkipped: the guard is missing.
AllSkippedNever == FALSE

AllSkipped == Skipped = Catalogs

\* The >= 1-success guard.
Guard ==
    /\ pc = "guard"
    /\ pc' = IF AllSkipped THEN "idle" ELSE "prepare"
    /\ UNCHANGED <<struck, runVars, tableVars>>

\* Mutant of Classify: an alert outside the coverage map counts as searched.
ClassifyAll(a, c) ==
    IF a \notin Valid THEN "not_searched_invalid_position"
    ELSE IF outcome[c] = "skipped" THEN "skipped_read_failure"
    ELSE "searched"

\* _footprint_outcomes and _invalid_position_outcomes.
Classify(a, c) ==
    IF a \notin Valid THEN "not_searched_invalid_position"
    ELSE IF outcome[c] = "skipped" THEN "skipped_read_failure"
    ELSE IF outcome[c] = "read" /\ <<a, c>> \in Footprint THEN "searched"
    ELSE "outside_footprint"

\* Mutant of RecordRow: the stored matches are not looked at.
RecordRowOfRun(a) == [c \in Catalogs |-> Classify(a, c)]

\* A catalog with a stored match is searched, whatever this run's outcome.
RecordRow(a) ==
    [c \in Catalogs |-> IF <<a, c>> \in matches THEN "searched" ELSE Classify(a, c)]

\* _prepare_object_records: nothing when the search outcomes were given up or
\* the preparation fails; single rows that cannot be built are left out.
Prepare ==
    /\ pc = "prepare"
    /\ \E S \in SUBSET Alerts :
        /\ ~ classified => S = {}
        /\ prepared' = [a \in Alerts |-> IF a \in S THEN RecordRow(a) ELSE NoRecord]
    /\ pc' = "commit"
    /\ UNCHANGED <<next, attempt, outcome, records, classified, struck, tableVars>>

\* Mutant of Stamp: each payload is stamped when it is built.
StampEarly(c) == {d \in Skipped : d < c}

\* catalogs_skipped of a payload of catalog c, stamped after the loop.
Stamp(c) == Skipped

\* The rows of bulk_create(all_notifications).
NotesOfRun ==
    {[alert |-> m[1], catalog |-> m[2], skipped |-> Stamp(m[2])] : m \in records}

\* The upsert of _write_object_records.
Upserted ==
    [a \in Alerts |-> IF prepared[a] = NoRecord THEN recorded[a] ELSE prepared[a]]

\* The final transaction: notifications, MATCHED, and the records in a
\* savepoint that may roll back by itself.
Commit ==
    /\ pc = "commit"
    /\ notes' = notes \cup NotesOfRun
    /\ recorded' \in {Upserted, recorded}
    /\ finished' = TRUE
    /\ pc' = "idle"
    /\ UNCHANGED <<struck, runVars, matches>>

CrossmatchNext ==
    \/ Begin
    \/ Read
    \/ NoOverlap
    \/ \E e \in Exceptions : Retry(e)
    \/ \E e \in Exceptions : Skip(e)
    \/ \E e \in Exceptions : RaiseOut(e)
    \/ Guard
    \/ Prepare
    \/ Commit
    \/ Fail

CrossmatchSpec == CrossmatchInit /\ [][CrossmatchNext]_crossmatchVars

-----------------------------------------------------------------------------
HasRecord(a) == recorded[a] # NoRecord

\* What a record says was searched never contradicts the stored matches, those
\* a reverted run left behind included (_prepare_object_records).
RecordsAgreeWithMatches ==
    \A a \in Alerts, c \in Catalogs :
        HasRecord(a) /\ <<a, c>> \in matches => recorded[a][c] = "searched"

\* ... and it does not overclaim: without a stored match, "searched" means that
\* the position is in the footprint of the catalog (_footprint_outcomes, KTD6).
SearchedMeansCovered ==
    \A a \in Alerts, c \in Catalogs :
        HasRecord(a) /\ recorded[a][c] = "searched" =>
            <<a, c>> \in matches \/ <<a, c>> \in Footprint

\* A payload and the record of its alert tell the same story about every
\* catalog, although they are stamped and built at different points of the run:
\* skipped in one is skipped in the other, unless a reverted run left a match;
\* and the catalog a payload announces is never among the skipped ones.
PayloadsAgreeWithRecords ==
    \A n \in notes :
        /\ n.catalog \notin n.skipped
        /\ \A c \in Catalogs : HasRecord(n.alert) =>
            /\ recorded[n.alert][c] = "skipped_read_failure" => c \in n.skipped
            /\ c \in n.skipped =>
                 \/ recorded[n.alert][c] = "skipped_read_failure"
                 \/ <<n.alert, c>> \in matches

\* A broad outage reverts the batch: what is recorded of an alert with a
\* position is never that every catalog was skipped (the >= 1-success guard).
OutageReverts ==
    \A a \in Valid :
        HasRecord(a) => \E c \in Catalogs : recorded[a][c] # "skipped_read_failure"

\* A run in which a read met the soft time limit is over: the limit is never
\* taken for a transient error, neither retried nor counted as a skip, though
\* the classifier of both handlers would match it (crossmatch.py, catalog.py).
SoftLimitEndsRun == struck => pc = "idle"

\* The record of an alert is true in both directions: it denies no stored match
\* and claims no search that the catalog's footprint excludes.
RecordsAreTrue == RecordsAgreeWithMatches /\ SearchedMeansCovered

\* A failure is taken for what it is: an outage of every catalog reverts the
\* batch, and the soft limit ends the run instead of counting as an outage.
FailuresAreNotSkips == OutageReverts /\ SoftLimitEndsRun
\* The batch as the lifecycle of its alerts sees it (Lifecycle).
Announced(m) == \E n \in notes : m = <<n.alert, n.catalog>>

Promise == INSTANCE Lifecycle WITH
    stage <- [a \in Alerts |-> IF finished THEN "matched" ELSE "waiting"],
    outcome <- [m \in Alerts \X Catalogs |-> IF Announced(m) THEN "PENDING" ELSE "none"]

\* What a run does catalog by catalog, with its retries, skips, reverts and
\* reruns, is one step for the alerts: the whole batch is matched at once, with
\* one announcement of each match of the run that ended well and of no other,
\* and nothing comes after it.  Pipeline takes a run as that step.
BatchIsOneStep ==
    [][/\ Promise!Waiting = Alerts /\ records \subseteq matches
       /\ Promise!Crossmatch(Alerts, records)
       /\ \A n, m \in notes' : n.alert = m.alert /\ n.catalog = m.catalog => n = m
      ]_<<finished, notes>>
=============================================================================
