---------------------------- MODULE TnsSnapshot ----------------------------
(***************************************************************************)
(* The local copy of the TNS object list: refresh_tns_snapshot once an     *)
(* hour (tasks/tns.py, core/tns.py), the files TNS publishes, and a reader *)
(* that takes the snapshot's epoch first and its rows later, as the        *)
(* crossmatch and the name lookup do (core/models.py).                     *)
(***************************************************************************)
EXTENDS Integers

CONSTANTS
    TnsNames,       \* objects TNS may list
    Day,            \* hours of a day
    MaxAge,         \* TNS_SNAPSHOT_MAX_AGE_SECONDS, in hours
    Attempts,       \* download attempts (retries of fetch_object_records)
    MaxVersion,     \* bound: changes of one object at TNS
    MaxTrouble      \* bound: failed requests and lost refresh messages

ASSUME TnsAssumption ==
    /\ Day \in Nat \ {0, 1} /\ MaxAge \in Nat /\ Attempts \in Nat \ {0}
    /\ MaxVersion \in Nat \ {0} /\ MaxTrouble \in Nat

VARIABLES
    tns,            \* TNS: the objects as listed now, and its files
    hour,           \* UT hour
    snapshot,       \* tns_objects and tns_snapshot_meta
    refresh,        \* the refresh task
    reader,         \* one reader of the snapshot
    trouble         \* faults so far

tnsVars == <<tns, hour, snapshot, refresh, reader, trouble>>

\* An object is a version number, 0 while TNS does not list it or a file does
\* not hold it.
Nothing == [n \in TnsNames |-> 0]

Stale(age) == age = -1 \/ age > MaxAge

-----------------------------------------------------------------------------
\* TNS reports or changes an object.
ListObject(n) ==
    /\ tns.listed[n] < MaxVersion
    /\ tns' = [tns EXCEPT !.listed[n] = @ + 1, !.changed = @ \cup {n}]
    /\ UNCHANGED <<hour, snapshot, refresh, reader, trouble>>

\* The hour turns: TNS publishes the delta of the past hour under the new
\* hour's number and, at midnight, the full file; Beat asks for a refresh.  A
\* refresh may run across one turn; one not begun by then was lost.
HourTurns ==
    /\ refresh.pc # "idle" => ~ refresh.crossed
    /\ IF refresh.pc = "due" THEN trouble < MaxTrouble /\ trouble' = trouble + 1
       ELSE UNCHANGED trouble
    /\ LET h == (hour + 1) % Day
       IN  /\ hour' = h
           /\ tns' = [tns EXCEPT
                !.changed = {},
                !.delta[h] = [n \in TnsNames |-> IF n \in tns.changed THEN tns.listed[n] ELSE 0],
                !.listing[h] = tns.listed,
                !.full = IF h = 0 THEN tns.listed ELSE @]
    /\ snapshot' = [snapshot EXCEPT !.age = IF Stale(@) THEN @ ELSE @ + 1,
                                   !.behind = IF @ = 3 THEN 3 ELSE @ + 1]
    /\ refresh' = IF refresh.pc \in {"idle", "due"} THEN [refresh EXCEPT !.pc = "due"]
                  ELSE [refresh EXCEPT !.crossed = TRUE]
    /\ reader' = IF reader.pc = "matching" THEN reader
                 ELSE [reader EXCEPT !.pc = "idle", !.known = Nothing, !.found = Nothing]

-----------------------------------------------------------------------------
\* The task is over; a refresh asked for meanwhile is due.
Over == [pc |-> IF refresh.crossed THEN "due" ELSE "idle", seed |-> FALSE, hour |-> 0, attempt |-> 1, records |-> Nothing,
         crossed |-> FALSE, credentials |-> refresh.credentials]

\* refresh_snapshot: skipped without credentials; a stale snapshot is seeded.
StartRefresh ==
    /\ refresh.pc = "due"
    /\ refresh' = IF ~ refresh.credentials THEN Over
                  ELSE [refresh EXCEPT !.pc = "download", !.seed = Stale(snapshot.age), !.hour = hour]
    /\ UNCHANGED <<tns, hour, snapshot, reader, trouble>>

\* Mutant of FileOf: the file of the hour before.
FileOfPast(job) == IF job.seed THEN tns.full ELSE tns.delta[(job.hour + Day - 1) % Day]

\* The daily full file for a seed, else the delta of the hour it started in.
FileOf(job) == IF job.seed THEN tns.full ELSE tns.delta[job.hour]

\* _download and parse_objects_csv; an empty full file counts as a failure.
Download ==
    /\ refresh.pc = "download"
    /\ refresh' = IF refresh.seed /\ FileOf(refresh) = Nothing THEN Over
                  ELSE [refresh EXCEPT !.pc = "merge", !.records = FileOf(refresh)]
    /\ UNCHANGED <<tns, hour, snapshot, reader, trouble>>

\* A transient error is retried; a 4xx, the last attempt and a garbled archive
\* end the refresh, and the prior snapshot stays.
DownloadFails ==
    /\ refresh.pc = "download"
    /\ trouble < MaxTrouble /\ trouble' = trouble + 1
    /\ \/ refresh.attempt < Attempts /\ refresh' = [refresh EXCEPT !.attempt = @ + 1]
       \/ refresh' = Over
    /\ UNCHANGED <<tns, hour, snapshot, reader>>

\* The rows after the upsert by objid: no row is ever removed.
Upserted == [n \in TnsNames |-> IF refresh.records[n] > 0 THEN refresh.records[n]
                                ELSE snapshot.rows[n]]

\* History: complete while every delta since a midnight seed was merged, by the
\* refresh of its own hour; asOf is what TNS listed when the last was published,
\* and behind is how many hours ago that was (3: three or more).
Completeness ==
    [complete |-> IF refresh.seed THEN refresh.hour = 0
                  ELSE snapshot.complete /\ snapshot.behind = IF refresh.crossed THEN 2 ELSE 1,
     behind |-> IF refresh.crossed THEN 1 ELSE 0,
     asOf |-> tns.listing[refresh.hour]]

Stamped(rows) == [rows |-> rows, age |-> 0, loaded |-> Upserted,
                  complete |-> Completeness.complete, behind |-> Completeness.behind,
                  asOf |-> Completeness.asOf]

\* Mutants of Merge: the epoch is stamped in a transaction of its own before
\* the rows; an empty delta returns early.
MergeEpochFirst ==
    /\ \/ refresh.pc = "merge" /\ snapshot' = Stamped(snapshot.rows)
          /\ refresh' = [refresh EXCEPT !.pc = "rows"]
       \/ refresh.pc = "rows" /\ snapshot' = [snapshot EXCEPT !.rows = Upserted] /\ refresh' = Over
    /\ UNCHANGED <<tns, hour, reader, trouble>>
MergeSkipsEmpty ==
    /\ refresh.pc = "merge"
    /\ snapshot' = IF refresh.records = Nothing THEN snapshot ELSE Stamped(Upserted)
    /\ refresh' = Over
    /\ UNCHANGED <<tns, hour, reader, trouble>>

\* _upsert_records: the rows and the epoch in one transaction, the epoch alone
\* for an empty delta.
Merge ==
    /\ refresh.pc = "merge"
    /\ snapshot' = Stamped(Upserted)
    /\ refresh' = Over
    /\ UNCHANGED <<tns, hour, reader, trouble>>

-----------------------------------------------------------------------------
\* TnsSnapshotMeta.current_epoch: None without a snapshot or with a stale one.
ReadEpoch ==
    /\ reader.pc = "idle"
    /\ reader' = IF Stale(snapshot.age) THEN [reader EXCEPT !.pc = "unchecked"]
                 ELSE [reader EXCEPT !.pc = "matching", !.known = snapshot.loaded]
    /\ UNCHANGED <<tns, hour, snapshot, refresh, trouble>>

\* find_tns_match or _lookup_tns_names, over the rows as they are then.
ReadRows ==
    /\ reader.pc = "matching"
    /\ reader' = [reader EXCEPT !.pc = "checked", !.found = snapshot.rows]
    /\ UNCHANGED <<tns, hour, snapshot, refresh, trouble>>

RefreshStep == StartRefresh \/ Download \/ Merge

TnsStep ==
    \/ \E n \in TnsNames : ListObject(n)
    \/ HourTurns \/ RefreshStep \/ DownloadFails
    \/ ReadEpoch \/ ReadRows

\* Just after a seed at midnight, or an empty database and the first refresh.
TnsStart(listed, seeded, credentials) ==
    LET loaded == IF seeded THEN listed ELSE Nothing
    IN  /\ tns = [listed |-> listed, changed |-> {}, full |-> listed,
                  delta |-> [h \in 0 .. Day - 1 |-> Nothing],
                  listing |-> [h \in 0 .. Day - 1 |-> listed]]
        /\ snapshot = [rows |-> loaded, age |-> IF seeded THEN 0 ELSE -1, loaded |-> loaded,
                       complete |-> seeded, behind |-> 0, asOf |-> loaded]
        /\ refresh = [pc |-> IF seeded THEN "idle" ELSE "due", seed |-> FALSE, hour |-> 0,
                      attempt |-> 1, records |-> Nothing, crossed |-> FALSE,
                      credentials |-> credentials]
        /\ hour = 0 /\ trouble = 0
        /\ reader = [pc |-> "idle", known |-> Nothing, found |-> Nothing]

TnsAtRest == TnsStart(Nothing, FALSE, FALSE)

TnsInit ==
    \E listed \in [TnsNames -> {0, 1}] \ {Nothing}, seeded, credentials \in BOOLEAN :
        TnsStart(listed, seeded, credentials)

\* What a reader reports as checked against an epoch was checked against every
\* object the refresh of that epoch had loaded, although it reads the epoch and
\* the rows in two statements and a refresh may commit between.
CheckedCoversEpoch ==
    reader.pc = "checked" => \A n \in TnsNames : reader.known[n] > 0 => reader.found[n] > 0

\* While every hourly refresh since a seed at midnight has merged its delta,
\* the rows are what TNS had listed at the last of them.
UnbrokenIsComplete ==
    snapshot.complete /\ refresh.pc = "idle" => snapshot.rows = snapshot.asOf

\* The snapshot becomes current and stays so, however quiet TNS is, once the
\* failures are over (tasks/tns.py, settings.py).
SnapshotStaysCurrent == refresh.credentials => <>[](~ Stale(snapshot.age))

\* A current snapshot has every name TNS listed more than two hours ago
\* (projection.py: only "names reported in the last hour or two may not be
\* there yet").
OlderNamesAreThere ==
    ~ Stale(snapshot.age) =>
        \A n \in TnsNames :
            tns.listing[(hour + Day - 2) % Day][n] > 0 => snapshot.rows[n] > 0

\* The epoch stands for what a reader takes it for (core/models.py): all that was
\* merged, and, with no hour missed, all that TNS had.
EpochIsHonest == CheckedCoversEpoch /\ UnbrokenIsComplete
=============================================================================
