------------------------------ MODULE ReadStore ------------------------------
(***************************************************************************)
(* The committed rows a read request can see, object by object, and the    *)
(* commits of the pipeline that change them while a request runs: the      *)
(* ingest of an alert, whose ingest_time is set before its commit, and the *)
(* steps of the crossmatch batch the object is in.  A row of this module   *)
(* joins the alert, its catalog_matches, its crossmatch records and its    *)
(* TNS association.                                                        *)
(***************************************************************************)
EXTENDS Integers, FiniteSets

CONSTANTS
    Objects,       \* diaObjectIds, ordered as integers
    Catalogs,      \* names of settings.CROSSMATCH_CATALOGS
    Brokers,       \* the brokers that deliver
    EventTime,     \* event_time of each object
    Versions,      \* match versions in use, the last one current
    Unbuildable,   \* <<object, catalog>> whose payload cannot be rebuilt
    StartTime,     \* the clock when the client starts
    MaxTime,       \* bound of the clock
    MaxWrites      \* commits that may land while the requests run

VARIABLES
    rows,          \* the row of each object
    clock,         \* timezone.now(), in the unit of the windows
    writes,        \* commits so far
    reverted       \* history: objects a failed batch took back from MATCHED

storeVars == <<rows, clock, writes, reverted>>

ASSUME StoreAssumption ==
    /\ Objects \subseteq Nat /\ IsFiniteSet(Objects) /\ IsFiniteSet(Brokers)
    /\ EventTime \in [Objects -> Nat]
    /\ Versions \subseteq Nat /\ \E v \in Versions : \A w \in Versions : w <= v
    /\ MaxTime \in Nat /\ StartTime \in 0 .. MaxTime
    /\ MaxWrites \in Nat

\* "absent" was never ingested; "stamped" has its ingest_time, not its commit.
Status == {"absent", "stamped", "INGESTED", "QUEUED", "MATCHED", "NOTIFIED"}

SearchOutcome == {"searched", "outside_footprint", "skipped_read_failure",
                  "not_searched_invalid_position"}

\* A match row; near: it meets the match filters of the request.
Matches == [catalog : Catalogs, version : Versions, near : BOOLEAN]

\* A crossmatch record; catalogs it does not name joined the service later.
Records == [version : Versions,
            of : UNION {[S -> SearchOutcome] : S \in SUBSET Catalogs}]

\* The records of an alert: unique_object_crossmatch_record, one for a version.
Histories == {R \in SUBSET Records : \A r, s \in R : r.version = s.version => r = s}

\* brokers: those with a delivery row.
Rows == [status : Status, ingest : Nat, matches : SUBSET Matches,
         records : Histories, tns : BOOLEAN, brokers : SUBSET Brokers]

Committed(o) == rows[o].status \notin {"absent", "stamped"}

Crossmatched(o) == rows[o].status \in {"MATCHED", "NOTIFIED"}

CurrentVersion == CHOOSE v \in Versions : \A w \in Versions : w <= v

\* DISTINCT ON (alert, catalog, source) ORDER BY -match_version.
Latest(ms) ==
    {m \in ms : \A n \in ms : n.catalog = m.catalog => n.version <= m.version}

\* The record of the highest match version, as a set of at most one.
CurrentRecord(rs) == {r \in rs : \A s \in rs : s.version <= r.version}

Commit(o, row) ==
    /\ writes < MaxWrites
    /\ rows' = [rows EXCEPT ![o] = row]
    /\ writes' = writes + 1
    /\ UNCHANGED clock

\* ingest_time = timezone.now() is evaluated in Python.
Stamp(o) ==
    /\ rows[o].status = "absent"
    /\ rows' = [rows EXCEPT ![o].status = "stamped", ![o].ingest = clock]
    /\ UNCHANGED <<clock, writes, reverted>>

CommitIngest(o) ==
    /\ rows[o].status = "stamped"
    /\ Commit(o, [rows[o] EXCEPT !.status = "INGESTED"])
    /\ UNCHANGED reverted

\* The delivery row of the first broker, committed after the alert, or of another.
RecordDelivery(o, b) ==
    /\ Committed(o) /\ b \notin rows[o].brokers
    /\ Commit(o, [rows[o] EXCEPT !.brokers = @ \cup {b}])
    /\ UNCHANGED reverted

Queue(o) ==
    /\ rows[o].status = "INGESTED"
    /\ Commit(o, [rows[o] EXCEPT !.status = "QUEUED"])
    /\ UNCHANGED reverted

SaveTns(o) ==
    /\ rows[o].status = "QUEUED"
    /\ Commit(o, [rows[o] EXCEPT !.tns = TRUE])
    /\ UNCHANGED reverted

\* unique_catalog_match with ignore_conflicts: a row that exists stays.
SaveMatch(o, m) ==
    /\ rows[o].status = "QUEUED"
    /\ m.version = CurrentVersion
    /\ \A n \in rows[o].matches : n.catalog # m.catalog \/ n.version # m.version
    /\ Commit(o, [rows[o] EXCEPT !.matches = @ \cup {m}])
    /\ UNCHANGED reverted

\* The last transaction of the batch: the record, when there is one, replaces
\* that of its version.
Finish(o, new) ==
    /\ rows[o].status = "QUEUED"
    /\ \A r \in new : r.version = CurrentVersion
    /\ Commit(o, [rows[o] EXCEPT
                    !.status = "MATCHED",
                    !.records = {r \in @ : \A n \in new : r.version # n.version}
                                \cup new])
    /\ UNCHANGED reverted

Notify(o) ==
    /\ rows[o].status = "MATCHED"
    /\ Commit(o, [rows[o] EXCEPT !.status = "NOTIFIED"])
    /\ UNCHANGED reverted

\* A failed batch; a soft time limit after the last transaction reverts too.
Revert(o) ==
    /\ rows[o].status \in {"QUEUED", "MATCHED"}
    /\ Commit(o, [rows[o] EXCEPT !.status = "INGESTED"])
    /\ reverted' = IF Crossmatched(o) THEN reverted \cup {o} ELSE reverted

Tick ==
    /\ clock < MaxTime
    /\ clock' = clock + 1
    /\ UNCHANGED <<rows, writes, reverted>>

FullRecord(outcome) == [version |-> CurrentVersion, of |-> [c \in Catalogs |-> outcome]]

\* One commit of the pipeline, or the passing of time.
StoreStep ==
    \/ Tick
    \/ \E o \in Objects :
        \/ Stamp(o) \/ Queue(o) \/ SaveTns(o)
        \/ CommitIngest(o)
        \/ \E b \in Brokers : RecordDelivery(o, b)
        \/ \E m \in Matches : SaveMatch(o, m)
        \/ \E s \in {"searched", "skipped_read_failure"} : Finish(o, {FullRecord(s)})
        \/ Finish(o, {})
        \/ Notify(o) \/ Revert(o)

InitStore(init) ==
    /\ rows \in init
    /\ clock = StartTime
    /\ writes = 0
    /\ reverted = {}
=============================================================================
