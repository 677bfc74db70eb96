----------------------------- MODULE ObjectBuild -----------------------------
(***************************************************************************)
(* The object entries of a lookup or cone answer (api/lookup.py,           *)
(* build_objects) and the marks filters put on them (api/filters.py).  An  *)
(* entry is put together from several statements at READ COMMITTED, each   *)
(* of which sees what is committed when it runs.                           *)
(***************************************************************************)
EXTENDS ReadStore, Sequences, FiniteSetsExt

CONSTANTS
    Reliable       \* objects whose reliability meets the object filters

VARIABLE req       \* the request being answered

\* A filter given in a request; catalog is what it names, or "none".
Filters == [name : {"catalog", "column", "separation_arcsec_max", "reliability_min",
                    "unknown"},
            catalog : Catalogs \cup {"none"}, valid : BOOLEAN]

Named(filters) == {f.catalog : f \in {g \in filters : g.name \in {"catalog", "column"}}}

FiltersInvalid(filters) == \E f \in filters : f.name = "unknown" \/ ~f.valid

FiltersSpan(filters) == Cardinality(Named(filters)) > 1

\* parse_filters, for filters that are valid: no filter at all is no spec.
Spec0 == [on |-> FALSE, catalog |-> {}, bound |-> FALSE, object |-> FALSE]

ParseFilters(filters) ==
    [on |-> filters # {},
     catalog |-> Named(filters),
     bound |-> \E f \in filters : f.name \in {"column", "separation_arcsec_max"},
     object |-> \E f \in filters : f.name = "reliability_min"]

HasMatchFilters(spec) == spec.catalog # {} \/ spec.bound

\* One source of the row meets every match filter.
MatchOk(row, spec) ==
    \/ ~HasMatchFilters(spec)
    \/ /\ row.status \in {"MATCHED", "NOTIFIED"}
       /\ \E m \in Latest(row.matches) :
              spec.catalog \subseteq {m.catalog} /\ (spec.bound => m.near)

ObjectOk(o, spec) == spec.object => o \in Reliable

Qualifies(o, row, spec) == ObjectOk(o, spec) /\ MatchOk(row, spec)

\* The sum of f over S, of what it has there.
SumOf(f, S) == MapThenSumSet(LAMBDA x : IF x \in DOMAIN f THEN f[x] ELSE 0, S)

InService(row) == row.status \notin {"absent", "stamped"}

Outcomes == SearchOutcome \cup {"not_in_service_at_crossmatch", "not_recorded"}

\* _crossmatch_block: what each catalog in service reports for one record.
CatalogOutcomes(records) ==
    [c \in Catalogs |->
        IF records = {} THEN "not_recorded"
        ELSE LET r == CHOOSE r \in records : TRUE
             IN  IF c \in DOMAIN r.of THEN r.of[c] ELSE "not_in_service_at_crossmatch"]

NotSearched(records) ==
    \E r \in records : \A c \in DOMAIN r.of : r.of[c] # "searched"

\* The status of an object whose row had this status, and of its current record.
StatusFrom(status, records, matched) ==
    IF status \in {"absent", "stamped"} THEN "not_in_service"
    ELSE IF status \notin {"MATCHED", "NOTIFIED"} THEN "crossmatch_pending"
    ELSE IF matched THEN "coincident_sources"
    ELSE IF NotSearched(records) THEN "not_searched"
    ELSE "no_coincident_source"

Listed(o, matches, detail) ==
    IF detail = "full" THEN {m \in Latest(matches) : <<o, m.catalog>> \notin Unbuildable}
    ELSE IF detail = "matches" THEN Latest(matches)
    ELSE {}

\* A match names the provenance set of the record of its own version.
Sourced(matches, records) ==
    {m \in matches : \E r \in records : r.version = m.version}

ObjectStatuses == {"not_in_service", "crossmatch_pending", "coincident_sources",
                   "not_searched", "no_coincident_source"}

\* The entry of an object from what the statements read of it.
EntryFrom(o, status, records, matched, matches, brokers, tns, detail) ==
    LET done == status \in {"MATCHED", "NOTIFIED"}
        found == status \notin {"absent", "stamped"}
        listed == IF done THEN Listed(o, matches, detail) ELSE {}
    IN  [status |-> StatusFrom(status, CurrentRecord(records), matched),
         outcomes |-> IF done THEN {CatalogOutcomes(CurrentRecord(records))} ELSE {},
         matches |-> listed,
         sourced |-> Sourced(listed, records),
         brokers |-> IF found /\ detail # "ids" THEN brokers ELSE {},
         tns |-> tns /\ detail \in {"matches", "full"} /\ found]

\* What a single statement would answer: the entry and the mark of one row.
AnswerNow(o, row, q) ==
    [entry |-> EntryFrom(o, row.status, IF q.migrated THEN row.records ELSE {},
                         row.matches # {}, row.matches, row.brokers, row.tns, q.detail),
     mark |-> InService(row) /\ Qualifies(o, row, q.spec)]

\* A commit while a request runs: the answers an object could be given grow.
StoreStepSeen ==
    /\ StoreStep
    /\ req' = IF req.pc \in {"start", "refused", "paused", "answered"} THEN req
              ELSE [req EXCEPT !.told =
                      [o \in Objects |-> @[o] \cup {AnswerNow(o, rows'[o], req)}]]

NothingRead == [alerts |-> <<>>, records |-> <<>>, matched |-> {}, matches |-> <<>>,
                brokers |-> <<>>]

\* S1: the alerts; an object not found keeps no row.
ReadAlerts ==
    /\ req.pc = "alerts"
    /\ LET found == {o \in req.asked : Committed(o)}
           done == {o \in found : Crossmatched(o)}
       IN  req' = [req EXCEPT
                     !.read.alerts = [o \in found |-> rows[o].status],
                     !.pc = IF done # {} THEN "records"
                            ELSE IF req.detail # "ids" /\ found # {} THEN "brokers"
                            ELSE "build"]
    /\ UNCHANGED storeVars

DoneIds == {o \in DOMAIN req.read.alerts : req.read.alerts[o] \in {"MATCHED", "NOTIFIED"}}

\* S2: the records, none when their table is missing.
ReadRecords ==
    /\ req.pc = "records"
    /\ req' = [req EXCEPT
                 !.read.records = [o \in DoneIds |-> IF req.migrated THEN rows[o].records
                                                     ELSE {}],
                 !.pc = "matched"]
    /\ UNCHANGED storeVars

\* S3: who has matches.
ReadMatched ==
    /\ req.pc = "matched"
    /\ req' = [req EXCEPT
                 !.read.matched = {o \in DoneIds : rows[o].matches # {}},
                 !.pc = IF req.detail \in {"matches", "full"} THEN "sources"
                        ELSE IF req.detail # "ids" THEN "brokers" ELSE "build"]
    /\ UNCHANGED storeVars

\* S4: the matches.
ReadMatches ==
    /\ req.pc = "sources"
    /\ req' = [req EXCEPT !.read.matches = [o \in DoneIds |-> rows[o].matches],
                          !.pc = "brokers"]
    /\ UNCHANGED storeVars

\* S5: the delivery rows of the alerts found.
ReadBrokers ==
    /\ req.pc = "brokers"
    /\ req' = [req EXCEPT
                 !.read.brokers = [o \in DOMAIN req.read.alerts |-> rows[o].brokers],
                 !.pc = IF req.detail \in {"matches", "full"} THEN "assoc" ELSE "build"]
    /\ UNCHANGED storeVars

OrNone(f, o) == IF o \in DOMAIN f THEN f[o] ELSE {}

\* Mutant of EntryOf: the status is read again when the entry is built.
EntryOfLate(o, tns) ==
    LET read == req.read
    IN  EntryFrom(o, rows[o].status, OrNone(read.records, o), o \in read.matched,
                  OrNone(read.matches, o), OrNone(read.brokers, o), tns, req.detail)

\* Mutant of EntryOf: an object is given the brokers of all the objects asked for.
EntryOfAnyBroker(o, tns) ==
    LET read == req.read
        status == IF o \in DOMAIN read.alerts THEN read.alerts[o] ELSE "absent"
    IN  EntryFrom(o, status, OrNone(read.records, o), o \in read.matched,
                  OrNone(read.matches, o), UNION {read.brokers[p] : p \in DOMAIN read.brokers},
                  tns, req.detail)

\* The entry of an object from what was read of it.
EntryOf(o, tns) ==
    LET read == req.read
        status == IF o \in DOMAIN read.alerts THEN read.alerts[o] ELSE "absent"
    IN  EntryFrom(o, status, OrNone(read.records, o), o \in read.matched,
                  OrNone(read.matches, o), OrNone(read.brokers, o), tns, req.detail)

\* S6, the TNS associations; then every asked object is built.
BuildObjects ==
    /\ req.pc \in {"assoc", "build"}
    /\ req' = [req EXCEPT
                 !.built = [o \in req.asked |->
                              EntryOf(o, req.pc = "assoc" /\ rows[o].tns)],
                 !.read = NothingRead,
                 !.pc = "built"]
    /\ UNCHANGED storeVars

\* Mutant of MarkOf: an object with sources meets the match filters.
MarkByStatus(o, status, quals, spec) ==
    IF status = "coincident_sources" THEN [yes |-> TRUE, reason |-> "meets_filters"]
    ELSE [yes |-> FALSE, reason |-> status]

\* Mutant of MarkOf: the reason of a result is given to the object.
MarkUnexplained(o, status, quals, spec) ==
    IF o \in DOMAIN quals /\ quals[o].object /\ quals[o].match
    THEN [yes |-> TRUE, reason |-> "meets_filters"]
    ELSE [yes |-> FALSE, reason |-> "no_object_meets_filters"]

\* object_qualification: the mark and its reason.  quals holds what the filter
\* statement found of the objects it found.
MarkOf(o, status, quals, spec) ==
    IF o \notin DOMAIN quals \/ status = "not_in_service"
    THEN [yes |-> FALSE, reason |-> "not_in_service"]
    ELSE IF ~quals[o].object THEN [yes |-> FALSE, reason |-> "object_filters_not_met"]
    ELSE IF quals[o].match THEN [yes |-> TRUE, reason |-> "meets_filters"]
    ELSE IF status = "coincident_sources"
         THEN [yes |-> FALSE, reason |-> "no_source_meets_filters"]
    ELSE [yes |-> FALSE, reason |-> status]

\* qualify_objects: one statement over every candidate.
QualifyObjects(ids, spec) ==
    [o \in {x \in ids : Committed(x)} |->
        [object |-> ObjectOk(o, spec), match |-> MatchOk(rows[o], spec)]]

\* The reasons counts.objects reports; "no_object_meets_filters" and the input
\* statuses are reasons of results, never of objects.
ObjectReasons == {"meets_filters", "object_filters_not_met", "no_source_meets_filters",
                  "not_in_service", "crossmatch_pending", "no_coincident_source",
                  "not_searched"}
=============================================================================
