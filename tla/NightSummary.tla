----------------------------- MODULE NightSummary -----------------------------
(***************************************************************************)
(* GET api/summary and its MCP tool (api/summary.py): the parse of a       *)
(* window of Rubin nights, and the statistics of the objects observed in   *)
(* it, computed by several statements in one REPEATABLE READ transaction,  *)
(* whose snapshot is that of the first statement.                          *)
(***************************************************************************)
EXTENDS ObjectBuild

CONSTANTS
    Day,           \* length of a day; a night is offset by half of it
    Rollover,      \* SUMMARY_NIGHT_ROLLOVER_HOURS
    MaxNights,     \* SUMMARY_MAX_NIGHTS
    MaxTop,        \* MCP_MAX_OBJECTS
    DefaultTop,    \* SUMMARY_DEFAULT_TOP_N
    Bins,          \* HISTOGRAM_BINS
    Score,         \* reliability of each object in bins of [0, 1], or NoScore
    Basis,         \* event_time_basis of each object
    Summaries,     \* the requests a client may send, a set of SummaryParams
    Omitted,       \* a parameter that is not given,
    Garbled        \* and one that is malformed

VARIABLE night

NoScore == -1

ASSUME SummaryAssumption ==
    /\ Bins \in Nat \ {0} /\ Score \in [Objects -> 0 .. Bins \cup {NoScore}]
    /\ {Omitted, Garbled} \cap Int = {} /\ Omitted # Garbled
    /\ Day \in Nat \ {0} /\ Day % 2 = 0
    /\ Rollover \in 0 .. Day
    /\ MaxNights \in Nat \ {0} /\ MaxTop \in Nat \ {0} /\ DefaultTop \in 1 .. MaxTop

SummaryParams ==
    LET Number == Int \cup {Omitted, Garbled}
    IN  [night : Number, last : Number, start : Number, end : Number,
         broker : Brokers \cup {"absent", "unknown"},
         catalogs : SUBSET (Catalogs \cup {"unknown"}),
         match : {"with", "without", "absent", "unknown"}, top : Number]

ASSUME SummariesAssumption == Summaries \subseteq SummaryParams

DayObs(t) == (t - Day \div 2) \div Day

NightStart(d) == d * Day + Day \div 2

NightEnd(d) == NightStart(d + 1)

HasBegun(d, now) == now >= d * Day + Rollover

DefaultNight(now) == (now - Rollover) \div Day

Window(first, last, start, end) ==
    [nights |-> first .. last, start |-> start, end |-> end]

WholeNights(first, last) == Window(first, last, NightStart(first), NightEnd(last))

\* The parameters of the window that were given.
Given(p) == {f \in {"night", "last", "start", "end"} : p[f] # Omitted}

Forms(p) == {IF f \in {"start", "end"} THEN "span" ELSE f : f \in Given(p)}

\* parse_window: why the window is refused.
WindowRefused(p, now) ==
    \/ Cardinality(Forms(p)) > 1
    \/ Given(p) = {"night"} /\ (p.night = Garbled \/ ~HasBegun(p.night, now))
    \/ Given(p) = {"last"} /\ p.last \notin 1 .. MaxNights
    \/ Given(p) \in {{"start"}, {"end"}}
    \/ /\ Given(p) = {"start", "end"}
       /\ \/ Garbled \in {p.start, p.end}
          \/ p.end <= p.start
          \/ DayObs(p.end - 1) - DayObs(p.start) + 1 > MaxNights
          \/ p.end > NightEnd(DefaultNight(now))

\* parse_window: the window of a request that is not refused.
ParseWindow(p, now) ==
    LET last == DefaultNight(now)
    IN  CASE Given(p) = {} -> WholeNights(last, last)
          [] Given(p) = {"night"} -> WholeNights(p.night, p.night)
          [] Given(p) = {"last"} -> WholeNights(last - p.last + 1, last)
          [] Given(p) = {"start", "end"} ->
                Window(DayObs(p.start), DayObs(p.end - 1), p.start, p.end)

\* parse_filters of the summary.
SummarySpan(p) == Cardinality(p.catalogs) > 1

SummaryFiltersRefused(p) ==
    \/ p.broker = "unknown"
    \/ "unknown" \in p.catalogs
    \/ p.match = "unknown"
    \/ p.match # "absent" /\ p.catalogs = {}

SummaryRefused(p, now) ==
    \/ WindowRefused(p, now)
    \/ SummarySpan(p) \/ SummaryFiltersRefused(p)
    \/ p.top # Omitted /\ p.top \notin 1 .. MaxTop

ParseSummary(p, now) ==
    [window |-> ParseWindow(p, now),
     broker |-> {p.broker} \ {"absent"},
     catalog |-> p.catalogs,
     match |-> IF p.match = "absent" /\ p.catalogs # {} THEN "with" ELSE p.match,
     top |-> IF p.top = Omitted THEN DefaultTop ELSE p.top,
     form |-> IF Given(p) = {} THEN "default" ELSE CHOOSE f \in Forms(p) : TRUE]

\* Mutant of RequestUrl: the default night is left to the clock of the replay.
RequestAsGiven(q) ==
    [night |-> Omitted, last |-> Omitted,
     start |-> IF q.form = "default" THEN Omitted ELSE q.window.start,
     end |-> IF q.form = "default" THEN Omitted ELSE q.window.end,
     broker |-> IF q.broker = {} THEN "absent" ELSE CHOOSE b \in q.broker : TRUE,
     catalogs |-> q.catalog, match |-> q.match, top |-> q.top]

\* _request_url, as the parameters it gives.
RequestUrl(q) ==
    LET whole == q.form \in {"default", "night"}
    IN  [night |-> IF whole THEN CHOOSE d \in q.window.nights : TRUE ELSE Omitted,
         last |-> Omitted,
         start |-> IF whole THEN Omitted ELSE q.window.start,
         end |-> IF whole THEN Omitted ELSE q.window.end,
         broker |-> IF q.broker = {} THEN "absent" ELSE CHOOSE b \in q.broker : TRUE,
         catalogs |-> q.catalog, match |-> q.match, top |-> q.top]

FreshNight == [pc |-> "start", query |-> <<>>, snap |-> <<>>, perNight |-> <<>>,
               basis |-> <<>>, pending |-> 0, histogram |-> <<>>, noScore |-> 0,
               brokers |-> <<>>, several |-> 0, buckets |-> <<>>, top |-> <<>>,
               latest |-> {}]

AskSummary(p) ==
    /\ night.pc = "start"
    /\ night' = IF SummaryRefused(p, clock) THEN [night EXCEPT !.pc = "refused"]
                ELSE [night EXCEPT !.pc = "nights", !.query = ParseSummary(p, clock)]
    /\ UNCHANGED storeVars

\* Mutant of SnapshotOf: READ COMMITTED, each statement its own snapshot.
NoSnapshot(n) == rows

\* The rows a statement of the transaction reads.
SnapshotOf(n) == n.snap

\* base and w of _window_sql.
Base(n) ==
    LET seen == SnapshotOf(n)
    IN  {o \in Objects : /\ InService(seen[o])
                         /\ n.query.window.start <= EventTime[o]
                         /\ EventTime[o] < n.query.window.end
                         /\ n.query.broker \subseteq seen[o].brokers}

Done(row) == row.status \in {"MATCHED", "NOTIFIED"}

HasMatchOf(row, c) == \E m \in row.matches : m.catalog = c

Kept(n) ==
    {o \in Base(n) :
        \A c \in n.query.catalog :
            /\ Done(SnapshotOf(n)[o])
            /\ HasMatchOf(SnapshotOf(n)[o], c) <=> n.query.match = "with"}

\* _night_rows, the first statement: it takes the snapshot.
NightRows ==
    /\ night.pc = "nights"
    /\ LET n == [night EXCEPT !.snap = rows]
           kept == Kept(n)
       IN  night' = [n EXCEPT
                       !.pc = "pending",
                       !.perNight = [d \in {DayObs(EventTime[o]) : o \in kept} |->
                           Cardinality({o \in kept : DayObs(EventTime[o]) = d})],
                       !.basis = [b \in {Basis[o] : o \in Objects} |->
                           Cardinality({o \in kept : Basis[o] = b})]]
    /\ UNCHANGED storeVars

\* _pending_count: of base, before the catalog filter.
PendingCount ==
    /\ night.pc = "pending"
    /\ night' = [night EXCEPT
                   !.pc = "reliability",
                   !.pending = Cardinality({o \in Base(night) :
                       SnapshotOf(night)[o].status \in {"INGESTED", "QUEUED"}})]
    /\ UNCHANGED storeVars

\* width_bucket, clamped: a score of 1.0 falls in the last bin.
Bin(s) == IF s + 1 > Bins THEN Bins ELSE s + 1

\* _reliability
Reliability ==
    /\ night.pc = "reliability"
    /\ LET scored == {o \in Kept(night) : Score[o] # NoScore}
       IN  night' = [night EXCEPT
                       !.pc = "brokers",
                       !.histogram = [i \in 1 .. Bins |->
                           Cardinality({o \in scored : Bin(Score[o]) = i})],
                       !.noScore = Cardinality(Kept(night) \ scored)]
    /\ UNCHANGED storeVars

\* _brokers
BrokerCounts ==
    /\ night.pc = "brokers"
    /\ LET of(o) == SnapshotOf(night)[o].brokers
       IN  night' = [night EXCEPT
                       !.pc = "catalogs",
                       !.brokers = [b \in Brokers |->
                           Cardinality({o \in Kept(night) : b \in of(o)})],
                       !.several = Cardinality({o \in Kept(night) :
                           Cardinality(of(o)) > 1})]
    /\ UNCHANGED storeVars

Buckets == {"coincident_sources", "searched_no_match", "outside_footprint",
            "skipped_read_failure", "not_searched_invalid_position",
            "not_in_service_at_crossmatch", "not_recorded"}

\* The bucket of one crossmatched object for one catalog.
Bucket(row, c) ==
    IF HasMatchOf(row, c) THEN "coincident_sources"
    ELSE IF row.records = {} THEN "not_recorded"
    ELSE LET r == CHOOSE r \in row.records : \A s \in row.records : s.version <= r.version
         IN  IF c \notin DOMAIN r.of THEN "not_in_service_at_crossmatch"
             ELSE IF r.of[c] = "searched" THEN "searched_no_match" ELSE r.of[c]

\* _catalogs: of the crossmatched objects; a "without" filter has no coincident
\* bucket for its catalog.
CatalogBuckets ==
    /\ night.pc = "catalogs"
    /\ LET row(o) == SnapshotOf(night)[o]
           done == {o \in Kept(night) : Done(row(o))}
           shown(c) == IF night.query.match = "without" /\ c \in night.query.catalog
                       THEN Buckets \ {"coincident_sources"} ELSE Buckets
       IN  night' = [night EXCEPT
                       !.pc = "top",
                       !.buckets = [c \in Catalogs |-> [b \in shown(c) |->
                           Cardinality({o \in done : Bucket(row(o), c) = b})]]]
    /\ UNCHANGED storeVars

\* (reliability DESC, diaObjectId ASC)
Ranks(o, p) == Score[o] > Score[p] \/ (Score[o] = Score[p] /\ o < p)

\* Mutant of TopStatus: any record counts, not the current one.
TopStatusOfAny(row) ==
    IF ~Done(row) THEN "crossmatch_pending"
    ELSE IF row.matches # {} THEN "coincident_sources"
    ELSE IF /\ row.records # {}
            /\ \A r \in row.records : ~\E c \in DOMAIN r.of : r.of[c] = "searched"
         THEN "not_searched"
    ELSE "no_coincident_source"

\* _object_status, which api/summary.py derives on its own.
TopStatus(row) ==
    IF ~Done(row) THEN "crossmatch_pending"
    ELSE IF row.matches # {} THEN "coincident_sources"
    ELSE IF /\ row.records # {}
            /\ \A r \in CurrentRecord(row.records) :
                  ~\E c \in DOMAIN r.of : r.of[c] = "searched"
         THEN "not_searched"
    ELSE "no_coincident_source"

\* _top, then _latest_object when the window is empty; the body is made.
Top ==
    /\ night.pc = "top"
    /\ LET scored == {o \in Kept(night) : Score[o] # NoScore}
           first == {o \in scored :
                        Cardinality({p \in scored : Ranks(p, o)}) < night.query.top}
           held == {EventTime[o] : o \in {x \in Objects : InService(SnapshotOf(night)[x])}}
       IN  night' = [night EXCEPT
                       !.pc = "answered",
                       !.top = [o \in first |-> TopStatus(SnapshotOf(night)[o])],
                       !.latest = IF Kept(night) = {} /\ held # {} THEN {Max(held)} ELSE {}]
    /\ UNCHANGED storeVars

SummaryStep ==
    \/ \E p \in Summaries : AskSummary(p)
    \/ NightRows \/ PendingCount \/ Reliability \/ BrokerCounts
    \/ CatalogBuckets \/ Top

\* totals.objects: the sum of the per-night counts, of listed nights or not.
Total == SumOf(night.perNight, DOMAIN night.perNight)

\* The numbers of one answer agree with each other, whatever was committed
\* between its statements: the listed nights, the bases, the reliability bins
\* with the unscored, and for every catalog the buckets with the pending objects
\* each account for every object counted once; an object is in the count of every
\* broker that delivered it, and in none before its delivery row is committed.
SummaryAddsUp ==
    night.pc = "answered" =>
        LET total == Total
            q == night.query
            of(c) == SumOf(night.buckets[c], Buckets)
            undelivered == Cardinality({o \in Kept(night) :
                               SnapshotOf(night)[o].brokers = {}})
        IN  /\ SumOf(night.perNight, q.window.nights) = total
            /\ SumOf(night.basis, DOMAIN night.basis) = total
            /\ SumOf(night.histogram, 1 .. Bins) + night.noScore = total
            /\ SumOf(night.brokers, Brokers) + undelivered >= total + night.several
            /\ night.several <= total
            /\ \A c \in Catalogs :
                  of(c) = IF q.catalog = {} THEN total - night.pending ELSE total
            /\ Cardinality(DOMAIN night.top) <= total - night.noScore

\* The request echoed with an answer is accepted whenever it is replayed, and
\* means the same window, filters and top_n: "Windows that depend on the clock
\* are pinned to the nights they resolved to".
ReplayIsTheSame ==
    night.pc \notin {"start", "refused"} =>
        LET again == RequestUrl(night.query)
        IN  /\ ~SummaryRefused(again, clock)
            /\ [ParseSummary(again, clock) EXCEPT !.form = ""]
                 = [night.query EXCEPT !.form = ""]

\* The two derivations of a status agree: what the summary says of an object in
\* its top list and of its catalogs is what a lookup at its snapshot would say.
SummaryAgreesWithLookup ==
    night.pc = "answered" =>
        \A o \in DOMAIN night.top :
            LET row == night.snap[o]
                entry == EntryFrom(o, row.status, row.records, row.matches # {},
                                   row.matches, row.brokers, row.tns, "ids")
            IN  /\ night.top[o] = entry.status
                /\ \A c \in Catalogs, out \in entry.outcomes :
                      ~HasMatchOf(row, c) =>
                          Bucket(row, c) = IF out[c] = "searched" THEN "searched_no_match"
                                           ELSE out[c]

\* A summary contradicts neither itself nor a lookup (api/summary.py).
SummaryIsConsistent == SummaryAddsUp /\ SummaryAgreesWithLookup
=============================================================================
