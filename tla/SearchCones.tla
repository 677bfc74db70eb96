----------------------------- MODULE SearchCones -----------------------------
(***************************************************************************)
(* search_cones (api/positions.py): the objects inside a radius, counted   *)
(* as a whole and listed in ingest order or nearest first, bounded by a    *)
(* pin on ingest_time when the search is paged.                            *)
(***************************************************************************)
EXTENDS ObjectBuild

CONSTANTS
    Cones,         \* centres a client may ask about
    Separation,    \* Separation[c][o]: of object o from centre c
    Radius         \* the search radius

\* No bound on ingest_time.
Unpinned == -1

Inside(c, pin) ==
    {o \in Objects : /\ Committed(o)
                     /\ Separation[c][o] <= Radius
                     /\ pin # Unpinned => rows[o].ingest <= pin}

\* (ingest_time, diaObjectId) and (separation, diaObjectId)
Sooner(o, p) ==
    \/ rows[o].ingest < rows[p].ingest
    \/ rows[o].ingest = rows[p].ingest /\ o < p

Nearer(c, o, p) ==
    \/ Separation[c][o] < Separation[c][p]
    \/ Separation[c][o] = Separation[c][p] /\ o < p

\* The first n of S in the given order.
Leading(S, n, Less(_, _)) ==
    {o \in S : Cardinality({p \in S : Less(p, o)}) < n}

\* S as a sequence in the given order.
InOrder(S, Less(_, _)) ==
    [n \in 1 .. Cardinality(S) |-> CHOOSE x \in S : Cardinality({y \in S : Less(y, x)}) = n - 1]

\* The distinct objects of which a result lists one page or part are counted by
\* total; its qualifying_total counts the candidates that qualify.
MarkResult(res, candidates, quals, spec) ==
    LET counted == {o \in candidates \cap DOMAIN quals : quals[o].object /\ quals[o].match}
    IN  IF res.total <= 0
        THEN [res EXCEPT !.yes = FALSE, !.reason = res.status,
                         !.qualifying = res.total]
        ELSE [res EXCEPT !.yes = counted # {},
                         !.reason = IF counted # {} THEN "meets_filters"
                                    ELSE "no_object_meets_filters",
                         !.qualifying = Cardinality(counted)]

\* total of a result that is not a cone, and of a cone that was not searched.
NotACone == -2
NotRun == -1

\* A result: ids are what it lists, marks the mark of each entry.
NewResult(status, total) ==
    [status |-> status, total |-> total, ids |-> {}, entries |-> <<>>, marks |-> <<>>,
     truncation |-> "none", yes |-> FALSE, reason |-> "none", qualifying |-> NotRun]

FoundOrNot(total) == IF total > 0 THEN "objects_found" ELSE "no_rubin_object"

MarkEntries(res, quals, spec) ==
    [res EXCEPT !.marks = [o \in DOMAIN res.entries |->
                              MarkOf(o, res.entries[o].status, quals, spec)]]

FreshRequest ==
    [pc |-> "start", route |-> "none", detail |-> "ids", spec |-> Spec0, count |-> FALSE,
     migrated |-> TRUE, inputs |-> <<>>, todo |-> <<>>, budget |-> 0, asked |-> {},
     read |-> NothingRead, built |-> <<>>, results |-> <<>>, candidates |-> <<>>,
     cut |-> FALSE, since |-> 0, told |-> [o \in Objects |-> {}], cone |-> <<>>]

\* A request starts: what each object would be answered now.
Started(q) ==
    LET base == [FreshRequest EXCEPT
                   !.pc = q.pc, !.route = q.route, !.detail = q.detail, !.spec = q.spec,
                   !.count = q.count, !.migrated = q.migrated, !.since = writes]
    IN  [base EXCEPT !.told = [o \in Objects |-> {AnswerNow(o, rows[o], base)}]]

\* What the client is given: the results once every statement has run.
Answered == req.pc \in {"answered", "paused"}

\* An entry and what could be told of its object while the request ran: all of it
\* but the brokers is of one moment, the brokers are of one moment, and these are
\* the same moment unless the object was still to be crossmatched.  (The alert of
\* a pending object may be crossmatched and delivered again before its delivery
\* rows are read: then it is pending with a broker that came after that.)
OfOneMoment(entry, told) ==
    /\ \E now \in told : [now.entry EXCEPT !.brokers = entry.brokers] = entry
    /\ \E now \in told : now.entry.brokers = entry.brokers
    /\ entry.status # "crossmatch_pending" => \E now \in told : now.entry = entry

\* No entry of an answer mixes a status with the records, matches or association
\* of another time, although six statements made it, and no crossmatched one with
\* the brokers of another time.  (An object whose batch is reverted after MATCHED
\* may be torn.)
EntryWasTrue ==
    Answered =>
        \A i \in DOMAIN req.results :
            \A o \in DOMAIN req.results[i].entries \ reverted :
                OfOneMoment(req.results[i].entries[o], req.told[o])

\* An entry is marked to qualify, or not, only if that was so at some moment of
\* the request.
MarkWasTrue ==
    Answered =>
        \A i \in DOMAIN req.results :
            \A o \in DOMAIN req.results[i].marks :
                \E now \in req.told[o] : now.mark = req.results[i].marks[o].yes
=============================================================================
