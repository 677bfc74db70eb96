------------------------------ MODULE ConeSearch ------------------------------
(***************************************************************************)
(* GET api/cone and the MCP position tool (api/positions.py cone_search):  *)
(* one position, listed page by page in ingest order under an as_of pin,   *)
(* or nearest first, or counted.  The page, its total past the last row,   *)
(* and the objects that qualify are separate statements.                   *)
(***************************************************************************)
EXTENDS SearchCones

CONSTANTS
    ConePages,     \* API_MAX_OBJECTS_PER_POSITION: the default page size
    ConePagesMax,  \* API_MAX_OBJECTS_PER_REQUEST: the largest
    ConeAsks       \* the requests a client may send, a set of ConeParams

\* A parameter that was not given, and one whose text does not parse.
NotGiven == -1
NotParsed == -2

\* A size that is not positive is 0.
ConeParams == [centre : Cones \cup {"absent", "invalid"},
               detail : {"ids", "position", "matches", "full", "absent", "unknown"},
               size : Nat \cup {NotGiven, NotParsed}, filters : SUBSET Filters,
               response : {"objects", "count", "absent", "unknown"},
               order : {"ingest", "nearest"}]

ASSUME ConeAssumption ==
    /\ ConePages \in Nat \ {0} /\ ConePagesMax \in Nat \ {0}
    /\ ConeAsks \subseteq ConeParams

\* ConeCursor: at is the last (ingest_time, diaObjectId) served.
NoToken == [kind |-> "none", at |-> <<>>, asOf |-> Unpinned, centre |-> "absent",
            detail |-> "absent"]

\* The tokens a client may present: none, junk, the one it holds, that one with
\* a position past every object, or one of the other query.
Tokens ==
    IF req.pc = "paused"
    THEN {req.cone.token, [req.cone.token EXCEPT !.at = <<MaxTime + 1, 0>>],
          [req.cone.token EXCEPT !.kind = "recent_crossmatches"]}
    ELSE {NoToken, [NoToken EXCEPT !.kind = "garbage"]}

\* decode_cone_cursor and the _pinned checks.
TokenRefused(p, t) ==
    /\ t.kind # "none"
    /\ \/ t.kind # "cone_search"
       \/ p.centre \notin {"absent", t.centre}
       \/ p.detail \notin {"absent", t.detail}

ConeRefusal(p, t) ==
    IF FiltersInvalid(p.filters) THEN "invalid_parameter"
    ELSE IF FiltersSpan(p.filters) THEN "filters_span_catalogs"
    ELSE IF \/ p.response = "unknown"
            \/ p.response = "count" /\ t.kind # "none"
            \/ TokenRefused(p, t)
            \/ t.kind = "none" /\ p.centre \in {"absent", "invalid"}
            \/ p.detail = "unknown"
            \/ p.response # "count" /\ p.size \in {0, NotParsed}
            \/ p.order = "nearest" /\ t.kind # "none"
    THEN "invalid_parameter"
    ELSE "none"

ConeSize(p) ==
    LET asked == IF p.size = NotGiven THEN ConePages ELSE p.size
    IN  IF asked < ConePagesMax THEN asked ELSE ConePagesMax

\* The walk as its client sees it: seen, what it was served; due, what was there
\* when the first page was read.
FreshCone ==
    [centre |-> "absent", asOf |-> Unpinned, after |-> <<>>, size |-> 1, order |-> "ingest",
     page |-> {}, more |-> FALSE, seen |-> {}, due |-> {}, token |-> NoToken]

AskCone(p, t) ==
    /\ req.pc \in {"start", "paused"}
    /\ req' =
        IF ConeRefusal(p, t) # "none" THEN [req EXCEPT !.pc = "refused"]
        ELSE LET first == t.kind = "none"
                 count == p.response = "count"
                 detail == IF count THEN "ids"
                           ELSE IF ~first THEN t.detail
                           ELSE IF p.detail = "absent" THEN "matches" ELSE p.detail
                 q == Started([pc |-> "page", route |-> "cone", detail |-> detail,
                               spec |-> ParseFilters(p.filters), count |-> count,
                               migrated |-> TRUE])
                 walked == IF ~first /\ t = req.cone.token THEN req.cone ELSE FreshCone
             IN  [q EXCEPT !.cone =
                    [walked EXCEPT
                       !.centre = IF first THEN p.centre ELSE t.centre,
                       !.asOf = IF count THEN Unpinned ELSE IF first THEN clock ELSE t.asOf,
                       !.after = t.at,
                       !.size = ConeSize(p),
                       !.order = p.order]]
    /\ UNCHANGED storeVars

\* Mutant of After: the keyset bound includes the row it was taken from.
AtOrAfter(o, at) ==
    at = <<>> \/ rows[o].ingest > at[1] \/ (rows[o].ingest = at[1] /\ o >= at[2])

\* Mutant of After: the time alone, without the tie-break.
AfterInTime(o, at) == at = <<>> \/ rows[o].ingest > at[1]

\* (ingest_time, oid) > after
After(o, at) ==
    \/ at = <<>>
    \/ rows[o].ingest > at[1]
    \/ rows[o].ingest = at[1] /\ o > at[2]

PinnedSet == Inside(req.cone.centre, req.cone.asOf)

Rest == {o \in PinnedSet : After(o, req.cone.after)}

\* ORDER BY ... LIMIT
ListFirst(n) ==
    LET Closer(o, p) == Nearer(req.cone.centre, o, p)
    IN  IF req.cone.order = "nearest" THEN Leading(Rest, n, Closer)
        ELSE Leading(Rest, n, Sooner)

\* The page and one row more; a count lists every object.  A page without rows
\* has no total either: past the last object, another statement counts.
FetchPage ==
    /\ req.pc = "page"
    /\ LET page == IF req.count THEN Rest ELSE ListFirst(req.cone.size)
           total == IF Rest = {} THEN 0 ELSE Cardinality(PinnedSet)
           res == [NewResult(FoundOrNot(total), total) EXCEPT !.ids = page]
       IN  req' = [req EXCEPT
                     !.pc = IF Rest = {} /\ req.cone.after # <<>> THEN "total"
                            ELSE IF req.spec.on /\ ~req.count THEN "whole" ELSE "alerts",
                     !.asked = page,
                     !.results = <<res>>,
                     !.candidates = <<page>>,
                     !.cone.page = page,
                     !.cone.more = ~req.count /\ Rest # page,
                     !.cone.due = IF req.cone.after = <<>> THEN PinnedSet ELSE @]
    /\ UNCHANGED storeVars

CountWhole ==
    /\ req.pc = "total"
    /\ LET total == Cardinality(PinnedSet)
       IN  req' = [req EXCEPT !.pc = IF req.spec.on THEN "whole" ELSE "alerts",
                              !.results[1].total = total,
                              !.results[1].status = FoundOrNot(total)]
    /\ UNCHANGED storeVars

\* Mutant of FetchCandidates: the candidates are the page.
CandidatesOfPage ==
    /\ req.pc = "whole"
    /\ req' = [req EXCEPT !.pc = "alerts"]
    /\ UNCHANGED storeVars

\* qualifying_total covers the whole pinned set, not only the page.
FetchCandidates ==
    /\ req.pc = "whole"
    /\ req' = [req EXCEPT !.pc = "alerts", !.candidates = <<PinnedSet>>]
    /\ UNCHANGED storeVars

LastListed ==
    CHOOSE o \in req.cone.page : \A p \in req.cone.page \ {o} : Sooner(p, o)

\* next_cursor, never of a nearest-first page.
MakePage ==
    /\ req.pc = "built" /\ req.route = "cone"
    /\ LET next == req.cone.more /\ req.cone.order = "ingest"
       IN  req' = [req EXCEPT
                     !.pc = IF req.spec.on THEN "filter"
                            ELSE IF next THEN "paused" ELSE "answered",
                     !.results[1].entries = [o \in req.results[1].ids |-> req.built[o]],
                     !.cone.seen = @ \cup req.cone.page,
                     !.cone.token =
                         IF ~next THEN NoToken
                         ELSE [kind |-> "cone_search",
                               at |-> <<rows[LastListed].ingest, LastListed>>,
                               asOf |-> req.cone.asOf, centre |-> req.cone.centre,
                               detail |-> req.detail]]
    /\ UNCHANGED storeVars

MarkPage ==
    /\ req.pc = "filter" /\ req.route = "cone"
    /\ LET candidates == req.candidates[1]
           quals == QualifyObjects(candidates \cup req.results[1].ids, req.spec)
       IN  req' = [req EXCEPT
                     !.pc = IF req.cone.token.kind # "none" THEN "paused" ELSE "answered",
                     !.results[1] = MarkResult(MarkEntries(@, quals, req.spec),
                                               candidates, quals, req.spec)]
    /\ UNCHANGED storeVars

ConeStep ==
    \/ \E p \in ConeAsks, t \in Tokens : AskCone(p, t)
    \/ FetchPage \/ CountWhole \/ FetchCandidates
    \/ MakePage \/ MarkPage

\* No object is listed on two pages of a walk.
ConeNoRepeats ==
    req.pc \in {"alerts", "whole"} /\ req.route = "cone" =>
        req.cone.page \cap req.cone.seen = {}

\* The pages of an ingest-order walk list every object that was inside the
\* radius when the first page was read, and total counts every object listed.
ConeWalkIsComplete ==
    req.route = "cone" /\ Answered /\ ~req.count =>
        /\ req.pc = "answered" /\ req.cone.order = "ingest" => req.cone.due \subseteq req.cone.seen
        /\ Cardinality(req.cone.seen) <= req.results[1].total

\* qualifying_total covers the objects inside the radius under the pin, listed
\* on this page or not, when nothing was committed meanwhile.
ConeTotalsAgree ==
    req.route = "cone" /\ Answered /\ writes = req.since =>
        /\ req.results[1].total = Cardinality(PinnedSet)
        /\ req.spec.on => req.results[1].qualifying =
              Cardinality({o \in PinnedSet : Qualifies(o, rows[o], req.spec)})

\* A client that follows the pages of a cone gets each object once and all that
\* were there when it began (api/positions.py).
ConeWalkIsExact == ConeNoRepeats /\ ConeWalkIsComplete
=============================================================================
