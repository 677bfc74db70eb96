------------------------------ MODULE RecentWalk ------------------------------
(***************************************************************************)
(* A client walks GET api/recent-crossmatches page by page                 *)
(* (api/service.py, api/pagination.py, api/views.py) while the pipeline    *)
(* commits.  Each page is one request of two statements: the rows, by      *)
(* keyset, newest first; then their matches.  The cursor carries the       *)
(* position, the pinned query and the as_of bound on ingest_time.          *)
(***************************************************************************)
EXTENDS ReadStore

CONSTANTS
    MaxPage,       \* RECENT_CROSSMATCH_MAX_PAGE_SIZE
    DefaultPage,   \* RECENT_CROSSMATCH_DEFAULT_PAGE_SIZE
    MaxWindow,     \* RECENT_CROSSMATCH_MAX_WINDOW_HOURS
    DefaultWindow, \* DEFAULT_WINDOW_HOURS
    Requests,      \* the parameters a client may send, a set of Params
    InitRows       \* what the tables may hold when the client starts

VARIABLE walk

\* A parameter that was not given, and one whose text does not parse.
Absent == -1
Malformed == -2

Fields == {"ingest_time", "event_time"}
Details == {"ids", "position", "matches", "full"}

\* start, end and size are numbers, Absent or Malformed; a size that is not
\* positive is 0; filter: the request names a filter or response; get: its method.
Params == [get : BOOLEAN, filter : BOOLEAN,
           start : Int, end : Int, size : Nat \cup {Absent, Malformed},
           field : Fields \cup {"absent", "unknown"},
           detail : Details \cup {"absent", "unknown"}]

ASSUME WalkAssumption ==
    /\ MaxPage \in Nat \ {0} /\ DefaultPage \in Nat \ {0}
    /\ MaxWindow \in Nat /\ DefaultWindow \in 0 .. MaxWindow
    /\ Requests \subseteq Params
    /\ InitRows \subseteq [Objects -> Rows]

Queries == [start : Int, end : Int, field : Fields, detail : Details]

NoQuery == [start |-> 0, end |-> 0, field |-> "ingest_time", detail |-> "ids"]

Positions == [time : Int, id : Int]

\* A cursor; at holds its position, asOf is Absent in one minted before the pin.
Cursors == [kind : {"none", "recent_crossmatches", "unmarked", "cone_search", "garbage"},
            at : SUBSET Positions, query : Queries, asOf : Int]

NoCursor == [kind |-> "none", at |-> {}, query |-> NoQuery, asOf |-> Absent]

Walks == [pc : {"start", "rows", "matches", "page", "paused", "end", "refused"},
          query : Queries, asOf : Int, after : SUBSET Positions, size : Nat,
          page : SUBSET Objects, more : BOOLEAN, entries : SUBSET Objects,
          seen : SUBSET Objects, due : SUBSET Objects, plain : BOOLEAN,
          cursor : Cursors]

TimeOf(o, field) == IF field = "ingest_time" THEN rows[o].ingest ELSE EventTime[o]

PositionOf(o, field) == [time |-> TimeOf(o, field), id |-> o]

\* (time_field DESC, diaObjectId ASC)
Before(p, q) == p.time > q.time \/ (p.time = q.time /\ p.id < q.id)

\* decode_cursor: a cursor without a kind is one of this query.
Decodable(c) == c.kind \in {"recent_crossmatches", "unmarked"}

Differs(given, pinned) == given # pinned /\ given # Absent

\* Mutant of Conflicts: a parameter left out is compared as its default.
ConflictsWithDefaults(p, q) ==
    \/ Differs(p.start, q.start)
    \/ Differs(p.end, q.end)
    \/ (IF p.field = "absent" THEN "ingest_time" ELSE p.field) # q.field
    \/ p.detail \notin {"absent", q.detail}

\* ensure_no_conflict
Conflicts(p, q) ==
    \/ Differs(p.start, q.start)
    \/ Differs(p.end, q.end)
    \/ p.field \notin {"absent", q.field}
    \/ p.detail \notin {"absent", q.detail}

\* The query of a first page: the defaults applied.
Defaulted(p) ==
    LET end == IF p.end = Absent THEN clock ELSE p.end
    IN  [start |-> IF p.start = Absent THEN end - DefaultWindow ELSE p.start,
         end |-> end,
         field |-> IF p.field = "absent" THEN "ingest_time" ELSE p.field,
         detail |-> IF p.detail = "absent" THEN "matches" ELSE p.detail]

\* The query a request is about: the cursor's, or its own.
Resolved(p, c) == IF c.kind = "none" THEN Defaulted(p) ELSE c.query

\* recent_crossmatches_view: its method and what it does not support.
Unsupported(p) == ~p.get \/ p.filter

\* The checks of recent_crossmatches.
Invalid(p, c) ==
    \/ Malformed \in {p.start, p.end, p.size}
    \/ p.size = 0
    \/ c.kind # "none" /\ (~Decodable(c) \/ Conflicts(p, c.query))
    \/ LET q == Resolved(p, c)
       IN  \/ q.field \notin Fields
           \/ q.detail \notin Details
           \/ q.end < q.start
           \/ q.end - q.start > MaxWindow

PageSize(size) ==
    LET asked == IF size = Absent THEN DefaultPage ELSE size
    IN  IF asked < MaxPage THEN asked ELSE MaxPage

\* The cursors a client may present: the one it was given, as issued or in the
\* form minted before the pin and the kind existed; one of another query; junk.
Presented ==
    IF walk.pc = "start" THEN {NoCursor, [NoCursor EXCEPT !.kind = "garbage"]}
    ELSE {walk.cursor, [walk.cursor EXCEPT !.kind = "unmarked", !.asOf = Absent],
          [walk.cursor EXCEPT !.kind = "cone_search"]}

\* The next page asked for as documented: the cursor, no pinned parameter.
Plain(p, c) ==
    /\ c = walk.cursor /\ c.kind = "recent_crossmatches"
    /\ ~Unsupported(p) /\ p.size \notin {0, Malformed}
    /\ Absent = p.start /\ Absent = p.end /\ {p.field, p.detail} = {"absent"}

\* A request for the first page or for the page after the cursor.
Ask(p, c) ==
    /\ walk.pc \in {"start", "paused"}
    /\ walk' = IF Unsupported(p) \/ Invalid(p, c)
               THEN [walk EXCEPT !.pc = "refused", !.plain = Plain(p, c)]
               ELSE [walk EXCEPT
                       !.pc = "rows",
                       !.query = Resolved(p, c),
                       !.asOf = IF c.asOf = Absent THEN clock ELSE c.asOf,
                       !.after = c.at,
                       !.size = PageSize(p.size)]
    /\ UNCHANGED storeVars

\* Window, pin, Exists(matches), and strictly after the cursor.
InWindow(o) ==
    /\ Committed(o)
    /\ rows[o].matches # {}
    /\ walk.query.start <= TimeOf(o, walk.query.field)
    /\ TimeOf(o, walk.query.field) < walk.query.end
    /\ rows[o].ingest <= walk.asOf

\* Mutant of PastCursor: the keyset bound includes the row it was taken from.
AtOrPastCursor(o) ==
    \A p \in walk.after : ~Before(PositionOf(o, walk.query.field), p)

\* Mutant of PastCursor: the time alone, without the tie-break.
PastCursorInTime(o) ==
    \A p \in walk.after : p.time > TimeOf(o, walk.query.field)

\* (time_field < value) OR (time_field = value AND diaObjectId > id)
PastCursor(o) ==
    \A p \in walk.after : Before(p, PositionOf(o, walk.query.field))

Eligible == {o \in Objects : InWindow(o) /\ PastCursor(o)}

\* ORDER BY ... LIMIT n
FirstOf(S, n, field) ==
    {o \in S : Cardinality({p \in S : Before(PositionOf(p, field),
                                             PositionOf(o, field))}) < n}

LastOf(S, field) ==
    {PositionOf(o, field) : o \in {x \in S : \A y \in S \ {x} :
        Before(PositionOf(y, field), PositionOf(x, field))}}

\* The rows statement, which fetches one row more than the page.
FetchRows ==
    /\ walk.pc = "rows"
    /\ LET page == FirstOf(Eligible, walk.size, walk.query.field)
           more == Cardinality(Eligible) > walk.size
       IN  walk' = [walk EXCEPT
                      !.pc = IF walk.query.detail \in {"matches", "full"} /\ page # {}
                             THEN "matches" ELSE "page",
                      !.page = page,
                      !.more = more,
                      !.entries = {},
                      !.due = IF walk.after = {} THEN Eligible ELSE @]
    /\ UNCHANGED storeVars

\* Mutant of HasEntry: only matches of the current version are loaded.
HasCurrentEntry(o) ==
    \E m \in {n \in rows[o].matches : n.version = CurrentVersion} :
        walk.query.detail # "full" \/ <<o, m.catalog>> \notin Unbuildable

\* An entry of the page has matches; a row that cannot be built is skipped.
HasEntry(o) ==
    \E m \in Latest(rows[o].matches) :
        walk.query.detail # "full" \/ <<o, m.catalog>> \notin Unbuildable

\* _load_matches, a second statement.
LoadMatches ==
    /\ walk.pc = "matches"
    /\ walk' = [walk EXCEPT !.pc = "page", !.entries = {o \in walk.page : HasEntry(o)}]
    /\ UNCHANGED storeVars

\* The page reaches the client, with next_cursor when more rows follow.
Deliver ==
    /\ walk.pc = "page"
    /\ walk' = [walk EXCEPT
                  !.pc = IF walk.more THEN "paused" ELSE "end",
                  !.seen = @ \cup walk.page,
                  !.cursor = IF walk.more
                             THEN [kind |-> "recent_crossmatches",
                                   at |-> LastOf(walk.page, walk.query.field),
                                   query |-> walk.query, asOf |-> walk.asOf]
                             ELSE NoCursor]
    /\ UNCHANGED storeVars

WalkStep ==
    \/ \E p \in Requests : \E c \in Presented : Ask(p, c)
    \/ FetchRows
    \/ LoadMatches
    \/ Deliver

FreshWalk ==
    [pc |-> "start", query |-> NoQuery, asOf |-> 0, after |-> {}, size |-> 1,
     page |-> {}, more |-> FALSE, entries |-> {}, seen |-> {}, due |-> {},
     plain |-> FALSE, cursor |-> NoCursor]

\* The client alone with the pipeline.
WalkInit == InitStore(InitRows) /\ walk = FreshWalk

WalkNext == (StoreStep /\ UNCHANGED walk) \/ WalkStep

WalkSpec == WalkInit /\ [][WalkNext]_<<storeVars, walk>>

\* No object is served twice, however many alerts and matches are committed
\* between the pages: "every distinct matched diaObjectId ... exactly once".
NoRepeats == walk.pc \in {"matches", "page"} => walk.page \cap walk.seen = {}

\* Every object that was matched and in the window when the first page was read
\* has been served when the walk is exhausted.
WalkIsComplete == walk.pc = "end" => walk.due \subseteq walk.seen

\* next_cursor is good for the next page: the request that presents it and
\* contradicts nothing is never refused.
CursorIsHonoured == walk.pc = "refused" => ~walk.plain

\* An object listed because it had a match is not served without one, though
\* the matches are read by a later statement, unless its payloads were asked for
\* and one cannot be built.
ListedHasMatches ==
    walk.pc = "page" /\ walk.query.detail \in {"matches", "full"} =>
        \A o \in walk.page \ walk.entries :
            /\ walk.query.detail = "full"
            /\ \E m \in rows[o].matches : <<o, m.catalog>> \in Unbuildable

\* A client that follows next_cursor to the end gets "every distinct matched
\* diaObjectId ... exactly once" (api/pagination.py, api/service.py).
WalkIsExact == NoRepeats /\ WalkIsComplete /\ CursorIsHonoured
=============================================================================
