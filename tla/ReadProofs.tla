------------------------------ MODULE ReadProofs ------------------------------
(***************************************************************************)
(* Proofs about the read side while the pipeline commits, for every number *)
(* of objects, page size, window and request.  The walk over the pages of  *)
(* api/recent-crossmatches, and the walk over a cone, serve no object      *)
(* twice, and none that was there when the walk began is left out.  What a *)
(* page, a lookup, a cone or a chat says of an object was true of it at    *)
(* one moment of the request, although several statements read it.  A      *)
(* summary asked for with the parameters it echoes is the same summary,    *)
(* and its counts add up and agree with a lookup of the same objects.      *)
(***************************************************************************)
EXTENDS ReadApi, FiniteSetTheorems, TLAPS

LEMMA ConstantsTyped ==
    /\ Objects \subseteq Nat /\ IsFiniteSet(Objects) /\ EventTime \in [Objects -> Nat]
    /\ CurrentVersion \in Versions /\ MaxTime \in Nat /\ StartTime \in Nat
    /\ MaxPage \in Nat \ {0} /\ DefaultPage \in Nat \ {0}
    /\ Requests \subseteq Params /\ InitRows \subseteq [Objects -> Rows]
<1>1. CurrentVersion \in Versions
    BY StoreAssumption DEF CurrentVersion
<1>2. StartTime \in Nat /\ MaxTime \in Nat
    BY StoreAssumption
<1> QED BY <1>1, <1>2, StoreAssumption, WalkAssumption

StoreTyped == rows \in [Objects -> Rows] /\ clock \in Nat

-----------------------------------------------------------------------------
\* The order of the pages: newest first, ties by the identifier.

AtPlace(p) == p.time \in Int /\ p.id \in Int

LEMMA BeforeOrder ==
    ASSUME NEW p, NEW q, NEW r, AtPlace(p), AtPlace(q), AtPlace(r)
    PROVE  /\ ~ Before(p, p)
           /\ ~ (Before(p, q) /\ Before(q, p))
           /\ p.id # q.id => Before(p, q) \/ Before(q, p)
           /\ Before(p, q) /\ Before(q, r) => Before(p, r)
BY DEF Before, AtPlace

LEMMA ObjectsAtPlace ==
    ASSUME StoreTyped, NEW o \in Objects, NEW field
    PROVE  AtPlace(PositionOf(o, field)) /\ PositionOf(o, field).id = o
BY ConstantsTyped DEF AtPlace, PositionOf, TimeOf, StoreTyped, Rows

\* A finite set of objects that is not empty has a first and a last one.
Ahead(S, field, x) == {y \in S : Before(PositionOf(y, field), PositionOf(x, field))}
Behind(S, field, x) == {y \in S : Before(PositionOf(x, field), PositionOf(y, field))}

LEMMA SmallestSubset ==
    ASSUME NEW S, IsFiniteSet(S), NEW T, \A B \in T : B \subseteq S, T # {}
    PROVE  \E A \in T : \A B \in T : B \subseteq A => B = A
<1>1. IsWellFoundedOn(StrictSubsetOrdering(S), FiniteSubsetsOf(S))
    BY FS_StrictSubsetOrderingWellFounded
<1>2. FiniteSubsetsOf(S) = SUBSET S
    BY FS_FiniteSubsetsOfFinite
<1>3. PICK A \in T : \A B \in T : ~ (<<B, A>> \in StrictSubsetOrdering(S))
    BY <1>1, <1>2, WFMin
<1> QED BY <1>3 DEF StrictSubsetOrdering

LEMMA FirstExists ==
    ASSUME StoreTyped, NEW S \in SUBSET Objects, S # {}, NEW field
    PROVE  \E x \in S : Ahead(S, field, x) = {}
<1>1. IsFiniteSet(S)
    BY ConstantsTyped, FS_Subset
<1>2. PICK x \in S : \A y \in S : Ahead(S, field, y) \subseteq Ahead(S, field, x)
                                  => Ahead(S, field, y) = Ahead(S, field, x)
    <2> DEFINE T == {Ahead(S, field, y) : y \in S}
    <2>1. T \in SUBSET SUBSET S /\ T # {}
        BY DEF Ahead
    <2>2. PICK A \in T : \A B \in T : B \subseteq A => B = A
        <3> HIDE DEF T
        <3> QED BY <1>1, <2>1, SmallestSubset
    <2>3. PICK x \in S : A = Ahead(S, field, x)
        OBVIOUS
    <2> QED BY <2>2, <2>3
<1>3. ASSUME NEW y \in Ahead(S, field, x) PROVE FALSE
    <2>1. y \in S /\ Before(PositionOf(y, field), PositionOf(x, field))
        BY <1>3 DEF Ahead
    <2>2. Ahead(S, field, y) \subseteq Ahead(S, field, x)
        BY <2>1, ObjectsAtPlace, BeforeOrder DEF Ahead
    <2>3. y \notin Ahead(S, field, y)
        BY <2>1, ObjectsAtPlace, BeforeOrder DEF Ahead
    <2> QED BY <1>2, <1>3, <2>1, <2>2, <2>3
<1> QED BY <1>3

LEMMA LastExists ==
    ASSUME StoreTyped, NEW S \in SUBSET Objects, S # {}, NEW field
    PROVE  \E x \in S : Behind(S, field, x) = {}
<1>1. IsFiniteSet(S)
    BY ConstantsTyped, FS_Subset
<1>2. PICK x \in S : \A y \in S : Behind(S, field, y) \subseteq Behind(S, field, x)
                                  => Behind(S, field, y) = Behind(S, field, x)
    <2> DEFINE T == {Behind(S, field, y) : y \in S}
    <2>1. T \in SUBSET SUBSET S /\ T # {}
        BY DEF Behind
    <2>2. PICK A \in T : \A B \in T : B \subseteq A => B = A
        <3> HIDE DEF T
        <3> QED BY <1>1, <2>1, SmallestSubset
    <2>3. PICK x \in S : A = Behind(S, field, x)
        OBVIOUS
    <2> QED BY <2>2, <2>3
<1>3. ASSUME NEW y \in Behind(S, field, x) PROVE FALSE
    <2>1. y \in S /\ Before(PositionOf(x, field), PositionOf(y, field))
        BY <1>3 DEF Behind
    <2>2. Behind(S, field, y) \subseteq Behind(S, field, x)
        BY <2>1, ObjectsAtPlace, BeforeOrder DEF Behind
    <2>3. y \notin Behind(S, field, y)
        BY <2>1, ObjectsAtPlace, BeforeOrder DEF Behind
    <2> QED BY <1>2, <1>3, <2>1, <2>2, <2>3
<1> QED BY <1>3

\* A position a page was cut at is that of one of its objects, and none of the
\* others comes after it.
LEMMA LastIsLast ==
    ASSUME StoreTyped, NEW S \in SUBSET Objects, S # {}, NEW field
    PROVE  /\ LastOf(S, field) # {}
           /\ \A p \in LastOf(S, field) :
                 /\ AtPlace(p)
                 /\ \E x \in S : p = PositionOf(x, field)
                 /\ \A y \in S : ~ Before(p, PositionOf(y, field))
<1>1. PICK x \in S : Behind(S, field, x) = {}
    BY LastExists
<1>2. \A y \in S \ {x} : Before(PositionOf(y, field), PositionOf(x, field))
    BY <1>1, ObjectsAtPlace, BeforeOrder DEF Behind
<1>3. PositionOf(x, field) \in LastOf(S, field)
    BY <1>2 DEF LastOf
<1>4. ASSUME NEW p \in LastOf(S, field)
      PROVE  /\ AtPlace(p)
             /\ \E z \in S : p = PositionOf(z, field)
             /\ \A y \in S : ~ Before(p, PositionOf(y, field))
    <2>1. PICK z \in S : /\ p = PositionOf(z, field)
                         /\ \A y \in S \ {z} : Before(PositionOf(y, field), PositionOf(z, field))
        BY <1>4 DEF LastOf
    <2> QED BY <2>1, ObjectsAtPlace, BeforeOrder
<1> QED BY <1>3, <1>4

\* The first n of a set: some are taken when there are any; one that is not
\* taken comes after all that are, and then there are more than n.
LEMMA FirstAreFirst ==
    ASSUME StoreTyped, NEW S \in SUBSET Objects, NEW n \in Nat \ {0}, NEW field
    PROVE  /\ FirstOf(S, n, field) \subseteq S
           /\ S # {} => FirstOf(S, n, field) # {}
           /\ \A o \in S \ FirstOf(S, n, field) :
                 /\ Cardinality(S) > n
                 /\ \A x \in FirstOf(S, n, field) :
                       Before(PositionOf(x, field), PositionOf(o, field))
<1>1. \A x \in S : FirstOf(S, n, field) = {o \in S : Cardinality(Ahead(S, field, o)) < n}
    BY DEF FirstOf, Ahead
<1>2. IsFiniteSet(S) /\ \A x \in S : IsFiniteSet(Ahead(S, field, x))
                                     /\ Cardinality(Ahead(S, field, x)) \in Nat
    <2>1. IsFiniteSet(S)
        BY ConstantsTyped, FS_Subset
    <2>2. \A x \in S : Ahead(S, field, x) \in SUBSET S
        BY DEF Ahead
    <2> QED BY <2>1, <2>2, FS_Subset, FS_CardinalityType
<1>3. FirstOf(S, n, field) \subseteq S
    BY DEF FirstOf
<1>4. S # {} => FirstOf(S, n, field) # {}
    <2> SUFFICES ASSUME S # {} PROVE FirstOf(S, n, field) # {}
        OBVIOUS
    <2>1. PICK x \in S : Ahead(S, field, x) = {}
        BY FirstExists
    <2>2. Cardinality(Ahead(S, field, x)) = 0
        BY <2>1, FS_EmptySet
    <2> QED BY <1>1, <2>2
<1>5. ASSUME NEW o \in S \ FirstOf(S, n, field)
      PROVE  /\ Cardinality(S) > n
             /\ \A x \in FirstOf(S, n, field) : Before(PositionOf(x, field), PositionOf(o, field))
    <2>1. Cardinality(Ahead(S, field, o)) >= n
        BY <1>1, <1>2, <1>5
    <2>2. o \notin Ahead(S, field, o)
        BY <1>5, ObjectsAtPlace, BeforeOrder DEF Ahead
    <2> DEFINE upTo == Ahead(S, field, o) \cup {o}
    <2>3. IsFiniteSet(upTo) /\ Cardinality(upTo) = Cardinality(Ahead(S, field, o)) + 1
        BY <1>2, <2>2, FS_AddElement
    <2>4. Cardinality(upTo) <= Cardinality(S) /\ Cardinality(S) \in Nat
        <3>1. upTo \in SUBSET S
            BY DEF Ahead
        <3> QED BY <1>2, <3>1, FS_Subset, FS_CardinalityType
    <2>5. ASSUME NEW x \in FirstOf(S, n, field),
                 ~ Before(PositionOf(x, field), PositionOf(o, field))
          PROVE  FALSE
        <3>1. x \in S /\ Cardinality(Ahead(S, field, x)) < n
            BY <1>1, <1>3, <2>5
        <3>2. x # o
            BY <1>5, <2>5
        <3>3. Before(PositionOf(o, field), PositionOf(x, field))
            BY <1>5, <2>5, <3>1, <3>2, ObjectsAtPlace, BeforeOrder
        <3>4. upTo \subseteq Ahead(S, field, x)
            BY <1>5, <3>1, <3>3, ObjectsAtPlace, BeforeOrder DEF Ahead
        <3>5. Cardinality(upTo) <= Cardinality(Ahead(S, field, x))
            BY <1>2, <3>1, <3>4, FS_Subset
        <3> QED BY <1>2, <2>1, <2>3, <3>1, <3>5
    <2> QED BY <1>2, <2>1, <2>3, <2>4, <2>5
<1> QED BY <1>3, <1>4, <1>5

-----------------------------------------------------------------------------
\* What the pipeline does between the pages.

\* A row that was ingested stays so, with its ingest_time and its matches.
RowKept(o) == Committed(o) =>
               /\ Committed(o)'
               /\ rows'[o].ingest = rows[o].ingest
               /\ rows[o].matches \subseteq rows'[o].matches

LEMMA RowReplaced ==
    ASSUME StoreTyped, NEW o \in Objects, NEW row \in Rows,
           rows' = [rows EXCEPT ![o] = row], clock' = clock,
           Committed(o) => /\ row.status \notin {"absent", "stamped"}
                           /\ row.ingest = rows[o].ingest
                           /\ rows[o].matches \subseteq row.matches
    PROVE  StoreTyped' /\ clock <= clock' /\ \A x \in Objects : RowKept(x)
<1>1. rows'[o] = row /\ \A x \in Objects \ {o} : rows'[x] = rows[x]
    BY DEF StoreTyped
<1>2. \A x \in Objects : RowKept(x)
    BY <1>1 DEF RowKept, Committed
<1> QED BY <1>2 DEF StoreTyped

LEMMA RowsWritten ==
    ASSUME NEW r \in Rows
    PROVE  /\ \A x \in Status : [r EXCEPT !.status = x] \in Rows
           /\ \A x \in Nat : [r EXCEPT !.ingest = x] \in Rows
           /\ \A x \in SUBSET Matches : [r EXCEPT !.matches = x] \in Rows
           /\ \A x \in Histories : [r EXCEPT !.records = x] \in Rows
           /\ \A x \in BOOLEAN : [r EXCEPT !.tns = x] \in Rows
           /\ \A x \in SUBSET Brokers : [r EXCEPT !.brokers = x] \in Rows
BY DEF Rows

LEMMA StoreGoesOn ==
    ASSUME StoreTyped, StoreStep
    PROVE  StoreTyped' /\ clock <= clock' /\ \A x \in Objects : RowKept(x)
<1> DEFINE Goal == StoreTyped' /\ clock <= clock' /\ \A x \in Objects : RowKept(x)
<1>1. CASE Tick
    BY <1>1 DEF Tick, StoreTyped, RowKept, Committed
<1>2. ASSUME NEW o \in Objects, Stamp(o) PROVE Goal
    <2> DEFINE row == [[rows[o] EXCEPT !.status = "stamped"] EXCEPT !.ingest = clock]
    <2>1. rows[o] \in Rows /\ clock \in Nat
        BY DEF StoreTyped
    <2>2. [rows[o] EXCEPT !.status = "stamped"] \in Rows
        BY <2>1, RowsWritten DEF Status
    <2>3. row \in Rows
        BY <2>1, <2>2, RowsWritten
    <2>4. rows' = [rows EXCEPT ![o] = row] /\ clock' = clock /\ ~ Committed(o)
        BY <1>2 DEF Stamp, Committed
    <2> QED BY <2>3, <2>4, RowReplaced
<1>3. ASSUME NEW o \in Objects, CommitIngest(o) PROVE Goal
    <2> DEFINE row == [rows[o] EXCEPT !.status = "INGESTED"]
    <2>1. rows[o] \in Rows
        BY DEF StoreTyped
    <2>2. row \in Rows
        BY <2>1, RowsWritten DEF Status
    <2>3. rows' = [rows EXCEPT ![o] = row] /\ clock' = clock /\ ~ Committed(o)
        BY <1>3 DEF CommitIngest, Commit, Committed
    <2> QED BY <2>2, <2>3, RowReplaced
<1>4. ASSUME NEW o \in Objects, NEW b \in Brokers, RecordDelivery(o, b) PROVE Goal
    <2> DEFINE row == [rows[o] EXCEPT !.brokers = @ \cup {b}]
    <2>1. rows[o] \in Rows /\ rows[o].brokers \cup {b} \in SUBSET Brokers
        BY DEF StoreTyped, Rows
    <2>2. row \in Rows
        BY <2>1, RowsWritten
    <2>3. rows' = [rows EXCEPT ![o] = row] /\ clock' = clock
        BY <1>4 DEF RecordDelivery, Commit
    <2>4. row.status = rows[o].status /\ row.ingest = rows[o].ingest /\ row.matches = rows[o].matches
        BY <2>1 DEF Rows
    <2> QED BY <2>2, <2>3, <2>4, RowReplaced DEF Committed
<1>5. ASSUME NEW o \in Objects, Queue(o) \/ Notify(o) \/ Revert(o) PROVE Goal
    <2>1. PICK to \in {"INGESTED", "QUEUED", "NOTIFIED"} :
             rows' = [rows EXCEPT ![o] = [rows[o] EXCEPT !.status = to]] /\ clock' = clock
        BY <1>5 DEF Queue, Notify, Revert, Commit
    <2> DEFINE row == [rows[o] EXCEPT !.status = to]
    <2>2. rows[o] \in Rows
        BY DEF StoreTyped
    <2>3. row \in Rows
        BY <2>2, RowsWritten DEF Status
    <2>4. row.status = to /\ row.ingest = rows[o].ingest /\ row.matches = rows[o].matches
        BY <2>2 DEF Rows
    <2> QED BY <2>1, <2>3, <2>4, RowReplaced
<1>6. ASSUME NEW o \in Objects, SaveTns(o) PROVE Goal
    <2> DEFINE row == [rows[o] EXCEPT !.tns = TRUE]
    <2>1. rows[o] \in Rows
        BY DEF StoreTyped
    <2>2. row \in Rows
        BY <2>1, RowsWritten
    <2>3. rows' = [rows EXCEPT ![o] = row] /\ clock' = clock
        BY <1>6 DEF SaveTns, Commit
    <2>4. row.status = rows[o].status /\ row.ingest = rows[o].ingest /\ row.matches = rows[o].matches
        BY <2>1 DEF Rows
    <2> QED BY <2>2, <2>3, <2>4, RowReplaced DEF Committed
<1>7. ASSUME NEW o \in Objects, NEW m \in Matches, SaveMatch(o, m) PROVE Goal
    <2> DEFINE row == [rows[o] EXCEPT !.matches = @ \cup {m}]
    <2>1. rows[o] \in Rows /\ rows[o].matches \cup {m} \in SUBSET Matches
        BY DEF StoreTyped, Rows
    <2>2. row \in Rows
        BY <2>1, RowsWritten
    <2>3. rows' = [rows EXCEPT ![o] = row] /\ clock' = clock
        BY <1>7 DEF SaveMatch, Commit
    <2>4. /\ row.status = rows[o].status /\ row.ingest = rows[o].ingest
          /\ row.matches = rows[o].matches \cup {m}
        BY <2>1 DEF Rows
    <2> QED BY <2>2, <2>3, <2>4, RowReplaced DEF Committed
<1>8. ASSUME NEW o \in Objects, NEW new \in Histories, Finish(o, new) PROVE Goal
    <2> DEFINE kept == {r \in rows[o].records : \A n \in new : r.version # n.version} \cup new
               row == [[rows[o] EXCEPT !.status = "MATCHED"] EXCEPT !.records = kept]
    <2>1. rows[o] \in Rows /\ kept \in Histories
        <3>1. rows[o] \in Rows /\ rows[o].records \in Histories
            BY DEF StoreTyped, Rows
        <3> QED BY <3>1 DEF Histories
    <2>2. [rows[o] EXCEPT !.status = "MATCHED"] \in Rows
        BY <2>1, RowsWritten DEF Status
    <2>3. row \in Rows
        <3> HIDE DEF kept
        <3> QED BY <2>1, <2>2, RowsWritten
    <2>4. rows' = [rows EXCEPT ![o] = row] /\ clock' = clock
        BY <1>8 DEF Finish, Commit
    <2>5. row.status = "MATCHED" /\ row.ingest = rows[o].ingest /\ row.matches = rows[o].matches
        BY <2>1 DEF Rows
    <2> HIDE DEF row
    <2> QED BY <2>3, <2>4, <2>5, RowReplaced
<1>9. {} \in Histories /\ \A s \in {"searched", "skipped_read_failure"} : {FullRecord(s)} \in Histories
    <2>1. \A s \in SearchOutcome : [c \in Catalogs |-> s] \in UNION {[S -> SearchOutcome] : S \in SUBSET Catalogs}
        OBVIOUS
    <2> QED BY <2>1, ConstantsTyped DEF FullRecord, Records, Histories, SearchOutcome
<1> QED BY <1>1, <1>2, <1>3, <1>4, <1>5, <1>6, <1>7, <1>8, <1>9 DEF StoreStep

-----------------------------------------------------------------------------
\* The inductive invariant of the walk.

Place(o) == PositionOf(o, walk.query.field)

Reading == walk.pc \in {"matches", "page"}

\* What was served lies at or before the position the pages continue after.
Served ==
    /\ \A o \in walk.seen : Committed(o)
    /\ walk.pc = "start" => walk.seen = {} /\ walk.due = {} /\ walk.cursor = NoCursor
    /\ walk.pc = "rows" \/ Reading =>
          /\ walk.after = {} => walk.seen = {}
          /\ \A p \in walk.after : \A o \in walk.seen : ~ Before(p, Place(o))
    /\ walk.pc = "paused" =>
          /\ walk.cursor.at # {}
          /\ \A p \in walk.cursor.at : \A o \in walk.seen : ~ Before(p, Place(o))

\* The page being put together comes after that position.
OnPage ==
    Reading =>
        /\ \A o \in walk.page : Committed(o) /\ \A p \in walk.after : Before(p, Place(o))
        /\ walk.more => walk.page # {}

\* The cursor continues this query, under the bound on ingest_time it began with.
Pinned ==
    /\ walk.pc \notin {"start", "refused"} => walk.asOf \in 0 .. clock
    /\ walk.pc = "paused" => /\ walk.cursor.kind = "recent_crossmatches"
                            /\ walk.cursor.query = walk.query
                            /\ walk.cursor.asOf = walk.asOf
                            /\ walk.query.end >= walk.query.start
                            /\ walk.query.end - walk.query.start <= MaxWindow

\* What was in the window at the first page is still in it, and is served or
\* still ahead.
Ahead0(o) ==
    \/ walk.pc = "rows" /\ PastCursor(o)
    \/ Reading /\ (o \in walk.page \/ (walk.more /\ \A x \in walk.page : Before(Place(x), Place(o))))
    \/ walk.pc = "paused" /\ \A p \in walk.cursor.at : Before(p, Place(o))

Owed ==
    walk.pc # "refused" => \A o \in walk.due : InWindow(o) /\ (o \in walk.seen \/ Ahead0(o))

Honoured == walk.pc = "refused" => ~ walk.plain

WellFormed ==
    /\ StoreTyped /\ walk \in Walks /\ walk.size # 0
    /\ walk.pc \in {"rows", "matches", "page"} =>
          /\ walk.query.end >= walk.query.start
          /\ walk.query.end - walk.query.start <= MaxWindow

WalkInv == WellFormed /\ Served /\ OnPage /\ Pinned /\ Owed /\ Honoured

LEMMA WalkBegins == WalkInit => WalkInv
<1> SUFFICES ASSUME WalkInit PROVE WalkInv
    OBVIOUS
<1>1. rows \in [Objects -> Rows] /\ clock \in Nat /\ walk = FreshWalk
    BY ConstantsTyped DEF WalkInit, InitStore
<1>2. FreshWalk \in Walks
    BY DEF FreshWalk, Walks, NoQuery, Queries, Fields, Details, NoCursor, Cursors, Absent
<1>3. WellFormed
    BY <1>1, <1>2 DEF WellFormed, StoreTyped, FreshWalk
<1>4. Served /\ OnPage /\ Pinned /\ Owed /\ Honoured
    BY <1>1 DEF FreshWalk, Served, OnPage, Pinned, Owed, Honoured, Reading
<1> QED BY <1>3, <1>4 DEF WalkInv

\* Commits between the steps move nothing the walk depends on.
LEMMA WalkSurvives ==
    ASSUME WalkInv, StoreStep, UNCHANGED walk PROVE WalkInv'
<1>1. StoreTyped' /\ clock <= clock' /\ \A o \in Objects : RowKept(o)
    BY StoreGoesOn DEF WalkInv, WellFormed
<1>2. walk \in Walks /\ clock \in Nat /\ clock' \in Nat
    BY <1>1 DEF WalkInv, WellFormed, StoreTyped
<1>3. /\ walk.seen \subseteq Objects /\ walk.page \subseteq Objects /\ walk.due \subseteq Objects
      /\ walk.asOf \in Int
    BY <1>2 DEF Walks
<1>4. \A o \in Objects : Committed(o) => Committed(o)' /\ Place(o)' = Place(o)
    BY <1>1 DEF RowKept, Place, PositionOf, TimeOf
<1>5. WellFormed'
    BY <1>1 DEF WalkInv, WellFormed
<1>6. Served'
    BY <1>3, <1>4 DEF WalkInv, Served, Reading
<1>7. OnPage'
    BY <1>3, <1>4 DEF WalkInv, OnPage, Reading
<1>8. Pinned'
    BY <1>1, <1>2, <1>3 DEF WalkInv, Pinned
<1>9. Owed'
    <2> SUFFICES ASSUME walk.pc # "refused", NEW o \in walk.due
                 PROVE  (InWindow(o) /\ (o \in walk.seen \/ Ahead0(o)))'
        BY DEF Owed
    <2>1. o \in Objects /\ InWindow(o) /\ (o \in walk.seen \/ Ahead0(o))
        BY <1>3 DEF WalkInv, Owed
    <2>2. Committed(o) /\ RowKept(o)
        BY <1>1, <2>1 DEF InWindow
    <2>3. InWindow(o)'
        BY <2>1, <2>2 DEF RowKept, InWindow, TimeOf
    <2>4. Ahead0(o) => Ahead0(o)'
        <3>1. Place(o)' = Place(o)
            BY <1>4, <2>1, <2>2
        <3>2. Reading => \A x \in walk.page : Place(x)' = Place(x)
            BY <1>3, <1>4 DEF WalkInv, OnPage
        <3>3. PastCursor(o)' = PastCursor(o)
            BY <3>1 DEF PastCursor, Place
        <3> QED BY <3>1, <3>2, <3>3 DEF Ahead0, Reading
    <2> QED BY <2>1, <2>3, <2>4
<1>10. Honoured'
    BY DEF WalkInv, Honoured
<1> QED BY <1>5, <1>6, <1>7, <1>8, <1>9, <1>10 DEF WalkInv

LEMMA AskedTyped ==
    ASSUME walk \in Walks, NEW q \in Queries, NEW a \in Int, NEW at \in SUBSET Positions,
           NEW n \in Nat
    PROVE  [walk EXCEPT !.pc = "rows", !.query = q, !.asOf = a, !.after = at, !.size = n]
               \in Walks
BY DEF Walks

\* A request is refused, or it continues the query it belongs to.
LEMMA AskKeeps ==
    ASSUME WalkInv, NEW p \in Requests, NEW c \in Presented, Ask(p, c) PROVE WalkInv'
<1> DEFINE bad == Unsupported(p) \/ Invalid(p, c)
<1>1. /\ walk \in Walks /\ clock \in Nat /\ walk.size # 0 /\ StoreTyped
      /\ p \in Params /\ walk.pc \in {"start", "paused"} /\ UNCHANGED <<rows, clock>>
    BY ConstantsTyped DEF WalkInv, WellFormed, StoreTyped, Ask, storeVars
<1>2. CASE bad
    <2>1. walk' = [walk EXCEPT !.pc = "refused", !.plain = Plain(p, c)]
        BY <1>2 DEF Ask
    <2>2. Plain(p, c) \in BOOLEAN
        BY DEF Plain, Unsupported
    <2>3. walk' \in Walks /\ walk'.size # 0 /\ walk'.pc = "refused" /\ walk'.plain = Plain(p, c)
        BY <1>1, <2>1, <2>2 DEF Walks
    <2>4. walk'.seen = walk.seen
        BY <1>1, <2>1 DEF Walks
    <2>5. ~ Plain(p, c)
        <3> SUFFICES ASSUME Plain(p, c) PROVE FALSE
            OBVIOUS
        <3>1. /\ c = walk.cursor /\ c.kind = "recent_crossmatches" /\ ~ Unsupported(p)
              /\ p.size \notin {0, Malformed} /\ p.start = Absent /\ p.end = Absent
              /\ p.field = "absent" /\ p.detail = "absent"
            BY DEF Plain
        <3>2. walk.pc = "paused"
            BY <1>1, <3>1 DEF WalkInv, Served, NoCursor
        <3>3. /\ c.query = walk.query /\ walk.query \in Queries
              /\ walk.query.end >= walk.query.start
              /\ walk.query.end - walk.query.start <= MaxWindow
            BY <1>1, <3>1, <3>2 DEF WalkInv, Pinned, Walks
        <3>4. ~ Conflicts(p, c.query) /\ Decodable(c)
            BY <3>1 DEF Conflicts, Differs, Decodable
        <3>5. Malformed \notin {p.start, p.end, p.size}
            BY <3>1 DEF Absent, Malformed
        <3>6. walk.query.start \in Int /\ walk.query.end \in Int /\ MaxWindow \in Nat
            BY <3>3, WalkAssumption DEF Queries
        <3>7. walk.query.field \in Fields /\ walk.query.detail \in Details
            BY <3>3 DEF Queries
        <3>8. Resolved(p, c) = walk.query
            BY <3>1, <3>3 DEF Resolved
        <3>9. ~ Invalid(p, c)
            BY <3>1, <3>3, <3>4, <3>5, <3>6, <3>7, <3>8 DEF Invalid
        <3> QED BY <1>2, <3>1, <3>9
    <2>6. WellFormed' /\ Honoured'
        BY <1>1, <2>3, <2>5 DEF WellFormed, StoreTyped, Honoured
    <2>7. Served' /\ OnPage' /\ Pinned' /\ Owed'
        BY <1>1, <2>3, <2>4 DEF WalkInv, Served, OnPage, Pinned, Owed, Reading, Committed
    <2> QED BY <2>6, <2>7 DEF WalkInv
<1>3. CASE ~ bad
    <2> DEFINE query == Resolved(p, c)
               asOf == IF c.asOf = Absent THEN clock ELSE c.asOf
    <2>1. walk' = [walk EXCEPT !.pc = "rows", !.query = query, !.asOf = asOf, !.after = c.at,
                               !.size = PageSize(p.size)]
        BY <1>3 DEF Ask
    <2>2. /\ query.field \in Fields /\ query.detail \in Details
          /\ ~ (query.end < query.start) /\ ~ (query.end - query.start > MaxWindow)
          /\ Malformed \notin {p.start, p.end, p.size} /\ p.size # 0
          /\ c.kind # "none" => Decodable(c)
        BY <1>3 DEF Invalid
    <2>3. PageSize(p.size) \in Nat \ {0}
        BY <1>1, <2>2, ConstantsTyped DEF PageSize, Params, Absent, Malformed
    <2>4. CASE walk.pc = "start"
        <3>1. c = NoCursor
            BY <2>2, <2>4 DEF Presented, Decodable, NoCursor
        <3>2. asOf = clock /\ c.at = {} /\ query = Defaulted(p)
            BY <3>1 DEF NoCursor, Absent, Resolved
        <3>3. query \in Queries
            BY <1>1, <2>2, <3>2, WalkAssumption DEF Defaulted, Queries, Params
        <3>4. walk' \in Walks
            <4>1. clock \in Int /\ {} \in SUBSET Positions /\ PageSize(p.size) \in Nat
                BY <1>1, <2>3
            <4> HIDE DEF query, asOf
            <4> QED BY <1>1, <2>1, <3>2, <3>3, <4>1, AskedTyped
        <3>5. /\ walk'.pc = "rows" /\ walk'.query = query /\ walk'.asOf = clock
              /\ walk'.after = {} /\ walk'.size = PageSize(p.size)
              /\ walk'.seen = walk.seen /\ walk'.due = walk.due
            BY <1>1, <2>1, <3>2 DEF Walks
        <3>6. walk.seen = {} /\ walk.due = {}
            BY <2>4 DEF WalkInv, Served
        <3>7. query.end >= query.start /\ query.end - query.start <= MaxWindow
            BY <2>2, <3>3, WalkAssumption DEF Queries
        <3>8. WellFormed'
            BY <1>1, <2>3, <3>4, <3>5, <3>7 DEF WellFormed, StoreTyped
        <3>9. Served' /\ OnPage' /\ Pinned' /\ Owed' /\ Honoured'
            BY <1>1, <3>5, <3>6 DEF Served, OnPage, Pinned, Owed, Honoured, Reading
        <3> QED BY <3>8, <3>9 DEF WalkInv
    <2>5. CASE walk.pc = "paused"
        <3>1. /\ walk.cursor \in Cursors /\ walk.cursor.kind = "recent_crossmatches"
              /\ walk.cursor.query = walk.query /\ walk.cursor.asOf = walk.asOf
              /\ walk.asOf \in 0 .. clock
            BY <1>1, <2>5 DEF WalkInv, Pinned, Walks
        <3>2. /\ c.kind # "none" /\ c.at = walk.cursor.at /\ c.query = walk.query
              /\ asOf \in walk.asOf .. clock
            <4>1. c \in {walk.cursor, [walk.cursor EXCEPT !.kind = "unmarked", !.asOf = Absent],
                         [walk.cursor EXCEPT !.kind = "cone_search"]}
                BY <2>5 DEF Presented
            <4>2. CASE c = walk.cursor
                BY <1>1, <3>1, <4>2 DEF Absent
            <4>3. CASE c = [walk.cursor EXCEPT !.kind = "unmarked", !.asOf = Absent]
                BY <1>1, <3>1, <4>3 DEF Cursors, Absent
            <4>4. CASE c = [walk.cursor EXCEPT !.kind = "cone_search"]
                BY <2>2, <3>1, <4>4 DEF Cursors, Decodable
            <4> QED BY <4>1, <4>2, <4>3, <4>4
        <3>3. query = walk.query /\ walk.query \in Queries /\ walk.cursor.at \subseteq Positions
            BY <1>1, <3>1, <3>2 DEF Resolved, Walks, Cursors
        <3>4. walk' \in Walks
            <4>1. asOf \in Int /\ PageSize(p.size) \in Nat
                BY <1>1, <2>3, <3>1, <3>2
            <4> HIDE DEF query, asOf
            <4> QED BY <1>1, <2>1, <3>2, <3>3, <4>1, AskedTyped
        <3>5. /\ walk'.pc = "rows" /\ walk'.query = walk.query /\ walk'.asOf = asOf
              /\ walk'.after = walk.cursor.at /\ walk'.size = PageSize(p.size)
              /\ walk'.seen = walk.seen /\ walk'.due = walk.due
            BY <1>1, <2>1, <3>2, <3>3 DEF Walks
        <3>6. \A o \in Objects : Place(o)' = Place(o) /\ (InWindow(o) => InWindow(o)')
            <4> SUFFICES ASSUME NEW o \in Objects
                         PROVE  Place(o)' = Place(o) /\ (InWindow(o) => InWindow(o)')
                OBVIOUS
            <4>1. rows[o].ingest \in Nat
                BY <1>1 DEF StoreTyped, Rows
            <4>2. rows[o].ingest <= walk.asOf => rows[o].ingest <= walk'.asOf
                <5> HIDE DEF asOf
                <5> QED BY <1>1, <3>1, <3>2, <3>5, <4>1
            <4>3. TimeOf(o, walk.query.field)' = TimeOf(o, walk.query.field)
                BY <1>1, <3>5 DEF TimeOf
            <4> QED BY <1>1, <3>5, <4>2, <4>3 DEF Place, PositionOf, InWindow, Committed
        <3>7. WellFormed'
            BY <1>1, <2>3, <2>5, <3>4, <3>5 DEF WellFormed, StoreTyped, WalkInv, Pinned
        <3>8. Served'
            <4>1. walk.seen \subseteq Objects
                BY <1>1 DEF Walks
            <4> QED BY <1>1, <2>5, <3>5, <3>6, <4>1 DEF WalkInv, Served, Reading, Committed
        <3>9. OnPage' /\ Pinned' /\ Honoured'
            BY <1>1, <3>1, <3>2, <3>5 DEF OnPage, Pinned, Honoured, Reading
        <3>10. Owed'
            <4>1. walk.due \subseteq Objects
                BY <1>1 DEF Walks
            <4> QED BY <2>5, <3>5, <3>6, <4>1 DEF WalkInv, Owed, Ahead0, Reading, PastCursor, Place
        <3> QED BY <3>7, <3>8, <3>9, <3>10 DEF WalkInv
    <2> QED BY <1>1, <2>4, <2>5
<1> QED BY <1>2, <1>3

\* The rows of a page: they come after the position, and what is left out of
\* them comes after them.
LEMMA FetchKeeps ==
    ASSUME WalkInv, FetchRows PROVE WalkInv'
<1> DEFINE field == walk.query.field
           page == FirstOf(Eligible, walk.size, field)
           more == Cardinality(Eligible) > walk.size
           pc == IF walk.query.detail \in {"matches", "full"} /\ page # {} THEN "matches" ELSE "page"
           due == IF walk.after = {} THEN Eligible ELSE walk.due
<1>1. /\ walk \in Walks /\ walk.size \in Nat \ {0} /\ StoreTyped
      /\ walk.pc = "rows" /\ UNCHANGED <<rows, clock>>
    BY DEF WalkInv, WellFormed, FetchRows, storeVars, Walks
<1>2. Eligible \in SUBSET Objects /\ walk.seen \subseteq Objects
    BY <1>1 DEF Eligible, Walks
<1>3. /\ page \subseteq Eligible
      /\ Eligible # {} => page # {}
      /\ \A o \in Eligible \ page : more /\ \A x \in page : Before(Place(x), Place(o))
    BY <1>1, <1>2, FirstAreFirst DEF Place
<1>4. more => page # {}
    <2>1. Eligible = {} => ~ more
        BY <1>1, FS_EmptySet
    <2> QED BY <1>3, <2>1
<1>5. walk' = [walk EXCEPT !.pc = pc, !.page = page, !.more = more, !.entries = {}, !.due = due]
    BY DEF FetchRows
<1>6. walk' \in Walks
    <2>1. pc \in {"matches", "page"} /\ page \in SUBSET Objects /\ more \in BOOLEAN
        BY <1>2, <1>3
    <2>2. due \in SUBSET Objects
        BY <1>1, <1>2 DEF Walks
    <2> HIDE DEF pc, page, more, due
    <2> QED BY <1>1, <1>5, <2>1, <2>2 DEF Walks
<1>7. /\ walk'.pc \in {"matches", "page"} /\ walk'.page = page /\ walk'.more = more
      /\ walk'.due = due /\ walk'.query = walk.query /\ walk'.asOf = walk.asOf
      /\ walk'.after = walk.after /\ walk'.size = walk.size /\ walk'.seen = walk.seen
    <2>1. pc \in {"matches", "page"}
        OBVIOUS
    <2> HIDE DEF pc, page, more, due
    <2> QED BY <1>1, <1>5, <2>1 DEF Walks
<1> HIDE DEF pc, page, more, due
<1>8. \A o \in Objects : /\ Place(o)' = Place(o) /\ (InWindow(o) <=> InWindow(o)')
                         /\ (Committed(o) <=> Committed(o)')
    BY <1>1, <1>7 DEF Place, PositionOf, TimeOf, InWindow, Committed
<1>9. WellFormed'
    BY <1>1, <1>6, <1>7 DEF WalkInv, WellFormed, StoreTyped
<1>10. Served'
    BY <1>1, <1>2, <1>7, <1>8 DEF WalkInv, Served, Reading
<1>11. OnPage'
    BY <1>2, <1>3, <1>4, <1>7, <1>8 DEF OnPage, Reading, Eligible, InWindow, PastCursor, Place
<1>12. Pinned' /\ Honoured'
    BY <1>1, <1>7 DEF WalkInv, Pinned, Honoured
<1>13. Owed'
    <2> SUFFICES ASSUME NEW o \in walk'.due
                 PROVE  (InWindow(o) /\ (o \in walk.seen \/ Ahead0(o)))'
        BY DEF Owed
    <2>1. o \in Objects
        BY <1>6 DEF Walks
    <2>2. InWindow(o) /\ (o \in walk.seen \/ o \in Eligible)
        <3>1. CASE walk.after = {}
            BY <1>7, <3>1 DEF due, Eligible
        <3>2. CASE walk.after # {}
            <4>1. o \in walk.due
                BY <1>7, <3>2 DEF due
            <4> QED BY <1>1, <2>1, <4>1 DEF WalkInv, Owed, Ahead0, Reading, Eligible
        <3> QED BY <3>1, <3>2
    <2>3. o \in Eligible => Ahead0(o)'
        BY <1>2, <1>3, <1>7, <1>8, <2>1 DEF Ahead0, Reading
    <2> QED BY <1>7, <1>8, <2>1, <2>2, <2>3
<1> QED BY <1>9, <1>10, <1>11, <1>12, <1>13 DEF WalkInv

LEMMA LoadKeeps ==
    ASSUME WalkInv, LoadMatches PROVE WalkInv'
<1> DEFINE entries == {o \in walk.page : HasEntry(o)}
<1>1. /\ walk \in Walks /\ StoreTyped /\ walk.size # 0
      /\ walk.pc = "matches" /\ UNCHANGED <<rows, clock>>
    BY DEF WalkInv, WellFormed, LoadMatches, storeVars
<1>2. walk' = [walk EXCEPT !.pc = "page", !.entries = entries]
    BY DEF LoadMatches
<1>3. entries \in SUBSET Objects
    BY <1>1 DEF Walks
<1> HIDE DEF entries
<1>4. /\ walk' \in Walks /\ walk'.pc = "page" /\ walk'.page = walk.page
      /\ walk'.more = walk.more /\ walk'.due = walk.due /\ walk'.query = walk.query
      /\ walk'.asOf = walk.asOf /\ walk'.after = walk.after /\ walk'.size = walk.size
      /\ walk'.seen = walk.seen
    BY <1>1, <1>2, <1>3 DEF Walks
<1>5. \A o : /\ Place(o)' = Place(o) /\ (InWindow(o) <=> InWindow(o)')
             /\ (Committed(o) <=> Committed(o)')
    BY <1>1, <1>4 DEF Place, PositionOf, TimeOf, InWindow, Committed
<1>6. WellFormed' /\ Pinned' /\ Honoured'
    BY <1>1, <1>4 DEF WalkInv, WellFormed, StoreTyped, Pinned, Honoured
<1>7. Served' /\ OnPage'
    BY <1>1, <1>4, <1>5 DEF WalkInv, Served, OnPage, Reading
<1>8. Owed'
    BY <1>1, <1>4, <1>5 DEF WalkInv, Owed, Ahead0, Reading
<1> QED BY <1>6, <1>7, <1>8 DEF WalkInv

\* The page is served: the cursor is the position of its last object.
LEMMA DeliverKeeps ==
    ASSUME WalkInv, Deliver PROVE WalkInv'
<1> DEFINE field == walk.query.field
           at == LastOf(walk.page, field)
           cursor == IF walk.more
                     THEN [kind |-> "recent_crossmatches", at |-> at, query |-> walk.query,
                           asOf |-> walk.asOf]
                     ELSE NoCursor
           pc == IF walk.more THEN "paused" ELSE "end"
           seen == walk.seen \cup walk.page
<1>1. /\ walk \in Walks /\ StoreTyped /\ walk.size # 0
      /\ walk.pc = "page" /\ UNCHANGED <<rows, clock>>
    BY DEF WalkInv, WellFormed, Deliver, storeVars
<1>2. /\ walk.page \in SUBSET Objects /\ walk.seen \in SUBSET Objects /\ walk.due \in SUBSET Objects
      /\ walk.query \in Queries /\ walk.asOf \in Int /\ walk.after \subseteq Positions
    BY <1>1 DEF Walks
<1>3. walk' = [walk EXCEPT !.pc = pc, !.seen = seen, !.cursor = cursor]
    BY DEF Deliver
<1>4. at \subseteq Positions
    <2>1. ASSUME NEW x \in walk.page PROVE PositionOf(x, field) \in Positions
        <3>1. AtPlace(PositionOf(x, field))
            BY <1>1, <1>2, ObjectsAtPlace
        <3>2. PositionOf(x, field) = [time |-> TimeOf(x, field), id |-> x]
            BY DEF PositionOf
        <3> QED BY <3>1, <3>2 DEF AtPlace, Positions
    <2>2. \A q \in at : \E x \in walk.page : q = PositionOf(x, field)
        BY DEF LastOf
    <2> QED BY <2>1, <2>2
<1>5. cursor \in Cursors
    <2>1. NoCursor \in Cursors
        BY DEF NoCursor, NoQuery, Cursors, Queries, Fields, Details, Absent
    <2> HIDE DEF at
    <2> QED BY <1>2, <1>4, <2>1 DEF Cursors
<1>6. /\ walk' \in Walks /\ walk'.pc = pc /\ walk'.seen = seen /\ walk'.cursor = cursor
      /\ walk'.page = walk.page /\ walk'.more = walk.more /\ walk'.due = walk.due
      /\ walk'.query = walk.query /\ walk'.asOf = walk.asOf /\ walk'.size = walk.size
    <2>1. pc \in {"paused", "end"} /\ seen \in SUBSET Objects
        BY <1>2
    <2> HIDE DEF pc, seen, cursor
    <2> QED BY <1>1, <1>3, <1>5, <2>1 DEF Walks
<1>7. \A o : /\ Place(o)' = Place(o) /\ (InWindow(o) <=> InWindow(o)')
             /\ (Committed(o) <=> Committed(o)')
    BY <1>1, <1>6 DEF Place, PositionOf, TimeOf, InWindow, Committed
<1>8. walk.more =>
         /\ at # {}
         /\ \A p \in at : /\ \E x \in walk.page : p = Place(x)
                        /\ \A o \in seen : ~ Before(p, Place(o))
    <2> SUFFICES ASSUME walk.more
                 PROVE  /\ at # {}
                        /\ \A p \in at : /\ \E x \in walk.page : p = Place(x)
                                       /\ \A o \in seen : ~ Before(p, Place(o))
        OBVIOUS
    <2>1. walk.page # {}
        BY <1>1 DEF WalkInv, OnPage, Reading
    <2>2. /\ at # {}
          /\ \A p \in at : /\ AtPlace(p) /\ \E x \in walk.page : p = Place(x)
                         /\ \A o \in walk.page : ~ Before(p, Place(o))
        BY <1>1, <1>2, <2>1, LastIsLast DEF Place
    <2>3. ASSUME NEW p \in at, NEW o \in walk.seen PROVE ~ Before(p, Place(o))
        <3>1. PICK x \in walk.page : p = Place(x)
            BY <2>2
        <3>2. PICK q \in walk.after : TRUE
            BY <1>1, <2>3 DEF WalkInv, Served, Reading
        <3>3. Before(q, Place(x)) /\ ~ Before(q, Place(o))
            BY <1>1, <2>3, <3>1, <3>2 DEF WalkInv, Served, OnPage, Reading
        <3>4. AtPlace(q)
            BY <1>2, <3>2 DEF Positions, AtPlace
        <3>5. AtPlace(Place(o)) /\ AtPlace(p)
            BY <1>1, <1>2, <2>2, <2>3, ObjectsAtPlace DEF Place
        <3> QED BY <3>1, <3>3, <3>4, <3>5, BeforeOrder
    <2> HIDE DEF at
    <2> QED BY <2>2, <2>3
<1>9. WellFormed' /\ Honoured'
    BY <1>1, <1>6 DEF WellFormed, StoreTyped, Honoured
<1>10. Served'
    <2>1. \A o \in seen : Committed(o)
        BY <1>1 DEF WalkInv, Served, OnPage, Reading
    <2>2. walk.more => walk'.cursor.at = at
        BY <1>6
    <2> HIDE DEF at, seen, cursor
    <2> QED BY <1>6, <1>7, <1>8, <2>1, <2>2 DEF Served, Reading
<1>11. OnPage' /\ Pinned'
    <2>1. walk.asOf \in 0 .. clock
        BY <1>1 DEF WalkInv, Pinned
    <2>2. walk.query.end >= walk.query.start /\ walk.query.end - walk.query.start <= MaxWindow
        BY <1>1 DEF WalkInv, WellFormed
    <2>3. walk.more => /\ walk'.cursor.kind = "recent_crossmatches"
                       /\ walk'.cursor.query = walk.query /\ walk'.cursor.asOf = walk.asOf
        BY <1>6
    <2> HIDE DEF at, seen, cursor
    <2> QED BY <1>1, <1>6, <2>1, <2>2, <2>3 DEF OnPage, Pinned, Reading
<1>12. Owed'
    <2> SUFFICES ASSUME NEW o \in walk.due PROVE (InWindow(o) /\ (o \in walk.seen \/ Ahead0(o)))'
        BY <1>6 DEF Owed
    <2>1. InWindow(o) /\ (o \in seen \/ (walk.more /\ \A x \in walk.page : Before(Place(x), Place(o))))
        BY <1>1 DEF WalkInv, Owed, Ahead0, Reading
    <2>2. walk.more => walk'.cursor.at = at
        BY <1>6
    <2> HIDE DEF at, seen, cursor
    <2> QED BY <1>6, <1>7, <1>8, <2>1, <2>2 DEF Ahead0
<1> QED BY <1>9, <1>10, <1>11, <1>12 DEF WalkInv

LEMMA WalkStays == WalkSpec => []WalkInv
<1>1. ASSUME WalkInv, [WalkNext]_<<storeVars, walk>> PROVE WalkInv'
    <2>1. CASE UNCHANGED <<storeVars, walk>>
        <3>1. UNCHANGED <<rows, clock, walk>>
            BY <2>1 DEF storeVars
        <3> QED BY <1>1, <3>1
                DEF WalkInv, WellFormed, Served, OnPage, Pinned, Owed, Honoured, StoreTyped, Ahead0,
                    Reading, Place, PositionOf, TimeOf, PastCursor, InWindow, Committed
    <2> QED BY <1>1, <2>1, WalkSurvives, AskKeeps, FetchKeeps, LoadKeeps, DeliverKeeps
            DEF WalkNext, WalkStep
<1> QED BY <1>1, WalkBegins, PTL DEF WalkSpec

\* No object is served on two pages, for any number of objects, any page size
\* and any commits between the pages and between the statements of a page.
THEOREM WalkNeverRepeats == WalkSpec => []NoRepeats
<1>1. WalkInv => NoRepeats
    <2> SUFFICES ASSUME WalkInv, Reading, NEW o \in walk.page, o \in walk.seen PROVE FALSE
        BY DEF NoRepeats, Reading
    <2>1. PICK p \in walk.after : TRUE
        BY DEF WalkInv, Served, Reading
    <2> QED BY <2>1 DEF WalkInv, Served, OnPage, Reading
<1> QED BY <1>1, WalkStays, PTL

\* A walk that is exhausted has served every object that was matched and in the
\* window when its first page was read.
THEOREM WalkLeavesNothingOut == WalkSpec => []WalkIsComplete
<1>1. WalkInv => WalkIsComplete
    BY DEF WalkInv, Owed, Ahead0, Reading, WalkIsComplete
<1> QED BY <1>1, WalkStays, PTL

\* A cursor that was issued is never refused when it is presented as documented.
THEOREM CursorsAreHonoured == WalkSpec => []CursorIsHonoured
<1>1. WalkInv => CursorIsHonoured
    BY DEF WalkInv, Honoured, CursorIsHonoured
<1> QED BY <1>1, WalkStays, PTL

\* A client that follows next_cursor gets each object exactly once.
THEOREM WalkStaysExact == WalkSpec => []WalkIsExact
BY WalkNeverRepeats, WalkLeavesNothingOut, CursorsAreHonoured, PTL DEF WalkIsExact

-----------------------------------------------------------------------------
\* The requests that are answered from several statements.  The fields of a
\* request, of a result and of what was read:
RequestFields == {"pc", "route", "detail", "spec", "count", "migrated", "inputs", "todo", "budget",
                  "asked", "read", "built", "results", "candidates", "cut", "since", "told", "cone"}
IsRequest(q) == q = [f \in RequestFields |-> q[f]]

ResultFields == {"status", "total", "ids", "entries", "marks", "truncation", "yes", "reason",
                 "qualifying"}
IsResult(r) == r = [f \in ResultFields |-> r[f]]

IsRead(r) == r = [f \in {"alerts", "records", "matched", "matches", "brokers"} |-> r[f]]

\* A request between its first statement and its answer; while it builds entries.
Running == req.pc \notin {"start", "refused", "paused", "answered"}

\* Between the statements of build_objects, and once they have run.
Gathering == req.pc \in {"records", "matched", "sources", "brokers", "assoc", "build"}

Building == Gathering \/ req.pc \in {"alerts", "built"}

\* An entry the object could have been given, unless its batch was taken back;
\* one that was not in service could not be marked.
TruthfulIn(o, entry, told, taken) ==
    /\ o \notin taken => OfOneMoment(entry, told[o])
    /\ entry.status = "not_in_service" => \E now \in told[o] : now.mark = FALSE

Shape ==
    /\ StoreTyped
    /\ IsRequest(req) /\ IsRead(req.read)
    /\ \A i \in DOMAIN req.results : IsResult(req.results[i])

\* What a single statement would answer now has been told.
ToldNow == Running => \A o \in Objects : AnswerNow(o, rows[o], req) \in req.told[o]

AskedKnown == Running => req.asked \subseteq Objects

\* The entry of an object out of service, and of one not crossmatched yet.
OutEntry(o) == EntryFrom(o, "absent", {}, FALSE, {}, {}, FALSE, "ids")
PendingEntry(o, brokers, tns, detail) ==
    EntryFrom(o, "QUEUED", {}, FALSE, {}, brokers, tns, detail)

\* What was read of o so far, by statements at different times: a row not found,
\* or not crossmatched, determines its entry but for the brokers; of a crossmatched
\* one, what was read is what its row still holds, unless its batch was taken back.
\* Once the brokers are read they were those of a moment, and a crossmatched
\* object's entry was true then.
RowsRead(o) ==
    /\ Crossmatched(o)
    /\ req.pc # "records" =>
          OrNone(req.read.records, o) = IF req.migrated THEN rows[o].records ELSE {}
    /\ req.pc \notin {"records", "matched"} => (o \in req.read.matched <=> rows[o].matches # {})
    /\ req.pc \in {"brokers", "assoc", "build"} /\ req.detail \in {"matches", "full"} =>
          OrNone(req.read.matches, o) = rows[o].matches

ReadRight(o) ==
    LET read == req.read
    IN  /\ o \notin DOMAIN read.alerts =>
              \E now \in req.told[o] : now.entry = OutEntry(o) /\ now.mark = FALSE
        /\ o \in DOMAIN read.alerts =>
              Committed(o) /\ read.alerts[o] \in {"INGESTED", "QUEUED", "MATCHED", "NOTIFIED"}
        /\ o \in DOMAIN read.alerts \ DoneIds =>
              \E now \in req.told[o] : \E brokers :
                  now.entry = PendingEntry(o, brokers, rows[o].tns, req.detail)
        /\ o \in DoneIds \ reverted => RowsRead(o)
        /\ o \in DOMAIN read.alerts /\ req.pc \in {"assoc", "build"} /\ req.detail # "ids" =>
              /\ \E now \in req.told[o] : now.entry.brokers = OrNone(read.brokers, o)
              /\ o \in DoneIds \ reverted =>
                    \E now \in req.told[o] : now.entry = EntryOf(o, rows[o].tns)

ReadsRight ==
    Gathering =>
        /\ DOMAIN req.read.alerts \subseteq req.asked
        /\ \A o \in req.asked : ReadRight(o)
        /\ req.pc = "brokers" => req.detail # "ids"
        /\ req.pc \in {"sources", "assoc"} => req.detail \in {"matches", "full"}
        /\ req.pc = "build" =>
              req.detail \notin {"matches", "full"} \/ DOMAIN req.read.alerts = {}

BuiltRight ==
    req.pc = "built" =>
        \A o \in req.asked : TruthfulIn(o, req.built[o], req.told, reverted)

EntriesRight ==
    Running \/ Answered =>
        \A i \in DOMAIN req.results : \A o \in DOMAIN req.results[i].entries :
            o \in Objects /\ TruthfulIn(o, req.results[i].entries[o], req.told, reverted)

Unmarked == Running => \A i \in DOMAIN req.results : DOMAIN req.results[i].marks = {}

\* A cone lists what it asked for; a lookup lists, group by group, its inputs.
ConeRight ==
    /\ req.pc \in {"page", "total", "whole"} => req.route = "cone"
    /\ req.pc \in {"names", "search"} => req.route # "cone"
    /\ Running /\ req.route = "cone" /\ req.pc # "page" =>
           /\ DOMAIN req.results = {1}
           /\ req.pc # "filter" => req.results[1].ids \subseteq req.asked
           /\ req.pc = "filter" => DOMAIN req.results[1].entries \subseteq req.results[1].ids

ConeAhead == req.pc \in {"names", "search"} \/ req.todo = <<"id", "cone">>

LookupRight ==
    Running /\ req.route # "cone" =>
        /\ req.todo \in {<<>>, <<"id">>, <<"cone">>, <<"id", "cone">>, <<"cone", "id">>}
        /\ req.pc \in {"names", "search"} => req.todo \in {<<"cone">>, <<"cone", "id">>}
        /\ Building => req.todo # <<>>
        /\ DOMAIN req.results = DOMAIN req.inputs
        /\ DOMAIN req.candidates \subseteq ConeInputs(req)
        /\ ConeAhead => DOMAIN req.candidates = {}
        /\ \A i \in IdInputs(req) : req.inputs[i].of \in Objects
        /\ \A i \in ConeInputs(req) \ DOMAIN req.candidates : req.results[i].ids = {}
        /\ \A i \in DOMAIN req.results :
              /\ DOMAIN req.results[i].entries \subseteq req.results[i].ids
              /\ i \in DOMAIN req.candidates => req.results[i].ids \subseteq req.candidates[i]
        /\ Building /\ req.todo \in {<<"id">>, <<"id", "cone">>} =>
              \A i \in IdInputs(req) : req.inputs[i].of \in req.asked
        /\ Building /\ req.todo \in {<<"cone">>, <<"cone", "id">>} =>
              \A i \in ConeInputs(req) : req.results[i].ids \subseteq req.asked

TruthInv ==
    /\ Shape /\ ToldNow /\ AskedKnown /\ ReadsRight /\ BuiltRight /\ EntriesRight
    /\ Unmarked /\ MarkWasTrue /\ ConeRight /\ LookupRight

-----------------------------------------------------------------------------
\* What a commit may change of a row a request has read.
RowMoves(o) ==
    /\ Crossmatched(o) /\ o \notin reverted' =>
          /\ Crossmatched(o)'
          /\ rows'[o].records = rows[o].records
          /\ rows'[o].matches = rows[o].matches
          /\ rows'[o].tns = rows[o].tns
    /\ rows'[o].tns = rows[o].tns \/ rows'[o].status = "QUEUED"
    /\ Committed(o) => Committed(o)'

LEMMA RowMoved ==
    ASSUME StoreTyped, NEW o \in Objects, NEW row,
           rows' = [rows EXCEPT ![o] = row], reverted \subseteq reverted',
           Crossmatched(o) /\ o \notin reverted' =>
               /\ row.status \in {"MATCHED", "NOTIFIED"} /\ row.records = rows[o].records
               /\ row.matches = rows[o].matches /\ row.tns = rows[o].tns,
           row.tns = rows[o].tns \/ row.status = "QUEUED",
           Committed(o) => row.status \notin {"absent", "stamped"}
    PROVE  reverted \subseteq reverted' /\ \A x \in Objects : RowMoves(x)
<1>1. rows'[o] = row /\ \A x \in Objects \ {o} : rows'[x] = rows[x]
    BY DEF StoreTyped
<1> QED BY <1>1 DEF RowMoves, Crossmatched, Committed

LEMMA StoreMoves ==
    ASSUME StoreTyped, StoreStep
    PROVE  reverted \subseteq reverted' /\ \A x \in Objects : RowMoves(x)
<1> DEFINE Goal == reverted \subseteq reverted' /\ \A x \in Objects : RowMoves(x)
<1>1. CASE Tick
    BY <1>1 DEF Tick, RowMoves, Crossmatched, Committed
<1>2. \A o \in Objects : rows[o] \in Rows
    BY DEF StoreTyped
<1>3. ASSUME NEW o \in Objects, Stamp(o) PROVE Goal
    <2> DEFINE row == [[rows[o] EXCEPT !.status = "stamped"] EXCEPT !.ingest = clock]
    <2>1. /\ rows' = [rows EXCEPT ![o] = row] /\ reverted' = reverted /\ ~ Crossmatched(o)
          /\ row.tns = rows[o].tns /\ ~ Committed(o)
        BY <1>2, <1>3 DEF Stamp, Crossmatched, Committed, Rows
    <2> HIDE DEF row
    <2> QED BY <2>1, RowMoved
<1>4. ASSUME NEW o \in Objects, NEW b \in Brokers, RecordDelivery(o, b) PROVE Goal
    <2> DEFINE row == [rows[o] EXCEPT !.brokers = @ \cup {b}]
    <2>1. /\ rows' = [rows EXCEPT ![o] = row] /\ reverted' = reverted
          /\ row.tns = rows[o].tns /\ row.status = rows[o].status
          /\ row.records = rows[o].records /\ row.matches = rows[o].matches
        BY <1>2, <1>4 DEF RecordDelivery, Commit, Rows
    <2> HIDE DEF row
    <2> QED BY <2>1, RowMoved DEF Crossmatched, Committed
<1>5. ASSUME NEW o \in Objects, CommitIngest(o) \/ Queue(o) \/ Notify(o) PROVE Goal
    <2>1. PICK to \in {"INGESTED", "QUEUED", "NOTIFIED"} :
             /\ rows' = [rows EXCEPT ![o] = [rows[o] EXCEPT !.status = to]]
             /\ reverted' = reverted
             /\ Crossmatched(o) => to = "NOTIFIED"
        BY <1>5 DEF CommitIngest, Queue, Notify, Commit, Crossmatched
    <2> DEFINE row == [rows[o] EXCEPT !.status = to]
    <2>2. /\ row.status = to /\ row.tns = rows[o].tns
          /\ row.records = rows[o].records /\ row.matches = rows[o].matches
        BY <1>2 DEF Rows
    <2> HIDE DEF row
    <2> QED BY <2>1, <2>2, RowMoved DEF row
<1>6. ASSUME NEW o \in Objects, Revert(o) PROVE Goal
    <2> DEFINE row == [rows[o] EXCEPT !.status = "INGESTED"]
    <2>1. rows' = [rows EXCEPT ![o] = row]
        BY <1>6 DEF Revert, Commit
    <2>2. reverted \subseteq reverted' /\ (Crossmatched(o) => o \in reverted')
        BY <1>6 DEF Revert
    <2>3. row.tns = rows[o].tns /\ row.status = "INGESTED"
        BY <1>2 DEF Rows
    <2> HIDE DEF row
    <2> QED BY <2>1, <2>2, <2>3, RowMoved
<1>7. ASSUME NEW o \in Objects, SaveTns(o) PROVE Goal
    <2> DEFINE row == [rows[o] EXCEPT !.tns = TRUE]
    <2>1. /\ rows' = [rows EXCEPT ![o] = row] /\ reverted' = reverted /\ ~ Crossmatched(o)
          /\ row.status = "QUEUED"
        BY <1>2, <1>7 DEF SaveTns, Commit, Rows, Crossmatched
    <2> HIDE DEF row
    <2> QED BY <2>1, RowMoved
<1>8. ASSUME NEW o \in Objects, NEW m \in Matches, SaveMatch(o, m) PROVE Goal
    <2> DEFINE row == [rows[o] EXCEPT !.matches = @ \cup {m}]
    <2>1. /\ rows' = [rows EXCEPT ![o] = row] /\ reverted' = reverted /\ ~ Crossmatched(o)
          /\ row.tns = rows[o].tns /\ row.status = "QUEUED"
        BY <1>2, <1>8 DEF SaveMatch, Commit, Rows, Crossmatched
    <2> HIDE DEF row
    <2> QED BY <2>1, RowMoved
<1>9. ASSUME NEW o \in Objects, NEW new, Finish(o, new) PROVE Goal
    <2> DEFINE row == [rows[o] EXCEPT
                         !.status = "MATCHED",
                         !.records = {r \in @ : \A n \in new : r.version # n.version} \cup new]
    <2>1. /\ rows' = [rows EXCEPT ![o] = row] /\ reverted' = reverted /\ ~ Crossmatched(o)
          /\ row.tns = rows[o].tns /\ row.status = "MATCHED"
        BY <1>2, <1>9 DEF Finish, Commit, Rows, Crossmatched
    <2> HIDE DEF row
    <2> QED BY <2>1, RowMoved
<1> QED BY <1>1, <1>3, <1>4, <1>5, <1>6, <1>7, <1>8, <1>9 DEF StoreStep

-----------------------------------------------------------------------------
LEMMA RequestsBegin == IsRequest(FreshRequest) /\ IsRead(NothingRead)
BY DEF IsRequest, RequestFields, FreshRequest, IsRead, NothingRead

LEMMA NowDependsOn ==
    ASSUME NEW o, NEW row, NEW q, NEW r,
           q.migrated = r.migrated, q.detail = r.detail, q.spec = r.spec
    PROVE  AnswerNow(o, row, q) = AnswerNow(o, row, r)
BY DEF AnswerNow

LEMMA OutEntries ==
    ASSUME NEW o, NEW status \in {"absent", "stamped"}, NEW records, NEW matched,
           NEW matches, NEW brokers, NEW tns, NEW detail
    PROVE  EntryFrom(o, status, records, matched, matches, brokers, tns, detail) = OutEntry(o)
<1>1. Sourced({}, records) = {} /\ Sourced({}, {}) = {}
    BY DEF Sourced
<1> QED BY <1>1 DEF EntryFrom, OutEntry, StatusFrom

LEMMA PendingEntries ==
    ASSUME NEW o, NEW status \in {"INGESTED", "QUEUED"}, NEW records, NEW matched,
           NEW matches, NEW brokers, NEW tns, NEW detail
    PROVE  EntryFrom(o, status, records, matched, matches, brokers, tns, detail)
               = PendingEntry(o, brokers, tns, detail)
<1>1. Sourced({}, records) = {} /\ Sourced({}, {}) = {}
    BY DEF Sourced
<1> QED BY <1>1 DEF EntryFrom, PendingEntry, StatusFrom

LEMMA DoneEntries ==
    ASSUME NEW o, NEW status \in {"MATCHED", "NOTIFIED"}, NEW now \in {"MATCHED", "NOTIFIED"},
           NEW records, NEW matched, NEW matches, NEW others, NEW brokers, NEW tns, NEW detail,
           detail \in {"matches", "full"} => matches = others
    PROVE  EntryFrom(o, status, records, matched, matches, brokers, tns, detail)
               = EntryFrom(o, now, records, matched, others, brokers, tns, detail)
<1>1. Listed(o, matches, detail) = Listed(o, others, detail)
    BY DEF Listed
<1> QED BY <1>1 DEF EntryFrom, StatusFrom

LEMMA NotTns ==
    ASSUME NEW o, NEW status, NEW records, NEW matched, NEW matches, NEW brokers,
           NEW tns, NEW other, NEW detail, detail \notin {"matches", "full"}
    PROVE  EntryFrom(o, status, records, matched, matches, brokers, tns, detail)
               = EntryFrom(o, status, records, matched, matches, brokers, other, detail)
BY DEF EntryFrom

LEMMA NotBrokers ==
    ASSUME NEW o, NEW status, NEW records, NEW matched, NEW matches, NEW brokers,
           NEW others, NEW tns
    PROVE  EntryFrom(o, status, records, matched, matches, brokers, tns, "ids")
               = EntryFrom(o, status, records, matched, matches, others, tns, "ids")
BY DEF EntryFrom

LEMMA StatusOfEntry ==
    ASSUME NEW o, NEW status \in Status \ {"absent", "stamped"}, NEW records, NEW matched,
           NEW matches, NEW brokers, NEW tns, NEW detail
    PROVE  LET entry == EntryFrom(o, status, records, matched, matches, brokers, tns, detail)
           IN  /\ entry.status # "not_in_service"
               /\ entry.brokers = IF detail = "ids" THEN {} ELSE brokers
BY DEF EntryFrom, StatusFrom

\* Entries that differ in the brokers they were made from differ in nothing else.
LEMMA BrokersApart ==
    ASSUME NEW o, NEW status, NEW records, NEW matched, NEW matches, NEW brokers,
           NEW others, NEW tns, NEW detail
    PROVE  LET entry == EntryFrom(o, status, records, matched, matches, brokers, tns, detail)
               now == EntryFrom(o, status, records, matched, matches, others, tns, detail)
           IN  [now EXCEPT !.brokers = entry.brokers] = entry
BY DEF EntryFrom

LEMMA PendingApart ==
    ASSUME NEW o, NEW brokers, NEW others, NEW tns, NEW detail
    PROVE  [PendingEntry(o, others, tns, detail)
              EXCEPT !.brokers = PendingEntry(o, brokers, tns, detail).brokers]
               = PendingEntry(o, brokers, tns, detail)
<1>1. PICK associated : associated = (tns /\ detail \in {"matches", "full"})
    OBVIOUS
<1>2. \A given : PendingEntry(o, given, tns, detail)
                   = [status |-> "crossmatch_pending", outcomes |-> {}, matches |-> {},
                      sourced |-> Sourced({}, {}),
                      brokers |-> IF detail # "ids" THEN given ELSE {}, tns |-> associated]
    BY <1>1 DEF PendingEntry, EntryFrom, StatusFrom
<1> QED BY <1>2

LEMMA WholeEntries ==
    ASSUME NEW o, NEW status, NEW records, NEW matched, NEW matches, NEW brokers, NEW tns,
           NEW detail, NEW told, NEW entry,
           entry = EntryFrom(o, status, records, matched, matches, brokers, tns, detail),
           \E now \in told : now.entry = entry
    PROVE  OfOneMoment(entry, told)
<1>1. [entry EXCEPT !.brokers = entry.brokers] = entry
    BY BrokersApart
<1> QED BY <1>1 DEF OfOneMoment

-----------------------------------------------------------------------------
\* What is true of an entry stays so while the answers that are told grow.
LEMMA TruthStays ==
    ASSUME NEW o, NEW entry, NEW told, NEW more, NEW taken, NEW wider,
           TruthfulIn(o, entry, told, taken), told[o] \subseteq more[o], taken \subseteq wider
    PROVE  TruthfulIn(o, entry, more, wider)
BY DEF TruthfulIn, OfOneMoment

LEMMA TruthBegins == Init => TruthInv
<1> SUFFICES ASSUME Init PROVE TruthInv
    OBVIOUS
<1>1. StoreTyped
    BY ConstantsTyped DEF Init, WalkInit, InitStore, StoreTyped
<1>2. /\ req = FreshRequest /\ req.pc = "start" /\ req.results = <<>> /\ req.read = NothingRead
    BY DEF Init, FreshRequest
<1>3. DOMAIN req.results = {}
    BY <1>2
<1>4. Shape
    BY <1>1, <1>2, <1>3, RequestsBegin DEF Shape
<1> QED BY <1>2, <1>4
        DEF TruthInv, ToldNow, AskedKnown, ReadsRight, Gathering, BuiltRight, EntriesRight, Unmarked,
            MarkWasTrue, ConeRight, LookupRight, Running, Gathering, Answered

\* A commit while the request runs: what it answers now is told.
LEMMA CommitsAreTold ==
    ASSUME TruthInv, StoreStepSeen PROVE TruthInv'
<1>1. StoreTyped /\ StoreStep /\ IsRequest(req) /\ IsRead(req.read)
    BY DEF TruthInv, Shape, StoreStepSeen
<1>2. StoreTyped' /\ reverted \subseteq reverted' /\ \A o \in Objects : RowMoves(o)
    BY <1>1, StoreGoesOn, StoreMoves
<1>3. CASE ~ Running
    <2>1. req' = req
        BY <1>3 DEF StoreStepSeen, Running
    <2>2. Shape'
        BY <1>2, <2>1 DEF TruthInv, Shape
    <2>3. EntriesRight'
        BY <1>2, <1>3, <2>1, TruthStays DEF TruthInv, EntriesRight, Running, Answered
    <2>4. MarkWasTrue'
        BY <2>1 DEF TruthInv, MarkWasTrue, Answered
    <2> QED BY <1>3, <2>1, <2>2, <2>3, <2>4
            DEF TruthInv, ToldNow, AskedKnown, ReadsRight, Gathering, BuiltRight, Unmarked, ConeRight,
                LookupRight, Running, Gathering
<1>4. CASE Running
    <2> DEFINE told == [o \in Objects |-> req.told[o] \cup {AnswerNow(o, rows'[o], req)}]
    <2>1. req' = [req EXCEPT !.told = told]
        BY <1>4 DEF StoreStepSeen, Running
    <2>2. /\ \A o \in Objects : req.told[o] \subseteq told[o] /\ AnswerNow(o, rows'[o], req) \in told[o]
        OBVIOUS
    <2> HIDE DEF told
    <2>3. /\ IsRequest(req') /\ req'.told = told
          /\ req'.pc = req.pc /\ req'.route = req.route /\ req'.detail = req.detail
          /\ req'.spec = req.spec /\ req'.migrated = req.migrated /\ req'.inputs = req.inputs
          /\ req'.todo = req.todo /\ req'.asked = req.asked /\ req'.read = req.read
          /\ req'.built = req.built /\ req'.results = req.results
          /\ req'.candidates = req.candidates
        BY <1>1, <2>1 DEF IsRequest, RequestFields
    <2>4. Shape' /\ AskedKnown' /\ Unmarked' /\ ConeRight'
        BY <1>2, <2>3 DEF TruthInv, Shape, AskedKnown, Unmarked, ConeRight, Running
    <2>5. ToldNow'
        BY <2>2, <2>3, NowDependsOn DEF ToldNow
    <2>6. ReadsRight'
        <3> SUFFICES ASSUME Gathering, NEW o \in req.asked
                     PROVE  ReadRight(o)'
            BY <2>3 DEF TruthInv, ReadsRight, Gathering
        <3>1. o \in Objects /\ ReadRight(o)
            BY <1>4 DEF TruthInv, AskedKnown, ReadsRight, Gathering
        <3>2. DoneIds' = DoneIds
            BY <2>3 DEF DoneIds
        <3>3. ASSUME o \in DOMAIN req.read.alerts \ DoneIds
              PROVE  \E now \in told[o] : \E brokers :
                         now.entry = PendingEntry(o, brokers, rows'[o].tns, req.detail)
            <4>1. CASE rows'[o].tns = rows[o].tns
                BY <2>2, <3>1, <3>3, <4>1 DEF ReadRight
            <4>2. CASE rows'[o].status = "QUEUED"
                <5>1. AnswerNow(o, rows'[o], req).entry
                         = PendingEntry(o, rows'[o].brokers, rows'[o].tns, req.detail)
                    BY <4>2, PendingEntries DEF AnswerNow
                <5> QED BY <2>2, <3>1, <5>1
            <4> QED BY <1>2, <3>1, <4>1, <4>2 DEF RowMoves
        <3>4. ASSUME o \in DoneIds \ reverted'
              PROVE  RowsRead(o)'
            BY <1>2, <2>3, <3>1, <3>4 DEF ReadRight, RowsRead, RowMoves, OrNone
        <3>5. ASSUME o \notin DOMAIN req.read.alerts
              PROVE  \E now \in told[o] : now.entry = OutEntry(o) /\ now.mark = FALSE
            BY <2>2, <3>1, <3>5 DEF ReadRight
        <3>6. o \in DOMAIN req.read.alerts =>
                 /\ Committed(o)'
                 /\ req.read.alerts[o] \in {"INGESTED", "QUEUED", "MATCHED", "NOTIFIED"}
            BY <1>2, <3>1 DEF ReadRight, RowMoves
        <3>7. ASSUME o \in DOMAIN req.read.alerts, req.pc \in {"assoc", "build"},
                     req.detail # "ids"
              PROVE  /\ \E now \in told[o] : now.entry.brokers = OrNone(req.read.brokers, o)
                     /\ o \in DoneIds \ reverted' =>
                           \E now \in told[o] : now.entry = EntryOf(o, rows'[o].tns)
            <4>1. \E now \in told[o] : now.entry.brokers = OrNone(req.read.brokers, o)
                BY <2>2, <3>1, <3>7 DEF ReadRight
            <4>2. ASSUME o \in DoneIds \ reverted'
                  PROVE  \E now \in told[o] : now.entry = EntryOf(o, rows'[o].tns)
                <5>1. rows'[o].tns = rows[o].tns
                    BY <1>2, <3>1, <4>2 DEF ReadRight, RowsRead, RowMoves
                <5>2. \E now \in req.told[o] : now.entry = EntryOf(o, rows[o].tns)
                    BY <1>2, <3>1, <3>7, <4>2 DEF ReadRight
                <5> QED BY <2>2, <3>1, <5>1, <5>2
            <4> QED BY <4>1, <4>2
        <3>8. \A tns : EntryOf(o, tns)' = EntryOf(o, tns)
            BY <2>3 DEF EntryOf, OrNone
        <3> QED BY <2>3, <3>2, <3>3, <3>4, <3>5, <3>6, <3>7, <3>8 DEF ReadRight, OrNone
    <2>7. BuiltRight'
        <3> SUFFICES ASSUME req.pc = "built", NEW o \in req.asked
                     PROVE  TruthfulIn(o, req.built[o], told, reverted')
            BY <2>3 DEF BuiltRight
        <3>1. o \in Objects /\ TruthfulIn(o, req.built[o], req.told, reverted)
            BY <1>4 DEF TruthInv, AskedKnown, BuiltRight
        <3> QED BY <1>2, <2>2, <3>1, TruthStays
    <2>8. EntriesRight'
        <3> SUFFICES ASSUME NEW i \in DOMAIN req.results, NEW o \in DOMAIN req.results[i].entries
                     PROVE  o \in Objects
                            /\ TruthfulIn(o, req.results[i].entries[o], told, reverted')
            BY <2>3 DEF EntriesRight
        <3>1. o \in Objects /\ TruthfulIn(o, req.results[i].entries[o], req.told, reverted)
            BY <1>4 DEF TruthInv, EntriesRight
        <3> QED BY <1>2, <2>2, <3>1, TruthStays
    <2>9. MarkWasTrue'
        BY <1>4, <2>3 DEF MarkWasTrue, Answered, Running
    <2>10. LookupRight'
        <3>1. IdInputs(req') = IdInputs(req) /\ ConeInputs(req') = ConeInputs(req)
            BY <2>3 DEF IdInputs, ConeInputs, ValidOf
        <3>2. Building' = Building /\ ConeAhead' = ConeAhead /\ Running'
            BY <1>4, <2>3 DEF Building, Gathering, ConeAhead, Running
        <3> QED BY <1>4, <2>3, <3>1, <3>2 DEF TruthInv, LookupRight
    <2> QED BY <2>4, <2>5, <2>6, <2>7, <2>8, <2>9, <2>10 DEF TruthInv
<1> QED BY <1>3, <1>4

-----------------------------------------------------------------------------
\* The statements of build_objects change only what was read and built.
StillBuilding ==
    /\ UNCHANGED <<rows, clock, reverted>>
    /\ Building /\ Building' /\ IsRequest(req)'
    /\ req'.route = req.route /\ req'.detail = req.detail /\ req'.spec = req.spec
    /\ req'.migrated = req.migrated /\ req'.inputs = req.inputs /\ req'.todo = req.todo
    /\ req'.asked = req.asked /\ req'.results = req.results
    /\ req'.candidates = req.candidates /\ req'.told = req.told

LEMMA BuildFrame ==
    ASSUME TruthInv, StillBuilding
    PROVE  /\ StoreTyped' /\ \A i \in DOMAIN req'.results : IsResult(req'.results[i])
           /\ ToldNow' /\ AskedKnown' /\ EntriesRight' /\ Unmarked' /\ MarkWasTrue'
           /\ ConeRight' /\ LookupRight'
<1>1. Running /\ Running' /\ ~ Answered' /\ req.pc \notin {"names", "search", "page", "filter"}
      /\ req'.pc \notin {"names", "search", "page", "total", "whole", "filter"}
    BY DEF StillBuilding, Building, Gathering, Running, Answered
<1>2. StoreTyped' /\ \A i \in DOMAIN req'.results : IsResult(req'.results[i])
    BY DEF TruthInv, Shape, StoreTyped, StillBuilding
<1>3. ToldNow'
    BY <1>1, NowDependsOn DEF TruthInv, ToldNow, StillBuilding
<1>4. AskedKnown' /\ EntriesRight' /\ Unmarked'
    BY <1>1 DEF TruthInv, AskedKnown, EntriesRight, Unmarked, StillBuilding
<1>5. MarkWasTrue'
    BY <1>1 DEF MarkWasTrue
<1>6. ConeRight'
    BY <1>1 DEF TruthInv, ConeRight, StillBuilding
<1>7. LookupRight'
    <2>1. IdInputs(req') = IdInputs(req) /\ ConeInputs(req') = ConeInputs(req)
        BY DEF IdInputs, ConeInputs, ValidOf, StillBuilding
    <2>2. ConeAhead' = ConeAhead
        BY <1>1 DEF ConeAhead, StillBuilding
    <2> QED BY <1>1, <2>1, <2>2 DEF TruthInv, LookupRight, StillBuilding
<1> QED BY <1>2, <1>3, <1>4, <1>5, <1>6, <1>7

LEMMA AlertsKeepTruth ==
    ASSUME TruthInv, ReadAlerts PROVE TruthInv'
<1> DEFINE found == {o \in req.asked : Committed(o)}
           alerts == [o \in found |-> rows[o].status]
<1>1. IsRequest(req) /\ IsRead(req.read) /\ req.pc = "alerts" /\ StoreTyped
      /\ UNCHANGED <<rows, clock, reverted>>
    BY DEF TruthInv, Shape, ReadAlerts, storeVars
<1>2. PICK pc \in {"records", "brokers", "build"} :
         /\ req' = [req EXCEPT !.read.alerts = alerts, !.pc = pc]
         /\ pc # "records" => \A o \in found : ~ Crossmatched(o)
         /\ pc = "brokers" => req.detail # "ids"
         /\ pc = "build" => req.detail = "ids" \/ found = {}
    BY DEF ReadAlerts
<1>3. IsRequest(req') /\ IsRead(req'.read) /\ req'.pc = pc /\ req'.read.alerts = alerts
    BY <1>1, <1>2 DEF IsRequest, RequestFields, IsRead
<1>4. StillBuilding
    BY <1>1, <1>2, <1>3 DEF IsRequest, RequestFields, StillBuilding, Building, Gathering
<1>5. Shape'
    BY <1>3, <1>4, BuildFrame DEF Shape
<1>6. req.asked \subseteq Objects /\ \A o \in Objects : AnswerNow(o, rows[o], req) \in req.told[o]
    BY <1>1 DEF TruthInv, AskedKnown, ToldNow, Running
<1>7. DOMAIN alerts = found /\ \A o \in found : alerts[o] = rows[o].status
    OBVIOUS
<1> HIDE DEF alerts
<1>8. ReadsRight'
    <2> SUFFICES ASSUME NEW o \in req.asked PROVE ReadRight(o)'
        BY <1>2, <1>3, <1>4, <1>7 DEF ReadsRight, StillBuilding, Gathering
    <2>1. o \in Objects /\ AnswerNow(o, rows[o], req) \in req.told[o]
        BY <1>6
    <2>2. ASSUME o \notin found
          PROVE  \E now \in req.told[o] : now.entry = OutEntry(o) /\ now.mark = FALSE
        <3>1. rows[o].status \in {"absent", "stamped"}
            BY <2>2 DEF Committed
        <3>2. AnswerNow(o, rows[o], req).entry = OutEntry(o)
            BY <3>1, OutEntries DEF AnswerNow
        <3>3. AnswerNow(o, rows[o], req).mark = FALSE
            BY <3>1 DEF AnswerNow, InService
        <3> QED BY <2>1, <3>2, <3>3
    <2>3. ASSUME o \in found
          PROVE  Committed(o) /\ rows[o].status \in {"INGESTED", "QUEUED", "MATCHED", "NOTIFIED"}
        BY <1>1, <2>1, <2>3 DEF StoreTyped, Rows, Status, Committed
    <2>4. DoneIds' = {x \in found : Crossmatched(x)}
        BY <1>3, <1>7 DEF DoneIds, Crossmatched
    <2>5. ASSUME o \in found, ~ Crossmatched(o)
          PROVE  \E now \in req.told[o] : \E brokers :
                     now.entry = PendingEntry(o, brokers, rows[o].tns, req.detail)
        <3>1. rows[o].status \in {"INGESTED", "QUEUED"}
            BY <2>3, <2>5 DEF Crossmatched
        <3>2. AnswerNow(o, rows[o], req).entry
                 = PendingEntry(o, rows[o].brokers, rows[o].tns, req.detail)
            BY <3>1, PendingEntries DEF AnswerNow
        <3> QED BY <2>1, <3>2
    <2>6. o \in DoneIds' => Crossmatched(o)' /\ req'.pc = "records"
        BY <1>2, <1>3, <1>4, <2>4 DEF StillBuilding, Crossmatched
    <2>7. ~ (o \in found /\ pc \in {"assoc", "build"} /\ req.detail # "ids")
        BY <1>2
    <2>8. o \in DoneIds' => RowsRead(o)'
        BY <2>6 DEF RowsRead
    <2>9. Committed(o)' = Committed(o)
        BY <1>4 DEF StillBuilding, Committed
    <2>10. /\ req'.told = req.told /\ req'.detail = req.detail /\ rows' = rows
           /\ DOMAIN req'.read.alerts = found /\ req'.pc = pc
        BY <1>3, <1>4, <1>7 DEF StillBuilding
    <2>11. o \in found => req'.read.alerts[o] \in {"INGESTED", "QUEUED", "MATCHED", "NOTIFIED"}
        BY <1>3, <1>7, <2>3
    <2>12. o \in found \ DoneIds' =>
              \E now \in req'.told[o] : \E brokers :
                  now.entry = PendingEntry(o, brokers, rows'[o].tns, req'.detail)
        BY <2>4, <2>5, <2>10
    <2> QED BY <2>2, <2>3, <2>7, <2>8, <2>9, <2>10, <2>11, <2>12 DEF ReadRight
<1>9. BuiltRight'
    BY <1>2, <1>3 DEF BuiltRight
<1> QED BY <1>4, <1>5, <1>8, <1>9, BuildFrame DEF TruthInv

LEMMA RecordsKeepTruth ==
    ASSUME TruthInv, ReadRecords PROVE TruthInv'
<1> DEFINE records == [o \in DoneIds |-> IF req.migrated THEN rows[o].records ELSE {}]
<1>1. IsRequest(req) /\ IsRead(req.read) /\ req.pc = "records"
      /\ UNCHANGED <<rows, clock, reverted>>
    BY DEF TruthInv, Shape, ReadRecords, storeVars
<1>2. req' = [req EXCEPT !.read.records = records, !.pc = "matched"]
    BY DEF ReadRecords
<1>3. DOMAIN records = DoneIds
      /\ \A o \in DoneIds : records[o] = IF req.migrated THEN rows[o].records ELSE {}
    OBVIOUS
<1> HIDE DEF records
<1>4. /\ IsRequest(req') /\ IsRead(req'.read) /\ req'.pc = "matched"
      /\ req'.read.alerts = req.read.alerts /\ req'.read.records = records
    BY <1>1, <1>2 DEF IsRequest, RequestFields, IsRead
<1>5. StillBuilding
    BY <1>1, <1>2, <1>4 DEF IsRequest, RequestFields, StillBuilding, Building, Gathering
<1>6. Shape'
    BY <1>4, <1>5, BuildFrame DEF Shape
<1>7. ReadsRight'
    <2> SUFFICES ASSUME NEW o \in req.asked PROVE ReadRight(o)'
        BY <1>1, <1>4, <1>5 DEF TruthInv, ReadsRight, StillBuilding, Gathering
    <2>1. ReadRight(o) /\ DoneIds' = DoneIds
        BY <1>1, <1>4 DEF TruthInv, ReadsRight, Gathering, DoneIds
    <2>2. o \in DoneIds =>
             OrNone(req'.read.records, o) = IF req.migrated THEN rows[o].records ELSE {}
        BY <1>3, <1>4 DEF OrNone
    <2> QED BY <1>1, <1>4, <1>5, <2>1, <2>2
            DEF ReadRight, RowsRead, StillBuilding, Crossmatched, Committed
<1>8. BuiltRight'
    BY <1>4 DEF BuiltRight
<1> QED BY <1>5, <1>6, <1>7, <1>8, BuildFrame DEF TruthInv

LEMMA MatchedKeepsTruth ==
    ASSUME TruthInv, ReadMatched PROVE TruthInv'
<1> DEFINE matched == {o \in DoneIds : rows[o].matches # {}}
<1>1. IsRequest(req) /\ IsRead(req.read) /\ req.pc = "matched"
      /\ UNCHANGED <<rows, clock, reverted>>
    BY DEF TruthInv, Shape, ReadMatched, storeVars
<1>2. PICK pc \in {"sources", "brokers", "build"} :
         /\ req' = [req EXCEPT !.read.matched = matched, !.pc = pc]
         /\ pc = "sources" <=> req.detail \in {"matches", "full"}
         /\ pc = "brokers" => req.detail # "ids"
         /\ pc = "build" => req.detail = "ids"
    BY DEF ReadMatched
<1>3. \A o \in DoneIds : o \in matched <=> rows[o].matches # {}
    OBVIOUS
<1> HIDE DEF matched
<1>4. /\ IsRequest(req') /\ IsRead(req'.read) /\ req'.pc = pc
      /\ req'.read.alerts = req.read.alerts /\ req'.read.records = req.read.records
      /\ req'.read.matched = matched
    BY <1>1, <1>2 DEF IsRequest, RequestFields, IsRead
<1>5. StillBuilding
    BY <1>1, <1>2, <1>4 DEF IsRequest, RequestFields, StillBuilding, Building, Gathering
<1>6. Shape'
    BY <1>4, <1>5, BuildFrame DEF Shape
<1>7. ReadsRight'
    <2> SUFFICES ASSUME NEW o \in req.asked PROVE ReadRight(o)'
        BY <1>1, <1>2, <1>4, <1>5 DEF TruthInv, ReadsRight, StillBuilding, Gathering
    <2>1. ReadRight(o) /\ DoneIds' = DoneIds
        BY <1>1, <1>4 DEF TruthInv, ReadsRight, Gathering, DoneIds
    <2>2. o \in DoneIds => (o \in req'.read.matched <=> rows[o].matches # {})
        BY <1>3, <1>4
    <2>3. req'.pc \in {"brokers", "build"} => req.detail \notin {"matches", "full"}
        BY <1>2, <1>4
    <2>4. ~ (req'.pc \in {"assoc", "build"} /\ req.detail # "ids")
        BY <1>2, <1>4
    <2> QED BY <1>1, <1>4, <1>5, <2>1, <2>2, <2>3, <2>4
            DEF ReadRight, RowsRead, StillBuilding, Crossmatched, Committed
<1>8. BuiltRight'
    BY <1>2, <1>4 DEF BuiltRight
<1> QED BY <1>5, <1>6, <1>7, <1>8, BuildFrame DEF TruthInv

LEMMA MatchesKeepTruth ==
    ASSUME TruthInv, ReadMatches PROVE TruthInv'
<1> DEFINE matches == [o \in DoneIds |-> rows[o].matches]
<1>1. IsRequest(req) /\ IsRead(req.read) /\ req.pc = "sources"
      /\ req.detail \in {"matches", "full"} /\ UNCHANGED <<rows, clock, reverted>>
    BY DEF TruthInv, Shape, ReadsRight, Gathering, ReadMatches, storeVars
<1>2. req' = [req EXCEPT !.read.matches = matches, !.pc = "brokers"]
    BY DEF ReadMatches
<1>3. DOMAIN matches = DoneIds /\ \A o \in DoneIds : matches[o] = rows[o].matches
    OBVIOUS
<1> HIDE DEF matches
<1>4. /\ IsRequest(req') /\ IsRead(req'.read) /\ req'.pc = "brokers"
      /\ req'.read.alerts = req.read.alerts /\ req'.read.records = req.read.records
      /\ req'.read.matched = req.read.matched /\ req'.read.matches = matches
    BY <1>1, <1>2 DEF IsRequest, RequestFields, IsRead
<1>5. StillBuilding
    BY <1>1, <1>2, <1>4 DEF IsRequest, RequestFields, StillBuilding, Building, Gathering
<1>6. Shape'
    BY <1>4, <1>5, BuildFrame DEF Shape
<1>7. ReadsRight'
    <2> SUFFICES ASSUME NEW o \in req.asked PROVE ReadRight(o)'
        BY <1>1, <1>4, <1>5 DEF TruthInv, ReadsRight, StillBuilding, Gathering
    <2>1. ReadRight(o) /\ DoneIds' = DoneIds
        BY <1>1, <1>4 DEF TruthInv, ReadsRight, Gathering, DoneIds
    <2>2. o \in DoneIds => OrNone(req'.read.matches, o) = rows[o].matches
        BY <1>3, <1>4 DEF OrNone
    <2> QED BY <1>1, <1>4, <1>5, <2>1, <2>2
            DEF ReadRight, RowsRead, StillBuilding, Crossmatched, Committed
<1>8. BuiltRight'
    BY <1>4 DEF BuiltRight
<1> QED BY <1>5, <1>6, <1>7, <1>8, BuildFrame DEF TruthInv

\* What was read of a crossmatched object, with the brokers it has now and its
\* association, is what a single statement would answer now.
LEMMA WholeNow ==
    ASSUME TruthInv, Gathering, req.pc \in {"brokers", "assoc", "build"},
           NEW o \in req.asked, o \in DoneIds \ reverted,
           NEW brokers, req.detail = "ids" \/ brokers = rows[o].brokers
    PROVE  LET read == req.read
           IN  /\ o \in DOMAIN read.alerts
               /\ AnswerNow(o, rows[o], req).entry
                     = EntryFrom(o, read.alerts[o], OrNone(read.records, o), o \in read.matched,
                                 OrNone(read.matches, o), brokers, rows[o].tns, req.detail)
<1> DEFINE status == req.read.alerts[o]
           records == OrNone(req.read.records, o)
           matched == o \in req.read.matched
           matches == OrNone(req.read.matches, o)
<1>1. ReadRight(o)
    BY DEF TruthInv, ReadsRight, Gathering
<1>2. /\ o \in DOMAIN req.read.alerts /\ status \in {"MATCHED", "NOTIFIED"}
      /\ rows[o].status \in {"MATCHED", "NOTIFIED"}
    BY <1>1 DEF ReadRight, RowsRead, DoneIds, Crossmatched
<1>3. /\ records = IF req.migrated THEN rows[o].records ELSE {}
      /\ matched = (rows[o].matches # {})
      /\ req.detail \in {"matches", "full"} => matches = rows[o].matches
    BY <1>1 DEF ReadRight, RowsRead
<1>4. AnswerNow(o, rows[o], req).entry
         = EntryFrom(o, rows[o].status, records, matched, rows[o].matches, rows[o].brokers,
                     rows[o].tns, req.detail)
    BY <1>3 DEF AnswerNow
<1> HIDE DEF status, records, matched, matches
<1>5. EntryFrom(o, rows[o].status, records, matched, rows[o].matches, rows[o].brokers,
                rows[o].tns, req.detail)
         = EntryFrom(o, status, records, matched, matches, rows[o].brokers, rows[o].tns,
                     req.detail)
    BY <1>2, <1>3, DoneEntries
<1>6. EntryFrom(o, status, records, matched, matches, rows[o].brokers, rows[o].tns, req.detail)
         = EntryFrom(o, status, records, matched, matches, brokers, rows[o].tns, req.detail)
    BY NotBrokers
<1> QED BY <1>2, <1>4, <1>5, <1>6 DEF status, records, matched, matches

LEMMA BrokersKeepTruth ==
    ASSUME TruthInv, ReadBrokers PROVE TruthInv'
<1> DEFINE brokers == [o \in DOMAIN req.read.alerts |-> rows[o].brokers]
<1>1. IsRequest(req) /\ IsRead(req.read) /\ req.pc = "brokers" /\ Gathering
      /\ req.detail # "ids" /\ UNCHANGED <<rows, clock, reverted>>
    BY DEF TruthInv, Shape, ReadsRight, Gathering, ReadBrokers, storeVars
<1>2. PICK pc \in {"assoc", "build"} :
         /\ req' = [req EXCEPT !.read.brokers = brokers, !.pc = pc]
         /\ pc = "assoc" <=> req.detail \in {"matches", "full"}
    BY DEF ReadBrokers
<1>3. DOMAIN brokers = DOMAIN req.read.alerts
      /\ \A o \in DOMAIN req.read.alerts : brokers[o] = rows[o].brokers
    OBVIOUS
<1> HIDE DEF brokers
<1>4. /\ IsRequest(req') /\ IsRead(req'.read) /\ req'.pc = pc
      /\ req'.read.alerts = req.read.alerts /\ req'.read.records = req.read.records
      /\ req'.read.matched = req.read.matched /\ req'.read.matches = req.read.matches
      /\ req'.read.brokers = brokers
    BY <1>1, <1>2 DEF IsRequest, RequestFields, IsRead
<1>5. StillBuilding
    BY <1>1, <1>2, <1>4 DEF IsRequest, RequestFields, StillBuilding, Building, Gathering
<1>6. Shape'
    BY <1>4, <1>5, BuildFrame DEF Shape
<1>7. ReadsRight'
    <2> SUFFICES ASSUME NEW o \in req.asked PROVE ReadRight(o)'
        BY <1>1, <1>2, <1>4, <1>5 DEF TruthInv, ReadsRight, StillBuilding, Gathering
    <2>1. ReadRight(o) /\ DoneIds' = DoneIds /\ o \in Objects
        BY <1>1, <1>4 DEF TruthInv, ReadsRight, AskedKnown, Running, Gathering, DoneIds
    <2>2. AnswerNow(o, rows[o], req) \in req.told[o]
        BY <1>1, <2>1 DEF TruthInv, ToldNow, Running
    <2>3. ASSUME o \in DOMAIN req.read.alerts
          PROVE  \E now \in req.told[o] : now.entry.brokers = OrNone(brokers, o)
        <3>1. OrNone(brokers, o) = rows[o].brokers
            BY <1>3, <2>3 DEF OrNone
        <3>2. ASSUME rows[o].status \notin {"absent", "stamped"}
              PROVE  AnswerNow(o, rows[o], req).entry.brokers = rows[o].brokers
            BY <1>1, <3>2 DEF AnswerNow, EntryFrom
        <3> QED BY <2>1, <2>2, <2>3, <3>1, <3>2 DEF ReadRight, Committed
    <2>4. ASSUME o \in DoneIds \ reverted
          PROVE  \E now \in req.told[o] : now.entry = EntryOf(o, rows[o].tns)'
        <3>1. /\ o \in DOMAIN req.read.alerts
              /\ AnswerNow(o, rows[o], req).entry
                    = EntryFrom(o, req.read.alerts[o], OrNone(req.read.records, o),
                                o \in req.read.matched, OrNone(req.read.matches, o),
                                rows[o].brokers, rows[o].tns, req.detail)
            BY <1>1, <2>4, WholeNow
        <3>2. EntryOf(o, rows[o].tns)' = AnswerNow(o, rows[o], req).entry
            BY <1>3, <1>4, <1>5, <3>1 DEF EntryOf, OrNone, StillBuilding
        <3> QED BY <2>2, <3>2
    <2> QED BY <1>1, <1>4, <1>5, <2>1, <2>3, <2>4
            DEF ReadRight, RowsRead, StillBuilding, Crossmatched, Committed
<1>8. BuiltRight'
    BY <1>2, <1>4 DEF BuiltRight
<1> QED BY <1>5, <1>6, <1>7, <1>8, BuildFrame DEF TruthInv

\* The entry put together from the statements is one of those told, but that the
\* brokers of a pending one may be those of another moment.
LEMMA EntriesAreTold ==
    ASSUME TruthInv, req.pc \in {"assoc", "build"}, NEW o \in req.asked
    PROVE  TruthfulIn(o, EntryOf(o, req.pc = "assoc" /\ rows[o].tns), req.told, reverted)
<1> DEFINE read == req.read
           tns == req.pc = "assoc" /\ rows[o].tns
           records == OrNone(read.records, o)
           matches == OrNone(read.matches, o)
           brokers == OrNone(read.brokers, o)
           matched == o \in read.matched
<1>1. ReadRight(o) /\ o \in Objects /\ Gathering
    BY DEF TruthInv, ReadsRight, AskedKnown, Running, Gathering
<1>2. AnswerNow(o, rows[o], req) \in req.told[o]
    BY <1>1 DEF TruthInv, ToldNow, Running
<1>3. CASE o \notin DOMAIN read.alerts
    <2>1. EntryOf(o, tns) = OutEntry(o)
        BY <1>3, OutEntries DEF EntryOf
    <2>2. \E now \in req.told[o] : now.entry = OutEntry(o) /\ now.mark = FALSE
        BY <1>1, <1>3 DEF ReadRight
    <2>3. OfOneMoment(OutEntry(o), req.told[o])
        BY <2>2, WholeEntries DEF OutEntry
    <2> QED BY <2>1, <2>2, <2>3 DEF TruthfulIn
<1>4. CASE o \in DOMAIN read.alerts
    <2> DEFINE status == read.alerts[o]
    <2>1. status \in {"INGESTED", "QUEUED", "MATCHED", "NOTIFIED"}
        BY <1>1, <1>4 DEF ReadRight
    <2>2. EntryOf(o, tns) = EntryOf(o, rows[o].tns)
        <3>1. CASE req.pc = "build"
            <4>1. req.detail \notin {"matches", "full"}
                BY <1>4, <3>1 DEF TruthInv, ReadsRight, Gathering
            <4> QED BY <4>1, NotTns DEF EntryOf
        <3>2. CASE req.pc = "assoc"
            <4>1. rows[o].tns \in BOOLEAN
                BY <1>1 DEF TruthInv, Shape, StoreTyped, Rows
            <4>2. tns = rows[o].tns
                BY <3>2, <4>1
            <4> QED BY <4>2
        <3> QED BY <3>1, <3>2
    <2>3. EntryOf(o, rows[o].tns) = EntryFrom(o, status, records, matched, matches, brokers,
                                              rows[o].tns, req.detail)
        BY <1>4 DEF EntryOf
    <2> DEFINE entry == EntryOf(o, rows[o].tns)
    <2> HIDE DEF records, matches, brokers, matched, status
    <2>4. /\ entry.status # "not_in_service"
          /\ entry.brokers = IF req.detail = "ids" THEN {} ELSE brokers
        BY <2>1, <2>3, StatusOfEntry DEF Status
    <2>5. ASSUME o \notin reverted, o \in DoneIds PROVE OfOneMoment(entry, req.told[o])
        <3>1. \E now \in req.told[o] : now.entry = entry
            <4>1. CASE req.detail = "ids"
                BY <1>1, <1>2, <2>3, <2>5, <4>1, WholeNow
                    DEF records, matches, brokers, matched, status
            <4>2. CASE req.detail # "ids"
                BY <1>1, <1>4, <2>5, <4>2 DEF ReadRight
            <4> QED BY <4>1, <4>2
        <3> QED BY <2>3, <3>1, WholeEntries
    <2>6. ASSUME o \notin DoneIds PROVE OfOneMoment(entry, req.told[o])
        <3>1. status \in {"INGESTED", "QUEUED"}
            BY <1>4, <2>1, <2>6 DEF DoneIds, status
        <3>2. entry = PendingEntry(o, brokers, rows[o].tns, req.detail)
            BY <2>3, <3>1, PendingEntries
        <3>3. PICK now \in req.told[o] : \E others :
                 now.entry = PendingEntry(o, others, rows[o].tns, req.detail)
            BY <1>1, <1>4, <2>6 DEF ReadRight
        <3>4. entry.status = "crossmatch_pending"
            BY <3>2 DEF PendingEntry, EntryFrom, StatusFrom
        <3>5. [now.entry EXCEPT !.brokers = entry.brokers] = entry
            <4>1. PICK others : now.entry = PendingEntry(o, others, rows[o].tns, req.detail)
                BY <3>3
            <4> DEFINE that == PendingEntry(o, others, rows[o].tns, req.detail)
                       this == PendingEntry(o, brokers, rows[o].tns, req.detail)
            <4>2. [that EXCEPT !.brokers = this.brokers] = this
                BY PendingApart
            <4> HIDE DEF entry, that, this
            <4>3. now.entry = that /\ entry = this
                BY <3>2, <4>1 DEF that, this
            <4> QED BY <4>2, <4>3
        <3>6. \E then \in req.told[o] : then.entry.brokers = entry.brokers
            <4>1. CASE req.detail = "ids"
                <5>1. now.entry.brokers = {}
                    BY <3>3, <4>1 DEF PendingEntry, EntryFrom
                <5> QED BY <2>4, <4>1, <5>1
            <4>2. CASE req.detail # "ids"
                BY <1>1, <1>4, <2>4, <4>2 DEF ReadRight, brokers
            <4> QED BY <4>1, <4>2
        <3> QED BY <3>4, <3>5, <3>6 DEF OfOneMoment
    <2> HIDE DEF entry
    <2> QED BY <2>2, <2>4, <2>5, <2>6 DEF TruthfulIn, entry
<1> QED BY <1>3, <1>4

LEMMA BuildKeepsTruth ==
    ASSUME TruthInv, BuildObjects PROVE TruthInv'
<1> DEFINE built == [o \in req.asked |-> EntryOf(o, req.pc = "assoc" /\ rows[o].tns)]
<1>1. IsRequest(req) /\ IsRead(req.read) /\ req.pc \in {"assoc", "build"}
      /\ UNCHANGED <<rows, clock, reverted>>
    BY DEF TruthInv, Shape, BuildObjects, storeVars
<1>2. req' = [req EXCEPT !.built = built, !.read = NothingRead, !.pc = "built"]
    BY DEF BuildObjects
<1>3. \A o \in req.asked : TruthfulIn(o, built[o], req.told, reverted)
    BY <1>1, EntriesAreTold
<1> HIDE DEF built
<1>4. IsRequest(req') /\ req'.pc = "built" /\ req'.built = built /\ req'.read = NothingRead
    BY <1>1, <1>2 DEF IsRequest, RequestFields
<1>5. StillBuilding
    BY <1>1, <1>2, <1>4 DEF IsRequest, RequestFields, StillBuilding, Building, Gathering
<1>6. Shape'
    BY <1>4, <1>5, BuildFrame, RequestsBegin DEF Shape
<1>7. ReadsRight' /\ BuiltRight'
    BY <1>3, <1>4, <1>5 DEF ReadsRight, BuiltRight, StillBuilding, Gathering
<1> QED BY <1>5, <1>6, <1>7, BuildFrame DEF TruthInv

\* What the statements of build_objects leave alone.
LEMMA BuildSteps ==
    ASSUME TruthInv, BuildStep
    PROVE  /\ Building /\ Building' /\ UNCHANGED storeVars
           /\ req'.pc # "built" \/ BuildObjects
           /\ \A f \in RequestFields \ {"pc", "read", "built"} : req'[f] = req[f]
<1>1. IsRequest(req) /\ UNCHANGED storeVars
    BY DEF TruthInv, Shape, BuildStep, ReadAlerts, ReadRecords, ReadMatched, ReadMatches,
           ReadBrokers, BuildObjects
<1>2. Building
    BY DEF BuildStep, ReadAlerts, ReadRecords, ReadMatched, ReadMatches, ReadBrokers,
           BuildObjects, Building, Gathering
<1>3. /\ req'.pc \in {"records", "matched", "sources", "brokers", "assoc", "build", "built"}
      /\ req'.pc # "built" \/ BuildObjects
      /\ \A f \in RequestFields \ {"pc", "read", "built"} : req'[f] = req[f]
    <2>1. CASE ReadAlerts
        <3>1. \E alerts : \E pc \in {"records", "brokers", "build"} :
                 req' = [req EXCEPT !.read.alerts = alerts, !.pc = pc]
            BY <2>1 DEF ReadAlerts
        <3> QED BY <1>1, <3>1 DEF IsRequest, RequestFields
    <2>2. CASE ReadRecords
        <3>1. \E records : req' = [req EXCEPT !.read.records = records, !.pc = "matched"]
            BY <2>2 DEF ReadRecords
        <3> QED BY <1>1, <3>1 DEF IsRequest, RequestFields
    <2>3. CASE ReadMatched
        <3>1. \E matched : \E pc \in {"sources", "brokers", "build"} :
                 req' = [req EXCEPT !.read.matched = matched, !.pc = pc]
            BY <2>3 DEF ReadMatched
        <3> QED BY <1>1, <3>1 DEF IsRequest, RequestFields
    <2>4. CASE ReadMatches
        <3>1. \E matches : req' = [req EXCEPT !.read.matches = matches, !.pc = "brokers"]
            BY <2>4 DEF ReadMatches
        <3> QED BY <1>1, <3>1 DEF IsRequest, RequestFields
    <2>5. CASE ReadBrokers
        <3>1. \E brokers : \E pc \in {"assoc", "build"} :
                 req' = [req EXCEPT !.read.brokers = brokers, !.pc = pc]
            BY <2>5 DEF ReadBrokers
        <3> QED BY <1>1, <3>1 DEF IsRequest, RequestFields
    <2>6. CASE BuildObjects
        <3>1. \E built : req' = [req EXCEPT !.built = built, !.read = NothingRead, !.pc = "built"]
            BY <2>6 DEF BuildObjects
        <3> QED BY <1>1, <2>6, <3>1 DEF IsRequest, RequestFields
    <2> QED BY <2>1, <2>2, <2>3, <2>4, <2>5, <2>6 DEF BuildStep
<1> QED BY <1>1, <1>2, <1>3 DEF Building, Gathering

-----------------------------------------------------------------------------
\* A lookup takes its inputs group by group.
GroupOrders == {<<>>, <<"id">>, <<"cone">>, <<"id", "cone">>, <<"cone", "id">>}

LEMMA InputsByKind ==
    ASSUME NEW q
    PROVE  /\ IdInputs(q) = {i \in DOMAIN q.inputs : q.inputs[i].valid /\ q.inputs[i].kind = "id"}
           /\ ConeInputs(q) = {i \in DOMAIN q.inputs :
                                  q.inputs[i].valid /\ IsCone(q.inputs[i].kind)}
BY DEF IdInputs, ConeInputs, ValidOf

LEMMA NoInputOfBothKinds == ASSUME NEW q PROVE IdInputs(q) \cap ConeInputs(q) = {}
BY InputsByKind DEF IsCone

LEMMA GroupsInOrder == ASSUME NEW q PROVE Groups(q) \in GroupOrders
BY DEF Groups, GroupOrders

LEMMA NewResults ==
    ASSUME NEW status, NEW total
    PROVE  LET r == NewResult(status, total)
           IN  IsResult(r) /\ r.total = total /\ r.ids = {} /\ DOMAIN r.entries = {}
               /\ DOMAIN r.marks = {}
<1>1. IsResult(NewResult(status, total))
    BY DEF IsResult, NewResult, ResultFields
<1>2. /\ NewResult(status, total).total = total /\ NewResult(status, total).ids = {}
      /\ NewResult(status, total).entries = <<>> /\ NewResult(status, total).marks = <<>>
    BY DEF NewResult
<1>3. DOMAIN <<>> = {}
    OBVIOUS
<1> QED BY <1>1, <1>2, <1>3

LEMMA RequestStarts ==
    ASSUME NEW q
    PROVE  LET s == Started(q)
           IN  /\ IsRequest(s) /\ s.pc = q.pc /\ s.route = q.route /\ s.detail = q.detail
               /\ s.spec = q.spec /\ s.count = q.count /\ s.migrated = q.migrated
               /\ s.asked = {} /\ s.read = NothingRead /\ s.results = <<>>
               /\ s.candidates = <<>>
               /\ \A o \in Objects : AnswerNow(o, rows[o], s) \in s.told[o]
<1> DEFINE base == [FreshRequest EXCEPT
                      !.pc = q.pc, !.route = q.route, !.detail = q.detail, !.spec = q.spec,
                      !.count = q.count, !.migrated = q.migrated, !.since = writes]
           told == [o \in Objects |-> {AnswerNow(o, rows[o], base)}]
           s == [base EXCEPT !.told = told]
<1>1. /\ IsRequest(base) /\ base.pc = q.pc /\ base.route = q.route /\ base.detail = q.detail
      /\ base.spec = q.spec /\ base.count = q.count /\ base.migrated = q.migrated
      /\ base.asked = {} /\ base.read = NothingRead /\ base.results = <<>>
      /\ base.candidates = <<>>
    BY DEF FreshRequest, IsRequest, RequestFields
<1>2. \A o \in Objects : AnswerNow(o, rows[o], base) \in told[o]
    OBVIOUS
<1>3. Started(q) = s
    BY DEF Started
<1> HIDE DEF base, told
<1>4. /\ IsRequest(s) /\ s.pc = base.pc /\ s.route = base.route /\ s.detail = base.detail
      /\ s.spec = base.spec /\ s.count = base.count /\ s.migrated = base.migrated
      /\ s.asked = base.asked /\ s.read = base.read /\ s.results = base.results
      /\ s.candidates = base.candidates /\ s.told = told
    BY <1>1 DEF IsRequest, RequestFields
<1> HIDE DEF s
<1>5. \A o \in Objects : AnswerNow(o, rows[o], s) = AnswerNow(o, rows[o], base)
    BY <1>4, NowDependsOn
<1> QED BY <1>1, <1>2, <1>3, <1>4, <1>5

\* What a lookup is like between two groups.
BetweenGroups(q) ==
    /\ IsRequest(q) /\ IsRead(q.read) /\ q.route # "cone"
    /\ q.asked = {} /\ q.todo \in GroupOrders
    /\ DOMAIN q.results = DOMAIN q.inputs
    /\ DOMAIN q.candidates \subseteq ConeInputs(q)
    /\ q.todo \in {<<"cone">>, <<"cone", "id">>, <<"id", "cone">>} => DOMAIN q.candidates = {}
    /\ \A i \in IdInputs(q) : q.inputs[i].of \in Objects
    /\ \A i \in ConeInputs(q) \ DOMAIN q.candidates : q.results[i].ids = {}
    /\ \A i \in DOMAIN q.results :
          /\ IsResult(q.results[i]) /\ DOMAIN q.results[i].marks = {}
          /\ DOMAIN q.results[i].entries \subseteq q.results[i].ids
          /\ i \in DOMAIN q.candidates => q.results[i].ids \subseteq q.candidates[i]
          /\ \A o \in DOMAIN q.results[i].entries :
                o \in Objects /\ TruthfulIn(o, q.results[i].entries[o], q.told, reverted)
    /\ \A o \in Objects : AnswerNow(o, rows[o], q) \in q.told[o]

LEMMA EnterIs ==
    ASSUME NEW q, IsRequest(q), q.todo \in GroupOrders, NEW e, e = Enter(q)
    PROVE  /\ IsRequest(e) /\ e.route = q.route /\ e.detail = q.detail /\ e.spec = q.spec
           /\ e.migrated = q.migrated /\ e.inputs = q.inputs /\ e.todo = q.todo
           /\ e.read = q.read /\ e.results = q.results /\ e.candidates = q.candidates
           /\ e.told = q.told
           /\ q.todo = <<>> => e.pc \in {"filter", "answered"} /\ e.asked = q.asked
           /\ q.todo \in {<<"id">>, <<"id", "cone">>} =>
                 e.pc = "alerts" /\ e.asked = {q.inputs[i].of : i \in IdInputs(q)}
           /\ q.todo \in {<<"cone">>, <<"cone", "id">>} =>
                 e.pc \in {"names", "search"} /\ e.asked = q.asked
<1>1. CASE q.todo = <<>>
    <2>1. PICK pc \in {"filter", "answered"} : e = [q EXCEPT !.pc = pc]
        BY <1>1 DEF Enter
    <2>2. q.todo \notin {<<"id">>, <<"id", "cone">>, <<"cone">>, <<"cone", "id">>}
        BY <1>1
    <2>3. /\ IsRequest(e) /\ e.route = q.route /\ e.detail = q.detail /\ e.spec = q.spec
          /\ e.migrated = q.migrated /\ e.inputs = q.inputs /\ e.todo = q.todo
          /\ e.read = q.read /\ e.results = q.results /\ e.candidates = q.candidates
          /\ e.told = q.told /\ e.pc = pc /\ e.asked = q.asked
        BY <2>1 DEF IsRequest, RequestFields
    <2> QED BY <2>2, <2>3
<1>2. CASE q.todo \in {<<"id">>, <<"id", "cone">>}
    <2> DEFINE asked == {q.inputs[i].of : i \in IdInputs(q)}
    <2>1. Head(q.todo) = "id" /\ q.todo # <<>>
        BY <1>2
    <2>2. e = [q EXCEPT !.pc = "alerts", !.asked = asked]
        BY <2>1 DEF Enter
    <2> HIDE DEF asked
    <2>3. q.todo \notin {<<"cone">>, <<"cone", "id">>}
        BY <1>2
    <2>4. /\ IsRequest(e) /\ e.route = q.route /\ e.detail = q.detail /\ e.spec = q.spec
          /\ e.migrated = q.migrated /\ e.inputs = q.inputs /\ e.todo = q.todo
          /\ e.read = q.read /\ e.results = q.results /\ e.candidates = q.candidates
          /\ e.told = q.told /\ e.pc = "alerts" /\ e.asked = asked
        BY <2>2 DEF IsRequest, RequestFields
    <2> QED BY <2>1, <2>3, <2>4 DEF asked
<1>3. CASE q.todo \in {<<"cone">>, <<"cone", "id">>}
    <2>1. Head(q.todo) = "cone" /\ q.todo # <<>>
        BY <1>3
    <2>2. PICK pc \in {"names", "search"} : e = [q EXCEPT !.pc = pc]
        BY <2>1 DEF Enter
    <2>3. q.todo \notin {<<"id">>, <<"id", "cone">>}
        BY <1>3
    <2>4. /\ IsRequest(e) /\ e.route = q.route /\ e.detail = q.detail /\ e.spec = q.spec
          /\ e.migrated = q.migrated /\ e.inputs = q.inputs /\ e.todo = q.todo
          /\ e.read = q.read /\ e.results = q.results /\ e.candidates = q.candidates
          /\ e.told = q.told /\ e.pc = pc /\ e.asked = q.asked
        BY <2>2 DEF IsRequest, RequestFields
    <2> QED BY <2>1, <2>3, <2>4
<1> QED BY <1>1, <1>2, <1>3 DEF GroupOrders

\* The next group begins, or the filters, or the answer is made.
LEMMA GroupBegins ==
    ASSUME StoreTyped, UNCHANGED <<rows, clock, reverted>>,
           NEW q, BetweenGroups(q), req' = Enter(q)
    PROVE  TruthInv'
<1>1. IsRequest(q) /\ q.todo \in GroupOrders
    BY DEF BetweenGroups
<1>2. /\ IsRequest(req') /\ req'.route = q.route /\ req'.detail = q.detail /\ req'.spec = q.spec
      /\ req'.migrated = q.migrated /\ req'.inputs = q.inputs /\ req'.todo = q.todo
      /\ req'.read = q.read /\ req'.results = q.results /\ req'.candidates = q.candidates
      /\ req'.told = q.told
      /\ q.todo = <<>> => req'.pc \in {"filter", "answered"} /\ req'.asked = q.asked
      /\ q.todo \in {<<"id">>, <<"id", "cone">>} =>
            req'.pc = "alerts" /\ req'.asked = {q.inputs[i].of : i \in IdInputs(q)}
      /\ q.todo \in {<<"cone">>, <<"cone", "id">>} =>
            req'.pc \in {"names", "search"} /\ req'.asked = q.asked
    BY <1>1, EnterIs
<1>3. req'.pc \in {"filter", "answered", "alerts", "names", "search"}
    BY <1>1, <1>2 DEF GroupOrders
<1>4. req'.asked \subseteq Objects
    BY <1>1, <1>2 DEF BetweenGroups, GroupOrders
<1>5. Shape'
    BY <1>2 DEF BetweenGroups, Shape, StoreTyped
<1>6. ToldNow'
    BY <1>2, NowDependsOn DEF BetweenGroups, ToldNow
<1>7. AskedKnown' /\ ReadsRight' /\ BuiltRight' /\ ConeRight'
    BY <1>2, <1>3, <1>4 DEF AskedKnown, ReadsRight, Gathering, BuiltRight, ConeRight, BetweenGroups
<1>8. EntriesRight' /\ Unmarked'
    BY <1>2 DEF BetweenGroups, EntriesRight, Unmarked
<1>9. MarkWasTrue'
    BY <1>2 DEF BetweenGroups, MarkWasTrue
<1>10. LookupRight'
    <2>1. IdInputs(req') = IdInputs(q) /\ ConeInputs(req') = ConeInputs(q)
        BY <1>2 DEF IdInputs, ConeInputs, ValidOf
    <2>2. q.todo = <<>> => q.todo \notin {<<"id">>, <<"id", "cone">>, <<"cone">>, <<"cone", "id">>}
        OBVIOUS
    <2>3. Building' => q.todo \in {<<"id">>, <<"id", "cone">>}
        BY <1>1, <1>2, <2>2 DEF Building, Gathering, GroupOrders
    <2>4. ConeAhead' => q.todo \in {<<"cone">>, <<"cone", "id">>, <<"id", "cone">>}
        BY <1>1, <1>2, <2>2 DEF ConeAhead, GroupOrders
    <2>5. req'.pc \in {"names", "search"} => q.todo \in {<<"cone">>, <<"cone", "id">>}
        BY <1>1, <1>2, <2>2 DEF GroupOrders
    <2>6. q.todo \in {<<"id">>, <<"id", "cone">>} =>
             q.todo # <<>> /\ q.todo \notin {<<"cone">>, <<"cone", "id">>}
        OBVIOUS
    <2>7. DOMAIN req'.candidates \subseteq ConeInputs(req') /\ (ConeAhead' => DOMAIN req'.candidates = {})
        BY <1>2, <2>1, <2>4 DEF BetweenGroups
    <2>8. /\ \A i \in IdInputs(req') : req'.inputs[i].of \in Objects
          /\ \A i \in ConeInputs(req') \ DOMAIN req'.candidates : req'.results[i].ids = {}
          /\ DOMAIN req'.results = DOMAIN req'.inputs
          /\ \A i \in DOMAIN req'.results :
              /\ DOMAIN req'.results[i].entries \subseteq req'.results[i].ids
              /\ i \in DOMAIN req'.candidates => req'.results[i].ids \subseteq req'.candidates[i]
        BY <1>2, <2>1 DEF BetweenGroups
    <2>9. Building' => \A i \in IdInputs(req') : req'.inputs[i].of \in req'.asked
        BY <1>2, <2>1, <2>3
    <2> QED BY <1>1, <1>2, <2>1, <2>3, <2>5, <2>6, <2>7, <2>8, <2>9
            DEF LookupRight, GroupOrders
<1> QED BY <1>5, <1>6, <1>7, <1>8, <1>9, <1>10 DEF TruthInv

LEMMA SubmitKeepsTruth ==
    ASSUME TruthInv, NEW r, NEW migrated, r.route # "cone", Submit(r, migrated)
    PROVE  TruthInv'
<1>1. StoreTyped /\ UNCHANGED <<rows, clock, reverted>> /\ IsRequest(req)
    BY DEF TruthInv, Shape, Submit, storeVars
<1>2. CASE Refusal(r) # "none"
    <2>1. req' = [req EXCEPT !.pc = "refused", !.route = r.route]
        BY <1>2 DEF Submit
    <2>2. IsRequest(req') /\ req'.pc = "refused" /\ req'.read = req.read /\ req'.results = req.results
        BY <1>1, <2>1 DEF IsRequest, RequestFields
    <2>3. Shape'
        BY <1>1, <2>2 DEF TruthInv, Shape, StoreTyped
    <2> QED BY <2>2, <2>3
            DEF TruthInv, ToldNow, AskedKnown, ReadsRight, Gathering, BuiltRight, EntriesRight, Unmarked,
                MarkWasTrue, ConeRight, LookupRight, Running, Answered
<1>3. CASE Refusal(r) = "none"
    <2> DEFINE given == [pc |-> "start", route |-> r.route, detail |-> LookupDetail(r),
                         spec |-> ParseFilters(r.filters), count |-> r.response = "count",
                         migrated |-> migrated]
               parsed == [i \in DOMAIN r.inputs |->
                            [kind |-> r.inputs[i].kind, of |-> r.inputs[i].of,
                             valid |-> InputValid(r.inputs[i], r)]]
               results == [i \in DOMAIN parsed |-> NewResult("invalid_input", NotACone)]
    <2>1. PICK q : q = Started(given)
        OBVIOUS
    <2>2. PICK p : p = [q EXCEPT !.inputs = parsed]
        OBVIOUS
    <2>3. PICK budget : req' = Enter([p EXCEPT !.todo = Groups(p), !.budget = budget,
                                               !.results = results])
        BY <1>3, <2>1, <2>2 DEF Submit
    <2>4. PICK e : e = [p EXCEPT !.todo = Groups(p), !.budget = budget, !.results = results]
        OBVIOUS
    <2>5. /\ IsRequest(q) /\ q.route = r.route /\ q.asked = {} /\ q.read = NothingRead
          /\ q.candidates = <<>> /\ \A o \in Objects : AnswerNow(o, rows[o], q) \in q.told[o]
        <3>1. given.route = r.route
            OBVIOUS
        <3> HIDE DEF given
        <3> QED BY <2>1, <3>1, RequestStarts
    <2>6. /\ DOMAIN results = DOMAIN parsed
          /\ \A i \in DOMAIN results : results[i] = NewResult("invalid_input", NotACone)
        OBVIOUS
    <2>7. \A i \in DOMAIN parsed : parsed[i].valid /\ parsed[i].kind = "id"
                                      => parsed[i].of \in Objects
        BY DEF InputValid
    <2> HIDE DEF given, parsed, results
    <2>8. /\ IsRequest(p) /\ p.inputs = parsed /\ p.asked = q.asked /\ p.read = q.read
          /\ p.candidates = q.candidates /\ p.route = q.route /\ p.told = q.told
          /\ p.detail = q.detail /\ p.spec = q.spec /\ p.migrated = q.migrated
        BY <2>2, <2>5 DEF IsRequest, RequestFields
    <2>9. /\ IsRequest(e) /\ e.inputs = parsed /\ e.asked = q.asked /\ e.read = q.read
          /\ e.candidates = q.candidates /\ e.route = q.route /\ e.told = q.told
          /\ e.detail = q.detail /\ e.spec = q.spec /\ e.migrated = q.migrated
          /\ e.todo = Groups(p) /\ e.results = results
        BY <2>4, <2>8 DEF IsRequest, RequestFields
    <2>10. DOMAIN e.candidates = {}
        <3>1. DOMAIN <<>> = {}
            OBVIOUS
        <3> QED BY <2>5, <2>9, <3>1
    <2>11. \A o \in Objects : AnswerNow(o, rows[o], e) \in e.told[o]
        BY <2>5, <2>9, NowDependsOn
    <2>12. e.todo \in GroupOrders /\ IsRead(e.read) /\ e.route # "cone" /\ e.asked = {}
        BY <2>5, <2>9, GroupsInOrder, RequestsBegin
    <2>13. \A i \in IdInputs(e) : e.inputs[i].of \in Objects
        BY <2>7, <2>9, InputsByKind
    <2>14. \A i \in DOMAIN e.results :
              /\ IsResult(e.results[i]) /\ e.results[i].ids = {}
              /\ DOMAIN e.results[i].marks = {} /\ DOMAIN e.results[i].entries = {}
        BY <2>6, <2>9, NewResults
    <2>15. ConeInputs(e) \subseteq DOMAIN e.results /\ DOMAIN e.results = DOMAIN e.inputs
        BY <2>6, <2>9, InputsByKind
    <2>16. BetweenGroups(e)
        BY <2>9, <2>10, <2>11, <2>12, <2>13, <2>14, <2>15 DEF BetweenGroups
    <2> QED BY <1>1, <2>3, <2>4, <2>16, GroupBegins
<1> QED BY <1>2, <1>3

\* Between the statements of a group of cones nothing that was told changes.
StillLooking ==
    /\ UNCHANGED <<rows, clock, reverted>>
    /\ Running /\ Running' /\ IsRequest(req)'
    /\ req.route # "cone" /\ req'.route = req.route
    /\ req'.detail = req.detail /\ req'.spec = req.spec /\ req'.migrated = req.migrated
    /\ req'.inputs = req.inputs /\ req'.todo = req.todo /\ req'.told = req.told
    /\ req'.read = req.read /\ req'.pc \notin {"page", "total", "whole"}

LEMMA LookFrame ==
    ASSUME TruthInv, StillLooking
    PROVE  /\ StoreTyped' /\ IsRead(req.read)' /\ ToldNow' /\ MarkWasTrue' /\ ConeRight'
           /\ IdInputs(req') = IdInputs(req) /\ ConeInputs(req') = ConeInputs(req)
<1>1. StoreTyped' /\ IsRead(req'.read) /\ ConeRight'
    BY DEF TruthInv, Shape, StoreTyped, StillLooking, ConeRight
<1>2. ToldNow'
    BY NowDependsOn DEF TruthInv, ToldNow, StillLooking
<1>3. MarkWasTrue'
    BY DEF MarkWasTrue, Answered, Running, StillLooking
<1>4. IdInputs(req') = IdInputs(req) /\ ConeInputs(req') = ConeInputs(req)
    BY DEF StillLooking, IdInputs, ConeInputs, ValidOf
<1> QED BY <1>1, <1>2, <1>3, <1>4

LEMMA NamesKeepTruth ==
    ASSUME TruthInv, ResolveNames, req.route # "cone" PROVE TruthInv'
<1>1. IsRequest(req) /\ req.pc = "names" /\ UNCHANGED <<rows, clock, reverted>>
    BY DEF TruthInv, Shape, ResolveNames, storeVars
<1>2. PICK current \in BOOLEAN :
         LET unresolved == {i \in ConeInputs(req) :
                               /\ req.inputs[i].kind = "tns"
                               /\ ~current \/ TnsPlace[req.inputs[i].of] = "unknown"}
             status == IF current THEN "tns_name_not_found" ELSE "resolver_unavailable"
         IN  req' = [req EXCEPT
                       !.pc = "search",
                       !.results = [i \in DOMAIN @ |->
                           IF i \in unresolved THEN NewResult(status, NotRun) ELSE @[i]]]
    BY DEF ResolveNames
<1> DEFINE unresolved == {i \in ConeInputs(req) :
                             /\ req.inputs[i].kind = "tns"
                             /\ ~current \/ TnsPlace[req.inputs[i].of] = "unknown"}
           status == IF current THEN "tns_name_not_found" ELSE "resolver_unavailable"
           results == [i \in DOMAIN req.results |->
                          IF i \in unresolved THEN NewResult(status, NotRun) ELSE req.results[i]]
<1>3. /\ DOMAIN results = DOMAIN req.results
      /\ \A i \in DOMAIN results : \/ results[i] = req.results[i]
                                   \/ results[i] = NewResult(status, NotRun)
    OBVIOUS
<1>4. req' = [req EXCEPT !.pc = "search", !.results = results]
    BY <1>2
<1> HIDE DEF unresolved, status, results
<1>5. /\ IsRequest(req') /\ req'.pc = "search" /\ req'.results = results
      /\ req'.asked = req.asked /\ req'.candidates = req.candidates
    BY <1>1, <1>4 DEF IsRequest, RequestFields
<1>6. StillLooking
    BY <1>1, <1>4, <1>5 DEF IsRequest, RequestFields, StillLooking, Running
<1>7. \A i \in DOMAIN req'.results :
         /\ IsResult(req'.results[i]) /\ DOMAIN req'.results[i].marks = {}
         /\ \/ req'.results[i] = req.results[i]
            \/ req'.results[i].ids = {} /\ DOMAIN req'.results[i].entries = {}
    <2> SUFFICES ASSUME NEW i \in DOMAIN results
                 PROVE  /\ IsResult(results[i]) /\ DOMAIN results[i].marks = {}
                        /\ \/ results[i] = req.results[i]
                           \/ results[i].ids = {} /\ DOMAIN results[i].entries = {}
        BY <1>5
    <2>1. CASE results[i] = req.results[i]
        BY <1>1, <1>3, <2>1 DEF TruthInv, Shape, Unmarked, Running
    <2>2. CASE results[i] = NewResult(status, NotRun)
        BY <2>2, NewResults
    <2> QED BY <1>3, <2>1, <2>2
<1>8. Shape' /\ Unmarked'
    BY <1>5, <1>6, <1>7, LookFrame DEF Shape, Unmarked
<1>9. EntriesRight'
    BY <1>1, <1>3, <1>5, <1>6, <1>7 DEF TruthInv, EntriesRight, StillLooking
<1>10. AskedKnown' /\ ReadsRight' /\ BuiltRight'
    BY <1>1, <1>5 DEF TruthInv, AskedKnown, ReadsRight, Gathering, BuiltRight, Running
<1>11. LookupRight'
    <2>1. /\ DOMAIN req.results = DOMAIN req.inputs /\ DOMAIN req.candidates = {}
          /\ \A i \in IdInputs(req) : req.inputs[i].of \in Objects
          /\ \A i \in ConeInputs(req) : req.results[i].ids = {}
          /\ \A i \in DOMAIN req.results : DOMAIN req.results[i].entries \subseteq req.results[i].ids
          /\ req.todo \in {<<"cone">>, <<"cone", "id">>}
        BY <1>1, <1>6 DEF TruthInv, LookupRight, ConeAhead, StillLooking
    <2>2. ConeInputs(req) \subseteq DOMAIN req.results
        BY <2>1, InputsByKind
    <2>3. ~ Building'
        BY <1>5 DEF Building, Gathering
    <2>4. \A i \in DOMAIN req'.results :
             DOMAIN req'.results[i].entries \subseteq req'.results[i].ids
        BY <1>3, <1>5, <1>7, <2>1
    <2>5. \A i \in ConeInputs(req') : req'.results[i].ids = {}
        BY <1>3, <1>5, <1>6, <1>7, <2>1, <2>2, LookFrame
    <2>6. DOMAIN req'.results = DOMAIN req'.inputs
        BY <1>3, <1>5, <1>6, <2>1 DEF StillLooking
    <2> QED BY <1>5, <1>6, <2>1, <2>3, <2>4, <2>5, <2>6, LookFrame DEF LookupRight, StillLooking
<1> QED BY <1>6, <1>8, <1>9, <1>10, <1>11, LookFrame DEF TruthInv

LEMMA ConeResults ==
    ASSUME NEW q, NEW i
    PROVE  LET r == ConeResult(q, i)
           IN  /\ IsResult(r) /\ DOMAIN r.entries = {} /\ DOMAIN r.marks = {}
               /\ r.ids \subseteq Inside(CentreOf(q.inputs[i]), Unpinned)
<1> DEFINE all == Inside(CentreOf(q.inputs[i]), Unpinned)
           share == Share(q, i)
           over == Cardinality(share) > LeftFor(q, i)
           base == NewResult(FoundOrNot(Cardinality(all)), Cardinality(all))
           ids == IF q.count THEN all
                  ELSE IF over THEN Leading(share, LeftFor(q, i), Sooner) ELSE share
           why == IF over THEN "per_request_limit"
                  ELSE IF all # share THEN "per_input_limit" ELSE "none"
<1>1. share \subseteq all
    BY DEF Share, Leading
<1>2. ids \subseteq all
    BY <1>1 DEF Leading
<1>3. ConeResult(q, i) = IF q.count THEN [base EXCEPT !.ids = all]
                         ELSE [base EXCEPT !.ids = ids, !.truncation = why]
    BY DEF ConeResult
<1>4. IsResult(base) /\ DOMAIN base.entries = {} /\ DOMAIN base.marks = {}
    BY NewResults
<1> HIDE DEF base, why, ids
<1>5. CASE q.count
    BY <1>3, <1>4, <1>5 DEF IsResult, ResultFields
<1>6. CASE ~ q.count
    BY <1>2, <1>3, <1>4, <1>6 DEF IsResult, ResultFields
<1> QED BY <1>5, <1>6

LEMMA SearchKeepsTruth ==
    ASSUME TruthInv, SearchAll, req.route # "cone" PROVE TruthInv'
<1> DEFINE searched == Searched(req)
           results == [i \in DOMAIN req.results |->
                          IF i \in searched THEN ConeResult(req, i) ELSE req.results[i]]
           candidates == [i \in searched |-> Inside(CentreOf(req.inputs[i]), Unpinned)]
           asked == UNION {results[i].ids : i \in searched}
<1>1. IsRequest(req) /\ req.pc = "search" /\ UNCHANGED <<rows, clock, reverted>>
    BY DEF TruthInv, Shape, SearchAll, storeVars
<1>2. PICK cut : req' = [req EXCEPT !.pc = "alerts", !.results = results,
                                    !.candidates = candidates, !.asked = asked, !.cut = cut]
    BY DEF SearchAll
<1>3. searched \subseteq ConeInputs(req)
    BY DEF Searched
<1>4. /\ DOMAIN req.results = DOMAIN req.inputs /\ DOMAIN req.candidates = {}
      /\ \A i \in IdInputs(req) : req.inputs[i].of \in Objects
      /\ \A i \in ConeInputs(req) : req.results[i].ids = {}
      /\ \A i \in DOMAIN req.results : DOMAIN req.results[i].entries \subseteq req.results[i].ids
      /\ req.todo \in {<<"cone">>, <<"cone", "id">>}
    BY <1>1 DEF TruthInv, LookupRight, ConeAhead, Running
<1>5. ConeInputs(req) \subseteq DOMAIN req.results
    BY <1>4, InputsByKind
<1>6. /\ DOMAIN results = DOMAIN req.results /\ DOMAIN candidates = searched
      /\ \A i \in DOMAIN results :
            /\ i \in searched => results[i] = ConeResult(req, i)
            /\ i \notin searched => results[i] = req.results[i]
      /\ \A i \in searched : candidates[i] = Inside(CentreOf(req.inputs[i]), Unpinned)
    OBVIOUS
<1>7. /\ \A i \in searched : IsResult(results[i]) /\ DOMAIN results[i].entries = {}
                             /\ DOMAIN results[i].marks = {}
                             /\ results[i].ids \subseteq candidates[i]
                             /\ results[i].ids \subseteq asked
    <2> SUFFICES ASSUME NEW i \in searched
                 PROVE  /\ IsResult(results[i]) /\ DOMAIN results[i].entries = {}
                        /\ DOMAIN results[i].marks = {}
                        /\ results[i].ids \subseteq candidates[i]
                        /\ results[i].ids \subseteq asked
        OBVIOUS
    <2>1. results[i] = ConeResult(req, i)
        BY <1>3, <1>5, <1>6
    <2>2. results[i].ids \subseteq asked
        OBVIOUS
    <2>3. candidates[i] = Inside(CentreOf(req.inputs[i]), Unpinned)
        BY <1>6
    <2> HIDE DEF results, candidates, asked
    <2> QED BY <2>1, <2>2, <2>3, ConeResults
<1>8. asked \subseteq Objects
    <2> SUFFICES ASSUME NEW i \in searched, NEW o \in results[i].ids PROVE o \in Objects
        OBVIOUS
    <2> QED BY <1>6, <1>7 DEF Inside
<1> HIDE DEF searched, results, candidates, asked
<1>9. /\ IsRequest(req') /\ req'.pc = "alerts" /\ req'.results = results
      /\ req'.asked = asked /\ req'.candidates = candidates
    BY <1>1, <1>2 DEF IsRequest, RequestFields
<1>10. StillLooking
    BY <1>1, <1>2, <1>9 DEF IsRequest, RequestFields, StillLooking, Running
<1>11. \A i \in DOMAIN results : IsResult(results[i]) /\ DOMAIN results[i].marks = {}
    BY <1>1, <1>6, <1>7 DEF TruthInv, Shape, Unmarked, Running
<1>12. Shape' /\ Unmarked'
    BY <1>9, <1>10, <1>11, LookFrame DEF Shape, Unmarked
<1>13. EntriesRight'
    BY <1>1, <1>6, <1>7, <1>9, <1>10 DEF TruthInv, EntriesRight, StillLooking
<1>14. AskedKnown' /\ ReadsRight' /\ BuiltRight'
    BY <1>8, <1>9 DEF AskedKnown, ReadsRight, Gathering, BuiltRight
<1>15. LookupRight'
    <2>1. req.todo # <<>> /\ req.todo \notin {<<"id">>, <<"id", "cone">>}
        BY <1>4
    <2>2. ~ ConeAhead'
        BY <1>9, <1>10, <2>1 DEF ConeAhead, StillLooking
    <2>3. \A i \in DOMAIN results :
             /\ DOMAIN results[i].entries \subseteq results[i].ids
             /\ i \in searched => results[i].ids \subseteq candidates[i]
        BY <1>4, <1>6, <1>7
    <2>4. \A i \in ConeInputs(req) \ searched : results[i].ids = {}
        BY <1>4, <1>5, <1>6
    <2>5. \A i \in ConeInputs(req) : results[i].ids \subseteq asked
        BY <1>7, <2>4
    <2> QED BY <1>3, <1>4, <1>6, <1>9, <1>10, <2>1, <2>2, <2>3, <2>4, <2>5, LookFrame
            DEF LookupRight, StillLooking
<1> QED BY <1>10, <1>12, <1>13, <1>14, <1>15, LookFrame DEF TruthInv

\* The entries of a group join its results, and the next group begins.
LEMMA AssembleKeepsTruth ==
    ASSUME TruthInv, Assemble PROVE TruthInv'
<1> DEFINE entries(ids) == [o \in ids |-> req.built[o]]
           mine == IF Head(req.todo) = "id" THEN IdInputs(req) ELSE ConeInputs(req)
           filled(i) ==
               IF Head(req.todo) = "id"
               THEN LET o == req.inputs[i].of
                    IN  [req.results[i] EXCEPT !.status = req.built[o].status,
                                               !.ids = {o}, !.entries = entries({o})]
               ELSE [req.results[i] EXCEPT !.entries = entries(req.results[i].ids)]
           results == [i \in DOMAIN req.results |-> IF i \in mine THEN filled(i)
                                                    ELSE req.results[i]]
<1>1. /\ IsRequest(req) /\ IsRead(req.read) /\ req.pc = "built" /\ req.route # "cone"
      /\ StoreTyped /\ UNCHANGED <<rows, clock, reverted>> /\ Running /\ Building
    BY DEF TruthInv, Shape, Assemble, storeVars, Running, Building, Gathering
<1>2. req' = Enter([req EXCEPT !.todo = Tail(@), !.built = <<>>, !.asked = {},
                               !.results = results])
    BY DEF Assemble
<1>3. PICK q : q = [req EXCEPT !.todo = Tail(@), !.built = <<>>, !.asked = {},
                               !.results = results]
    OBVIOUS
<1>4. /\ req.todo \in {<<"id">>, <<"cone">>, <<"id", "cone">>, <<"cone", "id">>}
      /\ DOMAIN req.results = DOMAIN req.inputs
      /\ DOMAIN req.candidates \subseteq ConeInputs(req)
      /\ req.todo = <<"id", "cone">> => DOMAIN req.candidates = {}
      /\ \A i \in IdInputs(req) : req.inputs[i].of \in Objects
      /\ \A i \in ConeInputs(req) \ DOMAIN req.candidates : req.results[i].ids = {}
      /\ \A i \in DOMAIN req.results :
            /\ DOMAIN req.results[i].entries \subseteq req.results[i].ids
            /\ i \in DOMAIN req.candidates => req.results[i].ids \subseteq req.candidates[i]
      /\ req.todo \in {<<"id">>, <<"id", "cone">>} =>
            \A i \in IdInputs(req) : req.inputs[i].of \in req.asked
      /\ req.todo \in {<<"cone">>, <<"cone", "id">>} =>
            \A i \in ConeInputs(req) : req.results[i].ids \subseteq req.asked
    BY <1>1 DEF TruthInv, LookupRight, ConeAhead
<1>5. /\ \A o \in req.asked : o \in Objects /\ TruthfulIn(o, req.built[o], req.told, reverted)
      /\ \A i \in DOMAIN req.results :
            /\ IsResult(req.results[i]) /\ DOMAIN req.results[i].marks = {}
            /\ \A o \in DOMAIN req.results[i].entries :
                  o \in Objects /\ TruthfulIn(o, req.results[i].entries[o], req.told, reverted)
      /\ \A o \in Objects : AnswerNow(o, rows[o], req) \in req.told[o]
    BY <1>1 DEF TruthInv, Shape, AskedKnown, BuiltRight, EntriesRight, Unmarked, ToldNow
<1>6. \A i \in DOMAIN req.results :
         /\ IsResult(results[i]) /\ DOMAIN results[i].marks = {}
         /\ DOMAIN results[i].entries \subseteq results[i].ids
         /\ i \in ConeInputs(req) => results[i].ids = req.results[i].ids
         /\ \A o \in DOMAIN results[i].entries :
               o \in Objects /\ TruthfulIn(o, results[i].entries[o], req.told, reverted)
    <2> SUFFICES ASSUME NEW i \in DOMAIN req.results
                 PROVE  /\ IsResult(results[i]) /\ DOMAIN results[i].marks = {}
                        /\ DOMAIN results[i].entries \subseteq results[i].ids
                        /\ i \in ConeInputs(req) => results[i].ids = req.results[i].ids
                        /\ \A o \in DOMAIN results[i].entries :
                              /\ o \in Objects
                              /\ TruthfulIn(o, results[i].entries[o], req.told, reverted)
        OBVIOUS
    <2>1. CASE i \notin mine
        <3>1. results[i] = req.results[i]
            BY <2>1
        <3> HIDE DEF results, mine
        <3> QED BY <1>4, <1>5, <3>1
    <2>2. CASE i \in mine /\ Head(req.todo) = "id"
        <3> DEFINE o == req.inputs[i].of
                   es == [x \in {o} |-> req.built[x]]
                   status == req.built[o].status
        <3>1. i \in IdInputs(req) /\ i \notin ConeInputs(req)
            BY <2>2, NoInputOfBothKinds
        <3>2. o \in req.asked
            BY <1>4, <2>2, <3>1
        <3>3. results[i] = [req.results[i] EXCEPT !.status = status, !.ids = {o}, !.entries = es]
            BY <2>2
        <3>4. DOMAIN es = {o} /\ es[o] = req.built[o]
            OBVIOUS
        <3> HIDE DEF results, mine, es, status
        <3>5. /\ IsResult(results[i]) /\ results[i].marks = req.results[i].marks
              /\ results[i].ids = {o} /\ results[i].entries = es
            BY <1>5, <3>3 DEF IsResult, ResultFields
        <3> HIDE DEF o
        <3> QED BY <1>5, <3>1, <3>2, <3>4, <3>5
    <2>3. CASE i \in mine /\ Head(req.todo) # "id"
        <3> DEFINE ids == req.results[i].ids
                   es == [x \in ids |-> req.built[x]]
        <3>1. ids \subseteq req.asked
            BY <1>4, <2>3
        <3>2. results[i] = [req.results[i] EXCEPT !.entries = es]
            BY <2>3
        <3>3. DOMAIN es = ids /\ \A x \in ids : es[x] = req.built[x]
            OBVIOUS
        <3> HIDE DEF results, mine, es
        <3>4. /\ IsResult(results[i]) /\ results[i].marks = req.results[i].marks
              /\ results[i].ids = ids /\ results[i].entries = es
            BY <1>5, <3>2 DEF IsResult, ResultFields
        <3> QED BY <1>5, <3>1, <3>3, <3>4
    <2> QED BY <2>1, <2>2, <2>3
<1>7. DOMAIN results = DOMAIN req.results
    OBVIOUS
<1> HIDE DEF results, mine, filled, entries
<1>8. /\ IsRequest(q) /\ q.route = req.route /\ q.detail = req.detail /\ q.spec = req.spec
      /\ q.migrated = req.migrated /\ q.inputs = req.inputs /\ q.todo = Tail(req.todo)
      /\ q.read = req.read /\ q.results = results /\ q.candidates = req.candidates
      /\ q.told = req.told /\ q.asked = {}
    BY <1>1, <1>3 DEF IsRequest, RequestFields
<1>9. /\ q.todo \in GroupOrders
      /\ q.todo \in {<<"cone">>, <<"cone", "id">>, <<"id", "cone">>}
            => req.todo = <<"id", "cone">>
    <2>1. Tail(<<"id">>) = <<>> /\ Tail(<<"cone">>) = <<>>
          /\ Tail(<<"id", "cone">>) = <<"cone">> /\ Tail(<<"cone", "id">>) = <<"id">>
        OBVIOUS
    <2>2. <<>> # <<"cone">> /\ <<"id">> # <<"cone">> /\ <<"id">> # <<"id", "cone">>
          /\ <<>> # <<"cone", "id">> /\ <<"id">> # <<"cone", "id">> /\ <<>> # <<"id", "cone">>
        OBVIOUS
    <2>3. req.todo \in {<<"id">>, <<"cone">>, <<"id", "cone">>, <<"cone", "id">>}
        BY <1>4 DEF GroupOrders
    <2> QED BY <1>8, <2>1, <2>2, <2>3 DEF GroupOrders
<1>10. IdInputs(q) = IdInputs(req) /\ ConeInputs(q) = ConeInputs(req)
    <2>1. q.inputs = req.inputs
        BY <1>8
    <2> QED BY <2>1 DEF IdInputs, ConeInputs, ValidOf
<1>11. \A o \in Objects : AnswerNow(o, rows[o], q) \in q.told[o]
    BY <1>5, <1>8, NowDependsOn
<1>12. ConeInputs(req) \subseteq DOMAIN req.results
    BY <1>4, InputsByKind
<1>13. \A i \in DOMAIN req.candidates : results[i].ids \subseteq req.candidates[i]
    BY <1>4, <1>6, <1>12
<1>14. BetweenGroups(q)
    BY <1>1, <1>4, <1>6, <1>7, <1>8, <1>9, <1>10, <1>11, <1>12, <1>13 DEF BetweenGroups
<1> QED BY <1>1, <1>2, <1>3, <1>14, GroupBegins

\* The mark of an entry is what the object qualifies for now, or it was not in
\* service when its entry was read.
LEMMA MarksAreTold ==
    ASSUME TruthInv, Running, NEW o \in Objects, NEW entry,
           TruthfulIn(o, entry, req.told, reverted), NEW ids, o \in ids
    PROVE  \E now \in req.told[o] :
              now.mark = MarkOf(o, entry.status, QualifyObjects(ids, req.spec), req.spec).yes
<1> DEFINE quals == QualifyObjects(ids, req.spec)
           now == AnswerNow(o, rows[o], req)
           yes == MarkOf(o, entry.status, quals, req.spec).yes
<1>1. now \in req.told[o]
    BY DEF TruthInv, ToldNow
<1>2. now.mark = (InService(rows[o]) /\ ObjectOk(o, req.spec) /\ MatchOk(rows[o], req.spec))
    BY DEF AnswerNow, Qualifies
<1>3. CASE ~ Committed(o)
    <2>1. o \notin DOMAIN quals
        BY <1>3 DEF QualifyObjects
    <2>2. yes = FALSE /\ now.mark = FALSE
        BY <1>2, <1>3, <2>1 DEF MarkOf, Committed, InService
    <2> QED BY <1>1, <2>2
<1>4. CASE entry.status = "not_in_service"
    <2>1. yes = FALSE
        BY <1>4 DEF MarkOf
    <2> QED BY <1>4, <2>1 DEF TruthfulIn
<1>5. ASSUME Committed(o), entry.status # "not_in_service" PROVE now.mark = yes
    <2>1. /\ o \in DOMAIN quals /\ quals[o].object = ObjectOk(o, req.spec)
          /\ quals[o].match = MatchOk(rows[o], req.spec)
        BY <1>5 DEF QualifyObjects
    <2>2. InService(rows[o])
        BY <1>5 DEF Committed, InService
    <2> HIDE DEF quals, now
    <2>3. CASE ~ ObjectOk(o, req.spec)
        BY <1>2, <1>5, <2>1, <2>3 DEF MarkOf
    <2>4. CASE ObjectOk(o, req.spec) /\ MatchOk(rows[o], req.spec)
        BY <1>2, <1>5, <2>1, <2>2, <2>4 DEF MarkOf
    <2>5. CASE ObjectOk(o, req.spec) /\ ~ MatchOk(rows[o], req.spec)
        BY <1>2, <1>5, <2>1, <2>5 DEF MarkOf
    <2> QED BY <2>3, <2>4, <2>5
<1>6. CASE Committed(o) /\ entry.status # "not_in_service"
    <2>1. now.mark = yes
        BY <1>5, <1>6
    <2> HIDE DEF now
    <2> QED BY <1>1, <2>1
<1> QED BY <1>3, <1>4, <1>6

LEMMA EntriesMarked ==
    ASSUME NEW res, IsResult(res), NEW quals, NEW spec
    PROVE  /\ IsResult(MarkEntries(res, quals, spec))
           /\ MarkEntries(res, quals, spec).entries = res.entries
           /\ MarkEntries(res, quals, spec).ids = res.ids
           /\ MarkEntries(res, quals, spec).total = res.total
           /\ MarkEntries(res, quals, spec).truncation = res.truncation
           /\ DOMAIN MarkEntries(res, quals, spec).marks = DOMAIN res.entries
           /\ \A o \in DOMAIN res.entries :
                 MarkEntries(res, quals, spec).marks[o] = MarkOf(o, res.entries[o].status, quals, spec)
<1>1. PICK marks : marks = [o \in DOMAIN res.entries |->
                               MarkOf(o, res.entries[o].status, quals, spec)]
    OBVIOUS
<1>2. MarkEntries(res, quals, spec) = [res EXCEPT !.marks = marks]
    BY <1>1 DEF MarkEntries
<1>3. /\ DOMAIN marks = DOMAIN res.entries
      /\ \A o \in DOMAIN res.entries : marks[o] = MarkOf(o, res.entries[o].status, quals, spec)
    BY <1>1
<1> QED BY <1>2, <1>3 DEF IsResult, ResultFields

LEMMA ResultMarked ==
    ASSUME NEW res, IsResult(res), NEW candidates, NEW quals, NEW spec
    PROVE  /\ IsResult(MarkResult(res, candidates, quals, spec))
           /\ MarkResult(res, candidates, quals, spec).entries = res.entries
           /\ MarkResult(res, candidates, quals, spec).marks = res.marks
           /\ MarkResult(res, candidates, quals, spec).ids = res.ids
           /\ MarkResult(res, candidates, quals, spec).total = res.total
           /\ MarkResult(res, candidates, quals, spec).truncation = res.truncation
<1> DEFINE counted == {o \in candidates \cap DOMAIN quals : quals[o].object /\ quals[o].match}
           why == IF counted # {} THEN "meets_filters" ELSE "no_object_meets_filters"
           yes == counted # {}
           n == Cardinality(counted)
<1>1. CASE res.total <= 0
    <2>1. MarkResult(res, candidates, quals, spec)
              = [res EXCEPT !.yes = FALSE, !.reason = res.status, !.qualifying = res.total]
        BY <1>1 DEF MarkResult
    <2> QED BY <2>1 DEF IsResult, ResultFields
<1>2. CASE ~(res.total <= 0)
    <2>1. MarkResult(res, candidates, quals, spec)
              = [res EXCEPT !.yes = yes, !.reason = why, !.qualifying = n]
        BY <1>2 DEF MarkResult
    <2> HIDE DEF yes, why, n
    <2> QED BY <2>1 DEF IsResult, ResultFields
<1> QED BY <1>1, <1>2

\* Every candidate is marked by one statement.
LEMMA FiltersKeepTruth ==
    ASSUME TruthInv, ApplyFilters PROVE TruthInv'
<1>1. /\ IsRequest(req) /\ IsRead(req.read) /\ req.pc = "filter" /\ req.route # "cone"
      /\ Running /\ StoreTyped /\ UNCHANGED <<rows, clock, reverted>>
    BY DEF TruthInv, Shape, ApplyFilters, storeVars, Running
<1>2. PICK ids : ids = UNION {CandidatesOf(req, i) : i \in DOMAIN req.results}
    OBVIOUS
<1>3. PICK quals : quals = QualifyObjects(ids, req.spec)
    OBVIOUS
<1> DEFINE res(i) == MarkEntries(req.results[i], quals, req.spec)
           marked(i) ==
               IF ~req.inputs[i].valid THEN [res(i) EXCEPT !.reason = "invalid_input"]
               ELSE IF req.inputs[i].kind = "id"
               THEN LET mark == res(i).marks[req.inputs[i].of]
                    IN  [res(i) EXCEPT !.yes = mark.yes, !.reason = mark.reason]
               ELSE MarkResult(res(i), CandidatesOf(req, i), quals, req.spec)
           results == [i \in DOMAIN req.results |-> marked(i)]
<1>4. req' = [req EXCEPT !.pc = "answered", !.results = results]
    BY <1>2, <1>3 DEF ApplyFilters
<1>5. DOMAIN results = DOMAIN req.results
    OBVIOUS
<1>6. ASSUME NEW i \in DOMAIN req.results
      PROVE  /\ IsResult(results[i]) /\ results[i].entries = req.results[i].entries
             /\ \A o \in DOMAIN results[i].marks :
                   \E now \in req.told[o] : now.mark = results[i].marks[o].yes
    <2>1. PICK m : m = MarkEntries(req.results[i], quals, req.spec)
        OBVIOUS
    <2>2. IsResult(req.results[i])
        BY DEF TruthInv, Shape
    <2>3. /\ IsResult(m) /\ m.entries = req.results[i].entries
          /\ DOMAIN m.marks = DOMAIN req.results[i].entries
          /\ \A o \in DOMAIN req.results[i].entries :
                m.marks[o] = MarkOf(o, req.results[i].entries[o].status, quals, req.spec)
        BY <2>1, <2>2, EntriesMarked
    <2>4. results[i] = IF ~req.inputs[i].valid THEN [m EXCEPT !.reason = "invalid_input"]
                       ELSE IF req.inputs[i].kind = "id"
                       THEN [m EXCEPT !.yes = m.marks[req.inputs[i].of].yes,
                                      !.reason = m.marks[req.inputs[i].of].reason]
                       ELSE MarkResult(m, CandidatesOf(req, i), quals, req.spec)
        BY <2>1
    <2> HIDE DEF results
    <2>5. IsResult(results[i]) /\ results[i].entries = m.entries /\ results[i].marks = m.marks
        <3>1. CASE ~ req.inputs[i].valid
            <4>1. results[i] = [m EXCEPT !.reason = "invalid_input"]
                BY <2>4, <3>1
            <4> QED BY <2>3, <4>1 DEF IsResult, ResultFields
        <3>2. CASE req.inputs[i].valid /\ req.inputs[i].kind = "id"
            <4>1. PICK mark : mark = m.marks[req.inputs[i].of]
                OBVIOUS
            <4>2. results[i] = [m EXCEPT !.yes = mark.yes, !.reason = mark.reason]
                BY <2>4, <3>2, <4>1
            <4> QED BY <2>3, <4>2 DEF IsResult, ResultFields
        <3>3. CASE req.inputs[i].valid /\ req.inputs[i].kind # "id"
            <4>1. results[i] = MarkResult(m, CandidatesOf(req, i), quals, req.spec)
                BY <2>4, <3>3
            <4> QED BY <2>3, <4>1, ResultMarked
        <3> QED BY <3>1, <3>2, <3>3
    <2>6. DOMAIN req.results[i].entries \subseteq ids
        <3>1. /\ DOMAIN req.results[i].entries \subseteq req.results[i].ids
              /\ i \in DOMAIN req.candidates => req.results[i].ids \subseteq req.candidates[i]
            BY <1>1 DEF TruthInv, LookupRight
        <3>2. DOMAIN req.results[i].entries \subseteq CandidatesOf(req, i)
            BY <3>1 DEF CandidatesOf
        <3> QED BY <1>2, <3>2
    <2>7. ASSUME NEW o \in DOMAIN results[i].marks
          PROVE  \E now \in req.told[o] : now.mark = results[i].marks[o].yes
        <3>1. o \in DOMAIN req.results[i].entries /\ o \in ids
            BY <2>3, <2>5, <2>6
        <3>2. PICK entry : entry = req.results[i].entries[o]
            OBVIOUS
        <3>3. o \in Objects /\ TruthfulIn(o, entry, req.told, reverted)
            BY <1>1, <3>1, <3>2 DEF TruthInv, EntriesRight
        <3>4. results[i].marks[o] = MarkOf(o, entry.status, QualifyObjects(ids, req.spec), req.spec)
            BY <1>3, <2>3, <2>5, <3>1, <3>2
        <3> QED BY <1>1, <3>1, <3>3, <3>4, MarksAreTold
    <2> QED BY <2>3, <2>5, <2>7
<1> HIDE DEF results
<1>7. /\ IsRequest(req') /\ req'.pc = "answered" /\ req'.results = results
      /\ req'.told = req.told /\ req'.read = req.read
    BY <1>1, <1>4 DEF IsRequest, RequestFields
<1>8. Shape'
    BY <1>1, <1>5, <1>6, <1>7 DEF Shape, StoreTyped
<1>9. EntriesRight'
    BY <1>1, <1>5, <1>6, <1>7 DEF TruthInv, EntriesRight
<1>10. MarkWasTrue'
    BY <1>5, <1>6, <1>7 DEF MarkWasTrue
<1> QED BY <1>7, <1>8, <1>9, <1>10
        DEF TruthInv, ToldNow, AskedKnown, ReadsRight, Gathering, BuiltRight, Unmarked, ConeRight, LookupRight,
            Running

-----------------------------------------------------------------------------
\* A cone asks about one input, listed in its only result.
ConeGoesOn ==
    /\ UNCHANGED <<rows, clock, reverted>>
    /\ Running /\ IsRequest(req)' /\ IsRead(req.read)' /\ req'.route = "cone"
    /\ req'.detail = req.detail /\ req'.spec = req.spec /\ req'.migrated = req.migrated
    /\ req'.told = req.told /\ req'.asked \subseteq Objects
    /\ req'.pc \in {"total", "whole", "alerts", "filter", "paused", "answered"}
    /\ DOMAIN req'.results = {1}
    /\ LET res == req'.results[1]
       IN  /\ IsResult(res)
           /\ \A o \in DOMAIN res.entries :
                 o \in Objects /\ TruthfulIn(o, res.entries[o], req.told, reverted)
           /\ req'.pc \in {"total", "whole", "alerts"} => res.ids \subseteq req'.asked
           /\ req'.pc = "filter" => DOMAIN res.entries \subseteq res.ids
           /\ Running' => DOMAIN res.marks = {}
           /\ \A o \in DOMAIN res.marks : \E now \in req.told[o] : now.mark = res.marks[o].yes

LEMMA ConeFrame == ASSUME TruthInv, ConeGoesOn PROVE TruthInv'
<1>1. Shape'
    BY DEF TruthInv, Shape, StoreTyped, ConeGoesOn
<1>2. ToldNow'
    BY NowDependsOn DEF TruthInv, ToldNow, ConeGoesOn
<1>3. AskedKnown' /\ ReadsRight' /\ BuiltRight' /\ LookupRight'
    BY DEF AskedKnown, ReadsRight, Gathering, BuiltRight, LookupRight, ConeGoesOn
<1>4. EntriesRight' /\ Unmarked' /\ MarkWasTrue'
    BY DEF EntriesRight, Unmarked, MarkWasTrue, ConeGoesOn
<1>5. ConeRight'
    BY DEF ConeRight, ConeGoesOn, Running
<1> QED BY <1>1, <1>2, <1>3, <1>4, <1>5 DEF TruthInv

LEMMA AskConeKeepsTruth ==
    ASSUME TruthInv, NEW p, NEW t, AskCone(p, t) PROVE TruthInv'
<1>1. StoreTyped /\ UNCHANGED <<rows, clock, reverted>> /\ IsRequest(req)
    BY DEF TruthInv, Shape, AskCone, storeVars
<1>2. CASE ConeRefusal(p, t) # "none"
    <2>1. req' = [req EXCEPT !.pc = "refused"]
        BY <1>2 DEF AskCone
    <2>2. IsRequest(req') /\ req'.pc = "refused" /\ req'.read = req.read /\ req'.results = req.results
        BY <1>1, <2>1 DEF IsRequest, RequestFields
    <2>3. Shape'
        BY <1>1, <2>2 DEF TruthInv, Shape, StoreTyped
    <2> QED BY <2>2, <2>3
            DEF TruthInv, ToldNow, AskedKnown, ReadsRight, Gathering, BuiltRight, EntriesRight, Unmarked,
                MarkWasTrue, ConeRight, LookupRight, Running, Answered
<1>3. CASE ConeRefusal(p, t) = "none"
    <2>1. PICK given, cone : /\ given.pc = "page" /\ given.route = "cone"
                             /\ req' = [Started(given) EXCEPT !.cone = cone]
        <3> DEFINE first == t.kind = "none"
                   count == p.response = "count"
                   detail == IF count THEN "ids"
                             ELSE IF ~first THEN t.detail
                             ELSE IF p.detail = "absent" THEN "matches" ELSE p.detail
                   given == [pc |-> "page", route |-> "cone", detail |-> detail,
                             spec |-> ParseFilters(p.filters), count |-> count,
                             migrated |-> TRUE]
                   walked == IF ~first /\ t = req.cone.token THEN req.cone ELSE FreshCone
                   cone == [walked EXCEPT
                              !.centre = IF first THEN p.centre ELSE t.centre,
                              !.asOf = IF count THEN Unpinned ELSE IF first THEN clock ELSE t.asOf,
                              !.after = t.at,
                              !.size = ConeSize(p),
                              !.order = p.order]
        <3>1. req' = [Started(given) EXCEPT !.cone = cone]
            BY <1>3 DEF AskCone
        <3>2. given.pc = "page" /\ given.route = "cone"
            OBVIOUS
        <3> HIDE DEF given, cone
        <3> QED BY <3>1, <3>2
    <2>2. PICK s : s = Started(given)
        OBVIOUS
    <2>3. /\ IsRequest(s) /\ s.pc = "page" /\ s.route = "cone" /\ s.asked = {}
          /\ s.read = NothingRead /\ s.results = <<>>
          /\ \A o \in Objects : AnswerNow(o, rows[o], s) \in s.told[o]
        BY <2>1, <2>2, RequestStarts
    <2>4. /\ IsRequest(req') /\ req'.pc = "page" /\ req'.route = "cone" /\ req'.asked = {}
          /\ req'.read = NothingRead /\ req'.results = <<>> /\ req'.told = s.told
          /\ req'.detail = s.detail /\ req'.spec = s.spec /\ req'.migrated = s.migrated
        BY <2>1, <2>2, <2>3 DEF IsRequest, RequestFields
    <2>5. DOMAIN req'.results = {}
        BY <2>4
    <2>6. Shape'
        BY <1>1, <2>4, <2>5, RequestsBegin DEF Shape, StoreTyped
    <2>7. ToldNow'
        BY <1>1, <2>3, <2>4, NowDependsOn DEF ToldNow
    <2> QED BY <2>4, <2>5, <2>6, <2>7
            DEF TruthInv, AskedKnown, ReadsRight, Gathering, BuiltRight, EntriesRight, Unmarked,
                MarkWasTrue, ConeRight, LookupRight, Answered
<1> QED BY <1>2, <1>3

LEMMA PageInRest == Rest \subseteq Objects /\ \A n : ListFirst(n) \subseteq Rest
BY DEF Rest, PinnedSet, Inside, ListFirst, Leading

LEMMA FetchKeepsTruth == ASSUME TruthInv, FetchPage PROVE TruthInv'
<1>1. /\ StoreTyped /\ UNCHANGED <<rows, clock, reverted>> /\ IsRequest(req) /\ IsRead(req.read)
      /\ req.pc = "page" /\ req.route = "cone"
    BY DEF TruthInv, Shape, ConeRight, FetchPage, storeVars
<1> DEFINE page == IF req.count THEN Rest ELSE ListFirst(req.cone.size)
           total == IF Rest = {} THEN 0 ELSE Cardinality(PinnedSet)
           res == [NewResult(FoundOrNot(total), total) EXCEPT !.ids = page]
           pc == IF Rest = {} /\ req.cone.after # <<>> THEN "total"
                 ELSE IF req.spec.on /\ ~req.count THEN "whole" ELSE "alerts"
           cone == [req.cone EXCEPT
                      !.page = page, !.more = ~req.count /\ Rest # page,
                      !.due = IF req.cone.after = <<>> THEN PinnedSet ELSE @]
<1>2. req' = [req EXCEPT !.pc = pc, !.asked = page, !.results = <<res>>,
                         !.candidates = <<page>>, !.cone = cone]
    <2>1. req' = [req EXCEPT !.pc = pc, !.asked = page, !.results = <<res>>,
                             !.candidates = <<page>>, !.cone.page = page,
                             !.cone.more = ~req.count /\ Rest # page,
                             !.cone.due = IF req.cone.after = <<>> THEN PinnedSet ELSE @]
        BY DEF FetchPage
    <2> HIDE DEF page, res, pc
    <2> QED BY <1>1, <2>1 DEF IsRequest, RequestFields
<1>3. page \subseteq Objects /\ pc \in {"total", "whole", "alerts"}
    BY PageInRest
<1>4. IsResult(res) /\ res.ids = page /\ DOMAIN res.entries = {} /\ DOMAIN res.marks = {}
    <2> HIDE DEF page, total
    <2>1. PICK new : new = NewResult(FoundOrNot(total), total)
        OBVIOUS
    <2>2. IsResult(new) /\ DOMAIN new.entries = {} /\ DOMAIN new.marks = {}
        BY <2>1, NewResults
    <2>3. res = [new EXCEPT !.ids = page]
        BY <2>1
    <2> HIDE DEF res
    <2> QED BY <2>2, <2>3 DEF IsResult, ResultFields
<1> HIDE DEF page, res, pc, cone
<1>5. /\ IsRequest(req') /\ req'.pc = pc /\ req'.asked = page /\ req'.results = <<res>>
      /\ req'.route = req.route /\ req'.detail = req.detail /\ req'.spec = req.spec
      /\ req'.migrated = req.migrated /\ req'.told = req.told /\ req'.read = req.read
    BY <1>1, <1>2 DEF IsRequest, RequestFields
<1>6. DOMAIN req'.results = {1} /\ req'.results[1] = res
    BY <1>5
<1>7. ConeGoesOn
    BY <1>1, <1>3, <1>4, <1>5, <1>6 DEF ConeGoesOn, Running
<1> QED BY <1>7, ConeFrame

LEMMA CountKeepsTruth == ASSUME TruthInv, CountWhole PROVE TruthInv'
<1>1. /\ StoreTyped /\ UNCHANGED <<rows, clock, reverted>> /\ IsRequest(req) /\ IsRead(req.read)
      /\ req.pc = "total" /\ req.route = "cone" /\ Running
    BY DEF TruthInv, Shape, ConeRight, CountWhole, storeVars, Running
<1>2. /\ DOMAIN req.results = {1} /\ req.results[1].ids \subseteq req.asked
      /\ IsResult(req.results[1]) /\ req.asked \subseteq Objects
      /\ DOMAIN req.results[1].marks = {}
      /\ \A o \in DOMAIN req.results[1].entries :
            o \in Objects /\ TruthfulIn(o, req.results[1].entries[o], req.told, reverted)
    BY <1>1 DEF TruthInv, Shape, ConeRight, AskedKnown, Unmarked, EntriesRight
<1> DEFINE total == Cardinality(PinnedSet)
           pc == IF req.spec.on THEN "whole" ELSE "alerts"
           status == FoundOrNot(total)
           res == [req.results[1] EXCEPT !.total = total, !.status = status]
           results == [req.results EXCEPT ![1] = res]
<1>3. req' = [req EXCEPT !.pc = pc, !.results = results]
    BY <1>1, <1>2 DEF CountWhole, IsRequest, RequestFields
<1>4. pc \in {"whole", "alerts"}
    OBVIOUS
<1> HIDE DEF total, pc, status
<1>5. /\ IsResult(res) /\ res.ids = req.results[1].ids /\ res.entries = req.results[1].entries
      /\ res.marks = req.results[1].marks
    BY <1>2 DEF IsResult, ResultFields
<1> HIDE DEF res
<1>6. DOMAIN results = {1} /\ results[1] = res
    BY <1>2
<1> HIDE DEF results
<1>7. /\ IsRequest(req') /\ req'.pc = pc /\ req'.asked = req.asked /\ req'.results = results
      /\ req'.route = req.route /\ req'.detail = req.detail /\ req'.spec = req.spec
      /\ req'.migrated = req.migrated /\ req'.told = req.told /\ req'.read = req.read
    BY <1>1, <1>3 DEF IsRequest, RequestFields
<1>8. ConeGoesOn
    BY <1>1, <1>2, <1>4, <1>5, <1>6, <1>7 DEF ConeGoesOn
<1> QED BY <1>8, ConeFrame

LEMMA WholeKeepsTruth == ASSUME TruthInv, FetchCandidates PROVE TruthInv'
<1>1. /\ StoreTyped /\ UNCHANGED <<rows, clock, reverted>> /\ IsRequest(req) /\ IsRead(req.read)
      /\ req.pc = "whole" /\ req.route = "cone" /\ Running
    BY DEF TruthInv, Shape, ConeRight, FetchCandidates, storeVars, Running
<1>2. /\ DOMAIN req.results = {1} /\ req.results[1].ids \subseteq req.asked
      /\ IsResult(req.results[1]) /\ req.asked \subseteq Objects
      /\ DOMAIN req.results[1].marks = {}
      /\ \A o \in DOMAIN req.results[1].entries :
            o \in Objects /\ TruthfulIn(o, req.results[1].entries[o], req.told, reverted)
    BY <1>1 DEF TruthInv, Shape, ConeRight, AskedKnown, Unmarked, EntriesRight
<1>3. req' = [req EXCEPT !.pc = "alerts", !.candidates = <<PinnedSet>>]
    BY DEF FetchCandidates
<1>4. /\ IsRequest(req') /\ req'.pc = "alerts" /\ req'.asked = req.asked
      /\ req'.results = req.results /\ req'.route = req.route /\ req'.detail = req.detail
      /\ req'.spec = req.spec /\ req'.migrated = req.migrated /\ req'.told = req.told
      /\ req'.read = req.read
    BY <1>1, <1>3 DEF IsRequest, RequestFields
<1>5. ConeGoesOn
    BY <1>1, <1>2, <1>4 DEF ConeGoesOn
<1> QED BY <1>5, ConeFrame

\* The entries of the page were built of what was asked for.
LEMMA PageKeepsTruth == ASSUME TruthInv, MakePage PROVE TruthInv'
<1>1. /\ StoreTyped /\ UNCHANGED <<rows, clock, reverted>> /\ IsRequest(req) /\ IsRead(req.read)
      /\ req.pc = "built" /\ req.route = "cone" /\ Running
    BY DEF TruthInv, Shape, MakePage, storeVars, Running
<1>2. /\ DOMAIN req.results = {1} /\ req.results[1].ids \subseteq req.asked
      /\ IsResult(req.results[1]) /\ req.asked \subseteq Objects
      /\ DOMAIN req.results[1].marks = {}
      /\ \A o \in req.asked : TruthfulIn(o, req.built[o], req.told, reverted)
    BY <1>1 DEF TruthInv, Shape, ConeRight, AskedKnown, Unmarked, BuiltRight
<1> DEFINE ids == req.results[1].ids
           entries == [o \in ids |-> req.built[o]]
           res == [req.results[1] EXCEPT !.entries = entries]
           results == [req.results EXCEPT ![1] = res]
<1>3. \E pc \in {"filter", "paused", "answered"} : \E cone :
         req' = [req EXCEPT !.pc = pc, !.results = results, !.cone = cone]
    <2> DEFINE next == req.cone.more /\ req.cone.order = "ingest"
               pc == IF req.spec.on THEN "filter" ELSE IF next THEN "paused" ELSE "answered"
               token == IF ~next THEN NoToken
                        ELSE [kind |-> "cone_search",
                              at |-> <<rows[LastListed].ingest, LastListed>>,
                              asOf |-> req.cone.asOf, centre |-> req.cone.centre,
                              detail |-> req.detail]
               cone == [req.cone EXCEPT !.seen = @ \cup req.cone.page, !.token = token]
    <2>1. req' = [req EXCEPT !.pc = pc, !.results[1].entries = entries,
                             !.cone.seen = @ \cup req.cone.page, !.cone.token = token]
        BY DEF MakePage
    <2>2. pc \in {"filter", "paused", "answered"}
        OBVIOUS
    <2> HIDE DEF pc, token, entries
    <2>3. req' = [req EXCEPT !.pc = pc, !.results = results, !.cone = cone]
        BY <1>1, <1>2, <2>1 DEF IsRequest, RequestFields
    <2> HIDE DEF results, cone
    <2> QED BY <2>2, <2>3
<1>4. PICK pc \in {"filter", "paused", "answered"} : \E cone :
         req' = [req EXCEPT !.pc = pc, !.results = results, !.cone = cone]
    BY <1>3
<1>5. PICK cone : req' = [req EXCEPT !.pc = pc, !.results = results, !.cone = cone]
    BY <1>4
<1>6. DOMAIN entries = ids /\ \A o \in ids : entries[o] = req.built[o]
    OBVIOUS
<1> HIDE DEF entries
<1>7. /\ IsResult(res) /\ res.ids = ids /\ res.entries = entries /\ res.marks = req.results[1].marks
    BY <1>2 DEF IsResult, ResultFields
<1> HIDE DEF res
<1>8. DOMAIN results = {1} /\ results[1] = res
    BY <1>2
<1> HIDE DEF results
<1>9. /\ IsRequest(req') /\ req'.pc = pc /\ req'.asked = req.asked /\ req'.results = results
      /\ req'.route = req.route /\ req'.detail = req.detail /\ req'.spec = req.spec
      /\ req'.migrated = req.migrated /\ req'.told = req.told /\ req'.read = req.read
    BY <1>1, <1>5 DEF IsRequest, RequestFields
<1>10. ConeGoesOn
    BY <1>1, <1>2, <1>4, <1>6, <1>7, <1>8, <1>9 DEF ConeGoesOn
<1> QED BY <1>10, ConeFrame

\* The listed objects are among those whose marks are read.
LEMMA MarkKeepsTruth == ASSUME TruthInv, MarkPage PROVE TruthInv'
<1>1. /\ StoreTyped /\ UNCHANGED <<rows, clock, reverted>> /\ IsRequest(req) /\ IsRead(req.read)
      /\ req.pc = "filter" /\ req.route = "cone" /\ Running
    BY DEF TruthInv, Shape, MarkPage, storeVars, Running
<1>2. /\ DOMAIN req.results = {1} /\ IsResult(req.results[1]) /\ req.asked \subseteq Objects
      /\ DOMAIN req.results[1].entries \subseteq req.results[1].ids
      /\ \A o \in DOMAIN req.results[1].entries :
            o \in Objects /\ TruthfulIn(o, req.results[1].entries[o], req.told, reverted)
    BY <1>1 DEF TruthInv, Shape, ConeRight, AskedKnown, EntriesRight
<1>3. PICK old : old = req.results[1]
    OBVIOUS
<1>4. PICK ids : ids = req.candidates[1] \cup old.ids
    OBVIOUS
<1>5. PICK quals : quals = QualifyObjects(ids, req.spec)
    OBVIOUS
<1>6. PICK m : m = MarkEntries(old, quals, req.spec)
    OBVIOUS
<1>7. PICK res : res = MarkResult(m, req.candidates[1], quals, req.spec)
    OBVIOUS
<1> DEFINE pc == IF req.cone.token.kind # "none" THEN "paused" ELSE "answered"
           results == [req.results EXCEPT ![1] = res]
<1>8. req' = [req EXCEPT !.pc = pc, !.results = results]
    <2>1. req' = [req EXCEPT !.pc = pc,
                             !.results[1] = MarkResult(MarkEntries(@, quals, req.spec),
                                                       req.candidates[1], quals, req.spec)]
        BY <1>3, <1>4, <1>5 DEF MarkPage
    <2>2. req' = [req EXCEPT !.pc = pc, !.results[1] = res]
        BY <1>1, <1>2, <1>3, <1>6, <1>7, <2>1
    <2> HIDE DEF pc
    <2> QED BY <1>1, <1>2, <2>2 DEF IsRequest, RequestFields
<1>9. pc \in {"paused", "answered"}
    OBVIOUS
<1> HIDE DEF pc
<1>10. /\ IsResult(m) /\ m.entries = old.entries /\ DOMAIN m.marks = DOMAIN old.entries
       /\ \A o \in DOMAIN old.entries :
             m.marks[o] = MarkOf(o, old.entries[o].status, quals, req.spec)
    BY <1>2, <1>3, <1>6, EntriesMarked
<1>11. IsResult(res) /\ res.entries = old.entries /\ res.marks = m.marks
    BY <1>7, <1>10, ResultMarked
<1>12. ASSUME NEW o \in DOMAIN res.marks
       PROVE  \E now \in req.told[o] : now.mark = res.marks[o].yes
    <2>1. o \in DOMAIN old.entries /\ o \in ids
        BY <1>2, <1>3, <1>4, <1>10, <1>11
    <2>2. PICK entry : entry = old.entries[o]
        OBVIOUS
    <2>3. o \in Objects /\ TruthfulIn(o, entry, req.told, reverted)
        BY <1>2, <1>3, <2>1, <2>2
    <2>4. res.marks[o] = MarkOf(o, entry.status, QualifyObjects(ids, req.spec), req.spec)
        BY <1>5, <1>10, <1>11, <2>1, <2>2
    <2> QED BY <1>1, <2>1, <2>3, <2>4, MarksAreTold
<1>13. DOMAIN results = {1} /\ results[1] = res
    BY <1>2
<1> HIDE DEF results
<1>14. /\ IsRequest(req') /\ req'.pc = pc /\ req'.asked = req.asked /\ req'.results = results
       /\ req'.route = req.route /\ req'.detail = req.detail /\ req'.spec = req.spec
       /\ req'.migrated = req.migrated /\ req'.told = req.told /\ req'.read = req.read
    BY <1>1, <1>8 DEF IsRequest, RequestFields
<1>15. ~ Running'
    BY <1>9, <1>14 DEF Running
<1>16. ConeGoesOn
    BY <1>1, <1>2, <1>3, <1>9, <1>11, <1>12, <1>13, <1>14, <1>15 DEF ConeGoesOn
<1> QED BY <1>16, ConeFrame

-----------------------------------------------------------------------------
LEMMA OthersKeepTruth ==
    ASSUME TruthInv, UNCHANGED <<rows, clock, reverted, req>> PROVE TruthInv'
<1>1. Shape' /\ AskedKnown' /\ Unmarked' /\ ConeRight' /\ EntriesRight' /\ BuiltRight'
    BY DEF TruthInv, Shape, StoreTyped, AskedKnown, Unmarked, ConeRight, EntriesRight, BuiltRight,
           Running, Answered
<1>2. ToldNow' /\ MarkWasTrue'
    BY DEF TruthInv, ToldNow, MarkWasTrue, AnswerNow, Running, Answered
<1>3. ReadsRight'
    <2>1. DoneIds' = DoneIds /\ \A o : Crossmatched(o)' = Crossmatched(o)
        BY DEF DoneIds, Crossmatched
    <2>2. \A o : /\ RowsRead(o)' = RowsRead(o) /\ Committed(o)' = Committed(o)
                  /\ EntryOf(o, rows[o].tns)' = EntryOf(o, rows[o].tns)
        BY <2>1 DEF RowsRead, Committed, EntryOf, OrNone
    <2>3. \A o : ReadRight(o)' = ReadRight(o)
        BY <2>1, <2>2 DEF ReadRight, OrNone
    <2> QED BY <2>3 DEF TruthInv, ReadsRight, Gathering
<1>4. LookupRight'
    <2>1. IdInputs(req') = IdInputs(req) /\ ConeInputs(req') = ConeInputs(req)
        OBVIOUS
    <2> QED BY <2>1 DEF TruthInv, LookupRight, Running, Building, Gathering, ConeAhead
<1> QED BY <1>1, <1>2, <1>3, <1>4 DEF TruthInv

LEMMA LookupsKeepTruth == ASSUME TruthInv, LookupStep \/ BuildStep PROVE TruthInv'
<1>1. ASSUME NEW r \in Lookups, NEW migrated \in BOOLEAN, Submit(r, migrated) PROVE TruthInv'
    <2>1. r.route # "cone"
        BY LookupAssumption DEF LookupParams
    <2> QED BY <1>1, <2>1, SubmitKeepsTruth
<1>2. CASE ResolveNames \/ SearchAll
    <2>1. req.route # "cone"
        BY <1>2 DEF TruthInv, ConeRight, ResolveNames, SearchAll
    <2> QED BY <1>2, <2>1, NamesKeepTruth, SearchKeepsTruth
<1> QED BY <1>1, <1>2, AssembleKeepsTruth, FiltersKeepTruth, AlertsKeepTruth, RecordsKeepTruth,
           MatchedKeepsTruth, MatchesKeepTruth, BrokersKeepTruth, BuildKeepsTruth
        DEF LookupStep, BuildStep

LEMMA ConesKeepTruth == ASSUME TruthInv, ConeStep PROVE TruthInv'
BY AskConeKeepsTruth, FetchKeepsTruth, CountKeepsTruth, WholeKeepsTruth, PageKeepsTruth,
   MarkKeepsTruth
   DEF ConeStep

LEMMA ChatsKeepTruth == ASSUME TruthInv, ChatStep PROVE TruthInv'
<1>1. ASSUME NEW raws, AskLookup(raws) PROVE TruthInv'
    <2>1. CASE UNCHANGED <<storeVars, req>>
        BY <2>1, OthersKeepTruth DEF storeVars
    <2>2. ASSUME NEW inputs,
                 Submit([route |-> "lookup", body |-> TRUE, detail |-> "full",
                         radius |-> "absent", filters |-> {}, response |-> "absent",
                         inputs |-> inputs], TRUE)
          PROVE  TruthInv'
        BY <2>2, SubmitKeepsTruth
    <2> QED BY <1>1, <2>1, <2>2 DEF AskLookup
<1>2. ASSUME NEW c, AskNear(c) PROVE TruthInv'
    BY <1>2, AskConeKeepsTruth DEF AskNear
<1>3. CASE Project
    BY <1>3, OthersKeepTruth DEF Project, storeVars
<1>4. CASE ResolveNames \/ SearchAll \/ Assemble
    BY <1>4, LookupsKeepTruth DEF LookupStep
<1>5. CASE FetchPage \/ CountWhole \/ MakePage
    BY <1>5, ConesKeepTruth DEF ConeStep
<1> QED BY <1>1, <1>2, <1>3, <1>4, <1>5 DEF ChatStep

LEMMA TruthIsKept == Spec => []TruthInv
<1>1. ASSUME TruthInv, [Next]_readVars PROVE TruthInv'
    <2>1. CASE UNCHANGED readVars
        BY <1>1, <2>1, OthersKeepTruth DEF readVars, storeVars
    <2>2. CASE StoreStepSeen
        BY <1>1, <2>2, CommitsAreTold
    <2>3. CASE WalkStep /\ UNCHANGED req
        <3>1. UNCHANGED storeVars
            BY <2>3 DEF WalkStep, Ask, FetchRows, LoadMatches, Deliver
        <3> QED BY <1>1, <2>3, <3>1, OthersKeepTruth DEF storeVars
    <2>4. CASE SummaryStep /\ UNCHANGED req
        <3>1. UNCHANGED storeVars
            BY <2>4 DEF SummaryStep, AskSummary, NightRows, PendingCount, Reliability,
                        BrokerCounts, CatalogBuckets, Top
        <3> QED BY <1>1, <2>4, <3>1, OthersKeepTruth DEF storeVars
    <2>5. CASE LookupStep \/ BuildStep
        BY <1>1, <2>5, LookupsKeepTruth
    <2>6. CASE ConeStep
        BY <1>1, <2>6, ConesKeepTruth
    <2>7. CASE ChatStep
        BY <1>1, <2>7, ChatsKeepTruth
    <2> QED BY <1>1, <2>1, <2>2, <2>3, <2>4, <2>5, <2>6, <2>7 DEF Next
<1> QED BY <1>1, TruthBegins, PTL DEF Spec

\* The entries of a lookup or a cone, each put together from up to six statements,
\* were true of their objects at one moment of the request, but for the brokers of
\* an object still to be crossmatched.
THEOREM EntriesWereTrue == Spec => []EntryWasTrue
<1>1. TruthInv => EntryWasTrue
    BY DEF TruthInv, EntriesRight, EntryWasTrue, TruthfulIn
<1> QED BY <1>1, TruthIsKept, PTL

\* So were the marks that filters put on them.
THEOREM MarksWereTrue == Spec => []MarkWasTrue
<1>1. TruthInv => MarkWasTrue
    BY DEF TruthInv
<1> QED BY <1>1, TruthIsKept, PTL

-----------------------------------------------------------------------------
\* Rows that have matches have one of the highest version.
LEMMA HighestExists ==
    ASSUME NEW V, V \subseteq Nat, V # {}, NEW top \in Nat, \A v \in V : v <= top
    PROVE  \E v \in V : \A w \in V : w <= v
<1> DEFINE above(v) == {k \in 0 .. top : k > v}
<1>1. PICK S : S = 0 .. top
    OBVIOUS
<1>2. IsFiniteSet(S)
    BY <1>1, FS_Interval
<1>3. PICK T : T = {above(v) : v \in V}
    OBVIOUS
<1>4. T # {} /\ \A B \in T : B \subseteq S
    BY <1>1, <1>3
<1>5. PICK A \in T : \A B \in T : B \subseteq A => B = A
    <2> HIDE DEF above
    <2> QED BY <1>2, <1>4, SmallestSubset
<1>6. PICK v \in V : A = above(v)
    BY <1>3, <1>5
<1>7. ASSUME NEW w \in V, w > v PROVE FALSE
    <2>1. above(w) \subseteq above(v) /\ w \in above(v) /\ w \notin above(w)
        BY <1>6, <1>7
    <2>2. above(w) \in T
        BY <1>3
    <2> HIDE DEF above
    <2> QED BY <1>5, <1>6, <2>1, <2>2
<1> QED BY <1>7

LEMMA LatestExists == ASSUME NEW ms, ms \subseteq Matches, ms # {} PROVE Latest(ms) # {}
<1>1. Versions \subseteq Nat /\ \A m \in ms : m.version \in Versions
    BY StoreAssumption DEF Matches
<1>2. PICK top \in Versions : \A w \in Versions : w <= top
    BY StoreAssumption
<1>3. PICK V : V = {m.version : m \in ms}
    OBVIOUS
<1>4. V \subseteq Versions /\ V # {}
    BY <1>1, <1>3
<1>5. V \subseteq Nat /\ top \in Nat /\ \A v \in V : v <= top
    BY <1>1, <1>2, <1>4
<1>6. PICK v \in V : \A w \in V : w <= v
    BY <1>4, <1>5, HighestExists
<1>7. PICK m \in ms : m.version = v
    BY <1>3
<1>8. \A n \in ms : n.version <= m.version
    BY <1>3, <1>6, <1>7
<1> QED BY <1>8 DEF Latest

\* The reads of the other parts are stutters of the walk, and so is every
\* request beside it.
LEMMA ReadsAreWalks == Spec => WalkSpec
<1>1. Init => WalkInit
    BY DEF Init
<1>2. [Next]_readVars => [WalkNext]_<<storeVars, walk>>
    <2> SUFFICES ASSUME [Next]_readVars PROVE [WalkNext]_<<storeVars, walk>>
        OBVIOUS
    <2>1. BuildStep => UNCHANGED storeVars
        BY DEF BuildStep, ReadAlerts, ReadRecords, ReadMatched, ReadMatches, ReadBrokers,
           BuildObjects
    <2>2. LookupStep => UNCHANGED storeVars
        BY DEF LookupStep, Submit, ResolveNames, SearchAll, Assemble, ApplyFilters
    <2>3. ConeStep => UNCHANGED storeVars
        BY DEF ConeStep, AskCone, FetchPage, CountWhole, FetchCandidates, MakePage, MarkPage
    <2>4. SummaryStep => UNCHANGED storeVars
        BY DEF SummaryStep, AskSummary, NightRows, PendingCount, Reliability, BrokerCounts,
               CatalogBuckets, Top
    <2>5. ChatStep => UNCHANGED storeVars
        BY <2>2, <2>3 DEF ChatStep, AskLookup, AskNear, Project, LookupStep, ConeStep,
               Submit, AskCone
    <2>6. CASE UNCHANGED readVars
        BY <2>6 DEF readVars
    <2>7. CASE StoreStepSeen /\ UNCHANGED walk
        BY <2>7 DEF StoreStepSeen, WalkNext
    <2>8. CASE WalkStep
        BY <2>8 DEF WalkNext
    <2>9. CASE UNCHANGED walk /\ (SummaryStep \/ LookupStep \/ ConeStep \/ BuildStep \/ ChatStep)
        BY <2>1, <2>2, <2>3, <2>4, <2>5, <2>9
    <2> QED BY <2>6, <2>7, <2>8, <2>9 DEF Next
<1> QED BY <1>1, <1>2, PTL DEF Spec, WalkSpec

\* A client that follows next_cursor gets each object exactly once, whatever the
\* pipeline commits and the other clients ask.
THEOREM ReadsStayExact == Spec => []WalkIsExact
BY ReadsAreWalks, WalkStaysExact, PTL

\* The rows on a page keep their matches.
ListedInv ==
    /\ StoreTyped
    /\ Reading => /\ walk.page \subseteq Objects
                  /\ \A o \in walk.page : Committed(o) /\ rows[o].matches # {}
    /\ ListedHasMatches

LEMMA ListedIsKept == WalkSpec => []ListedInv
<1>1. WalkInit => ListedInv
    BY ConstantsTyped DEF WalkInit, InitStore, ListedInv, StoreTyped, FreshWalk, Reading, ListedHasMatches
<1>2. ASSUME ListedInv, StoreStep, UNCHANGED walk PROVE ListedInv'
    <2>1. StoreTyped' /\ \A o \in Objects : RowKept(o)
        BY <1>2, StoreGoesOn DEF ListedInv
    <2>2. ASSUME Reading, NEW o \in walk.page
          PROVE  Committed(o)' /\ rows'[o].matches # {} /\ rows[o].matches \subseteq rows'[o].matches
        BY <1>2, <2>1, <2>2 DEF ListedInv, RowKept
    <2>3. ListedHasMatches'
        BY <1>2, <2>2 DEF ListedInv, ListedHasMatches, Reading
    <2> QED BY <1>2, <2>1, <2>2, <2>3 DEF ListedInv, Reading
<1>3. ASSUME ListedInv, WalkInv, WalkStep PROVE ListedInv'
    <2>1. StoreTyped' /\ rows' = rows /\ walk \in Walks
        BY <1>3 DEF ListedInv, StoreTyped, WalkInv, WellFormed, WalkStep, Ask, FetchRows, LoadMatches,
                    Deliver, storeVars
    <2>2. ASSUME NEW p, NEW c, Ask(p, c) PROVE ListedInv'
        <3>1. walk'.pc \in {"refused", "rows"}
            BY <2>1, <2>2 DEF Ask, Walks
        <3> QED BY <2>1, <3>1 DEF ListedInv, Reading, ListedHasMatches
    <2>3. CASE FetchRows
        <3> DEFINE page == FirstOf(Eligible, walk.size, walk.query.field)
        <3>1. /\ walk'.page = page /\ walk'.query = walk.query
              /\ walk'.pc = "page" => walk.query.detail \notin {"matches", "full"} \/ page = {}
            BY <2>1, <2>3 DEF FetchRows, Walks
        <3>2. page \subseteq Objects /\ \A o \in page : Committed(o) /\ rows[o].matches # {}
            BY DEF FirstOf, Eligible, InWindow
        <3> HIDE DEF page
        <3>3. Committed(0) = Committed(0)' /\ \A o \in page : Committed(o)'
            BY <2>1, <3>2 DEF Committed
        <3>4. ListedHasMatches'
            BY <3>1 DEF ListedHasMatches
        <3> QED BY <2>1, <3>1, <3>2, <3>3, <3>4 DEF ListedInv
    <2>4. CASE LoadMatches
        <3>1. /\ walk'.page = walk.page /\ walk'.query = walk.query /\ walk'.pc = "page" /\ Reading
              /\ walk'.entries = {o \in walk.page : HasEntry(o)}
            BY <2>1, <2>4 DEF LoadMatches, Walks, Reading
        <3>2. walk.page \subseteq Objects /\ \A o \in walk.page : Committed(o)' /\ rows[o].matches # {}
            BY <1>3, <2>1, <3>1 DEF ListedInv, Committed
        <3>3. ASSUME NEW o \in walk.page, ~ HasEntry(o)
              PROVE  /\ walk.query.detail = "full"
                     /\ \E m \in rows[o].matches : <<o, m.catalog>> \in Unbuildable
            <4>1. rows[o].matches \in SUBSET Matches
                BY <1>3, <3>2 DEF ListedInv, StoreTyped, Rows
            <4>2. PICK m \in Latest(rows[o].matches) : TRUE
                BY <3>2, <4>1, LatestExists
            <4>3. m \in rows[o].matches
                BY <4>2 DEF Latest
            <4> QED BY <3>3, <4>2, <4>3 DEF HasEntry
        <3>4. ListedHasMatches'
            BY <2>1, <3>1, <3>3 DEF ListedHasMatches
        <3> QED BY <2>1, <3>1, <3>2, <3>4 DEF ListedInv
    <2>5. CASE Deliver
        <3>1. walk'.pc \in {"paused", "end"}
            BY <2>1, <2>5 DEF Deliver, Walks
        <3> QED BY <2>1, <3>1 DEF ListedInv, Reading, ListedHasMatches
    <2> QED BY <1>3, <2>2, <2>3, <2>4, <2>5 DEF WalkStep
<1>4. ASSUME ListedInv, UNCHANGED <<storeVars, walk>> PROVE ListedInv'
    <2>1. rows' = rows /\ clock' = clock /\ walk' = walk
        BY <1>4 DEF storeVars
    <2> QED BY <1>4, <2>1 DEF ListedInv, StoreTyped, Reading, Committed, ListedHasMatches
<1>5. ListedInv /\ WalkInv /\ [WalkNext]_<<storeVars, walk>> => ListedInv'
    BY <1>2, <1>3, <1>4 DEF WalkNext
<1> QED BY <1>1, <1>5, WalkStays, PTL DEF WalkSpec

\* What the service says of an object, on a page, in a lookup, in a cone or to a
\* chat, was true of it while the request ran.
THEOREM AnswersWereTrue == Spec => []AnswerWasTrue
<1>1. ListedInv => ListedHasMatches
    BY DEF ListedInv
<1> QED BY <1>1, ReadsAreWalks, ListedIsKept, EntriesWereTrue, MarksWereTrue, PTL DEF AnswerWasTrue
-----------------------------------------------------------------------------
\* The pages of a cone, from its first to the one that ends it.  A request goes on
\* with the walk of the token it presents: what was served lies before the place
\* the token names, and what was due and was not served lies behind it.
ConeFields == {"centre", "asOf", "after", "size", "order", "page", "more", "seen", "due", "token"}
IsConeRecord(c) == c = [f \in ConeFields |-> c[f]]
IsToken(t) == t = [f \in {"kind", "at", "asOf", "centre", "detail"} |-> t[f]]

\* A position in ingest order.
IsPlace(at) == /\ at # <<>> /\ at[1] \in Int /\ at[2] \in Int

Listing == req.pc \in {"total", "whole"} \/ Building

ConeTyped ==
    LET c == req.cone
    IN  /\ IsConeRecord(c) /\ IsToken(c.token)
        /\ c.order \in {"ingest", "nearest"}
        /\ ~req.count => c.size \in Nat \ {0}
        /\ c.after = <<>> \/ IsPlace(c.after)

\* Before the page is fetched, and while it is made.
Continued ==
    LET c == req.cone
    IN  /\ \A o \in c.seen : ~ After(o, c.after)
        /\ c.order = "nearest" => c.after = <<>>
        /\ c.after # <<>> /\ req.pc = "page" =>
              \A o \in c.due : o \in c.seen \/ After(o, c.after)

PageIsNext ==
    LET c == req.cone
    IN  /\ c.page \subseteq PinnedSet
        /\ \A o \in c.page : After(o, c.after)
        /\ c.more /\ c.order = "ingest" => c.page # {}
        /\ c.more => ~req.count
        /\ c.order = "ingest" =>
              \A o \in c.due : \/ o \in c.seen \cup c.page
                               \/ c.more /\ \A x \in c.page : Sooner(x, o)
        /\ req.pc # "total" => Cardinality(c.seen \cup c.page) <= req.results[1].total

PageIsServed ==
    LET c == req.cone
        t == c.token
    IN  /\ Cardinality(c.seen) <= req.results[1].total
        /\ t.kind = "none" /\ c.order = "ingest" => c.due \subseteq c.seen
        /\ t.kind # "none" =>
              /\ c.order = "ingest" /\ ~req.count
              /\ IsPlace(t.at) /\ t.asOf = c.asOf /\ t.centre = c.centre
              /\ \A o \in c.seen : ~ After(o, t.at)
              /\ \A o \in c.due : o \in c.seen \/ After(o, t.at)
        /\ req.pc = "paused" => t.kind # "none"
        /\ req.pc = "answered" => t.kind = "none"

ConeHolds ==
    /\ ConeTyped
    /\ req.cone.seen \subseteq PinnedSet /\ req.cone.due \subseteq PinnedSet
    /\ req.pc = "page" \/ Listing => Continued
    /\ Listing => PageIsNext
    /\ req.pc \in {"filter", "paused", "answered"} => PageIsServed

ConeInv ==
    /\ req.pc = "paused" => req.route = "cone"
    /\ req.route = "cone" /\ req.pc \notin {"start", "refused"} => ConeHolds

-----------------------------------------------------------------------------
\* A finite set has a first and a last element of a strict order, and the
\* elements with fewer than n before them come before the others.
Orders(R, S) ==
    /\ \A x \in S : <<x, x>> \notin R
    /\ \A x, y \in S : x # y => <<x, y>> \in R \/ <<y, x>> \in R
    /\ \A x, y, z \in S : <<x, y>> \in R /\ <<y, z>> \in R => <<x, z>> \in R

LEMMA OrderBegins ==
    ASSUME NEW S, IsFiniteSet(S), S # {}, NEW R, Orders(R, S)
    PROVE  \E x \in S : \A y \in S \ {x} : <<x, y>> \in R
<1> DEFINE ahead(x) == {y \in S : <<y, x>> \in R}
<1>1. PICK T : T = {ahead(x) : x \in S}
    OBVIOUS
<1>2. T # {} /\ \A B \in T : B \subseteq S
    BY <1>1
<1>3. PICK A \in T : \A B \in T : B \subseteq A => B = A
    <2> HIDE DEF ahead
    <2> QED BY <1>2, SmallestSubset
<1>4. PICK x \in S : A = ahead(x)
    BY <1>1, <1>3
<1>5. ASSUME NEW y \in S \ {x}, <<x, y>> \notin R PROVE FALSE
    <2>1. <<y, x>> \in R
        BY <1>5 DEF Orders
    <2>2. ahead(y) \subseteq ahead(x) /\ y \in ahead(x) /\ y \notin ahead(y)
        BY <1>5, <2>1 DEF Orders
    <2>3. ahead(y) \in T
        BY <1>1, <1>5
    <2> HIDE DEF ahead
    <2> QED BY <1>3, <1>4, <2>2, <2>3
<1> QED BY <1>5

LEMMA OrderEnds ==
    ASSUME NEW S, IsFiniteSet(S), S # {}, NEW R, Orders(R, S)
    PROVE  \E x \in S : \A y \in S \ {x} : <<y, x>> \in R
<1>1. PICK Q : Q = {p \in S \X S : <<p[2], p[1]>> \in R}
    OBVIOUS
<1>2. \A x, y \in S : <<x, y>> \in Q <=> <<y, x>> \in R
    BY <1>1
<1>3. Orders(Q, S)
    BY <1>2 DEF Orders
<1>4. PICK x \in S : \A y \in S \ {x} : <<x, y>> \in Q
    BY <1>3, OrderBegins
<1> QED BY <1>2, <1>4

Preceding(R, S, o) == {p \in S : <<p, o>> \in R}

LEMMA OrderLeads ==
    ASSUME NEW S, IsFiniteSet(S), NEW R, Orders(R, S), NEW n, n \in Nat \ {0}, NEW L,
           L \subseteq S, \A o \in S : o \in L <=> Cardinality(Preceding(R, S, o)) < n
    PROVE  /\ S # {} => L # {}
           /\ \A o \in S \ L : \A x \in L : <<x, o>> \in R
<1> DEFINE ahead(o) == Preceding(R, S, o)
<1>1. \A o \in S : IsFiniteSet(ahead(o)) /\ Cardinality(ahead(o)) \in Nat
    <2>1. \A o \in S : ahead(o) \in SUBSET S
        BY DEF Preceding
    <2> HIDE DEF ahead
    <2> QED BY <2>1, FS_Subset, FS_CardinalityType
<1>2. \A o \in S : o \in L <=> Cardinality(ahead(o)) < n
    OBVIOUS
<1>3. ASSUME S # {} PROVE L # {}
    <2>1. PICK x \in S : \A y \in S \ {x} : <<x, y>> \in R
        BY <1>3, OrderBegins
    <2>2. ahead(x) = {}
        BY <2>1 DEF Orders, Preceding
    <2>3. Cardinality(ahead(x)) = 0
        BY <2>2, FS_EmptySet
    <2>4. 0 < n
        OBVIOUS
    <2>5. x \in S /\ Cardinality(ahead(x)) < n
        BY <2>1, <2>3, <2>4
    <2> HIDE DEF ahead
    <2> QED BY <1>2, <2>5
<1>4. ASSUME NEW o \in S \ L, NEW x \in L, <<x, o>> \notin R PROVE FALSE
    <2>1. x \in S /\ x # o
        BY <1>4
    <2>2. <<o, x>> \in R
        BY <1>4, <2>1 DEF Orders
    <2>3. ahead(o) \subseteq ahead(x)
        BY <2>1, <2>2 DEF Orders, Preceding
    <2> HIDE DEF ahead
    <2>4. Cardinality(ahead(o)) <= Cardinality(ahead(x))
        BY <1>1, <2>1, <2>3, FS_Subset
    <2> QED BY <1>1, <1>2, <1>4, <2>1, <2>4
<1> QED BY <1>3, <1>4

-----------------------------------------------------------------------------
\* The pages of a cone: ingest order, ties by the identifier.
LEMMA IngestOrders ==
    ASSUME StoreTyped, NEW S, S \subseteq Objects
    PROVE  Orders({p \in S \X S : Sooner(p[1], p[2])}, S)
<1>1. \A o \in S : rows[o].ingest \in Nat /\ o \in Nat
    BY ConstantsTyped DEF StoreTyped, Rows
<1> QED BY <1>1 DEF Orders, Sooner

LEMMA LeadingInIngestOrder ==
    ASSUME StoreTyped, NEW S, S \subseteq Objects, NEW n \in Nat \ {0}
    PROVE  /\ Leading(S, n, Sooner) \subseteq S
           /\ S # {} => Leading(S, n, Sooner) # {}
           /\ \A o \in S \ Leading(S, n, Sooner) : \A x \in Leading(S, n, Sooner) : Sooner(x, o)
<1>1. PICK R : R = {p \in S \X S : Sooner(p[1], p[2])}
    OBVIOUS
<1>2. IsFiniteSet(S) /\ Orders(R, S)
    BY <1>1, IngestOrders, ConstantsTyped, FS_Subset
<1>3. \A x, y \in S : <<x, y>> \in R <=> Sooner(x, y)
    BY <1>1
<1>4. \A o \in S : {p \in S : Sooner(p, o)} = Preceding(R, S, o)
    BY <1>3 DEF Preceding
<1>5. PICK L : L = Leading(S, n, Sooner)
    OBVIOUS
<1>6. L \subseteq S /\ \A o \in S : o \in L <=> Cardinality(Preceding(R, S, o)) < n
    BY <1>4, <1>5 DEF Leading
<1>7. (S # {} => L # {}) /\ \A o \in S \ L : \A x \in L : <<x, o>> \in R
    BY <1>2, <1>6, OrderLeads
<1> QED BY <1>3, <1>5, <1>6, <1>7

LEMMA LastListedIsLast ==
    ASSUME StoreTyped, req.cone.page \subseteq Objects, req.cone.page # {}
    PROVE  LastListed \in req.cone.page /\ \A p \in req.cone.page \ {LastListed} : Sooner(p, LastListed)
<1>1. PICK S : S = req.cone.page
    OBVIOUS
<1>2. PICK R : R = {p \in S \X S : Sooner(p[1], p[2])}
    OBVIOUS
<1>3. IsFiniteSet(S) /\ Orders(R, S)
    BY <1>1, <1>2, IngestOrders, ConstantsTyped, FS_Subset
<1>4. PICK x \in S : \A y \in S \ {x} : <<y, x>> \in R
    BY <1>1, <1>3, OrderEnds
<1>5. \E o \in req.cone.page : \A p \in req.cone.page \ {o} : Sooner(p, o)
    BY <1>1, <1>2, <1>4
<1> QED BY <1>5 DEF LastListed

-----------------------------------------------------------------------------
\* Commits, and the statements that build entries, leave the walk as it is: what
\* was inside the radius under the pin stays there, at its place in the order.
LEMMA ConeStays ==
    ASSUME ConeInv, \A o \in Objects : RowKept(o),
           req'.route = req.route, req'.count = req.count, req'.cone = req.cone,
           req'.results[1].total = req.results[1].total,
           req'.pc = req.pc \/ (Building /\ Building')
    PROVE  ConeInv'
<1>1. /\ (req'.pc = "page" <=> req.pc = "page") /\ (Listing' <=> Listing)
      /\ (req'.pc = "total" <=> req.pc = "total")
      /\ \A p \in {"start", "refused", "filter", "paused", "answered"} : req'.pc = p <=> req.pc = p
    <2>1. CASE req'.pc = req.pc
        BY <2>1 DEF Listing, Building, Gathering
    <2>2. CASE Building /\ Building'
        BY <2>2 DEF Listing, Building, Gathering
    <2> QED BY <2>1, <2>2
<1> SUFFICES ASSUME req.route = "cone", req.pc \notin {"start", "refused"} PROVE ConeHolds'
    BY <1>1 DEF ConeInv
<1>2. /\ ConeTyped /\ req.cone.seen \subseteq PinnedSet /\ req.cone.due \subseteq PinnedSet
      /\ req.pc = "page" \/ Listing => Continued
      /\ Listing => PageIsNext
      /\ req.pc \in {"filter", "paused", "answered"} => PageIsServed
    BY DEF ConeInv, ConeHolds
<1>3. \A o \in PinnedSet : o \in PinnedSet' /\ rows'[o].ingest = rows[o].ingest
    BY DEF PinnedSet, Inside, RowKept, Committed
<1>4. ASSUME NEW o \in PinnedSet, NEW at PROVE After(o, at) <=> After(o, at)'
    BY <1>3, <1>4 DEF After
<1>5. ASSUME NEW o \in PinnedSet, NEW x \in PinnedSet PROVE Sooner(x, o) <=> Sooner(x, o)'
    BY <1>3, <1>5 DEF Sooner
<1>6. ConeTyped' /\ req'.cone.seen \subseteq PinnedSet' /\ req'.cone.due \subseteq PinnedSet'
    BY <1>2, <1>3 DEF ConeTyped
<1>7. req'.pc = "page" \/ Listing' => Continued'
    <2> SUFFICES ASSUME req.pc = "page" \/ Listing PROVE Continued'
        BY <1>1
    <2>1. Continued
        BY <1>2
    <2>2. \A o \in req.cone.seen \cup req.cone.due : After(o, req.cone.after) <=> After(o, req.cone.after)'
        BY <1>2, <1>4
    <2> QED BY <1>1, <2>1, <2>2 DEF Continued
<1>8. Listing' => PageIsNext'
    <2> SUFFICES ASSUME Listing PROVE PageIsNext'
        BY <1>1
    <2>1. PageIsNext
        BY <1>2
    <2>2. \A o \in req.cone.page : o \in PinnedSet /\ (After(o, req.cone.after) <=> After(o, req.cone.after)')
        BY <1>4, <2>1 DEF PageIsNext
    <2>3. \A o \in req.cone.due : \A x \in req.cone.page : Sooner(x, o) <=> Sooner(x, o)'
        BY <1>2, <1>5, <2>2
    <2> QED BY <1>1, <1>3, <2>1, <2>2, <2>3 DEF PageIsNext
<1>9. req'.pc \in {"filter", "paused", "answered"} => PageIsServed'
    <2> SUFFICES ASSUME req.pc \in {"filter", "paused", "answered"} PROVE PageIsServed'
        BY <1>1
    <2>1. PageIsServed
        BY <1>2
    <2>2. \A o \in req.cone.seen \cup req.cone.due :
             After(o, req.cone.token.at) <=> After(o, req.cone.token.at)'
        BY <1>2, <1>4
    <2> QED BY <1>1, <2>1, <2>2 DEF PageIsServed
<1> QED BY <1>6, <1>7, <1>8, <1>9 DEF ConeHolds

LEMMA BuildKeepsCone ==
    ASSUME TruthInv, ConeInv, BuildStep PROVE ConeInv'
<1>1. Building /\ Building' /\ UNCHANGED rows
    BY BuildSteps DEF storeVars
<1>2. \A o \in Objects : RowKept(o)
    BY <1>1 DEF RowKept, Committed
<1>3. /\ req'.route = req.route /\ req'.count = req.count /\ req'.cone = req.cone
      /\ req'.results = req.results
    BY BuildSteps DEF RequestFields
<1> QED BY <1>1, <1>2, <1>3, ConeStays DEF Building, Gathering

LEMMA StoreKeepsCone ==
    ASSUME TruthInv, ConeInv, StoreStepSeen PROVE ConeInv'
<1>1. \A o \in Objects : RowKept(o)
    BY StoreGoesOn DEF TruthInv, Shape, StoreStepSeen
<1>2. \E told : req' = req \/ req' = [req EXCEPT !.told = told]
    BY DEF StoreStepSeen
<1>3. req'.route = req.route /\ req'.count = req.count /\ req'.cone = req.cone
      /\ req'.results = req.results /\ req'.pc = req.pc
    BY <1>2 DEF TruthInv, Shape, IsRequest, RequestFields
<1> QED BY <1>1, <1>3, ConeStays

LEMMA OthersKeepCone ==
    ASSUME ConeInv, UNCHANGED <<rows, req>> PROVE ConeInv'
<1>1. \A o \in Objects : RowKept(o)
    BY DEF RowKept, Committed
<1> QED BY <1>1, ConeStays

\* A request that is not a cone's, or was refused, says nothing of a walk.
LEMMA NoWalk ==
    ASSUME req'.pc # "paused", req'.route # "cone" \/ req'.pc = "refused"
    PROVE  ConeInv'
BY DEF ConeInv

LEMMA WholeKeepsCone ==
    ASSUME TruthInv, ConeInv, FetchCandidates PROVE ConeInv'
<1>1. IsRequest(req) /\ UNCHANGED rows /\ req.pc = "whole" /\ req.route = "cone"
    BY DEF TruthInv, Shape, ConeRight, FetchCandidates, storeVars
<1>2. \E candidates : req' = [req EXCEPT !.pc = "alerts", !.candidates = candidates]
    BY DEF FetchCandidates
<1>3. req'.route = req.route /\ req'.count = req.count /\ req'.cone = req.cone
      /\ req'.results = req.results /\ req'.pc = "alerts"
    BY <1>1, <1>2 DEF IsRequest, RequestFields
<1>4. \A o, at : After(o, at)' = After(o, at)
    BY <1>1 DEF After
<1>5. \A o, x : Sooner(x, o)' = Sooner(x, o)
    BY <1>1 DEF Sooner
<1>6. PinnedSet' = PinnedSet
    BY <1>1, <1>3 DEF PinnedSet, Inside, Committed
<1>7. ConeTyped /\ Continued /\ PageIsNext /\ req.cone.seen \subseteq PinnedSet
      /\ req.cone.due \subseteq PinnedSet
    BY <1>1 DEF ConeInv, ConeHolds, Listing
<1>8. ConeTyped' /\ Continued'
    BY <1>1, <1>3, <1>4, <1>7 DEF ConeTyped, Continued
<1>9. PageIsNext'
    BY <1>1, <1>3, <1>4, <1>5, <1>6, <1>7 DEF PageIsNext
<1> QED BY <1>3, <1>6, <1>7, <1>8, <1>9 DEF ConeInv, ConeHolds

LEMMA CountKeepsCone ==
    ASSUME TruthInv, ConeInv, CountWhole PROVE ConeInv'
<1>1. /\ IsRequest(req) /\ UNCHANGED rows /\ req.pc = "total" /\ req.route = "cone"
      /\ DOMAIN req.results = {1} /\ IsResult(req.results[1])
    BY DEF TruthInv, Shape, ConeRight, CountWhole, storeVars, Running
<1> DEFINE total == Cardinality(PinnedSet)
           status == FoundOrNot(total)
           res == [req.results[1] EXCEPT !.total = total, !.status = status]
           results == [req.results EXCEPT ![1] = res]
<1>2. \E pc \in {"whole", "alerts"} : req' = [req EXCEPT !.pc = pc, !.results = results]
    <2>1. req' = [req EXCEPT !.pc = IF req.spec.on THEN "whole" ELSE "alerts", !.results = results]
        BY <1>1 DEF CountWhole, IsRequest, RequestFields
    <2> HIDE DEF results
    <2> QED BY <2>1
<1> HIDE DEF total, status
<1>3. res.total = total
    BY <1>1 DEF IsResult, ResultFields
<1> HIDE DEF res
<1>4. results[1] = res
    BY <1>1
<1> HIDE DEF results
<1>5. /\ req'.route = req.route /\ req'.count = req.count /\ req'.cone = req.cone
      /\ req'.results[1].total = Cardinality(PinnedSet) /\ req'.pc \in {"whole", "alerts"}
    BY <1>1, <1>2, <1>3, <1>4 DEF IsRequest, RequestFields, total
<1>6. \A o, at : After(o, at)' = After(o, at)
    BY <1>1 DEF After
<1>7. \A o, x : Sooner(x, o)' = Sooner(x, o)
    BY <1>1 DEF Sooner
<1>8. PinnedSet' = PinnedSet
    BY <1>1, <1>5 DEF PinnedSet, Inside, Committed
<1>9. ConeTyped /\ Continued /\ PageIsNext /\ req.cone.seen \subseteq PinnedSet
      /\ req.cone.due \subseteq PinnedSet
    BY <1>1 DEF ConeInv, ConeHolds, Listing
<1>10. ConeTyped' /\ Continued'
    BY <1>1, <1>5, <1>6, <1>9 DEF ConeTyped, Continued
<1>11. Cardinality(req.cone.seen \cup req.cone.page) <= Cardinality(PinnedSet)
    <2>1. IsFiniteSet(PinnedSet)
        BY ConstantsTyped, FS_Subset DEF PinnedSet, Inside
    <2>2. req.cone.seen \cup req.cone.page \subseteq PinnedSet
        BY <1>9 DEF PageIsNext
    <2> QED BY <2>1, <2>2, FS_Subset
<1>12. PageIsNext'
    BY <1>1, <1>5, <1>6, <1>7, <1>8, <1>9, <1>11 DEF PageIsNext
<1> QED BY <1>5, <1>8, <1>9, <1>10, <1>12 DEF ConeInv, ConeHolds

\* The page is the first of what is left, and says whether more is.
LEMMA FetchKeepsCone ==
    ASSUME TruthInv, ConeInv, FetchPage PROVE ConeInv'
<1>1. /\ IsRequest(req) /\ UNCHANGED rows /\ req.pc = "page" /\ req.route = "cone" /\ StoreTyped
    BY DEF TruthInv, Shape, ConeRight, FetchPage, storeVars
<1>2. ConeTyped /\ Continued /\ req.cone.seen \subseteq PinnedSet /\ req.cone.due \subseteq PinnedSet
    BY <1>1 DEF ConeInv, ConeHolds
<1>3. PICK c : c = req.cone
    OBVIOUS
<1> DEFINE page == IF req.count THEN Rest ELSE ListFirst(c.size)
           total == IF Rest = {} THEN 0 ELSE Cardinality(PinnedSet)
           res == [NewResult(FoundOrNot(total), total) EXCEPT !.ids = page]
           pc == IF Rest = {} /\ c.after # <<>> THEN "total"
                 ELSE IF req.spec.on /\ ~req.count THEN "whole" ELSE "alerts"
           more == ~req.count /\ Rest # page
           due == IF c.after = <<>> THEN PinnedSet ELSE c.due
           cone == [c EXCEPT !.page = page, !.more = more, !.due = due]
<1>4. req' = [req EXCEPT !.pc = pc, !.asked = page, !.results = <<res>>,
                         !.candidates = <<page>>, !.cone = cone]
    <2>1. req' = [req EXCEPT !.pc = pc, !.asked = page, !.results = <<res>>,
                             !.candidates = <<page>>, !.cone.page = page,
                             !.cone.more = more, !.cone.due = due]
        BY <1>3 DEF FetchPage
    <2> HIDE DEF page, res, pc, more, due
    <2> QED BY <1>1, <1>3, <2>1 DEF IsRequest, RequestFields
<1>5. pc \in {"total", "whole", "alerts"} /\ (pc = "total" <=> Rest = {} /\ c.after # <<>>)
    OBVIOUS
<1>6. res.total = total
    <2> HIDE DEF page, total
    <2>1. PICK new : new = NewResult(FoundOrNot(total), total)
        OBVIOUS
    <2>2. IsResult(new) /\ new.total = total
        BY <2>1, NewResults
    <2>3. res = [new EXCEPT !.ids = page]
        BY <2>1
    <2> HIDE DEF res
    <2> QED BY <2>2, <2>3 DEF IsResult, ResultFields
<1>7. IsFiniteSet(PinnedSet) /\ PinnedSet \subseteq Objects
    BY ConstantsTyped, FS_Subset DEF PinnedSet, Inside
<1>8. Rest \subseteq PinnedSet /\ page \subseteq Rest
    BY PageInRest DEF Rest
<1>9. \A o \in PinnedSet : o \in Rest <=> After(o, c.after)
    BY <1>3 DEF Rest
<1>10. ASSUME c.order = "ingest", ~req.count
       PROVE  /\ Rest # {} => page # {}
              /\ \A o \in Rest \ page : \A x \in page : Sooner(x, o)
    <2>1. page = Leading(Rest, c.size, Sooner) /\ c.size \in Nat \ {0} /\ Rest \subseteq Objects
        BY <1>2, <1>3, <1>7, <1>8, <1>10 DEF ListFirst, ConeTyped
    <2> HIDE DEF page
    <2> QED BY <1>1, <2>1, LeadingInIngestOrder
<1>11. total = 0 \/ total = Cardinality(PinnedSet)
    OBVIOUS
<1>12. pc # "total" => Cardinality(c.seen \cup page) <= total
    <2>1. CASE Rest = {}
        <3>1. c.after = <<>> => PinnedSet = {}
            BY <1>9, <2>1 DEF After
        <3>2. c.after = <<>> => c.seen \cup page = {}
            BY <1>2, <1>3, <1>8, <2>1, <3>1
        <3>3. total = 0
            BY <2>1
        <3> HIDE DEF page, total
        <3> QED BY <1>5, <2>1, <3>2, <3>3, FS_EmptySet
    <2>2. CASE Rest # {}
        <3>1. c.seen \cup page \subseteq PinnedSet /\ total = Cardinality(PinnedSet)
            BY <1>2, <1>3, <1>8, <2>2
        <3> HIDE DEF page, total
        <3> QED BY <1>7, <3>1, FS_Subset
    <2> QED BY <2>1, <2>2
<1>13. due \subseteq PinnedSet
    BY <1>2, <1>3
<1>14. ASSUME c.order = "ingest", NEW o \in due
       PROVE  o \in c.seen \cup page \/ (more /\ \A x \in page : Sooner(x, o))
    <2>1. o \in c.seen \/ o \in Rest
        <3>1. CASE c.after = <<>>
            BY <1>9, <1>14, <3>1 DEF After
        <3>2. CASE c.after # <<>>
            BY <1>1, <1>2, <1>3, <1>9, <1>14, <3>2 DEF Continued
        <3> QED BY <3>1, <3>2
    <2>2. o \in Rest \ page => ~req.count /\ more
        OBVIOUS
    <2> QED BY <1>10, <1>14, <2>1, <2>2
<1>15. more => ~req.count /\ (c.order = "ingest" => page # {})
    BY <1>10
<1>16. IsConeRecord(c) /\ IsToken(c.token)
    BY <1>2, <1>3 DEF ConeTyped
<1> HIDE DEF page, pc, res, more, due, total
<1>17. /\ IsConeRecord(cone) /\ cone.centre = c.centre /\ cone.asOf = c.asOf /\ cone.after = c.after
       /\ cone.size = c.size /\ cone.order = c.order /\ cone.page = page /\ cone.more = more
       /\ cone.seen = c.seen /\ cone.due = due /\ cone.token = c.token
    BY <1>16 DEF IsConeRecord, ConeFields
<1> HIDE DEF cone
<1>18. /\ req'.pc = pc /\ req'.results = <<res>> /\ req'.route = req.route
       /\ req'.count = req.count /\ req'.cone = cone
    BY <1>1, <1>4 DEF IsRequest, RequestFields
<1>19. req'.results[1].total = total
    BY <1>6, <1>18
<1>20. PinnedSet' = PinnedSet
    BY <1>1, <1>3, <1>17, <1>18 DEF PinnedSet, Inside, Committed
<1>21. \A o, at : After(o, at)' = After(o, at)
    BY <1>1 DEF After
<1>22. \A o, x : Sooner(x, o)' = Sooner(x, o)
    BY <1>1 DEF Sooner
<1>23. ConeTyped'
    BY <1>2, <1>3, <1>16, <1>17, <1>18 DEF ConeTyped
<1>24. Continued'
    BY <1>2, <1>3, <1>5, <1>17, <1>18, <1>21 DEF Continued
<1>25. PageIsNext'
    BY <1>8, <1>9, <1>12, <1>14, <1>15, <1>17, <1>18, <1>19, <1>20, <1>21, <1>22 DEF PageIsNext
<1> QED BY <1>1, <1>2, <1>3, <1>5, <1>13, <1>17, <1>18, <1>20, <1>23, <1>24, <1>25
        DEF ConeInv, ConeHolds

\* The place of the last object listed separates what was served from what is left.
LEMMA PageKeepsCone ==
    ASSUME TruthInv, ConeInv, MakePage PROVE ConeInv'
<1>1. /\ IsRequest(req) /\ UNCHANGED rows /\ req.pc = "built" /\ req.route = "cone" /\ StoreTyped
      /\ DOMAIN req.results = {1} /\ IsResult(req.results[1])
    BY DEF TruthInv, Shape, ConeRight, MakePage, storeVars, Running
<1>2. /\ ConeTyped /\ Continued /\ PageIsNext
      /\ req.cone.seen \subseteq PinnedSet /\ req.cone.due \subseteq PinnedSet
    BY <1>1 DEF ConeInv, ConeHolds, Listing, Building, Gathering
<1>3. PICK c : c = req.cone
    OBVIOUS
<1>4. IsConeRecord(c) /\ IsToken(c.token)
    BY <1>2, <1>3 DEF ConeTyped
<1> DEFINE next == c.more /\ c.order = "ingest"
           at == <<rows[LastListed].ingest, LastListed>>
           token == IF ~next THEN NoToken
                    ELSE [kind |-> "cone_search", at |-> at, asOf |-> c.asOf,
                          centre |-> c.centre, detail |-> req.detail]
           pc == IF req.spec.on THEN "filter" ELSE IF next THEN "paused" ELSE "answered"
           entries == [o \in req.results[1].ids |-> req.built[o]]
           res == [req.results[1] EXCEPT !.entries = entries]
           results == [req.results EXCEPT ![1] = res]
           seen == c.seen \cup c.page
           cone == [c EXCEPT !.seen = seen, !.token = token]
<1>5. req' = [req EXCEPT !.pc = pc, !.results = results, !.cone = cone]
    <2>1. req' = [req EXCEPT !.pc = pc, !.results[1].entries = entries,
                             !.cone.seen = @ \cup c.page, !.cone.token = token]
        BY <1>3 DEF MakePage
    <2> HIDE DEF pc, entries, token
    <2> QED BY <1>1, <1>3, <1>4, <2>1 DEF IsRequest, RequestFields
<1>6. /\ pc \in {"filter", "paused", "answered"}
      /\ (pc = "paused" => next) /\ (pc = "answered" => ~next)
    OBVIOUS
<1>7. /\ next => /\ token.kind = "cone_search" /\ token.at = at /\ token.asOf = c.asOf
                 /\ token.centre = c.centre
      /\ ~next => token = NoToken
      /\ NoToken.kind = "none"
    BY DEF NoToken
<1>8. IsToken(token)
    <2>1. IsToken(NoToken)
        BY DEF IsToken, NoToken
    <2>2. next => IsToken(token)
        <3> HIDE DEF at
        <3> QED BY DEF IsToken
    <2> QED BY <2>1, <2>2
<1> HIDE DEF entries
<1>9. res.total = req.results[1].total
    BY <1>1 DEF IsResult, ResultFields
<1> HIDE DEF res
<1>10. results[1] = res
    BY <1>1
<1> HIDE DEF results, pc, token
<1>11. /\ IsConeRecord(cone) /\ cone.centre = c.centre /\ cone.asOf = c.asOf /\ cone.after = c.after
       /\ cone.size = c.size /\ cone.order = c.order /\ cone.seen = seen /\ cone.due = c.due
       /\ cone.token = token
    BY <1>4 DEF IsConeRecord, ConeFields
<1> HIDE DEF cone
<1>12. /\ req'.pc = pc /\ req'.route = req.route /\ req'.count = req.count /\ req'.cone = cone
       /\ req'.results[1].total = req.results[1].total
    BY <1>1, <1>5, <1>9, <1>10 DEF IsRequest, RequestFields
<1>13. PinnedSet' = PinnedSet
    BY <1>1, <1>3, <1>11, <1>12 DEF PinnedSet, Inside, Committed
<1>14. seen \subseteq PinnedSet /\ c.due \subseteq PinnedSet /\ PinnedSet \subseteq Objects
    BY <1>2, <1>3 DEF PageIsNext, PinnedSet, Inside
<1>15. \A o, a : After(o, a)' = After(o, a)
    BY <1>1 DEF After
<1>16. Cardinality(seen) <= req.results[1].total
    BY <1>1, <1>2, <1>3 DEF PageIsNext
<1>17. c.order = "ingest" /\ ~next => c.due \subseteq seen
    BY <1>2, <1>3 DEF PageIsNext
<1>18. ASSUME next
       PROVE  /\ ~req.count /\ IsPlace(at)
              /\ \A o \in seen : ~ After(o, at)
              /\ \A o \in c.due : o \in seen \/ After(o, at)
    <2>1. c.page # {} /\ c.page \subseteq Objects /\ ~req.count
        BY <1>2, <1>3, <1>14, <1>18 DEF PageIsNext
    <2>2. PICK l : l = LastListed
        OBVIOUS
    <2>3. l \in c.page /\ \A p \in c.page \ {l} : Sooner(p, l)
        BY <1>1, <1>3, <2>1, <2>2, LastListedIsLast
    <2>4. \A o \in Objects : o \in Nat /\ rows[o].ingest \in Nat
        BY <1>1, ConstantsTyped DEF StoreTyped, Rows
    <2>5. at = <<rows[l].ingest, l>>
        BY <2>2
    <2>6. at # <<>> /\ at[1] = rows[l].ingest /\ at[2] = l
        BY <2>5
    <2> HIDE DEF at
    <2>7. IsPlace(at)
        BY <2>1, <2>3, <2>4, <2>6 DEF IsPlace
    <2>8. \A o \in c.page : ~ After(o, at)
        BY <2>1, <2>3, <2>4, <2>6 DEF After, Sooner
    <2>9. ASSUME NEW o \in c.seen PROVE ~ After(o, at)
        <3>1. ~ After(o, c.after) /\ After(l, c.after)
            BY <1>2, <1>3, <2>3 DEF Continued, PageIsNext
        <3>2. c.after # <<>> /\ IsPlace(c.after)
            BY <1>2, <1>3, <3>1 DEF ConeTyped, After
        <3>3. o \in Objects /\ l \in Objects
            BY <1>14, <2>1, <2>3
        <3> QED BY <2>4, <2>6, <3>1, <3>2, <3>3 DEF After, IsPlace
    <2>10. ASSUME NEW o \in c.due, o \notin seen PROVE After(o, at)
        <3>1. Sooner(l, o)
            BY <1>2, <1>3, <1>18, <2>3, <2>10 DEF PageIsNext
        <3>2. o \in Objects /\ l \in Objects
            BY <1>14, <2>1, <2>3
        <3> QED BY <2>4, <2>6, <3>1, <3>2 DEF After, Sooner
    <2> QED BY <2>1, <2>7, <2>8, <2>9, <2>10
<1> HIDE DEF at, seen
<1>19. PageIsServed'
    BY <1>6, <1>7, <1>11, <1>12, <1>15, <1>16, <1>17, <1>18 DEF PageIsServed
<1>20. ConeTyped'
    BY <1>2, <1>3, <1>8, <1>11, <1>12 DEF ConeTyped
<1>21. ~(req'.pc = "page" \/ Listing')
    BY <1>6, <1>12 DEF Listing, Building, Gathering
<1> QED BY <1>1, <1>11, <1>12, <1>13, <1>14, <1>19, <1>20, <1>21 DEF ConeInv, ConeHolds

LEMMA MarkKeepsCone ==
    ASSUME TruthInv, ConeInv, MarkPage PROVE ConeInv'
<1>1. /\ IsRequest(req) /\ UNCHANGED rows /\ req.pc = "filter" /\ req.route = "cone"
      /\ DOMAIN req.results = {1} /\ IsResult(req.results[1])
    BY DEF TruthInv, Shape, ConeRight, MarkPage, storeVars, Running
<1>2. ConeTyped /\ PageIsServed /\ req.cone.seen \subseteq PinnedSet /\ req.cone.due \subseteq PinnedSet
    BY <1>1 DEF ConeInv, ConeHolds
<1>3. PICK quals : quals = QualifyObjects(req.candidates[1] \cup req.results[1].ids, req.spec)
    OBVIOUS
<1>4. PICK m : m = MarkEntries(req.results[1], quals, req.spec)
    OBVIOUS
<1>5. PICK res : res = MarkResult(m, req.candidates[1], quals, req.spec)
    OBVIOUS
<1> DEFINE pc == IF req.cone.token.kind # "none" THEN "paused" ELSE "answered"
           results == [req.results EXCEPT ![1] = res]
<1>6. req' = [req EXCEPT !.pc = pc, !.results = results]
    <2>1. req' = [req EXCEPT !.pc = pc,
                             !.results[1] = MarkResult(MarkEntries(@, quals, req.spec),
                                                       req.candidates[1], quals, req.spec)]
        BY <1>3 DEF MarkPage
    <2>2. req' = [req EXCEPT !.pc = pc, !.results[1] = res]
        BY <1>1, <1>4, <1>5, <2>1
    <2> HIDE DEF pc
    <2> QED BY <1>1, <2>2 DEF IsRequest, RequestFields
<1>7. IsResult(m) /\ m.total = req.results[1].total
    BY <1>1, <1>4, EntriesMarked
<1>8. res.total = req.results[1].total
    BY <1>5, <1>7, ResultMarked
<1>9. results[1] = res
    BY <1>1
<1>10. /\ pc \in {"paused", "answered"}
       /\ (pc = "paused" => req.cone.token.kind # "none")
       /\ (pc = "answered" => req.cone.token.kind = "none")
    OBVIOUS
<1> HIDE DEF pc, results
<1>11. /\ req'.pc = pc /\ req'.route = req.route /\ req'.count = req.count /\ req'.cone = req.cone
       /\ req'.results[1].total = req.results[1].total
    BY <1>1, <1>6, <1>8, <1>9 DEF IsRequest, RequestFields
<1>12. PinnedSet' = PinnedSet
    BY <1>1, <1>11 DEF PinnedSet, Inside, Committed
<1>13. \A o, a : After(o, a)' = After(o, a)
    BY <1>1 DEF After
<1>14. PageIsServed'
    BY <1>2, <1>10, <1>11, <1>13 DEF PageIsServed
<1>15. ConeTyped' /\ ~(req'.pc = "page" \/ Listing')
    BY <1>2, <1>10, <1>11 DEF ConeTyped, Listing, Building, Gathering
<1> QED BY <1>1, <1>2, <1>11, <1>12, <1>14, <1>15 DEF ConeInv, ConeHolds

\* A walk begins, goes on after the place its token names, or, with another
\* place, begins anew behind it.
LEMMA AskKeepsCone ==
    ASSUME TruthInv, ConeInv, NEW p, NEW t, AskCone(p, t),
           p.order \in {"ingest", "nearest"}, p.size \in Nat \cup {NotGiven, NotParsed},
           t \in Tokens \cup {NoToken}
    PROVE  ConeInv'
<1>1. IsRequest(req) /\ UNCHANGED rows /\ req.pc \in {"start", "paused"}
    BY DEF TruthInv, Shape, AskCone, storeVars
<1>2. CASE ConeRefusal(p, t) # "none"
    <2>1. req' = [req EXCEPT !.pc = "refused"]
        BY <1>2 DEF AskCone
    <2>2. req'.pc = "refused"
        BY <1>1, <2>1 DEF IsRequest, RequestFields
    <2> QED BY <2>2, NoWalk
<1>3. CASE ConeRefusal(p, t) = "none"
    <2> DEFINE first == t.kind = "none"
               count == p.response = "count"
               walked == IF ~first /\ t = req.cone.token THEN req.cone ELSE FreshCone
               centre == IF first THEN p.centre ELSE t.centre
               asOf == IF count THEN Unpinned ELSE IF first THEN clock ELSE t.asOf
               size == ConeSize(p)
               cone == [walked EXCEPT !.centre = centre, !.asOf = asOf, !.after = t.at,
                                      !.size = size, !.order = p.order]
    <2>1. /\ ~first => t.kind = "cone_search" /\ ~count /\ p.order # "nearest"
          /\ ~count => p.size \notin {0, NotParsed}
        BY <1>3 DEF ConeRefusal, TokenRefused
    <2>2. PICK given : /\ given.pc = "page" /\ given.route = "cone" /\ given.count = count
                       /\ req' = [Started(given) EXCEPT !.cone = cone]
        <3> DEFINE detail == IF count THEN "ids"
                             ELSE IF ~first THEN t.detail
                             ELSE IF p.detail = "absent" THEN "matches" ELSE p.detail
                   given == [pc |-> "page", route |-> "cone", detail |-> detail,
                             spec |-> ParseFilters(p.filters), count |-> count,
                             migrated |-> TRUE]
        <3>1. req' = [Started(given) EXCEPT !.cone = cone]
            BY <1>3 DEF AskCone
        <3>2. given.pc = "page" /\ given.route = "cone" /\ given.count = count
            OBVIOUS
        <3> HIDE DEF given, cone, count
        <3> QED BY <3>1, <3>2
    <2>3. PICK s : s = Started(given)
        OBVIOUS
    <2>4. IsRequest(s) /\ s.pc = "page" /\ s.route = "cone" /\ s.count = count
        <3> HIDE DEF count
        <3> QED BY <2>2, <2>3, RequestStarts
    <2>5. ~count => size \in Nat \ {0}
        BY <2>1, ConeAssumption DEF ConeSize, NotGiven, NotParsed
    <2>6. /\ IsConeRecord(walked) /\ IsToken(walked.token)
          /\ walked.seen \subseteq Inside(centre, asOf) /\ walked.due \subseteq Inside(centre, asOf)
          /\ t.at = <<>> \/ IsPlace(t.at)
          /\ \A o \in walked.seen : ~ After(o, t.at)
          /\ t.at # <<>> => \A o \in walked.due : o \in walked.seen \/ After(o, t.at)
          /\ p.order = "nearest" => t.at = <<>>
        <3>1. IsConeRecord(FreshCone) /\ IsToken(FreshCone.token)
              /\ FreshCone.seen = {} /\ FreshCone.due = {}
            BY DEF IsConeRecord, ConeFields, FreshCone, IsToken, NoToken
        <3>2. CASE first
            <4>1. t.at = <<>>
                <5>1. ASSUME t \in Tokens, req.pc = "paused" PROVE FALSE
                    <6>1. /\ IsToken(req.cone.token) /\ req.cone.token.kind # "none"
                        BY <1>1, <3>2, <5>1 DEF ConeInv, ConeHolds, ConeTyped, PageIsServed
                    <6>2. t = req.cone.token
                          \/ t = [req.cone.token EXCEPT !.at = <<MaxTime + 1, 0>>]
                          \/ t = [req.cone.token EXCEPT !.kind = "recent_crossmatches"]
                        BY <5>1 DEF Tokens
                    <6> QED BY <3>2, <6>1, <6>2 DEF IsToken
                <5>2. t = NoToken \/ t = [NoToken EXCEPT !.kind = "garbage"]
                    BY <5>1, <1>1 DEF Tokens
                <5> QED BY <5>2 DEF NoToken
            <4>2. walked = FreshCone
                BY <3>2
            <4> HIDE DEF walked, centre, asOf
            <4> QED BY <3>1, <4>1, <4>2
        <3>3. CASE ~first
            <4>1. req.pc = "paused" /\ req.route = "cone"
                <5>1. t = NoToken \/ t = [NoToken EXCEPT !.kind = "garbage"] => t.kind # "cone_search"
                    BY DEF NoToken
                <5> QED BY <1>1, <2>1, <3>3, <5>1 DEF Tokens, ConeInv
            <4>2. PICK c : c = req.cone
                OBVIOUS
            <4>3. /\ IsConeRecord(c) /\ IsToken(c.token) /\ PageIsServed
                  /\ c.seen \subseteq PinnedSet /\ c.due \subseteq PinnedSet
                BY <4>1, <4>2 DEF ConeInv, ConeHolds, ConeTyped
            <4>4. /\ IsPlace(c.token.at) /\ c.token.asOf = c.asOf /\ c.token.centre = c.centre
                  /\ \A o \in c.seen : ~ After(o, c.token.at)
                  /\ \A o \in c.due : o \in c.seen \/ After(o, c.token.at)
                BY <4>1, <4>2, <4>3 DEF PageIsServed
            <4>5. t = c.token \/ t = [c.token EXCEPT !.at = <<MaxTime + 1, 0>>]
                <5>1. t = [c.token EXCEPT !.kind = "recent_crossmatches"] => t.kind # "cone_search"
                    BY <4>3 DEF IsToken
                <5>2. t # NoToken
                    BY <3>3 DEF NoToken
                <5> QED BY <2>1, <3>3, <4>1, <4>2, <5>1, <5>2 DEF Tokens
            <4>6. p.order # "nearest"
                BY <2>1, <3>3
            <4>7. CASE t = c.token
                <5>1. walked = c /\ centre = c.centre /\ asOf = c.asOf
                    BY <2>1, <3>3, <4>2, <4>4, <4>7
                <5>2. c.seen \subseteq Inside(c.centre, c.asOf) /\ c.due \subseteq Inside(c.centre, c.asOf)
                    BY <4>2, <4>3 DEF PinnedSet
                <5> HIDE DEF walked, centre, asOf
                <5> QED BY <4>3, <4>4, <4>6, <4>7, <5>1, <5>2
            <4>8. CASE t # c.token
                <5>1. walked = FreshCone
                    BY <4>2, <4>8
                <5>2. t.at = <<MaxTime + 1, 0>>
                    BY <4>3, <4>5, <4>8 DEF IsToken
                <5>3. IsPlace(t.at)
                    BY <5>2, ConstantsTyped DEF IsPlace
                <5> HIDE DEF walked, centre, asOf
                <5> QED BY <3>1, <4>6, <5>1, <5>3
            <4> QED BY <4>7, <4>8
        <3> QED BY <3>2, <3>3
    <2> HIDE DEF walked, centre, asOf, size, count, first
    <2>7. /\ IsConeRecord(cone) /\ cone.centre = centre /\ cone.asOf = asOf /\ cone.after = t.at
          /\ cone.size = size /\ cone.order = p.order /\ cone.seen = walked.seen
          /\ cone.due = walked.due /\ cone.token = walked.token
        BY <2>6 DEF IsConeRecord, ConeFields
    <2> HIDE DEF cone
    <2>8. req'.pc = "page" /\ req'.route = "cone" /\ req'.count = count /\ req'.cone = cone
        BY <2>2, <2>3, <2>4 DEF IsRequest, RequestFields
    <2>9. PinnedSet' = Inside(centre, asOf)
        BY <1>1, <2>7, <2>8 DEF PinnedSet, Inside, Committed
    <2>10. \A o, a : After(o, a)' = After(o, a)
        BY <1>1 DEF After
    <2>11. ConeTyped'
        BY <2>5, <2>6, <2>7, <2>8 DEF ConeTyped
    <2>12. Continued'
        BY <2>6, <2>7, <2>8, <2>10 DEF Continued
    <2>13. ~Listing'
        BY <2>8 DEF Listing, Building, Gathering
    <2> QED BY <2>6, <2>7, <2>8, <2>9, <2>11, <2>12, <2>13 DEF ConeInv, ConeHolds
<1> QED BY <1>2, <1>3

-----------------------------------------------------------------------------
\* A lookup is no walk.
LEMMA EnterIsNoWalk ==
    ASSUME NEW q, IsRequest(q), q.route # "cone", req' = Enter(q)
    PROVE  ConeInv'
<1>1. \/ \E pc \in {"filter", "answered", "names", "search"} : req' = [q EXCEPT !.pc = pc]
      \/ \E asked : req' = [q EXCEPT !.pc = "alerts", !.asked = asked]
    BY DEF Enter
<1>2. req'.route # "cone" /\ req'.pc # "paused"
    BY <1>1 DEF IsRequest, RequestFields
<1> QED BY <1>2, NoWalk

LEMMA SubmitKeepsCone ==
    ASSUME TruthInv, ConeInv, NEW r, NEW migrated, r.route # "cone", Submit(r, migrated)
    PROVE  ConeInv'
<1>1. IsRequest(req) /\ req.pc = "start"
    BY DEF TruthInv, Shape, Submit
<1>2. CASE Refusal(r) # "none"
    <2>1. req' = [req EXCEPT !.pc = "refused", !.route = r.route]
        BY <1>2 DEF Submit
    <2>2. req'.pc = "refused"
        BY <1>1, <2>1 DEF IsRequest, RequestFields
    <2> QED BY <2>2, NoWalk
<1>3. CASE Refusal(r) = "none"
    <2> DEFINE given == [pc |-> "start", route |-> r.route, detail |-> LookupDetail(r),
                         spec |-> ParseFilters(r.filters), count |-> r.response = "count",
                         migrated |-> migrated]
               parsed == [i \in DOMAIN r.inputs |->
                            [kind |-> r.inputs[i].kind, of |-> r.inputs[i].of,
                             valid |-> InputValid(r.inputs[i], r)]]
               results == [i \in DOMAIN parsed |-> NewResult("invalid_input", NotACone)]
    <2>1. PICK q : q = Started(given)
        OBVIOUS
    <2>2. PICK p : p = [q EXCEPT !.inputs = parsed]
        OBVIOUS
    <2>3. PICK budget : req' = Enter([p EXCEPT !.todo = Groups(p), !.budget = budget,
                                               !.results = results])
        BY <1>3, <2>1, <2>2 DEF Submit
    <2>4. PICK e : e = [p EXCEPT !.todo = Groups(p), !.budget = budget, !.results = results]
        OBVIOUS
    <2>5. IsRequest(q) /\ q.route = r.route
        <3>1. given.route = r.route
            OBVIOUS
        <3> HIDE DEF given
        <3> QED BY <2>1, <3>1, RequestStarts
    <2> HIDE DEF given, parsed, results
    <2>6. IsRequest(e) /\ e.route # "cone"
        BY <2>2, <2>4, <2>5 DEF IsRequest, RequestFields
    <2> QED BY <2>3, <2>4, <2>6, EnterIsNoWalk
<1> QED BY <1>2, <1>3

LEMMA LookupKeepsCone ==
    ASSUME TruthInv, ConeInv, ResolveNames \/ SearchAll \/ Assemble \/ ApplyFilters
    PROVE  ConeInv'
<1>1. IsRequest(req) /\ req.route # "cone"
    BY DEF TruthInv, Shape, ConeRight, ResolveNames, SearchAll, Assemble, ApplyFilters
<1>2. CASE ResolveNames
    <2>1. \E results : req' = [req EXCEPT !.pc = "search", !.results = results]
        BY <1>2 DEF ResolveNames
    <2>2. req'.route # "cone" /\ req'.pc # "paused"
        BY <1>1, <2>1 DEF IsRequest, RequestFields
    <2> QED BY <2>2, NoWalk
<1>3. CASE SearchAll
    <2>1. \E results, candidates, asked, cut :
             req' = [req EXCEPT !.pc = "alerts", !.results = results, !.candidates = candidates,
                                !.asked = asked, !.cut = cut]
        BY <1>3 DEF SearchAll
    <2>2. req'.route # "cone" /\ req'.pc # "paused"
        BY <1>1, <2>1 DEF IsRequest, RequestFields
    <2> QED BY <2>2, NoWalk
<1>4. CASE Assemble
    <2>1. \E results : req' = Enter([req EXCEPT !.todo = Tail(@), !.built = <<>>, !.asked = {},
                                                !.results = results])
        BY <1>4 DEF Assemble
    <2>2. PICK results : req' = Enter([req EXCEPT !.todo = Tail(@), !.built = <<>>, !.asked = {},
                                                  !.results = results])
        BY <2>1
    <2>3. PICK e : e = [req EXCEPT !.todo = Tail(req.todo), !.built = <<>>, !.asked = {},
                                   !.results = results]
        OBVIOUS
    <2>4. IsRequest(e) /\ e.route = req.route
        BY <1>1, <2>3 DEF IsRequest, RequestFields
    <2>5. req' = Enter(e)
        BY <2>2, <2>3
    <2> QED BY <1>1, <2>4, <2>5, EnterIsNoWalk
<1>5. CASE ApplyFilters
    <2>1. \E results : req' = [req EXCEPT !.pc = "answered", !.results = results]
        BY <1>5 DEF ApplyFilters
    <2>2. req'.route # "cone" /\ req'.pc # "paused"
        BY <1>1, <2>1 DEF IsRequest, RequestFields
    <2> QED BY <2>2, NoWalk
<1> QED BY <1>2, <1>3, <1>4, <1>5

LEMMA LookupsKeepCone == ASSUME TruthInv, ConeInv, LookupStep PROVE ConeInv'
<1>1. ASSUME NEW r \in Lookups, NEW migrated \in BOOLEAN, Submit(r, migrated) PROVE ConeInv'
    <2>1. r.route # "cone"
        BY LookupAssumption DEF LookupParams
    <2> QED BY <1>1, <2>1, SubmitKeepsCone
<1> QED BY <1>1, LookupKeepsCone DEF LookupStep

LEMMA ConesKeepCone == ASSUME TruthInv, ConeInv, ConeStep PROVE ConeInv'
<1>1. ASSUME NEW p \in ConeAsks, NEW t \in Tokens, AskCone(p, t) PROVE ConeInv'
    <2>1. p.order \in {"ingest", "nearest"} /\ p.size \in Nat \cup {NotGiven, NotParsed}
        BY ConeAssumption DEF ConeParams
    <2> QED BY <1>1, <2>1, AskKeepsCone
<1> QED BY <1>1, FetchKeepsCone, CountKeepsCone, WholeKeepsCone, PageKeepsCone, MarkKeepsCone
        DEF ConeStep

LEMMA ChatsKeepCone == ASSUME TruthInv, ConeInv, ChatStep PROVE ConeInv'
<1>1. ASSUME NEW raws, AskLookup(raws) PROVE ConeInv'
    <2>1. CASE UNCHANGED <<storeVars, req>>
        BY <2>1, OthersKeepCone DEF storeVars
    <2>2. ASSUME NEW inputs,
                 Submit([route |-> "lookup", body |-> TRUE, detail |-> "full",
                         radius |-> "absent", filters |-> {}, response |-> "absent",
                         inputs |-> inputs], TRUE)
          PROVE  ConeInv'
        BY <2>2, SubmitKeepsCone
    <2> QED BY <1>1, <2>1, <2>2 DEF AskLookup
<1>2. ASSUME NEW c, AskNear(c) PROVE ConeInv'
    BY <1>2, AskKeepsCone, ChatAssumption DEF AskNear
<1>3. CASE Project
    BY <1>3, OthersKeepCone DEF Project, storeVars
<1> QED BY <1>1, <1>2, <1>3, LookupKeepsCone, FetchKeepsCone, CountKeepsCone, PageKeepsCone
        DEF ChatStep

LEMMA ConeIsKept == Spec => []ConeInv
<1>1. Init => ConeInv
    BY DEF Init, ConeInv, FreshRequest
<1>2. ASSUME TruthInv, ConeInv, [Next]_readVars PROVE ConeInv'
    <2>1. CASE UNCHANGED readVars
        BY <1>2, <2>1, OthersKeepCone DEF readVars, storeVars
    <2>2. CASE StoreStepSeen
        BY <1>2, <2>2, StoreKeepsCone
    <2>3. CASE WalkStep /\ UNCHANGED req
        <3>1. UNCHANGED storeVars
            BY <2>3 DEF WalkStep, Ask, FetchRows, LoadMatches, Deliver
        <3> QED BY <1>2, <2>3, <3>1, OthersKeepCone DEF storeVars
    <2>4. CASE SummaryStep /\ UNCHANGED req
        <3>1. UNCHANGED storeVars
            BY <2>4 DEF SummaryStep, AskSummary, NightRows, PendingCount, Reliability,
                        BrokerCounts, CatalogBuckets, Top
        <3> QED BY <1>2, <2>4, <3>1, OthersKeepCone DEF storeVars
    <2>5. CASE LookupStep
        BY <1>2, <2>5, LookupsKeepCone
    <2>6. CASE BuildStep
        BY <1>2, <2>6, BuildKeepsCone
    <2>7. CASE ConeStep
        BY <1>2, <2>7, ConesKeepCone
    <2>8. CASE ChatStep
        BY <1>2, <2>8, ChatsKeepCone
    <2> QED BY <1>2, <2>1, <2>2, <2>3, <2>4, <2>5, <2>6, <2>7, <2>8 DEF Next
<1> QED BY <1>1, <1>2, TruthIsKept, PTL DEF Spec

\* A client that follows the pages of a cone gets no object twice and every one
\* that was inside the radius when it began, while the pipeline commits.
THEOREM ConesStayExact == Spec => []ConeWalkIsExact
<1>1. ConeInv => ConeWalkIsExact
    <2> SUFFICES ASSUME ConeInv PROVE ConeWalkIsExact
        OBVIOUS
    <2>1. ASSUME req.pc \in {"alerts", "whole"}, req.route = "cone", NEW o \in req.cone.page
          PROVE  o \notin req.cone.seen
        <3>1. Continued /\ PageIsNext
            BY <2>1 DEF ConeInv, ConeHolds, Listing, Building, Gathering
        <3> QED BY <2>1, <3>1 DEF Continued, PageIsNext
    <2>2. ASSUME req.route = "cone", Answered PROVE ConeWalkIsComplete
        <3>1. PageIsServed
            BY <2>2 DEF ConeInv, ConeHolds, Answered
        <3> QED BY <3>1 DEF PageIsServed, ConeWalkIsComplete
    <2> QED BY <2>1, <2>2 DEF ConeWalkIsExact, ConeNoRepeats, ConeWalkIsComplete
<1> QED BY <1>1, ConeIsKept, PTL

-----------------------------------------------------------------------------
\* A summary asked for again with the parameters it echoes gives the same answer.

\* Nights: a time falls in one night, and later times in later ones.
LEMMA NightOfTime ==
    ASSUME NEW a \in Int
    PROVE  /\ a \div Day \in Int
           /\ (a \div Day) * Day <= a
           /\ a < (a \div Day) * Day + Day
BY SummaryAssumption

LEMMA NightsInOrder ==
    ASSUME NEW d \in Int, NEW e \in Int
    PROVE  /\ d * Day \in Int
           /\ d <= e => d * Day <= e * Day
           /\ (d + 1) * Day = d * Day + Day
BY SummaryAssumption

LEMMA NightIsUnique ==
    ASSUME NEW a \in Int, NEW d \in Int, d * Day <= a, a < d * Day + Day
    PROVE  a \div Day = d
<1>1. PICK e \in Int : e = a \div Day /\ e * Day <= a /\ a < e * Day + Day
    BY NightOfTime
<1>2. ~(e + 1 <= d)
    <2>1. ASSUME e + 1 <= d PROVE FALSE
        <3>1. (e + 1) * Day <= d * Day /\ (e + 1) * Day = e * Day + Day /\ e * Day \in Int /\ d * Day \in Int
            BY <2>1, NightsInOrder
        <3> QED BY <1>1, <3>1, SummaryAssumption
    <2> QED BY <2>1
<1>3. ~(d + 1 <= e)
    <2>1. ASSUME d + 1 <= e PROVE FALSE
        <3>1. (d + 1) * Day <= e * Day /\ (d + 1) * Day = d * Day + Day /\ e * Day \in Int /\ d * Day \in Int
            BY <2>1, NightsInOrder
        <3> QED BY <1>1, <3>1, SummaryAssumption
    <2> QED BY <2>1
<1> QED BY <1>1, <1>2, <1>3

LEMMA LaterNights ==
    ASSUME NEW a \in Int, NEW b \in Int, a <= b
    PROVE  a \div Day <= b \div Day
<1>1. PICK d \in Int : d = a \div Day /\ d * Day <= a /\ a < d * Day + Day
    BY NightOfTime
<1>2. PICK e \in Int : e = b \div Day /\ e * Day <= b /\ b < e * Day + Day
    BY NightOfTime
<1>3. ASSUME e + 1 <= d PROVE FALSE
    <2>1. (e + 1) * Day <= d * Day /\ (e + 1) * Day = e * Day + Day /\ e * Day \in Int /\ d * Day \in Int
        BY <1>3, NightsInOrder
    <2> QED BY <1>1, <1>2, <2>1, SummaryAssumption
<1> QED BY <1>1, <1>2, <1>3

\* The bounds of whole nights.
LEMMA WholeNightsAre ==
    ASSUME NEW first \in Int, NEW last \in Int, first <= last
    PROVE  /\ NightStart(first) \in Int /\ NightEnd(last) \in Int
           /\ NightStart(first) < NightEnd(last)
           /\ DayObs(NightStart(first)) = first
           /\ DayObs(NightEnd(last) - 1) = last
<1>1. PICK half \in Int : half = Day \div 2
    BY SummaryAssumption
<1>2. /\ first * Day \in Int /\ last * Day \in Int /\ first * Day <= last * Day
      /\ (last + 1) * Day = last * Day + Day
    BY NightsInOrder
<1>3. NightStart(first) = first * Day + half /\ NightEnd(last) = last * Day + Day + half
    BY <1>1, <1>2 DEF NightStart, NightEnd
<1>4. DayObs(NightStart(first)) = first
    <2>1. NightStart(first) - Day \div 2 = first * Day
        BY <1>1, <1>2, <1>3
    <2>2. (first * Day) \div Day = first
        BY <1>2, NightIsUnique, SummaryAssumption
    <2> QED BY <2>1, <2>2 DEF DayObs
<1>5. DayObs(NightEnd(last) - 1) = last
    <2>1. (NightEnd(last) - 1) - Day \div 2 = last * Day + Day - 1
        BY <1>1, <1>2, <1>3, SummaryAssumption
    <2>2. (last * Day + Day - 1) \div Day = last
        BY <1>2, NightIsUnique, SummaryAssumption
    <2> QED BY <2>1, <2>2 DEF DayObs
<1> QED BY <1>1, <1>2, <1>3, <1>4, <1>5, SummaryAssumption

\* The default night has begun, and none that has begun ends after it.
LEMMA DefaultNightIs ==
    ASSUME NEW now \in Nat, NEW later \in Nat, now <= later
    PROVE  /\ DefaultNight(now) \in Int
           /\ HasBegun(DefaultNight(now), later)
           /\ NightEnd(DefaultNight(now)) <= NightEnd(DefaultNight(later))
<1>1. Rollover \in Int
    BY SummaryAssumption
<1>2. PICK d \in Int : d = DefaultNight(now) /\ d * Day <= now - Rollover
    BY <1>1, NightOfTime DEF DefaultNight
<1>3. PICK e \in Int : e = DefaultNight(later)
    BY <1>1, NightOfTime DEF DefaultNight
<1>4. d <= e
    BY <1>1, <1>2, <1>3, LaterNights DEF DefaultNight
<1>5. d * Day \in Int /\ (d + 1) * Day \in Int /\ (e + 1) * Day \in Int /\ (d + 1) * Day <= (e + 1) * Day
    BY <1>4, NightsInOrder
<1>6. HasBegun(d, later)
    BY <1>1, <1>2, <1>5 DEF HasBegun
<1>7. NightEnd(d) <= NightEnd(e)
    BY <1>5, SummaryAssumption DEF NightEnd, NightStart
<1> QED BY <1>2, <1>3, <1>6, <1>7

\* A request gives its window in one form.
LEMMA OneForm ==
    ASSUME NEW p, ~(Cardinality(Forms(p)) > 1), Given(p) \notin {{"start"}, {"end"}}
    PROVE  \/ Given(p) = {}
           \/ Given(p) = {"night"} /\ Forms(p) = {"night"}
           \/ Given(p) = {"last"} /\ Forms(p) = {"last"}
           \/ Given(p) = {"start", "end"} /\ Forms(p) = {"span"}
<1>1. PICK G \in SUBSET {"night", "last", "start", "end"} : G = Given(p)
    BY DEF Given
<1>2. PICK S : S = {IF f \in {"start", "end"} THEN "span" ELSE f : f \in G}
    OBVIOUS
<1>3. Forms(p) = S
    BY <1>1, <1>2 DEF Forms
<1>4. IsFiniteSet(S) /\ Cardinality(S) \in Nat
    <2>1. S \subseteq {"night", "last", "span"}
        BY <1>1, <1>2
    <2>2. IsFiniteSet({"night", "last", "span"})
        <3>1. IsFiniteSet({"night"})
            BY FS_Singleton
        <3>2. IsFiniteSet({"night"} \cup {"last"})
            BY <3>1, FS_AddElement
        <3>3. IsFiniteSet({"night"} \cup {"last"} \cup {"span"})
            BY <3>2, FS_AddElement
        <3>4. {"night", "last", "span"} = {"night"} \cup {"last"} \cup {"span"}
            OBVIOUS
        <3> QED BY <3>3, <3>4
    <2> QED BY <2>1, <2>2, FS_Subset, FS_CardinalityType
<1>5. ASSUME NEW f \in S, NEW g \in S, f # g PROVE FALSE
    <2>1. {f, g} \subseteq S /\ Cardinality({f, g}) = 2
        <3>1. Cardinality({f}) = 1 /\ IsFiniteSet({f})
            BY FS_Singleton
        <3>2. Cardinality({f} \cup {g}) = Cardinality({f}) + 1
            BY <1>5, <3>1, FS_AddElement
        <3>3. {f, g} = {f} \cup {g}
            OBVIOUS
        <3> QED BY <1>5, <3>1, <3>2, <3>3
    <2>2. Cardinality({f, g}) <= Cardinality(S)
        BY <1>4, <2>1, FS_Subset
    <2> QED BY <1>3, <1>4, <2>1, <2>2
<1>6. /\ "night" \in G => "night" \in S
      /\ "last" \in G => "last" \in S
      /\ "start" \in G \/ "end" \in G => "span" \in S
      /\ S \subseteq {"night", "last", "span"}
      /\ "night" \in S => "night" \in G
      /\ "last" \in S => "last" \in G
    BY <1>1, <1>2
<1>7. G \notin {{"start"}, {"end"}}
    BY <1>1
<1>8. CASE "night" \in G
    <2>1. "last" \notin S /\ "span" \notin S
        BY <1>5, <1>6, <1>8
    <2>2. G = {"night"} /\ S = {"night"}
        BY <1>1, <1>6, <1>8, <2>1
    <2> QED BY <1>1, <1>3, <2>2
<1>9. CASE "night" \notin G /\ "last" \in G
    <2>1. "span" \notin S
        BY <1>5, <1>6, <1>9
    <2>2. G = {"last"} /\ S = {"last"}
        BY <1>1, <1>6, <1>9, <2>1
    <2> QED BY <1>1, <1>3, <2>2
<1>10. CASE "night" \notin G /\ "last" \notin G /\ G # {}
    <2>1. G = {"start", "end"}
        BY <1>1, <1>7, <1>10
    <2>2. S = {"span"}
        BY <1>6, <1>10, <2>1
    <2> QED BY <1>1, <1>3, <2>1, <2>2
<1> QED BY <1>1, <1>8, <1>9, <1>10

\* A window that was accepted: by the night it names, or by its bounds.
Whole(q) == q.form \in {"default", "night"}

LEMMA AcceptedWindow ==
    ASSUME NEW p \in SummaryParams, NEW at \in Nat, NEW now \in Nat, at <= now,
           ~WindowRefused(p, at)
    PROVE  LET q == ParseSummary(p, at)
               w == q.window
           IN  /\ Whole(q) => \E d \in Int : w = WholeNights(d, d) /\ HasBegun(d, now)
               /\ ~Whole(q) =>
                     /\ w.start \in Int /\ w.end \in Int /\ w.start < w.end
                     /\ w = Window(DayObs(w.start), DayObs(w.end - 1), w.start, w.end)
                     /\ DayObs(w.end - 1) - DayObs(w.start) + 1 <= MaxNights
                     /\ w.end <= NightEnd(DefaultNight(now))
<1> DEFINE q == ParseSummary(p, at)
           w == q.window
<1>1. w = ParseWindow(p, at)
    BY DEF ParseSummary
<1>2. \/ Given(p) = {}
      \/ Given(p) = {"night"} /\ Forms(p) = {"night"}
      \/ Given(p) = {"last"} /\ Forms(p) = {"last"}
      \/ Given(p) = {"start", "end"} /\ Forms(p) = {"span"}
    BY OneForm DEF WindowRefused
<1>3. /\ Given(p) = {} => q.form = "default"
      /\ Given(p) # {} => \A f : Forms(p) = {f} => q.form = f
    BY DEF ParseSummary
<1>4. PICK last \in Int : /\ last = DefaultNight(at) /\ HasBegun(last, now)
                          /\ NightEnd(last) <= NightEnd(DefaultNight(now))
    BY DefaultNightIs
<1>5. /\ {"night"} # {} /\ {"last"} # {} /\ {"start", "end"} # {} /\ {"night"} # {"last"}
      /\ {"night"} # {"start", "end"} /\ {"last"} # {"start", "end"}
    OBVIOUS
<1>6. CASE Given(p) = {}
    <2>1. w = WholeNights(last, last)
        BY <1>1, <1>4, <1>6 DEF ParseWindow
    <2>2. Whole(q)
        BY <1>3, <1>6 DEF Whole
    <2> QED BY <1>4, <2>1, <2>2
<1>7. CASE Given(p) = {"night"} /\ Forms(p) = {"night"}
    <2>1. w = WholeNights(p.night, p.night)
        BY <1>1, <1>5, <1>7 DEF ParseWindow
    <2>2. Whole(q)
        BY <1>3, <1>5, <1>7 DEF Whole
    <2>3. p.night \in Int
        <3>1. p.night # Omitted
            BY <1>7 DEF Given
        <3>2. p.night # Garbled
            BY <1>7 DEF WindowRefused
        <3>3. p.night \in Int \cup {Omitted, Garbled}
            BY DEF SummaryParams
        <3> QED BY <3>1, <3>2, <3>3
    <2>4. HasBegun(p.night, now)
        <3>1. at >= p.night * Day + Rollover
            BY <1>7 DEF WindowRefused, HasBegun
        <3>2. p.night * Day \in Int /\ Rollover \in Int
            BY <2>3, NightsInOrder, SummaryAssumption
        <3> QED BY <3>1, <3>2 DEF HasBegun
    <2> QED BY <2>1, <2>2, <2>3, <2>4
<1>8. CASE Given(p) = {"last"} /\ Forms(p) = {"last"}
    <2>1. PICK n : n = p.last
        OBVIOUS
    <2>2. n \in 1 .. MaxNights
        BY <1>8, <2>1 DEF WindowRefused
    <2>3. PICK first \in Int : first = last - n + 1
        BY <2>2
    <2>4. w = WholeNights(first, last)
        BY <1>1, <1>4, <1>5, <1>8, <2>1, <2>3 DEF ParseWindow
    <2>5. w.start = NightStart(first) /\ w.end = NightEnd(last) /\ w.nights = first .. last
        BY <2>4 DEF WholeNights, Window
    <2>6. first <= last /\ last - first + 1 <= MaxNights
        BY <2>2, <2>3, SummaryAssumption
    <2>7. /\ NightStart(first) \in Int /\ NightEnd(last) \in Int
          /\ NightStart(first) < NightEnd(last)
          /\ DayObs(NightStart(first)) = first /\ DayObs(NightEnd(last) - 1) = last
        BY <2>6, WholeNightsAre
    <2>8. ~Whole(q)
        BY <1>3, <1>5, <1>8 DEF Whole
    <2>9. w = Window(DayObs(w.start), DayObs(w.end - 1), w.start, w.end)
        BY <2>4, <2>5, <2>7 DEF WholeNights, Window
    <2> QED BY <1>4, <2>5, <2>6, <2>7, <2>8, <2>9
<1>9. CASE Given(p) = {"start", "end"} /\ Forms(p) = {"span"}
    <2>1. w = Window(DayObs(p.start), DayObs(p.end - 1), p.start, p.end)
        BY <1>1, <1>5, <1>9 DEF ParseWindow
    <2>2. w.start = p.start /\ w.end = p.end
        BY <2>1 DEF Window
    <2>3. ~Whole(q)
        BY <1>3, <1>5, <1>9 DEF Whole
    <2>4. p.start \in Int /\ p.end \in Int
        <3>1. p.start # Omitted /\ p.end # Omitted
            BY <1>9 DEF Given
        <3>2. p.start # Garbled /\ p.end # Garbled
            BY <1>9 DEF WindowRefused
        <3>3. p.start \in Int \cup {Omitted, Garbled} /\ p.end \in Int \cup {Omitted, Garbled}
            BY DEF SummaryParams
        <3> QED BY <3>1, <3>2, <3>3
    <2>5. /\ ~(p.end <= p.start) /\ ~(DayObs(p.end - 1) - DayObs(p.start) + 1 > MaxNights)
          /\ ~(p.end > NightEnd(DefaultNight(at)))
        BY <1>9 DEF WindowRefused
    <2>6. DayObs(p.end - 1) \in Int /\ DayObs(p.start) \in Int
        <3>1. Day \div 2 \in Int
            BY SummaryAssumption
        <3> QED BY <2>4, <3>1, NightOfTime DEF DayObs
    <2>7. NightEnd(last) \in Int /\ NightEnd(DefaultNight(now)) \in Int
        BY DefaultNightIs, WholeNightsAre
    <2>8. p.end <= NightEnd(DefaultNight(now))
        BY <1>4, <2>4, <2>5, <2>7
    <2>9. DayObs(p.end - 1) - DayObs(p.start) + 1 <= MaxNights
        BY <2>5, <2>6, SummaryAssumption
    <2> QED BY <2>1, <2>2, <2>3, <2>4, <2>5, <2>8, <2>9
<1> QED BY <1>2, <1>6, <1>7, <1>8, <1>9

\* The parameters echoed with a window name the same window at any later time.
LEMMA WindowIsEchoed ==
    ASSUME NEW q, NEW again, again = RequestUrl(q), NEW now \in Nat,
           Whole(q) => \E d \in Int : q.window = WholeNights(d, d) /\ HasBegun(d, now),
           ~Whole(q) =>
               LET w == q.window
               IN  /\ w.start \in Int /\ w.end \in Int /\ w.start < w.end
                   /\ w = Window(DayObs(w.start), DayObs(w.end - 1), w.start, w.end)
                   /\ DayObs(w.end - 1) - DayObs(w.start) + 1 <= MaxNights
                   /\ w.end <= NightEnd(DefaultNight(now))
    PROVE  ~WindowRefused(again, now) /\ ParseWindow(again, now) = q.window
<1>1. \A x \in Int : x # Omitted /\ x # Garbled
    BY SummaryAssumption
<1>2. again.last = Omitted
    BY DEF RequestUrl
<1>3. CASE Whole(q)
    <2>1. PICK d \in Int : q.window = WholeNights(d, d) /\ HasBegun(d, now)
        BY <1>3
    <2>2. q.window.nights = {d}
        <3>1. d .. d = {d}
            BY <2>1
        <3> QED BY <2>1, <3>1 DEF WholeNights, Window
    <2>3. again.night = d /\ again.start = Omitted /\ again.end = Omitted
        BY <1>3, <2>2 DEF RequestUrl, Whole
    <2>4. Given(again) = {"night"}
        BY <1>1, <1>2, <2>3 DEF Given
    <2>5. Forms(again) = {"night"}
        BY <2>4 DEF Forms
    <2>6. Cardinality(Forms(again)) = 1
        BY <2>5, FS_Singleton
    <2>7. {"night"} # {} /\ {"night"} # {"last"} /\ {"night"} # {"start", "end"}
          /\ {"night"} \notin {{"start"}, {"end"}}
        OBVIOUS
    <2>8. ~WindowRefused(again, now)
        <3>1. ~(again.night = Garbled \/ ~HasBegun(again.night, now))
            BY <1>1, <2>1, <2>3
        <3>2. ~(Cardinality(Forms(again)) > 1)
            BY <2>6
        <3> QED BY <2>4, <2>7, <3>1, <3>2 DEF WindowRefused
    <2>9. ParseWindow(again, now) = WholeNights(d, d)
        BY <2>3, <2>4, <2>7 DEF ParseWindow
    <2> QED BY <2>1, <2>8, <2>9
<1>4. CASE ~Whole(q)
    <2>1. PICK start \in Int, end \in Int :
              /\ start = q.window.start /\ end = q.window.end /\ start < end
              /\ q.window = Window(DayObs(start), DayObs(end - 1), start, end)
              /\ DayObs(end - 1) - DayObs(start) + 1 <= MaxNights
              /\ end <= NightEnd(DefaultNight(now))
        BY <1>4
    <2>2. again.night = Omitted /\ again.start = start /\ again.end = end
        BY <1>4, <2>1 DEF RequestUrl, Whole
    <2>3. Given(again) = {"start", "end"}
        BY <1>1, <1>2, <2>2 DEF Given
    <2>4. Forms(again) = {"span"}
        BY <2>3 DEF Forms
    <2>5. Cardinality(Forms(again)) = 1
        BY <2>4, FS_Singleton
    <2>6. {"start", "end"} # {} /\ {"start", "end"} # {"last"} /\ {"start", "end"} # {"night"}
          /\ {"start", "end"} # {"start"} /\ {"start", "end"} # {"end"}
        <3>1. "start" \in {"start", "end"} /\ "end" \in {"start", "end"}
            OBVIOUS
        <3>2. \A x \in {"last", "night", "end"} : "start" \notin {x}
            OBVIOUS
        <3>3. "end" \notin {"start"}
            OBVIOUS
        <3> QED BY <3>1, <3>2, <3>3
    <2>7. DayObs(end - 1) \in Int /\ DayObs(start) \in Int /\ NightEnd(DefaultNight(now)) \in Int
        <3>1. Day \div 2 \in Int
            BY SummaryAssumption
        <3> QED BY <3>1, NightOfTime, DefaultNightIs, WholeNightsAre DEF DayObs
    <2>8. ~WindowRefused(again, now)
        <3>1. Garbled \notin {again.start, again.end} /\ ~(again.end <= again.start)
            <4>1. Garbled # start /\ Garbled # end /\ ~(end <= start)
                BY <1>1, <2>1
            <4> QED BY <2>2, <4>1
        <3>2. /\ ~(DayObs(again.end - 1) - DayObs(again.start) + 1 > MaxNights)
              /\ ~(again.end > NightEnd(DefaultNight(now)))
            <4>1. /\ ~(DayObs(end - 1) - DayObs(start) + 1 > MaxNights)
                  /\ ~(end > NightEnd(DefaultNight(now)))
                BY <2>1, <2>7, SummaryAssumption
            <4> QED BY <2>2, <4>1
        <3>3. ~(Cardinality(Forms(again)) > 1)
            BY <2>5
        <3> QED BY <2>3, <2>6, <3>1, <3>2, <3>3 DEF WindowRefused
    <2>9. ParseWindow(again, now) = Window(DayObs(start), DayObs(end - 1), start, end)
        BY <2>2, <2>3, <2>6 DEF ParseWindow
    <2> QED BY <2>1, <2>8, <2>9
<1> QED BY <1>3, <1>4

\* An accepted request, echoed and replayed later, is accepted and means the same.
Replays(q, now) ==
    /\ ~SummaryRefused(RequestUrl(q), now)
    /\ [ParseSummary(RequestUrl(q), now) EXCEPT !.form = ""] = [q EXCEPT !.form = ""]

LEMMA ReplayMeansTheSame ==
    ASSUME NEW p \in SummaryParams, NEW at \in Nat, NEW now \in Nat, at <= now,
           ~SummaryRefused(p, at), NEW q, q = ParseSummary(p, at)
    PROVE  Replays(q, now)
<1>1. ~WindowRefused(p, at) /\ ~SummarySpan(p) /\ ~SummaryFiltersRefused(p)
      /\ ~(p.top # Omitted /\ p.top \notin 1 .. MaxTop)
    BY DEF SummaryRefused
<1>2. PICK again : again = RequestUrl(q)
    OBVIOUS
<1>3. ~WindowRefused(again, now) /\ ParseWindow(again, now) = q.window
    BY <1>1, <1>2, AcceptedWindow, WindowIsEchoed
<1>4. /\ q.broker = {p.broker} \ {"absent"} /\ q.catalog = p.catalogs
      /\ q.match = IF p.match = "absent" /\ p.catalogs # {} THEN "with" ELSE p.match
      /\ q.top = IF p.top = Omitted THEN DefaultTop ELSE p.top
    BY DEF ParseSummary
<1>5. /\ again.broker = IF q.broker = {} THEN "absent" ELSE CHOOSE b \in q.broker : TRUE
      /\ again.catalogs = q.catalog /\ again.match = q.match /\ again.top = q.top
    BY <1>2 DEF RequestUrl
<1>6. again.broker = p.broker
    BY <1>4, <1>5
<1>7. ~SummarySpan(again) /\ ~SummaryFiltersRefused(again)
    BY <1>1, <1>4, <1>5, <1>6 DEF SummarySpan, SummaryFiltersRefused
<1>8. q.top \in 1 .. MaxTop /\ q.top # Omitted
    <2>1. \A x \in Int : x # Omitted
        BY SummaryAssumption
    <2>2. q.top \in 1 .. MaxTop
        BY <1>1, <1>4, SummaryAssumption
    <2> QED BY <2>1, <2>2
<1>9. ~SummaryRefused(again, now)
    BY <1>3, <1>5, <1>7, <1>8 DEF SummaryRefused
<1>10. ~(q.match = "absent" /\ q.catalog # {})
    BY <1>4
<1>11. \E form : ParseSummary(again, now) = [q EXCEPT !.form = form]
    <2>1. \E form : ParseSummary(again, now) =
             [window |-> q.window, broker |-> {again.broker} \ {"absent"}, catalog |-> again.catalogs,
              match |-> IF again.match = "absent" /\ again.catalogs # {} THEN "with" ELSE again.match,
              top |-> IF again.top = Omitted THEN DefaultTop ELSE again.top, form |-> form]
        BY <1>3 DEF ParseSummary
    <2>2. PICK form : ParseSummary(again, now) =
             [window |-> q.window, broker |-> q.broker, catalog |-> q.catalog, match |-> q.match,
              top |-> q.top, form |-> form]
        BY <1>4, <1>5, <1>6, <1>8, <1>10, <2>1
    <2>3. \E w, b, c, m, t, f :
             q = [window |-> w, broker |-> b, catalog |-> c, match |-> m, top |-> t, form |-> f]
        BY DEF ParseSummary
    <2> QED BY <2>2, <2>3
<1>12. PICK form : ParseSummary(again, now) = [q EXCEPT !.form = form]
    BY <1>11
<1>13. [[q EXCEPT !.form = form] EXCEPT !.form = ""] = [q EXCEPT !.form = ""]
    OBVIOUS
<1> QED BY <1>2, <1>9, <1>12, <1>13 DEF Replays

\* The window of a running summary was accepted at a time that is past.
NightFields == {"pc", "query", "snap", "perNight", "basis", "pending", "histogram", "noScore",
                "brokers", "several", "buckets", "top", "latest"}

NightInv ==
    /\ night = [f \in NightFields |-> night[f]]
    /\ night.pc \notin {"start", "refused"} =>
          \E p \in Summaries : \E at \in 0 .. clock :
              ~SummaryRefused(p, at) /\ night.query = ParseSummary(p, at)

LEMMA NightGoesOn ==
    ASSUME NightInv, clock \in Nat, clock' \in Nat, clock <= clock',
           night' = [f \in NightFields |-> night'[f]],
           night'.pc \in {"start", "refused"} \/ (night.pc \notin {"start", "refused"}
                                                   /\ night'.query = night.query)
    PROVE  NightInv'
<1>1. \A at \in 0 .. clock : at \in 0 .. clock'
    OBVIOUS
<1> QED BY <1>1 DEF NightInv

LEMMA SummaryKeepsNight ==
    ASSUME NightInv, clock \in Nat, SummaryStep PROVE NightInv'
<1>1. clock' = clock
    BY DEF SummaryStep, AskSummary, NightRows, PendingCount, Reliability, BrokerCounts,
           CatalogBuckets, Top, storeVars
<1>2. ASSUME NEW p \in Summaries, AskSummary(p) PROVE NightInv'
    <2>1. CASE SummaryRefused(p, clock)
        <3>1. night' = [night EXCEPT !.pc = "refused"]
            BY <1>2, <2>1 DEF AskSummary
        <3>2. night' = [f \in NightFields |-> night'[f]] /\ night'.pc = "refused"
            BY <3>1 DEF NightInv, NightFields
        <3> QED BY <1>1, <3>2, NightGoesOn
    <2>2. CASE ~SummaryRefused(p, clock)
        <3>1. night' = [night EXCEPT !.pc = "nights", !.query = ParseSummary(p, clock)]
            BY <1>2, <2>2 DEF AskSummary
        <3>2. /\ night' = [f \in NightFields |-> night'[f]]
              /\ night'.query = ParseSummary(p, clock)
            BY <3>1 DEF NightInv, NightFields
        <3> QED BY <1>1, <1>2, <2>2, <3>2 DEF NightInv
    <2> QED BY <2>1, <2>2
<1>3. ASSUME NightRows \/ PendingCount \/ Reliability \/ BrokerCounts \/ CatalogBuckets \/ Top
      PROVE  NightInv'
    <2>1. night.pc \notin {"start", "refused"}
        BY <1>3 DEF NightRows, PendingCount, Reliability, BrokerCounts, CatalogBuckets, Top
    <2>2. /\ night' = [f \in NightFields |-> night'[f]] /\ night'.query = night.query
        <3>1. CASE NightRows
            <4>1. \E snap, perNight, basis :
                     night' = [[night EXCEPT !.snap = snap] EXCEPT !.pc = "pending",
                                 !.perNight = perNight, !.basis = basis]
                BY <3>1 DEF NightRows
            <4> QED BY <4>1 DEF NightInv, NightFields
        <3>2. CASE PendingCount
            <4>1. \E n : night' = [night EXCEPT !.pc = "reliability", !.pending = n]
                BY <3>2 DEF PendingCount
            <4> QED BY <4>1 DEF NightInv, NightFields
        <3>3. CASE Reliability
            <4>1. \E h, n : night' = [night EXCEPT !.pc = "brokers", !.histogram = h, !.noScore = n]
                BY <3>3 DEF Reliability
            <4> QED BY <4>1 DEF NightInv, NightFields
        <3>4. CASE BrokerCounts
            <4>1. \E b, n : night' = [night EXCEPT !.pc = "catalogs", !.brokers = b, !.several = n]
                BY <3>4 DEF BrokerCounts
            <4> QED BY <4>1 DEF NightInv, NightFields
        <3>5. CASE CatalogBuckets
            <4>1. \E b : night' = [night EXCEPT !.pc = "top", !.buckets = b]
                BY <3>5 DEF CatalogBuckets
            <4> QED BY <4>1 DEF NightInv, NightFields
        <3>6. CASE Top
            <4>1. \E t, l : night' = [night EXCEPT !.pc = "answered", !.top = t, !.latest = l]
                BY <3>6 DEF Top
            <4> QED BY <4>1 DEF NightInv, NightFields
        <3> QED BY <1>3, <3>1, <3>2, <3>3, <3>4, <3>5, <3>6
    <2> QED BY <1>1, <2>1, <2>2, NightGoesOn
<1> QED BY <1>2, <1>3 DEF SummaryStep

LEMMA NightIsKept == Spec => []NightInv
<1>1. Init => NightInv
    BY DEF Init, FreshNight, NightInv, NightFields
<1>2. ASSUME TruthInv, NightInv, [Next]_readVars PROVE NightInv'
    <2>1. StoreTyped /\ clock \in Nat
        BY <1>2 DEF TruthInv, Shape, StoreTyped
    <2>2. CASE SummaryStep
        BY <1>2, <2>1, <2>2, SummaryKeepsNight
    <2>3. CASE UNCHANGED night /\ clock' \in Nat /\ clock <= clock'
        BY <1>2, <2>1, <2>3 DEF NightInv
    <2>4. CASE StoreStepSeen /\ UNCHANGED night
        <3>1. clock' \in Nat /\ clock <= clock'
            BY <2>1, <2>4, StoreGoesOn DEF StoreStepSeen, StoreTyped
        <3> QED BY <2>3, <2>4, <3>1
    <2>5. CASE UNCHANGED <<storeVars, night>>
        BY <2>1, <2>3, <2>5 DEF storeVars
    <2>6. WalkStep => UNCHANGED storeVars
        BY DEF WalkStep, Ask, FetchRows, LoadMatches, Deliver
    <2>7. LookupStep \/ BuildStep => UNCHANGED storeVars
        BY DEF LookupStep, Submit, ResolveNames, SearchAll, Assemble, ApplyFilters, BuildStep,
               ReadAlerts, ReadRecords, ReadMatched, ReadMatches, ReadBrokers,
           BuildObjects
    <2>8. ConeStep => UNCHANGED storeVars
        BY DEF ConeStep, AskCone, FetchPage, CountWhole, FetchCandidates, MakePage, MarkPage
    <2>9. ChatStep => UNCHANGED storeVars
        BY <2>7, <2>8 DEF ChatStep, AskLookup, AskNear, Submit, AskCone, Project, LookupStep, ConeStep
    <2> QED BY <1>2, <2>2, <2>4, <2>5, <2>6, <2>7, <2>8, <2>9 DEF Next, readVars
<1> QED BY <1>1, <1>2, TruthIsKept, PTL DEF Spec

\* The request echoed with a summary is accepted whenever it is replayed, and means
\* the same nights, filters and number of objects, whatever the clock says then.
THEOREM ReplaysStayTheSame == Spec => []ReplayIsTheSame
<1>1. ASSUME TruthInv, NightInv PROVE ReplayIsTheSame
    <2> SUFFICES ASSUME night.pc \notin {"start", "refused"} PROVE Replays(night.query, clock)
        BY DEF ReplayIsTheSame, Replays
    <2>1. clock \in Nat
        BY <1>1 DEF TruthInv, Shape, StoreTyped
    <2>2. PICK p \in Summaries : \E at \in 0 .. clock :
              ~SummaryRefused(p, at) /\ night.query = ParseSummary(p, at)
        BY <1>1 DEF NightInv
    <2>3. PICK at \in 0 .. clock : ~SummaryRefused(p, at) /\ night.query = ParseSummary(p, at)
        BY <2>2
    <2>4. at \in Nat /\ at <= clock
        BY <2>1
    <2>5. p \in SummaryParams
        BY SummariesAssumption
    <2>6. PICK q : q = night.query
        OBVIOUS
    <2>7. q = ParseSummary(p, at) /\ ~SummaryRefused(p, at)
        BY <2>3, <2>6
    <2>8. PICK now \in Nat : now = clock
        BY <2>1
    <2>9. Replays(q, now)
        BY <2>4, <2>5, <2>7, <2>8, ReplayMeansTheSame
    <2> QED BY <2>6, <2>8, <2>9
<1> QED BY <1>1, NightIsKept, TruthIsKept, PTL

-----------------------------------------------------------------------------
\* Sums of counts: a count by a value adds up to what has one of the values.

\* The sum of SumOf, as the function on subsets its fold is defined by.
TermOf(f, x) == IF x \in DOMAIN f THEN f[x] ELSE 0

Chosen(s) == CHOOSE x \in s : TRUE

Adds(f, S, w) ==
    w = [s \in SUBSET S |-> IF s = {} THEN 0
           ELSE TermOf(f, Chosen(s)) + w[s \ {Chosen(s)}]]

LEMMA SumUnfolds ==
    ASSUME NEW f, NEW S, NEW w, Adds(f, S, w)
    PROVE  \E iter : Adds(f, S, iter) /\ SumOf(f, S) = iter[S]
BY DEF SumOf, MapThenSumSet, MapThenFoldSet, TermOf, Adds, Chosen

LEMMA SumStep ==
    ASSUME NEW f, NEW S, NEW w, Adds(f, S, w), NEW s \in SUBSET S, s # {},
           NEW c, c = Chosen(s)
    PROVE  c \in s /\ w[s] = TermOf(f, c) + w[s \ {c}]
<1>1. c \in s
    BY DEF Chosen
<1>2. w[s] = TermOf(f, c) + w[s \ {c}]
    BY DEF Adds
<1> QED BY <1>1, <1>2

LEMMA SumIsUnique ==
    ASSUME NEW f, NEW S, IsFiniteSet(S), NEW v, NEW w, Adds(f, S, v), Adds(f, S, w)
    PROVE  v[S] = w[S]
<1> DEFINE T == {s \in SUBSET S : v[s] # w[s]}
<1>1. ASSUME T # {} PROVE FALSE
    <2>1. PICK s \in T : \A r \in T : r \subseteq s => r = s
        <3>1. \A r \in T : r \subseteq S
            OBVIOUS
        <3> HIDE DEF T
        <3> QED BY <1>1, <3>1, SmallestSubset
    <2>2. s \in SUBSET S /\ v[s] # w[s]
        OBVIOUS
    <2>3. s # {}
        <3>1. v[{}] = 0 /\ w[{}] = 0
            <4>1. {} \in SUBSET S
                OBVIOUS
            <4> QED BY <4>1 DEF Adds
        <3> QED BY <2>2, <3>1
    <2>4. PICK c : c = Chosen(s)
        OBVIOUS
    <2> HIDE DEF T
    <2>5. /\ c \in s /\ v[s] = TermOf(f, c) + v[s \ {c}]
          /\ w[s] = TermOf(f, c) + w[s \ {c}]
        <3>1. s \in SUBSET S /\ s # {}
            BY <2>2, <2>3
        <3>2. c \in s /\ v[s] = TermOf(f, c) + v[s \ {c}]
            BY <2>4, <3>1, SumStep
        <3>3. w[s] = TermOf(f, c) + w[s \ {c}]
            BY <2>4, <3>1, SumStep
        <3> QED BY <3>2, <3>3
    <2>6. s \ {c} \in SUBSET S /\ s \ {c} # s /\ s \ {c} \subseteq s
        BY <2>2, <2>5
    <2>7. v[s \ {c}] = w[s \ {c}]
        BY <2>1, <2>6 DEF T
    <2> QED BY <2>2, <2>5, <2>7
<1>2. S \in SUBSET S
    OBVIOUS
<1> QED BY <1>1, <1>2

\* A function on subsets that adds up is what SumOf gives.
LEMMA SumIs ==
    ASSUME NEW f, NEW S, IsFiniteSet(S), NEW w, Adds(f, S, w)
    PROVE  SumOf(f, S) = w[S]
<1>1. PICK iter : Adds(f, S, iter) /\ SumOf(f, S) = iter[S]
    BY SumUnfolds
<1> QED BY <1>1, SumIsUnique

\* Elements of K, by the value that h gives them.
Fibre(K, h, s) == {x \in K : h[x] \in s}

LEMMA FibresAdd ==
    ASSUME NEW K, IsFiniteSet(K), NEW h, NEW s, NEW c \in s
    PROVE  /\ Cardinality(Fibre(K, h, {c})) \in Nat /\ Cardinality(Fibre(K, h, s \ {c})) \in Nat
           /\ Cardinality(Fibre(K, h, s))
                = Cardinality(Fibre(K, h, {c})) + Cardinality(Fibre(K, h, s \ {c}))
<1>1. \A r : Fibre(K, h, r) \in SUBSET K
    BY DEF Fibre
<1>2. \A r : IsFiniteSet(Fibre(K, h, r)) /\ Cardinality(Fibre(K, h, r)) \in Nat
    BY <1>1, FS_Subset, FS_CardinalityType
<1>3. PICK A, B : A = Fibre(K, h, {c}) /\ B = Fibre(K, h, s \ {c})
    OBVIOUS
<1>4. Fibre(K, h, s) = A \cup B /\ A \cap B = {}
    BY <1>3 DEF Fibre
<1>5. Cardinality(A \cup B) = Cardinality(A) + Cardinality(B)
    <2>1. IsFiniteSet(A) /\ IsFiniteSet(B) /\ Cardinality(A) \in Nat /\ Cardinality(B) \in Nat
        BY <1>2, <1>3
    <2>2. Cardinality(A \cap B) = 0
        BY <1>4, FS_EmptySet
    <2>3. Cardinality(A \cup B) = Cardinality(A) + Cardinality(B) - Cardinality(A \cap B)
        BY <2>1, FS_Union
    <2> QED BY <2>1, <2>2, <2>3
<1> QED BY <1>2, <1>3, <1>4, <1>5

\* Counting by a value: the counts of the values of S sum up to the elements
\* that have a value in S.
LEMMA SumCounts ==
    ASSUME NEW S, IsFiniteSet(S), NEW K, IsFiniteSet(K), NEW h, NEW f,
           \A i \in S : TermOf(f, i) = Cardinality({x \in K : h[x] = i})
    PROVE  SumOf(f, S) = Cardinality({x \in K : h[x] \in S})
<1>1. PICK w : w = [s \in SUBSET S |-> Cardinality(Fibre(K, h, s))]
    OBVIOUS
<1>2. ASSUME NEW s \in SUBSET S
      PROVE  w[s] = IF s = {} THEN 0
                    ELSE TermOf(f, Chosen(s)) + w[s \ {Chosen(s)}]
    <2>1. CASE s = {}
        BY <1>1, <2>1, FS_EmptySet DEF Fibre
    <2>2. CASE s # {}
        <3>1. PICK c : c = Chosen(s)
            OBVIOUS
        <3>4. c \in s
            BY <2>2, <3>1 DEF Chosen
        <3>2. w[s] = Cardinality(Fibre(K, h, s)) /\ w[s \ {c}] = Cardinality(Fibre(K, h, s \ {c}))
            BY <1>1
        <3>3. TermOf(f, c) = Cardinality(Fibre(K, h, {c}))
            <4>1. Fibre(K, h, {c}) = {x \in K : h[x] = c}
                BY DEF Fibre
            <4>2. c \in S
                BY <3>4
            <4> QED BY <4>1, <4>2
        <3>5. Cardinality(Fibre(K, h, s))
                = Cardinality(Fibre(K, h, {c})) + Cardinality(Fibre(K, h, s \ {c}))
            BY <3>4, FibresAdd
        <3> QED BY <2>2, <3>1, <3>2, <3>3, <3>4, <3>5
    <2> QED BY <2>1, <2>2
<1>3. Adds(f, S, w)
    BY <1>1, <1>2 DEF Adds
<1>4. SumOf(f, S) = w[S]
    BY <1>3, SumIs
<1> QED BY <1>1, <1>4 DEF Fibre

\* When every element has a value in S, they are all counted.
LEMMA SumCountsAll ==
    ASSUME NEW S, IsFiniteSet(S), NEW K, IsFiniteSet(K), NEW h, NEW f,
           \A i \in S : TermOf(f, i) = Cardinality({x \in K : h[x] = i}),
           \A x \in K : h[x] \in S
    PROVE  SumOf(f, S) = Cardinality(K)
<1>1. {x \in K : h[x] \in S} = K
    OBVIOUS
<1> QED BY <1>1, SumCounts

-----------------------------------------------------------------------------
\* The numbers of a summary.

\* What each statement of a summary found: a function of the request and of the
\* snapshot, which the later statements leave alone.
PerNightOf(K) ==
    [d \in {DayObs(EventTime[o]) : o \in K} |-> Cardinality({o \in K : DayObs(EventTime[o]) = d})]

BasisOf(K) == [b \in {Basis[o] : o \in Objects} |-> Cardinality({o \in K : Basis[o] = b})]

PendingOf(n) ==
    Cardinality({o \in Base(n) : SnapshotOf(n)[o].status \in {"INGESTED", "QUEUED"}})

Scored(K) == {o \in K : Score[o] # NoScore}

HistogramOf(K) == [i \in 1 .. Bins |-> Cardinality({o \in Scored(K) : Bin(Score[o]) = i})]

BrokersOf(K, snap) == [b \in Brokers |-> Cardinality({o \in K : b \in snap[o].brokers})]

Several(K, snap) == {o \in K : Cardinality(snap[o].brokers) > 1}

Crossed(K, snap) == {o \in K : Done(snap[o])}

Shown(q, c) == IF q.match = "without" /\ c \in q.catalog
               THEN Buckets \ {"coincident_sources"} ELSE Buckets

BucketsOf(K, snap, q) ==
    [c \in Catalogs |-> [b \in Shown(q, c) |->
        Cardinality({o \in Crossed(K, snap) : Bucket(snap[o], c) = b})]]

TopObjects(K, top) == {o \in Scored(K) : Cardinality({p \in Scored(K) : Ranks(p, o)}) < top}

TopOf(K, snap, top) == [o \in TopObjects(K, top) |-> TopStatus(snap[o])]

\* What a statement that was run found.
FoundNights(n) ==
    /\ n.snap \in [Objects -> Rows]
    /\ n.perNight = PerNightOf(Kept(n)) /\ n.basis = BasisOf(Kept(n))
FoundPending(n) == n.pending = PendingOf(n)
FoundScores(n) ==
    n.histogram = HistogramOf(Kept(n)) /\ n.noScore = Cardinality(Kept(n) \ Scored(Kept(n)))
FoundBrokers(n) ==
    n.brokers = BrokersOf(Kept(n), n.snap) /\ n.several = Cardinality(Several(Kept(n), n.snap))
FoundBuckets(n) == n.buckets = BucketsOf(Kept(n), n.snap, n.query)
FoundTop(n) == n.top = TopOf(Kept(n), n.snap, n.query.top)

FoundIn(n) ==
    /\ n.pc \in {"start", "refused", "nights", "pending", "reliability", "brokers", "catalogs", "top",
                 "answered"}
    /\ n.pc \notin {"start", "refused", "nights"} => FoundNights(n)
    /\ n.pc \in {"reliability", "brokers", "catalogs", "top", "answered"} => FoundPending(n)
    /\ n.pc \in {"brokers", "catalogs", "top", "answered"} => FoundScores(n)
    /\ n.pc \in {"catalogs", "top", "answered"} => FoundBrokers(n)
    /\ n.pc \in {"top", "answered"} => FoundBuckets(n)
    /\ n.pc = "answered" => FoundTop(n)

LEMMA KeptDependsOn ==
    ASSUME NEW m, NEW n, m.snap = n.snap, m.query = n.query
    PROVE  Base(m) = Base(n) /\ Kept(m) = Kept(n) /\ PendingOf(m) = PendingOf(n)
<1>1. SnapshotOf(m) = SnapshotOf(n)
    BY DEF SnapshotOf
<1>2. Base(m) = Base(n)
    BY <1>1 DEF Base
<1>3. Kept(m) = Kept(n)
    BY <1>1, <1>2 DEF Kept
<1>4. PendingOf(m) = PendingOf(n)
    BY <1>1, <1>2 DEF PendingOf
<1> QED BY <1>2, <1>3, <1>4

\* A later statement keeps what the earlier ones found.
LEMMA FoundStays ==
    ASSUME NEW m, NEW n, m.snap = n.snap, m.query = n.query
    PROVE  /\ m.perNight = n.perNight /\ m.basis = n.basis /\ FoundNights(n) => FoundNights(m)
           /\ m.pending = n.pending /\ FoundPending(n) => FoundPending(m)
           /\ m.histogram = n.histogram /\ m.noScore = n.noScore /\ FoundScores(n) => FoundScores(m)
           /\ m.brokers = n.brokers /\ m.several = n.several /\ FoundBrokers(n) => FoundBrokers(m)
           /\ m.buckets = n.buckets /\ FoundBuckets(n) => FoundBuckets(m)
<1>1. Kept(m) = Kept(n) /\ PendingOf(m) = PendingOf(n)
    BY KeptDependsOn
<1> QED BY <1>1 DEF FoundNights, FoundPending, FoundScores, FoundBrokers, FoundBuckets

LEMMA NightsFind ==
    ASSUME NightInv, StoreTyped, NightRows PROVE FoundIn(night')
<1>1. PICK n : n = [night EXCEPT !.snap = rows]
    OBVIOUS
<1>2. night' = [n EXCEPT !.pc = "pending", !.perNight = PerNightOf(Kept(n)), !.basis = BasisOf(Kept(n))]
    BY <1>1 DEF NightRows, PerNightOf, BasisOf
<1>3. n = [f \in NightFields |-> n[f]] /\ n.snap = rows
    BY <1>1 DEF NightInv, NightFields
<1>4. PICK m : m = night'
    OBVIOUS
<1>5. /\ m.pc = "pending" /\ m.snap = n.snap /\ m.query = n.query
      /\ m.perNight = PerNightOf(Kept(n)) /\ m.basis = BasisOf(Kept(n))
    BY <1>2, <1>3, <1>4 DEF NightFields
<1>6. Kept(m) = Kept(n)
    BY <1>5, KeptDependsOn
<1>7. m.snap \in [Objects -> Rows]
    BY <1>3, <1>5 DEF StoreTyped
<1>8. FoundIn(m)
    BY <1>5, <1>6, <1>7 DEF FoundIn, FoundNights
<1> QED BY <1>4, <1>8

LEMMA PendingFinds ==
    ASSUME NightInv, FoundIn(night), PendingCount PROVE FoundIn(night')
<1>1. PICK n : n = night
    OBVIOUS
<1>2. n = [f \in NightFields |-> n[f]] /\ n.pc = "pending" /\ FoundIn(n)
    BY <1>1 DEF NightInv, PendingCount
<1>3. PICK m : m = night'
    OBVIOUS
<1>4. m = [n EXCEPT !.pc = "reliability", !.pending = PendingOf(n)]
    BY <1>1, <1>3 DEF PendingCount, PendingOf
<1>5. /\ m.pc = "reliability" /\ m.snap = n.snap /\ m.query = n.query
      /\ m.perNight = n.perNight /\ m.basis = n.basis /\ m.pending = PendingOf(n)
    BY <1>2, <1>4 DEF NightFields
<1>6. FoundNights(n)
    BY <1>2 DEF FoundIn
<1>7. FoundPending(m) /\ FoundNights(m)
    BY <1>5, <1>6, FoundStays, KeptDependsOn DEF FoundPending
<1>8. FoundIn(m)
    BY <1>5, <1>7 DEF FoundIn
<1> QED BY <1>3, <1>8

LEMMA ScoresFind ==
    ASSUME NightInv, FoundIn(night), Reliability PROVE FoundIn(night')
<1>1. PICK n : n = night
    OBVIOUS
<1>2. n = [f \in NightFields |-> n[f]] /\ n.pc = "reliability" /\ FoundIn(n)
    BY <1>1 DEF NightInv, Reliability
<1>3. PICK m : m = night'
    OBVIOUS
<1>4. m = [n EXCEPT !.pc = "brokers", !.histogram = HistogramOf(Kept(n)),
                    !.noScore = Cardinality(Kept(n) \ Scored(Kept(n)))]
    BY <1>1, <1>3 DEF Reliability, HistogramOf, Scored
<1>5. /\ m.pc = "brokers" /\ m.snap = n.snap /\ m.query = n.query
      /\ m.perNight = n.perNight /\ m.basis = n.basis /\ m.pending = n.pending
      /\ m.histogram = HistogramOf(Kept(n)) /\ m.noScore = Cardinality(Kept(n) \ Scored(Kept(n)))
    BY <1>2, <1>4 DEF NightFields
<1>6. FoundNights(n) /\ FoundPending(n)
    BY <1>2 DEF FoundIn
<1>7. FoundNights(m) /\ FoundPending(m)
    BY <1>5, <1>6, FoundStays
<1>8. FoundScores(m)
    <2>1. Kept(m) = Kept(n)
        BY <1>5, KeptDependsOn
    <2> QED BY <1>5, <2>1 DEF FoundScores
<1>9. FoundIn(m)
    BY <1>5, <1>7, <1>8 DEF FoundIn
<1> QED BY <1>3, <1>9

LEMMA BrokersFind ==
    ASSUME NightInv, FoundIn(night), BrokerCounts PROVE FoundIn(night')
<1>1. PICK n : n = night
    OBVIOUS
<1>2. n = [f \in NightFields |-> n[f]] /\ n.pc = "brokers" /\ FoundIn(n)
    BY <1>1 DEF NightInv, BrokerCounts
<1>3. PICK m : m = night'
    OBVIOUS
<1>4. m = [n EXCEPT !.pc = "catalogs", !.brokers = BrokersOf(Kept(n), n.snap),
                    !.several = Cardinality(Several(Kept(n), n.snap))]
    BY <1>1, <1>3 DEF BrokerCounts, BrokersOf, Several, SnapshotOf
<1>5. /\ m.pc = "catalogs" /\ m.snap = n.snap /\ m.query = n.query
      /\ m.perNight = n.perNight /\ m.basis = n.basis /\ m.pending = n.pending
      /\ m.histogram = n.histogram /\ m.noScore = n.noScore
      /\ m.brokers = BrokersOf(Kept(n), n.snap) /\ m.several = Cardinality(Several(Kept(n), n.snap))
    BY <1>2, <1>4 DEF NightFields
<1>6. FoundNights(n) /\ FoundPending(n) /\ FoundScores(n)
    BY <1>2 DEF FoundIn
<1>7. FoundNights(m) /\ FoundPending(m) /\ FoundScores(m)
    BY <1>5, <1>6, FoundStays
<1>8. FoundBrokers(m)
    <2>1. Kept(m) = Kept(n)
        BY <1>5, KeptDependsOn
    <2> QED BY <1>5, <2>1 DEF FoundBrokers
<1>9. FoundIn(m)
    BY <1>5, <1>7, <1>8 DEF FoundIn
<1> QED BY <1>3, <1>9

LEMMA BucketsFind ==
    ASSUME NightInv, FoundIn(night), CatalogBuckets PROVE FoundIn(night')
<1>1. PICK n : n = night
    OBVIOUS
<1>2. n = [f \in NightFields |-> n[f]] /\ n.pc = "catalogs" /\ FoundIn(n)
    BY <1>1 DEF NightInv, CatalogBuckets
<1>3. PICK m : m = night'
    OBVIOUS
<1>4. m = [n EXCEPT !.pc = "top", !.buckets = BucketsOf(Kept(n), n.snap, n.query)]
    BY <1>1, <1>3 DEF CatalogBuckets, BucketsOf, Crossed, Shown, SnapshotOf
<1>5. /\ m.pc = "top" /\ m.snap = n.snap /\ m.query = n.query
      /\ m.perNight = n.perNight /\ m.basis = n.basis /\ m.pending = n.pending
      /\ m.histogram = n.histogram /\ m.noScore = n.noScore
      /\ m.brokers = n.brokers /\ m.several = n.several
      /\ m.buckets = BucketsOf(Kept(n), n.snap, n.query)
    BY <1>2, <1>4 DEF NightFields
<1>6. FoundNights(n) /\ FoundPending(n) /\ FoundScores(n) /\ FoundBrokers(n)
    BY <1>2 DEF FoundIn
<1>7. FoundNights(m) /\ FoundPending(m) /\ FoundScores(m) /\ FoundBrokers(m)
    BY <1>5, <1>6, FoundStays
<1>8. FoundBuckets(m)
    <2>1. Kept(m) = Kept(n)
        BY <1>5, KeptDependsOn
    <2> QED BY <1>5, <2>1 DEF FoundBuckets
<1>9. FoundIn(m)
    BY <1>5, <1>7, <1>8 DEF FoundIn
<1> QED BY <1>3, <1>9

LEMMA TopFinds ==
    ASSUME NightInv, FoundIn(night), Top PROVE FoundIn(night')
<1>1. PICK n : n = night
    OBVIOUS
<1>2. n = [f \in NightFields |-> n[f]] /\ n.pc = "top" /\ FoundIn(n)
    BY <1>1 DEF NightInv, Top
<1>3. PICK m : m = night'
    OBVIOUS
<1>4. PICK latest : m = [n EXCEPT !.pc = "answered", !.top = TopOf(Kept(n), n.snap, n.query.top),
                                  !.latest = latest]
    BY <1>1, <1>3 DEF Top, TopOf, TopObjects, Scored, SnapshotOf
<1>5. /\ m.pc = "answered" /\ m.snap = n.snap /\ m.query = n.query
      /\ m.perNight = n.perNight /\ m.basis = n.basis /\ m.pending = n.pending
      /\ m.histogram = n.histogram /\ m.noScore = n.noScore
      /\ m.brokers = n.brokers /\ m.several = n.several /\ m.buckets = n.buckets
      /\ m.top = TopOf(Kept(n), n.snap, n.query.top)
    BY <1>2, <1>4 DEF NightFields
<1>6. FoundNights(n) /\ FoundPending(n) /\ FoundScores(n) /\ FoundBrokers(n) /\ FoundBuckets(n)
    BY <1>2 DEF FoundIn
<1>7. FoundNights(m) /\ FoundPending(m) /\ FoundScores(m) /\ FoundBrokers(m) /\ FoundBuckets(m)
    BY <1>5, <1>6, FoundStays
<1>8. FoundTop(m)
    <2>1. Kept(m) = Kept(n)
        BY <1>5, KeptDependsOn
    <2> QED BY <1>5, <2>1 DEF FoundTop
<1>9. FoundIn(m)
    BY <1>5, <1>7, <1>8 DEF FoundIn
<1> QED BY <1>3, <1>9

LEMMA AskFinds ==
    ASSUME NightInv, NEW p, AskSummary(p) PROVE FoundIn(night')
<1>1. night'.pc \in {"refused", "nights"}
    BY DEF AskSummary, NightInv, NightFields
<1> QED BY <1>1 DEF FoundIn

FoundInv == FoundIn(night)

LEMMA FoundIsKept == Spec => []FoundInv
<1>1. Init => FoundInv
    BY DEF Init, FreshNight, FoundIn, FoundInv
<1>2. ASSUME TruthInv, NightInv, FoundInv, [Next]_readVars PROVE FoundInv'
    <2>1. StoreTyped
        BY <1>2 DEF TruthInv, Shape
    <2>2. CASE SummaryStep
        BY <1>2, <2>1, <2>2, AskFinds, NightsFind, PendingFinds, ScoresFind, BrokersFind, BucketsFind,
           TopFinds DEF SummaryStep, FoundInv
    <2>3. CASE UNCHANGED night
        BY <1>2, <2>3 DEF FoundInv
    <2> QED BY <1>2, <2>2, <2>3 DEF Next, readVars
<1> QED BY <1>1, <1>2, NightIsKept, TruthIsKept, PTL DEF Spec

-----------------------------------------------------------------------------
\* What the counts add up to.

LEMMA ImageIsFinite ==
    ASSUME NEW K, IsFiniteSet(K), NEW h
    PROVE  IsFiniteSet({h[x] : x \in K})
<1>1. PICK g : g = [x \in K |-> h[x]]
    OBVIOUS
<1>2. g \in Surjection(K, {h[x] : x \in K})
    BY <1>1 DEF Surjection
<1> QED BY <1>2, FS_Surjection

\* The window of a summary, by the nights of its ends.
LEMMA WindowIsNights ==
    ASSUME NEW p \in SummaryParams, NEW at \in Nat, ~SummaryRefused(p, at), NEW n,
           n.query = ParseSummary(p, at), NEW w, w = n.query.window
    PROVE  \E first \in Int, last \in Int :
              /\ w.nights = first .. last /\ w.start \in Int /\ w.end \in Int
              /\ DayObs(w.start) = first /\ DayObs(w.end - 1) = last
<1>1. ~WindowRefused(p, at)
    BY DEF SummaryRefused
<1>2. CASE Whole(n.query)
    <2>1. PICK d \in Int : w = WholeNights(d, d)
        BY <1>1, <1>2, AcceptedWindow
    <2>2. /\ NightStart(d) \in Int /\ NightEnd(d) \in Int
          /\ DayObs(NightStart(d)) = d /\ DayObs(NightEnd(d) - 1) = d
        BY WholeNightsAre
    <2>3. w.nights = d .. d /\ w.start = NightStart(d) /\ w.end = NightEnd(d)
        BY <2>1 DEF WholeNights, Window
    <2> QED BY <2>2, <2>3
<1>3. CASE ~Whole(n.query)
    <2>1. /\ w.start \in Int /\ w.end \in Int
          /\ w = Window(DayObs(w.start), DayObs(w.end - 1), w.start, w.end)
        BY <1>1, <1>3, AcceptedWindow
    <2>2. w.nights = DayObs(w.start) .. DayObs(w.end - 1)
        BY <2>1 DEF Window
    <2>3. DayObs(w.start) \in Int /\ DayObs(w.end - 1) \in Int
        <3>1. Day \div 2 \in Int
            BY SummaryAssumption
        <3> QED BY <2>1, <3>1, NightOfTime DEF DayObs
    <2> QED BY <2>1, <2>2, <2>3
<1> QED BY <1>2, <1>3

LEMMA WindowIsFinite ==
    ASSUME NEW p \in SummaryParams, NEW at \in Nat, ~SummaryRefused(p, at), NEW n,
           n.query = ParseSummary(p, at)
    PROVE  IsFiniteSet(n.query.window.nights)
<1>1. PICK w : w = n.query.window
    OBVIOUS
<1>2. PICK first \in Int, last \in Int : w.nights = first .. last
    BY <1>1, WindowIsNights
<1>3. IsFiniteSet(first .. last)
    BY FS_Interval
<1> QED BY <1>1, <1>2, <1>3

\* The night of an object that was kept is one of the window.
LEMMA NightIsListed ==
    ASSUME NEW p \in SummaryParams, NEW at \in Nat, ~SummaryRefused(p, at), NEW n,
           n.query = ParseSummary(p, at), NEW o \in Base(n)
    PROVE  DayObs(EventTime[o]) \in n.query.window.nights
<1>1. PICK w : w = n.query.window
    OBVIOUS
<1>2. PICK t \in Int : t = EventTime[o] /\ w.start <= t /\ t < w.end
    <2>1. o \in Objects /\ w.start <= EventTime[o] /\ EventTime[o] < w.end
        BY <1>1 DEF Base
    <2> QED BY <2>1, ConstantsTyped
<1>3. PICK first \in Int, last \in Int :
          /\ w.nights = first .. last /\ w.start \in Int /\ w.end \in Int
          /\ DayObs(w.start) = first /\ DayObs(w.end - 1) = last
    BY <1>1, WindowIsNights
<1>4. PICK half \in Int : half = Day \div 2
    BY SummaryAssumption
<1>5. DayObs(t) \in Int /\ DayObs(w.start) <= DayObs(t) /\ DayObs(t) <= DayObs(w.end - 1)
    <2>1. t - half \in Int /\ w.start - half \in Int /\ w.end - 1 - half \in Int
          /\ w.start - half <= t - half /\ t - half <= w.end - 1 - half
        BY <1>2, <1>3, <1>4
    <2> QED BY <1>4, <2>1, LaterNights, NightOfTime DEF DayObs
<1>6. DayObs(t) \in first .. last
    BY <1>3, <1>5
<1> QED BY <1>1, <1>2, <1>3, <1>6

LEMMA KeptIsFinite ==
    ASSUME NEW n
    PROVE  /\ Base(n) \subseteq Objects /\ Kept(n) \subseteq Base(n)
           /\ IsFiniteSet(Base(n)) /\ IsFiniteSet(Kept(n)) /\ Cardinality(Kept(n)) \in Nat
<1>1. Base(n) \subseteq Objects /\ Kept(n) \subseteq Base(n)
    BY DEF Base, Kept
<1>2. IsFiniteSet(Base(n)) /\ IsFiniteSet(Kept(n))
    BY <1>1, ConstantsTyped, FS_Subset
<1> QED BY <1>1, <1>2, FS_CardinalityType

\* A finite set is the elements that meet a condition and the others.
LEMMA PartsAddUp ==
    ASSUME NEW K, IsFiniteSet(K), NEW A \in SUBSET K
    PROVE  /\ IsFiniteSet(A) /\ IsFiniteSet(K \ A)
           /\ Cardinality(A) \in Nat /\ Cardinality(K \ A) \in Nat /\ Cardinality(K) \in Nat
           /\ Cardinality(K) = Cardinality(A) + Cardinality(K \ A)
<1>1. IsFiniteSet(A) /\ IsFiniteSet(K \ A)
    BY FS_Subset
<1>2. Cardinality(A) \in Nat /\ Cardinality(K \ A) \in Nat /\ Cardinality(K) \in Nat
    BY <1>1, FS_CardinalityType
<1>3. K \cap A = A
    OBVIOUS
<1>4. Cardinality(K \ A) = Cardinality(K) - Cardinality(A)
    BY <1>3, FS_Difference
<1> QED BY <1>1, <1>2, <1>4

\* The nights, listed or not.
LEMMA NightsAddUp ==
    ASSUME NEW K, IsFiniteSet(K), NEW f, f = PerNightOf(K)
    PROVE  /\ SumOf(f, DOMAIN f) = Cardinality(K)
           /\ \A S : IsFiniteSet(S) /\ (\A o \in K : DayObs(EventTime[o]) \in S)
                     => SumOf(f, S) = Cardinality(K)
<1>1. PICK h : h = [o \in K |-> DayObs(EventTime[o])]
    OBVIOUS
<1>2. \A o \in K : h[o] = DayObs(EventTime[o])
    BY <1>1
<1>3. PICK D : D = {h[o] : o \in K}
    OBVIOUS
<1>4. DOMAIN f = D /\ \A d \in D : f[d] = Cardinality({o \in K : h[o] = d})
    <2>1. D = {DayObs(EventTime[o]) : o \in K}
        BY <1>2, <1>3
    <2>2. \A d : {o \in K : h[o] = d} = {o \in K : DayObs(EventTime[o]) = d}
        BY <1>2
    <2> QED BY <2>1, <2>2 DEF PerNightOf
<1>5. \A d : TermOf(f, d) = Cardinality({o \in K : h[o] = d})
    <2>1. \A d : d \notin D => {o \in K : h[o] = d} = {}
        BY <1>3
    <2> QED BY <1>4, <2>1, FS_EmptySet DEF TermOf
<1>6. ASSUME NEW S, IsFiniteSet(S), \A o \in K : h[o] \in S PROVE SumOf(f, S) = Cardinality(K)
    BY <1>5, <1>6, SumCountsAll
<1>7. IsFiniteSet(D) /\ \A o \in K : h[o] \in D
    BY <1>3, ImageIsFinite
<1> QED BY <1>2, <1>4, <1>6, <1>7

LEMMA BasesAddUp ==
    ASSUME NEW K \in SUBSET Objects, IsFiniteSet(K), NEW f, f = BasisOf(K)
    PROVE  SumOf(f, DOMAIN f) = Cardinality(K)
<1>1. PICK D : D = {Basis[o] : o \in Objects}
    OBVIOUS
<1>2. IsFiniteSet(D) /\ \A o \in K : Basis[o] \in D
    BY <1>1, ConstantsTyped, ImageIsFinite
<1>3. DOMAIN f = D /\ \A b \in D : TermOf(f, b) = Cardinality({o \in K : Basis[o] = b})
    BY <1>1 DEF BasisOf, TermOf
<1> QED BY <1>2, <1>3, SumCountsAll

LEMMA BinsAddUp ==
    ASSUME NEW K \in SUBSET Objects, IsFiniteSet(K), NEW f, f = HistogramOf(K)
    PROVE  /\ SumOf(f, 1 .. Bins) = Cardinality(Scored(K))
           /\ SumOf(f, 1 .. Bins) + Cardinality(K \ Scored(K)) = Cardinality(K)
<1>1. PICK A \in SUBSET K : A = Scored(K)
    BY DEF Scored
<1>2. /\ Cardinality(K) = Cardinality(A) + Cardinality(K \ A) /\ IsFiniteSet(A)
      /\ Cardinality(A) \in Nat /\ Cardinality(K \ A) \in Nat
    BY <1>1, PartsAddUp
<1>3. PICK h : h = [o \in A |-> Bin(Score[o])]
    OBVIOUS
<1>4. \A o \in A : h[o] = Bin(Score[o]) /\ h[o] \in 1 .. Bins
    <2>1. Bins \in Nat \ {0} /\ \A o \in A : Score[o] \in 0 .. Bins
        BY <1>1, SummaryAssumption DEF Scored
    <2> QED BY <1>3, <2>1 DEF Bin
<1>5. PICK S : S = 1 .. Bins
    OBVIOUS
<1>6. IsFiniteSet(S)
    BY <1>5, SummaryAssumption, FS_Interval
<1>7. \A i \in S : TermOf(f, i) = Cardinality({o \in A : h[o] = i})
    <2>1. \A i : {o \in A : h[o] = i} = {o \in A : Bin(Score[o]) = i}
        BY <1>4
    <2> QED BY <1>1, <1>5, <2>1 DEF HistogramOf, TermOf
<1>8. \A o \in A : h[o] \in S
    BY <1>4, <1>5
<1>9. SumOf(f, S) = Cardinality(A)
    <2>1. IsFiniteSet(A)
        BY <1>2
    <2> QED BY <1>6, <1>7, <1>8, <2>1, SumCountsAll
<1> QED BY <1>1, <1>2, <1>5, <1>9

\* An object is counted once for every broker that delivered it.
Deliveries(K, snap) == {d \in K \X Brokers : d[2] \in snap[d[1]].brokers}

LEMMA OneToOne ==
    ASSUME NEW A, NEW B, IsFiniteSet(A), NEW g, \A x \in A : g[x] \in B,
           \A x, y \in A : g[x] = g[y] => x = y, \A z \in B : \E x \in A : g[x] = z
    PROVE  IsFiniteSet(B) /\ Cardinality(B) = Cardinality(A)
<1>1. PICK k : k = [x \in A |-> g[x]]
    OBVIOUS
<1>2. k \in Bijection(A, B)
    <2>1. k \in [A -> B] /\ \A x \in A : k[x] = g[x]
        BY <1>1
    <2>2. k \in Injection(A, B)
        BY <2>1 DEF Injection, IsInjective
    <2>3. k \in Surjection(A, B)
        BY <2>1 DEF Surjection
    <2> QED BY <2>2, <2>3 DEF Bijection
<1>3. ExistsBijection(A, B)
    BY <1>2 DEF ExistsBijection
<1> QED BY <1>3, FS_Bijection

LEMMA BrokersAddUp ==
    ASSUME NEW K, IsFiniteSet(K), NEW snap, \A o \in K : snap[o].brokers \in SUBSET Brokers,
           NEW f, f = BrokersOf(K, snap)
    PROVE  /\ SumOf(f, Brokers) = Cardinality(Deliveries(K, snap))
           /\ IsFiniteSet(Deliveries(K, snap))
<1>1. PICK P : P = Deliveries(K, snap)
    OBVIOUS
<1>2. IsFiniteSet(Brokers)
    BY StoreAssumption
<1>3. IsFiniteSet(P)
    <2>1. IsFiniteSet(K \X Brokers)
        BY <1>2, FS_Product
    <2> QED BY <1>1, <2>1, FS_Subset DEF Deliveries
<1>4. PICK h : h = [d \in P |-> d[2]]
    OBVIOUS
<1>5. \A d \in P : h[d] = d[2] /\ h[d] \in Brokers
    BY <1>1, <1>4 DEF Deliveries
<1>6. ASSUME NEW b \in Brokers
      PROVE  TermOf(f, b) = Cardinality({d \in P : h[d] = b})
    <2>1. PICK A : A = {o \in K : b \in snap[o].brokers}
        OBVIOUS
    <2>2. PICK B : B = {d \in P : h[d] = b}
        OBVIOUS
    <2>3. PICK g : g = [o \in A |-> <<o, b>>]
        OBVIOUS
    <2>4. \A o \in A : g[o] \in B
        BY <1>1, <1>4, <2>1, <2>2, <2>3 DEF Deliveries
    <2>5. \A x, y \in A : g[x] = g[y] => x = y
        BY <2>3
    <2>6. \A d \in B : \E o \in A : g[o] = d
        <3> SUFFICES ASSUME NEW d \in B PROVE \E o \in A : g[o] = d
            OBVIOUS
        <3>1. d \in P /\ h[d] = b
            BY <2>2
        <3>2. d \in K \X Brokers /\ d[2] = b /\ d[2] \in snap[d[1]].brokers
            BY <1>1, <1>5, <3>1 DEF Deliveries
        <3>3. d[1] \in A /\ d = <<d[1], b>>
            BY <2>1, <3>2
        <3> QED BY <2>3, <3>3
    <2>7. IsFiniteSet(A)
        BY <2>1, FS_Subset
    <2>8. Cardinality(B) = Cardinality(A)
        BY <2>4, <2>5, <2>6, <2>7, OneToOne
    <2>9. TermOf(f, b) = Cardinality(A)
        BY <2>1 DEF BrokersOf, TermOf
    <2> QED BY <2>2, <2>8, <2>9
<1>7. SumOf(f, Brokers) = Cardinality(P)
    BY <1>2, <1>3, <1>5, <1>6, SumCountsAll
<1> QED BY <1>1, <1>3, <1>7

\* An object that several brokers delivered is counted twice at least.
LEMMA DeliveriesAreEnough ==
    ASSUME NEW K, IsFiniteSet(K), NEW snap, \A o \in K : snap[o].brokers \in SUBSET Brokers,
           IsFiniteSet(Deliveries(K, snap))
    PROVE  Cardinality(Deliveries(K, snap)) + Cardinality({o \in K : snap[o].brokers = {}})
             >= Cardinality(K) + Cardinality(Several(K, snap))
<1>1. PICK P : P = Deliveries(K, snap)
    OBVIOUS
<1>2. PICK U \in SUBSET K : U = {o \in K : snap[o].brokers = {}}
    OBVIOUS
<1>3. PICK V \in SUBSET K : V = Several(K, snap)
    BY DEF Several
<1>4. PICK one : one = [o \in K |-> CHOOSE b \in snap[o].brokers : TRUE]
    OBVIOUS
<1>5. PICK two : two = [o \in K |-> CHOOSE b \in snap[o].brokers : b # one[o]]
    OBVIOUS
<1>6. \A o \in K \ U : one[o] \in snap[o].brokers
    BY <1>2, <1>4
<1>7. \A o \in V : two[o] \in snap[o].brokers /\ two[o] # one[o]
    <2> SUFFICES ASSUME NEW o \in V PROVE two[o] \in snap[o].brokers /\ two[o] # one[o]
        OBVIOUS
    <2>1. Cardinality(snap[o].brokers) > 1
        BY <1>3 DEF Several
    <2>2. \E b \in snap[o].brokers : b # one[o]
        <3>1. ASSUME snap[o].brokers \subseteq {one[o]} PROVE FALSE
            <4>1. IsFiniteSet({one[o]}) /\ Cardinality({one[o]}) = 1
                BY FS_Singleton
            <4>2. Cardinality(snap[o].brokers) <= 1 /\ Cardinality(snap[o].brokers) \in Nat
                BY <3>1, <4>1, FS_Subset, FS_CardinalityType
            <4> QED BY <2>1, <4>2
        <3> QED BY <3>1
    <2> QED BY <1>5, <2>2
<1>8. PICK A : A = {<<o, one[o]>> : o \in K \ U}
    OBVIOUS
<1>9. PICK B : B = {<<o, two[o]>> : o \in V}
    OBVIOUS
<1>10. A \subseteq P /\ B \subseteq P
    BY <1>1, <1>6, <1>7, <1>8, <1>9 DEF Deliveries
<1>11. A \cap B = {}
    BY <1>7, <1>8, <1>9
<1>12. IsFiniteSet(A) /\ Cardinality(A) = Cardinality(K \ U) /\ Cardinality(A) \in Nat
    <2>1. PICK g : g = [o \in K \ U |-> <<o, one[o]>>]
        OBVIOUS
    <2>2. \A x \in K \ U : g[x] \in A
        BY <1>8, <2>1
    <2>3. \A x, y \in K \ U : g[x] = g[y] => x = y
        BY <2>1
    <2>4. \A z \in A : \E x \in K \ U : g[x] = z
        BY <1>8, <2>1
    <2>5. IsFiniteSet(K \ U)
        BY FS_Subset
    <2> QED BY <2>2, <2>3, <2>4, <2>5, OneToOne, FS_CardinalityType
<1>13. IsFiniteSet(B) /\ Cardinality(B) = Cardinality(V) /\ Cardinality(B) \in Nat
    <2>1. PICK g : g = [o \in V |-> <<o, two[o]>>]
        OBVIOUS
    <2>2. \A x \in V : g[x] \in B
        BY <1>9, <2>1
    <2>3. \A x, y \in V : g[x] = g[y] => x = y
        BY <2>1
    <2>4. \A z \in B : \E x \in V : g[x] = z
        BY <1>9, <2>1
    <2>5. IsFiniteSet(V)
        BY FS_Subset
    <2> QED BY <2>2, <2>3, <2>4, <2>5, OneToOne, FS_CardinalityType
<1>14. Cardinality(A \cup B) = Cardinality(A) + Cardinality(B)
    <2>1. Cardinality(A \cap B) = 0
        BY <1>11, FS_EmptySet
    <2>2. Cardinality(A \cup B) = Cardinality(A) + Cardinality(B) - Cardinality(A \cap B)
        BY <1>12, <1>13, FS_Union
    <2> QED BY <1>12, <1>13, <2>1, <2>2
<1>15. Cardinality(A \cup B) <= Cardinality(P) /\ Cardinality(P) \in Nat
    BY <1>1, <1>10, FS_Subset, FS_CardinalityType
<1>16. Cardinality(K) = Cardinality(U) + Cardinality(K \ U) /\ Cardinality(U) \in Nat
    BY PartsAddUp
<1> QED BY <1>1, <1>2, <1>3, <1>12, <1>13, <1>14, <1>15, <1>16

\* The record of the highest version is there when there is one, and is the only
\* one of its version.
LEMMA CurrentRecordIs ==
    ASSUME NEW R \in Histories, R # {}
    PROVE  \E r \in R : /\ CurrentRecord(R) = {r}
                        /\ (CHOOSE x \in R : \A s \in R : s.version <= x.version) = r
                        /\ (CHOOSE x \in CurrentRecord(R) : TRUE) = r
<1>1. R \subseteq Records /\ \A r, s \in R : r.version = s.version => r = s
    BY DEF Histories
<1>2. \A r \in R : r.version \in Versions
    BY <1>1 DEF Records
<1>3. PICK top \in Versions : \A w \in Versions : w <= top
    BY StoreAssumption
<1>4. PICK V : V = {r.version : r \in R}
    OBVIOUS
<1>5. V \subseteq Nat /\ V # {} /\ top \in Nat /\ \A v \in V : v <= top
    BY <1>2, <1>3, <1>4, StoreAssumption
<1>6. PICK v \in V : \A w \in V : w <= v
    BY <1>5, HighestExists
<1>7. PICK r \in R : r.version = v
    BY <1>4
<1>8. \A s \in R : s.version <= r.version /\ s.version \in Nat
    BY <1>4, <1>5, <1>6, <1>7
<1>9. \A x \in R : (\A s \in R : s.version <= x.version) => x = r
    <2> SUFFICES ASSUME NEW x \in R, \A s \in R : s.version <= x.version PROVE x = r
        OBVIOUS
    <2>1. r.version <= x.version /\ x.version <= r.version /\ x.version \in Nat /\ r.version \in Nat
        BY <1>8
    <2>2. x.version = r.version
        BY <2>1
    <2> QED BY <1>1, <2>2
<1>10. CurrentRecord(R) = {r}
    BY <1>8, <1>9 DEF CurrentRecord
<1>11. (CHOOSE x \in R : \A s \in R : s.version <= x.version) = r
    BY <1>8, <1>9
<1>12. (CHOOSE x \in CurrentRecord(R) : TRUE) = r
    BY <1>10
<1> QED BY <1>10, <1>11, <1>12

\* The bucket of an object without a match of the catalog is what its current
\* record says of the catalog.
LEMMA BucketIs ==
    ASSUME NEW row \in Rows, NEW c \in Catalogs
    PROVE  /\ Bucket(row, c) \in Buckets
           /\ Bucket(row, c) = "coincident_sources" <=> HasMatchOf(row, c)
           /\ ~HasMatchOf(row, c) =>
                 Bucket(row, c) = LET out == CatalogOutcomes(CurrentRecord(row.records))[c]
                                  IN  IF out = "searched" THEN "searched_no_match" ELSE out
<1>1. row.records \in Histories
    BY DEF Rows
<1>2. CASE HasMatchOf(row, c)
    BY <1>2 DEF Bucket, Buckets
<1>3. CASE ~HasMatchOf(row, c) /\ row.records = {}
    <2>1. CurrentRecord(row.records) = {}
        BY <1>3 DEF CurrentRecord
    <2>2. CatalogOutcomes(CurrentRecord(row.records))[c] = "not_recorded"
        BY <2>1 DEF CatalogOutcomes
    <2>3. Bucket(row, c) = "not_recorded"
        BY <1>3 DEF Bucket
    <2> QED BY <1>3, <2>2, <2>3 DEF Buckets
<1>4. CASE ~HasMatchOf(row, c) /\ row.records # {}
    <2>1. PICK r \in row.records :
              /\ CurrentRecord(row.records) = {r}
              /\ (CHOOSE x \in row.records : \A s \in row.records : s.version <= x.version) = r
              /\ (CHOOSE x \in CurrentRecord(row.records) : TRUE) = r
        BY <1>1, <1>4, CurrentRecordIs
    <2>2. Bucket(row, c) = IF c \notin DOMAIN r.of THEN "not_in_service_at_crossmatch"
                           ELSE IF r.of[c] = "searched" THEN "searched_no_match" ELSE r.of[c]
        <3>1. PICK top : top = CHOOSE x \in row.records : \A s \in row.records : s.version <= x.version
            OBVIOUS
        <3>2. Bucket(row, c) = IF c \notin DOMAIN top.of THEN "not_in_service_at_crossmatch"
                               ELSE IF top.of[c] = "searched" THEN "searched_no_match" ELSE top.of[c]
            <4>1. Bucket(row, c) =
                    LET r0 == CHOOSE x \in row.records : \A s \in row.records : s.version <= x.version
                    IN  IF c \notin DOMAIN r0.of THEN "not_in_service_at_crossmatch"
                        ELSE IF r0.of[c] = "searched" THEN "searched_no_match" ELSE r0.of[c]
                BY <1>4 DEF Bucket
            <4> QED BY <3>1, <4>1
        <3>3. top = r
            BY <2>1, <3>1
        <3> QED BY <3>2, <3>3
    <2>3. CatalogOutcomes(CurrentRecord(row.records))[c]
            = IF c \in DOMAIN r.of THEN r.of[c] ELSE "not_in_service_at_crossmatch"
        BY <2>1 DEF CatalogOutcomes
    <2>4. c \in DOMAIN r.of => r.of[c] \in SearchOutcome
        BY <1>1 DEF Histories, Records
    <2>5. CASE c \notin DOMAIN r.of
        BY <1>4, <2>2, <2>3, <2>5 DEF Buckets
    <2>6. CASE c \in DOMAIN r.of
        <3>1. PICK out \in SearchOutcome : out = r.of[c]
            BY <2>4, <2>6
        <3>2. Bucket(row, c) = IF out = "searched" THEN "searched_no_match" ELSE out
            BY <2>2, <2>6, <3>1
        <3>3. CatalogOutcomes(CurrentRecord(row.records))[c] = out
            BY <2>3, <2>6, <3>1
        <3>4. Bucket(row, c) \in Buckets /\ Bucket(row, c) # "coincident_sources"
            BY <3>1, <3>2 DEF Buckets, SearchOutcome
        <3> QED BY <1>4, <3>2, <3>3, <3>4
    <2> QED BY <2>5, <2>6
<1> QED BY <1>2, <1>3, <1>4

\* The buckets of a catalog hold every crossmatched object once.
LEMMA BucketsAddUp ==
    ASSUME NEW K, IsFiniteSet(K), NEW snap, \A o \in K : snap[o] \in Rows, NEW q, NEW c \in Catalogs,
           \A o \in K : q.match = "without" /\ c \in q.catalog => ~HasMatchOf(snap[o], c),
           NEW f, f = BucketsOf(K, snap, q)[c]
    PROVE  SumOf(f, Buckets) = Cardinality(Crossed(K, snap))
<1>1. PICK D \in SUBSET K : D = Crossed(K, snap)
    BY DEF Crossed
<1>2. PICK h : h = [o \in D |-> Bucket(snap[o], c)]
    OBVIOUS
<1>3. \A o \in D : h[o] = Bucket(snap[o], c) /\ h[o] \in Buckets
    BY <1>2, BucketIs
<1>4. DOMAIN f = Shown(q, c) /\ \A b \in Shown(q, c) : f[b] = Cardinality({o \in D : h[o] = b})
    <2>1. \A b : {o \in D : h[o] = b} = {o \in D : Bucket(snap[o], c) = b}
        BY <1>3
    <2> QED BY <1>1, <2>1 DEF BucketsOf
<1>5. ASSUME NEW b \in Buckets, b \notin Shown(q, c)
      PROVE  Cardinality({o \in D : h[o] = b}) = 0
    <2>1. b = "coincident_sources" /\ q.match = "without" /\ c \in q.catalog
        BY <1>5 DEF Shown
    <2>2. \A o \in D : h[o] # b
        BY <1>1, <1>3, <2>1, BucketIs
    <2>3. {o \in D : h[o] = b} = {}
        BY <2>2
    <2> QED BY <2>3, FS_EmptySet
<1>6. \A b \in Buckets : TermOf(f, b) = Cardinality({o \in D : h[o] = b})
    BY <1>4, <1>5 DEF TermOf
<1>7. IsFiniteSet(Buckets)
    <2>1. \A S, x : IsFiniteSet(S) => IsFiniteSet(S \cup {x})
        BY FS_AddElement
    <2>2. PICK A : A = {"coincident_sources", "searched_no_match", "outside_footprint"}
        OBVIOUS
    <2>3. IsFiniteSet(A)
        <3>1. A = ({"coincident_sources"} \cup {"searched_no_match"}) \cup {"outside_footprint"}
            BY <2>2
        <3> QED BY <2>1, <3>1, FS_Singleton
    <2>4. PICK B : B = (A \cup {"skipped_read_failure"}) \cup {"not_searched_invalid_position"}
        OBVIOUS
    <2>5. IsFiniteSet(B)
        BY <2>1, <2>3, <2>4
    <2>6. Buckets = (B \cup {"not_in_service_at_crossmatch"}) \cup {"not_recorded"}
        BY <2>2, <2>4 DEF Buckets
    <2> QED BY <2>1, <2>5, <2>6
<1>8. IsFiniteSet(D)
    BY FS_Subset
<1>9. SumOf(f, Buckets) = Cardinality(D)
    BY <1>3, <1>6, <1>7, <1>8, SumCountsAll
<1> QED BY <1>1, <1>9

\* The objects a summary is about, at the end of it.
LEMMA AnsweredSummary ==
    ASSUME NEW n, FoundIn(n), n.pc = "answered"
    PROVE  /\ n.snap \in [Objects -> Rows] /\ SnapshotOf(n) = n.snap
           /\ n.perNight = PerNightOf(Kept(n)) /\ n.basis = BasisOf(Kept(n))
           /\ n.pending = PendingOf(n)
           /\ n.histogram = HistogramOf(Kept(n))
           /\ n.noScore = Cardinality(Kept(n) \ Scored(Kept(n)))
           /\ n.brokers = BrokersOf(Kept(n), n.snap)
           /\ n.several = Cardinality(Several(Kept(n), n.snap))
           /\ n.buckets = BucketsOf(Kept(n), n.snap, n.query)
           /\ n.top = TopOf(Kept(n), n.snap, n.query.top)
BY DEF FoundIn, FoundNights, FoundPending, FoundScores, FoundBrokers, FoundBuckets, FoundTop, SnapshotOf

\* The crossmatched objects of a summary, and those that are pending.
LEMMA CrossedAndPending ==
    ASSUME NEW n, n.snap \in [Objects -> Rows], SnapshotOf(n) = n.snap, NEW K, K = Kept(n)
    PROVE  /\ n.query.catalog # {} => Crossed(K, n.snap) = K
           /\ n.query.catalog = {} =>
                 /\ PendingOf(n) \in Nat
                 /\ Cardinality(Crossed(K, n.snap)) = Cardinality(K) - PendingOf(n)
<1>1. CASE n.query.catalog # {}
    <2>1. \A o \in K : Done(n.snap[o])
        BY <1>1 DEF Kept
    <2> QED BY <1>1, <2>1 DEF Crossed
<1>2. CASE n.query.catalog = {}
    <2>1. K = Base(n)
        BY <1>2 DEF Kept
    <2>2. PICK D \in SUBSET K : D = Crossed(K, n.snap)
        BY DEF Crossed
    <2>3. ASSUME NEW o \in K
          PROVE  n.snap[o].status \in {"INGESTED", "QUEUED"} <=> o \notin D
        <3>1. o \in Objects /\ InService(n.snap[o])
            BY <2>1 DEF Base
        <3>2. n.snap[o].status \in Status
            BY <3>1 DEF Rows
        <3> QED BY <2>2, <3>1, <3>2 DEF Crossed, Done, InService, Status
    <2>4. {o \in K : n.snap[o].status \in {"INGESTED", "QUEUED"}} = K \ D
        BY <2>3
    <2>5. PendingOf(n) = Cardinality(K \ D)
        BY <2>1, <2>4 DEF PendingOf
    <2>6. /\ Cardinality(K) = Cardinality(D) + Cardinality(K \ D)
          /\ Cardinality(D) \in Nat /\ Cardinality(K \ D) \in Nat
        BY KeptIsFinite, PartsAddUp
    <2> QED BY <1>2, <2>2, <2>5, <2>6
<1> QED BY <1>1, <1>2

LEMMA AddsUp ==
    ASSUME NightInv, FoundInv, clock \in Nat PROVE SummaryAddsUp
<1> SUFFICES ASSUME night.pc = "answered" PROVE SummaryAddsUp
    BY DEF SummaryAddsUp
<1>1. PICK n : n = night
    OBVIOUS
<1>2. PICK K, snap : K = Kept(n) /\ snap = n.snap
    OBVIOUS
<1>3. /\ n.snap \in [Objects -> Rows] /\ SnapshotOf(n) = n.snap
      /\ n.perNight = PerNightOf(K) /\ n.basis = BasisOf(K) /\ n.pending = PendingOf(n)
      /\ n.histogram = HistogramOf(K) /\ n.noScore = Cardinality(K \ Scored(K))
      /\ n.brokers = BrokersOf(K, snap) /\ n.several = Cardinality(Several(K, snap))
      /\ n.buckets = BucketsOf(K, snap, n.query) /\ n.top = TopOf(K, snap, n.query.top)
    BY <1>1, <1>2, AnsweredSummary DEF FoundInv
<1>4. K \in SUBSET Objects /\ K \subseteq Base(n) /\ IsFiniteSet(K) /\ Cardinality(K) \in Nat
    BY <1>2, KeptIsFinite
<1>5. \A o \in K : snap[o] \in Rows /\ snap[o].brokers \in SUBSET Brokers
    BY <1>2, <1>3, <1>4 DEF Rows
<1>6. PICK total : total = Cardinality(K)
    OBVIOUS
<1>7. Total = total
    BY <1>1, <1>3, <1>4, <1>6, NightsAddUp DEF Total
<1>8. SumOf(n.perNight, n.query.window.nights) = total
    <2>1. PICK p \in Summaries : \E at \in 0 .. clock :
              ~SummaryRefused(p, at) /\ n.query = ParseSummary(p, at)
        BY <1>1 DEF NightInv
    <2>2. PICK at \in 0 .. clock : ~SummaryRefused(p, at) /\ n.query = ParseSummary(p, at)
        BY <2>1
    <2>3. p \in SummaryParams /\ at \in Nat
        BY SummariesAssumption
    <2>4. \A o \in K : DayObs(EventTime[o]) \in n.query.window.nights
        BY <1>4, <2>2, <2>3, NightIsListed
    <2>5. IsFiniteSet(n.query.window.nights)
        BY <2>2, <2>3, WindowIsFinite
    <2> QED BY <1>3, <1>4, <1>6, <2>4, <2>5, NightsAddUp
<1>9. SumOf(n.basis, DOMAIN n.basis) = total
    BY <1>3, <1>4, <1>6, BasesAddUp
<1>10. SumOf(n.histogram, 1 .. Bins) + n.noScore = total
    BY <1>3, <1>4, <1>6, BinsAddUp
<1>11. SumOf(n.brokers, Brokers) + Cardinality({o \in K : snap[o].brokers = {}}) >= total + n.several
    <2>1. SumOf(n.brokers, Brokers) = Cardinality(Deliveries(K, snap)) /\ IsFiniteSet(Deliveries(K, snap))
        BY <1>3, <1>4, <1>5, BrokersAddUp
    <2> QED BY <1>3, <1>4, <1>5, <1>6, <2>1, DeliveriesAreEnough
<1>12. n.several <= total
    <2>1. Several(K, snap) \in SUBSET K
        BY DEF Several
    <2> QED BY <1>3, <1>4, <1>6, <2>1, FS_Subset
<1>13. ASSUME NEW c \in Catalogs
       PROVE  SumOf(n.buckets[c], Buckets) = IF n.query.catalog = {} THEN total - n.pending ELSE total
    <2>1. \A o \in K : n.query.match = "without" /\ c \in n.query.catalog => ~HasMatchOf(snap[o], c)
        BY <1>2, <1>3 DEF Kept
    <2>2. SumOf(n.buckets[c], Buckets) = Cardinality(Crossed(K, snap))
        BY <1>3, <1>4, <1>5, <2>1, BucketsAddUp
    <2> QED BY <1>2, <1>3, <1>6, <2>2, CrossedAndPending
<1>14. Cardinality(DOMAIN n.top) <= total - n.noScore
    <2>1. PICK A \in SUBSET K : A = Scored(K)
        BY DEF Scored
    <2>2. DOMAIN n.top \in SUBSET A
        BY <1>3, <2>1 DEF TopOf, TopObjects
    <2>3. /\ Cardinality(K) = Cardinality(A) + Cardinality(K \ A) /\ IsFiniteSet(A)
          /\ Cardinality(A) \in Nat /\ Cardinality(K \ A) \in Nat
        BY <1>4, PartsAddUp
    <2>4. Cardinality(DOMAIN n.top) <= Cardinality(A) /\ Cardinality(DOMAIN n.top) \in Nat
        BY <2>2, <2>3, FS_Subset, FS_CardinalityType
    <2> QED BY <1>3, <1>6, <2>1, <2>3, <2>4
<1>15. Cardinality({o \in Kept(night) : SnapshotOf(night)[o].brokers = {}})
         = Cardinality({o \in K : snap[o].brokers = {}})
    BY <1>1, <1>2, <1>3
<1> QED BY <1>1, <1>7, <1>8, <1>9, <1>10, <1>11, <1>12, <1>13, <1>14, <1>15 DEF SummaryAddsUp

LEMMA AgreesWithLookup ==
    ASSUME FoundInv PROVE SummaryAgreesWithLookup
<1> SUFFICES ASSUME night.pc = "answered", NEW o \in DOMAIN night.top,
                    NEW row, row = night.snap[o], NEW entry,
                    entry = EntryFrom(o, row.status, row.records, row.matches # {}, row.matches,
                                      row.brokers, row.tns, "ids")
             PROVE  /\ night.top[o] = entry.status
                    /\ \A c \in Catalogs, out \in entry.outcomes :
                          ~HasMatchOf(row, c) =>
                              Bucket(row, c) = IF out[c] = "searched" THEN "searched_no_match"
                                               ELSE out[c]
    BY DEF SummaryAgreesWithLookup
<1>1. PICK n : n = night
    OBVIOUS
<1>2. n.snap \in [Objects -> Rows] /\ SnapshotOf(n) = n.snap /\ n.top = TopOf(Kept(n), n.snap, n.query.top)
    BY <1>1, AnsweredSummary DEF FoundInv
<1>3. o \in Kept(n) /\ n.top[o] = TopStatus(row)
    BY <1>1, <1>2 DEF TopOf, TopObjects, Scored
<1>4. o \in Objects /\ InService(row)
    BY <1>1, <1>2, <1>3 DEF Kept, Base
<1>5. row \in Rows /\ row.records \in Histories
    BY <1>1, <1>2, <1>4 DEF Rows
<1>6. entry.status = TopStatus(row)
    <2>1. entry.status = StatusFrom(row.status, CurrentRecord(row.records), row.matches # {})
        BY DEF EntryFrom
    <2>2. NotSearched(CurrentRecord(row.records)) <=>
             /\ row.records # {}
             /\ \A r \in CurrentRecord(row.records) : ~\E c \in DOMAIN r.of : r.of[c] = "searched"
        <3>1. CASE row.records = {}
            BY <3>1 DEF NotSearched, CurrentRecord
        <3>2. CASE row.records # {}
            <4>1. PICK r \in row.records : CurrentRecord(row.records) = {r}
                BY <1>5, <3>2, CurrentRecordIs
            <4> QED BY <3>2, <4>1 DEF NotSearched
        <3> QED BY <3>1, <3>2
    <2> QED BY <1>4, <2>1, <2>2 DEF StatusFrom, TopStatus, Done, InService
<1>7. ASSUME NEW c \in Catalogs, NEW out \in entry.outcomes, ~HasMatchOf(row, c)
      PROVE  Bucket(row, c) = IF out[c] = "searched" THEN "searched_no_match" ELSE out[c]
    <2>1. out = CatalogOutcomes(CurrentRecord(row.records))
        BY <1>7 DEF EntryFrom
    <2> QED BY <1>5, <1>7, <2>1, BucketIs
<1> QED BY <1>1, <1>3, <1>6, <1>7

\* The numbers of a summary agree with each other, whatever was committed between
\* its statements, and what it says of an object and of a catalog is what a lookup
\* at its snapshot would say.
THEOREM SummariesAreConsistent == Spec => []SummaryIsConsistent
<1>1. ASSUME TruthInv, NightInv, FoundInv PROVE SummaryIsConsistent
    <2>1. clock \in Nat
        BY <1>1 DEF TruthInv, Shape, StoreTyped
    <2> QED BY <1>1, <2>1, AddsUp, AgreesWithLookup DEF SummaryIsConsistent
<1> QED BY <1>1, FoundIsKept, NightIsKept, TruthIsKept, PTL
=============================================================================
