----------------------------- MODULE ObjectLookup -----------------------------
(***************************************************************************)
(* POST api/lookup, GET api/objects/<id> and GET api/tns (api/lookup.py,   *)
(* api/positions.py, api/views.py): an ordered list of tagged inputs, one  *)
(* result per input.  A malformed input is a result of its own; the valid  *)
(* ones are resolved group by group, the IDs together and the positions    *)
(* and TNS names together, the latter within a budget of listed objects.   *)
(***************************************************************************)
EXTENDS SearchCones

CONSTANTS
    MaxIds,        \* API_MAX_IDS
    MaxPositions,  \* API_MAX_POSITIONS
    MaxPerCone,    \* API_MAX_OBJECTS_PER_POSITION
    MaxListed,     \* API_MAX_OBJECTS_PER_REQUEST
    TnsPlace,      \* the cone each TNS name resolves to, or "unknown"
    Lookups        \* the requests a client may send

\* An input: of names its cone or TNS name, or is the number of an ID; radius: it
\* carries one.
IsInput(i) ==
    /\ i.kind \in {"id", "position", "tns", "unknown", "none"}
    /\ {i.ok, i.radius} \subseteq BOOLEAN
    /\ CASE i.kind = "position" -> i.of \in Cones
         [] i.kind = "tns" -> i.of \in DOMAIN TnsPlace
         [] OTHER -> i.of \in Nat

\* body: it is an object with inputs and no unknown field; radius is the shared
\* one; a GET has one input, whose errors are the request's.
LookupParams(inputs) ==
    [route : {"lookup", "object", "tns"}, body : BOOLEAN,
     detail : {"ids", "position", "matches", "full", "absent", "unknown"},
     radius : {"given", "absent", "invalid"}, filters : SUBSET Filters,
     response : {"objects", "count", "absent", "unknown"}, inputs : {inputs}]

ASSUME LookupAssumption ==
    /\ {MaxIds, MaxPositions, MaxPerCone, MaxListed} \subseteq Nat
    /\ \A q \in Lookups : /\ q \in LookupParams(q.inputs)
                          /\ DOMAIN q.inputs = 1 .. Len(q.inputs) /\ Len(q.inputs) \in Nat
                          /\ \A i \in DOMAIN q.inputs : IsInput(q.inputs[i])

IsCone(kind) == kind \in {"position", "tns"}

Setting(kind) == IF kind = "id" THEN "ids" ELSE "positions"

Maximum(setting) == IF setting = "ids" THEN MaxIds ELSE MaxPositions

Known(kind) == kind = "id" \/ IsCone(kind)

SettingsOf(inputs) == {Setting(inputs[i].kind) : i \in {j \in DOMAIN inputs : Known(inputs[j].kind)}}

CountOf(inputs, setting) ==
    Cardinality({i \in DOMAIN inputs : Known(inputs[i].kind)
                                       /\ Setting(inputs[i].kind) = setting})

\* _check_request_size: malformed inputs count against the sum of the maximums
\* of the kinds used, the largest maximum when none is.
TooLarge(inputs) ==
    LET used == SettingsOf(inputs)
        total == IF used = {} THEN Max({MaxIds, MaxPositions})
                 ELSE MapThenSumSet(Maximum, used)
    IN  \/ Len(inputs) > total
        \/ \E s \in used : CountOf(inputs, s) > Maximum(s)

\* _parse_input; an ID out of the range of diaObjectIds is malformed.
InputValid(input, r) ==
    /\ Known(input.kind) /\ input.ok
    /\ input.kind = "id" => input.of \in Objects
    /\ input.kind = "position" => input.radius \/ r.radius = "given"

\* What refuses the whole request, in the order the checks are made.
Refusal(r) ==
    IF ~r.body \/ r.detail = "unknown" \/ r.radius = "invalid" \/ FiltersInvalid(r.filters)
    THEN "invalid_parameter"
    ELSE IF FiltersSpan(r.filters) THEN "filters_span_catalogs"
    ELSE IF \/ r.response = "unknown" \/ r.inputs = <<>>
            \/ r.route = "lookup" /\ TooLarge(r.inputs)
            \/ r.route # "lookup" /\ ~InputValid(r.inputs[1], r)
    THEN "invalid_parameter"
    ELSE "none"

ValidOf(q, Kind(_)) == {i \in DOMAIN q.inputs : q.inputs[i].valid /\ Kind(q.inputs[i].kind)}

IdInputs(q) == LET IsId(k) == k = "id" IN ValidOf(q, IsId)

ConeInputs(q) == ValidOf(q, IsCone)

\* The groups in the order of their first valid input.
Groups(q) ==
    LET ids == IdInputs(q)
        cones == ConeInputs(q)
    IN  IF ids = {} THEN IF cones = {} THEN <<>> ELSE <<"cone">>
        ELSE IF cones = {} THEN <<"id">>
        ELSE IF Min(ids) < Min(cones) THEN <<"id", "cone">> ELSE <<"cone", "id">>

\* The next group begins, or the filters, or the answer.
Enter(q) ==
    IF q.todo = <<>> THEN [q EXCEPT !.pc = IF q.spec.on THEN "filter" ELSE "answered"]
    ELSE IF Head(q.todo) = "id"
    THEN [q EXCEPT !.pc = "alerts", !.asked = {q.inputs[i].of : i \in IdInputs(q)}]
    ELSE [q EXCEPT !.pc = IF \E i \in ConeInputs(q) : q.inputs[i].kind = "tns"
                          THEN "names" ELSE "search"]

LookupDetail(r) ==
    IF r.response = "count" THEN "ids" ELSE IF r.detail = "absent" THEN "matches" ELSE r.detail

\* lookup_objects, get_object or resolve_tns begins; migrated: the record
\* tables exist.
Submit(r, migrated) ==
    /\ req.pc = "start"
    /\ req' =
        IF Refusal(r) # "none"
        THEN [req EXCEPT !.pc = "refused", !.route = r.route]
        ELSE LET q == Started([pc |-> "start", route |-> r.route, detail |-> LookupDetail(r),
                               spec |-> ParseFilters(r.filters),
                               count |-> r.response = "count", migrated |-> migrated])
                 parsed == [i \in DOMAIN r.inputs |->
                              [kind |-> r.inputs[i].kind, of |-> r.inputs[i].of,
                               valid |-> InputValid(r.inputs[i], r)]]
                 p == [q EXCEPT !.inputs = parsed]
                 free == MaxListed - Cardinality(IdInputs(p))
             IN  Enter([p EXCEPT
                    !.todo = Groups(p),
                    !.budget = IF free < 0 THEN 0 ELSE free,
                    !.results = [i \in DOMAIN parsed |->
                                    NewResult("invalid_input", NotACone)]])
    /\ UNCHANGED storeVars

\* _lookup_tns_names: no fallback when the snapshot is not current.
ResolveNames ==
    /\ req.pc = "names"
    /\ \E current \in BOOLEAN :
        LET unresolved == {i \in ConeInputs(req) :
                              /\ req.inputs[i].kind = "tns"
                              /\ ~current \/ TnsPlace[req.inputs[i].of] = "unknown"}
            status == IF current THEN "tns_name_not_found" ELSE "resolver_unavailable"
        IN  req' = [req EXCEPT
                      !.pc = "search",
                      !.results = [i \in DOMAIN @ |->
                          IF i \in unresolved THEN NewResult(status, NotRun) ELSE @[i]]]
    /\ UNCHANGED storeVars

\* The cones to search: those whose name resolved, at their centre.
Searched(q) == {i \in ConeInputs(q) : q.results[i].total = NotACone}

CentreOf(input) == IF input.kind = "tns" THEN TnsPlace[input.of] ELSE input.of

\* The objects cone i may list before the request's budget: the first MaxPerCone.
Share(q, i) == Leading(Inside(CentreOf(q.inputs[i]), Unpinned), MaxPerCone, Sooner)

\* Mutant of LeftFor: every cone may spend what the IDs leave.
LeftForEach(q, i) == q.budget

\* The budget left for cone i once the cones before it have spent theirs.
LeftFor(q, i) ==
    LET before == {j \in Searched(q) : j < i}
        spent == SumOf([j \in before |-> Cardinality(Share(q, j))], before)
    IN  IF spent > q.budget THEN 0 ELSE q.budget - spent

\* What cone i lists, and why it was cut.
ConeResult(q, i) ==
    LET all == Inside(CentreOf(q.inputs[i]), Unpinned)
        share == Share(q, i)
        left == LeftFor(q, i)
        over == Cardinality(share) > left
        base == NewResult(FoundOrNot(Cardinality(all)), Cardinality(all))
    IN  IF q.count THEN [base EXCEPT !.ids = all]
        ELSE [base EXCEPT
                !.ids = IF over THEN Leading(share, left, Sooner) ELSE share,
                !.truncation = IF over THEN "per_request_limit"
                               ELSE IF all # share THEN "per_input_limit" ELSE "none"]

\* One statement searches every cone.
SearchAll ==
    /\ req.pc = "search"
    /\ LET searched == Searched(req)
           results == [i \in DOMAIN req.results |->
                          IF i \in searched THEN ConeResult(req, i) ELSE req.results[i]]
       IN  req' = [req EXCEPT
                     !.pc = "alerts",
                     !.results = results,
                     !.candidates = [i \in searched |->
                                        Inside(CentreOf(req.inputs[i]), Unpinned)],
                     !.asked = UNION {results[i].ids : i \in searched},
                     !.cut = \E i \in searched : results[i].truncation = "per_request_limit"]
    /\ UNCHANGED storeVars

\* The group's entries join its results; the next group begins.
Assemble ==
    /\ req.pc = "built" /\ req.route # "cone"
    /\ LET entries(ids) == [o \in ids |-> req.built[o]]
           filled(i) ==
               IF Head(req.todo) = "id"
               THEN LET o == req.inputs[i].of
                    IN  [req.results[i] EXCEPT !.status = req.built[o].status,
                                               !.ids = {o}, !.entries = entries({o})]
               ELSE [req.results[i] EXCEPT !.entries = entries(req.results[i].ids)]
           mine == IF Head(req.todo) = "id" THEN IdInputs(req) ELSE ConeInputs(req)
       IN  req' = Enter([req EXCEPT
                     !.todo = Tail(@),
                     !.built = <<>>,
                     !.asked = {},
                     !.results = [i \in DOMAIN @ |-> IF i \in mine THEN filled(i) ELSE @[i]]])
    /\ UNCHANGED storeVars

\* Mutant of CandidatesOf: the objects that are listed.
CandidatesListed(q, i) == q.results[i].ids

CandidatesOf(q, i) ==
    IF i \in DOMAIN q.candidates THEN q.candidates[i] ELSE q.results[i].ids

\* apply_filters: one statement over every candidate of the request.
ApplyFilters ==
    /\ req.pc = "filter" /\ req.route # "cone"
    /\ LET ids == UNION {CandidatesOf(req, i) : i \in DOMAIN req.results}
           quals == QualifyObjects(ids, req.spec)
           marked(i) ==
               LET res == MarkEntries(req.results[i], quals, req.spec)
               IN  IF ~req.inputs[i].valid THEN [res EXCEPT !.reason = "invalid_input"]
                   ELSE IF req.inputs[i].kind = "id"
                   THEN LET mark == res.marks[req.inputs[i].of]
                        IN  [res EXCEPT !.yes = mark.yes, !.reason = mark.reason]
                   ELSE MarkResult(res, CandidatesOf(req, i), quals, req.spec)
       IN  req' = [req EXCEPT !.pc = "answered",
                              !.results = [i \in DOMAIN @ |-> marked(i)]]
    /\ UNCHANGED storeVars

LookupStep ==
    \/ \E r \in Lookups, migrated \in BOOLEAN : Submit(r, migrated)
    \/ ResolveNames \/ SearchAll
    \/ Assemble \/ ApplyFilters

\* count_body: each object counted once, as the first result that lists it has it.
CountedEntry(q, o) ==
    LET i == Min({j \in DOMAIN q.results : o \in DOMAIN q.results[j].entries})
    IN  [status |-> q.results[i].entries[o].status,
         mark |-> IF q.spec.on THEN q.results[i].marks[o]
                  ELSE [yes |-> FALSE, reason |-> "none"]]

CountBody(q) ==
    LET objects == UNION {DOMAIN q.results[i].entries : i \in DOMAIN q.results}
        With(P(_)) == Cardinality({o \in objects : P(CountedEntry(q, o))})
    IN  [total |-> Cardinality(objects),
         byStatus |-> [s \in ObjectStatuses |-> LET Is(e) == e.status = s IN With(Is)],
         byReason |-> [r \in ObjectReasons |-> LET Is(e) == e.mark.reason = r IN With(Is)],
         qualifying |-> LET Is(e) == e.mark.yes IN With(Is)]

\* An answer lists no more than the request may: positions spend the budget the IDs
\* leave, in input order; a cut result says so and why, and only such a one.
ListingIsBounded ==
    req.pc = "answered" /\ req.route \notin {"cone", "none"} /\ ~req.count =>
        LET cones == {i \in DOMAIN req.results : req.results[i].total >= 0}
            Lists(i) == Cardinality(req.results[i].ids)
        IN  /\ SumOf([i \in cones |-> Lists(i)], cones) + Cardinality(IdInputs(req))
                 <= Max({MaxListed, Cardinality(IdInputs(req))})
            /\ \A i \in cones :
                  /\ req.results[i].total > Lists(i)
                        <=> req.results[i].truncation # "none"
                  /\ req.results[i].truncation = "per_input_limit" => Lists(i) = MaxPerCone
            /\ req.cut <=> \E i \in cones : req.results[i].truncation = "per_request_limit"

\* The totals of a cone that was answered in full agree when nothing was
\* committed meanwhile: total counts the objects inside, listed or not, and
\* qualifying_total those of them that qualify.
LookupTotalsAgree ==
    req.pc = "answered" /\ req.route \notin {"cone", "none"} /\ writes = req.since =>
        \A i \in {j \in ConeInputs(req) : req.results[j].total >= 0} :
            LET inside == Inside(CentreOf(req.inputs[i]), Unpinned)
            IN  /\ req.results[i].total = Cardinality(inside)
                /\ req.spec.on => req.results[i].qualifying =
                      Cardinality({o \in inside : Qualifies(o, rows[o], req.spec)})

\* A count accounts for every distinct object once, under its status and, with
\* filters, under its reason; "qualifying" are those whose reason says so.
CountsAddUp ==
    req.pc = "answered" /\ req.count /\ req.route # "none" =>
        LET body == CountBody(req)
            Of(f) == SumOf(f, DOMAIN f)
        IN  /\ Of(body.byStatus) = body.total
            /\ req.spec.on => /\ Of(body.byReason) = body.total
                              /\ body.qualifying = body.byReason["meets_filters"]
=============================================================================
