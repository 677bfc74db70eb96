--------------------------- MODULE ChatProjection ---------------------------
(***************************************************************************)
(* The lookup and near-position tools (chat_mcp/identifiers.py, tools.py,  *)
(* projection.py): identifiers are classified and de-duplicated, the API   *)
(* function is called once, and its answer is cut to a number of objects   *)
(* and to a size, whole objects from the end.                              *)
(***************************************************************************)
EXTENDS ObjectLookup, ConeSearch, SequencesExt

CONSTANTS
    ChatIds,        \* MCP_MAX_IDENTIFIERS
    ChatObjects,    \* MCP_MAX_OBJECTS
    ChatSize,       \* MCP_MAX_RESULT_CHARS: the size of an answer is its
                    \* entries and its objects
    ChatAsks,       \* identifier lists a model may send
    ChatCentres     \* positions it may ask about

VARIABLE chat       \* the tool call: its identifiers and its answer

\* An identifier as decoded from JSON; of is the object or name it denotes.
IsRawId(raw) ==
    CASE raw.form = "tns_name" -> raw.of \in DOMAIN TnsPlace
      [] OTHER -> raw.form \in {"digits", "too_many_digits", "other_text", "whole_number",
                                "negative_number", "fraction", "number_past_2_53",
                                "not_a_scalar"} /\ raw.of \in Objects

ASSUME ChatAssumption ==
    /\ ChatIds \in Nat \ {0} /\ ChatObjects \in Nat \ {0} /\ ChatSize \in Nat \ {0}
    /\ \A ask \in ChatAsks : /\ DOMAIN ask = 1 .. Len(ask) /\ Len(ask) \in Nat
                             /\ \A i \in DOMAIN ask : IsRawId(ask[i])

\* _classify_one
KindOf(raw) ==
    CASE raw.form \in {"digits", "whole_number"} -> "id"
      [] raw.form = "tns_name" -> "tns"
      [] raw.form = "number_past_2_53" -> "precision_lost"
      [] OTHER -> "unrecognized"

LookedUp(kind) == kind \in {"id", "tns"}

\* classify_identifiers: an identifier with a canonical form is kept once.
Classified(raws) ==
    LET Same(i, j) == /\ KindOf(raws[i]) = KindOf(raws[j]) /\ LookedUp(KindOf(raws[i]))
                      /\ raws[i].of = raws[j].of
        First(i) == \A j \in 1 .. i - 1 : ~Same(i, j)
        kept == InOrder({i \in DOMAIN raws : First(i)}, <)
    IN  [n \in DOMAIN kept |-> [position |-> kept[n], kind |-> KindOf(raws[kept[n]]),
                                of |-> raws[kept[n]].of]]

\* lookup_inputs
LookupInputs(idents) ==
    LET wanted == InOrder({n \in DOMAIN idents : LookedUp(idents[n].kind)}, <)
    IN  [n \in DOMAIN wanted |-> [kind |-> idents[wanted[n]].kind, ok |-> TRUE,
                                  radius |-> FALSE, of |-> idents[wanted[n]].of]]

FreshChat == [pc |-> "start", tool |-> "none", idents |-> <<>>, answer |-> <<>>]

\* _parse_lookup: one to MCP_MAX_IDENTIFIERS identifiers.
AskLookup(raws) ==
    /\ chat.pc = "start"
    /\ IF raws = <<>> \/ Len(raws) > ChatIds
       THEN chat' = [chat EXCEPT !.pc = "refused"] /\ UNCHANGED <<storeVars, req>>
       ELSE LET idents == Classified(raws)
                inputs == LookupInputs(idents)
            IN  /\ chat' = [chat EXCEPT !.pc = "waiting", !.tool = "lookup", !.idents = idents]
                /\ IF inputs = <<>> THEN UNCHANGED <<storeVars, req>>
                   ELSE Submit([route |-> "lookup", body |-> TRUE, detail |-> "full",
                                radius |-> "absent", filters |-> {}, response |-> "absent",
                                inputs |-> inputs], TRUE)

\* _run_near: nearest first, one page of as many objects as an answer lists.
AskNear(c) ==
    /\ chat.pc = "start"
    /\ chat' = [chat EXCEPT !.pc = "waiting", !.tool = "near"]
    /\ AskCone([centre |-> c, detail |-> "full", size |-> ChatObjects, filters |-> {},
                response |-> "absent", order |-> "nearest"], NoToken)

\* Mutant of ResultOf: the results are taken by the identifier's own position.
ResultByPosition(idents, n) == IF n \in DOMAIN req.results THEN n ELSE Len(req.results)

\* The API result of the n-th identifier: results follow the looked-up ones.
ResultOf(idents, n) == Cardinality({j \in 1 .. n : LookedUp(idents[j].kind)})

\* One entry: the objects it lists and how many it found.
EntryFor(idents, n) ==
    LET ident == idents[n]
        base == [position |-> ident.position, kind |-> ident.kind, of |-> ident.of,
                 status |-> ident.kind, objects |-> <<>>, found |-> 0]
        res == req.results[ResultOf(idents, n)]
        objects == InOrder(res.ids, Sooner)
    IN  IF ~LookedUp(ident.kind) THEN base
        ELSE [base EXCEPT
                !.status = res.status, !.objects = objects,
                !.found = IF ident.kind = "tns" /\ res.total > Len(objects) THEN res.total
                          ELSE Len(objects)]

\* Mutant of CapStep: past the cap an entry is dropped, whatever it holds.
CapStepAll(acc, entry) ==
    IF acc.left <= 0 THEN [acc EXCEPT !.cut = TRUE]
    ELSE [left |-> acc.left - Min({acc.left, Len(entry.objects)}),
          kept |-> Append(acc.kept, [entry EXCEPT
                      !.objects = SubSeq(@, 1, Min({acc.left, Len(@)}))]),
          cut |-> acc.cut \/ Len(entry.objects) > acc.left]

\* At most MCP_MAX_OBJECTS objects: an entry past them is dropped if it lists
\* objects, and kept if it only gives a reason.
CapStep(acc, entry) ==
    IF entry.objects # <<>> /\ acc.left <= 0 THEN [acc EXCEPT !.cut = TRUE]
    ELSE [left |-> acc.left - Min({acc.left, Len(entry.objects)}),
          kept |-> Append(acc.kept, [entry EXCEPT
                      !.objects = SubSeq(@, 1, Min({acc.left, Len(@)}))]),
          cut |-> acc.cut \/ Len(entry.objects) > acc.left]

Capped(entries) == FoldLeft(CapStep, [left |-> ChatObjects, kept |-> <<>>, cut |-> FALSE], entries)

Holders(entries) == {n \in DOMAIN entries : entries[n].objects # <<>>}

\* _fit pops the last object of the last entry that has one; an emptied entry goes.
WithoutLast(entries) ==
    LET n == Max(Holders(entries))
        rest == [entries EXCEPT ![n].objects = Front(@)]
    IN  IF rest[n].objects = <<>> THEN RemoveAt(entries, n) ELSE rest

ObjectCount(entries) ==
    LET Listed1(sum, entry) == sum + Len(entry.objects)
    IN  FoldLeft(Listed1, 0, entries)

TooBig(entries) == Len(entries) + ObjectCount(entries) > ChatSize

Fitted(entries) ==
    LET OneLess(kept, n) == IF TooBig(kept) /\ Holders(kept) # {} THEN WithoutLast(kept) ELSE kept
    IN  FoldLeft(OneLess, entries, [n \in 1 .. ObjectCount(entries) |-> n])

\* Mutant of Assembled: only the chat's own limits are told.
AssembledOwn(entries, cut, found) ==
    LET fitted == Fitted(entries)
    IN  [results |-> fitted, found |-> found, returned |-> ObjectCount(fitted),
         reasons |-> (IF cut THEN {"chat_object_limit"} ELSE {}) \cup
                     (IF fitted # entries THEN {"chat_size_limit"} ELSE {})]

\* The reasons of a cut: the chat's own limits, else the API's listing limit.
Assembled(entries, cut, found) ==
    LET fitted == Fitted(entries)
        returned == ObjectCount(fitted)
        own == (IF cut THEN {"chat_object_limit"} ELSE {}) \cup
               (IF fitted # entries THEN {"chat_size_limit"} ELSE {})
    IN  [results |-> fitted, found |-> found, returned |-> returned,
         reasons |-> IF own = {} /\ returned < found THEN {"api_listing_limit"} ELSE own]

\* project_lookup
ProjectLookup ==
    LET entries == [n \in DOMAIN chat.idents |-> EntryFor(chat.idents, n)]
        AddFound(sum, entry) == sum + entry.found
        capped == Capped(entries)
    IN  Assembled(capped.kept, capped.cut, FoldLeft(AddFound, 0, entries))

\* project_near_position: one entry, which stays when it is emptied.
ProjectNear ==
    LET res == req.results[1]
        Closer(o, p) == Nearer(req.cone.centre, o, p)
        entry == [position |-> 1, kind |-> "near", of |-> req.cone.centre, status |-> res.status,
                  objects |-> InOrder(res.ids, Closer), found |-> res.total]
        capped == Capped(<<entry>>)
    IN  [Assembled(capped.kept, capped.cut, res.total) EXCEPT
            !.results = IF @ = <<>> THEN <<[entry EXCEPT !.objects = <<>>]>> ELSE @]

\* The transaction ends and the answer is projected.
Project ==
    /\ chat.pc = "waiting"
    /\ LookupInputs(chat.idents) # <<>> \/ chat.tool = "near" => req.pc = "answered"
    /\ chat' = [chat EXCEPT !.pc = "answered",
                            !.answer = IF chat.tool = "lookup" THEN ProjectLookup ELSE ProjectNear]
    /\ UNCHANGED <<storeVars, req>>

ChatStep ==
    \/ \E raws \in ChatAsks : AskLookup(raws)
    \/ \E c \in ChatCentres : AskNear(c)
    \/ Project
    \/ (ResolveNames \/ SearchAll \/ Assemble \/ FetchPage \/ CountWhole \/ MakePage)
         /\ UNCHANGED chat

\* An answer says it is truncated exactly when it lists fewer objects than were
\* found, however many limits cut it, and an answer that is too big has no more
\* objects to drop.
TruncationIsTold ==
    chat.pc = "answered" =>
        /\ chat.answer.reasons # {} <=> chat.answer.returned < chat.answer.found
        /\ chat.answer.returned <= ChatObjects
        /\ TooBig(chat.answer.results) => chat.answer.returned = 0

\* Every distinct identifier is answered, in the order given; one that names no
\* object keeps its reason even in a truncated answer, and one that is missing
\* is in a truncated answer, whose request for the full set has it.
EveryIdentifierAnswered ==
    chat.pc = "answered" /\ chat.tool = "lookup" =>
        LET given == {n \in DOMAIN chat.idents :
                         \E e \in DOMAIN chat.answer.results :
                             chat.answer.results[e].position = chat.idents[n].position}
        IN  /\ \A d, e \in DOMAIN chat.answer.results :
                  d < e => chat.answer.results[d].position < chat.answer.results[e].position
            /\ \A n \in DOMAIN chat.idents \ given :
                  /\ chat.answer.reasons # {}
                  /\ LookedUp(chat.idents[n].kind)
                  /\ req.results[ResultOf(chat.idents, n)].ids # {}

\* The objects of an entry are those of its own identifier: the object itself,
\* or objects within the radius of the name's place.
EntriesAreTheirOwn ==
    chat.pc = "answered" /\ chat.tool = "lookup" =>
        \A e \in DOMAIN chat.answer.results :
            LET entry == chat.answer.results[e]
            IN  \A o \in ToSet(entry.objects) :
                    IF entry.kind = "id" THEN o = entry.of
                    ELSE entry.kind = "tns" /\ o \in Inside(TnsPlace[entry.of], Unpinned)

\* However an answer is cut, a reader knows of every identifier what became of
\* it (chat_mcp/projection.py).
NothingIsHidden == TruncationIsTold /\ EveryIdentifierAnswered /\ EntriesAreTheirOwn
=============================================================================
