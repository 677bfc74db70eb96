------------------------------ MODULE MCReadApi ------------------------------
EXTENDS ReadApi

M(c, v, near) == [catalog |-> c, version |-> v, near |-> near]
R(v, a, b) == [version |-> v, of |-> [A |-> a, B |-> b]]

Row(status, ingest, matches, records) ==
    [status |-> status, ingest |-> ingest, matches |-> matches, records |-> records,
     tns |-> FALSE, brokers |-> IF status \in {"absent", "stamped"} THEN {} ELSE {"antares"}]

Nothing == Row("absent", 0, {}, {})
Late == Row("stamped", 0, {}, {})
Waiting == Row("QUEUED", 0, {M("A", 1, TRUE)}, {})
Empty(ingest) == Row("MATCHED", ingest, {}, {R(2, "searched", "outside_footprint")})
Skipped == Row("NOTIFIED", 0, {}, {R(1, "searched", "searched"),
                                   R(2, "skipped_read_failure", "outside_footprint")})
Retried == Row("MATCHED", 0, {}, {R(1, "skipped_read_failure", "outside_footprint"),
                                  R(2, "searched", "searched")})
Older == [Row("MATCHED", 0, {M("A", 1, TRUE)}, {[version |-> 1, of |-> [A |-> "searched"]]})
            EXCEPT !.tns = TRUE, !.brokers = {"antares", "lasair"}]
Newer(ingest) == Row("NOTIFIED", ingest, {M("A", 1, TRUE), M("A", 2, FALSE), M("B", 2, TRUE)},
                     {R(2, "searched", "searched")})

MCInitRows ==
    {<<Older, Newer(0), Waiting>>, <<Newer(1), Retried, Older>>, <<Newer(1), Late, Older>>, <<Older, Older, Newer(1)>>,
     <<Late, Newer(0), Empty(0)>>, <<Skipped, Empty(1), Waiting>>, <<Nothing, Older, Newer(0)>>}

MCEventTime == <<5, 6, 9>>
MCScore == <<9, 10, -1>>
MCBasis == <<"first_detection", "receive_time", "null">>
MCUnbuildable == {<<2, "B">>}
MCSeparation == [c1 |-> <<0, 2, 1>>, c2 |-> <<1, 0, 9>>]
MCTnsPlace == [n1 |-> "c1", n2 |-> "unknown"]

\* api/recent-crossmatches
W(start, end, field, detail, size) ==
    [get |-> TRUE, filter |-> FALSE, start |-> start, end |-> end, size |-> size,
     field |-> field, detail |-> detail]
MCRequests ==
    {W(-1, -1, "absent", "absent", 1), W(-1, 9, "event_time", "full", 1),
     W(0, 9, "ingest_time", "absent", -1), W(9, 0, "absent", "absent", 1),
     W(-1, -1, "absent", "absent", -2),
     [W(-1, -1, "absent", "absent", 1) EXCEPT !.filter = TRUE]}

\* api/lookup, api/objects and api/tns
I(kind, of) == [kind |-> kind, ok |-> kind # "none", radius |-> FALSE, of |-> of]
F(name, catalog) == [name |-> name, catalog |-> catalog, valid |-> TRUE]
NearA == {F("column", "A")}
Plain0 == [route |-> "lookup", body |-> TRUE, detail |-> "absent", radius |-> "given",
           filters |-> {}, response |-> "absent", inputs |-> <<I("id", 1), I("id", 2)>>]
MCLookups ==
    {Plain0,
     [Plain0 EXCEPT !.filters = NearA, !.detail = "full",
                    !.inputs = <<I("tns", "n1"), I("none", 1), I("id", 3)>>],
     [Plain0 EXCEPT !.detail = "position",
                    !.inputs = <<I("position", "c1"), I("position", "c2"), I("id", 2)>>],
     [Plain0 EXCEPT !.response = "count", !.filters = {F("reliability_min", "none")},
                    !.inputs = <<I("id", 1), I("position", "c1"), I("id", 9)>>],
     [Plain0 EXCEPT !.route = "tns", !.filters = NearA, !.inputs = <<I("tns", "n1")>>],
     [Plain0 EXCEPT !.route = "tns", !.inputs = <<I("tns", "n2")>>],
     [Plain0 EXCEPT !.filters = {F("column", "A"), F("catalog", "B")}],
     [Plain0 EXCEPT !.inputs = <<I("id", 1), I("id", 2), I("id", 3), I("id", 1)>>]}

\* api/cone
C(order) == [centre |-> "c1", detail |-> "absent", size |-> 1, filters |-> {},
             response |-> "absent", order |-> order]
MCConeAsks ==
    {C("ingest"), C("nearest"), [C("ingest") EXCEPT !.centre = "absent"],
     [C("ingest") EXCEPT !.filters = NearA],
     [C("ingest") EXCEPT !.response = "count", !.filters = NearA]}

\* the chat tools
D(form, of) == [form |-> form, of |-> of]
MCChatAsks ==
    {<<D("digits", 1), D("other_text", 1), D("whole_number", 1), D("digits", 2), D("tns_name", "n2")>>,
     <<D("number_past_2_53", 3), D("digits", 3), D("tns_name", "n1")>>,
     <<D("tns_name", "n1"), D("other_text", 1)>>, <<D("fraction", 1)>>, <<>>}

\* api/summary
S(n, last, start, end) ==
    [night |-> n, last |-> last, start |-> start, end |-> end, broker |-> "absent",
     catalogs |-> {}, match |-> "absent", top |-> Omitted]
O == Omitted
MCSummaries ==
    {S(O, O, O, O), S(0, O, O, O), S(O, 2, O, O), S(O, O, 3, 8), S(O, 1, 3, 8), S(Garbled, O, O, O),
     [S(O, 2, O, O) EXCEPT !.catalogs = {"A"}, !.match = "without"],
     [S(O, O, 5, 10) EXCEPT !.catalogs = {"A"}, !.broker = "lasair"]}
=============================================================================
