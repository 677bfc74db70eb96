----------------------------- MODULE MCChatMcp -----------------------------
EXTENDS McpServer, TLC

CONSTANTS c1, c2, c3

MCRate == [ip |-> [burst |-> 1, window |-> 2], session |-> [burst |-> 2, window |-> 4],
           provider |-> [burst |-> 2, window |-> 4]]
MCKeys == {<<"ip", "a">>, <<"ip", "b">>, <<"session", c1>>, <<"provider", "range">>}
MCPlanOf == [lookup |-> Plan(<<Phase(1)>>, TRUE), unknown_ids |-> Plan(<<>>, TRUE),
             describe |-> Plan(<<ShortPhase(2), Phase(1)>>, FALSE),
             summary |-> Plan(<<Phase(2)>>, TRUE), api |-> Plan(<<Phase(1), Phase(1)>>, TRUE),
             status |-> Plan(<<ShortPhase(2)>>, FALSE)]

Tool(name, ip, from, session) ==
    [path |-> "mcp", origin |-> "absent", verb |-> "POST", content |-> "object",
     version |-> TRUE, id |-> "valid", method |-> "tools/call", reply |-> FALSE,
     params |-> "object", tool |-> name, arguments |-> "valid", ip |-> ip, from |-> from,
     session |-> session]
Direct(from) == Tool("unknown_ids", "direct", from, "absent")
Hello(ip) == [Tool("lookup", ip, "a", "absent") EXCEPT !.method = "initialize"]
Chat == Tool("unknown_ids", "provider", "x", c1)

\* One message of every kind, beside nothing else.
Faulty ==
    {[Direct("a") EXCEPT !.origin = o, !.verb = v, !.content = b] :
        o \in {"absent", "allowed", "other"}, v \in {"POST", "other"},
        b \in {"object", "array", "scalar", "other_type", "not_json"}}
      \cup
    {[Direct("a") EXCEPT !.version = j, !.id = i, !.method = m, !.reply = r, !.params = p,
                         !.arguments = a] :
        j \in BOOLEAN, i \in {"absent", "valid", "invalid"},
        m \in {"absent", "not_string", "initialize", "ping", "unknown", "tools/call"},
        r \in BOOLEAN, p \in {"object", "other"}, a \in {"invalid", "not_object"}}

View(path) == [Direct("a") EXCEPT !.path = path]
One(m) == c1 :> m
Two(a, b) == One(a) @@ c2 :> b
Three(a, b, c) == Two(a, b) @@ c3 :> c

MCConversations ==
    [alone |-> {One(m) : m \in Faulty \cup {View("api"), View("status")}} \cup
               {One(Tool(t, "direct", "a", "absent")) : t \in {"lookup", "describe", "summary"}},
     disturbed |-> {Two(Direct("a"), Direct("b"))},
     crowded |-> {Three(Direct("a"), Direct("b"), [Chat EXCEPT !.session = "tampered"]),
                  Three(Hello("direct"), [Direct("a") EXCEPT !.session = c1], Direct("a")),
                  Three(Hello("provider"), Chat, Chat)}]

\* Nothing was counted in the window before, or as much as fits.
MCInitRates ==
    {[k \in MCKeys |-> [i \in 0 .. 4 |->
        IF i = (4 \div MCRate[k[1]].window) - 1 /\ full THEN MCRate[k[1]].burst ELSE 0]] :
            full \in BOOLEAN}
=============================================================================
