----------------------------- MODULE McpServer -----------------------------
(***************************************************************************)
(* The chat endpoint (chat_mcp/views.py, chat_mcp/protocol.py): one POST   *)
(* carries one JSON-RPC message and gets one answer.  Only a tool call     *)
(* with valid arguments passes the limits and runs under the guard.  The   *)
(* HTTP views (api/views.py) run under the guard alone.                    *)
(***************************************************************************)
EXTENDS Admission

CONSTANTS
    Conversations,  \* scene -> what the clients may send: functions to Messages
    InitRates,      \* counters the limiter may start from
    StartTime,      \* the clock when they start
    MaxAge,         \* MCP_SESSION_MAX_AGE_SECONDS, in ticks
    PlanOf          \* the statements each tool or view makes

VARIABLES
    scene,          \* what may happen around the requests
    sent,           \* the message of each request
    issued          \* when a request was issued a session ID, or -1

mcpVars == <<guardVars, admissionVars, scene, sent, issued>>

\* api: a view of the HTTP API; status: api/status.
Messages ==
    [path : {"mcp", "api", "status"},
     origin : {"absent", "allowed", "other"}, verb : {"POST", "other"},
     content : {"object", "array", "scalar", "other_type", "not_json"},
     version : BOOLEAN,                          \* jsonrpc is "2.0"
     id : {"absent", "valid", "invalid"},
     method : {"absent", "not_string", "initialize", "ping", "tools/list", "tools/call",
               "unknown"},
     reply : BOOLEAN,                            \* has result or error
     params : {"object", "other"},
     tool : DOMAIN PlanOf \cup {"unknown"},
     arguments : {"valid", "invalid", "not_object"},
     ip : {"direct", "provider"}, from : STRING,
     session : Calls \cup {"absent", "tampered"}]

\* Scenes: alone (one request, whose guarded run is followed step by step),
\* disturbed (the cache or a worker may fail) and crowded.  Keys has a key for
\* every client that may call, and the limiter a counter, which cache.add would
\* make, for every window the clock reaches.
ASSUME McpAssumption ==
    /\ DOMAIN Conversations \subseteq {"alone", "disturbed", "crowded"}
    /\ StartTime \in 0 .. MaxTime /\ MaxAge \in Nat
    /\ \A k \in Keys : k[1] \in DOMAIN Rate
    /\ \A r \in InitRates :
          /\ DOMAIN r = Keys
          /\ \A k \in Keys : /\ \A i \in DOMAIN r[k] : i \in Int /\ r[k][i] \in Nat
                            /\ \A t \in StartTime .. MaxTime : t \div Window(k) \in DOMAIN r[k]
    /\ \A k \in DOMAIN Conversations : \A f \in Conversations[k] :
          /\ DOMAIN f \subseteq Calls /\ f \in [DOMAIN f -> Messages]
          /\ \A c \in DOMAIN f :
                /\ f[c].ip = "direct" => <<"ip", f[c].from>> \in Keys
                /\ f[c].ip # "direct" => <<"provider", "range">> \in Keys
                /\ f[c].ip # "direct" /\ f[c].session \in Calls => <<"session", f[c].session>> \in Keys

OriginAllowed(m) == m.origin # "other"

\* What _json_body and the batch check refuse.
BodyError(m) ==
    CASE m.content = "not_json" -> "PARSE_ERROR"
      [] m.content \in {"other_type", "array"} -> "INVALID_REQUEST"
      [] OTHER -> "none"

\* Mutant of IsReply: a message without a method is a reply.
IsReplyBare(m) == m.method = "absent"

\* A response the client sent back: it is not answered.
IsReply(m) == m.method = "absent" /\ m.id = "valid" /\ m.reply

\* parse_message
MessageError(m) ==
    IF m.content # "object" \/ ~m.version \/ m.id = "invalid" THEN "INVALID_REQUEST"
    ELSE IF IsReply(m) THEN "none"
    ELSE IF m.method \in {"absent", "not_string"} THEN "INVALID_REQUEST"
    ELSE IF m.params = "other" THEN "INVALID_PARAMS" ELSE "none"

IsRequest(m) == ~IsReply(m) /\ m.id = "valid"

Answer(http, body, code, id) == [http |-> http, body |-> body, code |-> code, id |-> id]

\* Faults of a request that could be read are 200 and carry its id.
MethodError(m) ==
    IF m.method \notin {"initialize", "ping", "tools/list", "tools/call"} THEN "METHOD_NOT_FOUND"
    ELSE IF m.method = "tools/call" /\ (m.tool = "unknown" \/ m.arguments = "not_object")
    THEN "INVALID_PARAMS" ELSE "none"

\* mcp_view, for a message whose tool call, if it is one, ended with outcome.
Answered(m, outcome) ==
    IF ~OriginAllowed(m) THEN Answer(403, "error", "INVALID_REQUEST", "null")
    ELSE IF m.verb # "POST" THEN Answer(405, "none", "none", "none")
    ELSE IF BodyError(m) # "none" THEN Answer(400, "error", BodyError(m), "null")
    ELSE IF MessageError(m) # "none" THEN Answer(400, "error", MessageError(m), "null")
    ELSE IF ~IsRequest(m) THEN Answer(202, "none", "none", "none")
    ELSE IF MethodError(m) # "none" THEN Answer(200, "error", MethodError(m), "request")
    ELSE IF m.method = "tools/call" /\ outcome \in {"database_error", "interface_error"}
    THEN Answer(500, "none", "none", "none")
    ELSE Answer(200, "result", IF m.method = "tools/call" THEN outcome ELSE "none", "request")

\* A message that is answered at once.
AnsweredAtOnce(m) ==
    \/ ~OriginAllowed(m) \/ m.verb # "POST" \/ BodyError(m) # "none" \/ MessageError(m) # "none"
    \/ ~IsRequest(m) \/ MethodError(m) # "none" \/ m.method # "tools/call"

\* verify_session_id: signed by this service and not too old.
Verified(m) == m.session \in Calls /\ issued[m.session] >= 0 /\ clock - issued[m.session] <= MaxAge

\* identify_caller
KeyOf(m) ==
    IF m.ip = "direct" THEN <<"ip", m.from>>
    ELSE IF Verified(m) THEN <<"session", m.session>> ELSE <<"provider", "range">>

\* The limits a parsed call passes first.
Admitting(c) == Enter(KeyOf(sent[c]))

\* The guard's clock starts.  A run among others takes any time; the
\* slots go back in the same way whatever comes out of it.
StartGuard(c, plan) ==
    guard' = IF scene = "alone" THEN [guard EXCEPT ![c] = Made(plan)] ELSE guard

RunEnds(c, outcome) ==
    IF scene = "alone" THEN guard[c].pc = "done" /\ outcome = guard[c].outcome
    ELSE outcome = "ok"

\* Mutant of CallTool: the arguments are looked at once the call is counted.
CallToolLate(c) ==
    /\ call' = [call EXCEPT ![c] = Admitting(c)]
    /\ StartGuard(c, PlanOf[sent[c].tool])

\* _call_tool: the guard's clock starts first; bad arguments are a result of
\* their own, before the limits.
CallTool(c) ==
    IF sent[c].arguments = "invalid"
    THEN /\ call' = [call EXCEPT ![c].pc = "done", ![c].outcome = "invalid_arguments"]
         /\ UNCHANGED guard
    ELSE /\ call' = [call EXCEPT ![c] = Admitting(c)]
         /\ StartGuard(c, PlanOf[sent[c].tool])

\* A request arrives; a session can be sent once it was issued.
Receive(c) ==
    /\ call[c].pc = "idle" /\ c \in DOMAIN sent
    /\ sent[c].session \in Calls => issued[sent[c].session] >= 0
    /\ IF sent[c].path # "mcp"
       THEN /\ call' = [call EXCEPT ![c].pc = "run"]
            /\ StartGuard(c, PlanOf[sent[c].path])
            /\ UNCHANGED issued
       ELSE IF AnsweredAtOnce(sent[c])
       THEN /\ call' = [call EXCEPT ![c].pc = "done"]
            /\ issued' = IF /\ Answered(sent[c], "none").body = "result"
                            /\ sent[c].method = "initialize"
                         THEN [issued EXCEPT ![c] = clock] ELSE issued
            /\ UNCHANGED guard
       ELSE CallTool(c) /\ UNCHANGED issued
    /\ UNCHANGED <<clock, rates, slots, stolen, faults, scene, sent>>

\* Mutant of ReportOf: the status view passes a failed check on.
ReportRaw(m, outcome) == outcome

\* api/status and the describe tool tell whether the service is up.
TellsStatus(m) == m.path = "status" \/ (m.path = "mcp" /\ m.tool = "describe")

\* They report a failed check as an answer, but an InterfaceError, which they do not
\* catch, ends the request with a 500.
ReportOf(m, outcome) ==
    IF TellsStatus(m) /\ outcome \notin {"ok", "interface_error"}
    THEN "database_unavailable" ELSE outcome

\* The run under the guard ends: the slots go back, whatever came out.
Return(c) ==
    /\ call[c].pc = "run"
    /\ \E outcome \in Outcomes :
          /\ RunEnds(c, outcome)
          /\ call' = [call EXCEPT ![c].pc = "compare", ![c].then = "done",
                                  ![c].outcome = ReportOf(sent[c], outcome)]
    /\ guard' = [guard EXCEPT ![c] = Idle]
    /\ UNCHANGED <<clock, rates, slots, stolen, faults, scene, sent, issued>>

\* The worker dies; what it claimed stays until its lease ends.
Kill(c) ==
    /\ call[c].pc \notin {"idle", "done", "killed"} /\ sent[c].path = "mcp"
    /\ faults < MaxFaults /\ faults' = faults + 1
    /\ call' = [call EXCEPT ![c].pc = "killed", ![c].claimed = <<>>]
    /\ guard' = [guard EXCEPT ![c] = Idle]
    /\ UNCHANGED <<clock, rates, slots, stolen, scene, sent, issued>>

Init ==
    /\ clock = StartTime
    /\ guard = [c \in Calls |-> Idle]
    /\ rates \in InitRates
    /\ slots = [s \in Slots |-> Free]
    /\ call = [c \in Calls |-> NoCall]
    /\ stolen = {}
    /\ scene \in DOMAIN Conversations
    /\ sent \in Conversations[scene]
    /\ faults = IF scene = "disturbed" THEN 0 ELSE MaxFaults
    /\ issued = [c \in Calls |-> -1]

Finished == \A c \in DOMAIN sent : call[c].pc \in {"done", "killed"}

Next ==
    \/ ~Finished /\ Tick /\ UNCHANGED <<guard, admissionVars, scene, sent, issued>>
    \/ \E c \in Calls :
          \/ Receive(c) \/ Return(c) \/ Kill(c)
          \/ AdmissionStep(c) /\ UNCHANGED <<guardVars, scene, sent, issued>>
          \/ /\ call[c].pc = "run" /\ GuardStep(c)
             /\ UNCHANGED <<admissionVars, scene, sent, issued>>

Spec == Init /\ [][Next]_mcpVars

\* Who a client is, to a reader of the limits: an address that is not a chat
\* provider's, a conversation of a provider, or the rest of a provider's range.
Client(c) == IF sent[c].ip = "direct" THEN <<"ip", sent[c].from>> ELSE call[c].key

\* The calls of one client that were admitted over any stretch of time are no
\* more than a token bucket of the same burst and rate would have let through,
\* whatever sessions a direct client sends.
RateBounded ==
    \A c, d \in {e \in Calls : Admitted(e)} :
        LET within == {e \in Calls : /\ Admitted(e) /\ Client(e) = Client(c)
                                     /\ call[e].at \in call[c].at .. call[d].at}
            w == Window(call[c].key)
        IN  Client(c) = Client(d) /\ call[c].at <= call[d].at =>
                Cardinality(within) * w <= Burst(call[c].key) * (w + call[d].at - call[c].at)

\* A call that could not be understood costs its caller nothing: no token ever
\* left the counters or the slots on its account.
BadCallsAreFree ==
    \A c \in DOMAIN sent :
        sent[c].path = "mcp" /\ (AnsweredAtOnce(sent[c]) \/ sent[c].arguments = "invalid") =>
            /\ call[c].current = 0
            /\ \A s \in Slots : slots[s].token # c

\* A reader's definition of the answers: a request that can be read is answered
\* 200 with its own id, or is a crash of the service; a notification or a reply
\* is accepted without a body; anything else is a 4xx with no id.  A tool call
\* that was understood is a result, even when it was refused or failed.
AnswerFitsMessage ==
    \A c \in DOMAIN sent :
        LET m == sent[c]
            a == Answered(m, call[c].outcome)
            sound == /\ m.origin # "other" /\ m.verb = "POST" /\ m.content = "object" /\ m.version
            named == m.method \notin {"absent", "not_string"} /\ m.params = "object"
        IN  m.path = "mcp" /\ call[c].pc = "done" =>
              /\ a.id = "request" \/ a.http = 500 <=> sound /\ m.id = "valid" /\ named
              /\ a.http = 202 <=> /\ sound
                                  /\ \/ m.id = "absent" /\ named
                                     \/ m.id = "valid" /\ m.method = "absent" /\ m.reply
              /\ a.id = "null" => a.http >= 400 /\ a.body = "error"
              /\ a.body = "result" /\ m.method = "tools/call" =>
                    a.code \in {"ok", "invalid_arguments", "rate_limited", "busy", "refused",
                                "query_too_expensive", "service_unavailable",
                                "database_unavailable"}

\* The status view and the describe tool answer whatever DatabaseError was raised
\* and however long the checks took, and say the database is up only if its checks
\* answered in time.
StatusIsHonest ==
    \A c \in DOMAIN sent :
        LET told == ReportOf(sent[c], guard[c].outcome)
        IN  guard[c].pc = "done" /\ TellsStatus(sent[c]) =>
               /\ guard[c].error # "interface" => told \in {"ok", "database_unavailable"}
               /\ told = "ok" => guard[c].error = "none" /\ guard[c].at < guard[c].deadline

\* "Always 200 for a GET (KTD16): a database that cannot be reached, fails, or does
\* not answer the short status check in time is reported" (service_status_view,
\* api/views.py).  Not so for an InterfaceError.
StatusAlwaysAnswers ==
    \A c \in DOMAIN sent :
        guard[c].pc = "done" /\ TellsStatus(sent[c]) =>
            ReportOf(sent[c], guard[c].outcome) \in {"ok", "database_unavailable"}

\* Neither a call that has left nor one that never was keeps anything of the
\* limits (chat_mcp/limits.py, chat_mcp/views.py).
NothingIsKept == SlotsAreReturned /\ BadCallsAreFree

\* The rate is the documented one, and a refusal says when it will admit.
RateIsFair == RateBounded /\ RetryAfterIsEnough

\* Every message gets the answer that fits it and the state of the service.
AnswersAreRight == AnswerFitsMessage /\ StatusIsHonest
=============================================================================
