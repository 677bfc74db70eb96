------------------------------- MODULE ReadApi -------------------------------
(***************************************************************************)
(* The read side of the service over the committed rows: a client of one   *)
(* of its queries and the pipeline that commits meanwhile.                 *)
(***************************************************************************)
EXTENDS RecentWalk, ChatProjection, NightSummary

VARIABLE part          \* what the client asks for

readVars == <<storeVars, walk, req, night, chat, part>>

Init ==
    /\ WalkInit
    /\ req = FreshRequest /\ night = FreshNight
    /\ chat = FreshChat
    /\ part \in {"recent", "lookup", "cone", "summary", "chat"}

Finished == {"answered", "refused", "end"}

\* The steps of build_objects, for lookups and cones alike.
BuildStep ==
    ReadAlerts \/ ReadRecords \/ ReadMatched \/ ReadMatches \/ ReadBrokers \/ BuildObjects

Next ==
    \/ /\ StoreStepSeen /\ UNCHANGED <<walk, night, chat, part>>
       /\ {walk.pc, IF part = "chat" THEN chat.pc ELSE req.pc, night.pc} \cap Finished = {}
    \/ part = "recent" /\ WalkStep /\ UNCHANGED <<req, night, chat, part>>
    \/ part = "lookup" /\ (LookupStep \/ BuildStep) /\ UNCHANGED <<walk, night, chat, part>>
    \/ part = "cone" /\ (ConeStep \/ BuildStep) /\ UNCHANGED <<walk, night, chat, part>>
    \/ part = "summary" /\ SummaryStep /\ UNCHANGED <<walk, req, chat, part>>
    \/ part = "chat" /\ (ChatStep \/ (BuildStep /\ UNCHANGED chat))
       /\ UNCHANGED <<walk, night, part>>

Spec == Init /\ [][Next]_readVars

\* What is said of an object was true of it while the request ran: its matches
\* in a page, its entry and its mark in a lookup or a cone, each put together
\* from several statements (api/service.py, api/lookup.py, api/filters.py).
AnswerWasTrue == ListedHasMatches /\ EntryWasTrue /\ MarkWasTrue

\* The numbers of an answer and its lists tell the same story: caps and budgets
\* are kept and told, totals and counts cover what they name (api/positions.py,
\* api/filters.py).
NumbersAgree ==
    ListingIsBounded /\ LookupTotalsAgree /\ CountsAddUp /\ ConeTotalsAgree
=============================================================================
