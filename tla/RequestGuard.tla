---------------------------- MODULE RequestGuard ----------------------------
(***************************************************************************)
(* run_guarded and api_guard (api/guard.py, core/db.py): a callable run in *)
(* a read-only transaction under a wall-clock budget.  Statements run in   *)
(* phases; entering a phase sets statement_timeout to the time left, which *)
(* every statement of the phase then has for itself.  Postgres is taken to *)
(* cancel a statement promptly; Python work takes any time.                *)
(***************************************************************************)
EXTENDS Integers, Sequences, FiniteSets

CONSTANTS
    Calls,          \* requests being served, on any replica
    Budget,         \* API_REQUEST_BUDGET_SECONDS, in ticks of the clock
    StatusTimeout,  \* STATUS_CHECK_TIMEOUT_SECONDS, in ticks
    MaxTime         \* bound on the clock

ASSUME GuardAssumption == Budget \in Nat \ {0} /\ StatusTimeout \in Nat \ {0} /\ MaxTime \in Nat

VARIABLES
    clock,          \* the wall clock of all replicas
    guard           \* the guarded run of each request

guardVars == <<clock, guard>>

\* An sql_phase of so many statements; short: under the lower timeout of the status
\* checks.
Phase(statements) == [statements |-> statements, short |-> FALSE]
ShortPhase(statements) == [statements |-> statements, short |-> TRUE]

\* The phases of a callable; maps: map_unavailable.
Plan(phases, maps) == [phases |-> phases, maps |-> maps]

Outcomes == {"none", "ok", "refused", "query_too_expensive", "service_unavailable",
             "database_error", "interface_error"}

\* at: when the statement or the transaction that decides the outcome ended.
Idle == [pc |-> "idle", deadline |-> 0, todo |-> <<>>, maps |-> TRUE,
         left |-> 0, limit |-> 0, error |-> "none", at |-> 0, outcome |-> "none"]

\* RequestGuard(): the clock of the budget starts.
Made(plan) == [Idle EXCEPT !.pc = "made", !.deadline = clock + Budget,
                           !.todo = plan.phases, !.maps = plan.maps]

Remaining(c) == guard[c].deadline - clock

Expired(c) == Remaining(c) <= 0

\* set_statement_timeout: never 0, which would disable it.
TimeoutOf(seconds) == IF seconds < 1 THEN 1 ELSE seconds

GoTo(c, pc) == guard' = [guard EXCEPT ![c].pc = pc]

Raise(c, error) ==
    guard' = [guard EXCEPT ![c].pc = "raised", ![c].error = error, ![c].at = clock]

\* What a lost connection raises: django's OperationalError, which is a DatabaseError,
\* or its InterfaceError, which is not one.
Lost == {"connection", "interface"}

\* Another DatabaseError.
DatabaseErrors == Lost \cup {"other"}

\* read_only_transaction: connect, SET TRANSACTION, set the timeout.
BeginTransaction(c) ==
    /\ guard[c].pc = "made"
    /\ \/ guard' = [guard EXCEPT ![c].pc = "work", ![c].left = TimeoutOf(Remaining(c))]
       \/ \E e \in DatabaseErrors : Raise(c, e)

\* sql_phase: refused once the deadline has passed.
EnterPhase(c) ==
    /\ guard[c].pc = "work" /\ guard[c].todo # <<>>
    /\ IF Expired(c) THEN Raise(c, "deadline")
       ELSE \/ LET most == IF Head(guard[c].todo).short /\ StatusTimeout < Remaining(c)
                           THEN StatusTimeout ELSE Remaining(c)
               IN  guard' = [guard EXCEPT ![c].pc = "phase", ![c].left = TimeoutOf(most)]
            \/ \E e \in Lost : Raise(c, e)

StartStatement(c) ==
    /\ guard[c].pc = "phase" /\ Head(guard[c].todo).statements > 0
    /\ guard' = [guard EXCEPT ![c].pc = "statement", ![c].limit = clock + guard[c].left,
                              ![c].todo[1].statements = @ - 1]

\* A statement answers, fails, or is cancelled: by its timeout or from outside.
EndStatement(c) ==
    /\ guard[c].pc = "statement"
    /\ \/ GoTo(c, "phase")
       \/ \E e \in DatabaseErrors \cup {"canceled"} : Raise(c, e)

LeavePhase(c) ==
    /\ guard[c].pc = "phase" /\ Head(guard[c].todo).statements = 0
    /\ guard' = [guard EXCEPT ![c].pc = "work", ![c].todo = Tail(@)]

\* check_deadline in a loop over inputs or rows.
CheckInLoop(c) == guard[c].pc = "work" /\ Expired(c) /\ Raise(c, "deadline")

\* The callable raises an ApiError, or a view returns an error response, which
\* the final check passes over.
RefuseRequest(c) == guard[c].pc = "work" /\ Raise(c, "api")

EndTransaction(c) ==
    /\ guard[c].pc = "work" /\ guard[c].todo = <<>>
    /\ \/ guard' = [guard EXCEPT ![c].pc = "ended", ![c].at = clock]
       \/ \E e \in Lost : Raise(c, e)

\* Mutant of FinalOutcome: the answer goes out once the transaction has ended.
FinalUnchecked(c) == "ok"

\* The check of a result once its transaction has ended.
FinalOutcome(c) == IF Expired(c) THEN "query_too_expensive" ELSE "ok"

FinalCheck(c) ==
    /\ guard[c].pc = "ended"
    /\ guard' = [guard EXCEPT ![c].pc = "done", ![c].outcome = FinalOutcome(c)]

\* Mutant of Classified: a connection error is an outage, whenever it comes.
ClassifiedByError(c) ==
    CASE guard[c].error = "api" -> "refused"
      [] guard[c].error = "interface" -> "interface_error"
      [] guard[c].error \in {"deadline", "canceled"} -> "query_too_expensive"
      [] guard[c].error = "connection" /\ guard[c].maps -> "service_unavailable"
      [] OTHER -> "database_error"

\* The deadline first, the kind of error second; no handler is for an InterfaceError,
\* which leaves the guard as it is.
Classified(c) ==
    CASE guard[c].error = "api" -> "refused"
      [] guard[c].error = "interface" -> "interface_error"
      [] \/ guard[c].error \in {"deadline", "canceled"}
         \/ guard[c].error \in {"connection", "other"} /\ Expired(c)
           -> "query_too_expensive"
      [] guard[c].error = "connection" /\ guard[c].maps /\ ~Expired(c) -> "service_unavailable"
      [] OTHER -> "database_error"

Classify(c) ==
    /\ guard[c].pc = "raised"
    /\ guard' = [guard EXCEPT ![c].pc = "done", ![c].outcome = Classified(c)]

GuardStep(c) ==
    /\ \/ BeginTransaction(c) \/ EnterPhase(c) \/ StartStatement(c) \/ EndStatement(c)
       \/ LeavePhase(c) \/ CheckInLoop(c) \/ RefuseRequest(c) \/ EndTransaction(c)
       \/ FinalCheck(c) \/ Classify(c)
    /\ UNCHANGED clock

\* No statement runs past its timeout.
Tick ==
    /\ clock < MaxTime
    /\ \A c \in Calls : guard[c].pc = "statement" => clock < guard[c].limit
    /\ clock' = clock + 1

\* A result is given out only if its transaction ended within the budget.
OkMeansInTime ==
    \A c \in Calls : guard[c].outcome = "ok" => guard[c].at < guard[c].deadline

\* A client is told to come back later only for an outage that struck within
\* the budget: a request that overran is never called retryable.
OutageMeansInTime ==
    \A c \in Calls :
        guard[c].outcome = "service_unavailable" =>
            guard[c].error = "connection" /\ guard[c].at < guard[c].deadline

\* The outcome of a request is decided by when it happened (api/guard.py).
OutcomeMeansInTime == OkMeansInTime /\ OutageMeansInTime
=============================================================================
