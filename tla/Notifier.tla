------------------------------ MODULE Notifier ------------------------------
(***************************************************************************)
(* dispatch_notifications (tasks/schedule.py) and the Hopskotch handler it *)
(* calls (notifier/impl_hopskotch.py).  The rows are locked for the whole  *)
(* publishing transaction; the MATCHED to NOTIFIED transitions come after  *)
(* it, one alert at a time, as two statements each.                        *)
(***************************************************************************)
EXTENDS AlertStore

CONSTANTS
    Notifiers,     \* worker processes that may run the task at the same time
    FetchLimit     \* rows one run takes: 500 in the code

VARIABLES
    npc,           \* the next statement of each run
    held,          \* the rows its open transaction has locked
    confirmed,     \* those whose delivery callback reported success
    todo,          \* alerts whose transition is still to be considered
    cur,           \* the alert found to have no unsent row, as a set
    delivered,     \* messages the Kafka broker has accepted (external)
    forgotten      \* history: alerts a run had still to mark when it died

notifierVars == <<npc, held, confirmed, todo, cur, delivered, forgotten>>

ASSUME NotifierAssumption == FetchLimit \in Nat \ {0}

NotifierPC == {"idle", "locked", "published", "check", "mark"}

NotifierTypeOK ==
    /\ npc \in [Notifiers -> NotifierPC]
    /\ held \in [Notifiers -> SUBSET Notifications]
    /\ confirmed \in [Notifiers -> SUBSET Notifications]
    /\ todo \in [Notifiers -> SUBSET Alerts]
    /\ cur \in [Notifiers -> SUBSET Alerts]
    /\ delivered \in SUBSET Notifications
    /\ forgotten \in SUBSET Alerts

NotifierInit ==
    /\ npc = [n \in Notifiers |-> "idle"]
    /\ held = [n \in Notifiers |-> {}]
    /\ confirmed = [n \in Notifiers |-> {}]
    /\ todo = [n \in Notifiers |-> {}]
    /\ cur = [n \in Notifiers |-> {}]
    /\ delivered = {}
    /\ forgotten = {}

\* Mutant of Locked: rows are selected without a lock.
LockedNone == {}

\* Rows the transaction of some run has locked.
Locked == UNION {held[n] : n \in Notifiers}

HasUnsent(a) == \E i \in RowsOf(a) : nstate[i] # "SENT"

\* Where the loop over alert_ids goes with S still to do.
LoopPC(S) == IF S = {} THEN "idle" ELSE "check"

-----------------------------------------------------------------------------
\* Mutant of LockPending: an alert with a FAILED notification is passed over.
LockUnlessFailed(n) ==
    /\ npc[n] = "idle"
    /\ \E S \in SUBSET (WithNState("PENDING") \ Locked) :
        /\ S # {}
        /\ Cardinality(S) <= FetchLimit
        /\ \A i \in S : \A j \in RowsOf(i[1]) : nstate[j] # "FAILED"
        /\ held' = [held EXCEPT ![n] = S]
    /\ npc' = [npc EXCEPT ![n] = "locked"]
    /\ UNCHANGED <<confirmed, todo, cur, delivered, forgotten, storeVars, faults>>

\* select_for_update(skip_locked=True) over PENDING rows; none left: return.
LockPending(n) ==
    /\ npc[n] = "idle"
    /\ \E S \in SUBSET (WithNState("PENDING") \ Locked) :
        /\ S # {}
        /\ \/ S = WithNState("PENDING") \ Locked
           \/ Cardinality(S) = FetchLimit
        /\ Cardinality(S) <= FetchLimit
        /\ held' = [held EXCEPT ![n] = S]
    /\ npc' = [npc EXCEPT ![n] = "locked"]
    /\ UNCHANGED <<confirmed, todo, cur, delivered, forgotten, storeVars, faults>>

\* handler(notifications): write and flush.  The broker accepts the messages D
\* and the callbacks of OK among them report it; the rest were refused, or
\* never confirmed.
PublishOutcome(n, OK, D) ==
    /\ npc[n] = "locked"
    /\ npc' = [npc EXCEPT ![n] = "published"]
    /\ confirmed' = [confirmed EXCEPT ![n] = OK]
    /\ delivered' = delivered \cup D
    /\ UNCHANGED <<held, todo, cur, forgotten, storeVars>>

Publish(n) == PublishOutcome(n, held[n], held[n]) /\ UNCHANGED faults

\* Mutant of PublishWithFailures: a row is taken as sent when it is written.
PublishOptimistic(n) ==
    /\ Fault("reject")
    /\ \E D \in SUBSET held[n] : PublishOutcome(n, held[n], D)

PublishWithFailures(n) ==
    /\ Fault("reject")
    /\ \E D \in SUBSET held[n], OK \in SUBSET held[n] :
        /\ OK \subseteq D
        /\ OK # held[n]
        /\ PublishOutcome(n, OK, D)

\* The publishing transaction commits: SENT where confirmed, FAILED elsewhere;
\* the locks go, and the alerts with a sent row are collected.
CommitOutcomes(n) ==
    /\ npc[n] = "published"
    /\ nstate' = [i \in Notifications |->
                    IF i \in confirmed[n] THEN "SENT"
                    ELSE IF i \in held[n] THEN "FAILED"
                    ELSE nstate[i]]
    /\ todo' = [todo EXCEPT ![n] = {i[1] : i \in confirmed[n]}]
    /\ npc' = [npc EXCEPT ![n] = LoopPC({i[1] : i \in confirmed[n]})]
    /\ held' = [held EXCEPT ![n] = {}]
    /\ confirmed' = [confirmed EXCEPT ![n] = {}]
    /\ UNCHANGED <<cur, delivered, forgotten, faults>>
    /\ UNCHANGED <<status, ingestAge, queuedAge, notifiedAt, round>>

\* Mutant of CheckAlert: without the has_unsent query.
CheckNothing(n, a) ==
    /\ npc[n] = "check"
    /\ a \in todo[n]
    /\ todo' = [todo EXCEPT ![n] = @ \ {a}]
    /\ npc' = [npc EXCEPT ![n] = "mark"]
    /\ cur' = [cur EXCEPT ![n] = {a}]
    /\ UNCHANGED <<held, confirmed, delivered, forgotten, storeVars, faults>>

\* has_unsent for one of the alerts: the loop moves on, or goes on to mark it.
CheckAlert(n, a) ==
    /\ npc[n] = "check"
    /\ a \in todo[n]
    /\ todo' = [todo EXCEPT ![n] = @ \ {a}]
    /\ IF HasUnsent(a)
       THEN /\ npc' = [npc EXCEPT ![n] = LoopPC(todo[n] \ {a})]
            /\ UNCHANGED cur
       ELSE /\ npc' = [npc EXCEPT ![n] = "mark"]
            /\ cur' = [cur EXCEPT ![n] = {a}]
    /\ UNCHANGED <<held, confirmed, delivered, forgotten, storeVars, faults>>

\* Mutant of MarkNotified: the filter compares the natural key with the uuid and
\* finds no row.
MarkByPrimaryKey(n) ==
    /\ npc[n] = "mark"
    /\ cur' = [cur EXCEPT ![n] = {}]
    /\ npc' = [npc EXCEPT ![n] = LoopPC(todo[n])]
    /\ UNCHANGED <<held, confirmed, todo, delivered, forgotten, storeVars, faults>>

\* filter(..., status=MATCHED).update(status=NOTIFIED, notified_at=now).
MarkNotified(n) ==
    /\ npc[n] = "mark"
    /\ LET done == {a \in cur[n] : status[a] = "MATCHED"} IN
        /\ status' = SetStatus(done, "NOTIFIED")
        /\ notifiedAt' = [a \in Alerts |-> notifiedAt[a] \/ a \in done]
    /\ cur' = [cur EXCEPT ![n] = {}]
    /\ npc' = [npc EXCEPT ![n] = LoopPC(todo[n])]
    /\ UNCHANGED <<held, confirmed, todo, delivered, forgotten, faults>>
    /\ UNCHANGED <<ingestAge, queuedAge, round, nstate>>

\* The worker process dies: its transaction rolls back and what it had still
\* to mark is forgotten.  Messages it had written may be accepted all the same.
NotifierCrash(n) ==
    /\ npc[n] # "idle"
    /\ Fault("crash")
    /\ npc' = [npc EXCEPT ![n] = "idle"]
    /\ held' = [held EXCEPT ![n] = {}]
    /\ confirmed' = [confirmed EXCEPT ![n] = {}]
    /\ todo' = [todo EXCEPT ![n] = {}]
    /\ cur' = [cur EXCEPT ![n] = {}]
    /\ \E D \in SUBSET held[n] : delivered' = delivered \cup D
    /\ forgotten' = forgotten \cup todo[n] \cup cur[n]
    /\ UNCHANGED storeVars

NotifierStep(n) ==
    \/ LockPending(n)
    \/ Publish(n)
    \/ PublishWithFailures(n)
    \/ CommitOutcomes(n)
    \/ \E a \in Alerts : CheckAlert(n, a)
    \/ MarkNotified(n)

NotifierNext == \E n \in Notifiers : NotifierStep(n) \/ NotifierCrash(n)
=============================================================================
