----------------------------- MODULE Lifecycle -----------------------------
(***************************************************************************)
(* What the pipeline promises for an alert, whatever its processes do to   *)
(* keep it: the alert waits, is crossmatched once, each of its matches is  *)
(* announced once and given one final outcome, and it is notified only     *)
(* when every announcement was sent.  Batches, queues, retries and locks   *)
(* are not part of the promise.                                            *)
(***************************************************************************)
CONSTANTS Alerts, Catalogs

VARIABLES
    stage,     \* how far the alert has come
    outcome    \* of the announcement of each possible match

lifeVars == <<stage, outcome>>

Matches == Alerts \X Catalogs

Waiting == {a \in Alerts : stage[a] = "waiting"}

LifeInit ==
    /\ stage = [a \in Alerts |-> "absent"]
    /\ outcome = [m \in Matches |-> "none"]

Arrive(a) ==
    /\ stage[a] = "absent"
    /\ stage' = [stage EXCEPT ![a] = "waiting"]
    /\ UNCHANGED outcome

\* Some waiting alerts S are crossmatched together, with the matches R.
Crossmatch(S, R) ==
    /\ stage' = [a \in Alerts |-> IF a \in S THEN "matched" ELSE stage[a]]
    /\ outcome' = [m \in Matches |-> IF m \in R THEN "PENDING" ELSE outcome[m]]

\* Pending announcements P get their outcome, those in OK that of being sent.
Settle(P, OK) ==
    /\ \A m \in P : outcome[m] = "PENDING"
    /\ outcome' = [m \in Matches |->
                     IF m \in OK THEN "SENT"
                     ELSE IF m \in P THEN "FAILED" ELSE outcome[m]]
    /\ UNCHANGED stage

\* Every match of the alert was announced, and there was one.
Finish(a) ==
    /\ stage[a] = "matched"
    /\ \E c \in Catalogs : outcome[<<a, c>>] = "SENT"
    /\ \A c \in Catalogs : outcome[<<a, c>>] \in {"none", "SENT"}
    /\ stage' = [stage EXCEPT ![a] = "notified"]
    /\ UNCHANGED outcome

LifeNext ==
    \/ \E a \in Alerts : Arrive(a) \/ Finish(a)
    \/ \E S \in SUBSET Waiting : \E R \in SUBSET (S \X Catalogs) : Crossmatch(S, R)
    \/ \E P \in SUBSET Matches : \E OK \in SUBSET P : Settle(P, OK)

LifeSpec == LifeInit /\ [][LifeNext]_lifeVars
=============================================================================
