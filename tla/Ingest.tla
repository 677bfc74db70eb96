------------------------------- MODULE Ingest -------------------------------
(***************************************************************************)
(* Alert ingest: the consumer loops of the three brokers and the two-step  *)
(* gate ingest_alert they share (crossmatch/brokers).  ANTARES and Lasair  *)
(* are read by one loop each; Pitt-Google runs its callback in a thread    *)
(* pool.  Every statement is a transaction of its own (autocommit).        *)
(*                                                                         *)
(* The broker side is external: a message is in the inbox of its           *)
(* subscription until a consumer takes it, and returns there when it is    *)
(* nacked or, for a broker that keeps it until the ack, when the consumer  *)
(* dies.                                                                   *)
(***************************************************************************)
EXTENDS Integers, FiniteSets

CONSTANTS
    Objects, Brokers, Copies,
    Consumers,     \* consumer loops and callback threads
    Reads,         \* the broker each of them reads: [Consumers -> Brokers]
    Acking,        \* brokers that keep a message until it is acked: Pitt-Google
    Malformed,     \* messages that do not normalise
    Unstorable,    \* messages that normalise but have no readable position
    MaxFaults      \* bound: database errors, deaths and duplicates

VARIABLES
    inbox,         \* messages a broker has yet to hand out
    cpc,           \* the next step of each consumer
    msg,           \* the message it works on
    origin,        \* core_alert: the message each row was created from
    credited,      \* alert_deliveries: <<object, broker>>
    faults

Gate == INSTANCE IngestGate

Messages == Gate!Messages
NoMessage == Gate!NoMessage
ObjectOf(m) == Gate!ObjectOf(m)
BrokerOf(m) == Gate!BrokerOf(m)
Delivery(m) == Gate!Delivery(m)

tables == <<origin, credited>>
ingestVars == <<inbox, cpc, msg, tables, faults>>

ASSUME IngestAssumption ==
    /\ Reads \in [Consumers -> Brokers]
    /\ Acking \subseteq Brokers
    /\ Malformed \subseteq Messages
    /\ Unstorable \subseteq Messages
    /\ MaxFaults \in Nat

ConsumerPC == {"idle", "normalize", "get", "create", "deliver"}

IngestTyped ==
    /\ inbox \subseteq Messages
    /\ cpc \in [Consumers -> ConsumerPC]
    /\ msg \in [Consumers -> Messages \cup {NoMessage}]
    /\ origin \in [Objects -> Messages \cup {NoMessage}]
    /\ credited \subseteq Objects \X Brokers
    /\ faults \in 0 .. MaxFaults

IngestInit ==
    /\ inbox = Messages
    /\ cpc = [w \in Consumers |-> "idle"]
    /\ msg = [w \in Consumers |-> NoMessage]
    /\ Gate!GateInit
    /\ faults = 0

Goto(w, pc) == cpc' = [cpc EXCEPT ![w] = pc]

Fault == faults < MaxFaults /\ faults' = faults + 1

\* The consumer is through with its message.
Finish(w) ==
    /\ Goto(w, "idle")
    /\ msg' = [msg EXCEPT ![w] = NoMessage]

-----------------------------------------------------------------------------
\* client.poll(), consumer.poll(), or the pool calling _msg_callback.
Take(w) ==
    /\ cpc[w] = "idle"
    /\ \E m \in inbox :
        /\ BrokerOf(m) = Reads[w]
        /\ inbox' = inbox \ {m}
        /\ msg' = [msg EXCEPT ![w] = m]
    /\ Goto(w, "normalize")
    /\ UNCHANGED <<tables, faults>>

\* A poll that returns no message: the loop goes on.
PollNothing(w) ==
    /\ cpc[w] = "idle"
    /\ \A m \in inbox : BrokerOf(m) # Reads[w]
    /\ UNCHANGED ingestVars

\* Normalise.  A message that does not is logged and dropped (ANTARES, Lasair)
\* or acked to discard it (Pitt-Google).
Normalize(w) ==
    /\ cpc[w] = "normalize"
    /\ IF msg[w] \in Malformed
       THEN Finish(w)
       ELSE Goto(w, "get") /\ UNCHANGED msg
    /\ UNCHANGED <<inbox, tables, faults>>

\* Mutant of Get: an object that is stored counts as delivered.
GetOnly(w) ==
    /\ cpc[w] = "get"
    /\ IF origin[ObjectOf(msg[w])] = NoMessage
       THEN Goto(w, "create") /\ UNCHANGED msg
       ELSE Finish(w)
    /\ UNCHANGED <<inbox, tables, faults>>

\* The fast path: Alert.objects.get(...), or DoesNotExist.
Get(w) ==
    /\ cpc[w] = "get"
    /\ Goto(w, IF origin[ObjectOf(msg[w])] = NoMessage THEN "create" ELSE "deliver")
    /\ UNCHANGED <<inbox, msg, tables, faults>>

\* Mutant of FirstSeen: update_or_create.
LastSeen(o, m) == [origin EXCEPT ![o] = m]

\* get_or_create: the insert, or the row another consumer inserted meanwhile.
FirstSeen(o, m) == IF origin[o] = NoMessage THEN [origin EXCEPT ![o] = m] ELSE origin

Create(w) ==
    /\ cpc[w] = "create"
    /\ msg[w] \notin Unstorable
    /\ origin' = FirstSeen(ObjectOf(msg[w]), msg[w])
    /\ Goto(w, "deliver")
    /\ UNCHANGED <<inbox, msg, credited, faults>>

\* AlertDelivery.objects.get_or_create(...), then ack.
Deliver(w) ==
    /\ cpc[w] = "deliver"
    /\ credited' = credited \cup {Delivery(msg[w])}
    /\ Finish(w)
    /\ UNCHANGED <<inbox, origin, faults>>

\* Mutant of OnError: every consumer logs the error and goes on.
DropOnError(w) == inbox

\* ingest_alert raised: Pitt-Google nacks and the message is delivered again;
\* ANTARES and Lasair log it and poll the next one.
OnError(w) == IF Reads[w] \in Acking THEN inbox \cup {msg[w]} ELSE inbox

\* The database refuses a statement of ingest_alert.
DatabaseError(w) ==
    /\ cpc[w] \in {"get", "create", "deliver"}
    /\ Fault
    /\ inbox' = OnError(w)
    /\ Finish(w)
    /\ UNCHANGED tables

\* The defaults of the row cannot be built, now or ever (radec_to_ipix of a
\* position that is not a number raises): the same except branch.
Refused(w) ==
    /\ cpc[w] = "create"
    /\ msg[w] \in Unstorable
    /\ inbox' = OnError(w)
    /\ Finish(w)
    /\ UNCHANGED <<tables, faults>>

\* The process or the pod dies.  Pub/Sub delivers the message again; a Kafka
\* offset was already committed, or not.
Die(w) ==
    /\ cpc[w] # "idle"
    /\ Fault
    /\ \/ inbox' = inbox \cup {msg[w]}
       \/ Reads[w] \notin Acking /\ UNCHANGED inbox
    /\ Finish(w)
    /\ UNCHANGED tables

\* At-least-once delivery: an ack or an offset is lost and a message that was
\* already handled, or is being handled, comes again (external).
Duplicate(m) ==
    /\ m \notin inbox
    /\ Fault
    /\ inbox' = inbox \cup {m}
    /\ UNCHANGED <<cpc, msg, tables>>

Step(w) == Take(w) \/ Normalize(w) \/ Get(w) \/ Create(w) \/ Refused(w) \/ Deliver(w)

IngestNext ==
    \/ \E w \in Consumers : Step(w) \/ PollNothing(w) \/ DatabaseError(w) \/ Die(w)
    \/ \E m \in Messages : Duplicate(m)

IngestSpec == IngestInit /\ [][IngestNext]_ingestVars

\* The broker hands out this message.
TakeOf(m) == \E w \in Consumers : Take(w) /\ msg'[w] = m

-----------------------------------------------------------------------------
\* Held by some consumer.
InHand(m) == \E w \in Consumers : msg[w] = m

Storable(m) == m \notin Malformed \cup Unstorable

\* The gate of ingest_alert holds whatever runs at the same time, fails or is
\* delivered again: no row is created twice or overwritten, and no delivery is
\* recorded for an object that is not stored.
KeepsGate == Gate!GateSpec

\* A well-formed message of a broker that redelivers is never forgotten: until
\* it is credited, the broker still has it or a consumer works on it.
NothingForgotten ==
    \A m \in Messages :
        BrokerOf(m) \in Acking /\ Storable(m) =>
            m \in inbox \/ InHand(m) \/ Delivery(m) \in credited

\* What a consumer holds is one message of its broker that it has not dropped,
\* and an object about to be credited is stored: with NothingForgotten, the
\* inductive invariant.
HandsAreFull ==
    \A w \in Consumers :
        /\ cpc[w] = "idle" <=> msg[w] = NoMessage
        /\ cpc[w] # "idle" => msg[w] \in Messages /\ BrokerOf(msg[w]) = Reads[w]
        /\ cpc[w] \in {"get", "create", "deliver"} => msg[w] \notin Malformed
        /\ cpc[w] = "deliver" => origin[ObjectOf(msg[w])] # NoMessage

\* In the end each is credited.
MessagesAreCredited ==
    \A m \in Messages :
        BrokerOf(m) \in Acking /\ Storable(m) => <>(Delivery(m) \in credited)
=============================================================================
