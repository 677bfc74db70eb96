----------------------------- MODULE IngestGate -----------------------------
(***************************************************************************)
(* What ingest_alert promises (crossmatch/brokers/__init__.py): an object  *)
(* is stored once, with the values of the message that came first, and     *)
(* each broker is credited once with having delivered it.                  *)
(***************************************************************************)
CONSTANTS
    Objects,    \* lsst_diaObject_diaObjectId values
    Brokers,    \* broker names
    Copies      \* bound: names of the messages one broker sends about one object

VARIABLES
    origin,     \* the message whose values the alert row carries
    credited    \* AlertDelivery rows, as <<object, broker>>

gateVars == <<origin, credited>>

\* The k-th message of a broker about an object.  Its values (position, event
\* time, reliability, payload) are its own, so the message stands for them.
Messages == Objects \X Brokers \X Copies

NoMessage == <<>>

ObjectOf(m) == m[1]
BrokerOf(m) == m[2]
Delivery(m) == <<m[1], m[2]>>

GateInit ==
    /\ origin = [o \in Objects |-> NoMessage]
    /\ credited = {}

Store(m) ==
    /\ origin[ObjectOf(m)] = NoMessage
    /\ origin' = [origin EXCEPT ![ObjectOf(m)] = m]
    /\ UNCHANGED credited

\* A broker is credited for an object that is stored, and only once.
Credit(m) ==
    /\ origin[ObjectOf(m)] # NoMessage
    /\ Delivery(m) \notin credited
    /\ credited' = credited \cup {Delivery(m)}
    /\ UNCHANGED origin

GateNext == \E m \in Messages : Store(m) \/ Credit(m)

GateSpec == GateInit /\ [][GateNext]_gateVars
=============================================================================
