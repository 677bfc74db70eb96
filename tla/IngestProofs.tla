---------------------------- MODULE IngestProofs ----------------------------
(***************************************************************************)
(* Proofs about Ingest: the gate is kept, and a broker that redelivers has *)
(* no well-formed message forgotten, whatever the consumers, the messages  *)
(* and the faults.                                                         *)
(***************************************************************************)
EXTENDS PipelineDetail, TLAPS

IngestInv == IngestTyped /\ HandsAreFull /\ NothingForgotten

\* The value that stands for no message is not a message.
LEMMA NoMessageIsNone == NoMessage \notin Messages
  BY DEF NoMessage, Messages, Gate!NoMessage, Gate!Messages

\* What the parts of a message are.
LEMMA MessageParts ==
  ASSUME NEW m \in Messages
  PROVE  /\ ObjectOf(m) \in Objects
         /\ BrokerOf(m) \in Brokers
         /\ Delivery(m) \in Objects \X Brokers
  BY DEF Messages, ObjectOf, BrokerOf, Delivery, Gate!Messages, Gate!ObjectOf,
         Gate!BrokerOf, Gate!Delivery

LEMMA InitInv == IngestInit => IngestInv
  BY NoMessageIsNone, IngestAssumption
  DEF IngestInit, IngestInv, IngestTyped, HandsAreFull, NothingForgotten, ConsumerPC,
      Gate!GateInit, NoMessage, Messages

\* A consumer that finishes its message is idle and holds nothing; the others
\* are as they were.
LEMMA FinishHands ==
  ASSUME IngestTyped, HandsAreFull, NEW w \in Consumers, Finish(w),
         \A o \in Objects : origin[o] # NoMessage => origin'[o] # NoMessage
  PROVE  HandsAreFull'
  BY NoMessageIsNone, MessageParts DEF IngestTyped, HandsAreFull, Finish, Goto, ConsumerPC

\* A consumer may finish a message that is back in the inbox, credited, or one
\* nobody has to remember.
LEMMA FinishForgetsNothing ==
  ASSUME IngestTyped, NothingForgotten, NEW w \in Consumers, Finish(w),
         inbox \subseteq inbox', credited \subseteq credited',
         \/ msg[w] \in inbox'
         \/ Delivery(msg[w]) \in credited'
         \/ msg[w] \in Malformed
         \/ msg[w] \in Messages /\ BrokerOf(msg[w]) \notin Acking
  PROVE  NothingForgotten'
<1> SUFFICES ASSUME NEW m \in Messages, BrokerOf(m) \in Acking, Storable(m)
             PROVE  m \in inbox' \/ InHand(m)' \/ Delivery(m) \in credited'
  BY DEF NothingForgotten, Storable, BrokerOf, Delivery, Gate!BrokerOf, Gate!Delivery
<1>1. m \in inbox \/ InHand(m) \/ Delivery(m) \in credited
  BY DEF NothingForgotten
<1>2. CASE InHand(m) /\ msg[w] # m
  BY <1>2 DEF InHand, Finish, IngestTyped
<1>3. CASE InHand(m) /\ msg[w] = m
  BY <1>3 DEF Storable
<1> QED  BY <1>1, <1>2, <1>3

LEMMA StepInv == IngestInv /\ [IngestNext]_ingestVars => IngestInv'
<1> SUFFICES ASSUME IngestInv, [IngestNext]_ingestVars PROVE IngestInv'
  OBVIOUS
<1> USE DEF IngestInv
<1>u. CASE UNCHANGED ingestVars
  BY <1>u DEF ingestVars, tables, IngestTyped, HandsAreFull, NothingForgotten, InHand
<1>p. CASE \E w \in Consumers : PollNothing(w)
  BY <1>p, <1>u DEF PollNothing
<1>1. ASSUME NEW w \in Consumers, Take(w) PROVE IngestInv'
  <2>1. PICK m \in inbox : /\ BrokerOf(m) = Reads[w]
                           /\ inbox' = inbox \ {m}
                           /\ msg' = [msg EXCEPT ![w] = m]
    BY <1>1 DEF Take
  <2>2. IngestTyped'
    BY <1>1, <2>1 DEF Take, Goto, IngestTyped, ConsumerPC, tables
  <2>3. HandsAreFull'
    BY <1>1, <2>1, NoMessageIsNone DEF Take, Goto, IngestTyped, HandsAreFull, tables
  <2>4. NothingForgotten'
    BY <1>1, <2>1, NoMessageIsNone
    DEF Take, IngestTyped, HandsAreFull, NothingForgotten, InHand, tables
  <2> QED  BY <2>2, <2>3, <2>4
<1>2. ASSUME NEW w \in Consumers, Normalize(w) PROVE IngestInv'
  <2>1. CASE msg[w] \in Malformed
    <3>1. Finish(w) /\ UNCHANGED <<inbox, origin, credited, faults>>
      BY <1>2, <2>1 DEF Normalize, tables
    <3>2. IngestTyped'
      BY <3>1 DEF Finish, Goto, IngestTyped, ConsumerPC
    <3> QED  BY <2>1, <3>1, <3>2, FinishHands, FinishForgetsNothing
  <2>2. CASE msg[w] \notin Malformed
    BY <1>2, <2>2
    DEF Normalize, Goto, IngestTyped, HandsAreFull, NothingForgotten, InHand, ConsumerPC, tables
  <2> QED  BY <2>1, <2>2
<1>3. ASSUME NEW w \in Consumers, Get(w) PROVE IngestInv'
  BY <1>3, MessageParts
  DEF Get, Goto, IngestTyped, HandsAreFull, NothingForgotten, InHand, ConsumerPC, tables
<1>4. ASSUME NEW w \in Consumers, Create(w) PROVE IngestInv'
  <2>1. /\ msg[w] \in Messages
        /\ ObjectOf(msg[w]) \in Objects
        /\ msg[w] # NoMessage
    BY <1>4, MessageParts, NoMessageIsNone DEF Create, HandsAreFull
  <2>2. IngestTyped'
    BY <1>4, <2>1 DEF Create, FirstSeen, Goto, IngestTyped, ConsumerPC
  <2>3. /\ origin'[ObjectOf(msg[w])] # NoMessage
        /\ \A o \in Objects : origin[o] # NoMessage => origin'[o] # NoMessage
    BY <1>4, <2>1 DEF Create, FirstSeen, IngestTyped
  <2>4. HandsAreFull'
    BY <1>4, <2>1, <2>3, MessageParts DEF Create, Goto, IngestTyped, HandsAreFull
  <2>5. NothingForgotten'
    BY <1>4 DEF Create, NothingForgotten, InHand
  <2> QED  BY <2>2, <2>4, <2>5
<1>5. ASSUME NEW w \in Consumers, Deliver(w) PROVE IngestInv'
  <2>1. msg[w] \in Messages /\ Delivery(msg[w]) \in Objects \X Brokers
    BY <1>5, MessageParts DEF Deliver, HandsAreFull
  <2>2. IngestTyped'
    BY <1>5, <2>1 DEF Deliver, Finish, Goto, IngestTyped, ConsumerPC
  <2>3. HandsAreFull'
    BY <1>5, FinishHands DEF Deliver
  <2>4. NothingForgotten'
    BY <1>5, FinishForgetsNothing DEF Deliver
  <2> QED  BY <2>2, <2>3, <2>4
<1>6. ASSUME NEW w \in Consumers, cpc[w] # "idle", inbox' = OnError(w), Finish(w),
             UNCHANGED tables, faults' \in 0 .. MaxFaults
      PROVE  IngestInv'
  <2>1. msg[w] \in Messages /\ BrokerOf(msg[w]) = Reads[w]
    BY <1>6 DEF HandsAreFull
  <2>2. IngestTyped'
    BY <1>6, <2>1 DEF OnError, Finish, Goto, IngestTyped, ConsumerPC, tables
  <2>3. HandsAreFull'
    BY <1>6, FinishHands DEF tables
  <2>4. NothingForgotten'
    <3>1. CASE Reads[w] \in Acking
      BY <1>6, <3>1, FinishForgetsNothing DEF OnError, tables
    <3>2. CASE Reads[w] \notin Acking
      BY <1>6, <2>1, <3>2, FinishForgetsNothing DEF OnError, tables
    <3> QED  BY <3>1, <3>2
  <2> QED  BY <2>2, <2>3, <2>4
<1>7. ASSUME NEW w \in Consumers, DatabaseError(w) PROVE IngestInv'
  BY <1>6, <1>7, IngestAssumption DEF DatabaseError, Fault, IngestTyped
<1>8. ASSUME NEW w \in Consumers, Refused(w) PROVE IngestInv'
  BY <1>6, <1>8 DEF Refused, IngestTyped
<1>9. ASSUME NEW w \in Consumers, Die(w) PROVE IngestInv'
  <2>1. msg[w] \in Messages /\ BrokerOf(msg[w]) = Reads[w]
    BY <1>9 DEF Die, HandsAreFull
  <2>2. IngestTyped'
    BY <1>9, <2>1, IngestAssumption DEF Die, Fault, Finish, Goto, IngestTyped, ConsumerPC, tables
  <2>3. HandsAreFull'
    BY <1>9, FinishHands DEF Die, tables
  <2>4. NothingForgotten'
    BY <1>9, <2>1, FinishForgetsNothing DEF Die, tables
  <2> QED  BY <2>2, <2>3, <2>4
<1>10. ASSUME NEW m \in Messages, Duplicate(m) PROVE IngestInv'
  BY <1>10, IngestAssumption
  DEF Duplicate, Fault, IngestTyped, HandsAreFull, NothingForgotten, InHand, tables
<1> QED
  BY <1>u, <1>p, <1>1, <1>2, <1>3, <1>4, <1>5, <1>7, <1>8, <1>9, <1>10 DEF IngestNext, Step

\* The composition adds nothing to what ingest does.
LEMMA IngestFollowed == Spec => IngestSpec
<1>1. Init => IngestInit
  BY DEF Init
<1>2. [Next]_detailVars => [IngestNext]_ingestVars
  BY DEF Next, IngestPart, CrossmatchPart, detailVars
<1> QED  BY <1>1, <1>2, PTL DEF Spec, IngestSpec

\* A well-formed message of a broker that redelivers is in the inbox, in the
\* hands of a consumer, or credited (pittgoogle/consumer.py).
THEOREM NoMessageLost == Spec => []NothingForgotten
<1>1. IngestInv => NothingForgotten
  BY DEF IngestInv
<1> QED  BY InitInv, StepInv, <1>1, IngestFollowed, PTL DEF IngestSpec

\* Ingest keeps the gate: rows are created once and never overwritten, and
\* deliveries are recorded once, for stored objects (brokers/__init__.py).
THEOREM GateIsKept == Spec => KeepsGate
<1>1. IngestInit => Gate!GateInit
  BY DEF IngestInit
<1>2. IngestInv /\ [IngestNext]_ingestVars => [Gate!GateNext]_(Gate!gateVars)
  <2> SUFFICES ASSUME IngestInv, [IngestNext]_ingestVars
               PROVE  [Gate!GateNext]_(Gate!gateVars)
    OBVIOUS
  <2>u. CASE UNCHANGED tables
    BY <2>u DEF tables, Gate!gateVars
  <2>1. ASSUME NEW w \in Consumers, Create(w) PROVE [Gate!GateNext]_(Gate!gateVars)
    <3>1. msg[w] \in Messages
      BY <2>1 DEF Create, IngestInv, HandsAreFull
    <3>2. CASE origin[ObjectOf(msg[w])] = NoMessage
      <4>1. Gate!Store(msg[w])
        BY <2>1, <3>2 DEF Create, FirstSeen, Gate!Store, ObjectOf, NoMessage
      <4> QED  BY <3>1, <4>1 DEF Gate!GateNext, Messages
    <3>3. CASE origin[ObjectOf(msg[w])] # NoMessage
      BY <2>1, <3>3 DEF Create, FirstSeen, Gate!gateVars
    <3> QED  BY <3>2, <3>3
  <2>2. ASSUME NEW w \in Consumers, Deliver(w) PROVE [Gate!GateNext]_(Gate!gateVars)
    <3>1. msg[w] \in Messages /\ origin[ObjectOf(msg[w])] # NoMessage
      BY <2>2 DEF Deliver, IngestInv, HandsAreFull
    <3>2. CASE Delivery(msg[w]) \in credited
      BY <2>2, <3>2 DEF Deliver, Gate!gateVars
    <3>3. CASE Delivery(msg[w]) \notin credited
      <4>1. Gate!Credit(msg[w])
        BY <2>2, <3>1, <3>3 DEF Deliver, Gate!Credit, Delivery, ObjectOf, NoMessage
      <4> QED  BY <3>1, <4>1 DEF Gate!GateNext, Messages
    <3> QED  BY <3>2, <3>3
  <2> QED
    BY <2>u, <2>1, <2>2
    DEF IngestNext, Step, PollNothing, Take, Normalize, Get, Refused, DatabaseError, Die,
        Duplicate, ingestVars, tables
<1> QED  BY InitInv, StepInv, <1>1, <1>2, IngestFollowed, PTL DEF IngestSpec, KeepsGate, Gate!GateSpec
=============================================================================
