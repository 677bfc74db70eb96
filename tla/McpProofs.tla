----------------------------- MODULE McpProofs -----------------------------
(***************************************************************************)
(* Proofs about the chat endpoint: what the guard of a request may answer, *)
(* what a call leaves behind in the limiter, how many calls run at once,   *)
(* and how many are let through over a stretch of time.                    *)
(***************************************************************************)
EXTENDS McpServer, FiniteSetTheorems, WellFoundedInduction, TLAPS

Inert == {"idle", "time", "count", "previous", "uncount", "done", "killed"}

\* An answer is decided once, by comparing the clock with the deadline after the
\* statement that decides it has ended.
RunInv ==
    /\ clock \in Int
    /\ DOMAIN sent \subseteq Calls
    /\ DOMAIN guard = Calls
    /\ \A c \in Calls :
          /\ DOMAIN guard[c] = DOMAIN Idle
          /\ guard[c].deadline \in Int /\ guard[c].at \in Int
          /\ guard[c].pc \in {"ended", "raised"} => guard[c].at <= clock
          /\ guard[c].pc # "done" => guard[c].outcome = "none"
          /\ guard[c].pc = "done" => guard[c].outcome \in Outcomes \ {"none"}
          /\ guard[c].pc \notin {"raised", "done"} => guard[c].error = "none"
          /\ guard[c].outcome = "ok" =>
                guard[c].error = "none" /\ guard[c].at < guard[c].deadline
          /\ guard[c].outcome = "interface_error" => guard[c].error = "interface"
          /\ guard[c].outcome = "service_unavailable" =>
                guard[c].error = "connection" /\ guard[c].at < guard[c].deadline

\* A step of the guarded run of one request.
LEMMA GuardStepKeeps ==
    ASSUME NEW c \in Calls, RunInv, GuardStep(c), UNCHANGED sent
    PROVE  RunInv'
<1> USE DEF RunInv, Idle
<1>0. ASSUME NEW e, Raise(c, e), guard[c].pc # "done"
      PROVE  RunInv'
  BY <1>0 DEF GuardStep, Raise
<1>1. CASE BeginTransaction(c)
  <2>1. CASE guard' = [guard EXCEPT ![c].pc = "work", ![c].left = TimeoutOf(Remaining(c))]
    BY <1>1, <2>1 DEF GuardStep, BeginTransaction
  <2>2. CASE \E e \in DatabaseErrors : Raise(c, e)
    BY <1>1, <2>2, <1>0 DEF BeginTransaction
  <2>3. QED
    BY <1>1, <2>1, <2>2 DEF BeginTransaction
<1>2. CASE EnterPhase(c)
  <2>1. ASSUME NEW e, Raise(c, e) PROVE RunInv'
    BY <1>0, <1>2, <2>1 DEF EnterPhase
  <2>2. ASSUME NEW t, guard' = [guard EXCEPT ![c].pc = "phase", ![c].left = t]
        PROVE  RunInv'
    BY <1>2, <2>2 DEF GuardStep, EnterPhase
  <2>3. QED
    BY <1>2, <2>1, <2>2 DEF EnterPhase
<1>3. CASE StartStatement(c)
  BY <1>3 DEF GuardStep, StartStatement
<1>4. CASE EndStatement(c)
  <2>1. CASE GoTo(c, "phase")
    BY <1>4, <2>1 DEF GuardStep, EndStatement, GoTo
  <2>2. CASE \E e \in DatabaseErrors \cup {"canceled"} : Raise(c, e)
    BY <1>4, <2>2, <1>0 DEF EndStatement
  <2>3. QED
    BY <1>4, <2>1, <2>2 DEF EndStatement
<1>5. CASE LeavePhase(c)
  BY <1>5 DEF GuardStep, LeavePhase
<1>6. CASE CheckInLoop(c) \/ RefuseRequest(c)
  BY <1>6 DEF GuardStep, CheckInLoop, RefuseRequest, Raise
<1>7. CASE EndTransaction(c)
  <2>1. CASE \E e \in Lost : Raise(c, e)
    BY <1>0, <1>7, <2>1 DEF EndTransaction
  <2>2. CASE guard' = [guard EXCEPT ![c].pc = "ended", ![c].at = clock]
    BY <1>7, <2>2 DEF GuardStep, EndTransaction
  <2>3. QED
    BY <1>7, <2>1, <2>2 DEF EndTransaction
<1>8. CASE FinalCheck(c)
  BY <1>8 DEF GuardStep, FinalCheck, FinalOutcome, Expired, Remaining, Outcomes
<1>9. CASE Classify(c)
  BY <1>9 DEF GuardStep, Classify, Classified, Expired, Remaining, Outcomes
<1>10. QED
  BY <1>1, <1>2, <1>3, <1>4, <1>5, <1>6, <1>7, <1>8, <1>9 DEF GuardStep

LEMMA RunInvInit == Init => RunInv
BY McpAssumption DEF Init, RunInv, Idle

LEMMA RunInvNext ==
    ASSUME RunInv, [Next]_mcpVars
    PROVE  RunInv'
<1>1. CASE Tick /\ UNCHANGED <<guard, admissionVars, scene, sent, issued>>
  BY <1>1 DEF Tick, RunInv
<1>2. ASSUME NEW c \in Calls, Receive(c)
      PROVE  RunInv'
  <2>1. /\ clock' = clock /\ sent' = sent
        /\ \/ guard' = guard
           \/ guard' = [guard EXCEPT ![c] = Made(PlanOf[sent[c].path])]
           \/ guard' = [guard EXCEPT ![c] = Made(PlanOf[sent[c].tool])]
    BY <1>2 DEF Receive, CallTool, StartGuard
  <2>2. CASE guard' = guard
    BY <2>1, <2>2 DEF RunInv
  <2>3. ASSUME NEW plan, guard' = [guard EXCEPT ![c] = Made(plan)]
        PROVE  RunInv'
    <3>1. /\ DOMAIN Made(plan) = DOMAIN Idle
          /\ Made(plan).deadline = clock + Budget /\ Made(plan).at = 0
          /\ Made(plan).pc = "made" /\ Made(plan).outcome = "none"
          /\ Made(plan).error = "none"
      BY DEF Made, Idle
    <3>2. \A d \in Calls : guard'[d] = IF d = c THEN Made(plan) ELSE guard[d]
      BY <2>3 DEF RunInv
    <3>3. DOMAIN guard' = Calls
      BY <2>3 DEF RunInv
    <3>4. clock + Budget \in Int
      BY GuardAssumption DEF RunInv
    <3>5. guard'[c] = Made(plan) /\ \A d \in Calls \ {c} : guard'[d] = guard[d]
      BY <3>2
    <3>6. /\ DOMAIN guard'[c] = DOMAIN Idle /\ guard'[c].deadline \in Int /\ guard'[c].at \in Int
          /\ guard'[c].pc = "made" /\ guard'[c].outcome = "none" /\ guard'[c].error = "none"
      BY <3>1, <3>4, <3>5
    <3>7. clock' = clock /\ sent' = sent
      BY <2>1
    <3>8. ASSUME NEW d \in Calls
          PROVE  /\ DOMAIN guard'[d] = DOMAIN Idle
                 /\ guard'[d].deadline \in Int /\ guard'[d].at \in Int
                 /\ guard'[d].pc \in {"ended", "raised"} => guard'[d].at <= clock'
                 /\ guard'[d].pc # "done" => guard'[d].outcome = "none"
                 /\ guard'[d].pc = "done" => guard'[d].outcome \in Outcomes \ {"none"}
                 /\ guard'[d].pc \notin {"raised", "done"} => guard'[d].error = "none"
                 /\ guard'[d].outcome = "ok" =>
                       guard'[d].error = "none" /\ guard'[d].at < guard'[d].deadline
                 /\ guard'[d].outcome = "interface_error" => guard'[d].error = "interface"
                 /\ guard'[d].outcome = "service_unavailable" =>
                       guard'[d].error = "connection" /\ guard'[d].at < guard'[d].deadline
      <4>1. CASE d = c
        BY <3>6, <4>1
      <4>2. CASE d # c
        BY <3>5, <3>7, <4>2 DEF RunInv
      <4>3. QED
        BY <4>1, <4>2
    <3>9. QED
      BY <3>3, <3>7, <3>8 DEF RunInv
  <2>4. QED
    BY <2>1, <2>2, <2>3
<1>3. ASSUME NEW c \in Calls, Return(c) \/ Kill(c)
      PROVE  RunInv'
  <2>1. clock' = clock /\ sent' = sent /\ guard' = [guard EXCEPT ![c] = Idle]
    BY <1>3 DEF Return, Kill
  <2>2. QED
    BY <2>1 DEF RunInv, Idle
<1>4. ASSUME NEW c \in Calls, UNCHANGED <<guardVars, sent>>
      PROVE  RunInv'
  BY <1>4 DEF RunInv, guardVars
<1>5. ASSUME NEW c \in Calls, GuardStep(c), UNCHANGED sent
      PROVE  RunInv'
  BY <1>5, GuardStepKeeps
<1>6. CASE UNCHANGED mcpVars
  BY <1>6 DEF RunInv, mcpVars, guardVars
<1>7. QED
  BY <1>1, <1>2, <1>3, <1>4, <1>5, <1>6 DEF Next

LEMMA RunInvHolds == Spec => []RunInv
BY RunInvInit, RunInvNext, PTL DEF Spec

\* A result leaves the service only if the transaction that computed it ended
\* within the request's budget (api/guard.py, run_guarded).
THEOREM AnswersAreInTime == Spec => []OkMeansInTime
<1>1. RunInv => OkMeansInTime
  BY DEF RunInv, OkMeansInTime
<1>2. QED
  BY <1>1, RunInvHolds, PTL

\* A request that overran its budget is never reported as an outage, and so is
\* never offered for a retry (api/guard.py, run_guarded).
THEOREM OutagesAreInTime == Spec => []OutageMeansInTime
<1>1. RunInv => OutageMeansInTime
  BY DEF RunInv, OutageMeansInTime
<1>2. QED
  BY <1>1, RunInvHolds, PTL

\* The status view and the describe tool say that the database is up only if its
\* checks answered in time, and short of an InterfaceError they always answer
\* (api/discovery.py, api/views.py).
THEOREM StatusStaysHonest == Spec => []StatusIsHonest
<1>1. RunInv => StatusIsHonest
  <2> SUFFICES ASSUME RunInv, NEW c \in DOMAIN sent, guard[c].pc = "done", TellsStatus(sent[c])
               PROVE  /\ guard[c].error # "interface" =>
                            ReportOf(sent[c], guard[c].outcome) \in {"ok", "database_unavailable"}
                      /\ ReportOf(sent[c], guard[c].outcome) = "ok" =>
                            guard[c].error = "none" /\ guard[c].at < guard[c].deadline
    BY DEF StatusIsHonest
  <2>1. c \in Calls
    BY DEF RunInv
  <2>2. QED
    BY <2>1 DEF RunInv, ReportOf
<1>2. QED
  BY <1>1, RunInvHolds, PTL

Claims == [slot : Slots, until : Int]

\* A call on its way through the limits.
CallShape(c) ==
    /\ DOMAIN call[c] = DOMAIN NoCall
    /\ call[c].claimed \in Seq(Claims)
    /\ call[c].then \in {"run", "done"}
    /\ call[c].i \in Nat
    /\ call[c].pc = "idle" => call[c].lost = FALSE
    /\ call[c].pc \in {"time", "count", "previous", "uncount"} => call[c].i = 0
    /\ call[c].pc = "keyslot" => call[c].i < PerKey
    /\ call[c].pc = "slot" => call[c].i < MaxConcurrent
    /\ call[c].pc \in {"time", "count", "previous", "uncount", "keyslot", "slot"} =>
          call[c].key \in Keys
    /\ call[c].pc = "delete" => call[c].claimed # <<>>
    /\ call[c].pc \in Inert => call[c].claimed = <<>>

\* A slot is in the hands of a call only while the call still has it to release.
Returnable(c) ==
    \A s \in Slots :
        slots[s].token = c /\ Held(s) /\ ~call[c].lost /\ call[c].pc # "killed" =>
            \E j \in DOMAIN call[c].claimed : call[c].claimed[j].slot = s

LimitInv ==
    /\ clock \in Int
    /\ DOMAIN sent \subseteq Calls
    /\ \A c \in DOMAIN sent :
          /\ sent[c].ip = "direct" => <<"ip", sent[c].from>> \in Keys
          /\ sent[c].ip # "direct" => <<"provider", "range">> \in Keys
          /\ sent[c].ip # "direct" /\ sent[c].session \in Calls =>
                <<"session", sent[c].session>> \in Keys
    /\ DOMAIN call = Calls /\ DOMAIN slots = Slots
    /\ \A s \in Slots : slots[s].until \in Int
    /\ \A c \in Calls : CallShape(c) /\ Returnable(c)

LEMMA LimitInvInit == Init => LimitInv
<1> SUFFICES ASSUME Init PROVE LimitInv
  OBVIOUS
<1>1. \A c \in Calls : CallShape(c)
  <2> SUFFICES ASSUME NEW c \in Calls PROVE CallShape(c)
    OBVIOUS
  <2>1. call[c] = NoCall
    BY DEF Init
  <2>2. /\ NoCall.pc = "idle" /\ NoCall.claimed = <<>> /\ NoCall.then = "done"
        /\ NoCall.i = 0 /\ NoCall.lost = FALSE
    BY DEF NoCall
  <2>3. <<>> \in Seq(Claims)
    OBVIOUS
  <2>4. QED
    BY <2>1, <2>2, <2>3 DEF CallShape, Inert
<1>2. \A c \in Calls : Returnable(c)
  BY AdmissionAssumption DEF Init, Returnable, Free
<1>3. /\ DOMAIN sent \subseteq Calls
      /\ \A c \in DOMAIN sent :
          /\ sent[c].ip = "direct" => <<"ip", sent[c].from>> \in Keys
          /\ sent[c].ip # "direct" => <<"provider", "range">> \in Keys
          /\ sent[c].ip # "direct" /\ sent[c].session \in Calls =>
                <<"session", sent[c].session>> \in Keys
  BY McpAssumption DEF Init
<1>4. clock \in Int /\ DOMAIN call = Calls /\ DOMAIN slots = Slots
  BY McpAssumption DEF Init
<1>5. \A s \in Slots : slots[s].until \in Int
  BY DEF Init, Free
<1>6. QED
  BY <1>1, <1>2, <1>3, <1>4, <1>5 DEF LimitInv

\* A step of one call leaves the shape of the others alone.
LEMMA OthersKeepShape ==
    ASSUME NEW c \in Calls, NEW d \in Calls \ {c}, NEW r,
           call' = [call EXCEPT ![c] = r], DOMAIN call = Calls, CallShape(d)
    PROVE  CallShape(d)'
<1>1. call'[d] = call[d]
  OBVIOUS
<1>2. QED
  BY <1>1 DEF CallShape, Inert

\* The slot a call tries next exists.
LEMMA CandidateIsSlot ==
    ASSUME NEW c \in Calls, LimitInv, call[c].pc \in {"keyslot", "slot"}
    PROVE  Candidate(c) \in Slots
<1>1. CallShape(c)
  BY DEF LimitInv
<1>2. CASE call[c].pc = "keyslot"
  <2>1. call[c].key \in Keys /\ call[c].i \in 0 .. PerKey - 1 /\ call[c].key # Cluster
    BY <1>1, <1>2, AdmissionAssumption DEF CallShape, Cluster
  <2>2. Candidate(c) \in SlotsOf(call[c].key)
    BY <1>2, <2>1 DEF Candidate, SlotsOf
  <2>3. QED
    BY <2>1, <2>2 DEF Slots, SlotSets
<1>3. CASE call[c].pc = "slot"
  <2>1. call[c].i \in 0 .. MaxConcurrent - 1
    BY <1>1, <1>3, AdmissionAssumption DEF CallShape
  <2>2. Candidate(c) \in SlotsOf(Cluster)
    BY <1>3, <2>1 DEF Candidate, SlotsOf
  <2>3. QED
    BY <2>2 DEF Slots, SlotSets
<1>4. QED
  BY <1>2, <1>3

\* What one step of a call must show for the whole invariant to last.
LEMMA LimitInvFrame ==
    ASSUME LimitInv, NEW c \in Calls, NEW r,
           call' = [call EXCEPT ![c] = r],
           clock' = clock, sent' = sent, DOMAIN slots' = DOMAIN slots,
           \A s \in Slots : slots'[s].until \in Int,
           \A d \in Calls \ {c}, s \in Slots :
               slots'[s].token = d /\ slots'[s].until > clock =>
                   slots[s].token = d /\ slots[s].until > clock,
           CallShape(c)', Returnable(c)'
    PROVE  LimitInv'
<1>1. \A d \in Calls \ {c} : call'[d] = call[d]
  BY DEF LimitInv
<1>2. \A d \in Calls : CallShape(d)'
  BY OthersKeepShape DEF LimitInv
<1>3. ASSUME NEW d \in Calls \ {c}
      PROVE  Returnable(d)'
  BY <1>1 DEF LimitInv, Returnable, Held
<1>4. /\ clock' \in Int /\ DOMAIN sent' \subseteq Calls
      /\ DOMAIN call' = Calls /\ DOMAIN slots' = Slots
  BY DEF LimitInv
<1>5. QED
  BY <1>2, <1>3, <1>4 DEF LimitInv

\* The steps that touch neither the slots nor what a call has claimed.
LEMMA CountingKeeps ==
    ASSUME LimitInv, NEW c \in Calls,
           ReadTime(c) \/ Count(c) \/ ReadPrevious(c) \/ Uncount(c), UNCHANGED <<clock, sent>>
    PROVE  LimitInv'
<1> USE DEF LimitInv
<1>1. /\ call' = [call EXCEPT ![c] = call'[c]]
      /\ DOMAIN call'[c] = DOMAIN call[c]
      /\ call'[c].claimed = call[c].claimed /\ call'[c].then = call[c].then
      /\ call'[c].i = call[c].i /\ call'[c].lost = call[c].lost /\ call'[c].key = call[c].key
      /\ call[c].pc \in {"time", "count", "previous", "uncount"}
      /\ call'[c].pc \in {"count", "previous", "uncount", "keyslot", "done"}
      /\ slots' = slots
  <2> USE DEF CallShape, NoCall
  <2>1. CASE ReadTime(c)
    BY <2>1 DEF ReadTime
  <2>2. CASE Count(c)
    BY <2>2 DEF Count
  <2>3. CASE ReadPrevious(c)
    BY <2>3 DEF ReadPrevious
  <2>4. CASE Uncount(c)
    BY <2>4 DEF Uncount
  <2>5. QED
    BY <2>1, <2>2, <2>3, <2>4
<1>2. CallShape(c)'
  BY <1>1, AdmissionAssumption DEF CallShape, Inert
<1>3. Returnable(c)'
  BY <1>1 DEF Returnable, Held
<1>4. QED
  BY <1>1, <1>2, <1>3, LimitInvFrame

LEMMA ClaimKeeps ==
    ASSUME LimitInv, NEW c \in Calls, ClaimSlot(c), UNCHANGED <<clock, sent>>
    PROVE  LimitInv'
<1> USE DEF LimitInv
<1>1. Candidate(c) \in Slots /\ clock + Lease \in Int /\ CallShape(c) /\ Returnable(c)
  <2>1. Lease \in Int
    BY GuardAssumption, AdmissionAssumption DEF Lease, CeilDiv
  <2>2. QED
    BY <2>1, CandidateIsSlot DEF ClaimSlot
<1>2. CASE ~Held(Candidate(c))
  <2> DEFINE claim == [slot |-> Candidate(c), until |-> clock + Lease]
  <2>1. /\ call' = [call EXCEPT ![c] = call'[c]]
        /\ DOMAIN call'[c] = DOMAIN call[c]
        /\ call'[c].claimed = Append(call[c].claimed, claim)
        /\ call'[c].then = call[c].then /\ call'[c].lost = call[c].lost
        /\ call'[c].key = call[c].key /\ call'[c].i = 0
        /\ (call[c].pc = "keyslot" /\ call'[c].pc = "slot") \/ call'[c].pc = "run"
    BY <1>2 DEF ClaimSlot, CallShape, NoCall
  <2>2. slots' = [slots EXCEPT ![Candidate(c)] = [token |-> c, until |-> clock + Lease]]
    BY <1>2 DEF ClaimSlot, Taken
  <2>3. claim \in Claims
    BY <1>1 DEF Claims
  <2> HIDE DEF claim
  <2>4. /\ call'[c].claimed \in Seq(Claims)
        /\ Len(call'[c].claimed) = Len(call[c].claimed) + 1
        /\ call'[c].claimed[Len(call'[c].claimed)] = claim
        /\ \A j \in DOMAIN call[c].claimed :
               j \in DOMAIN call'[c].claimed /\ call'[c].claimed[j] = call[c].claimed[j]
        /\ Len(call'[c].claimed) \in DOMAIN call'[c].claimed
    BY <1>1, <2>1, <2>3 DEF CallShape
  <2>5. CallShape(c)'
    <3>1. call'[c].pc \in {"slot", "run"} /\ call'[c].i = 0 /\ 0 < MaxConcurrent
      BY <2>1, AdmissionAssumption
    <3>2. call'[c].key \in Keys /\ call'[c].then \in {"run", "done"}
      BY <1>1, <2>1 DEF CallShape, ClaimSlot
    <3>3. DOMAIN call'[c] = DOMAIN NoCall /\ call'[c].claimed \in Seq(Claims)
      BY <1>1, <2>1, <2>4 DEF CallShape
    <3>4. call'[c].pc \notin Inert
      BY <3>1 DEF Inert
    <3> QED BY <3>1, <3>2, <3>3, <3>4 DEF CallShape
  <2>6. \A s \in Slots : slots'[s] = IF s = Candidate(c)
                                      THEN [token |-> c, until |-> clock + Lease] ELSE slots[s]
    BY <1>1, <2>2
  <2>7. claim.slot = Candidate(c)
    BY DEF claim
  <2>8. Returnable(c)'
    <3> SUFFICES ASSUME NEW s \in Slots, (slots[s].token = c /\ Held(s) /\ ~call[c].lost)'
                 PROVE  \E j \in DOMAIN call'[c].claimed : call'[c].claimed[j].slot = s
      BY DEF Returnable
    <3>1. CASE s = Candidate(c)
      BY <2>4, <2>7, <3>1
    <3>2. CASE s # Candidate(c)
      <4>1. slots[s].token = c /\ Held(s) /\ ~call[c].lost /\ call[c].pc # "killed"
        BY <2>1, <2>6, <3>2 DEF Held, ClaimSlot
      <4>2. PICK j \in DOMAIN call[c].claimed : call[c].claimed[j].slot = s
        BY <1>1, <4>1 DEF Returnable
      <4>3. QED
        BY <2>4, <4>2
    <3>3. QED
      BY <3>1, <3>2
  <2>9. /\ DOMAIN slots' = DOMAIN slots
        /\ \A s \in Slots : slots'[s].until \in Int
        /\ \A d \in Calls \ {c}, s \in Slots :
               slots'[s].token = d /\ slots'[s].until > clock =>
                   slots[s].token = d /\ slots[s].until > clock
    BY <1>1, <2>2, <2>6
  <2>10. QED
    BY <2>1, <2>5, <2>8, <2>9, LimitInvFrame
<1>3. CASE Held(Candidate(c))
  <2>1. /\ call' = [call EXCEPT ![c] = call'[c]]
        /\ DOMAIN call'[c] = DOMAIN call[c]
        /\ call'[c].claimed = call[c].claimed
        /\ call'[c].then \in {"run", "done"} /\ call'[c].lost = call[c].lost
        /\ call'[c].key = call[c].key /\ call'[c].i \in Nat
        /\ \/ call'[c].pc = "compare"
           \/ ~Exhausted(c) /\ call'[c].pc = call[c].pc /\ call'[c].i = call[c].i + 1
        /\ slots' = slots
    <3>1. CASE Exhausted(c)
      <4>1. call' = [call EXCEPT ![c] = BusyCall(c)] /\ slots' = slots
        BY <1>3, <3>1 DEF ClaimSlot
      <4>2. QED
        BY <1>1, <4>1 DEF CallShape, NoCall, BusyCall
    <3>2. CASE ~Exhausted(c)
      <4>1. call' = [call EXCEPT ![c] = [call[c] EXCEPT !.i = call[c].i + 1]] /\ slots' = slots
        BY <1>3, <3>2 DEF ClaimSlot
      <4>2. QED
        BY <1>1, <3>2, <4>1 DEF CallShape, NoCall
    <3>3. QED
      BY <3>1, <3>2
  <2>2. CallShape(c)'
    <3>1. CASE call'[c].pc = "compare"
      BY <1>1, <2>1, <3>1 DEF CallShape, Inert
    <3>2. CASE call'[c].pc = call[c].pc /\ call[c].pc = "keyslot" /\ ~Exhausted(c)
      <4>1. call'[c].i < PerKey /\ call'[c].pc = "keyslot" /\ call[c].key \in Keys
        BY <1>1, <2>1, <3>2, AdmissionAssumption DEF CallShape, Exhausted
      <4>2. QED
        BY <1>1, <2>1, <4>1 DEF CallShape, Inert
    <3>3. CASE call'[c].pc = call[c].pc /\ call[c].pc = "slot" /\ ~Exhausted(c)
      <4>1. call'[c].i < MaxConcurrent /\ call'[c].pc = "slot" /\ call[c].key \in Keys
        BY <1>1, <2>1, <3>3, AdmissionAssumption DEF CallShape, Exhausted
      <4>2. QED
        BY <1>1, <2>1, <4>1 DEF CallShape, Inert
    <3>4. QED
      BY <2>1, <3>1, <3>2, <3>3 DEF ClaimSlot
  <2>3. Returnable(c)'
    BY <1>1, <2>1 DEF Returnable, Held, ClaimSlot
  <2>4. QED
    BY <2>1, <2>2, <2>3, LimitInvFrame
<1>4. QED
  BY <1>2, <1>3

\* Shortening the list of claims to its tail loses its head only.
LEMMA TailOfClaims ==
    ASSUME NEW q \in Seq(Claims), q # <<>>
    PROVE  /\ Tail(q) \in Seq(Claims)
           /\ Head(q).slot \in Slots
           /\ \A j \in DOMAIN q :
                 q[j].slot = Head(q).slot \/ \E k \in DOMAIN Tail(q) : Tail(q)[k] = q[j]
<1>1. Tail(q) \in Seq(Claims) /\ Head(q) = q[1] /\ q[1] \in Claims /\ Len(Tail(q)) = Len(q) - 1
  OBVIOUS
<1>2. ASSUME NEW j \in DOMAIN q
      PROVE  q[j].slot = Head(q).slot \/ \E k \in DOMAIN Tail(q) : Tail(q)[k] = q[j]
  <2>1. CASE j = 1
    BY <1>1, <2>1
  <2>2. CASE j # 1
    <3>1. j - 1 \in DOMAIN Tail(q)
      BY <1>1, <2>2
    <3>2. Tail(q)[j - 1] = q[j]
      BY <1>1, <2>2
    <3>3. QED
      BY <3>1, <3>2
  <2>3. QED
    BY <2>1, <2>2
<1>3. QED
  BY <1>1, <1>2 DEF Claims

\* A release of the slot at the head: afterwards it is free, or was not held by
\* the call any more.
LEMMA ReleaseKeeps ==
    ASSUME LimitInv, NEW c \in Calls, Compare(c) \/ Delete(c), UNCHANGED <<clock, sent>>
    PROVE  LimitInv'
<1> USE DEF LimitInv
<1>1. CallShape(c) /\ Returnable(c)
  OBVIOUS
<1>2. CASE Compare(c) /\ call[c].claimed = <<>>
  <2>1. /\ call' = [call EXCEPT ![c] = call'[c]] /\ slots' = slots
        /\ DOMAIN call'[c] = DOMAIN call[c]
        /\ call'[c].claimed = <<>> /\ call'[c].then = call[c].then
        /\ call'[c].i = call[c].i /\ call'[c].lost = call[c].lost
        /\ call'[c].pc \in {"run", "done"} /\ call[c].pc = "compare"
    BY <1>1, <1>2 DEF Compare, CallShape, NoCall
  <2>2. CallShape(c)'
    BY <1>1, <1>2, <2>1 DEF CallShape, Inert
  <2>3. Returnable(c)'
    BY <1>1, <1>2, <2>1 DEF Returnable, Held
  <2>4. QED
    BY <2>1, <2>2, <2>3, LimitInvFrame
<1>3. CASE Compare(c) /\ call[c].claimed # <<>> /\ Owns(c, Head(call[c].claimed).slot)
  <2>1. /\ call' = [call EXCEPT ![c] = call'[c]] /\ slots' = slots
        /\ DOMAIN call'[c] = DOMAIN call[c]
        /\ call'[c].claimed = call[c].claimed /\ call'[c].then = call[c].then
        /\ call'[c].i = call[c].i /\ call'[c].lost = call[c].lost
        /\ call'[c].pc = "delete" /\ call[c].pc = "compare"
    BY <1>1, <1>3 DEF Compare, CallShape, NoCall
  <2>2. CallShape(c)'
    BY <1>1, <1>3, <2>1 DEF CallShape, Inert
  <2>3. Returnable(c)'
    BY <1>1, <2>1 DEF Returnable, Held
  <2>4. QED
    BY <2>1, <2>2, <2>3, LimitInvFrame
<1>4. CASE \/ Compare(c) /\ call[c].claimed # <<>> /\ ~Owns(c, Head(call[c].claimed).slot)
           \/ Delete(c)
  <2> DEFINE s0 == Head(call[c].claimed).slot
  <2>1. /\ call' = [call EXCEPT ![c] = call'[c]]
        /\ DOMAIN call'[c] = DOMAIN call[c]
        /\ call'[c].claimed = Tail(call[c].claimed) /\ call'[c].then = call[c].then
        /\ call'[c].i = call[c].i /\ call'[c].lost = call[c].lost
        /\ call'[c].pc = "compare" /\ call[c].pc \in {"compare", "delete"}
        /\ call[c].claimed # <<>>
    <3> USE DEF CallShape, NoCall, Inert
    <3>1. CASE Delete(c)
      BY <1>1, <3>1 DEF Delete
    <3>2. CASE Compare(c) /\ call[c].claimed # <<>> /\ ~Owns(c, Head(call[c].claimed).slot)
      <4>1. call' = [call EXCEPT ![c].claimed = Tail(@)] /\ call[c].pc = "compare"
        BY <3>2 DEF Compare
      <4>2. QED
        BY <1>1, <3>2, <4>1
    <3>3. QED
      BY <1>4, <3>1, <3>2
  <2>2. \/ slots' = slots /\ ~Owns(c, s0)
        \/ slots' = [slots EXCEPT ![s0] = Free]
    BY <1>4 DEF Compare, Delete, Deleted
  <2>3. /\ Tail(call[c].claimed) \in Seq(Claims) /\ s0 \in Slots
        /\ \A j \in DOMAIN call[c].claimed :
              \/ call[c].claimed[j].slot = s0
              \/ \E k \in DOMAIN Tail(call[c].claimed) :
                    Tail(call[c].claimed)[k] = call[c].claimed[j]
    BY <1>1, <2>1, TailOfClaims DEF CallShape
  <2> HIDE DEF s0
  <2>4. CallShape(c)'
    <3>1. call'[c].claimed \in Seq(Claims) /\ call'[c].pc = "compare"
      BY <2>1, <2>3
    <3>2. /\ DOMAIN call'[c] = DOMAIN NoCall
          /\ call'[c].then \in {"run", "done"} /\ call'[c].i \in Nat
      BY <1>1, <2>1 DEF CallShape
    <3>3. QED
      BY <3>1, <3>2 DEF CallShape, Inert
  <2>5. /\ DOMAIN slots' = DOMAIN slots
        /\ \A s \in Slots \ {s0} : slots'[s] = slots[s]
        /\ \/ slots'[s0] = slots[s0] /\ ~Owns(c, s0)
           \/ slots'[s0].token = "none" /\ slots'[s0].until = 0
    BY <2>2, <2>3 DEF Free
  <2>6. Returnable(c)'
    <3> SUFFICES ASSUME NEW s \in Slots, (slots[s].token = c /\ Held(s) /\ ~call[c].lost)'
                 PROVE  \E j \in DOMAIN call'[c].claimed : call'[c].claimed[j].slot = s
      BY DEF Returnable
    <3>1. s # s0 /\ slots[s].token = c /\ Held(s)
      BY <2>5, AdmissionAssumption DEF Held, Owns
    <3>2. PICK j \in DOMAIN call[c].claimed : call[c].claimed[j].slot = s
      BY <1>1, <2>1, <3>1 DEF Returnable
    <3>3. QED
      BY <2>1, <2>3, <3>1, <3>2
  <2>7. /\ \A s \in Slots : slots'[s].until \in Int
        /\ \A d \in Calls \ {c}, s \in Slots :
               slots'[s].token = d /\ slots'[s].until > clock =>
                   slots[s].token = d /\ slots[s].until > clock
    <3>1. ASSUME NEW s \in Slots
          PROVE  /\ slots'[s].until \in Int
                 /\ \A d \in Calls : slots'[s].token = d /\ slots'[s].until > clock =>
                       slots[s].token = d /\ slots[s].until > clock
      <4>1. CASE slots'[s] = slots[s]
        BY <4>1
      <4>2. CASE slots'[s].token = "none" /\ slots'[s].until = 0
        BY <4>2, AdmissionAssumption
      <4>3. QED
        BY <2>5, <4>1, <4>2
    <3>2. QED
      BY <3>1
  <2>8. QED
    BY <2>1, <2>4, <2>5, <2>6, <2>7, LimitInvFrame
<1>5. QED
  BY <1>2, <1>3, <1>4

\* A slot written by a call, or freed, is in no other call's hands.
LEMMA OneSlotWritten ==
    ASSUME LimitInv, NEW c \in Calls, NEW s0 \in Slots, NEW v,
           v.token \in {c, "none"}, v.until \in Int,
           slots' = slots \/ slots' = [slots EXCEPT ![s0] = v]
    PROVE  /\ DOMAIN slots' = DOMAIN slots
           /\ \A s \in Slots : slots'[s].until \in Int
           /\ \A d \in Calls \ {c}, s \in Slots :
                 slots'[s].token = d /\ slots'[s].until > clock =>
                     slots[s].token = d /\ slots[s].until > clock
<1> USE DEF LimitInv
<1>1. DOMAIN slots' = DOMAIN slots /\ \A s \in Slots : slots'[s] = slots[s] \/ slots'[s] = v
  OBVIOUS
<1>2. ASSUME NEW s \in Slots
      PROVE  /\ slots'[s].until \in Int
             /\ \A d \in Calls \ {c} :
                   slots'[s].token = d /\ slots'[s].until > clock =>
                       slots[s].token = d /\ slots[s].until > clock
  <2>1. CASE slots'[s] = slots[s]
    BY <2>1
  <2>2. CASE slots'[s] = v
    BY <2>2, AdmissionAssumption
  <2>3. QED
    BY <1>1, <2>1, <2>2
<1>3. QED
  BY <1>1, <1>2

LEMMA FailureKeeps ==
    ASSUME LimitInv, NEW c \in Calls, CacheFails(c), UNCHANGED <<clock, sent>>
    PROVE  LimitInv'
<1> USE DEF LimitInv
<1>1. CallShape(c) /\ Returnable(c)
  OBVIOUS
<1>2. CASE /\ call[c].pc \in {"count", "previous", "uncount"}
           /\ call' = [call EXCEPT ![c].pc = "keyslot"] /\ slots' = slots
  <2>1. /\ call' = [call EXCEPT ![c] = call'[c]]
        /\ DOMAIN call'[c] = DOMAIN call[c]
        /\ call'[c].claimed = call[c].claimed /\ call'[c].then = call[c].then
        /\ call'[c].i = call[c].i /\ call'[c].lost = call[c].lost
        /\ call'[c].key = call[c].key /\ call'[c].pc = "keyslot"
    BY <1>1, <1>2 DEF CallShape, NoCall
  <2>2. CallShape(c)'
    BY <1>1, <1>2, <2>1, AdmissionAssumption DEF CallShape, Inert
  <2>3. Returnable(c)'
    BY <1>1, <1>2, <2>1 DEF Returnable, Held
  <2>4. QED
    BY <1>2, <2>1, <2>2, <2>3, LimitInvFrame
<1>3. CASE /\ call[c].pc \in {"keyslot", "slot"}
           /\ slots' = slots \/ slots' = Taken(c)
           /\ call' = [call EXCEPT ![c].pc = "compare", ![c].then = "run", ![c].lost = TRUE]
  <2>1. /\ call' = [call EXCEPT ![c] = call'[c]]
        /\ DOMAIN call'[c] = DOMAIN call[c]
        /\ call'[c].claimed = call[c].claimed /\ call'[c].then = "run"
        /\ call'[c].i = call[c].i /\ call'[c].lost = TRUE /\ call'[c].pc = "compare"
    BY <1>1, <1>3 DEF CallShape, NoCall
  <2>2. CallShape(c)'
    BY <1>1, <2>1 DEF CallShape, Inert
  <2>3. Returnable(c)'
    BY <2>1 DEF Returnable
  <2>4. Candidate(c) \in Slots /\ clock + Lease \in Int
    <3>1. Lease \in Int
      BY GuardAssumption, AdmissionAssumption DEF Lease, CeilDiv
    <3>2. QED
      BY <1>3, <3>1, CandidateIsSlot
  <2>5. /\ DOMAIN slots' = DOMAIN slots
        /\ \A s \in Slots : slots'[s].until \in Int
        /\ \A d \in Calls \ {c}, s \in Slots :
               slots'[s].token = d /\ slots'[s].until > clock =>
                   slots[s].token = d /\ slots[s].until > clock
    BY <1>3, <2>4, OneSlotWritten DEF Taken
  <2>6. QED
    BY <2>1, <2>2, <2>3, <2>5, LimitInvFrame
<1>4. CASE /\ call[c].pc \in {"compare", "delete"} /\ call[c].claimed # <<>>
           /\ slots' = slots \/ slots' = Deleted(c)
           /\ call' = [call EXCEPT ![c].pc = "compare", ![c].claimed = Tail(@), ![c].lost = TRUE]
  <2>1. /\ call' = [call EXCEPT ![c] = call'[c]]
        /\ DOMAIN call'[c] = DOMAIN call[c]
        /\ call'[c].claimed = Tail(call[c].claimed) /\ call'[c].then = call[c].then
        /\ call'[c].i = call[c].i /\ call'[c].lost = TRUE /\ call'[c].pc = "compare"
    BY <1>1, <1>4 DEF CallShape, NoCall
  <2>2. Tail(call[c].claimed) \in Seq(Claims) /\ Head(call[c].claimed).slot \in Slots
    BY <1>1, <1>4, TailOfClaims DEF CallShape
  <2>3. CallShape(c)'
    <3>1. call'[c].claimed \in Seq(Claims) /\ call'[c].pc = "compare"
      BY <2>1, <2>2
    <3>2. /\ DOMAIN call'[c] = DOMAIN NoCall
          /\ call'[c].then \in {"run", "done"} /\ call'[c].i \in Nat
      BY <1>1, <2>1 DEF CallShape
    <3>3. QED
      BY <3>1, <3>2 DEF CallShape, Inert
  <2>4. Returnable(c)'
    BY <2>1 DEF Returnable
  <2>5. /\ DOMAIN slots' = DOMAIN slots
        /\ \A s \in Slots : slots'[s].until \in Int
        /\ \A d \in Calls \ {c}, s \in Slots :
               slots'[s].token = d /\ slots'[s].until > clock =>
                   slots[s].token = d /\ slots[s].until > clock
    BY <1>4, <2>2, OneSlotWritten DEF Deleted, Free
  <2>6. QED
    BY <2>1, <2>3, <2>4, <2>5, LimitInvFrame
<1>5. QED
  BY <1>2, <1>3, <1>4 DEF CacheFails

\* The key of a caller is one of the limiter's keys.
LEMMA CallerHasKey ==
    ASSUME LimitInv, NEW c \in DOMAIN sent
    PROVE  KeyOf(sent[c]) \in Keys
BY DEF LimitInv, KeyOf, Verified

LEMMA ArrivalKeeps ==
    ASSUME LimitInv, NEW c \in Calls, Receive(c)
    PROVE  LimitInv'
<1> USE DEF LimitInv
<1>1. CallShape(c) /\ Returnable(c) /\ call[c].pc = "idle" /\ c \in DOMAIN sent
  BY DEF Receive
<1>2. /\ slots' = slots /\ clock' = clock /\ sent' = sent
      /\ \/ call' = [call EXCEPT ![c].pc = "run"]
         \/ call' = [call EXCEPT ![c].pc = "done"]
         \/ call' = [call EXCEPT ![c].pc = "done", ![c].outcome = "invalid_arguments"]
         \/ call' = [call EXCEPT ![c] = Enter(KeyOf(sent[c]))]
  BY DEF Receive, CallTool, Admitting
<1>3. CASE call' = [call EXCEPT ![c] = Enter(KeyOf(sent[c]))]
  <2>1. /\ call'[c] = Enter(KeyOf(sent[c])) /\ call' = [call EXCEPT ![c] = call'[c]]
        /\ DOMAIN call'[c] = DOMAIN NoCall
        /\ call'[c].claimed = <<>> /\ call'[c].then = "done" /\ call'[c].i = 0
        /\ call'[c].lost = FALSE /\ call'[c].pc = "time" /\ call'[c].key \in Keys
    BY <1>1, <1>3, CallerHasKey DEF Enter, NoCall
  <2>2. <<>> \in Seq(Claims)
    OBVIOUS
  <2>3. CallShape(c)'
    BY <2>1, <2>2 DEF CallShape, Inert
  <2>4. Returnable(c)'
    BY <1>1, <1>2, <2>1 DEF Returnable, Held, CallShape, Inert
  <2>5. QED
    BY <1>2, <2>1, <2>3, <2>4, LimitInvFrame
<1>4. CASE call' # [call EXCEPT ![c] = Enter(KeyOf(sent[c]))]
  <2>1. /\ call' = [call EXCEPT ![c] = call'[c]]
        /\ DOMAIN call'[c] = DOMAIN call[c]
        /\ call'[c].claimed = call[c].claimed /\ call'[c].then = call[c].then
        /\ call'[c].i = call[c].i /\ call'[c].lost = call[c].lost
        /\ call'[c].pc \in {"run", "done"}
    BY <1>1, <1>2, <1>4 DEF CallShape, NoCall
  <2>2. CallShape(c)'
    BY <1>1, <2>1 DEF CallShape, Inert
  <2>3. Returnable(c)'
    BY <1>1, <1>2, <2>1 DEF Returnable, Held
  <2>4. QED
    BY <1>2, <2>1, <2>2, <2>3, LimitInvFrame
<1>5. QED
  BY <1>3, <1>4

LEMMA DepartureKeeps ==
    ASSUME LimitInv, NEW c \in Calls, Return(c) \/ Kill(c)
    PROVE  LimitInv'
<1> USE DEF LimitInv
<1>1. CallShape(c) /\ Returnable(c) /\ <<>> \in Seq(Claims)
  OBVIOUS
<1>2. CASE Return(c)
  <2>1. PICK outcome \in Outcomes :
            call' = [call EXCEPT ![c].pc = "compare", ![c].then = "done",
                                 ![c].outcome = ReportOf(sent[c], outcome)]
    BY <1>2 DEF Return
  <2>2. slots' = slots /\ clock' = clock /\ sent' = sent /\ call[c].pc = "run"
    BY <1>2 DEF Return
  <2>3. /\ call' = [call EXCEPT ![c] = call'[c]]
        /\ DOMAIN call'[c] = DOMAIN call[c]
        /\ call'[c].claimed = call[c].claimed /\ call'[c].then = "done"
        /\ call'[c].i = call[c].i /\ call'[c].lost = call[c].lost
        /\ call'[c].pc = "compare"
    BY <1>1, <2>1 DEF CallShape, NoCall
  <2>4. CallShape(c)'
    BY <1>1, <2>3 DEF CallShape, Inert
  <2>5. Returnable(c)'
    BY <1>1, <2>2, <2>3 DEF Returnable, Held
  <2>6. QED
    BY <2>2, <2>3, <2>4, <2>5, LimitInvFrame
<1>3. CASE Kill(c)
  <2>1. /\ call' = [call EXCEPT ![c] = call'[c]]
        /\ DOMAIN call'[c] = DOMAIN call[c]
        /\ call'[c].claimed = <<>> /\ call'[c].then = call[c].then
        /\ call'[c].i = call[c].i /\ call'[c].lost = call[c].lost
        /\ call'[c].pc = "killed"
        /\ slots' = slots /\ clock' = clock /\ sent' = sent
    BY <1>1, <1>3 DEF Kill, CallShape, NoCall
  <2>2. CallShape(c)'
    BY <1>1, <2>1 DEF CallShape, Inert
  <2>3. Returnable(c)'
    BY <2>1 DEF Returnable
  <2>4. QED
    BY <2>1, <2>2, <2>3, LimitInvFrame
<1>4. QED
  BY <1>2, <1>3

LEMMA LimitInvNext ==
    ASSUME LimitInv, [Next]_mcpVars
    PROVE  LimitInv'
<1>1. ASSUME clock' \in {clock, clock + 1}, UNCHANGED <<call, slots, sent>>
      PROVE  LimitInv'
  <2>1. \A c \in Calls : CallShape(c)'
    BY <1>1 DEF LimitInv, CallShape, Inert
  <2>2. ASSUME NEW c \in Calls
        PROVE  Returnable(c)'
    <3>1. \A s \in Slots : Held(s)' => Held(s)
      BY <1>1 DEF LimitInv, Held
    <3>2. QED
      BY <1>1, <3>1 DEF LimitInv, Returnable
  <2>3. QED
    BY <1>1, <2>1, <2>2 DEF LimitInv
<1>2. ASSUME NEW c \in Calls, AdmissionStep(c), UNCHANGED <<guardVars, scene, sent, issued>>
      PROVE  LimitInv'
  <2>1. UNCHANGED <<clock, sent>>
    BY <1>2 DEF guardVars
  <2>2. QED
    BY <1>2, <2>1, CountingKeeps, ClaimKeeps, ReleaseKeeps, FailureKeeps DEF AdmissionStep
<1>3. ASSUME NEW c \in Calls, GuardStep(c), UNCHANGED <<admissionVars, scene, sent, issued>>
      PROVE  LimitInv'
  BY <1>1, <1>3 DEF GuardStep, admissionVars
<1>4. CASE Tick /\ UNCHANGED <<guard, admissionVars, scene, sent, issued>>
  BY <1>1, <1>4 DEF Tick, admissionVars
<1>5. CASE UNCHANGED mcpVars
  BY <1>1, <1>5 DEF mcpVars, guardVars, admissionVars
<1>6. QED
  BY <1>2, <1>3, <1>4, <1>5, ArrivalKeeps, DepartureKeeps DEF Next

LEMMA LimitInvHolds == Spec => []LimitInv
BY LimitInvInit, LimitInvNext, PTL DEF Spec

\* A call that left holds no slot, whether it ran, failed or was refused on the
\* way, unless a cache operation of its own failed (chat_mcp/limits.py,
\* claim_slot, release_slot and admit).
THEOREM SlotsComeBack == Spec => []SlotsAreReturned
<1>1. LimitInv => SlotsAreReturned
  <2> SUFFICES ASSUME LimitInv, NEW c \in Calls, call[c].pc = "done", ~call[c].lost,
                      NEW s \in Slots, Held(s)
               PROVE  slots[s].token # c
    BY DEF SlotsAreReturned
  <2>1. call[c].claimed = <<>> /\ Returnable(c)
    BY DEF LimitInv, CallShape, Inert
  <2>2. QED
    BY <2>1 DEF Returnable
<1>2. QED
  BY <1>1, LimitInvHolds, PTL

NotUnderstood(c) ==
    sent[c].path = "mcp" /\ (AnsweredAtOnce(sent[c]) \/ sent[c].arguments = "invalid")

FreeInv ==
    \A c \in DOMAIN sent :
        NotUnderstood(c) =>
            /\ call[c].pc \in {"idle", "done"} /\ call[c].current = 0
            /\ \A s \in Slots : slots[s].token # c

\* A step in the limiter is taken by a call that passed Enter, and names no other.
LEMMA AdmissionTouches ==
    ASSUME LimitInv, NEW d \in Calls, AdmissionStep(d)
    PROVE  /\ call[d].pc \notin {"idle", "done"}
           /\ \A c \in Calls \ {d} : call'[c] = call[c]
           /\ \A s \in Slots : slots'[s].token \in {slots[s].token, d, "none"}
<1> USE DEF LimitInv
<1>1. CASE ReadTime(d) \/ Count(d) \/ ReadPrevious(d) \/ Uncount(d)
  BY <1>1 DEF ReadTime, Count, ReadPrevious, Uncount
<1>2. CASE ClaimSlot(d)
  BY <1>2 DEF ClaimSlot, Taken
<1>3. CASE Compare(d)
  BY <1>3 DEF Compare
<1>4. CASE Delete(d)
  BY <1>4 DEF Delete, Deleted, Free
<1>5. CASE CacheFails(d)
  <2>1. call[d].pc \notin {"idle", "done"} /\ \A c \in Calls \ {d} : call'[c] = call[c]
    BY <1>5 DEF CacheFails
  <2>2. slots' \in {slots, Taken(d), Deleted(d)}
    BY <1>5 DEF CacheFails
  <2>3. QED
    BY <2>1, <2>2 DEF Taken, Deleted, Free
<1>6. QED
  BY <1>1, <1>2, <1>3, <1>4, <1>5 DEF AdmissionStep

LEMMA FreeInvNext ==
    ASSUME LimitInv, FreeInv, [Next]_mcpVars
    PROVE  FreeInv'
<1> USE DEF LimitInv
<1>1. ASSUME UNCHANGED <<call, slots, sent>>
      PROVE  FreeInv'
  BY <1>1 DEF FreeInv, NotUnderstood
<1>2. ASSUME NEW d \in Calls, UNCHANGED sent, call[d].pc \notin {"idle", "done"},
             \A c \in Calls \ {d} : call'[c] = call[c],
             \A s \in Slots : slots'[s].token \in {slots[s].token, d, "none"}
      PROVE  FreeInv'
  <2> SUFFICES ASSUME NEW c \in DOMAIN sent, NotUnderstood(c)
               PROVE  /\ call'[c].pc \in {"idle", "done"} /\ call'[c].current = 0
                      /\ \A s \in Slots : slots'[s].token # c
    BY <1>2 DEF FreeInv, NotUnderstood
  <2>1. c # d /\ c \in Calls
    BY <1>2 DEF FreeInv
  <2>2. QED
    BY <1>2, <2>1, AdmissionAssumption DEF FreeInv
<1>3. ASSUME NEW d \in Calls, Receive(d)
      PROVE  FreeInv'
  <2>1. UNCHANGED <<slots, sent>> /\ \A c \in Calls \ {d} : call'[c] = call[c]
    BY <1>3 DEF Receive, CallTool
  <2>2. ASSUME NotUnderstood(d)
        PROVE  call'[d].pc = "done" /\ call'[d].current = 0
    <3>1. /\ call[d].current = 0 /\ CallShape(d)
          /\ \/ call' = [call EXCEPT ![d].pc = "done"]
             \/ call' = [call EXCEPT ![d].pc = "done", ![d].outcome = "invalid_arguments"]
      BY <1>3, <2>2 DEF FreeInv, Receive, CallTool, NotUnderstood
    <3>2. QED
      BY <3>1 DEF CallShape, NoCall
  <2>3. QED
    BY <2>1, <2>2 DEF FreeInv, NotUnderstood
<1>4. ASSUME NEW d \in Calls, Return(d) \/ Kill(d)
      PROVE  FreeInv'
  <2>1. UNCHANGED <<slots, sent>> /\ call[d].pc \notin {"idle", "done"}
    BY <1>4 DEF Return, Kill
  <2>2. \A c \in Calls \ {d} : call'[c] = call[c]
    BY <1>4 DEF Return, Kill
  <2>3. QED
    BY <1>2, <2>1, <2>2
<1>5. ASSUME NEW d \in Calls, AdmissionStep(d), UNCHANGED <<guardVars, scene, sent, issued>>
      PROVE  FreeInv'
  BY <1>2, <1>5, AdmissionTouches
<1>6. ASSUME NEW d \in Calls, GuardStep(d), UNCHANGED <<admissionVars, scene, sent, issued>>
      PROVE  FreeInv'
  BY <1>1, <1>6 DEF admissionVars
<1>7. CASE Tick /\ UNCHANGED <<guard, admissionVars, scene, sent, issued>>
  BY <1>1, <1>7 DEF admissionVars
<1>8. CASE UNCHANGED mcpVars
  BY <1>1, <1>8 DEF mcpVars, admissionVars
<1>9. QED
  BY <1>3, <1>4, <1>5, <1>6, <1>7, <1>8 DEF Next

\* A message or a tool call that could not be understood takes no token from the
\* counters and no slot (chat_mcp/views.py, _call_tool).
THEOREM BadCallsCostNothing == Spec => []BadCallsAreFree
<1>1. Init => FreeInv
  BY AdmissionAssumption, McpAssumption DEF Init, FreeInv, NoCall, Free
<1>2. LimitInv /\ FreeInv => BadCallsAreFree
  BY DEF FreeInv, NotUnderstood, BadCallsAreFree
<1>3. QED
  BY <1>1, <1>2, LimitInvHolds, FreeInvNext, PTL DEF Spec

Claiming == {"keyslot", "slot", "run"}

\* What a call has claimed is its own while the lease lasts, or was taken from it.
HoldsOn(c) ==
    call[c].pc \in Claiming =>
        \A j \in DOMAIN call[c].claimed :
            LET s == call[c].claimed[j].slot
            IN  call[c].claimed[j].until > clock =>
                    \/ slots[s].token = c /\ slots[s].until = call[c].claimed[j].until
                    \/ <<s, c>> \in stolen

HoldInv == \A c \in Calls : HoldsOn(c) /\ (call[c].pc = "delete" => call[c].kept)

LEMMA ClaimsFit ==
    ASSUME NEW q \in Seq(Claims), NEW j \in DOMAIN q
    PROVE  q[j].slot \in Slots /\ q[j].until \in Int
<1>1. q[j] \in Claims
  OBVIOUS
<1>2. QED
  BY <1>1 DEF Claims

\* A step of one call: what the others hold is as it was, or was taken from them.
LEMMA HoldFrame ==
    ASSUME LimitInv, HoldInv, NEW c \in Calls, clock' = clock,
           \A d \in Calls \ {c} : call'[d] = call[d], stolen \subseteq stolen',
           \A d \in Calls \ {c}, s \in Slots :
               slots[s].token = d /\ Held(s) => slots'[s] = slots[s] \/ <<s, d>> \in stolen',
           HoldsOn(c)', call'[c].pc = "delete" => call'[c].kept
    PROVE  HoldInv'
<1>1. ASSUME NEW d \in Calls \ {c} PROVE HoldsOn(d)' /\ (call'[d].pc = "delete" => call'[d].kept)
  <2>1. call'[d] = call[d] /\ CallShape(d) /\ HoldsOn(d) /\ (call[d].pc = "delete" => call[d].kept)
    BY DEF HoldInv, LimitInv
  <2>2. ASSUME call[d].pc \in Claiming, NEW j \in DOMAIN call[d].claimed, call[d].claimed[j].until > clock
        PROVE  \/ /\ slots'[call[d].claimed[j].slot].token = d
                  /\ slots'[call[d].claimed[j].slot].until = call[d].claimed[j].until
               \/ <<call[d].claimed[j].slot, d>> \in stolen'
    <3> DEFINE s == call[d].claimed[j].slot
    <3>1. s \in Slots
      BY <2>1, ClaimsFit DEF CallShape
    <3>2. CASE <<s, d>> \in stolen
      BY <3>2
    <3>3. CASE slots[s].token = d /\ slots[s].until = call[d].claimed[j].until
      <4>1. Held(s)
        BY <2>2, <3>3 DEF Held
      <4>2. slots'[s] = slots[s] \/ <<s, d>> \in stolen'
        BY <3>1, <3>3, <4>1
      <4>3. QED
        BY <3>3, <4>2
    <3>4. QED
      BY <2>1, <2>2, <3>2, <3>3 DEF HoldsOn
  <2>3. QED
    BY <2>1, <2>2 DEF HoldsOn
<1>2. QED
  BY <1>1 DEF HoldInv

\* A claim takes a slot nobody held, and what was claimed before is kept.
LEMMA ClaimHolds ==
    ASSUME LimitInv, HoldInv, NEW c \in Calls, ClaimSlot(c), UNCHANGED clock
    PROVE  HoldInv'
<1> DEFINE s0 == Candidate(c)
           claim == [slot |-> s0, until |-> clock + Lease]
<1>1. s0 \in Slots /\ CallShape(c) /\ HoldsOn(c) /\ stolen' = stolen
  BY CandidateIsSlot DEF LimitInv, HoldInv, ClaimSlot
<1>2. \A d \in Calls \ {c} : call'[d] = call[d]
  BY DEF LimitInv, ClaimSlot
<1>3. CASE ~Held(s0)
  <2>1. /\ slots' = [slots EXCEPT ![s0] = [token |-> c, until |-> clock + Lease]]
        /\ call'[c].claimed = Append(call[c].claimed, claim)
        /\ call'[c].pc \in {"slot", "run"} /\ call[c].pc \in Claiming
    BY <1>1, <1>3 DEF ClaimSlot, Taken, CallShape, NoCall, LimitInv, Claiming
  <2>2. \A s \in Slots : slots'[s] = IF s = s0 THEN [token |-> c, until |-> clock + Lease]
                                     ELSE slots[s]
    BY <2>1 DEF LimitInv
  <2>3. \A d \in Calls, s \in Slots : slots[s].token = d /\ Held(s) => slots'[s] = slots[s]
    BY <1>3, <2>2
  <2>4. HoldsOn(c)'
    <3> SUFFICES ASSUME NEW j \in DOMAIN call'[c].claimed, call'[c].claimed[j].until > clock
                 PROVE  \/ /\ slots'[call'[c].claimed[j].slot].token = c
                           /\ slots'[call'[c].claimed[j].slot].until = call'[c].claimed[j].until
                        \/ <<call'[c].claimed[j].slot, c>> \in stolen
      BY <1>1 DEF HoldsOn
    <3> HIDE DEF claim, s0
    <3>1. \/ call'[c].claimed[j] = claim
          \/ j \in DOMAIN call[c].claimed /\ call'[c].claimed[j] = call[c].claimed[j]
      <4>1. call[c].claimed \in Seq(Claims)
        BY <1>1 DEF CallShape
      <4>2. QED
        BY <2>1, <4>1
    <3>2. CASE call'[c].claimed[j] = claim
      BY <1>1, <2>2, <3>2 DEF claim
    <3>3. CASE j \in DOMAIN call[c].claimed /\ call'[c].claimed[j] = call[c].claimed[j]
      <4> DEFINE s == call[c].claimed[j].slot
      <4>1. s \in Slots
        BY <1>1, <3>3, ClaimsFit DEF CallShape
      <4>2. CASE slots[s].token = c /\ slots[s].until = call[c].claimed[j].until
        <5>1. slots'[s] = slots[s]
          BY <2>3, <3>3, <4>1, <4>2 DEF Held
        <5>2. QED
          BY <3>3, <4>2, <5>1
      <4>3. QED
        BY <1>1, <2>1, <3>3, <4>2 DEF HoldsOn
    <3>4. QED
      BY <3>1, <3>2, <3>3
  <2>5. QED
    BY <1>1, <1>2, <2>1, <2>3, <2>4, HoldFrame
<1>4. CASE Held(s0)
  <2>1. /\ slots' = slots /\ call[c].pc \in Claiming
        /\ \/ call' = [call EXCEPT ![c] = BusyCall(c)]
           \/ call' = [call EXCEPT ![c] = [call[c] EXCEPT !.i = @ + 1]]
    BY <1>4 DEF ClaimSlot, Claiming
  <2>2. call'[c].claimed = call[c].claimed /\ call'[c].pc \in {call[c].pc, "compare"}
    <3>1. DOMAIN call = Calls /\ DOMAIN call[c] = DOMAIN NoCall
      BY <1>1 DEF LimitInv, CallShape
    <3>2. CASE call' = [call EXCEPT ![c] = BusyCall(c)]
      <4>1. call'[c] = BusyCall(c)
        BY <3>1, <3>2
      <4>2. BusyCall(c).claimed = call[c].claimed /\ BusyCall(c).pc = "compare"
        BY <3>1 DEF BusyCall, NoCall
      <4>3. QED
        BY <4>1, <4>2
    <3>3. CASE call' = [call EXCEPT ![c] = [call[c] EXCEPT !.i = @ + 1]]
      BY <3>1, <3>3 DEF NoCall
    <3>4. QED
      BY <2>1, <3>2, <3>3
  <2>3. HoldsOn(c)'
    BY <1>1, <2>1, <2>2 DEF HoldsOn
  <2>4. QED
    BY <1>1, <1>2, <2>1, <2>2, <2>3, HoldFrame DEF Claiming
<1>5. QED
  BY <1>3, <1>4

\* A delete that hits the slot of another call is recorded as a theft.
LEMMA DeleteTakes ==
    ASSUME LimitInv, HoldInv, NEW c \in Calls, call[c].pc = "delete",
           slots' = Deleted(c), stolen' = StolenBy(c)
    PROVE  /\ stolen \subseteq stolen'
           /\ \A d \in Calls \ {c}, s \in Slots :
                 slots[s].token = d /\ Held(s) => slots'[s] = slots[s] \/ <<s, d>> \in stolen'
<1> DEFINE s0 == Head(call[c].claimed).slot
<1>1. call[c].kept /\ call[c].claimed \in Seq(Claims) /\ call[c].claimed # <<>>
  BY DEF HoldInv, LimitInv, CallShape
<1>2. s0 \in Slots
  BY <1>1, TailOfClaims
<1>3. /\ \A s \in Slots \ {s0} : slots'[s] = slots[s]
      /\ stolen' = IF Held(s0) /\ slots[s0].token # c
                   THEN stolen \cup {<<s0, slots[s0].token>>} ELSE stolen
  BY <1>1, <1>2 DEF Deleted, StolenBy, LimitInv
<1>4. QED
  BY <1>2, <1>3

LEMMA ReleaseHolds ==
    ASSUME LimitInv, HoldInv, NEW c \in Calls, Compare(c) \/ Delete(c) \/ CacheFails(c),
           UNCHANGED clock
    PROVE  HoldInv'
<1>1. CallShape(c) /\ DOMAIN call = Calls /\ \A d \in Calls \ {c} : call'[d] = call[d]
  BY DEF LimitInv, Compare, Delete, CacheFails
<1>2. CASE Compare(c)
  <2>1. slots' = slots /\ stolen' = stolen
    BY <1>2 DEF Compare
  <2>2. CASE call[c].claimed = <<>>
    <3>1. call'[c].claimed = <<>> /\ call'[c].pc \in {"run", "done"}
      BY <1>1, <1>2, <2>2 DEF Compare, CallShape, NoCall
    <3>2. HoldsOn(c)'
      BY <3>1 DEF HoldsOn
    <3>3. QED
      BY <1>1, <2>1, <3>1, <3>2, HoldFrame
  <2>3. CASE call[c].claimed # <<>>
    <3>1. \/ call'[c].pc = "compare"
          \/ call'[c].pc = "delete" /\ call'[c].kept
      <4>1. CASE Owns(c, Head(call[c].claimed).slot)
        <5>1. call' = [call EXCEPT ![c].pc = "delete", ![c].kept = TRUE]
          BY <1>2, <2>3, <4>1 DEF Compare, Owns
        <5>2. QED
          BY <1>1, <5>1 DEF CallShape, NoCall
      <4>2. CASE ~Owns(c, Head(call[c].claimed).slot)
        <5>1. call' = [call EXCEPT ![c].claimed = Tail(@)] /\ call[c].pc = "compare"
          BY <1>2, <2>3, <4>2 DEF Compare
        <5>2. QED
          BY <1>1, <5>1 DEF CallShape, NoCall
      <4>3. QED
        BY <4>1, <4>2
    <3>2. HoldsOn(c)'
      BY <3>1 DEF HoldsOn, Claiming
    <3>3. QED
      BY <1>1, <2>1, <3>1, <3>2, HoldFrame
  <2>4. QED
    BY <2>2, <2>3
<1>3. CASE Delete(c)
  <2>1. call'[c].pc = "compare" /\ call[c].pc = "delete" /\ slots' = Deleted(c) /\ stolen' = StolenBy(c)
    BY <1>1, <1>3 DEF Delete, CallShape, NoCall
  <2>2. HoldsOn(c)'
    BY <2>1 DEF HoldsOn, Claiming
  <2>3. QED
    BY <1>1, <2>1, <2>2, DeleteTakes, HoldFrame
<1>4. CASE CacheFails(c)
  <2>1. CASE /\ call[c].pc \in {"count", "previous", "uncount"}
             /\ call' = [call EXCEPT ![c].pc = "keyslot"] /\ UNCHANGED <<slots, stolen>>
    <3>1. call'[c].claimed = <<>> /\ call'[c].pc = "keyslot"
      BY <1>1, <2>1 DEF CallShape, NoCall, Inert
    <3>2. HoldsOn(c)'
      BY <3>1 DEF HoldsOn
    <3>3. QED
      BY <1>1, <2>1, <3>1, <3>2, HoldFrame
  <2>2. CASE /\ call[c].pc \in {"keyslot", "slot"} /\ stolen' = stolen
             /\ slots' \in {slots} \cup (IF Held(Candidate(c)) THEN {} ELSE {Taken(c)})
             /\ call' = [call EXCEPT ![c].pc = "compare", ![c].then = "run", ![c].lost = TRUE]
    <3>1. call'[c].pc = "compare"
      BY <1>1, <2>2 DEF CallShape, NoCall
    <3>2. \A s \in Slots : Held(s) => slots'[s] = slots[s]
      BY <2>2 DEF Taken, LimitInv
    <3>3. HoldsOn(c)'
      BY <3>1 DEF HoldsOn, Claiming
    <3>4. QED
      BY <1>1, <2>2, <3>1, <3>2, <3>3, HoldFrame
  <2>3. CASE /\ call[c].pc \in {"compare", "delete"}
             /\ \/ UNCHANGED <<slots, stolen>>
                \/ call[c].pc = "delete" /\ slots' = Deleted(c) /\ stolen' = StolenBy(c)
             /\ call' = [call EXCEPT ![c].pc = "compare", ![c].claimed = Tail(@), ![c].lost = TRUE]
    <3>1. call'[c].pc = "compare"
      BY <1>1, <2>3 DEF CallShape, NoCall
    <3>2. HoldsOn(c)'
      BY <3>1 DEF HoldsOn, Claiming
    <3>3. QED
      BY <1>1, <2>3, <3>1, <3>2, DeleteTakes, HoldFrame
  <2>4. QED
    BY <1>4, <2>1, <2>2, <2>3 DEF CacheFails
<1>5. QED
  BY <1>2, <1>3, <1>4

LEMMA HoldInvNext ==
    ASSUME LimitInv, HoldInv, [Next]_mcpVars
    PROVE  HoldInv'
<1>1. ASSUME clock' \in {clock, clock + 1}, UNCHANGED <<call, slots, stolen>>
      PROVE  HoldInv'
  <2> SUFFICES ASSUME NEW c \in Calls PROVE HoldsOn(c)'
    BY <1>1 DEF HoldInv
  <2>1. CallShape(c) /\ HoldsOn(c) /\ clock \in Int
    BY DEF LimitInv, HoldInv
  <2>2. \A j \in DOMAIN call[c].claimed :
           call[c].claimed[j].until > clock' => call[c].claimed[j].until > clock
    BY <1>1, <2>1, ClaimsFit DEF CallShape
  <2>3. QED
    BY <1>1, <2>1, <2>2 DEF HoldsOn
<1>2. ASSUME NEW c \in Calls, clock' = clock, UNCHANGED <<slots, stolen>>,
             \A d \in Calls \ {c} : call'[d] = call[d],
             call'[c].pc \notin Claiming \/ call'[c].claimed = <<>>, call'[c].pc # "delete"
      PROVE  HoldInv'
  <2>1. HoldsOn(c)'
    BY <1>2 DEF HoldsOn
  <2>2. QED
    BY <1>2, <2>1, HoldFrame
<1>3. ASSUME NEW c \in Calls, Receive(c) PROVE HoldInv'
  <2>1. /\ CallShape(c) /\ call[c].pc = "idle" /\ DOMAIN call = Calls
        /\ clock' = clock /\ UNCHANGED <<slots, stolen>>
        /\ \/ call' = [call EXCEPT ![c].pc = "run"]
           \/ call' = [call EXCEPT ![c].pc = "done"]
           \/ call' = [call EXCEPT ![c].pc = "done", ![c].outcome = "invalid_arguments"]
           \/ call' = [call EXCEPT ![c] = Enter(KeyOf(sent[c]))]
    BY <1>3 DEF LimitInv, Receive, CallTool, Admitting
  <2>2. /\ \A d \in Calls \ {c} : call'[d] = call[d]
        /\ call'[c].claimed = <<>> /\ call'[c].pc \in {"run", "done", "time"}
    <3>1. CASE call' = [call EXCEPT ![c] = Enter(KeyOf(sent[c]))]
      BY <2>1, <3>1 DEF Enter, NoCall
    <3>2. CASE call' # [call EXCEPT ![c] = Enter(KeyOf(sent[c]))]
      BY <2>1, <3>2 DEF CallShape, NoCall, Inert
    <3>3. QED
      BY <3>1, <3>2
  <2>3. QED
    BY <1>2, <2>1, <2>2
<1>4. ASSUME NEW c \in Calls, Return(c) \/ Kill(c) PROVE HoldInv'
  <2>1. /\ CallShape(c) /\ DOMAIN call = Calls /\ clock' = clock /\ UNCHANGED <<slots, stolen>>
        /\ \/ \E o \in Outcomes : call' = [call EXCEPT ![c].pc = "compare", ![c].then = "done",
                                                      ![c].outcome = ReportOf(sent[c], o)]
           \/ call' = [call EXCEPT ![c].pc = "killed", ![c].claimed = <<>>]
    BY <1>4 DEF LimitInv, Return, Kill
  <2>2. call'[c].pc \in {"compare", "killed"} /\ \A d \in Calls \ {c} : call'[d] = call[d]
    BY <2>1 DEF CallShape, NoCall
  <2>3. QED
    BY <1>2, <2>1, <2>2 DEF Claiming
<1>5. ASSUME NEW c \in Calls, AdmissionStep(c), UNCHANGED <<guardVars, scene, sent, issued>>
      PROVE  HoldInv'
  <2>1. CASE ReadTime(c) \/ Count(c) \/ ReadPrevious(c) \/ Uncount(c)
    <3>1. CallShape(c) /\ DOMAIN call = Calls /\ clock' = clock
      BY <1>5 DEF LimitInv, guardVars
    <3>2. /\ \A d \in Calls \ {c} : call'[d] = call[d]
          /\ call[c].pc \in {"time", "count", "previous", "uncount"} /\ UNCHANGED <<slots, stolen>>
      BY <2>1, <3>1 DEF ReadTime, Count, ReadPrevious, Uncount
    <3>3. call'[c].claimed = call[c].claimed /\ call'[c].pc # "delete"
      <4> USE DEF CallShape, NoCall
      <4>1. CASE ReadTime(c)
        BY <3>1, <4>1 DEF ReadTime
      <4>2. CASE Count(c)
        BY <3>1, <4>2 DEF Count
      <4>3. CASE ReadPrevious(c)
        BY <3>1, <4>3 DEF ReadPrevious
      <4>4. CASE Uncount(c)
        BY <3>1, <4>4 DEF Uncount
      <4>5. QED
        BY <2>1, <4>1, <4>2, <4>3, <4>4
    <3>4. call'[c].claimed = <<>>
      BY <3>1, <3>2, <3>3 DEF CallShape, Inert
    <3>5. QED
      BY <1>2, <3>1, <3>2, <3>3, <3>4
  <2>2. QED
    BY <1>5, <2>1, ClaimHolds, ReleaseHolds DEF AdmissionStep, guardVars
<1>6. ASSUME NEW c \in Calls, GuardStep(c), UNCHANGED <<admissionVars, scene, sent, issued>>
      PROVE  HoldInv'
  BY <1>1, <1>6 DEF GuardStep, admissionVars
<1>7. CASE Tick /\ UNCHANGED <<guard, admissionVars, scene, sent, issued>>
  BY <1>1, <1>7 DEF Tick, admissionVars
<1>8. CASE UNCHANGED mcpVars
  BY <1>1, <1>8 DEF mcpVars, guardVars, admissionVars
<1>9. QED
  BY <1>3, <1>4, <1>5, <1>6, <1>7, <1>8 DEF Next

\* A set of slots is finite.
LEMMA SlotsAreFinite ==
    ASSUME NEW set PROVE IsFiniteSet(SlotsOf(set)) /\ Cardinality(SlotsOf(set)) \in Nat
<1> DEFINE n == IF set = Cluster THEN MaxConcurrent ELSE PerKey
           f == [i \in 0 .. n - 1 |-> <<set, i>>]
<1>1. n \in Nat
  BY AdmissionAssumption
<1> HIDE DEF n
<1>2. IsFiniteSet(0 .. n - 1)
  BY <1>1, FS_Interval
<1>3. SlotsOf(set) = {<<set, i>> : i \in 0 .. n - 1}
  BY DEF SlotsOf, n
<1>4. f \in Surjection(0 .. n - 1, SlotsOf(set))
  BY <1>3 DEF Surjection
<1>5. QED
  BY <1>2, <1>4, FS_Surjection, FS_CardinalityType

\* No more calls run at once than the caps allow, for any caps, any number of
\* calls and any lease, but for those whose slot the compare-then-delete of a
\* release took from them (chat_mcp/limits.py, claim_slot and release_slot).
THEOREM RunningFitsTheCaps == Spec => []AdmittedAreBounded
<1>1. Init => HoldInv
  BY DEF Init, HoldInv, HoldsOn, Claiming, NoCall
<1>2. LimitInv /\ HoldInv => AdmittedAreBounded
  <2> SUFFICES ASSUME LimitInv, HoldInv, NEW set \in SlotSets
               PROVE  Cardinality(RunningOn(set) \ RobbedOf(set)) <= Cardinality(SlotsOf(set))
    BY DEF AdmittedAreBounded
  <2> DEFINE Running == RunningOn(set) \ RobbedOf(set)
             Tokens == {slots[s].token : s \in SlotsOf(set)}
             f == [s \in SlotsOf(set) |-> slots[s].token]
  <2>1. Running \subseteq Tokens
    <3> SUFFICES ASSUME NEW c \in Running PROVE c \in Tokens
      OBVIOUS
    <3>1. PICK j \in DOMAIN call[c].claimed : /\ call[c].claimed[j].slot \in SlotsOf(set)
                                            /\ call[c].claimed[j].until > clock
      BY DEF RunningOn
    <3>2. c \in Calls /\ call[c].pc = "run" /\ HoldsOn(c)
      BY DEF RunningOn, HoldInv
    <3>3. slots[call[c].claimed[j].slot].token = c
      BY <3>1, <3>2 DEF HoldsOn, Claiming, RobbedOf
    <3>4. QED
      BY <3>1, <3>3
  <2>2. f \in Surjection(SlotsOf(set), Tokens)
    BY DEF Surjection
  <2>3. IsFiniteSet(Tokens) /\ Cardinality(Tokens) <= Cardinality(SlotsOf(set))
    BY <2>2, SlotsAreFinite, FS_Surjection
  <2>4. IsFiniteSet(Running) /\ Cardinality(Running) <= Cardinality(Tokens)
    BY <2>1, <2>3, FS_Subset
  <2>5. /\ Cardinality(Running) \in Nat /\ Cardinality(Tokens) \in Nat
        /\ Cardinality(SlotsOf(set)) \in Nat
    BY <2>3, <2>4, SlotsAreFinite, FS_CardinalityType
  <2>6. QED
    BY <2>3, <2>4, <2>5
<1>3. QED
  BY <1>1, <1>2, LimitInvHolds, HoldInvNext, PTL DEF Spec

\* The outcomes of a tool call.
Codes == {"ok", "invalid_arguments", "rate_limited", "busy", "refused", "query_too_expensive",
          "service_unavailable", "database_unavailable", "database_error", "interface_error"}

\* A call gets its outcome when it leaves, and leaves with one.
ToldOf(c) ==
    /\ sent[c] \in Messages
    /\ call[c].pc \in {"compare", "delete"} =>
          call[c].then = "run" \/ call[c].outcome \in Codes
    /\ call[c].pc = "done" /\ sent[c].path = "mcp" /\ ~AnsweredAtOnce(sent[c]) =>
          call[c].outcome \in Codes

ToldInv == \A c \in DOMAIN sent : ToldOf(c)

\* One call moves, and is still told what it must be.
LEMMA ToldFrame ==
    ASSUME LimitInv, ToldInv, NEW c \in Calls, sent' = sent,
           \A d \in Calls \ {c} : call'[d] = call[d],
           c \in DOMAIN sent => ToldOf(c)'
    PROVE  ToldInv'
<1> SUFFICES ASSUME NEW d \in DOMAIN sent PROVE ToldOf(d)'
  BY DEF ToldInv
<1>1. CASE d = c
  BY <1>1
<1>2. CASE d # c
  BY <1>2 DEF ToldInv, ToldOf, LimitInv, AnsweredAtOnce
<1>3. QED
  BY <1>1, <1>2

LEMMA AdmissionTells ==
    ASSUME LimitInv, ToldInv, NEW c \in Calls, AdmissionStep(c), sent' = sent
    PROVE  ToldInv'
<1>1. CallShape(c) /\ DOMAIN call = Calls /\ \A d \in Calls \ {c} : call'[d] = call[d]
  BY AdmissionTouches DEF LimitInv
<1> SUFFICES ASSUME c \in DOMAIN sent PROVE ToldOf(c)'
  BY <1>1, ToldFrame
<1>2. ToldOf(c) /\ DOMAIN call[c] = DOMAIN NoCall
  BY <1>1 DEF ToldInv, CallShape
<1>3. ASSUME call'[c].pc \in {"count", "previous", "uncount", "keyslot", "slot", "run"}
      PROVE  ToldOf(c)'
  BY <1>2, <1>3 DEF ToldOf, AnsweredAtOnce
<1>4. ASSUME call'[c].pc \in {"compare", "delete", "done"}, call'[c].outcome \in Codes
      PROVE  ToldOf(c)'
  BY <1>2, <1>4 DEF ToldOf, AnsweredAtOnce
<1>5. CASE ReadTime(c) \/ Count(c)
  BY <1>1, <1>2, <1>3, <1>5 DEF ReadTime, Count, NoCall
<1>6. CASE ReadPrevious(c)
  BY <1>1, <1>2, <1>3, <1>6 DEF ReadPrevious, NoCall
<1>7. CASE Uncount(c)
  BY <1>1, <1>2, <1>4, <1>7 DEF Uncount, NoCall, Codes
<1>8. CASE ClaimSlot(c)
  <2>1. CASE call' = [call EXCEPT ![c] = BusyCall(c)]
    <3>1. call'[c] = BusyCall(c)
      BY <1>1, <2>1
    <3>2. BusyCall(c).pc = "compare" /\ BusyCall(c).outcome = "busy"
      BY <1>2 DEF BusyCall, NoCall
    <3>3. QED
      BY <1>4, <3>1, <3>2 DEF Codes
  <2>2. CASE call' = [call EXCEPT ![c] = [call[c] EXCEPT !.i = @ + 1]]
    BY <1>1, <1>2, <1>3, <1>8, <2>2 DEF ClaimSlot, NoCall
  <2>3. CASE ~Held(Candidate(c))
    BY <1>1, <1>2, <1>3, <1>8, <2>3 DEF ClaimSlot, NoCall
  <2>4. QED
    BY <1>8, <2>1, <2>2, <2>3 DEF ClaimSlot
<1>9. CASE Compare(c) \/ Delete(c)
  <2>1. /\ call[c].pc \in {"compare", "delete"}
        /\ call'[c].then = call[c].then /\ call'[c].outcome = call[c].outcome
        /\ \/ call'[c].pc \in {"compare", "delete"}
           \/ call'[c].pc = call[c].then
    <3>1. CASE Delete(c)
      BY <1>1, <1>2, <3>1 DEF Delete, NoCall
    <3>2. CASE Compare(c) /\ call[c].claimed = <<>>
      BY <1>1, <1>2, <3>2 DEF Compare, NoCall
    <3>3. CASE Compare(c) /\ call[c].claimed # <<>> /\ Owns(c, Head(call[c].claimed).slot)
      BY <1>1, <1>2, <3>3 DEF Compare, NoCall
    <3>4. CASE Compare(c) /\ call[c].claimed # <<>> /\ ~Owns(c, Head(call[c].claimed).slot)
      <4>1. call' = [call EXCEPT ![c].claimed = Tail(@)] /\ call[c].pc = "compare"
        BY <3>4 DEF Compare
      <4>2. QED
        BY <1>1, <1>2, <4>1 DEF NoCall
    <3>5. QED
      BY <1>9, <3>1, <3>2, <3>3, <3>4
  <2>2. QED
    BY <1>2, <2>1 DEF ToldOf, AnsweredAtOnce
<1>10. CASE CacheFails(c)
  <2>1. CASE call' = [call EXCEPT ![c].pc = "keyslot"]
    BY <1>1, <1>2, <1>3, <2>1 DEF NoCall
  <2>2. CASE call' = [call EXCEPT ![c].pc = "compare", ![c].then = "run", ![c].lost = TRUE]
    <3>1. call'[c].pc = "compare" /\ call'[c].then = "run"
      BY <1>1, <1>2, <2>2 DEF NoCall
    <3>2. QED
      BY <1>2, <3>1 DEF ToldOf, AnsweredAtOnce
  <2>3. CASE /\ call[c].pc \in {"compare", "delete"}
             /\ call' = [call EXCEPT ![c].pc = "compare", ![c].claimed = Tail(@), ![c].lost = TRUE]
    <3>1. /\ call'[c].pc = "compare" /\ call'[c].then = call[c].then
          /\ call'[c].outcome = call[c].outcome
      BY <1>1, <1>2, <2>3 DEF NoCall
    <3>2. QED
      BY <1>2, <2>3, <3>1 DEF ToldOf, AnsweredAtOnce
  <2>4. QED
    BY <1>10, <2>1, <2>2, <2>3 DEF CacheFails
<1>11. QED
  BY <1>5, <1>6, <1>7, <1>8, <1>9, <1>10 DEF AdmissionStep

LEMMA ToldInvNext ==
    ASSUME LimitInv, RunInv, ToldInv, [Next]_mcpVars
    PROVE  ToldInv'
<1>1. ASSUME UNCHANGED <<call, sent>>
      PROVE  ToldInv'
  BY <1>1 DEF ToldInv, ToldOf, AnsweredAtOnce
<1>2. ASSUME NEW c \in Calls, Receive(c)
      PROVE  ToldInv'
  <2>1. /\ CallShape(c) /\ DOMAIN call = Calls /\ sent' = sent /\ c \in DOMAIN sent /\ ToldOf(c)
        /\ \/ call' = [call EXCEPT ![c].pc = "run"]
           \/ /\ call' = [call EXCEPT ![c].pc = "done"]
              /\ sent[c].path = "mcp" => AnsweredAtOnce(sent[c])
           \/ call' = [call EXCEPT ![c].pc = "done", ![c].outcome = "invalid_arguments"]
           \/ call' = [call EXCEPT ![c] = Enter(KeyOf(sent[c]))]
    BY <1>2 DEF LimitInv, ToldInv, Receive, CallTool, Admitting
  <2>2. ToldOf(c)'
    <3>1. CASE call' = [call EXCEPT ![c] = Enter(KeyOf(sent[c]))]
      <4>1. call'[c].pc = "time"
        BY <2>1, <3>1 DEF Enter, NoCall
      <4>2. QED
        BY <2>1, <4>1 DEF ToldOf, AnsweredAtOnce
    <3>2. CASE call' = [call EXCEPT ![c].pc = "run"]
      <4>1. call'[c].pc = "run"
        BY <2>1, <3>2 DEF CallShape, NoCall
      <4>2. QED
        BY <2>1, <4>1 DEF ToldOf, AnsweredAtOnce
    <3>3. CASE /\ call' = [call EXCEPT ![c].pc = "done"]
               /\ sent[c].path = "mcp" => AnsweredAtOnce(sent[c])
      <4>1. call'[c].pc = "done"
        BY <2>1, <3>3 DEF CallShape, NoCall
      <4>2. QED
        BY <2>1, <3>3, <4>1 DEF ToldOf, AnsweredAtOnce
    <3>4. CASE call' = [call EXCEPT ![c].pc = "done", ![c].outcome = "invalid_arguments"]
      <4>1. call'[c].pc = "done" /\ call'[c].outcome = "invalid_arguments"
        BY <2>1, <3>4 DEF CallShape, NoCall
      <4>2. QED
        BY <2>1, <4>1 DEF ToldOf, AnsweredAtOnce, Codes
    <3>5. QED
      BY <2>1, <3>1, <3>2, <3>3, <3>4
  <2>3. QED
    BY <2>1, <2>2, ToldFrame
<1>3. ASSUME NEW c \in Calls, Return(c)
      PROVE  ToldInv'
  <2>1. PICK o \in Outcomes :
            /\ call' = [call EXCEPT ![c].pc = "compare", ![c].then = "done",
                                    ![c].outcome = ReportOf(sent[c], o)]
            /\ RunEnds(c, o)
    BY <1>3 DEF Return
  <2>2. CallShape(c) /\ DOMAIN call = Calls /\ sent' = sent /\ o # "none"
    BY <1>3, <2>1 DEF LimitInv, Return, RunEnds, RunInv
  <2>3. call'[c].pc = "compare" /\ call'[c].outcome = ReportOf(sent[c], o)
    BY <2>1, <2>2 DEF CallShape, NoCall
  <2>4. ReportOf(sent[c], o) \in Codes
    BY <2>1, <2>2 DEF ReportOf, Outcomes, Codes
  <2>5. ASSUME c \in DOMAIN sent PROVE ToldOf(c)'
    BY <2>2, <2>3, <2>4, <2>5 DEF ToldInv, ToldOf, AnsweredAtOnce
  <2>6. QED
    BY <2>1, <2>2, <2>5, ToldFrame
<1>4. ASSUME NEW c \in Calls, Kill(c)
      PROVE  ToldInv'
  <2>1. CallShape(c) /\ DOMAIN call = Calls /\ sent' = sent
        /\ call' = [call EXCEPT ![c].pc = "killed", ![c].claimed = <<>>]
    BY <1>4 DEF LimitInv, Kill
  <2>2. call'[c].pc = "killed"
    BY <2>1 DEF CallShape, NoCall
  <2>3. ASSUME c \in DOMAIN sent PROVE ToldOf(c)'
    BY <2>1, <2>2, <2>3 DEF ToldInv, ToldOf, AnsweredAtOnce
  <2>4. QED
    BY <2>1, <2>3, ToldFrame
<1>5. ASSUME NEW c \in Calls, AdmissionStep(c), UNCHANGED <<guardVars, scene, sent, issued>>
      PROVE  ToldInv'
  BY <1>5, AdmissionTells
<1>6. ASSUME NEW c \in Calls, GuardStep(c), UNCHANGED <<admissionVars, scene, sent, issued>>
      PROVE  ToldInv'
  BY <1>1, <1>6 DEF admissionVars
<1>7. CASE Tick /\ UNCHANGED <<guard, admissionVars, scene, sent, issued>>
  BY <1>1, <1>7 DEF admissionVars
<1>8. CASE UNCHANGED mcpVars
  BY <1>1, <1>8 DEF mcpVars, admissionVars
<1>9. QED
  BY <1>2, <1>3, <1>4, <1>5, <1>6, <1>7, <1>8 DEF Next

\* What a message is, and what the code answers it.
LEMMA MessagesAreAnswered ==
    ASSUME NEW m \in Messages, NEW outcome
    PROVE  LET a == Answered(m, outcome)
               sound == m.origin # "other" /\ m.verb = "POST" /\ m.content = "object" /\ m.version
               named == m.method \notin {"absent", "not_string"} /\ m.params = "object"
           IN  /\ a.id = "request" \/ a.http = 500 <=> sound /\ m.id = "valid" /\ named
               /\ a.http = 202 <=> /\ sound
                                   /\ \/ m.id = "absent" /\ named
                                      \/ m.id = "valid" /\ m.method = "absent" /\ m.reply
               /\ a.id = "null" => a.http >= 400 /\ a.body = "error"
               /\ a.body = "result" /\ m.method = "tools/call" =>
                     ~AnsweredAtOnce(m) /\ a.code = outcome /\ outcome \notin {"database_error", "interface_error"}
<1>1. /\ m.version \in BOOLEAN /\ m.reply \in BOOLEAN
      /\ m.id \in {"absent", "valid", "invalid"} /\ m.params \in {"object", "other"}
      /\ m.content \in {"object", "array", "scalar", "other_type", "not_json"}
  BY DEF Messages
<1>2. CASE m.origin = "other" \/ m.verb # "POST" \/ BodyError(m) # "none" \/ MessageError(m) # "none"
  BY <1>1, <1>2 DEF Answered, Answer, OriginAllowed, BodyError, MessageError, IsReply
<1>3. CASE ~(m.origin = "other" \/ m.verb # "POST" \/ BodyError(m) # "none" \/ MessageError(m) # "none")
  BY <1>1, <1>3 DEF Answered, Answer, OriginAllowed, BodyError, MessageError, IsReply, IsRequest,
                    MethodError, AnsweredAtOnce
<1>4. QED
  BY <1>2, <1>3

\* Every message gets the answer that fits it, whatever the limits, the guard and
\* the database do: a request its own identifier, a notification no body, a
\* message that cannot be read a 4xx, and an understood tool call a result
\* (chat_mcp/views.py, chat_mcp/protocol.py).
THEOREM AnswersFit == Spec => []AnswerFitsMessage
<1>1. Init => ToldInv
  BY McpAssumption DEF Init, ToldInv, ToldOf, NoCall
<1>2. LimitInv /\ ToldInv => AnswerFitsMessage
  <2> SUFFICES ASSUME LimitInv, ToldInv, NEW c \in DOMAIN sent, sent[c].path = "mcp",
                      call[c].pc = "done"
               PROVE  LET m == sent[c]
                          a == Answered(m, call[c].outcome)
                          sound == /\ m.origin # "other" /\ m.verb = "POST"
                                   /\ m.content = "object" /\ m.version
                          named == m.method \notin {"absent", "not_string"} /\ m.params = "object"
                      IN  /\ a.id = "request" \/ a.http = 500 <=> sound /\ m.id = "valid" /\ named
                          /\ a.http = 202 <=> /\ sound
                                              /\ \/ m.id = "absent" /\ named
                                                 \/ m.id = "valid" /\ m.method = "absent" /\ m.reply
                          /\ a.id = "null" => a.http >= 400 /\ a.body = "error"
                          /\ a.body = "result" /\ m.method = "tools/call" =>
                                a.code \in {"ok", "invalid_arguments", "rate_limited", "busy",
                                            "refused", "query_too_expensive",
                                            "service_unavailable", "database_unavailable"}
    BY DEF AnswerFitsMessage
  <2>1. sent[c] \in Messages /\ (~AnsweredAtOnce(sent[c]) => call[c].outcome \in Codes)
    BY DEF ToldInv, ToldOf
  <2>2. QED
    BY <2>1, MessagesAreAnswered DEF Codes
<1>3. QED
  BY <1>1, <1>2, LimitInvHolds, RunInvHolds, ToldInvNext, PTL DEF Spec

\* Answers fit their messages and the state of the service.
THEOREM AnswersStayRight == Spec => []AnswersAreRight
BY AnswersFit, StatusStaysHonest, PTL DEF AnswersAreRight

\* Results and outages are told by the clock, for every plan and every fault.
THEOREM OutcomesAreInTime == Spec => []OutcomeMeansInTime
BY AnswersAreInTime, OutagesAreInTime, PTL DEF OutcomeMeansInTime

\* No call that has left or was not understood keeps a slot or a token.
THEOREM NothingStays == Spec => []NothingIsKept
BY SlotsComeBack, BadCallsCostNothing, PTL DEF NothingIsKept

-----------------------------------------------------------------------------
\* The rate of the calls that are let through.

LEMMA DivMod ==
    ASSUME NEW a \in Int, NEW w \in Nat \ {0}
    PROVE  /\ a \div w \in Int /\ a % w \in 0 .. w - 1
           /\ a = w * (a \div w) + (a % w)
           /\ w * (a \div w) \in Int
<1>1. a \div w \in Int
    OBVIOUS
<1>2. a % w \in 0 .. w - 1
    OBVIOUS
<1>3. w * (a \div w) \in Int
    BY <1>1
<1>4. a = w * (a \div w) + (a % w)
    OBVIOUS
<1> QED BY <1>1, <1>2, <1>3, <1>4

LEMMA TimesLess ==
    ASSUME NEW a \in Int, NEW b \in Int, NEW c \in Nat, a <= b
    PROVE  a * c <= b * c /\ c * a <= c * b /\ a * c \in Int /\ b * c \in Int
OBVIOUS

LEMMA CancelTimes ==
    ASSUME NEW a \in Int, NEW b \in Int, NEW c \in Nat \ {0}, a * c <= b * c
    PROVE  a <= b
OBVIOUS

LEMMA DivMono ==
    ASSUME NEW a \in Int, NEW b \in Int, NEW w \in Nat \ {0}, a <= b
    PROVE  a \div w <= b \div w
<1>1. PICK p \in Int, r \in 0 .. w - 1 : p = a \div w /\ a = w * p + r
    BY DivMod
<1>2. PICK q \in Int, s \in 0 .. w - 1 : q = b \div w /\ b = w * q + s
    BY DivMod
<1>3. ~(q + 1 <= p)
    <2>1. ASSUME q + 1 <= p PROVE FALSE
        <3>1. w * (q + 1) <= w * p /\ w * (q + 1) = w * q + w /\ w * q \in Int /\ w * p \in Int
            BY <2>1, TimesLess
        <3> QED BY <1>1, <1>2, <3>1
    <2> QED BY <2>1
<1> QED BY <1>1, <1>2, <1>3

\* A call that stands in the counter of its window, or may have been admitted.
Counted(c) == call[c].pc \in {"previous", "uncount"} \/ call[c].admitted

Standing(k, i) == {c \in Calls : Counted(c) /\ call[c].key = k /\ Index(c) = i}

\* The calls of the window before, that were counted in it.
Earlier(c) == {d \in Standing(call[c].key, Index(c) - 1) : ~call[d].late}

Elapsed(c) == call[c].at % Window(call[c].key)

PreviousFits(c) == Fits(call[c].key, call[c].current, Cardinality(Earlier(c)), Elapsed(c))

\* A counter covers the calls that stand in it; whichever of them are looked at,
\* one was counted after as many.
CounterCovers(k, i) ==
    /\ IsFiniteSet(Standing(k, i))
    /\ Cardinality(Standing(k, i)) <= CountOf(k, i)
    /\ \A set \in SUBSET Standing(k, i) :
          set # {} => \E c \in set : Cardinality(set) <= call[c].current

Limited == {"time", "count", "previous", "uncount"}

RateShape(c) ==
    /\ call[c].pc \in Limited => call[c].key \in Keys
    /\ call[c].pc \in Limited \/ call[c].admitted => Client(c) = call[c].key
    /\ call[c].pc = "count" \/ Counted(c) \/ call[c].outcome = "rate_limited" =>
          call[c].key \in Keys /\ call[c].at \in StartTime .. clock
    /\ Counted(c) \/ call[c].outcome = "rate_limited" => call[c].current \in Nat \ {0}
    /\ call[c].pc \in Limited \cup {"idle"} => ~call[c].admitted
    /\ call[c].outcome = "rate_limited" => call[c].pc = "done"
    /\ call[c].pc = "uncount" \/ call[c].outcome = "rate_limited" =>
          /\ call[c].previous \in Nat
          /\ ~Fits(call[c].key, call[c].current, call[c].previous, Elapsed(c))
    /\ call[c].outcome = "rate_limited" => call[c].retry = RetryAfter(c)

CountersTyped ==
    /\ DOMAIN rates = Keys
    /\ \A k \in Keys : /\ \A i \in DOMAIN rates[k] : i \in Int /\ rates[k][i] \in Int
                       /\ \A t \in StartTime .. MaxTime : t \div Window(k) \in DOMAIN rates[k]

RateInv ==
    /\ clock \in StartTime .. MaxTime
    /\ CountersTyped
    /\ \A c \in Calls : RateShape(c)
    /\ \A k \in Keys, i \in Int : CounterCovers(k, i)
    /\ \A c \in Calls : Admitted(c) => PreviousFits(c)

LEMMA RateTyped ==
    ASSUME NEW k \in Keys
    PROVE  Window(k) \in Nat \ {0} /\ Burst(k) \in Nat \ {0}
BY McpAssumption, AdmissionAssumption DEF Window, Burst

LEMMA CountTyped ==
    ASSUME CountersTyped, NEW k \in Keys, NEW i \in Int
    PROVE  CountOf(k, i) \in Int
BY DEF CountersTyped, CountOf

\* A smaller count of the window before fits as well.
LEMMA FitsLess ==
    ASSUME NEW k \in Keys, NEW n \in Int, NEW p \in Int, NEW q \in Int, q <= p,
           NEW e \in 0 .. Window(k) - 1, Fits(k, n, p, e)
    PROVE  Fits(k, n, q, e)
<1>1. PICK w \in Nat \ {0}, b \in Nat \ {0} : w = Window(k) /\ b = Burst(k)
    BY RateTyped
<1>2. PICK r \in Nat : r = w - e
    BY <1>1
<1>3. q * r <= p * r /\ q * r \in Int /\ p * r \in Int
    BY <1>2, TimesLess
<1>4. n * w + p * r <= b * w /\ n * w \in Int /\ b * w \in Int
    BY <1>1, <1>2 DEF Fits
<1>5. n * w + q * r <= b * w
    BY <1>3, <1>4
<1> QED BY <1>1, <1>2, <1>5 DEF Fits

LEMMA CoversLess ==
    ASSUME NEW k, NEW i, CounterCovers(k, i), Standing(k, i)' \subseteq Standing(k, i),
           \A d \in Standing(k, i)' : call'[d].current = call[d].current,
           Cardinality(Standing(k, i)') <= CountOf(k, i)'
    PROVE  CounterCovers(k, i)'
<1>1. IsFiniteSet(Standing(k, i)')
    BY FS_Subset DEF CounterCovers
<1>2. ASSUME NEW set \in SUBSET Standing(k, i)', set # {}
      PROVE  \E c \in set : Cardinality(set) <= call'[c].current
    BY <1>2 DEF CounterCovers
<1> QED BY <1>1, <1>2 DEF CounterCovers

\* What was counted in the window before a call was admitted does not grow.
LEMMA PreviousStays ==
    ASSUME RateInv, NEW d \in Calls, Counted(d), PreviousFits(d), Earlier(d)' \subseteq Earlier(d),
           call'[d].key = call[d].key, call'[d].at = call[d].at,
           call'[d].current = call[d].current
    PROVE  PreviousFits(d)'
<1>2. call[d].key \in Keys /\ call[d].at \in Int /\ call[d].current \in Nat
    BY McpAssumption DEF RateInv, RateShape
<1>3. Window(call[d].key) \in Nat \ {0} /\ Index(d) \in Int
      /\ Elapsed(d) \in 0 .. Window(call[d].key) - 1
    BY <1>2, RateTyped, DivMod DEF Index, Elapsed
<1>4. CounterCovers(call[d].key, Index(d) - 1)
    BY <1>2, <1>3 DEF RateInv
<1>5. IsFiniteSet(Earlier(d))
    BY <1>4, FS_Subset DEF CounterCovers, Earlier
<1>6. /\ Cardinality(Earlier(d)') <= Cardinality(Earlier(d))
      /\ Cardinality(Earlier(d)') \in Nat /\ Cardinality(Earlier(d)) \in Nat
    BY <1>5, FS_Subset, FS_CardinalityType
<1>7. Fits(call[d].key, call[d].current, Cardinality(Earlier(d)'), Elapsed(d))
    BY <1>2, <1>3, <1>6, FitsLess DEF PreviousFits
<1> QED BY <1>7 DEF PreviousFits, Elapsed

\* A step of one call that none joins the counters by.
LEMMA RateFrame ==
    ASSUME RateInv, NEW c \in Calls,
           \A d \in Calls \ {c} : call'[d] = call[d],
           UNCHANGED <<clock, sent>>, CountersTyped', RateShape(c)',
           Counted(c)' => /\ Counted(c)
                          /\ call'[c].key = call[c].key /\ call'[c].at = call[c].at
                          /\ call'[c].current = call[c].current /\ call'[c].late = call[c].late,
           Admitted(c)' => PreviousFits(c),
           \A k \in Keys, i \in Int : Cardinality(Standing(k, i)') <= CountOf(k, i)'
    PROVE  RateInv'
<1>1. \A d \in Calls : RateShape(d)'
    <2> SUFFICES ASSUME NEW d \in Calls \ {c} PROVE RateShape(d)'
        OBVIOUS
    <2>1. RateShape(d) /\ call'[d] = call[d]
        BY DEF RateInv
    <2> QED BY <2>1 DEF RateShape, Counted, Limited, Client, Elapsed, RetryAfter
<1>2. ASSUME NEW k, NEW i
      PROVE  Standing(k, i)' \subseteq Standing(k, i)
    BY DEF Standing, Counted, Index
<1>3. \A k \in Keys, i \in Int : CounterCovers(k, i)'
    <2> SUFFICES ASSUME NEW k \in Keys, NEW i \in Int PROVE CounterCovers(k, i)'
        OBVIOUS
    <2>1. CounterCovers(k, i)
        BY DEF RateInv
    <2>2. \A d \in Standing(k, i)' : call'[d].current = call[d].current
        BY DEF Standing
    <2> QED BY <1>2, <2>1, <2>2, CoversLess
<1>4. \A d \in Calls : Admitted(d)' => PreviousFits(d)'
    <2> SUFFICES ASSUME NEW d \in Calls, Admitted(d)' PROVE PreviousFits(d)'
        OBVIOUS
    <2>1. Counted(d)'
        BY DEF Admitted, Counted
    <2>2. /\ call'[d].key = call[d].key /\ call'[d].at = call[d].at
          /\ call'[d].current = call[d].current /\ Counted(d)
        BY <2>1 DEF Counted
    <2>6. Earlier(d)' \subseteq Earlier(d)
        <3> SUFFICES ASSUME NEW e \in Earlier(d)' PROVE e \in Earlier(d)
            OBVIOUS
        <3>1. e \in Calls /\ Counted(e)' /\ ~call'[e].late
            BY DEF Earlier, Standing
        <3>2. call'[e].late = call[e].late
            BY <3>1
        <3>3. Index(d)' = Index(d)
            BY <2>2 DEF Index
        <3>4. e \in Standing(call[d].key, Index(d) - 1)'
            BY <2>2, <3>3 DEF Earlier
        <3>5. e \in Standing(call[d].key, Index(d) - 1)
            BY <1>2, <3>4, <2>2, <3>3 DEF Standing, Counted, Index
        <3> QED BY <3>1, <3>2, <3>5 DEF Earlier
    <2>7. PreviousFits(d)
        BY DEF RateInv, Admitted
    <2> QED BY <2>2, <2>6, <2>7, PreviousStays
<1> QED BY <1>1, <1>3, <1>4 DEF RateInv

LEMMA AddedCounts ==
    ASSUME CountersTyped, NEW c \in Calls, call[c].key \in Keys,
           call[c].at \in StartTime .. MaxTime, NEW n \in Int, rates' = Added(c, n)
    PROVE  /\ CountersTyped'
           /\ \A k \in Keys, i \in Int :
                 CountOf(k, i)' = CountOf(k, i) +
                     (IF k = call[c].key /\ i = Index(c) THEN n ELSE 0)
<1>1. PICK key \in Keys : key = call[c].key
    OBVIOUS
<1>2. PICK w \in Int : w = Index(c) /\ w \in DOMAIN rates[key]
    BY <1>1 DEF CountersTyped, Index
<1>3. rates' = [rates EXCEPT ![key][w] = @ + n]
    BY <1>1, <1>2 DEF Added
<1>4. /\ DOMAIN rates' = Keys /\ \A k \in Keys : DOMAIN rates'[k] = DOMAIN rates[k]
      /\ \A k \in Keys : \A i \in DOMAIN rates[k] :
            rates'[k][i] = IF k = key /\ i = w THEN rates[k][i] + n ELSE rates[k][i]
    BY <1>1, <1>2, <1>3 DEF CountersTyped
<1>5. CountersTyped'
    BY <1>4 DEF CountersTyped
<1>6. ASSUME NEW k \in Keys, NEW i \in Int
      PROVE  CountOf(k, i)' = CountOf(k, i) + (IF k = key /\ i = w THEN n ELSE 0)
    <2>1. CASE i \in DOMAIN rates[k]
        <3>1. rates[k][i] \in Int /\ CountOf(k, i) = rates[k][i] /\ CountOf(k, i)' = rates'[k][i]
            BY <1>4, <2>1 DEF CountersTyped, CountOf
        <3> QED BY <1>4, <2>1, <3>1
    <2>2. CASE i \notin DOMAIN rates[k]
        BY <1>2, <1>4, <2>2 DEF CountOf
    <2> QED BY <2>1, <2>2
<1> QED BY <1>1, <1>2, <1>5, <1>6

\* A step that counts no call, and lowers no counter.
LEMMA RateLeaves ==
    ASSUME RateInv, NEW c \in Calls,
           \A d \in Calls \ {c} : call'[d] = call[d],
           UNCHANGED <<clock, sent>>, CountersTyped', RateShape(c)',
           Counted(c)' => /\ Counted(c)
                          /\ call'[c].key = call[c].key /\ call'[c].at = call[c].at
                          /\ call'[c].current = call[c].current /\ call'[c].late = call[c].late,
           Admitted(c)' => PreviousFits(c),
           \A k \in Keys, i \in Int : CountOf(k, i) <= CountOf(k, i)'
    PROVE  RateInv'
<1>1. ASSUME NEW k \in Keys, NEW i \in Int
      PROVE  Cardinality(Standing(k, i)') <= CountOf(k, i)'
    <2>1. CounterCovers(k, i)
        BY DEF RateInv
    <2>2. Standing(k, i)' \subseteq Standing(k, i)
        BY DEF Standing, Counted, Index
    <2>3. /\ Cardinality(Standing(k, i)') <= Cardinality(Standing(k, i))
          /\ Cardinality(Standing(k, i)') \in Nat /\ Cardinality(Standing(k, i)) \in Nat
        BY <2>1, <2>2, FS_Subset, FS_CardinalityType DEF CounterCovers
    <2>4. CountOf(k, i) \in Int /\ CountOf(k, i)' \in Int
        <3>1. CountOf(k, i) \in Int
            BY CountTyped DEF RateInv
        <3>2. CountOf(k, i)' \in Int
            BY DEF CountersTyped, CountOf
        <3> QED BY <3>1, <3>2
    <2> QED BY <2>1, <2>3, <2>4 DEF CounterCovers
<1> QED BY <1>1, RateFrame

\* A step that leaves the counters and what was counted alone.
LEMMA RateStays ==
    ASSUME RateInv, NEW c \in Calls,
           \A d \in Calls \ {c} : call'[d] = call[d],
           UNCHANGED <<clock, sent, rates>>, RateShape(c)',
           Counted(c)' => /\ Counted(c)
                          /\ call'[c].key = call[c].key /\ call'[c].at = call[c].at
                          /\ call'[c].current = call[c].current /\ call'[c].late = call[c].late,
           call'[c].admitted => call[c].admitted
    PROVE  RateInv'
<1>1. CountersTyped'
    BY DEF RateInv, CountersTyped
<1>2. Admitted(c)' => PreviousFits(c)
    <2> SUFFICES ASSUME Admitted(c)' PROVE PreviousFits(c)
        OBVIOUS
    <2>1. Admitted(c)
        BY DEF Admitted, Counted
    <2> QED BY <2>1 DEF RateInv
<1>3. ASSUME NEW k \in Keys, NEW i \in Int
      PROVE  CountOf(k, i) <= CountOf(k, i)'
    <2>1. CountOf(k, i)' = CountOf(k, i)
        BY DEF CountOf
    <2>2. CountOf(k, i) \in Int
        BY CountTyped DEF RateInv
    <2> QED BY <2>1, <2>2
<1> QED BY <1>1, <1>2, <1>3, RateLeaves

\* A step past the limits, or out of them.
LEMMA QuietStep ==
    ASSUME RateInv, NEW c \in Calls,
           \A d \in Calls \ {c} : call'[d] = call[d],
           UNCHANGED <<clock, sent, rates>>,
           call'[c].pc \notin Limited \cup {"idle"}, call'[c].outcome # "rate_limited",
           call'[c].admitted = call[c].admitted, call'[c].key = call[c].key,
           call'[c].at = call[c].at, call'[c].current = call[c].current,
           call'[c].late = call[c].late
    PROVE  RateInv'
<1>1. Counted(c)' => call[c].admitted
    BY DEF Counted, Limited
<1>2. RateShape(c)
    BY DEF RateInv
<1>3. Counted(c)' => Counted(c)
    BY <1>1 DEF Counted
<1>4. RateShape(c)'
    BY <1>1, <1>2, <1>3 DEF RateShape, Counted, Limited, Client
<1> QED BY <1>3, <1>4, RateStays

LEMMA ArrivalRates ==
    ASSUME LimitInv, RateInv, NEW c \in Calls, Receive(c)
    PROVE  RateInv'
<1>1. /\ CallShape(c) /\ call[c].pc = "idle" /\ DOMAIN call = Calls /\ c \in DOMAIN sent
      /\ UNCHANGED <<clock, sent, rates>> /\ RateShape(c)
      /\ \/ call' = [call EXCEPT ![c].pc = "run"]
         \/ call' = [call EXCEPT ![c].pc = "done"]
         \/ call' = [call EXCEPT ![c].pc = "done", ![c].outcome = "invalid_arguments"]
         \/ call' = [call EXCEPT ![c] = Enter(KeyOf(sent[c]))]
    BY DEF LimitInv, RateInv, Receive, CallTool, Admitting
<1>2. CASE call' = [call EXCEPT ![c] = Enter(KeyOf(sent[c]))]
    <2>1. /\ \A d \in Calls \ {c} : call'[d] = call[d]
          /\ call'[c].pc = "time" /\ call'[c].key = KeyOf(sent[c]) /\ ~call'[c].admitted
          /\ call'[c].outcome = "none"
        BY <1>1, <1>2 DEF Enter, NoCall
    <2>2. KeyOf(sent[c]) \in Keys
        BY <1>1, CallerHasKey
    <2>3. Client(c)' = call'[c].key
        BY <1>1, <2>1 DEF Client, KeyOf
    <2>4. RateShape(c)' /\ ~Counted(c)'
        BY <2>1, <2>2, <2>3 DEF RateShape, Counted, Limited
    <2> QED BY <1>1, <2>1, <2>4, RateStays
<1>3. CASE call' # [call EXCEPT ![c] = Enter(KeyOf(sent[c]))]
    <2>1. /\ \A d \in Calls \ {c} : call'[d] = call[d]
          /\ call'[c].pc \in {"run", "done"}
          /\ call'[c].admitted = call[c].admitted /\ call'[c].key = call[c].key
          /\ call'[c].at = call[c].at /\ call'[c].current = call[c].current
          /\ call'[c].late = call[c].late
          /\ call'[c].outcome \in {call[c].outcome, "invalid_arguments"}
        BY <1>1, <1>3 DEF CallShape, NoCall
    <2>2. call[c].outcome # "rate_limited"
        BY <1>1 DEF RateShape
    <2> QED BY <1>1, <2>1, <2>2, QuietStep DEF Limited
<1> QED BY <1>2, <1>3

LEMMA DepartureRates ==
    ASSUME LimitInv, RateInv, NEW c \in Calls, Return(c) \/ Kill(c)
    PROVE  RateInv'
<1>1. /\ CallShape(c) /\ DOMAIN call = Calls /\ RateShape(c)
      /\ UNCHANGED <<clock, sent, rates>> /\ call[c].pc # "done"
    BY DEF LimitInv, RateInv, Return, Kill
<1>2. call[c].outcome # "rate_limited"
    BY <1>1 DEF RateShape
<1>3. CASE Return(c)
    <2>1. PICK outcome \in Outcomes :
              call' = [call EXCEPT ![c].pc = "compare", ![c].then = "done",
                                   ![c].outcome = ReportOf(sent[c], outcome)]
        BY <1>3 DEF Return
    <2>2. ReportOf(sent[c], outcome) # "rate_limited"
        BY DEF ReportOf, Outcomes
    <2>3. /\ \A d \in Calls \ {c} : call'[d] = call[d]
          /\ call'[c].pc = "compare" /\ call'[c].outcome # "rate_limited"
          /\ call'[c].admitted = call[c].admitted /\ call'[c].key = call[c].key
          /\ call'[c].at = call[c].at /\ call'[c].current = call[c].current
          /\ call'[c].late = call[c].late
        BY <1>1, <2>1, <2>2 DEF CallShape, NoCall
    <2> QED BY <1>1, <2>3, QuietStep DEF Limited
<1>4. CASE Kill(c)
    <2>1. /\ \A d \in Calls \ {c} : call'[d] = call[d]
          /\ call'[c].pc = "killed" /\ call'[c].outcome = call[c].outcome
          /\ call'[c].admitted = call[c].admitted /\ call'[c].key = call[c].key
          /\ call'[c].at = call[c].at /\ call'[c].current = call[c].current
          /\ call'[c].late = call[c].late
        BY <1>1, <1>4 DEF Kill, CallShape, NoCall
    <2> QED BY <1>1, <1>2, <2>1, QuietStep DEF Limited
<1> QED BY <1>3, <1>4

\* The slots leave the counters alone.
LEMMA SlotRates ==
    ASSUME LimitInv, RateInv, NEW c \in Calls, ClaimSlot(c) \/ Compare(c) \/ Delete(c),
           UNCHANGED <<clock, sent>>
    PROVE  RateInv'
<1>1. /\ CallShape(c) /\ DOMAIN call = Calls /\ RateShape(c)
      /\ UNCHANGED rates /\ call[c].pc \in {"keyslot", "slot", "compare", "delete"}
    BY DEF LimitInv, RateInv, ClaimSlot, Compare, Delete
<1>2. call[c].outcome # "rate_limited"
    BY <1>1 DEF RateShape
<1>3. /\ \A d \in Calls \ {c} : call'[d] = call[d]
      /\ call'[c].pc \in {"keyslot", "slot", "run", "compare", "delete", "done"}
      /\ call'[c].outcome # "rate_limited"
      /\ call'[c].admitted = call[c].admitted /\ call'[c].key = call[c].key
      /\ call'[c].at = call[c].at /\ call'[c].current = call[c].current
      /\ call'[c].late = call[c].late
    <2> USE <1>1, <1>2 DEF CallShape, NoCall
    <2>1. CASE ClaimSlot(c)
        <3>1. CASE ~Held(Candidate(c))
            BY <2>1, <3>1 DEF ClaimSlot
        <3>2. CASE Held(Candidate(c)) /\ Exhausted(c)
            <4>1. call' = [call EXCEPT ![c] = BusyCall(c)]
                BY <2>1, <3>2 DEF ClaimSlot
            <4> QED BY <4>1 DEF BusyCall
        <3>3. CASE Held(Candidate(c)) /\ ~Exhausted(c)
            <4>1. call' = [call EXCEPT ![c] = [call[c] EXCEPT !.i = call[c].i + 1]]
                BY <2>1, <3>3 DEF ClaimSlot
            <4> QED BY <4>1
        <3> QED BY <3>1, <3>2, <3>3
    <2>2. CASE Compare(c)
        <3>1. /\ DOMAIN call[c] = DOMAIN NoCall
              /\ \/ call' = [call EXCEPT ![c].pc = call[c].then]
                 \/ \E b : call' = [call EXCEPT ![c].pc = "delete", ![c].kept = b]
                 \/ call' = [call EXCEPT ![c].claimed = Tail(@)]
            <4> USE <2>2 DEF Compare
            <4>1. CASE call[c].claimed = <<>>
                BY <4>1
            <4>2. CASE call[c].claimed # <<>> /\ Owns(c, Head(call[c].claimed).slot)
                BY <4>2
            <4>3. CASE call[c].claimed # <<>> /\ ~Owns(c, Head(call[c].claimed).slot)
                BY <4>3
            <4> QED BY <4>1, <4>2, <4>3
        <3>2. CASE call' = [call EXCEPT ![c].pc = call[c].then]
            BY <3>1, <3>2
        <3>3. CASE \E b : call' = [call EXCEPT ![c].pc = "delete", ![c].kept = b]
            <4>1. PICK b : call' = [call EXCEPT ![c].pc = "delete", ![c].kept = b]
                BY <3>3
            <4> QED BY <3>1, <4>1
        <3>4. CASE call' = [call EXCEPT ![c].claimed = Tail(@)]
            BY <3>1, <3>4
        <3> QED BY <3>1, <3>2, <3>3, <3>4
    <2>3. CASE Delete(c)
        BY <2>3 DEF Delete
    <2> QED BY <2>1, <2>2, <2>3
<1> QED BY <1>1, <1>3, QuietStep DEF Limited

LEMMA TimeRates ==
    ASSUME LimitInv, RateInv, NEW c \in Calls, ReadTime(c), UNCHANGED <<clock, sent>>
    PROVE  RateInv'
<1>1. /\ DOMAIN call[c] = DOMAIN NoCall /\ DOMAIN call = Calls /\ RateShape(c)
      /\ call[c].pc = "time" /\ call' = [call EXCEPT ![c].pc = "count", ![c].at = clock]
      /\ UNCHANGED rates
    BY DEF LimitInv, CallShape, RateInv, ReadTime
<1>2. /\ \A d \in Calls \ {c} : call'[d] = call[d]
      /\ call'[c].pc = "count" /\ call'[c].at = clock
      /\ call'[c].admitted = call[c].admitted /\ call'[c].key = call[c].key
      /\ call'[c].outcome = call[c].outcome
    BY <1>1 DEF NoCall
<1>3. /\ call[c].key \in Keys /\ Client(c) = call[c].key /\ ~call[c].admitted
      /\ call[c].outcome # "rate_limited"
    BY <1>1 DEF RateShape, Limited
<1>4. clock \in StartTime .. clock
    BY McpAssumption DEF RateInv
<1>5. Client(c)' = Client(c)
    BY <1>2 DEF Client
<1>6. ~Counted(c)'
    BY <1>2, <1>3 DEF Counted
<1>7. RateShape(c)'
    BY <1>2, <1>3, <1>4, <1>5, <1>6 DEF RateShape, Limited
<1> QED BY <1>1, <1>2, <1>3, <1>6, <1>7, RateStays

LEMMA PreviousRates ==
    ASSUME LimitInv, RateInv, NEW c \in Calls, ReadPrevious(c), UNCHANGED <<clock, sent>>
    PROVE  RateInv'
<1>1. PICK k \in Keys : k = call[c].key
    BY DEF RateInv, RateShape, ReadPrevious, Limited
<1>2. PICK p : p = CountOf(k, Index(c) - 1)
    OBVIOUS
<1>3. PICK fits \in BOOLEAN : fits = Fits(k, call[c].current, p, call[c].at % Window(k))
    <2>1. ASSUME NEW a, NEW b PROVE (a <= b) \in BOOLEAN
        OBVIOUS
    <2>2. Fits(k, call[c].current, p, call[c].at % Window(k)) \in BOOLEAN
        BY <2>1 DEF Fits
    <2> QED BY <2>2
<1>4. /\ DOMAIN call[c] = DOMAIN NoCall /\ DOMAIN call = Calls /\ RateShape(c)
      /\ call[c].pc = "previous" /\ UNCHANGED rates
      /\ call' = [call EXCEPT ![c].admitted = fits,
                              ![c].previous = IF fits THEN 0 ELSE p,
                              ![c].pc = IF fits THEN "keyslot" ELSE "uncount"]
    BY <1>1, <1>2, <1>3 DEF LimitInv, CallShape, RateInv, ReadPrevious, Admits
<1>5. /\ \A d \in Calls \ {c} : call'[d] = call[d]
      /\ call'[c].key = k /\ call'[c].at = call[c].at
      /\ call'[c].current = call[c].current /\ call'[c].late = call[c].late
      /\ call'[c].outcome = call[c].outcome
      /\ fits => call'[c].pc = "keyslot" /\ call'[c].admitted
      /\ ~fits => call'[c].pc = "uncount" /\ ~call'[c].admitted /\ call'[c].previous = p
    BY <1>1, <1>4 DEF NoCall
<1>6. /\ Counted(c) /\ Client(c) = k /\ call[c].at \in StartTime .. clock
      /\ call[c].current \in Nat \ {0} /\ call[c].outcome # "rate_limited"
    BY <1>1, <1>4 DEF RateShape, Limited, Counted
<1>7. call[c].at \in Int /\ Window(k) \in Nat \ {0} /\ Index(c) \in Int
      /\ Elapsed(c) \in 0 .. Window(k) - 1
    <2>1. call[c].at \in Int /\ Window(k) \in Nat \ {0}
        BY <1>6, McpAssumption, RateTyped
    <2> QED BY <1>1, <2>1, DivMod DEF Index, Elapsed
<1>8. CounterCovers(k, Index(c) - 1) /\ p \in Int
    BY <1>2, <1>7, CountTyped DEF RateInv
<1>9. /\ IsFiniteSet(Earlier(c)) /\ Cardinality(Earlier(c)) \in Nat
      /\ Cardinality(Earlier(c)) <= p /\ p \in Nat
    <2>1. Earlier(c) \subseteq Standing(k, Index(c) - 1)
        BY <1>1 DEF Earlier
    <2>2. /\ IsFiniteSet(Earlier(c)) /\ Cardinality(Earlier(c)) \in Nat
          /\ Cardinality(Earlier(c)) <= Cardinality(Standing(k, Index(c) - 1))
          /\ Cardinality(Standing(k, Index(c) - 1)) \in Nat
        BY <2>1, <1>8, FS_Subset, FS_CardinalityType DEF CounterCovers
    <2> QED BY <2>2, <1>2, <1>8 DEF CounterCovers
<1>10. fits => PreviousFits(c)
    <2> SUFFICES ASSUME fits PROVE PreviousFits(c)
        OBVIOUS
    <2>1. Fits(k, call[c].current, p, Elapsed(c))
        BY <1>1, <1>3 DEF Elapsed
    <2>2. Fits(k, call[c].current, Cardinality(Earlier(c)), Elapsed(c))
        BY <2>1, <1>6, <1>7, <1>9, FitsLess
    <2> QED BY <2>2, <1>1 DEF PreviousFits
<1>11. Client(c)' = k
    BY <1>1, <1>5, <1>6 DEF Client
<1>12. RateShape(c)'
    <2>1. CASE fits
        BY <2>1, <1>1, <1>5, <1>6, <1>11 DEF RateShape, Limited, Counted
    <2>2. CASE ~fits
        <3>1. ~Fits(k, call[c].current, p, Elapsed(c))
            BY <2>2, <1>1, <1>3 DEF Elapsed
        <3>2. Elapsed(c)' = Elapsed(c)
            BY <1>1, <1>5 DEF Elapsed
        <3> QED BY <2>2, <3>1, <3>2, <1>1, <1>5, <1>6, <1>9, <1>11 DEF RateShape, Limited, Counted
    <2> QED BY <2>1, <2>2
<1>13. CountersTyped'
    BY <1>4 DEF RateInv, CountersTyped
<1>14. ASSUME NEW j \in Keys, NEW i \in Int PROVE CountOf(j, i) <= CountOf(j, i)'
    <2>1. CountOf(j, i) \in Int /\ CountOf(j, i)' = CountOf(j, i)
        BY <1>4, CountTyped DEF RateInv, CountOf
    <2> QED BY <2>1
<1>15. Admitted(c)' => PreviousFits(c)
    BY <1>5, <1>10 DEF Admitted
<1> QED BY <1>1, <1>5, <1>6, <1>12, <1>13, <1>14, <1>15, RateLeaves

\* A call that is refused takes its count back.
LEMMA TakenBack ==
    ASSUME RateInv, NEW c \in Calls, call[c].pc = "uncount",
           \A d \in Calls \ {c} : call'[d] = call[d],
           UNCHANGED <<clock, sent>>, rates' = Added(c, -1), RateShape(c)', ~Counted(c)'
    PROVE  RateInv'
<1>1. Counted(c) /\ call[c].key \in Keys /\ call[c].at \in StartTime .. clock
    BY DEF RateInv, RateShape, Counted
<1>2. call[c].at \in StartTime .. MaxTime
    BY <1>1, McpAssumption, GuardAssumption DEF RateInv
<1>3. /\ CountersTyped'
      /\ \A k \in Keys, i \in Int :
            CountOf(k, i)' = CountOf(k, i) + (IF k = call[c].key /\ i = Index(c) THEN -1 ELSE 0)
    BY <1>1, <1>2, AddedCounts DEF RateInv
<1>4. ASSUME NEW k \in Keys, NEW i \in Int
      PROVE  Cardinality(Standing(k, i)') <= CountOf(k, i)'
    <2>1. CounterCovers(k, i) /\ CountOf(k, i) \in Int
        BY CountTyped DEF RateInv
    <2>2. Standing(k, i)' \subseteq Standing(k, i) \ {c}
        BY DEF Standing, Counted, Index
    <2>3. /\ IsFiniteSet(Standing(k, i) \ {c})
          /\ Cardinality(Standing(k, i) \ {c})
               = Cardinality(Standing(k, i)) - (IF c \in Standing(k, i) THEN 1 ELSE 0)
        <3>1. IsFiniteSet(Standing(k, i)) /\ Cardinality(Standing(k, i)) \in Nat
            BY <2>1, FS_CardinalityType DEF CounterCovers
        <3> QED BY <3>1, FS_RemoveElement
    <2>4. /\ Cardinality(Standing(k, i)') <= Cardinality(Standing(k, i) \ {c})
          /\ Cardinality(Standing(k, i)') \in Nat
          /\ Cardinality(Standing(k, i) \ {c}) \in Nat /\ Cardinality(Standing(k, i)) \in Nat
        BY <2>1, <2>2, <2>3, FS_Subset, FS_CardinalityType DEF CounterCovers
    <2>5. c \in Standing(k, i) <=> k = call[c].key /\ i = Index(c)
        BY <1>1 DEF Standing
    <2> QED BY <2>1, <2>3, <2>4, <2>5, <1>3 DEF CounterCovers
<1>5. ~Admitted(c)'
    BY DEF Admitted, Counted
<1> QED BY <1>3, <1>4, <1>5, RateFrame

LEMMA UncountRates ==
    ASSUME LimitInv, RateInv, NEW c \in Calls, Uncount(c), UNCHANGED <<clock, sent>>
    PROVE  RateInv'
<1>1. /\ DOMAIN call[c] = DOMAIN NoCall /\ DOMAIN call = Calls /\ RateShape(c)
      /\ call[c].pc = "uncount" /\ rates' = Added(c, -1)
      /\ call' = [call EXCEPT ![c].pc = "done", ![c].outcome = "rate_limited",
                              ![c].retry = RetryAfter(c)]
    BY DEF LimitInv, CallShape, RateInv, Uncount
<1>2. /\ \A d \in Calls \ {c} : call'[d] = call[d]
      /\ call'[c].key = call[c].key /\ call'[c].at = call[c].at
      /\ call'[c].current = call[c].current /\ call'[c].previous = call[c].previous
      /\ call'[c].admitted = call[c].admitted
      /\ call'[c].pc = "done" /\ call'[c].outcome = "rate_limited"
      /\ call'[c].retry = RetryAfter(c)
    BY <1>1 DEF NoCall
<1>3. /\ call[c].key \in Keys /\ call[c].at \in StartTime .. clock /\ call[c].current \in Nat \ {0}
      /\ ~call[c].admitted /\ call[c].previous \in Nat
      /\ ~Fits(call[c].key, call[c].current, call[c].previous, Elapsed(c))
    BY <1>1 DEF RateShape, Limited, Counted
<1>4. RetryAfter(c)' = RetryAfter(c) /\ Elapsed(c)' = Elapsed(c)
    BY <1>2 DEF RetryAfter, Elapsed
<1>5. ~Counted(c)'
    BY <1>2, <1>3 DEF Counted
<1>6. RateShape(c)'
    BY <1>2, <1>3, <1>4, <1>5 DEF RateShape, Limited
<1> QED BY <1>1, <1>2, <1>5, <1>6, TakenBack

LEMMA CountRates ==
    ASSUME LimitInv, RateInv, NEW c \in Calls, Count(c), UNCHANGED <<clock, sent>>
    PROVE  RateInv'
<1>1. PICK k \in Keys : k = call[c].key
    BY DEF RateInv, RateShape, Count, Limited
<1>2. call[c].at \in StartTime .. clock /\ ~call[c].admitted /\ Client(c) = k
      /\ call[c].outcome # "rate_limited" /\ ~Counted(c)
    BY <1>1 DEF RateInv, RateShape, Count, Limited, Counted
<1>3. call[c].at \in StartTime .. MaxTime /\ call[c].at \in Int /\ Window(k) \in Nat \ {0}
    BY <1>2, McpAssumption, GuardAssumption, RateTyped DEF RateInv
<1>4. PICK w \in Int : w = Index(c)
    BY <1>1, <1>3, DivMod DEF Index
<1>5. PICK n \in Nat : /\ n = CountOf(k, w) /\ CounterCovers(k, w)
                       /\ Cardinality(Standing(k, w)) \in Nat
    <2>1. CounterCovers(k, w) /\ CountOf(k, w) \in Int
        BY <1>4, CountTyped DEF RateInv
    <2>2. Cardinality(Standing(k, w)) \in Nat
        BY <2>1, FS_CardinalityType DEF CounterCovers
    <2> QED BY <2>1, <2>2 DEF CounterCovers
<1>6. /\ DOMAIN call[c] = DOMAIN NoCall /\ DOMAIN call = Calls /\ rates' = Added(c, 1)
      /\ call' = [call EXCEPT ![c].pc = "previous", ![c].current = n + 1,
                              ![c].late = clock \div Window(k) # w]
    BY <1>1, <1>4, <1>5 DEF LimitInv, CallShape, Count
<1>7. /\ \A d \in Calls \ {c} : call'[d] = call[d]
      /\ call'[c].pc = "previous" /\ call'[c].current = n + 1
      /\ call'[c].late = (clock \div Window(k) # w)
      /\ call'[c].key = k /\ call'[c].at = call[c].at
      /\ call'[c].admitted = call[c].admitted /\ call'[c].outcome = call[c].outcome
    BY <1>1, <1>6 DEF NoCall
<1>8. /\ CountersTyped'
      /\ \A j \in Keys, i \in Int :
            CountOf(j, i)' = CountOf(j, i) + (IF j = k /\ i = w THEN 1 ELSE 0)
    <2>1. 1 \in Int /\ CountersTyped
        BY DEF RateInv
    <2> QED BY <1>1, <1>3, <1>4, <1>6, <2>1, AddedCounts
<1>9. \A d \in Calls : RateShape(d)'
    <2>1. ASSUME NEW d \in Calls \ {c} PROVE RateShape(d)'
        <3>1. RateShape(d) /\ call'[d] = call[d]
            BY <1>7 DEF RateInv
        <3> QED BY <3>1 DEF RateShape, Counted, Limited, Client, Elapsed, RetryAfter
    <2>2. Client(c)' = k
        BY <1>1, <1>2, <1>7 DEF Client
    <2>3. RateShape(c)'
        BY <1>2, <1>5, <1>7, <2>2 DEF RateShape, Limited
    <2> QED BY <2>1, <2>3
<1>10. Counted(c)' /\ Index(c)' = w
    BY <1>1, <1>4, <1>7 DEF Counted, Index
<1>11. ASSUME NEW j, NEW i
       PROVE  Standing(j, i)' = Standing(j, i) \cup (IF j = k /\ i = w THEN {c} ELSE {})
    BY <1>2, <1>7, <1>10 DEF Standing, Counted, Index
<1>12. ASSUME NEW j \in Keys, NEW i \in Int PROVE CounterCovers(j, i)'
    <2>1. CounterCovers(j, i) /\ CountOf(j, i) \in Int
        BY CountTyped DEF RateInv
    <2>2. CASE ~(j = k /\ i = w)
        <3>1. Standing(j, i)' = Standing(j, i) /\ CountOf(j, i)' = CountOf(j, i)
            <4>1. CountOf(j, i)' = CountOf(j, i)
                BY <1>8, <2>1, <2>2
            <4>2. Standing(j, i)' = Standing(j, i) \cup {}
                BY <1>11, <2>2
            <4> QED BY <4>1, <4>2
        <3>2. \A d \in Standing(j, i)' : call'[d].current = call[d].current
            BY <1>2, <1>7, <3>1 DEF Standing
        <3> QED BY <2>1, <3>1, <3>2, CoversLess DEF CounterCovers
    <2>3. CASE j = k /\ i = w
        <3>1. Standing(k, w)' = Standing(k, w) \cup {c} /\ CountOf(k, w)' = n + 1
              /\ c \notin Standing(k, w)
            BY <1>2, <1>5, <1>8, <1>11, <1>4 DEF Standing
        <3>2. IsFiniteSet(Standing(k, w)) /\ Cardinality(Standing(k, w)) <= n
            BY <1>5 DEF CounterCovers
        <3>3. /\ IsFiniteSet(Standing(k, w)') /\ Cardinality(Standing(k, w)') \in Nat
              /\ Cardinality(Standing(k, w)') <= n + 1
            BY <3>1, <3>2, <1>5, FS_AddElement
        <3>4. ASSUME NEW set \in SUBSET Standing(k, w)', set # {}
              PROVE  \E d \in set : Cardinality(set) <= call'[d].current
            <4>1. CASE c \in set
                <5>1. Cardinality(set) <= Cardinality(Standing(k, w)') /\ Cardinality(set) \in Nat
                    BY <3>3, FS_Subset, FS_CardinalityType
                <5> QED BY <4>1, <5>1, <3>3, <1>7
            <4>2. CASE c \notin set
                <5>1. set \in SUBSET Standing(k, w)
                    BY <3>1, <4>2
                <5>2. PICK d \in set : Cardinality(set) <= call[d].current
                    BY <5>1, <3>4, <1>5 DEF CounterCovers
                <5>3. d \in Calls \ {c}
                    BY <4>2, <5>1 DEF Standing
                <5> QED BY <5>2, <5>3, <1>7
            <4> QED BY <4>1, <4>2
        <3> QED BY <2>3, <3>1, <3>3, <3>4 DEF CounterCovers
    <2> QED BY <2>2, <2>3
<1>13. ASSUME NEW d \in Calls, Admitted(d)' PROVE PreviousFits(d)'
    <2>1. d # c /\ call'[d] = call[d] /\ Admitted(d)
        BY <1>2, <1>7, <1>13 DEF Admitted
    <2>10. Counted(d) /\ PreviousFits(d)
        BY <2>1 DEF RateInv, Admitted, Counted
    <2>2. call[d].at \in StartTime .. clock /\ call[d].key \in Keys
        BY <2>1 DEF RateInv, RateShape, Counted, Admitted
    <2>3. Index(d)' = Index(d)
        BY <2>1 DEF Index
    <2>4. ~(call[d].key = k /\ Index(d) - 1 = w /\ ~call'[c].late)
        <3> SUFFICES ASSUME call[d].key = k, Index(d) - 1 = w, ~call'[c].late PROVE FALSE
            OBVIOUS
        <3>1. clock \div Window(k) = w
            BY <1>7
        <3>2. call[d].at \in Int /\ clock \in Int /\ call[d].at <= clock
            BY <2>2, McpAssumption DEF RateInv
        <3>3. call[d].at \div Window(k) <= clock \div Window(k)
            BY <1>3, <3>2, DivMono
        <3>4. Index(d) \in Int /\ Index(d) <= w
            BY <3>1, <3>2, <3>3, <1>3, DivMod DEF Index
        <3> QED BY <3>4
    <2>5. Earlier(d)' \subseteq Earlier(d)
        <3> SUFFICES ASSUME NEW e \in Earlier(d)' PROVE e \in Earlier(d)
            OBVIOUS
        <3>1. PICK j, i : j = call[d].key /\ i = Index(d) - 1
            OBVIOUS
        <3>2. e \in Standing(j, i)' /\ ~call'[e].late /\ e \in Calls
            BY <2>1, <2>3, <3>1 DEF Earlier, Standing
        <3>3. e \in Standing(j, i) \cup (IF j = k /\ i = w THEN {c} ELSE {})
            BY <1>11, <3>2
        <3>4. e # c
            <4> SUFFICES ASSUME e = c PROVE FALSE
                OBVIOUS
            <4>1. c \notin Standing(j, i) /\ ~call'[c].late
                BY <1>2, <3>2 DEF Standing
            <4> QED BY <4>1, <2>4, <3>1, <3>3
        <3>5. e \in Standing(j, i)
            BY <3>3, <3>4
        <3> QED BY <1>7, <3>1, <3>2, <3>4, <3>5 DEF Earlier
    <2> QED BY <2>1, <2>5, <2>10, PreviousStays
<1> QED BY <1>8, <1>9, <1>12, <1>13 DEF RateInv

LEMMA FailureRates ==
    ASSUME LimitInv, RateInv, NEW c \in Calls, CacheFails(c), UNCHANGED <<clock, sent>>
    PROVE  RateInv'
<1>1. /\ DOMAIN call[c] = DOMAIN NoCall /\ DOMAIN call = Calls /\ RateShape(c)
      /\ call[c].outcome # "rate_limited"
    BY DEF LimitInv, CallShape, RateInv, RateShape, CacheFails
<1>2. CASE /\ call[c].pc \in {"count", "previous", "uncount"}
           /\ rates' \in {rates} \cup
                 (IF call[c].pc = "count" THEN {Added(c, 1)}
                  ELSE IF call[c].pc = "uncount" THEN {Added(c, -1)} ELSE {})
           /\ call' = [call EXCEPT ![c].pc = "keyslot"]
    <2>1. /\ \A d \in Calls \ {c} : call'[d] = call[d]
          /\ call'[c].pc = "keyslot" /\ call'[c].outcome = call[c].outcome
          /\ call'[c].admitted = call[c].admitted
        BY <1>1, <1>2 DEF NoCall
    <2>2. ~call[c].admitted /\ call[c].key \in Keys /\ call[c].at \in StartTime .. clock
        BY <1>1, <1>2 DEF RateShape, Limited, Counted
    <2>3. ~Counted(c)' /\ ~Admitted(c)'
        BY <2>1, <2>2 DEF Counted, Admitted
    <2>4. RateShape(c)'
        BY <1>1, <2>1, <2>2, <2>3 DEF RateShape, Limited
    <2>5. CASE rates' = rates
        <3>1. call'[c].admitted => call[c].admitted
            BY <2>1
        <3> QED BY <2>1, <2>3, <2>4, <2>5, <3>1, RateStays
    <2>6. CASE rates' = Added(c, 1)
        <3>1. call[c].at \in StartTime .. MaxTime /\ CountersTyped /\ 1 \in Int
            BY <2>2, McpAssumption, GuardAssumption DEF RateInv
        <3>2. /\ CountersTyped'
              /\ \A k \in Keys, i \in Int :
                    CountOf(k, i)' = CountOf(k, i) +
                        (IF k = call[c].key /\ i = Index(c) THEN 1 ELSE 0)
            BY <2>2, <2>6, <3>1, AddedCounts
        <3>3. ASSUME NEW k \in Keys, NEW i \in Int PROVE CountOf(k, i) <= CountOf(k, i)'
            <4>1. CountOf(k, i) \in Int
                BY <3>1, CountTyped
            <4> QED BY <3>2, <4>1
        <3> QED BY <2>1, <2>3, <2>4, <3>2, <3>3, RateLeaves
    <2>7. CASE call[c].pc = "uncount" /\ rates' = Added(c, -1)
        BY <2>1, <2>3, <2>4, <2>7, TakenBack
    <2> QED BY <1>2, <2>5, <2>6, <2>7
<1>3. CASE /\ rates' = rates
           /\ \/ call' = [call EXCEPT ![c].pc = "compare", ![c].then = "run", ![c].lost = TRUE]
              \/ call' = [call EXCEPT ![c].pc = "compare", ![c].claimed = Tail(@),
                                      ![c].lost = TRUE]
    <2>1. /\ \A d \in Calls \ {c} : call'[d] = call[d]
          /\ call'[c].pc = "compare" /\ call'[c].outcome = call[c].outcome
          /\ call'[c].admitted = call[c].admitted /\ call'[c].key = call[c].key
          /\ call'[c].at = call[c].at /\ call'[c].current = call[c].current
          /\ call'[c].late = call[c].late
        BY <1>1, <1>3 DEF NoCall
    <2> QED BY <1>1, <1>3, <2>1, QuietStep DEF Limited
<1> QED BY <1>2, <1>3 DEF CacheFails

LEMMA RateInvNext ==
    ASSUME LimitInv, RateInv, [Next]_mcpVars
    PROVE  RateInv'
<1>1. ASSUME clock' \in clock .. MaxTime, UNCHANGED <<call, rates, sent>>
      PROVE  RateInv'
    <2>1. clock' \in StartTime .. MaxTime /\ clock <= clock' /\ CountersTyped'
        BY <1>1, McpAssumption DEF RateInv, CountersTyped
    <2>2. ASSUME NEW c \in Calls PROVE RateShape(c)'
        <3>1. RateShape(c)
            BY DEF RateInv
        <3>2. call[c].at \in StartTime .. clock => call[c].at \in StartTime .. clock'
            BY <2>1, McpAssumption, GuardAssumption DEF RateInv
        <3> QED BY <1>1, <3>1, <3>2 DEF RateShape, Counted, Client, Elapsed, RetryAfter
    <2>3. ASSUME NEW k \in Keys, NEW i \in Int PROVE CounterCovers(k, i)'
        <3>1. CounterCovers(k, i)
            BY DEF RateInv
        <3>2. Standing(k, i)' = Standing(k, i)
            BY <1>1 DEF Standing, Counted, Index
        <3>3. CountOf(k, i)' = CountOf(k, i)
            BY <1>1 DEF CountOf
        <3> QED BY <1>1, <3>1, <3>2, <3>3 DEF CounterCovers
    <2>4. ASSUME NEW c \in Calls, Admitted(c)' PROVE PreviousFits(c)'
        <3>1. PreviousFits(c)
            BY <1>1, <2>4 DEF RateInv, Admitted
        <3> QED BY <1>1, <3>1 DEF PreviousFits, Earlier, Elapsed, Standing, Counted, Index
    <2> QED BY <2>1, <2>2, <2>3, <2>4 DEF RateInv
<1>2. clock \in clock .. MaxTime
    BY McpAssumption, GuardAssumption DEF RateInv
<1>3. ASSUME NEW c \in Calls, AdmissionStep(c), UNCHANGED <<guardVars, scene, sent, issued>>
      PROVE  RateInv'
    <2>1. UNCHANGED <<clock, sent>>
        BY <1>3 DEF guardVars
    <2> QED BY <1>3, <2>1, TimeRates, CountRates, PreviousRates, UncountRates, SlotRates,
               FailureRates DEF AdmissionStep
<1>4. ASSUME NEW c \in Calls, GuardStep(c), UNCHANGED <<admissionVars, scene, sent, issued>>
      PROVE  RateInv'
    BY <1>1, <1>2, <1>4 DEF GuardStep, admissionVars
<1>5. CASE Tick /\ UNCHANGED <<guard, admissionVars, scene, sent, issued>>
    <2>1. clock' \in clock .. MaxTime
        BY <1>5, McpAssumption, GuardAssumption DEF Tick, RateInv
    <2> QED BY <1>1, <1>5, <2>1 DEF admissionVars
<1>6. CASE UNCHANGED mcpVars
    BY <1>1, <1>2, <1>6 DEF mcpVars, guardVars, admissionVars
<1> QED BY <1>3, <1>4, <1>5, <1>6, ArrivalRates, DepartureRates DEF Next

LEMMA RateInvInit == Init => RateInv
<1> SUFFICES ASSUME Init PROVE RateInv
    OBVIOUS
<1>1. clock \in StartTime .. MaxTime /\ CountersTyped
    BY McpAssumption, GuardAssumption DEF Init, CountersTyped
<1>2. \A c \in Calls : /\ call[c].pc = "idle" /\ ~call[c].admitted /\ call[c].outcome = "none"
    BY DEF Init, NoCall
<1>3. \A c \in Calls : RateShape(c) /\ ~Counted(c) /\ ~Admitted(c)
    BY <1>2 DEF RateShape, Counted, Limited, Admitted
<1>4. ASSUME NEW k \in Keys, NEW i \in Int PROVE CounterCovers(k, i)
    <2>1. Standing(k, i) = {}
        BY <1>3 DEF Standing
    <2>2. CountOf(k, i) \in Nat
        BY McpAssumption DEF Init, CountOf
    <2> QED BY <2>1, <2>2, FS_EmptySet DEF CounterCovers
<1> QED BY <1>1, <1>3, <1>4 DEF RateInv

-----------------------------------------------------------------------------
\* What a refused caller is told, and the rate as a whole.

LEMMA CeilTimes ==
    ASSUME NEW x \in Int, NEW y \in Nat \ {0}
    PROVE  CeilDiv(x, y) \in Int /\ x <= CeilDiv(x, y) * y
<1>1. PICK z \in Int : z = x + y - 1
    OBVIOUS
<1>2. z \div y \in Int /\ z % y \in 0 .. y - 1 /\ z = y * (z \div y) + (z % y)
      /\ y * (z \div y) \in Int
    BY DivMod
<1>3. PICK q \in Int : q = z \div y
    BY <1>2
<1>4. PICK m \in Int : m = q * y /\ m = y * q
    OBVIOUS
<1>5. x <= m
    BY <1>1, <1>2, <1>3, <1>4
<1> QED BY <1>1, <1>3, <1>4, <1>5 DEF CeilDiv

LEMMA Distributes ==
    ASSUME NEW a \in Int, NEW b \in Int, NEW c \in Int
    PROVE  /\ a * (b + c) = a * b + a * c /\ a * (b - c) = a * b - a * c
           /\ (a + 1) * b = a * b + b /\ a * b = b * a /\ a * b \in Int
           /\ a * (b * c) = (a * b) * c
OBVIOUS

\* Too many in the window itself: it rolls over, and then enough of it is forgotten.
LEMMA AfterRollover ==
    ASSUME NEW w \in Nat \ {0}, NEW b \in Nat \ {0}, NEW a \in Nat, NEW e \in 0 .. w - 1,
           NEW d \in Int, b <= a, (w - e) * a + w * (a - (b - 1)) <= a * d
    PROVE  /\ w - e <= d
           /\ w + a * (w - (d - (w - e))) <= b * w
<1>1. PICK g \in Nat : g = w - e
    OBVIOUS
<1>2. PICK h \in Nat : h = a - (b - 1)
    OBVIOUS
<1>3. PICK ag \in Int, ad \in Int, wh \in Nat, wa \in Int, wb \in Int :
          /\ ag = g * a /\ ad = a * d /\ wh = w * h /\ wa = w * a /\ wb = w * b
    <2>1. w * h \in Nat
        OBVIOUS
    <2> QED BY <2>1
<1>4. ag + wh <= ad
    BY <1>1, <1>2, <1>3
<1>5. g <= d
    <2>1. g * a <= d * a
        BY <1>3, <1>4
    <2> QED BY <2>1, CancelTimes
<1>6. wh = wa - wb + w
    <2>1. w * h = w * a - w * (b - 1) /\ w * (b - 1) = w * b - w * 1
        BY <1>2, Distributes
    <2> QED BY <2>1, <1>3
<1>7. a * (w - (d - g)) = wa - ad + ag
    <2>1. w - (d - g) = w - d + g
        OBVIOUS
    <2>2. a * (w - (d - g)) = a * w - a * (d - g) /\ a * (d - g) = a * d - a * g
        BY Distributes
    <2> QED BY <2>2, <1>3, Distributes
<1>8. w + a * (w - (d - g)) <= wb
    BY <1>4, <1>6, <1>7
<1> QED BY <1>1, <1>3, <1>5, <1>8

\* Too many in the window before: enough of it is forgotten.
LEMMA AfterForgetting ==
    ASSUME NEW w \in Nat \ {0}, NEW b \in Nat \ {0}, NEW a \in Nat, NEW p \in Nat,
           NEW e \in 0 .. w - 1, NEW d \in Int, w * (p - (b - 1 - a)) - e * p <= p * d
    PROVE  (a + 1) * w + p * (w - (e + d)) <= b * w
<1>1. PICK pe \in Int, pd \in Int, pw \in Int, wa \in Int, wb \in Int :
          /\ pe = p * e /\ pd = p * d /\ pw = p * w /\ wa = w * a /\ wb = w * b
    OBVIOUS
<1>2. w * (p - (b - 1 - a)) = pw - wb + w + wa
    <2>1. p - (b - 1 - a) = (p - b) + (1 + a)
        OBVIOUS
    <2>2. w * ((p - b) + (1 + a)) = w * (p - b) + w * (1 + a)
        BY Distributes
    <2>3. w * (p - b) = w * p - w * b /\ w * (1 + a) = w * 1 + w * a
        BY Distributes
    <2> QED BY <2>1, <2>2, <2>3, <1>1, Distributes
<1>3. pw - wb + w + wa - pe <= pd
    BY <1>1, <1>2, Distributes
<1>4. p * (w - (e + d)) = pw - (pe + pd)
    BY <1>1, Distributes
<1>5. (a + 1) * w = wa + w
    BY <1>1, Distributes
<1> QED BY <1>1, <1>3, <1>4, <1>5, Distributes

\* The counter of a key's window, when the refused call is the last that was counted.
WasCounted(c, j) == IF j = Index(c) THEN call[c].current - 1
                    ELSE IF j = Index(c) - 1 THEN call[c].previous ELSE 0

\* Whole seconds that cover a number of ticks, when each tick frees n.
LEMMA SecondsCover ==
    ASSUME NEW x \in Int, NEW n \in Nat \ {0}, NEW s \in Nat \ {0}, NEW r \in Int,
           CeilDiv(x, n * s) <= r
    PROVE  x <= n * (r * s)
<1>1. PICK y \in Nat \ {0} : y = n * s
    OBVIOUS
<1>2. PICK q \in Int : q = CeilDiv(x, y) /\ x <= q * y
    BY CeilTimes
<1>3. q * y <= r * y /\ r * y \in Int /\ q * y \in Int
    BY <1>1, <1>2, TimesLess
<1>4. r * y = n * (r * s)
    <2>1. r * y = y * r /\ y * r = (n * s) * r
        BY <1>1, Distributes
    <2>2. n * (s * r) = (n * s) * r /\ s * r = r * s
        BY Distributes
    <2> QED BY <2>1, <2>2
<1> QED BY <1>2, <1>3, <1>4

\* The numbers of a refusal: a calls counted, p in the window before.
LEMMA WaitIsEnough ==
    ASSUME NEW c \in Calls, NEW k \in Keys, k = call[c].key, NEW w \in Nat \ {0}, w = Window(k),
           NEW b \in Nat \ {0}, b = Burst(k), NEW a \in Nat, call[c].current = a + 1,
           NEW p \in Nat, call[c].previous = p, NEW e \in 0 .. w - 1, e = call[c].at % w,
           ~Fits(k, a + 1, p, e), call[c].retry = RetryAfter(c)
    PROVE  /\ call[c].retry * Second \in Nat \ {0}
           /\ b < a + 1 => (w - e) * a + w * (a - (b - 1)) <= a * (call[c].retry * Second)
           /\ a + 1 <= b => w * (p - (b - 1 - a)) - e * p <= p * (call[c].retry * Second)
<1>1. PICK s \in Nat \ {0} : s = Second
    BY AdmissionAssumption
<1>2. PICK wait : wait = IF a + 1 > b
                         THEN CeilDiv((w - e) * a + w * (a - (b - 1)), a * s)
                         ELSE CeilDiv(w * (p - (b - 1 - a)) - e * p, p * s)
    OBVIOUS
<1>3. call[c].retry = IF wait < 1 THEN 1 ELSE wait
    BY <1>1, <1>2 DEF RetryAfter
<1>4. CASE b < a + 1
    <2>1. a \in Nat \ {0} /\ a * s \in Nat \ {0}
        BY <1>4
    <2>2. PICK x \in Int : x = (w - e) * a + w * (a - (b - 1))
        OBVIOUS
    <2>3. wait = CeilDiv(x, a * s) /\ wait \in Int
        BY <1>2, <1>4, <2>1, <2>2, CeilTimes
    <2>4. PICK r \in Nat \ {0} : r = call[c].retry /\ wait <= r
        BY <1>3, <2>3
    <2>5. x <= a * (r * s)
        BY <2>1, <2>3, <2>4, SecondsCover
    <2>6. r * s \in Nat \ {0}
        OBVIOUS
    <2> QED BY <1>1, <1>4, <2>2, <2>4, <2>5, <2>6
<1>5. CASE a + 1 <= b
    <2>1. p \in Nat \ {0}
        <3> SUFFICES ASSUME p = 0 PROVE FALSE
            OBVIOUS
        <3>1. (a + 1) * w <= b * w /\ (a + 1) * w \in Int /\ b * w \in Int
            BY <1>5, TimesLess
        <3>2. p * (w - e) = 0
            OBVIOUS
        <3> QED BY <3>1, <3>2 DEF Fits
    <2>2. PICK x \in Int : x = w * (p - (b - 1 - a)) - e * p
        OBVIOUS
    <2>6. p * s \in Nat \ {0}
        BY <2>1
    <2>8. ~(a + 1 > b)
        BY <1>5
    <2>9. wait = CeilDiv(w * (p - (b - 1 - a)) - e * p, p * s)
        BY <1>2, <2>8
    <2>3. wait = CeilDiv(x, p * s) /\ wait \in Int
        BY <2>9, <2>2, <2>6, CeilTimes
    <2>4. PICK r \in Nat \ {0} : r = call[c].retry /\ wait <= r
        BY <1>3, <2>3
    <2>5. x <= p * (r * s)
        BY <2>1, <2>3, <2>4, SecondsCover
    <2>7. r * s \in Nat \ {0}
        OBVIOUS
    <2> QED BY <1>1, <1>5, <2>2, <2>4, <2>5, <2>7
<1> QED BY <1>4, <1>5

\* No more than what fits, fits.
LEMMA FewerFit ==
    ASSUME NEW k \in Keys, NEW n \in Int, NEW m \in Int, m <= n, NEW p \in Int, NEW q \in Int,
           q <= p, NEW e \in 0 .. Window(k) - 1, Fits(k, n, p, e)
    PROVE  Fits(k, m, q, e)
<1>1. PICK w \in Nat \ {0}, b \in Nat \ {0} : w = Window(k) /\ b = Burst(k)
    BY RateTyped
<1>2. Fits(k, n, q, e)
    BY FitsLess
<1>3. PICK x \in Int : x = q * (w - e)
    BY <1>1
<1>4. m * w <= n * w /\ m * w \in Int /\ n * w \in Int /\ b * w \in Int
    BY <1>1, TimesLess
<1>5. n * w + x <= b * w
    BY <1>1, <1>2, <1>3 DEF Fits
<1>6. m * w + x <= b * w
    BY <1>4, <1>5
<1> QED BY <1>1, <1>3, <1>6 DEF Fits

\* d ticks after e of a window in which a were counted, and p in the one before,
\* there is room again, if the wait covers them.
LEMMA RoomAgain ==
    ASSUME NEW w \in Nat \ {0}, NEW b \in Nat \ {0}, NEW a \in Nat, NEW p \in Nat,
           NEW e \in 0 .. w - 1, NEW d \in Nat, NEW y \in Nat, NEW f \in 0 .. w - 1,
           e + d = w * y + f,
           b < a + 1 => (w - e) * a + w * (a - (b - 1)) <= a * d,
           a + 1 <= b => w * (p - (b - 1 - a)) - e * p <= p * d
    PROVE  (IF y = 0 THEN a + 1 ELSE 1) * w
              + (IF y = 0 THEN p ELSE IF y = 1 THEN a ELSE 0) * (w - f) <= b * w
<1>1. 1 * w <= b * w /\ b * w \in Int
    OBVIOUS
<1>2. CASE y = 0
    <2>1. d < w - e /\ f = e + d
        BY <1>2
    <2>2. a + 1 <= b
        <3> SUFFICES ASSUME b < a + 1 PROVE FALSE
            OBVIOUS
        <3>1. b <= a
            OBVIOUS
        <3>2. w - e <= d
            BY <3>1, AfterRollover
        <3> QED BY <2>1, <3>2
    <2>3. (a + 1) * w + p * (w - (e + d)) <= b * w
        BY <2>2, AfterForgetting
    <2> QED BY <1>2, <2>1, <2>3
<1>3. CASE y = 1
    <2>1. f = d - (w - e)
        BY <1>3
    <2>2. CASE b < a + 1
        <3>1. b <= a
            BY <2>2
        <3>2. w + a * (w - (d - (w - e))) <= b * w
            BY <2>2, <3>1, AfterRollover
        <3> QED BY <1>3, <2>1, <3>2
    <2>3. CASE a + 1 <= b
        <3>1. a * (w - f) <= a * w /\ a * (w - f) \in Int /\ a * w \in Int
            BY TimesLess
        <3>2. (a + 1) * w <= b * w /\ (a + 1) * w = a * w + w
            BY <2>3, TimesLess, Distributes
        <3> QED BY <1>3, <1>1, <3>1, <3>2
    <2> QED BY <2>2, <2>3
<1>4. CASE y \notin {0, 1}
    BY <1>1, <1>4
<1> QED BY <1>2, <1>3, <1>4

LEMMA RetryIsEnough == RateInv => RetryAfterIsEnough
<1> SUFFICES ASSUME RateInv, NEW c \in Calls, call[c].outcome = "rate_limited",
                    \A j \in DOMAIN rates[call[c].key] : rates[call[c].key][j] <= WasCounted(c, j)
             PROVE  LET k == call[c].key
                        again == call[c].at + call[c].retry * Second
                        i == again \div Window(k)
                    IN  Fits(k, CountOf(k, i) + 1, CountOf(k, i - 1), again % Window(k))
    BY DEF RetryAfterIsEnough, WasCounted
<1>1. PICK k \in Keys : k = call[c].key
    BY DEF RateInv, RateShape
<1>2. PICK w \in Nat \ {0}, b \in Nat \ {0} : w = Window(k) /\ b = Burst(k)
    BY RateTyped
<1>3. PICK at \in Nat : at = call[c].at
    BY McpAssumption DEF RateInv, RateShape
<1>4. PICK i \in Int, e \in 0 .. w - 1 : i = Index(c) /\ e = at % w /\ at = w * i + e
    <2>1. at \div w \in Int /\ at % w \in 0 .. w - 1 /\ at = w * (at \div w) + (at % w)
        BY DivMod
    <2>2. Index(c) = at \div w
        BY <1>1, <1>2, <1>3 DEF Index
    <2> QED BY <2>1, <2>2
<1>5. PICK a \in Nat, p \in Nat : call[c].current = a + 1 /\ call[c].previous = p
    <2>1. call[c].current \in Nat \ {0} /\ call[c].previous \in Nat
        BY DEF RateInv, RateShape
    <2>2. call[c].current - 1 \in Nat /\ call[c].current = (call[c].current - 1) + 1
        BY <2>1
    <2> QED BY <2>1, <2>2
<1>6. ~Fits(k, a + 1, p, e) /\ call[c].retry = RetryAfter(c)
    BY <1>1, <1>2, <1>3, <1>4, <1>5 DEF RateInv, RateShape, Elapsed
<1>7. PICK d \in Nat \ {0} :
         /\ d = call[c].retry * Second
         /\ b < a + 1 => (w - e) * a + w * (a - (b - 1)) <= a * d
         /\ a + 1 <= b => w * (p - (b - 1 - a)) - e * p <= p * d
    <2>1. e = call[c].at % w
        BY <1>3, <1>4
    <2> QED BY <1>1, <1>2, <1>5, <1>6, <2>1, WaitIsEnough
<1>8. PICK again \in Nat : again = at + d
    OBVIOUS
<1>9. PICK j \in Int, f \in 0 .. w - 1 :
         j = again \div w /\ f = again % w /\ again = w * j + f
    BY <1>8, DivMod
<1>10. i <= j
    <2>1. at \div w <= again \div w
        BY <1>8, DivMono
    <2>2. i = at \div w
        BY <1>1, <1>2, <1>3, <1>4 DEF Index
    <2> QED BY <1>9, <2>1, <2>2
<1>11. PICK y \in Nat : y = j - i
    BY <1>10
<1>12. e + d = w * y + f
    <2>1. PICK wj \in Int, wi \in Int : wj = w * j /\ wi = w * i
        BY Distributes
    <2>2. PICK wy \in Int : wy = w * y /\ wy = wj - wi
        BY <1>11, <2>1, Distributes
    <2>3. at = wi + e /\ again = wj + f
        BY <1>4, <1>9, <2>1
    <2>4. e + d = wy + f
        BY <1>8, <2>2, <2>3
    <2> QED BY <2>2, <2>4
<1>13. (IF y = 0 THEN a + 1 ELSE 1) * w
          + (IF y = 0 THEN p ELSE IF y = 1 THEN a ELSE 0) * (w - f) <= b * w
    BY <1>7, <1>12, RoomAgain
<1>14. ASSUME NEW x \in Int
       PROVE  /\ CountOf(k, x) \in Int
              /\ CountOf(k, x) <= (IF x = i THEN a ELSE IF x = i - 1 THEN p ELSE 0)
    <2>1. CountOf(k, x) \in Int
        BY CountTyped DEF RateInv
    <2>2. WasCounted(c, x) = IF x = i THEN a ELSE IF x = i - 1 THEN p ELSE 0
        BY <1>4, <1>5 DEF WasCounted
    <2>3. CASE x \in DOMAIN rates[k]
        <3>1. CountOf(k, x) <= WasCounted(c, x)
            BY <1>1, <2>3 DEF CountOf
        <3> QED BY <2>1, <2>2, <3>1
    <2>4. CASE x \notin DOMAIN rates[k]
        BY <2>1, <2>4 DEF CountOf
    <2> QED BY <2>3, <2>4
<1>15. PICK n \in Nat, m \in Nat : n = (IF y = 0 THEN a + 1 ELSE 1)
                                  /\ m = (IF y = 0 THEN p ELSE IF y = 1 THEN a ELSE 0)
    OBVIOUS
<1>16. Fits(k, n, m, f)
    BY <1>2, <1>13, <1>15 DEF Fits
<1>17. CountOf(k, j) + 1 \in Int /\ CountOf(k, j) + 1 <= n
    BY <1>11, <1>14, <1>15
<1>18. CountOf(k, j - 1) \in Int /\ CountOf(k, j - 1) <= m
    <2>1. j - 1 \in Int
        OBVIOUS
    <2>2. CountOf(k, j - 1) \in Int
          /\ CountOf(k, j - 1) <= (IF j - 1 = i THEN a ELSE IF j - 1 = i - 1 THEN p ELSE 0)
        BY <1>14, <2>1
    <2> QED BY <1>11, <1>15, <2>2
<1>19. Fits(k, CountOf(k, j) + 1, CountOf(k, j - 1), f)
    BY <1>2, <1>16, <1>17, <1>18, FewerFit
<1> QED BY <1>1, <1>2, <1>3, <1>7, <1>8, <1>9, <1>19

\* The calls of a key that were admitted over a stretch of time, and those of them
\* that read the time in a window, or in one before it.
Within(k, from, to) ==
    {e \in Calls : Admitted(e) /\ call[e].key = k /\ call[e].at \in from .. to}

InWindow(k, from, to, i) == {e \in Within(k, from, to) : Index(e) = i}

BeforeWindow(k, from, to, i) == {e \in Within(k, from, to) : Index(e) < i}

LEMMA WithinTyped ==
    ASSUME RateInv, NEW k \in Keys, NEW from \in Int, NEW to \in Int,
           NEW e \in Within(k, from, to)
    PROVE  /\ call[e].at \in Int /\ Index(e) \in Int /\ Elapsed(e) \in 0 .. Window(k) - 1
           /\ call[e].at = Window(k) * Index(e) + Elapsed(e)
           /\ from \div Window(k) <= Index(e) /\ Index(e) <= to \div Window(k)
<1>1. PICK at \in Int : at = call[e].at /\ from <= at /\ at <= to
    BY DEF Within
<1>2. PICK w \in Nat \ {0} : w = Window(k)
    BY RateTyped
<1>3. Index(e) = at \div w /\ Elapsed(e) = at % w
    BY <1>1, <1>2 DEF Within, Index, Elapsed
<1>4. from \div w <= at \div w /\ at \div w <= to \div w
    BY <1>1, DivMono
<1>5. at \div w \in Int /\ at % w \in 0 .. w - 1 /\ at = w * (at \div w) + (at % w)
    BY DivMod
<1> QED BY <1>1, <1>2, <1>3, <1>4, <1>5

\* One window: no more than the burst, and less for what is left of the one before.
LEMMA WindowBounded ==
    ASSUME RateInv, NEW k \in Keys, NEW from \in Int, NEW to \in Int, NEW i \in Int
    PROVE  /\ IsFiniteSet(InWindow(k, from, to, i))
           /\ Cardinality(InWindow(k, from, to, i)) \in 0 .. Burst(k)
           /\ InWindow(k, from, to, i) # {} =>
                 \E e \in InWindow(k, from, to, i) :
                    Fits(k, Cardinality(InWindow(k, from, to, i)),
                         Cardinality(InWindow(k, from, to, i - 1)), Elapsed(e))
<1>1. PICK w \in Nat \ {0}, b \in Nat \ {0} : w = Window(k) /\ b = Burst(k)
    BY RateTyped
<1>2. ASSUME NEW j \in Int
      PROVE  /\ InWindow(k, from, to, j) \subseteq Standing(k, j)
             /\ IsFiniteSet(InWindow(k, from, to, j))
             /\ Cardinality(InWindow(k, from, to, j)) \in Nat
             /\ CounterCovers(k, j)
    <2>1. InWindow(k, from, to, j) \subseteq Standing(k, j)
        BY DEF InWindow, Within, Standing, Admitted, Counted
    <2>2. CounterCovers(k, j)
        BY DEF RateInv
    <2> QED BY <2>1, <2>2, FS_Subset, FS_CardinalityType DEF CounterCovers
<1>3. PICK set : set = InWindow(k, from, to, i)
    OBVIOUS
<1>6. PICK n \in Nat : n = Cardinality(set)
    BY <1>2, <1>3
<1>4. ASSUME set # {}
      PROVE  n <= b /\ \E e \in set : Fits(k, n, Cardinality(InWindow(k, from, to, i - 1)), Elapsed(e))
    <2>1. PICK e \in set : n <= call[e].current
        BY <1>2, <1>3, <1>4, <1>6 DEF CounterCovers
    <2>2. e \in Within(k, from, to) /\ e \in Calls /\ Admitted(e) /\ call[e].key = k /\ Index(e) = i
        BY <1>3, <2>1 DEF InWindow, Within
    <2>3. Elapsed(e) \in 0 .. w - 1 /\ call[e].current \in Int
        BY <1>1, <2>2, WithinTyped DEF RateInv, RateShape, Counted, Admitted
    <2>4. Fits(k, call[e].current, Cardinality(Earlier(e)), Elapsed(e))
        BY <2>2 DEF RateInv, PreviousFits
    <2>5. InWindow(k, from, to, i - 1) \subseteq Earlier(e)
        <3>1. PICK j \in Int : j = i - 1
            OBVIOUS
        <3>2. InWindow(k, from, to, j) \subseteq Standing(k, j)
            BY <1>2
        <3>3. \A d \in InWindow(k, from, to, j) : ~call[d].late
            BY DEF InWindow, Within, Admitted
        <3>4. Earlier(e) = {d \in Standing(k, j) : ~call[d].late}
            BY <2>2, <3>1 DEF Earlier
        <3> QED BY <3>1, <3>2, <3>3, <3>4
    <2>6. PICK q \in Nat : q = Cardinality(InWindow(k, from, to, i - 1))
        BY <1>2
    <2>7. /\ q <= Cardinality(Earlier(e)) /\ Cardinality(Earlier(e)) \in Nat
        <3>1. Earlier(e) \subseteq Standing(k, i - 1) /\ IsFiniteSet(Standing(k, i - 1))
            BY <1>2, <2>2 DEF Earlier, CounterCovers
        <3> QED BY <3>1, <2>5, <2>6, FS_Subset, FS_CardinalityType
    <2>8. Fits(k, n, q, Elapsed(e))
        BY <1>1, <2>1, <2>3, <2>4, <2>7, FewerFit
    <2>9. n <= b
        <3>1. PICK x \in Nat : x = q * (w - Elapsed(e))
            BY <2>3
        <3>2. n * w <= b * w
            BY <1>1, <2>8, <3>1 DEF Fits
        <3> QED BY <3>2, CancelTimes
    <2> QED BY <2>1, <2>6, <2>8, <2>9
<1>5. set = {} => n = 0
    BY <1>6, FS_EmptySet
<1> QED BY <1>1, <1>2, <1>3, <1>4, <1>5, <1>6

LEMMA LeastNatural ==
    ASSUME NEW S, S \subseteq Nat, S # {}
    PROVE  \E m \in S : \A n \in S : m <= n
<1>1. PICK m \in S : \A n \in S : ~(<<n, m>> \in OpToRel(<, Nat))
    BY NatLessThanWellFounded, WFMin
<1>2. ASSUME NEW n \in S PROVE m <= n
    <2>1. ~(<<n, m>> \in OpToRel(<, Nat))
        BY <1>1
    <2>2. m \in Nat /\ n \in Nat /\ <<n, m>> \in Nat \X Nat
        OBVIOUS
    <2>3. ~(n < m)
        BY <2>1, <2>2 DEF OpToRel
    <2> QED BY <2>2, <2>3
<1> QED BY <1>2

LEMMA UnionFits ==
    ASSUME NEW s, NEW t, IsFiniteSet(s), IsFiniteSet(t)
    PROVE  /\ IsFiniteSet(s \cup t) /\ Cardinality(s \cup t) \in Nat
           /\ Cardinality(s) \in Nat /\ Cardinality(t) \in Nat
           /\ Cardinality(s \cup t) <= Cardinality(s) + Cardinality(t)
<1>1. IsFiniteSet(s \cap t) /\ Cardinality(s \cap t) \in Nat
    <2>1. s \cap t \subseteq s
        OBVIOUS
    <2> QED BY <2>1, FS_Subset, FS_CardinalityType
<1>2. /\ IsFiniteSet(s \cup t)
      /\ Cardinality(s \cup t) = Cardinality(s) + Cardinality(t) - Cardinality(s \cap t)
    BY FS_Union
<1>3. Cardinality(s) \in Nat /\ Cardinality(t) \in Nat /\ Cardinality(s \cup t) \in Nat
    BY <1>2, FS_CardinalityType
<1> QED BY <1>1, <1>2, <1>3

\* m windows: no more than m bursts.
LEMMA WindowsBounded ==
    ASSUME RateInv, NEW k \in Keys, NEW from \in Int, NEW to \in Int, NEW m \in Nat
    PROVE  /\ IsFiniteSet(BeforeWindow(k, from, to, from \div Window(k) + m))
           /\ Cardinality(BeforeWindow(k, from, to, from \div Window(k) + m)) <= Burst(k) * m
<1>1. PICK w \in Nat \ {0}, b \in Nat \ {0} : w = Window(k) /\ b = Burst(k)
    BY RateTyped
<1>2. PICK i \in Int : i = from \div w
    BY DivMod
<1> DEFINE Bounded(j) == /\ IsFiniteSet(BeforeWindow(k, from, to, i + j))
                         /\ Cardinality(BeforeWindow(k, from, to, i + j)) <= b * j
           Beyond == {j \in Nat : ~Bounded(j)}
<1>3. Bounded(0)
    <2>1. BeforeWindow(k, from, to, i + 0) = {}
        BY <1>1, <1>2, WithinTyped DEF BeforeWindow
    <2> QED BY <2>1, FS_EmptySet
<1>4. ASSUME NEW j \in Nat, Bounded(j) PROVE Bounded(j + 1)
    <2>1. BeforeWindow(k, from, to, i + (j + 1))
            = BeforeWindow(k, from, to, i + j) \cup InWindow(k, from, to, i + j)
        BY WithinTyped DEF BeforeWindow, InWindow
    <2>2. PICK s, t : s = BeforeWindow(k, from, to, i + j) /\ t = InWindow(k, from, to, i + j)
        OBVIOUS
    <2>3. IsFiniteSet(s) /\ Cardinality(s) <= b * j /\ IsFiniteSet(t) /\ Cardinality(t) <= b
        BY <1>1, <1>4, <2>2, WindowBounded
    <2>4. /\ IsFiniteSet(s \cup t) /\ Cardinality(s) \in Nat /\ Cardinality(t) \in Nat
          /\ Cardinality(s \cup t) <= Cardinality(s) + Cardinality(t)
        BY <2>3, UnionFits
    <2>5. Cardinality(s \cup t) \in Nat /\ b * j \in Int
        BY <2>4, FS_CardinalityType
    <2>6. b * (j + 1) = b * j + b
        OBVIOUS
    <2>7. Cardinality(s \cup t) <= b * (j + 1)
        BY <2>3, <2>4, <2>5, <2>6
    <2> QED BY <2>1, <2>2, <2>4, <2>7
<1>5. Beyond = {}
    <2> SUFFICES ASSUME Beyond # {} PROVE FALSE
        OBVIOUS
    <2>1. PICK j \in Beyond : \A n \in Beyond : j <= n
        BY LeastNatural
    <2> HIDE DEF Bounded
    <2>2. j \in Nat /\ j # 0
        BY <1>3
    <2>3. j - 1 \in Nat /\ j - 1 \notin Beyond
        BY <2>1, <2>2
    <2>4. Bounded(j - 1)
        BY <2>3
    <2>5. Bounded((j - 1) + 1)
        BY <1>4, <2>3, <2>4
    <2>6. (j - 1) + 1 = j
        BY <2>2
    <2> QED BY <2>5, <2>6
<1>6. Bounded(m)
    BY <1>5
<1> QED BY <1>1, <1>2, <1>6

\* The numbers: l calls of m windows, p of the next and n of the last.
LEMMA RateAddsUp ==
    ASSUME NEW w \in Nat \ {0}, NEW b \in Nat \ {0}, NEW m \in Nat, NEW e \in 0 .. w - 1,
           NEW f \in 0 .. w - 1, NEW l \in Nat, NEW p \in 0 .. b, NEW n \in Nat, l <= b * m,
           n # 0 => \E g \in 0 .. f : n * w + p * (w - g) <= b * w,
           NEW d \in Int, d = w * (m + 1) + f - e
    PROVE  (l + p + n) * w <= b * (w + d)
<1>1. n = 0 \/ n * w + p * (w - f) <= b * w
    <2> SUFFICES ASSUME n # 0 PROVE n * w + p * (w - f) <= b * w
        OBVIOUS
    <2>1. PICK g \in 0 .. f : n * w + p * (w - g) <= b * w
        OBVIOUS
    <2>2. (w - f) * p <= (w - g) * p /\ (w - f) * p \in Int /\ (w - g) * p \in Int
        BY <2>1, TimesLess
    <2>3. PICK x \in Int, y \in Int : x = p * (w - f) /\ y = p * (w - g) /\ x <= y
        BY <2>2, Distributes
    <2> QED BY <2>1, <2>3
<1>2. PICK bw \in Nat, bf \in Nat, pw \in Nat, pf \in Nat, nw \in Nat, lw \in Nat :
         bw = b * w /\ bf = b * f /\ pw = p * w /\ pf = p * f /\ nw = n * w /\ lw = l * w
    OBVIOUS
<1>3. pf <= bf /\ pw <= bw
    <2>1. p * f <= b * f /\ p * w <= b * w
        BY TimesLess
    <2> QED BY <1>2, <2>1
<1>4. pw + nw <= bw + bf
    <2>1. CASE n = 0
        BY <1>2, <1>3, <2>1
    <2>2. CASE n * w + p * (w - f) <= b * w
        <3>1. p * (w - f) = pw - pf
            BY <1>2, Distributes
        <3> QED BY <1>2, <1>3, <2>2, <3>1
    <2> QED BY <1>1, <2>1, <2>2
<1>5. PICK bwm \in Nat : bwm = bw * m /\ lw <= bwm
    <2>1. l * w <= (b * m) * w
        BY TimesLess
    <2>2. (b * m) * w = w * (b * m) /\ w * (b * m) = (w * b) * m /\ w * b = bw
        BY <1>2, Distributes
    <2>3. bw * m \in Nat
        OBVIOUS
    <2> QED BY <1>2, <2>1, <2>2, <2>3
<1>6. (l + p + n) * w = lw + pw + nw
    <2>1. (l + p + n) * w = w * ((l + p) + n) /\ w * ((l + p) + n) = w * (l + p) + w * n
        BY Distributes
    <2>2. w * (l + p) = w * l + w * p
        BY Distributes
    <2> QED BY <1>2, <2>1, <2>2, Distributes
<1>7. PICK h \in Nat : h = w - e
    OBVIOUS
<1>8. b * (w + d) = bw + bwm + bf + b * h
    <2>1. w + d = w * (m + 1) + (f + h)
        BY <1>7
    <2>2. b * (w * (m + 1) + (f + h)) = b * (w * (m + 1)) + b * (f + h)
        BY Distributes
    <2>3. b * (f + h) = bf + b * h
        BY <1>2, Distributes
    <2>4. b * (w * (m + 1)) = bw * (m + 1)
        BY <1>2, Distributes
    <2>5. bw * (m + 1) = bwm + bw
        BY <1>5, Distributes
    <2>6. b * h \in Nat
        OBVIOUS
    <2> QED BY <1>2, <1>5, <2>1, <2>2, <2>3, <2>4, <2>5, <2>6
<1>9. b * h \in Nat
    OBVIOUS
<1> QED BY <1>2, <1>4, <1>5, <1>6, <1>8, <1>9

\* The calls of a key within a stretch of time are as many as the bucket lets through.
LEMMA StretchIsBounded ==
    ASSUME RateInv, NEW k \in Keys, NEW from \in Int, NEW to \in Int, from <= to
    PROVE  Cardinality(Within(k, from, to)) * Window(k) <= Burst(k) * (Window(k) + to - from)
<1>1. PICK w \in Nat \ {0}, b \in Nat \ {0} : w = Window(k) /\ b = Burst(k)
    BY RateTyped
<1>2. PICK i \in Int, e \in 0 .. w - 1 : i = from \div w /\ from = w * i + e
    <2>1. from \div w \in Int /\ from % w \in 0 .. w - 1 /\ from = w * (from \div w) + (from % w)
        BY DivMod
    <2> QED BY <2>1
<1>3. PICK j \in Int, f \in 0 .. w - 1 : j = to \div w /\ to = w * j + f
    <2>1. to \div w \in Int /\ to % w \in 0 .. w - 1 /\ to = w * (to \div w) + (to % w)
        BY DivMod
    <2> QED BY <2>1
<1>4. i <= j
    BY <1>2, <1>3, DivMono
<1>5. PICK last : last = InWindow(k, from, to, j)
    OBVIOUS
<1>6. PICK n \in 0 .. b : n = Cardinality(last) /\ IsFiniteSet(last)
    BY <1>1, <1>5, WindowBounded
<1>7. CASE i = j
    <2>1. Within(k, from, to) = last
        <3>1. ASSUME NEW c \in Within(k, from, to) PROVE Index(c) = j
            <4>1. Index(c) \in Int /\ i <= Index(c) /\ Index(c) <= j
                BY <1>1, <1>2, <1>3, WithinTyped
            <4> QED BY <1>7, <4>1
        <3> QED BY <1>5, <3>1 DEF InWindow
    <2>2. PICK d \in Nat : d = to - from
        OBVIOUS
    <2>3. n * w <= b * w /\ b * (w + d) = b * w + b * d /\ b * d \in Nat /\ b * w \in Int /\ n * w \in Int
        BY TimesLess, Distributes
    <2>4. n * w <= b * (w + d)
        BY <2>3
    <2>5. w + d = w + to - from
        BY <2>2
    <2> QED BY <1>1, <1>6, <2>1, <2>4, <2>5
<1>8. CASE i < j
    <2>1. PICK m \in Nat : j = i + m + 1
        <3>1. j - i - 1 \in Nat /\ j = i + (j - i - 1) + 1
            BY <1>8
        <3> QED BY <3>1
    <2>2. PICK first, next : /\ first = BeforeWindow(k, from, to, i + m)
                             /\ next = InWindow(k, from, to, j - 1)
        OBVIOUS
    <2>3. IsFiniteSet(first) /\ Cardinality(first) <= b * m
        BY <1>1, <1>2, <2>2, WindowsBounded
    <2>4. PICK l \in Nat : l = Cardinality(first) /\ l <= b * m
        BY <2>3, FS_CardinalityType
    <2>5. PICK p \in 0 .. b : p = Cardinality(next) /\ IsFiniteSet(next)
        BY <1>1, <2>2, WindowBounded
    <2>6. Within(k, from, to) = (first \cup next) \cup last
        <3>1. j - 1 = i + m
            BY <2>1
        <3>2. ASSUME NEW c \in Within(k, from, to) PROVE Index(c) < i + m \/ Index(c) = j - 1 \/ Index(c) = j
            <4>1. Index(c) \in Int /\ Index(c) <= j
                BY <1>1, <1>3, WithinTyped
            <4> QED BY <2>1, <4>1
        <3> QED BY <1>5, <2>2, <3>2 DEF BeforeWindow, InWindow
    <2>7. /\ IsFiniteSet((first \cup next) \cup last)
          /\ Cardinality((first \cup next) \cup last) <= l + p + n
          /\ Cardinality((first \cup next) \cup last) \in Nat
        <3>2. /\ IsFiniteSet(first \cup next) /\ Cardinality(first \cup next) \in Nat
              /\ Cardinality(first \cup next) <= l + p
            BY UnionFits, <2>3, <2>4, <2>5
        <3> QED BY UnionFits, <3>2, <1>6
    <2>8. ASSUME n # 0 PROVE \E g \in 0 .. f : n * w + p * (w - g) <= b * w
        <3>1. last # {}
            BY <1>6, <2>8, FS_EmptySet
        <3>2. PICK c \in last : Fits(k, n, p, Elapsed(c))
            BY <1>5, <1>6, <2>2, <2>5, <3>1, WindowBounded
        <3>3. c \in Within(k, from, to) /\ Index(c) = j /\ call[c].at <= to
            BY <1>5, <3>2 DEF InWindow, Within
        <3>4. call[c].at \in Int /\ Elapsed(c) \in 0 .. w - 1 /\ call[c].at = w * j + Elapsed(c)
            BY <1>1, <3>3, WithinTyped
        <3>5. Elapsed(c) \in 0 .. f
            <4>1. PICK x \in Int : x = w * j
                OBVIOUS
            <4>2. call[c].at = x + Elapsed(c) /\ to = x + f
                BY <1>3, <3>4, <4>1
            <4> QED BY <3>3, <3>4, <4>2
        <3> QED BY <1>1, <3>2, <3>5 DEF Fits
    <2>9. PICK d \in Int : d = to - from /\ d = w * (m + 1) + f - e
        <3>1. w * j = w * i + w * (m + 1)
            <4>1. j = i + (m + 1)
                BY <2>1
            <4>2. w * (i + (m + 1)) = w * i + w * (m + 1)
                BY Distributes
            <4> QED BY <4>1, <4>2
        <3>2. PICK x \in Int, y \in Int, z \in Int : x = w * j /\ y = w * i /\ z = w * (m + 1)
            OBVIOUS
        <3>3. x = y + z /\ to = x + f /\ from = y + e
            BY <1>2, <1>3, <3>1, <3>2
        <3>4. to - from = z + f - e /\ to - from \in Int
            BY <3>3
        <3> QED BY <3>2, <3>4
    <2>10. (l + p + n) * w <= b * (w + d)
        BY <2>4, <2>8, <2>9, RateAddsUp
    <2>11. Cardinality(Within(k, from, to)) * w <= (l + p + n) * w
           /\ Cardinality(Within(k, from, to)) * w \in Int /\ (l + p + n) * w \in Int
        BY <2>6, <2>7, TimesLess
    <2>12. b * (w + d) \in Int /\ w + d = w + to - from
        BY <2>9
    <2>13. Cardinality(Within(k, from, to)) * w <= b * (w + d)
        BY <2>10, <2>11, <2>12
    <2> QED BY <1>1, <2>12, <2>13
<1> QED BY <1>4, <1>7, <1>8

LEMMA RateIsBounded == RateInv => RateBounded
<1> SUFFICES ASSUME RateInv,
                    NEW c \in {e \in Calls : Admitted(e)}, NEW d \in {e \in Calls : Admitted(e)},
                    Client(c) = Client(d), call[c].at <= call[d].at
             PROVE  LET within == {e \in Calls : /\ Admitted(e) /\ Client(e) = Client(c)
                                                 /\ call[e].at \in call[c].at .. call[d].at}
                        w == Window(call[c].key)
                    IN  Cardinality(within) * w <= Burst(call[c].key) * (w + call[d].at - call[c].at)
    BY DEF RateBounded
<1>1. \A e \in Calls : Admitted(e) => /\ Client(e) = call[e].key /\ call[e].key \in Keys
                                      /\ call[e].at \in Int
    BY McpAssumption DEF RateInv, RateShape, Admitted, Counted
<1>2. PICK k \in Keys, from \in Int, to \in Int :
         k = call[c].key /\ from = call[c].at /\ to = call[d].at
    BY <1>1
<1>3. {e \in Calls : /\ Admitted(e) /\ Client(e) = Client(c)
                     /\ call[e].at \in call[c].at .. call[d].at} = Within(k, from, to)
    BY <1>1, <1>2 DEF Within
<1>4. Cardinality(Within(k, from, to)) * Window(k) <= Burst(k) * (Window(k) + to - from)
    BY <1>2, StretchIsBounded
<1> QED BY <1>2, <1>3, <1>4

\* Over any stretch of time a client is let through no more often than its token
\* bucket would, and a refused caller is told a wait that is long enough
\* (limits.py _check_rate, _retry_after).
THEOREM TheRateIsFair == Spec => []RateIsFair
<1>1. LimitInv /\ RateInv /\ [Next]_mcpVars => RateInv'
    BY RateInvNext
<1>2. RateInv => RateIsFair
    BY RateIsBounded, RetryIsEnough DEF RateIsFair
<1> QED BY <1>1, <1>2, RateInvInit, LimitInvHolds, PTL DEF Spec
=============================================================================
