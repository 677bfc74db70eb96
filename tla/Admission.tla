----------------------------- MODULE Admission -----------------------------
(***************************************************************************)
(* admit (chat_mcp/limits.py): the rate limit and the concurrency cap on   *)
(* tool calls, kept in a cache all replicas share.  Every cache operation  *)
(* is a step of its own, may fail, and may then have been carried out or   *)
(* not; both limits fail open.                                             *)
(***************************************************************************)
EXTENDS RequestGuard

CONSTANTS
    Keys,           \* the limiter keys, pairs <<kind, name>>
    Rate,           \* kind -> [burst, window]: window = burst / rate, in ticks
    Second,         \* ticks per second
    PerKey,         \* MCP_MAX_CONCURRENT_PER_KEY
    MaxConcurrent,  \* MCP_MAX_CONCURRENT
    Margin,         \* SLOT_MARGIN_SECONDS, in ticks
    MaxFaults       \* bound on failing cache operations

ASSUME AdmissionAssumption ==
    /\ \A kind \in DOMAIN Rate : Rate[kind].burst \in Nat \ {0} /\ Rate[kind].window \in Nat \ {0}
    /\ Second \in Nat \ {0} /\ PerKey \in Nat \ {0} /\ MaxConcurrent \in Nat \ {0}
    /\ Margin \in Nat /\ MaxFaults \in Nat
    /\ <<"all", "all">> \notin Keys /\ "none" \notin Calls

VARIABLES
    rates,          \* rates[k][i]: the counter of key k for window i
    slots,          \* the slot keys: the token held, and until when
    call,           \* each request on its way through the limits
    stolen,         \* <<slot, call>>: slots deleted from under the call that held them
    faults          \* cache operations that failed

admissionVars == <<rates, slots, call, stolen, faults>>

\* The slots of the whole cluster, beside those of each key.
Cluster == <<"all", "all">>

SlotsOf(set) ==
    {<<set, i>> : i \in 0 .. (IF set = Cluster THEN MaxConcurrent ELSE PerKey) - 1}

SlotSets == Keys \cup {Cluster}

Slots == UNION {SlotsOf(set) : set \in SlotSets}

Free == [token |-> "none", until |-> 0]

\* slot_timeout: the budget, in whole seconds, and the margin.
CeilDiv(a, b) == (a + b - 1) \div b

Lease == CeilDiv(Budget, Second) * Second + Margin

\* claimed: slots claimed, with the end of their lease; then: where a release
\* leads; lost: a failed operation may have left a slot; kept: the slot was its
\* own when compared; late: counted after its window; admitted: by the rate limit.
NoCall == [pc |-> "idle", key |-> <<"none", "none">>, at |-> 0, current |-> 0, previous |-> 0,
           i |-> 0, claimed |-> <<>>, then |-> "done", lost |-> FALSE,
           kept |-> FALSE, late |-> FALSE, admitted |-> FALSE, retry |-> 0, outcome |-> "none"]

Enter(key) == [NoCall EXCEPT !.pc = "time", !.key = key]

Window(k) == Rate[k[1]].window

Burst(k) == Rate[k[1]].burst

Index(c) == call[c].at \div Window(call[c].key)

\* Held by someone: the key exists in the cache.
Held(s) == slots[s].until > clock

CountOf(k, i) == IF i \in DOMAIN rates[k] THEN rates[k][i] ELSE 0

\* now = _now()
ReadTime(c) ==
    /\ call[c].pc = "time"
    /\ call' = [call EXCEPT ![c].pc = "count", ![c].at = clock]
    /\ UNCHANGED <<rates, slots, stolen, faults>>

Added(c, n) == [rates EXCEPT ![call[c].key][Index(c)] = @ + n]

\* cache.add, then incr, of the counter of the window that was read; a counter
\* lives longer than two windows, so it never expires while it is needed.
Count(c) ==
    /\ call[c].pc = "count"
    /\ rates' = Added(c, 1)
    /\ call' = [call EXCEPT ![c].pc = "previous",
                            ![c].current = CountOf(call[c].key, Index(c)) + 1,
                            ![c].late = clock \div Window(call[c].key) # Index(c)]
    /\ UNCHANGED <<slots, stolen, faults>>

\* current + previous * (1 - elapsed / window) <= burst
Fits(k, current, previous, elapsed) ==
    current * Window(k) + previous * (Window(k) - elapsed) <= Burst(k) * Window(k)

\* Mutant of Admits: the window before is forgotten.
AdmitsAlone(k, current, previous, elapsed) == current <= Burst(k)

Admits(k, current, previous, elapsed) == Fits(k, current, previous, elapsed)

ReadPrevious(c) ==
    LET k == call[c].key
        previous == CountOf(k, Index(c) - 1)
        fits == Admits(k, call[c].current, previous, call[c].at % Window(k))
    IN  /\ call[c].pc = "previous"
        /\ call' = [call EXCEPT ![c].admitted = fits,
                                ![c].previous = IF fits THEN 0 ELSE previous,
                                ![c].pc = IF fits THEN "keyslot" ELSE "uncount"]
        /\ UNCHANGED <<rates, slots, stolen, faults>>

\* Mutant of RetryAfter: the wait ends where the current window does.
RetryAtRollover(c) ==
    CeilDiv(Window(call[c].key) - (call[c].at % Window(call[c].key)), Second)

\* Whole seconds until the call would be admitted: max(1, ceil(wait)).
RetryAfter(c) ==
    LET w == Window(call[c].key)
        b == Burst(call[c].key)
        elapsed == call[c].at % w
        admitted == call[c].current - 1
        previous == call[c].previous
        wait == IF admitted + 1 > b
                THEN CeilDiv((w - elapsed) * admitted + w * (admitted - (b - 1)),
                             admitted * Second)
                ELSE CeilDiv(w * (previous - (b - 1 - admitted)) - elapsed * previous,
                             previous * Second)
    IN  IF wait < 1 THEN 1 ELSE wait

Uncount(c) ==
    /\ call[c].pc = "uncount"
    /\ rates' = Added(c, -1)
    /\ call' = [call EXCEPT ![c].pc = "done", ![c].outcome = "rate_limited",
                            ![c].retry = RetryAfter(c)]
    /\ UNCHANGED <<slots, stolen, faults>>

\* The slot claim_slot tries next, of its key or of the cluster.
Candidate(c) == <<IF call[c].pc = "keyslot" THEN call[c].key ELSE Cluster, call[c].i>>

Taken(c) == [slots EXCEPT ![Candidate(c)] = [token |-> c, until |-> clock + Lease]]

Exhausted(c) == call[c].i + 1 = IF call[c].pc = "keyslot" THEN PerKey ELSE MaxConcurrent

\* Mutant of BusyCall: the call leaves without a release.
BusyKeeps(c) == [call[c] EXCEPT !.pc = "done", !.outcome = "busy", !.retry = CeilDiv(Budget, Second)]

\* Limited: what was claimed is released first.
BusyCall(c) ==
    [call[c] EXCEPT !.pc = "compare", !.then = "done", !.outcome = "busy",
                    !.retry = CeilDiv(Budget, Second)]

\* One atomic add.
ClaimSlot(c) ==
    /\ call[c].pc \in {"keyslot", "slot"}
    /\ IF ~Held(Candidate(c))
       THEN /\ slots' = Taken(c)
            /\ call' = [call EXCEPT
                  ![c].pc = IF @ = "keyslot" THEN "slot" ELSE "run", ![c].i = 0,
                  ![c].claimed = Append(@, [slot |-> Candidate(c), until |-> clock + Lease])]
       ELSE /\ call' = [call EXCEPT ![c] = IF Exhausted(c) THEN BusyCall(c)
                                           ELSE [call[c] EXCEPT !.i = @ + 1]]
            /\ UNCHANGED slots
    /\ UNCHANGED <<rates, stolen, faults>>

\* Mutant of Owns: whatever is in the slot is deleted.
OwnsAny(c, s) == Held(s)

\* cache.get(key) == token
Owns(c, s) == Held(s) /\ slots[s].token = c

\* release_slot, for each slot claimed: the compare ...
Compare(c) ==
    /\ call[c].pc = "compare"
    /\ call' =
        IF call[c].claimed = <<>> THEN [call EXCEPT ![c].pc = call[c].then]
        ELSE LET s == Head(call[c].claimed).slot
             IN  IF Owns(c, s)
                 THEN [call EXCEPT ![c].pc = "delete",
                                   ![c].kept = Held(s) /\ slots[s].token = c]
                 ELSE [call EXCEPT ![c].claimed = Tail(@)]
    /\ UNCHANGED <<rates, slots, stolen, faults>>

Deleted(c) == [slots EXCEPT ![Head(call[c].claimed).slot] = Free]

\* History: a slot its release had compared was another's when it was deleted.
StolenBy(c) ==
    LET s == Head(call[c].claimed).slot
    IN  IF call[c].kept /\ Held(s) /\ slots[s].token # c
        THEN stolen \cup {<<s, slots[s].token>>} ELSE stolen

\* ... and the delete.
Delete(c) ==
    /\ call[c].pc = "delete"
    /\ slots' = Deleted(c) /\ stolen' = StolenBy(c)
    /\ call' = [call EXCEPT ![c].pc = "compare", ![c].claimed = Tail(@)]
    /\ UNCHANGED <<rates, faults>>

\* A cache operation raises, carried out or not: the limits fail open.
CacheFails(c) ==
    /\ faults < MaxFaults /\ faults' = faults + 1
    /\ \/ /\ call[c].pc \in {"count", "previous", "uncount"}
          /\ rates' \in {rates} \cup
                (IF call[c].pc = "count" THEN {Added(c, 1)}
                 ELSE IF call[c].pc = "uncount" THEN {Added(c, -1)} ELSE {})
          /\ call' = [call EXCEPT ![c].pc = "keyslot"]
          /\ UNCHANGED <<slots, stolen>>
       \/ /\ call[c].pc \in {"keyslot", "slot"}
          /\ slots' \in {slots} \cup (IF Held(Candidate(c)) THEN {} ELSE {Taken(c)})
          /\ call' = [call EXCEPT ![c].pc = "compare", ![c].then = "run", ![c].lost = TRUE]
          /\ UNCHANGED <<rates, stolen>>
       \/ /\ call[c].pc \in {"compare", "delete"} /\ call[c].claimed # <<>>
          /\ \/ UNCHANGED <<slots, stolen>>
             \/ call[c].pc = "delete" /\ slots' = Deleted(c) /\ stolen' = StolenBy(c)
          /\ call' = [call EXCEPT ![c].pc = "compare", ![c].claimed = Tail(@), ![c].lost = TRUE]
          /\ UNCHANGED rates

AdmissionStep(c) ==
    \/ ReadTime(c) \/ Count(c) \/ ReadPrevious(c) \/ Uncount(c)
    \/ ClaimSlot(c) \/ Compare(c) \/ Delete(c) \/ CacheFails(c)

\* Calls that run on an unexpired slot of a set.
RunningOn(set) ==
    {c \in Calls : /\ call[c].pc = "run"
                   /\ \E j \in DOMAIN call[c].claimed :
                          /\ call[c].claimed[j].slot \in SlotsOf(set)
                          /\ call[c].claimed[j].until > clock}

\* The calls whose slot of a set was taken from them.
RobbedOf(set) == {c \in Calls : \E s \in SlotsOf(set) : <<s, c>> \in stolen}

\* No more calls run at once than the cap allows, per key and in the cluster,
\* but for those whose slot was taken by a call that outlived its lease between
\* the compare and the delete of its release.  (Calls past their lease, and
\* calls the cache let pass, are not counted.)
AdmittedAreBounded ==
    \A set \in SlotSets :
        Cardinality(RunningOn(set) \ RobbedOf(set)) <= Cardinality(SlotsOf(set))

\* A call that has left holds no slot, whether it ran, failed or was refused
\* after its first slot, unless a cache operation of its own failed.
SlotsAreReturned ==
    \A c \in Calls :
        call[c].pc = "done" /\ ~call[c].lost => \A s \in Slots : Held(s) => slots[s].token # c

\* Admitted and counted in the window whose time was read.
Admitted(c) == call[c].admitted /\ ~call[c].late

\* A refused caller that comes back after the stated wait is admitted, if no
\* other call of its key was counted since.
RetryAfterIsEnough ==
    \A c \in Calls :
        LET k == call[c].key
            w == Window(k)
            again == call[c].at + call[c].retry * Second
            i == again \div w
            Was(j) == IF j = Index(c) THEN call[c].current - 1
                      ELSE IF j = Index(c) - 1 THEN call[c].previous ELSE 0
        IN  call[c].outcome = "rate_limited" /\ (\A j \in DOMAIN rates[k] : rates[k][j] <= Was(j))
            => Fits(k, CountOf(k, i) + 1, CountOf(k, i - 1), again % w)
=============================================================================
