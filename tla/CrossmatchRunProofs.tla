------------------------ MODULE CrossmatchRunProofs ------------------------
(***************************************************************************)
(* The records and payloads of a batch agree, for every batch, coverage    *)
(* map, number of catalogs and retry limit.                                *)
(***************************************************************************)
EXTENDS PipelineDetail, TLAPS

\* What the loop has read so far: records are stored, and come of catalogs
\* that were read.
LoopInv ==
    /\ records \subseteq matches
    /\ \A m \in records : outcome[m[2]] = "read"
    /\ pc = "read" => next \in Catalogs
    /\ pc = "read" => \A c \in Catalogs : c >= next => outcome[c] = "none"

\* Past the guard some catalog was read, unless there was nothing to search.
GuardInv ==
    pc \in {"prepare", "commit"} =>
        Valid = {} \/ \E c \in Catalogs : outcome[c] # "skipped"

\* Before the commit the prepared rows match the tables.
PreparedInv ==
    pc = "commit" => \A a \in Alerts : prepared[a] \in {RecordRow(a), NoRecord}

\* Nothing is announced or recorded before the batch is finished, and nothing
\* runs after it.
FinishedInv ==
    /\ finished => pc = "idle"
    /\ ~ finished => notes = {} /\ recorded = NothingPrepared

RunInv ==
    /\ CrossmatchTyped
    /\ LoopInv
    /\ GuardInv
    /\ PreparedInv
    /\ FinishedInv
    /\ RecordsAgreeWithMatches
    /\ SearchedMeansCovered
    /\ PayloadsAgreeWithRecords
    /\ OutageReverts

\* The properties of a finished batch, which say nothing before that.
Agreement ==
    /\ RecordsAgreeWithMatches
    /\ SearchedMeansCovered
    /\ PayloadsAgreeWithRecords
    /\ OutageReverts

\* A row of outcomes is not the missing record.
LEMMA RowIsARecord ==
  ASSUME NEW row \in [Catalogs -> SearchOutcome]
  PROVE  row # NoRecord
<1>1. 1 \in Catalogs
  BY RunAssumption DEF Catalogs
<1>2. DOMAIN row = Catalogs /\ DOMAIN NoRecord = {}
  BY DEF NoRecord
<1> QED  BY <1>1, <1>2

\* The row prepared for an alert is a row of outcomes.
LEMMA RecordRowType ==
  ASSUME NEW a \in Alerts
  PROVE  RecordRow(a) \in [Catalogs -> SearchOutcome]
  BY DEF RecordRow, Classify, SearchOutcome

\* Before the commit nothing is announced or recorded.
LEMMA NothingYet ==
  ASSUME FinishedInv, ~ finished
  PROVE  Agreement
  BY RunAssumption DEF FinishedInv, Agreement, RecordsAgreeWithMatches, SearchedMeansCovered,
         PayloadsAgreeWithRecords, OutageReverts, HasRecord, NothingPrepared

\* The values a run starts with.
LEMMA FreshRun ==
  /\ NothingPrepared \in Rows
  /\ NothingRead \in [Catalogs -> Outcome]
  /\ 1 \in 1 .. NCatalogs + 1
  /\ 1 \in 1 .. Retries
<1>1. NothingPrepared \in Rows
  BY DEF NothingPrepared, Rows
<1>2. NothingRead \in [Catalogs -> Outcome]
  BY DEF NothingRead, Outcome
<1>3. 1 \in 1 .. NCatalogs + 1 /\ 1 \in 1 .. Retries
  BY RunAssumption
<1> QED  BY <1>1, <1>2, <1>3

LEMMA InitInv == CrossmatchInit => RunInv
<1> SUFFICES ASSUME CrossmatchInit PROVE RunInv
  OBVIOUS
<1>1. CrossmatchTyped
  BY FreshRun DEF CrossmatchInit, CrossmatchTyped, RunPC
<1>2. LoopInv /\ GuardInv /\ PreparedInv /\ FinishedInv
  BY RunAssumption DEF CrossmatchInit, LoopInv, GuardInv, PreparedInv, FinishedInv
<1>3. Agreement
  BY <1>2, NothingYet DEF CrossmatchInit
<1> QED  BY <1>1, <1>2, <1>3 DEF RunInv, Agreement

\* The end of a catalog keeps the loop invariant.
LEMMA CatalogDoneInv ==
  ASSUME CrossmatchTyped, LoopInv, NEW o \in {"read", "no_overlap", "skipped"},
         NEW R \in SUBSET (Valid \X {next}), NEW ok \in BOOLEAN,
         R = {} \/ o = "read", CatalogDone(o, R, ok)
  PROVE  LoopInv'
<1>1. next \in Catalogs
  BY DEF CatalogDone, LoopInv
<1>2. /\ outcome' = [outcome EXCEPT ![next] = o]
      /\ outcome \in [Catalogs -> Outcome]
      /\ records' = records \cup R
      /\ matches' = matches \cup R
      /\ next' = next + 1
      /\ pc' = IF next = NCatalogs THEN "guard" ELSE "read"
  BY DEF CatalogDone, CrossmatchTyped
<1>3. \A m \in records : m \in Valid \X Catalogs /\ outcome[m[2]] = "read"
  BY DEF LoopInv, CrossmatchTyped
<1>4. pc = "read" /\ outcome[next] = "none"
  BY <1>1 DEF CatalogDone, LoopInv, Catalogs
<1>5. \A m \in records : m[2] \in Catalogs /\ m[2] # next
  BY <1>3, <1>4
<1>6. \A m \in R : m[2] = next /\ o = "read"
  OBVIOUS
<1>7. \A m \in records' : outcome'[m[2]] = "read"
  BY <1>1, <1>2, <1>3, <1>5, <1>6
<1>8. pc' = "read" => next' \in Catalogs
  BY <1>1, <1>2, RunAssumption DEF Catalogs
<1>9. \A c \in Catalogs : c >= next' => outcome'[c] = "none"
  BY <1>1, <1>2, <1>4 DEF LoopInv, Catalogs
<1> QED  BY <1>2, <1>7, <1>8, <1>9 DEF LoopInv, Catalogs

\* ... and types.
LEMMA CatalogDoneType ==
  ASSUME CrossmatchTyped, LoopInv, NEW o \in {"read", "no_overlap", "skipped"},
         NEW R \in SUBSET (Valid \X {next}), NEW ok \in BOOLEAN,
         CatalogDone(o, R, ok), struck' \in BOOLEAN
  PROVE  CrossmatchTyped'
<1>1. next \in Catalogs
  BY DEF CatalogDone, LoopInv
<1>2. R \subseteq Valid \X Catalogs
  BY <1>1
<1> QED  BY <1>1, <1>2, RunAssumption DEF CatalogDone, CrossmatchTyped, RunPC, Outcome, Catalogs

\* The final transaction: the prepared rows and the payloads of the run agree.
LEMMA CommitAgrees ==
  ASSUME RunInv, Commit
  PROVE  CrossmatchTyped' /\ Agreement'
<1>1. pc = "commit" /\ notes = {} /\ recorded = NothingPrepared
  BY DEF Commit, RunInv, FinishedInv
<1>2. \A a \in Alerts : recorded'[a] \in {RecordRow(a), NoRecord}
  BY <1>1 DEF Commit, RunInv, PreparedInv, Upserted, NothingPrepared
<1>3. \A a \in Alerts : HasRecord(a)' =>
        /\ recorded'[a] = RecordRow(a)
        /\ \A c \in Catalogs : recorded'[a][c] =
             IF <<a, c>> \in matches THEN "searched" ELSE Classify(a, c)
  BY <1>2 DEF HasRecord, RecordRow
<1>4. UNCHANGED <<struck, runVars, matches>> /\ notes' = NotesOfRun
  BY <1>1 DEF Commit
<1>5. CrossmatchTyped'
  <2>1. recorded' \in Rows
    BY DEF Commit, Upserted, RunInv, CrossmatchTyped, Rows
  <2>2. notes' \subseteq Notes
    BY <1>4 DEF NotesOfRun, Notes, Stamp, Skipped, RunInv, CrossmatchTyped
  <2> QED  BY <1>4, <2>1, <2>2 DEF Commit, RunInv, CrossmatchTyped, runVars, RunPC
<1>6. RecordsAgreeWithMatches'
  BY <1>3, <1>4 DEF RecordsAgreeWithMatches
<1>7. SearchedMeansCovered'
  BY <1>3, <1>4 DEF SearchedMeansCovered, Classify
<1>8. PayloadsAgreeWithRecords'
  <2> SUFFICES ASSUME NEW n \in notes'
               PROVE  /\ n.catalog \notin n.skipped
                      /\ \A c \in Catalogs : HasRecord(n.alert)' =>
                          /\ recorded'[n.alert][c] = "skipped_read_failure" => c \in n.skipped
                          /\ c \in n.skipped =>
                               \/ recorded'[n.alert][c] = "skipped_read_failure"
                               \/ <<n.alert, c>> \in matches'
    BY DEF PayloadsAgreeWithRecords, HasRecord
  <2>1. PICK m \in records : n = [alert |-> m[1], catalog |-> m[2], skipped |-> Skipped]
    BY <1>4 DEF NotesOfRun, Stamp
  <2>2. m[1] \in Valid /\ m[1] \in Alerts /\ outcome[m[2]] = "read"
    BY RunAssumption DEF RunInv, CrossmatchTyped, LoopInv
  <2>3. n.alert = m[1] /\ n.catalog = m[2] /\ n.skipped = Skipped
    BY <2>1
  <2>4. n.catalog \notin n.skipped
    BY <2>2, <2>3 DEF Skipped
  <2>5. ASSUME NEW c \in Catalogs, HasRecord(n.alert)'
        PROVE  /\ recorded'[n.alert][c] = "skipped_read_failure" => c \in n.skipped
               /\ c \in n.skipped => \/ recorded'[n.alert][c] = "skipped_read_failure"
                                     \/ <<n.alert, c>> \in matches'
    BY <1>3, <1>4, <2>2, <2>3, <2>5 DEF Skipped, Classify
  <2> QED  BY <2>4, <2>5
<1>9. OutageReverts'
  <2> SUFFICES ASSUME NEW a \in Valid, HasRecord(a)'
               PROVE  \E c \in Catalogs : recorded'[a][c] # "skipped_read_failure"
    BY DEF OutageReverts, HasRecord
  <2>1. PICK c \in Catalogs : outcome[c] # "skipped"
    BY <1>1 DEF RunInv, GuardInv
  <2>2. a \in Alerts
    BY RunAssumption
  <2> QED  BY <1>3, <2>1, <2>2 DEF Classify
<1> QED  BY <1>5, <1>6, <1>7, <1>8, <1>9 DEF Agreement

\* Every step keeps the invariant.
LEMMA StepInv == RunInv /\ [CrossmatchNext]_crossmatchVars => RunInv'
<1> SUFFICES ASSUME RunInv, [CrossmatchNext]_crossmatchVars PROVE RunInv'
  OBVIOUS
<1>q. ASSUME CrossmatchTyped', LoopInv', GuardInv', PreparedInv', FinishedInv', ~ finished'
      PROVE  RunInv'
  <2>1. Agreement'
    BY <1>q, RunAssumption
    DEF FinishedInv, Agreement, RecordsAgreeWithMatches, SearchedMeansCovered,
        PayloadsAgreeWithRecords, OutageReverts, HasRecord, NothingPrepared
  <2> QED  BY <1>q, <2>1 DEF RunInv, Agreement
<1>u. CASE UNCHANGED crossmatchVars
  BY <1>u DEF crossmatchVars, runVars, tableVars, RunInv, CrossmatchTyped, LoopInv, GuardInv, PreparedInv,
              FinishedInv, RecordRow, Classify, RecordsAgreeWithMatches,
              SearchedMeansCovered, PayloadsAgreeWithRecords, OutageReverts, HasRecord
<1>1. CASE Begin
  <2>1. CrossmatchTyped'
    BY <1>1, FreshRun DEF Begin, RunInv, CrossmatchTyped, tableVars, RunPC
  <2>2. LoopInv'
    BY <1>1, RunAssumption DEF Begin, LoopInv, NothingRead, Catalogs
  <2>3. GuardInv' /\ PreparedInv' /\ FinishedInv' /\ ~ finished'
    BY <1>1 DEF Begin, RunInv, GuardInv, PreparedInv, FinishedInv, tableVars
  <2> QED  BY <1>q, <2>1, <2>2, <2>3
<1>2. ASSUME NEW o \in {"read", "no_overlap", "skipped"},
             NEW R \in SUBSET (Valid \X {next}), NEW ok \in BOOLEAN,
             R = {} \/ o = "read", CatalogDone(o, R, ok), struck' \in BOOLEAN
      PROVE  RunInv'
  <2>1. CrossmatchTyped' /\ LoopInv'
    BY <1>2, CatalogDoneInv, CatalogDoneType DEF RunInv
  <2>2. GuardInv' /\ PreparedInv' /\ FinishedInv' /\ ~ finished'
    BY <1>2 DEF CatalogDone, RunInv, GuardInv, PreparedInv, FinishedInv
  <2> QED  BY <1>q, <2>1, <2>2
<1>3. CASE Read
  BY <1>2, <1>3 DEF Read, RunInv, CrossmatchTyped
<1>4. CASE NoOverlap
  BY <1>2, <1>4 DEF NoOverlap, RunInv, CrossmatchTyped
<1>5. ASSUME NEW e \in Exceptions, Retry(e) PROVE RunInv'
  <2>1. CrossmatchTyped' /\ LoopInv'
    BY <1>5, RunAssumption DEF Retry, AttemptsLeft, Hit, RunInv, CrossmatchTyped, LoopInv, tableVars
  <2>2. GuardInv' /\ PreparedInv' /\ FinishedInv' /\ ~ finished'
    BY <1>5 DEF Retry, RunInv, GuardInv, PreparedInv, FinishedInv, tableVars
  <2> QED  BY <1>q, <2>1, <2>2
<1>6. ASSUME NEW e \in Exceptions, Skip(e) PROVE RunInv'
  BY <1>2, <1>6 DEF Skip, Hit, RunInv, CrossmatchTyped
<1>7. ASSUME Abandon, pc # "idle", struck' \in BOOLEAN PROVE RunInv'
  <2>1. CrossmatchTyped' /\ LoopInv'
    BY <1>7 DEF Abandon, RunInv, CrossmatchTyped, LoopInv, runVars, tableVars, RunPC
  <2>2. GuardInv' /\ PreparedInv' /\ FinishedInv' /\ ~ finished'
    BY <1>7 DEF Abandon, RunInv, GuardInv, PreparedInv, FinishedInv, tableVars
  <2> QED  BY <1>q, <2>1, <2>2
<1>8. ASSUME NEW e \in Exceptions, RaiseOut(e) PROVE RunInv'
  BY <1>7, <1>8 DEF RaiseOut, Hit, RunInv, CrossmatchTyped
<1>9. CASE Guard
  <2>1. CrossmatchTyped' /\ LoopInv' /\ PreparedInv' /\ FinishedInv' /\ ~ finished'
    BY <1>9 DEF Guard, RunInv, CrossmatchTyped, LoopInv, PreparedInv, FinishedInv, runVars,
                tableVars, RunPC
  <2>2. GuardInv'
    BY <1>9 DEF Guard, GuardInv, AllSkipped, Skipped, runVars
  <2> QED  BY <1>q, <2>1, <2>2
<1>10. CASE Prepare
  <2>1. PICK S \in SUBSET Alerts :
          prepared' = [a \in Alerts |-> IF a \in S THEN RecordRow(a) ELSE NoRecord]
    BY <1>10 DEF Prepare
  <2>2. CrossmatchTyped'
    BY <1>10, <2>1, RecordRowType DEF Prepare, RunInv, CrossmatchTyped, Rows, tableVars, RunPC
  <2>3. PreparedInv'
    <3>1. \A a \in Alerts : RecordRow(a)' = RecordRow(a)
      BY <1>10 DEF Prepare, RecordRow, Classify, tableVars
    <3> QED  BY <2>1, <3>1 DEF PreparedInv
  <2>4. LoopInv' /\ GuardInv' /\ FinishedInv' /\ ~ finished'
    BY <1>10 DEF Prepare, RunInv, LoopInv, GuardInv, FinishedInv, tableVars
  <2> QED  BY <1>q, <2>2, <2>3, <2>4
<1>11. CASE Commit
  <2>1. CrossmatchTyped' /\ Agreement'
    BY <1>11, CommitAgrees
  <2>2. LoopInv' /\ GuardInv' /\ PreparedInv' /\ FinishedInv'
    BY <1>11 DEF Commit, RunInv, LoopInv, GuardInv, PreparedInv, FinishedInv, runVars
  <2> QED  BY <2>1, <2>2 DEF RunInv, Agreement
<1>12. CASE Fail
  BY <1>7, <1>12 DEF Fail, RunInv, CrossmatchTyped
<1> QED
  BY <1>u, <1>1, <1>3, <1>4, <1>5, <1>6, <1>8, <1>9, <1>10, <1>11, <1>12 DEF CrossmatchNext

\* The composition adds nothing to what a run does.
LEMMA CrossmatchFollowed == Spec => CrossmatchSpec
<1>1. Init => CrossmatchInit
  BY DEF Init
<1>2. [Next]_detailVars => [CrossmatchNext]_crossmatchVars
  BY DEF Next, IngestPart, CrossmatchPart, BatchDone, detailVars
<1> QED  BY <1>1, <1>2, PTL DEF Spec, CrossmatchSpec

\* The records, the stored matches and the payloads of a batch agree, however
\* often the batch was reverted and run again, whatever failed in its reads.
THEOREM RecordsAgree ==
  Spec => [](/\ CrossmatchTyped /\ RecordsAgreeWithMatches /\ SearchedMeansCovered
             /\ PayloadsAgreeWithRecords)
<1>1. RunInv => /\ CrossmatchTyped /\ RecordsAgreeWithMatches /\ SearchedMeansCovered
                /\ PayloadsAgreeWithRecords
  BY DEF RunInv
<1> QED  BY <1>1, InitInv, StepInv, CrossmatchFollowed, PTL DEF CrossmatchSpec

\* The run's variables keep their types, whatever is raised where.
THEOREM RunIsTyped == Spec => []CrossmatchTyped
BY RecordsAgree, PTL

\* No record says a catalog was searched that was neither matched nor covers
\* the alert's position.
THEOREM SearchedIsCovered == Spec => []SearchedMeansCovered
BY RecordsAgree, PTL

\* Payloads and records tell the same story about every catalog.
THEOREM PayloadsTellTheSame == Spec => []PayloadsAgreeWithRecords
BY RecordsAgree, PTL

\* A batch in which every catalog was skipped is never recorded.
THEOREM OutageIsReverted == Spec => []OutageReverts
<1>1. RunInv => OutageReverts
  BY DEF RunInv
<1> QED  BY <1>1, InitInv, StepInv, CrossmatchFollowed, PTL DEF CrossmatchSpec

\* The soft time limit ends the run it is raised in: no handler takes it for a
\* transient error.
THEOREM SoftLimitIsNoSkip == Spec => []SoftLimitEndsRun
<1>1. CrossmatchInit => SoftLimitEndsRun
  BY DEF CrossmatchInit, SoftLimitEndsRun
<1>2. SoftLimitEndsRun /\ [CrossmatchNext]_crossmatchVars => SoftLimitEndsRun'
  <2> SUFFICES ASSUME SoftLimitEndsRun, [CrossmatchNext]_crossmatchVars PROVE SoftLimitEndsRun'
    OBVIOUS
  <2> USE DEF SoftLimitEndsRun
  <2>1. CASE UNCHANGED crossmatchVars \/ Begin \/ Guard \/ Prepare \/ Commit \/ Fail
    BY <2>1 DEF crossmatchVars, Begin, Guard, Prepare, Commit, Fail, Abandon
  <2>2. CASE Read \/ NoOverlap
    BY <2>2 DEF Read, NoOverlap, CatalogDone
  <2>3. ASSUME NEW e \in Exceptions, Retry(e) \/ Skip(e) PROVE SoftLimitEndsRun'
    BY <2>3 DEF Retry, Skip, CatalogDone, Hit, IsSoft
  <2>4. ASSUME NEW e \in Exceptions, RaiseOut(e) PROVE SoftLimitEndsRun'
    BY <2>4 DEF RaiseOut, Abandon
  <2> QED  BY <2>1, <2>2, <2>3, <2>4 DEF CrossmatchNext
<1> QED  BY <1>1, <1>2, CrossmatchFollowed, PTL DEF CrossmatchSpec

\* A record denies no match and claims no search, for any batch and catalogs.
THEOREM RecordsHold == Spec => []RecordsAreTrue
BY RecordsAgree, PTL DEF RecordsAreTrue

\* Neither an outage of every catalog nor the soft limit passes for a skip.
THEOREM FailuresStayFailures == Spec => []FailuresAreNotSkips
BY OutageIsReverted, SoftLimitIsNoSkip, PTL DEF FailuresAreNotSkips

\* A step that changes what the alerts see is the final transaction, and that is
\* a Crossmatch of the whole batch: nothing was announced before it.
LEMMA CommitCrossmatches ==
  ASSUME RunInv, Commit
  PROVE  /\ Promise!Waiting = Alerts /\ records \subseteq matches
         /\ Promise!Crossmatch(Alerts, records)
         /\ \A n, m \in notes' : n.alert = m.alert /\ n.catalog = m.catalog => n = m
<1>1. /\ ~ finished /\ notes = {} /\ finished' = TRUE
      /\ notes' = {[alert |-> m[1], catalog |-> m[2], skipped |-> Skipped] : m \in records}
  BY DEF RunInv, FinishedInv, Commit, NotesOfRun, Stamp
<1>2. records \subseteq matches /\ records \subseteq Valid \X Catalogs
  BY DEF RunInv, LoopInv, CrossmatchTyped
<1>3. Promise!Waiting = Alerts
  BY <1>1 DEF Promise!Waiting
<1>4. ASSUME NEW m \in Alerts \X Catalogs PROVE Announced(m)' <=> m \in records
  <2>1. ASSUME NEW k \in records, m = <<k[1], k[2]>> PROVE m \in records
    BY <1>2, <2>1
  <2>2. ASSUME m \in records PROVE Announced(m)'
    <3>1. PICK n : n = [alert |-> m[1], catalog |-> m[2], skipped |-> Skipped]
      OBVIOUS
    <3>2. n \in notes' /\ m = <<n.alert, n.catalog>>
      BY <1>1, <1>2, <2>2, <3>1
    <3> QED  BY <3>2 DEF Announced
  <2>3. ASSUME NEW n \in notes', m = <<n.alert, n.catalog>> PROVE m \in records
    <3>1. PICK k \in records : n = [alert |-> k[1], catalog |-> k[2], skipped |-> Skipped]
      BY <1>1
    <3>2. m = <<k[1], k[2]>>
      BY <2>3, <3>1
    <3> QED  BY <2>1, <3>2
  <2> QED  BY <2>2, <2>3 DEF Announced
<1>5. [a \in Alerts |-> IF finished' THEN "matched" ELSE "waiting"]
        = [a \in Alerts |-> IF a \in Alerts THEN "matched"
                            ELSE [b \in Alerts |-> IF finished THEN "matched" ELSE "waiting"][a]]
  BY <1>1
<1>6. [m \in Alerts \X Catalogs |-> IF Announced(m)' THEN "PENDING" ELSE "none"]
        = [m \in Alerts \X Catalogs |->
             IF m \in records THEN "PENDING"
             ELSE [p \in Alerts \X Catalogs |-> IF Announced(p) THEN "PENDING" ELSE "none"][m]]
  BY <1>1, <1>4 DEF Announced
<1>7. Promise!Crossmatch(Alerts, records)
  BY <1>5, <1>6 DEF Promise!Crossmatch, Promise!Matches
<1>8. \A n, m \in notes' : n.alert = m.alert /\ n.catalog = m.catalog => n = m
  BY <1>1
<1> QED  BY <1>2, <1>3, <1>7, <1>8

\* The loop over the catalogs, whatever it skips, retries or leaves behind, is
\* one step of the lifecycle of its alerts, and the batch is done after it.
THEOREM RunIsOneStep == Spec => BatchIsOneStep
<1>1. RunInv /\ [CrossmatchNext]_crossmatchVars =>
        [/\ Promise!Waiting = Alerts /\ records \subseteq matches
         /\ Promise!Crossmatch(Alerts, records)
         /\ \A n, m \in notes' : n.alert = m.alert /\ n.catalog = m.catalog => n = m
        ]_<<finished, notes>>
  <2> SUFFICES ASSUME RunInv, CrossmatchNext, ~ UNCHANGED <<finished, notes>> PROVE Commit
    BY CommitCrossmatches DEF crossmatchVars, tableVars
  <2>1. ~ (Begin \/ Read \/ NoOverlap \/ Guard \/ Prepare \/ Fail)
    BY DEF Begin, Read, NoOverlap, Guard, Prepare, Fail, CatalogDone, Abandon, tableVars
  <2>2. \A e \in Exceptions : ~ (Retry(e) \/ Skip(e) \/ RaiseOut(e))
    BY DEF Retry, Skip, RaiseOut, CatalogDone, Abandon, tableVars
  <2> QED  BY <2>1, <2>2 DEF CrossmatchNext
<1> QED  BY <1>1, InitInv, StepInv, CrossmatchFollowed, PTL DEF CrossmatchSpec, BatchIsOneStep
=============================================================================
