------------------------ MODULE ExecutionQueueProofs ------------------------
(***************************************************************************)
(* Proofs about ExecutionQueue, for any number of jobs, sessions and       *)
(* workers and however their loads and flushes interleave.                 *)
(*                                                                         *)
(* The inductive invariant adds to the types what the constraints enforce  *)
(* on the table and what every pending write knows of the row it loaded:   *)
(* that row was not in doubt, and uncertain was assigned together with the *)
(* status.  A stale flush over a row in doubt then leaves uncertain TRUE   *)
(* under another status, which the CHECK constraint refuses.               *)
(***************************************************************************)
EXTENDS ExecutionQueue, TLAPS

Sound(w) ==
  /\ w.loaded.status # "SUBMIT_UNKNOWN"
  /\ w.loaded.uncertain = FALSE
  /\ w.assigned.uncertain = (w.assigned.status = "SUBMIT_UNKNOWN")

PendingWritesAreSound ==
  \A s \in DOMAIN uow : \A j \in DOMAIN uow[s].writes : Sound(uow[s].writes[j])

IInv ==
  /\ TypeOK
  /\ Consistent(jobs)
  /\ AttemptsNumbered
  /\ PendingWritesAreSound

-----------------------------------------------------------------------------
(***************************************************************************)
(* Rows and what a flush does to them.                                     *)
(***************************************************************************)
\* A flush keeps the type of a row and never touches what create and claim
\* alone write: the request and the attempt counter.
LEMMA FlushJobType ==
  ASSUME NEW row \in JobRow, NEW l \in JobRow, NEW a \in JobRow
  PROVE  /\ FlushJob(row, l, a) \in JobRow
         /\ FlushJob(row, l, a).req = row.req
         /\ FlushJob(row, l, a).count = row.count
<1>1. /\ Net(row.status, l.status, a.status) \in JobStatus
      /\ Net(row.owner, l.owner, a.owner) \in Workers \cup {None}
      /\ Net(row.expires, l.expires, a.expires) \in Nat
  BY DEF Net, JobRow
<1>2. /\ Net(row.submitted, l.submitted, a.submitted) \in BOOLEAN
      /\ Net(row.uncertain, l.uncertain, a.uncertain) \in BOOLEAN
      /\ Net(row.result, l.result, a.result) \in BOOLEAN
  BY Zenon DEF Net, JobRow
<1> QED BY ZenonT(30), <1>1, <1>2 DEF FlushJob, JobRow

LEMMA FlushAttemptType ==
  ASSUME NEW row \in AttemptRow, NEW l \in AttemptRow, NEW a \in AttemptRow
  PROVE  FlushAttempt(row, l, a) \in AttemptRow
BY DEF FlushAttempt, AttemptRow, Net

LEMMA NewRowTypes ==
  /\ NewAttempt \in AttemptRow
  /\ \A r \in Requests : NewJob(r) \in JobRow
BY DEF NewAttempt, NewJob, AttemptRow, JobRow, AttemptStatus, SubmissionState,
       JobStatus

\* A sound write that meets the CHECK constraint leaves a row in doubt in doubt.
LEMMA FlushKeepsDoubt ==
  ASSUME NEW row \in JobRow, NEW l \in JobRow, NEW a \in JobRow,
         row.status = "SUBMIT_UNKNOWN", row.uncertain = TRUE,
         l.status # "SUBMIT_UNKNOWN", l.uncertain = FALSE,
         a.uncertain = (a.status = "SUBMIT_UNKNOWN"),
         FlushJob(row, l, a).uncertain
           = (FlushJob(row, l, a).status = "SUBMIT_UNKNOWN")
  PROVE  FlushJob(row, l, a).status = "SUBMIT_UNKNOWN"
<1>1. FlushJob(row, l, a).status = Net(row.status, l.status, a.status)
  BY DEF FlushJob, JobRow
<1>2. FlushJob(row, l, a).uncertain = Net(row.uncertain, l.uncertain, a.uncertain)
  BY DEF FlushJob, JobRow
<1>3. CASE a.status = "SUBMIT_UNKNOWN"
  BY <1>1, <1>3 DEF Net
<1>4. CASE a.status # "SUBMIT_UNKNOWN"
  <2>1. a.uncertain = FALSE
    BY <1>4
  <2>2. FlushJob(row, l, a).uncertain = TRUE
    BY <1>2, <2>1 DEF Net
  <2> QED BY <2>2
<1> QED BY <1>3, <1>4

\* latest_attempt finds the attempt numbered attempt_count.
LEMMA LatestIsCount ==
  ASSUME TypeOK, AttemptsNumbered, NEW j \in DOMAIN jobs
  PROVE  /\ LatestNumber(j) = jobs[j].count
         /\ jobs[j].count \in Nat
         /\ LatestNumber(j) # 0 => Latest(j) \in AttemptRow
<1>1. jobs[j].count \in Nat
  BY DEF TypeOK, JobRow
<1>2. DOMAIN attempts[j] = 1..jobs[j].count
  BY DEF AttemptsNumbered
<1>3. CASE jobs[j].count = 0
  BY <1>1, <1>2, <1>3 DEF LatestNumber
<1>4. CASE jobs[j].count # 0
  <2>1. jobs[j].count \in DOMAIN attempts[j]
    BY <1>1, <1>2, <1>4
  <2>2. \A m \in DOMAIN attempts[j] : m <= jobs[j].count
    BY <1>1, <1>2
  <2>3. \E n \in DOMAIN attempts[j] : \A m \in DOMAIN attempts[j] : m <= n
    BY <2>1, <2>2
  <2>4. /\ LatestNumber(j) \in DOMAIN attempts[j]
        /\ \A m \in DOMAIN attempts[j] : m <= LatestNumber(j)
    BY <2>1, <2>3 DEF LatestNumber
  <2>5. LatestNumber(j) = jobs[j].count
    BY <1>1, <1>2, <2>1, <2>4
  <2>6. Latest(j) \in AttemptRow
    BY <2>4 DEF Latest, TypeOK
  <2> QED BY <1>1, <2>5, <2>6
<1> QED BY <1>3, <1>4

-----------------------------------------------------------------------------
(***************************************************************************)
(* What an operation leaves in its unit of work is typed and sound.        *)
(***************************************************************************)
Acceptable(writes) ==
  /\ DOMAIN writes \subseteq DOMAIN jobs
  /\ \A j \in DOMAIN writes : writes[j] \in Write /\ Sound(writes[j])

LEMMA RowWriteType ==
  ASSUME TypeOK, NEW j \in DOMAIN jobs, NEW a \in JobRow
  PROVE  /\ RowWrite(j, a) \in Write
         /\ RowWrite(j, a).loaded = jobs[j]
         /\ RowWrite(j, a).assigned = a
BY NewRowTypes DEF RowWrite, Write, TypeOK

LEMMA PairWriteType ==
  ASSUME TypeOK, AttemptsNumbered, NEW j \in DOMAIN jobs, LatestNumber(j) # 0,
         NEW a \in JobRow, NEW b \in AttemptRow
  PROVE  /\ PairWrite(j, a, b) \in Write
         /\ PairWrite(j, a, b).loaded = jobs[j]
         /\ PairWrite(j, a, b).assigned = a
BY LatestIsCount DEF PairWrite, Write, TypeOK

\* Released and the assignments of the operations stay within the row types.
LEMMA ReleasedType ==
  ASSUME NEW row \in JobRow
  PROVE  /\ Released(row) \in JobRow
         /\ Released(row).uncertain = row.uncertain
         /\ Released(row).status = row.status
BY DEF Released, JobRow

\* A row loaded in another status than SUBMIT_UNKNOWN is not in doubt.
LEMMA LoadedIsCertain ==
  ASSUME Consistent(jobs), NEW j \in DOMAIN jobs,
         jobs[j].status # "SUBMIT_UNKNOWN"
  PROVE  jobs[j].uncertain = FALSE
BY DEF Consistent, CheckRow

LEMMA BeginKeepsIInv ==
  ASSUME IInv, NEW s \in Sessions, NEW writes, Acceptable(writes),
         NEW insert \in Requests \cup {None},
         NEW claimer \in Workers \cup {None},
         NEW types \in ClaimFilters \cup {{}},
         Begin(s, writes, insert, claimer, types)
  PROVE  IInv'
<1> DEFINE u == [writes |-> writes, insert |-> insert, claimer |-> claimer,
                 types |-> types, now |-> clock]
<1>1. /\ jobs' = jobs /\ attempts' = attempts /\ clock' = clock
      /\ uow' = [t \in DOMAIN uow \cup {s} |-> IF t = s THEN u ELSE uow[t]]
  BY DEF Begin, tables
<1>2. UnitOfWork(u)
  <2>1. clock \in Nat
    BY DEF IInv, TypeOK
  <2>2. DOMAIN writes \subseteq DOMAIN jobs /\ \A j \in DOMAIN writes : writes[j] \in Write
    BY DEF Acceptable
  <2> QED BY <2>1, <2>2 DEF UnitOfWork
<1>3. TypeOK'
  <2> HIDE DEF u
  <2>1. \A t \in DOMAIN uow' : UnitOfWork(uow'[t])
    BY <1>1, <1>2 DEF IInv, TypeOK
  <2>2. \A t \in DOMAIN uow' : UnitOfWork(uow[t])'
    BY ZenonT(30), <2>1, <1>1 DEF UnitOfWork
  <2> QED BY <2>2, <1>1 DEF IInv, TypeOK
<1>4. PendingWritesAreSound'
  BY <1>1 DEF IInv, PendingWritesAreSound, Acceptable
<1>5. Consistent(jobs)' /\ AttemptsNumbered'
  BY <1>1 DEF IInv, AttemptsNumbered, Consistent, UniqueKeys
<1> QED BY <1>3, <1>4, <1>5 DEF IInv

LEMMA BeginWriteKeepsIInv ==
  ASSUME IInv, NEW s \in Sessions, NEW j \in DOMAIN jobs, NEW w \in Write, Sound(w),
         BeginWrite(s, j, w)
  PROVE  IInv'
<1> DEFINE writes == [i \in {j} |-> w]
<1>1. Acceptable(writes)
  BY DEF Acceptable
<1>2. Begin(s, writes, None, None, {})
  BY DEF BeginWrite, BeginWrites
<1> HIDE DEF writes
<1> QED BY <1>1, <1>2, BeginKeepsIInv

LEMMA SetStatusKeepsIInv ==
  ASSUME IInv, NEW s \in Sessions, NEW j \in DOMAIN jobs, NEW from,
         NEW to \in JobStatus, "SUBMIT_UNKNOWN" \notin from, to # "SUBMIT_UNKNOWN",
         SetStatus(s, j, from, to)
  PROVE  IInv'
<1> DEFINE a == [jobs[j] EXCEPT !.status = to]
<1>1. jobs[j] \in JobRow /\ jobs[j].status # "SUBMIT_UNKNOWN"
  BY DEF IInv, TypeOK, SetStatus
<1>2. a \in JobRow /\ a.status = to /\ a.uncertain = jobs[j].uncertain
  BY <1>1 DEF JobRow
<1>3. jobs[j].uncertain = FALSE
  BY <1>1, LoadedIsCertain DEF IInv
<1>4. BeginWrite(s, j, RowWrite(j, a))
  BY DEF SetStatus
<1> HIDE DEF a
<1>5. RowWrite(j, a) \in Write /\ Sound(RowWrite(j, a))
  BY <1>1, <1>2, <1>3, RowWriteType DEF IInv, Sound
<1> QED BY <1>4, <1>5, BeginWriteKeepsIInv

LEMMA UserStepKeepsIInv ==
  ASSUME IInv, NEW s \in Sessions, UserStep(s)
  PROVE  IInv'
<1>1. ASSUME NEW r \in Requests, Create(s, r)
      PROVE  IInv'
  <2>1. Begin(s, NoWrites, r, None, {})
    BY <1>1 DEF Create
  <2>2. Acceptable(NoWrites)
    BY DEF Acceptable, NoWrites
  <2> QED BY <2>1, <2>2, BeginKeepsIInv
<1>2. ASSUME NEW j \in DOMAIN jobs, Pause(s, j)
      PROVE  IInv'
  BY <1>2, SetStatusKeepsIInv DEF Pause, JobStatus
<1>3. ASSUME NEW j \in DOMAIN jobs, Resume(s, j)
      PROVE  IInv'
  BY <1>3, SetStatusKeepsIInv DEF Resume, JobStatus
<1>4. ASSUME NEW j \in DOMAIN jobs, Cancel(s, j)
      PROVE  IInv'
  BY <1>4, SetStatusKeepsIInv DEF Cancel, JobStatus
<1>5. ASSUME NEW j \in DOMAIN jobs, Retry(s, j)
      PROVE  IInv'
  BY <1>5, SetStatusKeepsIInv DEF Retry, JobStatus
<1> QED BY <1>1, <1>2, <1>3, <1>4, <1>5 DEF UserStep

\* A write of a running job and its attempt is sound when it assigns
\* uncertain together with the status.
LEMMA RunningWriteIsSound ==
  ASSUME IInv, NEW j \in DOMAIN jobs, Running(j), NEW a \in JobRow,
         a.uncertain = (a.status = "SUBMIT_UNKNOWN")
  PROVE  /\ RowWrite(j, a) \in Write /\ Sound(RowWrite(j, a))
         /\ \A b \in AttemptRow : LatestNumber(j) # 0 =>
              PairWrite(j, a, b) \in Write /\ Sound(PairWrite(j, a, b))
<1>1. jobs[j].status # "SUBMIT_UNKNOWN" /\ jobs[j].uncertain = FALSE
  BY LoadedIsCertain DEF IInv, Running
<1>2. RowWrite(j, a) \in Write /\ Sound(RowWrite(j, a))
  BY <1>1, RowWriteType DEF IInv, Sound
<1>3. ASSUME NEW b \in AttemptRow, LatestNumber(j) # 0
      PROVE  PairWrite(j, a, b) \in Write /\ Sound(PairWrite(j, a, b))
  BY <1>1, <1>3, PairWriteType DEF IInv, Sound
<1> QED BY <1>2, <1>3

LEMMA RecoveryIsAcceptable ==
  ASSUME IInv
  PROVE  Acceptable(RecoverExpiredLeases)
<1> SUFFICES ASSUME NEW j \in ExpiredJobs
             PROVE  /\ j \in DOMAIN jobs
                    /\ RecoverExpiredLeases[j] \in Write
                    /\ Sound(RecoverExpiredLeases[j])
  BY DEF Acceptable, RecoverExpiredLeases
<1>1. j \in DOMAIN jobs /\ Running(j) /\ jobs[j] \in JobRow
  BY DEF ExpiredJobs, LeaseExpired, IInv, TypeOK
<1>2. /\ RecoveredJob(j) \in JobRow
      /\ RecoveredJob(j).uncertain = (RecoveredJob(j).status = "SUBMIT_UNKNOWN")
  <2>1. CASE ExternalPossible(j)
    BY <1>1, <2>1, ReleasedType DEF RecoveredJob, JobRow, JobStatus
  <2>2. CASE ~ExternalPossible(j)
    BY <1>1, <2>2, ReleasedType DEF RecoveredJob, JobRow, JobStatus
  <2> QED BY <2>1, <2>2
<1>3. LatestNumber(j) # 0 => RecoveredAttempt(j) \in AttemptRow
  <2>1. LatestNumber(j) # 0 => Latest(j) \in AttemptRow
    BY <1>1, LatestIsCount DEF IInv
  <2> QED BY <2>1 DEF RecoveredAttempt, AttemptRow, AttemptStatus, SubmissionState,
                      CertainStates
<1> QED BY <1>1, <1>2, <1>3, RunningWriteIsSound DEF RecoverExpiredLeases

LEMMA OwnedFacts ==
  ASSUME IInv, NEW j \in DOMAIN jobs, NEW w, OwnedRunning(j, w)
  PROVE  /\ Running(j) /\ LatestNumber(j) # 0
         /\ jobs[j] \in JobRow /\ Latest(j) \in AttemptRow
         /\ jobs[j].status = "RUNNING" /\ jobs[j].uncertain = FALSE
BY LatestIsCount, LoadedIsCertain DEF OwnedRunning, IInv, TypeOK, Running

LEMMA HeartbeatKeepsIInv ==
  ASSUME IInv, NEW s \in Sessions, NEW j \in DOMAIN jobs, NEW w,
         NEW calls \in Nat, NEW external \in BOOLEAN,
         Heartbeat(s, j, w, calls, external)
  PROVE  IInv'
<1> DEFINE attempt == [Latest(j) EXCEPT !.calls = calls]
           leased == [jobs[j] EXCEPT !.expires = clock + LeaseTicks]
           a == IF external THEN [leased EXCEPT !.submitted = TRUE] ELSE leased
           b == IF external
                THEN [attempt EXCEPT !.external = TRUE, !.state = "SUBMIT_UNKNOWN"]
                ELSE attempt
<1>1. /\ Running(j) /\ LatestNumber(j) # 0
      /\ jobs[j] \in JobRow /\ Latest(j) \in AttemptRow
      /\ jobs[j].status = "RUNNING" /\ jobs[j].uncertain = FALSE
  BY OwnedFacts DEF Heartbeat
<1>2. clock + LeaseTicks \in Nat
  BY LeaseAssumption DEF IInv, TypeOK
<1>3. a \in JobRow /\ a.uncertain = FALSE /\ a.status = "RUNNING"
  BY <1>1, <1>2 DEF JobRow
<1>4. b \in AttemptRow
  BY <1>1 DEF AttemptRow, SubmissionState
<1>5. BeginWrite(s, j, PairWrite(j, a, b))
  BY DEF Heartbeat
<1> HIDE DEF a, b
<1>6. PairWrite(j, a, b) \in Write /\ Sound(PairWrite(j, a, b))
  BY <1>1, <1>3, <1>4, RunningWriteIsSound
<1> QED BY <1>5, <1>6, BeginWriteKeepsIInv

LEMMA CompleteKeepsIInv ==
  ASSUME IInv, NEW s \in Sessions, NEW j \in DOMAIN jobs, NEW w,
         NEW calls \in Nat, NEW operation \in BOOLEAN, NEW entity \in BOOLEAN,
         Complete(s, j, w, calls, operation, entity)
  PROVE  IInv'
<1> DEFINE a == [Released(jobs[j]) EXCEPT !.status = "SUCCEEDED",
                   !.submitted = @ \/ operation, !.uncertain = FALSE,
                   !.result = entity]
           b == [Latest(j) EXCEPT !.status = "SUCCEEDED", !.calls = calls,
                   !.state = IF calls > 0 \/ Latest(j).external
                             THEN "RESPONSE_RECEIVED" ELSE "NOT_STARTED"]
<1>1. /\ Running(j) /\ LatestNumber(j) # 0
      /\ jobs[j] \in JobRow /\ Latest(j) \in AttemptRow
  BY OwnedFacts DEF Complete
<1>2. a \in JobRow /\ a.uncertain = FALSE /\ a.status = "SUCCEEDED"
  <2>1. Released(jobs[j]) \in JobRow
    BY <1>1, ReleasedType
  <2>2. (Released(jobs[j]).submitted \/ operation) \in BOOLEAN
    OBVIOUS
  <2> QED BY <2>1, <2>2 DEF JobRow, JobStatus
<1>3. b \in AttemptRow
  BY <1>1 DEF AttemptRow, AttemptStatus, SubmissionState, CertainStates
<1>4. BeginWrite(s, j, PairWrite(j, a, b))
  BY DEF Complete
<1> HIDE DEF a, b
<1>5. PairWrite(j, a, b) \in Write /\ Sound(PairWrite(j, a, b))
  BY <1>1, <1>2, <1>3, RunningWriteIsSound
<1> QED BY <1>4, <1>5, BeginWriteKeepsIInv

LEMMA FailKeepsIInv ==
  ASSUME IInv, NEW s \in Sessions, NEW j \in DOMAIN jobs, NEW w,
         NEW calls \in Nat, NEW external \in BOOLEAN, NEW state \in FailStates,
         Fail(s, j, w, calls, external, state)
  PROVE  IInv'
<1> DEFINE a == [Released(jobs[j]) EXCEPT !.status = "FAILED", !.uncertain = FALSE]
           b == [Latest(j) EXCEPT !.status = "FAILED", !.calls = calls,
                                  !.state = state]
<1>1. /\ Running(j) /\ LatestNumber(j) # 0
      /\ jobs[j] \in JobRow /\ Latest(j) \in AttemptRow
  BY OwnedFacts DEF Fail
<1>2. a \in JobRow /\ a.uncertain = FALSE /\ a.status = "FAILED"
  BY <1>1, ReleasedType DEF JobRow, JobStatus
<1>3. b \in AttemptRow
  BY <1>1 DEF AttemptRow, AttemptStatus, SubmissionState, FailStates
<1>4. BeginWrite(s, j, PairWrite(j, a, b))
  BY DEF Fail
<1> HIDE DEF a, b
<1>5. PairWrite(j, a, b) \in Write /\ Sound(PairWrite(j, a, b))
  BY <1>1, <1>2, <1>3, RunningWriteIsSound
<1> QED BY <1>4, <1>5, BeginWriteKeepsIInv

LEMMA MarkSubmitUnknownKeepsIInv ==
  ASSUME IInv, NEW s \in Sessions, NEW j \in DOMAIN jobs, NEW w,
         NEW calls \in Nat, MarkSubmitUnknown(s, j, w, calls)
  PROVE  IInv'
<1> DEFINE a == [Released(jobs[j]) EXCEPT !.status = "SUBMIT_UNKNOWN",
                   !.uncertain = TRUE, !.submitted = TRUE]
           b == [Latest(j) EXCEPT !.status = "SUBMIT_UNKNOWN", !.calls = calls,
                   !.external = TRUE, !.state = "SUBMIT_UNKNOWN"]
<1>1. /\ Running(j) /\ LatestNumber(j) # 0
      /\ jobs[j] \in JobRow /\ Latest(j) \in AttemptRow
  BY OwnedFacts DEF MarkSubmitUnknown
<1>2. a \in JobRow /\ a.uncertain = TRUE /\ a.status = "SUBMIT_UNKNOWN"
  BY <1>1, ReleasedType DEF JobRow, JobStatus
<1>3. b \in AttemptRow
  BY <1>1 DEF AttemptRow, AttemptStatus, SubmissionState
<1>4. BeginWrite(s, j, PairWrite(j, a, b))
  BY DEF MarkSubmitUnknown
<1> HIDE DEF a, b
<1>5. PairWrite(j, a, b) \in Write /\ Sound(PairWrite(j, a, b))
  BY <1>1, <1>2, <1>3, RunningWriteIsSound
<1> QED BY <1>4, <1>5, BeginWriteKeepsIInv

LEMMA WorkerStepKeepsIInv ==
  ASSUME IInv, NEW s \in Sessions, WorkerStep(s)
  PROVE  IInv'
<1>1. ASSUME Recover(s) PROVE IInv'
  <2>1. Begin(s, RecoverExpiredLeases, None, None, {})
    BY <1>1 DEF Recover, BeginWrites
  <2> QED BY <2>1, RecoveryIsAcceptable, BeginKeepsIInv
<1>2. ASSUME NEW w \in Workers, NEW types \in ClaimFilters, Claim(s, w, types)
      PROVE  IInv'
  <2>1. Begin(s, RecoverExpiredLeases, None, w, types)
    BY <1>2 DEF Claim
  <2> QED BY <2>1, RecoveryIsAcceptable, BeginKeepsIInv
<1>3. ASSUME NEW w \in Workers, NEW j \in DOMAIN jobs, NEW calls \in 0..MaxCalls,
             \/ \E e \in BOOLEAN : Heartbeat(s, j, w, calls, e)
             \/ \E o, e \in BOOLEAN : Complete(s, j, w, calls, o, e)
             \/ \E state \in FailStates : Fail(s, j, w, calls, FALSE, state)
             \/ MarkSubmitUnknown(s, j, w, calls)
      PROVE  IInv'
  <2>1. calls \in Nat
    BY BoundsAssumption
  <2>2. ASSUME NEW e \in BOOLEAN, Heartbeat(s, j, w, calls, e) PROVE IInv'
    BY <2>1, <2>2, HeartbeatKeepsIInv
  <2>3. ASSUME NEW o \in BOOLEAN, NEW e \in BOOLEAN, Complete(s, j, w, calls, o, e)
        PROVE  IInv'
    BY <2>1, <2>3, CompleteKeepsIInv
  <2>4. ASSUME NEW state \in FailStates, Fail(s, j, w, calls, FALSE, state)
        PROVE  IInv'
    BY <2>1, <2>4, FailKeepsIInv
  <2>5. ASSUME MarkSubmitUnknown(s, j, w, calls) PROVE IInv'
    BY <2>1, <2>5, MarkSubmitUnknownKeepsIInv
  <2> QED BY <1>3, <2>2, <2>3, <2>4, <2>5
<1> QED BY <1>1, <1>2, <1>3 DEF WorkerStep

-----------------------------------------------------------------------------
(***************************************************************************)
(* The end of a transaction.                                               *)
(***************************************************************************)
LEMMA FlushedJobsFacts ==
  ASSUME IInv, NEW s \in DOMAIN uow, NEW j \in DOMAIN jobs
  PROVE  /\ FlushedJobs(uow[s])[j] \in JobRow
         /\ FlushedJobs(uow[s])[j].count =
              IF j \in Candidates(uow[s]) THEN jobs[j].count + 1 ELSE jobs[j].count
<1>1. UnitOfWork(uow[s]) /\ jobs[j] \in JobRow
  BY DEF IInv, TypeOK
<1>2. CASE j \in Candidates(uow[s])
  <2>1. FlushedJobs(uow[s])[j] = ClaimedJob(jobs[j], uow[s])
    BY <1>2 DEF FlushedJobs
  <2>2. uow[s].claimer # None
    BY <1>2 DEF Candidates
  <2>3. uow[s].claimer \in Workers /\ uow[s].now \in Nat
    BY <1>1, <2>2 DEF UnitOfWork
  <2>4. uow[s].now + LeaseTicks \in Nat
    BY <2>3, LeaseAssumption
  <2>5. /\ ClaimedJob(jobs[j], uow[s]) \in JobRow
        /\ ClaimedJob(jobs[j], uow[s]).count = jobs[j].count + 1
    <3> DEFINE row == jobs[j]
               claimer == uow[s].claimer
               until == uow[s].now + LeaseTicks
    <3>1. ClaimedJob(row, uow[s]) =
            [row EXCEPT !.status = "RUNNING", !.count = row.count + 1,
                        !.owner = claimer, !.expires = until, !.uncertain = FALSE]
      BY DEF ClaimedJob
    <3>2. row \in JobRow /\ claimer \in Workers /\ until \in Nat
      BY <1>1, <2>3, <2>4
    <3> HIDE DEF row, claimer, until
    <3>3. row.count + 1 \in Nat /\ "RUNNING" \in JobStatus
      BY <3>2 DEF JobRow, JobStatus
    <3> QED BY <3>1, <3>2, <3>3 DEF JobRow, row
  <2> QED BY <1>2, <2>1, <2>5
<1>3. CASE j \notin Candidates(uow[s]) /\ j \in DOMAIN uow[s].writes
  <2> DEFINE w == uow[s].writes[j]
  <2>1. FlushedJobs(uow[s])[j] = FlushJob(jobs[j], w.loaded, w.assigned)
    BY <1>3 DEF FlushedJobs
  <2>2. w.loaded \in JobRow /\ w.assigned \in JobRow
    BY <1>1, <1>3 DEF UnitOfWork, Write
  <2> HIDE DEF w
  <2>3. FlushJob(jobs[j], w.loaded, w.assigned) \in JobRow
    BY <1>1, <2>2, FlushJobType
  <2>4. FlushJob(jobs[j], w.loaded, w.assigned).count = jobs[j].count
    BY <1>1, <2>2, FlushJobType
  <2> QED BY <1>3, <2>1, <2>3, <2>4
<1>4. CASE j \notin Candidates(uow[s]) /\ j \notin DOMAIN uow[s].writes
  BY <1>1, <1>4 DEF FlushedJobs
<1> QED BY <1>2, <1>3, <1>4

LEMMA FlushedAttemptsFacts ==
  ASSUME IInv, NEW s \in DOMAIN uow, NEW j \in DOMAIN jobs
  PROVE  /\ j \in DOMAIN attempts
         /\ DOMAIN FlushedAttempts(uow[s])[j] =
              1..(IF j \in Candidates(uow[s]) THEN jobs[j].count + 1 ELSE jobs[j].count)
         /\ \A n \in DOMAIN FlushedAttempts(uow[s])[j] :
              FlushedAttempts(uow[s])[j][n] \in AttemptRow
<1> DEFINE u == uow[s]
<1>1. /\ UnitOfWork(u) /\ j \in DOMAIN attempts
      /\ jobs[j].count \in Nat
      /\ DOMAIN attempts[j] = 1..jobs[j].count
  BY DEF IInv, TypeOK, AttemptsNumbered, JobRow
<1>2. ASSUME NEW n \in DOMAIN attempts[j]
      PROVE  FlushedAttempt(u, j, n) \in AttemptRow
  <2>1. attempts[j][n] \in AttemptRow
    BY DEF IInv, TypeOK
  <2>2. CASE j \in DOMAIN u.writes /\ u.writes[j].number = n
    <3>1. /\ u.writes[j].loadedAttempt \in AttemptRow
          /\ u.writes[j].assignedAttempt \in AttemptRow
      BY <1>1, <2>2 DEF UnitOfWork, Write
    <3> QED BY <2>1, <2>2, <3>1, FlushAttemptType DEF FlushedAttempt
  <2> QED BY <2>1, <2>2 DEF FlushedAttempt
<1>3. FlushedAttempts(u)[j] =
        IF j \in Candidates(u)
        THEN [n \in DOMAIN attempts[j] \cup {jobs[j].count + 1} |->
                IF n = jobs[j].count + 1 THEN NewAttempt ELSE FlushedAttempt(u, j, n)]
        ELSE [n \in DOMAIN attempts[j] |-> FlushedAttempt(u, j, n)]
  BY <1>1 DEF FlushedAttempts
<1> HIDE DEF u
<1>4. CASE j \in Candidates(u)
  <2>1. DOMAIN attempts[j] \cup {jobs[j].count + 1} = 1..(jobs[j].count + 1)
    BY <1>1
  <2> QED BY <1>1, <1>2, <1>3, <1>4, <2>1, NewRowTypes DEF u
<1>5. CASE j \notin Candidates(u)
  BY <1>1, <1>2, <1>3, <1>5 DEF u
<1> QED BY <1>4, <1>5

\* Closing a session removes its unit of work and leaves the others.
LEMMA CloseFacts ==
  ASSUME IInv, NEW s \in DOMAIN uow, Close(s), DOMAIN jobs \subseteq DOMAIN jobs'
  PROVE  /\ DOMAIN uow' \subseteq Sessions
         /\ (\A t \in DOMAIN uow : UnitOfWork(uow[t]))'
         /\ PendingWritesAreSound'
<1>1. uow' = [t \in DOMAIN uow \ {s} |-> uow[t]]
  BY DEF Close
<1>2. \A t \in DOMAIN uow' : t \in DOMAIN uow /\ uow'[t] = uow[t]
  BY <1>1
<1>3. \A t \in DOMAIN uow' : UnitOfWork(uow[t])'
  BY <1>2 DEF UnitOfWork, IInv, TypeOK
<1>4. PendingWritesAreSound'
  BY <1>2 DEF PendingWritesAreSound, IInv
<1> QED BY <1>2, <1>3, <1>4 DEF IInv, TypeOK

LEMMA CommitKeepsIInv ==
  ASSUME IInv, NEW s \in DOMAIN uow, Commit(s)
  PROVE  IInv'
<1>1. /\ Consistent(jobs)' /\ Close(s) /\ clock' = clock
      /\ jobs' = FlushedJobs(uow[s])
      /\ attempts' = FlushedAttempts(uow[s])
  BY DEF Commit, Consistent, UniqueKeys
<1>2. DOMAIN jobs' = DOMAIN jobs /\ DOMAIN attempts' = DOMAIN attempts
  BY <1>1 DEF FlushedJobs, FlushedAttempts
<1>3. /\ DOMAIN uow' \subseteq Sessions
      /\ (\A t \in DOMAIN uow : UnitOfWork(uow[t]))'
      /\ PendingWritesAreSound'
  BY <1>1, <1>2, CloseFacts
<1>4. \A j \in DOMAIN jobs' :
        /\ jobs'[j] \in JobRow
        /\ DOMAIN attempts'[j] = 1..jobs'[j].count
        /\ \A n \in DOMAIN attempts'[j] : attempts'[j][n] \in AttemptRow
  BY <1>1, <1>2, FlushedJobsFacts, FlushedAttemptsFacts
<1>5. TypeOK'
  BY <1>1, <1>2, <1>3, <1>4 DEF IInv, TypeOK, JobRow
<1>6. AttemptsNumbered'
  BY <1>1, <1>4 DEF AttemptsNumbered, Consistent, CheckRow
<1> QED BY <1>1, <1>3, <1>5, <1>6 DEF IInv

LEMMA CommitInsertKeepsIInv ==
  ASSUME IInv, NEW s \in DOMAIN uow, CommitInsert(s)
  PROVE  IInv'
<1> PICK n \in JobIds \ DOMAIN jobs :
      /\ uow[s].insert # None
      /\ Consistent(InsertedJobs(n, uow[s].insert))
      /\ jobs' = InsertedJobs(n, uow[s].insert)
      /\ attempts' = [j \in DOMAIN attempts \cup {n} |->
                        IF j = n THEN <<>> ELSE attempts[j]]
      /\ Close(s)
      /\ clock' = clock
  BY DEF CommitInsert
<1> DEFINE r == uow[s].insert
<1>1. r \in Requests
  BY DEF IInv, TypeOK, UnitOfWork
<1>2. DOMAIN jobs' = DOMAIN jobs \cup {n} /\ DOMAIN attempts' = DOMAIN jobs'
  BY DEF InsertedJobs, IInv, TypeOK
<1>3. \A j \in DOMAIN jobs : jobs'[j] = jobs[j] /\ attempts'[j] = attempts[j]
  BY DEF InsertedJobs, IInv, TypeOK
<1>4. jobs'[n] = NewJob(r) /\ attempts'[n] = <<>>
  BY DEF InsertedJobs
<1>5. Consistent(jobs)'
  BY DEF Consistent, UniqueKeys
<1>6. /\ DOMAIN uow' \subseteq Sessions
      /\ (\A t \in DOMAIN uow : UnitOfWork(uow[t]))'
      /\ PendingWritesAreSound'
  BY <1>2, CloseFacts
<1>7. TypeOK'
  <2>1. \A j \in DOMAIN jobs' : jobs'[j] \in JobRow
    BY <1>1, <1>2, <1>3, <1>4, NewRowTypes DEF IInv, TypeOK
  <2>2. \A j \in DOMAIN jobs' :
          /\ DOMAIN attempts'[j] \subseteq Nat \ {0}
          /\ \A m \in DOMAIN attempts'[j] : attempts'[j][m] \in AttemptRow
    BY <1>2, <1>3, <1>4 DEF IInv, TypeOK
  <2> QED BY <1>2, <1>6, <2>1, <2>2 DEF IInv, TypeOK
<1>8. AttemptsNumbered'
  <2>1. NewJob(r).count = 0 /\ DOMAIN attempts'[n] = 1..0
    BY <1>4 DEF NewJob
  <2>2. \A j \in DOMAIN jobs' : DOMAIN attempts'[j] = 1..jobs'[j].count
    BY <1>2, <1>3, <1>4, <2>1 DEF IInv, AttemptsNumbered
  <2> QED BY <1>5, <2>2 DEF AttemptsNumbered, Consistent, CheckRow
<1> QED BY <1>5, <1>6, <1>7, <1>8 DEF IInv

LEMMA RollbackKeepsIInv ==
  ASSUME IInv, NEW s \in DOMAIN uow, Rollback(s)
  PROVE  IInv'
<1>1. jobs' = jobs /\ attempts' = attempts /\ clock' = clock /\ Close(s)
  BY DEF Rollback, tables
<1>2. /\ DOMAIN uow' \subseteq Sessions
      /\ (\A t \in DOMAIN uow : UnitOfWork(uow[t]))'
      /\ PendingWritesAreSound'
  BY <1>1, CloseFacts
<1>3. TypeOK'
  BY <1>1, <1>2 DEF IInv, TypeOK
<1>4. Consistent(jobs)' /\ AttemptsNumbered'
  BY <1>1 DEF IInv, AttemptsNumbered, Consistent, UniqueKeys
<1> QED BY <1>2, <1>3, <1>4 DEF IInv

LEMMA TickKeepsIInv ==
  ASSUME IInv, Tick
  PROVE  IInv'
<1>1. jobs' = jobs /\ attempts' = attempts /\ uow' = uow /\ clock' \in Nat
  BY DEF Tick, tables, IInv, TypeOK
<1>2. (\A t \in DOMAIN uow : UnitOfWork(uow[t]))'
  BY <1>1 DEF IInv, TypeOK, UnitOfWork
<1>3. TypeOK'
  BY <1>1, <1>2 DEF IInv, TypeOK
<1> QED BY <1>1, <1>3 DEF IInv, AttemptsNumbered, Consistent, UniqueKeys,
                          PendingWritesAreSound

-----------------------------------------------------------------------------
(***************************************************************************)
(* The theorems.                                                           *)
(***************************************************************************)
LEMMA InitIInv == Init => IInv
<1> SUFFICES ASSUME Init PROVE IInv
  OBVIOUS
<1>1. DOMAIN jobs = {} /\ DOMAIN attempts = {} /\ DOMAIN uow = {} /\ clock \in Nat
  BY DEF Init
<1> QED BY <1>1 DEF IInv, TypeOK, Consistent, UniqueKeys, AttemptsNumbered,
                    PendingWritesAreSound

LEMMA NextKeepsIInv == IInv /\ [Next]_vars => IInv'
<1> SUFFICES ASSUME IInv, [Next]_vars PROVE IInv'
  OBVIOUS
<1>1. ASSUME NEW s \in Sessions \ DOMAIN uow, UserStep(s)
      PROVE  IInv'
  BY <1>1, UserStepKeepsIInv
<1>2. ASSUME NEW s \in Sessions \ DOMAIN uow, WorkerStep(s)
      PROVE  IInv'
  BY <1>2, WorkerStepKeepsIInv
<1>3. ASSUME NEW s \in DOMAIN uow, CloseStep(s)
      PROVE  IInv'
  BY <1>3, CommitKeepsIInv, CommitInsertKeepsIInv, RollbackKeepsIInv DEF CloseStep
<1>4. CASE Tick
  BY <1>4, TickKeepsIInv
<1>5. CASE UNCHANGED vars
  <2>1. jobs' = jobs /\ attempts' = attempts /\ uow' = uow /\ clock' = clock
    BY <1>5 DEF vars
  <2> QED BY <2>1 DEF IInv, TypeOK, UnitOfWork, AttemptsNumbered, Consistent,
                      UniqueKeys, PendingWritesAreSound
<1> QED BY <1>1, <1>2, <1>3, <1>4, <1>5 DEF Next

\* The inductive invariant holds in every reachable state.
THEOREM Invariance == Spec => []IInv
BY InitIInv, NextKeepsIInv, PTL DEF Spec

\* The tables and every pending unit of work keep the types of the ORM models.
THEOREM TypeCorrect == Spec => []TypeOK
<1>1. IInv => TypeOK
  BY DEF IInv
<1> QED BY <1>1, Invariance, PTL

\* attempt_count counts the attempts, without a gap and within max_attempts,
\* whatever stale rows the other operations flush.
THEOREM AttemptsAreNumbered == Spec => []AttemptsNumbered
<1>1. IInv => AttemptsNumbered
  BY DEF IInv
<1> QED BY <1>1, Invariance, PTL

\* Concurrent creations leave one job per idempotency key.
THEOREM IdempotencyKeysAreUnique == Spec => []OneJobPerKey
<1>1. IInv => OneJobPerKey
  BY DEF IInv, Consistent, UniqueKeys, OneJobPerKey
<1> QED BY <1>1, Invariance, PTL

\* No step takes a row out of SUBMIT_UNKNOWN: claim_next takes queued rows
\* only, and the CHECK constraint refuses every stale flush that would.
LEMMA CommitKeepsDoubt ==
  ASSUME IInv, NEW s \in DOMAIN uow, Commit(s), NEW j \in DOMAIN jobs,
         jobs[j].status = "SUBMIT_UNKNOWN"
  PROVE  jobs'[j].status = "SUBMIT_UNKNOWN"
<1>1. /\ jobs[j] \in JobRow /\ jobs[j].uncertain = TRUE
      /\ UnitOfWork(uow[s])
  BY DEF IInv, TypeOK, Consistent, CheckRow
<1>2. j \notin Candidates(uow[s])
  BY DEF Candidates, Eligible
<1>3. jobs' = FlushedJobs(uow[s]) /\ CheckRow(jobs'[j])
  BY DEF Commit, Consistent, FlushedJobs
<1>4. CASE j \in DOMAIN uow[s].writes
  <2> DEFINE w == uow[s].writes[j]
  <2>1. jobs'[j] = FlushJob(jobs[j], w.loaded, w.assigned)
    BY <1>2, <1>3, <1>4 DEF FlushedJobs
  <2>2. w.loaded \in JobRow /\ w.assigned \in JobRow /\ Sound(w)
    BY <1>1, <1>4 DEF UnitOfWork, Write, IInv, PendingWritesAreSound
  <2>3. jobs'[j].uncertain = (jobs'[j].status = "SUBMIT_UNKNOWN")
    BY <1>3 DEF CheckRow
  <2> HIDE DEF w
  <2> QED BY <1>1, <2>1, <2>2, <2>3, FlushKeepsDoubt DEF Sound
<1>5. CASE j \notin DOMAIN uow[s].writes
  BY <1>2, <1>3, <1>5 DEF FlushedJobs
<1> QED BY <1>4, <1>5

\* Beginning an operation, a rollback and the clock write no table.
LEMMA OnlyCommitsWrite ==
  ASSUME [Next]_vars
  PROVE  \/ \E s \in DOMAIN uow : Commit(s) \/ CommitInsert(s)
         \/ jobs' = jobs
<1>1. ASSUME NEW s, UserStep(s)
      PROVE  jobs' = jobs
  BY <1>1 DEF UserStep, Create, Pause, Resume, Cancel, Retry, SetStatus, BeginWrite,
              BeginWrites, Begin, tables
<1>2. ASSUME NEW s, WorkerStep(s)
      PROVE  jobs' = jobs
  <2>1. ASSUME NEW writes, NEW insert, NEW claimer, NEW types,
               Begin(s, writes, insert, claimer, types)
        PROVE  jobs' = jobs
    BY <2>1 DEF Begin, tables
  <2>2. CASE Recover(s)
    BY <2>1, <2>2 DEF Recover, BeginWrites
  <2>3. ASSUME NEW w \in Workers, NEW types \in ClaimFilters, Claim(s, w, types)
        PROVE  jobs' = jobs
    BY <2>1, <2>3 DEF Claim
  <2>4. ASSUME NEW j, NEW write, BeginWrite(s, j, write)
        PROVE  jobs' = jobs
    BY <2>1, <2>4 DEF BeginWrite, BeginWrites
  <2>5. ASSUME NEW j, NEW w, NEW calls, NEW e, Heartbeat(s, j, w, calls, e)
        PROVE  jobs' = jobs
    BY <2>4, <2>5 DEF Heartbeat
  <2>6. ASSUME NEW j, NEW w, NEW calls, NEW o, NEW e, Complete(s, j, w, calls, o, e)
        PROVE  jobs' = jobs
    BY <2>4, <2>6 DEF Complete
  <2>7. ASSUME NEW j, NEW w, NEW calls, NEW state, Fail(s, j, w, calls, FALSE, state)
        PROVE  jobs' = jobs
    BY <2>4, <2>7 DEF Fail
  <2>8. ASSUME NEW j, NEW w, NEW calls, MarkSubmitUnknown(s, j, w, calls)
        PROVE  jobs' = jobs
    BY <2>4, <2>8 DEF MarkSubmitUnknown
  <2> QED BY <1>2, <2>2, <2>3, <2>5, <2>6, <2>7, <2>8 DEF WorkerStep
<1>3. ASSUME NEW s, Rollback(s)
      PROVE  jobs' = jobs
  BY <1>3 DEF Rollback, tables
<1>4. Tick \/ UNCHANGED vars => jobs' = jobs
  BY DEF Tick, tables, vars
<1> QED BY <1>1, <1>2, <1>3, <1>4 DEF Next, CloseStep

\* A job in doubt stays in doubt under every interleaving.
THEOREM DoubtIsFinal == Spec => SubmitUnknownIsFinal
<1> DEFINE Kept == \A j \in DOMAIN jobs :
             jobs[j].status = "SUBMIT_UNKNOWN" => jobs'[j].status = "SUBMIT_UNKNOWN"
<1>1. IInv /\ [Next]_vars => [Kept]_vars
  <2> SUFFICES ASSUME IInv, [Next]_vars, NEW j \in DOMAIN jobs,
                      jobs[j].status = "SUBMIT_UNKNOWN"
               PROVE  jobs'[j].status = "SUBMIT_UNKNOWN"
    OBVIOUS
  <2>1. ASSUME NEW s \in DOMAIN uow, Commit(s)
        PROVE  jobs'[j].status = "SUBMIT_UNKNOWN"
    BY <2>1, CommitKeepsDoubt
  <2>2. ASSUME NEW s \in DOMAIN uow, CommitInsert(s)
        PROVE  jobs'[j] = jobs[j]
    BY <2>2 DEF CommitInsert, InsertedJobs
  <2>3. CASE jobs' = jobs
    BY <2>3
  <2> QED BY <2>1, <2>2, <2>3, OnlyCommitsWrite
<1> QED BY <1>1, Invariance, PTL DEF Spec, SubmitUnknownIsFinal

-----------------------------------------------------------------------------
(***************************************************************************)
(* What a job in doubt tells.  No constraint relates a job to its          *)
(* attempts: that the doubt is explained follows from what is written      *)
(* together.  A write that doubts the job doubts the attempt it loaded     *)
(* and marks it external; no write takes submitted_at or external back;    *)
(* and a write that ends its attempt otherwise assigns the job another     *)
(* status, so that the constraint refuses it as a whole once the job is in *)
(* doubt.                                                                  *)
(***************************************************************************)
\* What a pending write of job j assigns to the job and to its attempt.
Tells(j, w) ==
  /\ w.loaded.submitted => w.assigned.submitted /\ jobs[j].submitted
  /\ w.loadedAttempt.external => w.assignedAttempt.external
  /\ w.assignedAttempt.external => w.assigned.submitted
  /\ w.assigned.status = "RUNNING" => w.loaded.status = "RUNNING"
  /\ w.assigned.owner \in {w.loaded.owner, None}
  /\ w.assigned.status = "SUBMIT_UNKNOWN"
       <=> w.assignedAttempt.status = "SUBMIT_UNKNOWN"
  /\ w.assigned.status = "SUBMIT_UNKNOWN"
       => w.assignedAttempt.external /\ w.number # 0
  /\ w.loadedAttempt.status # "SUBMIT_UNKNOWN"
  /\ w.number <= jobs[j].count
  /\ w.number # 0 /\ w.loadedAttempt.external => attempts[j][w.number].external
  /\ w.number # 0 /\ w.assignedAttempt.status # w.loadedAttempt.status
       => w.assigned.status # w.loaded.status

\* A claim drops what its session assigned to the job it claims: what it wrote
\* of the attempt then stands alone, and must not need it.
TellsAlone(u, j) ==
  u.claimer # None => (u.writes[j].assigned.submitted => u.writes[j].loaded.submitted)

PendingWritesTell ==
  \A s \in DOMAIN uow : \A j \in DOMAIN uow[s].writes :
    Tells(j, uow[s].writes[j]) /\ TellsAlone(uow[s], j)

RunsOnceClaimed(j) == jobs[j].status = "RUNNING" => jobs[j].count # 0

ExternalIsSubmitted(j) ==
  \A n \in DOMAIN attempts[j] : attempts[j][n].external => jobs[j].submitted

\* The latest attempt is in doubt only if the job is.
LatestIsCertain(j) ==
  jobs[j].count # 0 /\ jobs[j].status # "SUBMIT_UNKNOWN"
    => attempts[j][jobs[j].count].status # "SUBMIT_UNKNOWN"

Explained(j) ==
  jobs[j].status = "SUBMIT_UNKNOWN" =>
    /\ jobs[j].submitted
    /\ \E n \in DOMAIN attempts[j] : /\ attempts[j][n].status = "SUBMIT_UNKNOWN"
                                    /\ attempts[j][n].external

JobTells(j) ==
  RunsOnceClaimed(j) /\ ExternalIsSubmitted(j) /\ LatestIsCertain(j) /\ Explained(j)

DInv == PendingWritesTell /\ \A j \in DOMAIN jobs : JobTells(j)

\* A column that no write takes back keeps what it says ...
LEMMA NetGrows ==
  ASSUME NEW cur, NEW l \in BOOLEAN, NEW a \in BOOLEAN, l => a, cur
  PROVE  Net(cur, l, a)
BY Zenon DEF Net

\* ... and says what a write assigns if it said what the write loaded.
LEMMA NetSets ==
  ASSUME NEW cur, NEW l, NEW a, a, l => cur
  PROVE  Net(cur, l, a)
BY Zenon DEF Net

LEMMA NetFrom ==
  ASSUME NEW cur, NEW l, NEW a, Net(cur, l, a)
  PROVE  cur \/ a
BY Zenon DEF Net

-----------------------------------------------------------------------------
(***************************************************************************)
(* Beginning an operation.                                                 *)
(***************************************************************************)
TellingWrites(writes, claimer) ==
  \A j \in DOMAIN writes :
    /\ j \in DOMAIN jobs
    /\ Tells(j, writes[j])
    /\ claimer # None => (writes[j].assigned.submitted => writes[j].loaded.submitted)

LEMMA BeginKeepsDInv ==
  ASSUME DInv, NEW s, NEW writes, NEW insert, NEW claimer, NEW types,
         Begin(s, writes, insert, claimer, types), TellingWrites(writes, claimer)
  PROVE  DInv'
<1> DEFINE u == [writes |-> writes, insert |-> insert, claimer |-> claimer,
                 types |-> types, now |-> clock]
<1>1. /\ jobs' = jobs /\ attempts' = attempts
      /\ uow' = [t \in DOMAIN uow \cup {s} |-> IF t = s THEN u ELSE uow[t]]
  BY DEF Begin, tables
<1>2. u.writes = writes /\ u.claimer = claimer
  OBVIOUS
<1> HIDE DEF u
<1>3. PendingWritesTell'
  <2> SUFFICES ASSUME NEW t \in DOMAIN uow', NEW j \in DOMAIN uow'[t].writes
               PROVE  (Tells(j, uow[t].writes[j]) /\ TellsAlone(uow[t], j))'
    BY DEF PendingWritesTell
  <2>1. CASE t = s
    <3>1. uow'[t] = u
      BY <1>1, <2>1
    <3>2. Tells(j, writes[j]) /\ (claimer # None =>
            (writes[j].assigned.submitted => writes[j].loaded.submitted))
      BY <1>2, <3>1 DEF TellingWrites
    <3>3. Tells(j, uow[t].writes[j])'
      BY <1>1, <1>2, <3>1, <3>2 DEF Tells
    <3> QED BY <1>2, <3>1, <3>2, <3>3 DEF TellsAlone
  <2>2. CASE t # s
    <3>1. t \in DOMAIN uow /\ uow'[t] = uow[t]
      BY <1>1, <2>2
    <3>2. Tells(j, uow[t].writes[j]) /\ TellsAlone(uow[t], j)
      BY <3>1 DEF DInv, PendingWritesTell
    <3>3. Tells(j, uow[t].writes[j])'
      BY <1>1, <3>1, <3>2 DEF Tells
    <3> QED BY <3>1, <3>2, <3>3 DEF TellsAlone
  <2> QED BY <2>1, <2>2
<1>4. \A j \in DOMAIN jobs' : JobTells(j)'
  BY <1>1 DEF DInv, JobTells, RunsOnceClaimed, ExternalIsSubmitted, LatestIsCertain,
              Explained
<1> QED BY <1>3, <1>4 DEF DInv

LEMMA BeginWriteKeepsDInv ==
  ASSUME DInv, NEW s, NEW j \in DOMAIN jobs, NEW w, BeginWrite(s, j, w), Tells(j, w)
  PROVE  DInv'
<1> DEFINE writes == [i \in {j} |-> w]
<1>1. TellingWrites(writes, None)
  BY DEF TellingWrites
<1>2. Begin(s, writes, None, None, {})
  BY DEF BeginWrite, BeginWrites
<1> HIDE DEF writes
<1> QED BY <1>1, <1>2, BeginKeepsDInv

\* A write of the job alone, to a status that neither doubts nor runs it.
LEMMA RowWriteTells ==
  ASSUME IInv, NEW j \in DOMAIN jobs, NEW a,
         a.submitted = jobs[j].submitted, a.owner = jobs[j].owner,
         a.status \notin {"RUNNING", "SUBMIT_UNKNOWN"}
  PROVE  Tells(j, RowWrite(j, a))
<1>1. jobs[j].count \in Nat
  BY DEF IInv, TypeOK, JobRow
<1> DEFINE w == RowWrite(j, a)
<1>2. /\ w.loaded = jobs[j] /\ w.assigned = a /\ w.number = 0
      /\ w.loadedAttempt = NewAttempt /\ w.assignedAttempt = NewAttempt
  BY DEF RowWrite
<1>3. NewAttempt.status = "RUNNING" /\ NewAttempt.external = FALSE
  BY DEF NewAttempt
<1> HIDE DEF w
<1>4. w.number <= jobs[j].count
  BY <1>1, <1>2
<1>5. w.loaded.submitted => w.assigned.submitted /\ jobs[j].submitted
  BY <1>2
<1>6. w.loadedAttempt.external = FALSE /\ w.assignedAttempt.external = FALSE
  BY <1>2, <1>3
<1>7. w.loadedAttempt.status = "RUNNING" /\ w.assignedAttempt.status = "RUNNING"
  BY <1>2, <1>3
<1>8. Tells(j, w)
  BY <1>2, <1>4, <1>5, <1>6, <1>7 DEF Tells
<1> QED BY <1>8 DEF w

\* A write of a running job and of its latest attempt.
LEMMA PairWriteTells ==
  ASSUME IInv, DInv, NEW j \in DOMAIN jobs, jobs[j].status = "RUNNING", NEW a, NEW b,
         jobs[j].submitted => a.submitted,
         Latest(j).external => b.external,
         b.external => a.submitted,
         a.status = "SUBMIT_UNKNOWN" <=> b.status = "SUBMIT_UNKNOWN",
         a.status = "SUBMIT_UNKNOWN" => b.external,
         b.status # Latest(j).status => a.status # "RUNNING",
         a.owner \in {jobs[j].owner, None}
  PROVE  Tells(j, PairWrite(j, a, b))
<1>1. /\ LatestNumber(j) = jobs[j].count /\ jobs[j].count \in Nat
      /\ jobs[j].count # 0
  BY LatestIsCount DEF IInv, DInv, JobTells, RunsOnceClaimed
<1>2. Latest(j).status # "SUBMIT_UNKNOWN"
  BY <1>1 DEF Latest, DInv, JobTells, LatestIsCertain
<1> DEFINE w == PairWrite(j, a, b)
<1>3. /\ w.loaded = jobs[j] /\ w.assigned = a /\ w.number = jobs[j].count
      /\ w.loadedAttempt = Latest(j) /\ w.assignedAttempt = b
  BY <1>1 DEF PairWrite
<1>7. w.loadedAttempt.external => attempts[j][w.number].external
  BY <1>1, <1>3 DEF Latest
<1> HIDE DEF w
<1>4. w.number <= jobs[j].count /\ w.number # 0
  BY <1>1, <1>3
<1>5. /\ w.loaded.submitted => w.assigned.submitted /\ jobs[j].submitted
      /\ w.loadedAttempt.external => w.assignedAttempt.external
      /\ w.assignedAttempt.external => w.assigned.submitted
      /\ w.assigned.status = "SUBMIT_UNKNOWN" => w.assignedAttempt.external
  BY <1>3
<1>6. Tells(j, w)
  BY <1>2, <1>3, <1>4, <1>5, <1>7 DEF Tells
<1> QED BY <1>6 DEF w

LEMMA UserStepKeepsDInv ==
  ASSUME IInv, DInv, NEW s \in Sessions, UserStep(s)
  PROVE  DInv'
<1>1. ASSUME NEW r \in Requests, Create(s, r)
      PROVE  DInv'
  <2>1. Begin(s, NoWrites, r, None, {})
    BY <1>1 DEF Create
  <2>2. TellingWrites(NoWrites, None)
    BY DEF TellingWrites, NoWrites
  <2> QED BY <2>1, <2>2, BeginKeepsDInv
<1>2. ASSUME NEW j \in DOMAIN jobs, NEW from, NEW to, SetStatus(s, j, from, to),
             to \in {"QUEUED", "PAUSED", "CANCELLED"}
      PROVE  DInv'
  <2> DEFINE a == [jobs[j] EXCEPT !.status = to]
  <2>1. jobs[j] \in JobRow
    BY DEF IInv, TypeOK
  <2>2. a.submitted = jobs[j].submitted /\ a.status = to /\ a.owner = jobs[j].owner
    BY <2>1 DEF JobRow
  <2>3. BeginWrite(s, j, RowWrite(j, a))
    BY <1>2 DEF SetStatus
  <2> HIDE DEF a
  <2>4. Tells(j, RowWrite(j, a))
    BY <1>2, <2>2, RowWriteTells
  <2> QED BY <2>3, <2>4, BeginWriteKeepsDInv
<1>3. ASSUME NEW j \in DOMAIN jobs,
             Pause(s, j) \/ Resume(s, j) \/ Cancel(s, j) \/ Retry(s, j)
      PROVE  DInv'
  BY <1>2, <1>3 DEF Pause, Resume, Cancel, Retry
<1> QED BY <1>1, <1>3 DEF UserStep

\* A possible submission is one the job tells.
LEMMA PossibleIsSubmitted ==
  ASSUME IInv, DInv, NEW j \in DOMAIN jobs, ExternalPossible(j)
  PROVE  jobs[j].submitted
<1>1. /\ LatestNumber(j) = jobs[j].count /\ jobs[j].count \in Nat
      /\ DOMAIN attempts[j] = 1..jobs[j].count
  BY LatestIsCount DEF IInv, AttemptsNumbered
<1>2. ASSUME LatestNumber(j) # 0, Latest(j).external
      PROVE  jobs[j].submitted
  <2>1. LatestNumber(j) \in DOMAIN attempts[j]
    BY <1>1, <1>2
  <2> QED BY <1>2, <2>1 DEF Latest, DInv, JobTells, ExternalIsSubmitted
<1> QED BY <1>2 DEF ExternalPossible

LEMMA RecoveryTells ==
  ASSUME IInv, DInv
  PROVE  \A claimer : TellingWrites(RecoverExpiredLeases, claimer)
<1> SUFFICES ASSUME NEW j \in ExpiredJobs
             PROVE  /\ j \in DOMAIN jobs
                    /\ Tells(j, RecoverExpiredLeases[j])
                    /\ RecoverExpiredLeases[j].assigned.submitted
                         => RecoverExpiredLeases[j].loaded.submitted
  BY DEF TellingWrites, RecoverExpiredLeases
<1>1. j \in DOMAIN jobs /\ jobs[j].status = "RUNNING" /\ jobs[j] \in JobRow
  BY DEF ExpiredJobs, LeaseExpired, Running, IInv, TypeOK
<1>2. LatestNumber(j) # 0 /\ Latest(j) \in AttemptRow
  BY <1>1, LatestIsCount DEF IInv, DInv, JobTells, RunsOnceClaimed
<1> DEFINE a == RecoveredJob(j)
           b == RecoveredAttempt(j)
<1>3. RecoverExpiredLeases[j] = PairWrite(j, a, b)
  BY <1>2 DEF RecoverExpiredLeases
<1>4. a.submitted = jobs[j].submitted /\ a.owner = None
  BY <1>1 DEF RecoveredJob, Released, JobRow
<1>5. ASSUME ExternalPossible(j)
      PROVE  Tells(j, PairWrite(j, a, b))
  <2>1. a.status = "SUBMIT_UNKNOWN" /\ b.status = "SUBMIT_UNKNOWN"
    BY <1>1, <1>2, <1>5 DEF RecoveredJob, RecoveredAttempt, Released, JobRow, AttemptRow
  <2>2. b.external
    BY <1>2, <1>5 DEF RecoveredAttempt, AttemptRow
  <2>3. a.submitted
    BY <1>1, <1>4, <1>5, PossibleIsSubmitted
  <2> HIDE DEF a, b
  <2> QED BY <1>1, <1>4, <2>1, <2>2, <2>3, PairWriteTells
<1>6. ASSUME ~ExternalPossible(j)
      PROVE  Tells(j, PairWrite(j, a, b))
  <2>1. a.status \in {"QUEUED", "FAILED"} /\ b.status = "LEASE_EXPIRED"
    BY <1>1, <1>2, <1>6 DEF RecoveredJob, RecoveredAttempt, Released, JobRow, AttemptRow
  <2>2. b.external = Latest(j).external
    BY <1>2, <1>6 DEF RecoveredAttempt, AttemptRow
  <2>3. ~Latest(j).external
    BY <1>2, <1>6 DEF ExternalPossible
  <2> HIDE DEF a, b
  <2> QED BY <1>1, <1>4, <2>1, <2>2, <2>3, PairWriteTells
<1>7. Tells(j, PairWrite(j, a, b))
  BY <1>5, <1>6
<1>8. PairWrite(j, a, b).assigned = a /\ PairWrite(j, a, b).loaded = jobs[j]
  BY DEF PairWrite
<1> HIDE DEF a, b
<1> QED BY <1>1, <1>3, <1>4, <1>7, <1>8

\* The owner of a running job writes the job and its attempt together.
LEMMA OwnerWriteKeepsDInv ==
  ASSUME IInv, DInv, NEW s, NEW j \in DOMAIN jobs, NEW w, OwnedRunning(j, w),
         NEW a, NEW b, BeginWrite(s, j, PairWrite(j, a, b)),
         jobs[j].submitted => a.submitted,
         Latest(j).external => b.external,
         b.external => a.submitted,
         a.status = "SUBMIT_UNKNOWN" <=> b.status = "SUBMIT_UNKNOWN",
         a.status = "SUBMIT_UNKNOWN" => b.external,
         b.status # Latest(j).status => a.status # "RUNNING",
         a.owner \in {jobs[j].owner, None}
  PROVE  DInv'
<1>1. Tells(j, PairWrite(j, a, b))
  BY PairWriteTells DEF OwnedRunning, Running
<1> QED BY <1>1, BeginWriteKeepsDInv

\* What the operations of an owner find.
LEMMA OwnedTells ==
  ASSUME IInv, DInv, NEW j \in DOMAIN jobs, NEW w, OwnedRunning(j, w)
  PROVE  /\ jobs[j] \in JobRow /\ Latest(j) \in AttemptRow
         /\ jobs[j].status = "RUNNING" /\ Latest(j).status = "RUNNING"
         /\ Latest(j).external => jobs[j].submitted
<1>1. LatestNumber(j) # 0 /\ Latest(j).status = "RUNNING"
  BY DEF OwnedRunning, Latest
<1>2. Latest(j).external => jobs[j].submitted
  BY <1>1, PossibleIsSubmitted DEF ExternalPossible
<1> QED BY <1>1, <1>2, OwnedFacts

LEMMA HeartbeatKeepsDInv ==
  ASSUME IInv, DInv, NEW s, NEW j \in DOMAIN jobs, NEW w, NEW calls,
         NEW external, Heartbeat(s, j, w, calls, external)
  PROVE  DInv'
<1> DEFINE attempt == [Latest(j) EXCEPT !.calls = calls]
           leased == [jobs[j] EXCEPT !.expires = clock + LeaseTicks]
           a == IF external THEN [leased EXCEPT !.submitted = TRUE] ELSE leased
           b == IF external
                THEN [attempt EXCEPT !.external = TRUE, !.state = "SUBMIT_UNKNOWN"]
                ELSE attempt
<1>1. /\ jobs[j] \in JobRow /\ Latest(j) \in AttemptRow
      /\ jobs[j].status = "RUNNING" /\ Latest(j).status = "RUNNING"
      /\ Latest(j).external => jobs[j].submitted
  BY OwnedTells DEF Heartbeat
<1>2. a.status = "RUNNING" /\ b.status = "RUNNING" /\ a.owner = jobs[j].owner
  BY <1>1 DEF JobRow, AttemptRow
<1>3. CASE external
  <2>1. a.submitted /\ b.external
    BY <1>1, <1>3 DEF JobRow, AttemptRow
  <2>2. OwnedRunning(j, w) /\ BeginWrite(s, j, PairWrite(j, a, b))
    BY DEF Heartbeat
  <2> HIDE DEF a, b
  <2> QED BY <1>1, <1>2, <2>1, <2>2, OwnerWriteKeepsDInv
<1>4. CASE ~external
  <2>1. a.submitted = jobs[j].submitted /\ b.external = Latest(j).external
    BY <1>1, <1>4 DEF JobRow, AttemptRow
  <2>2. OwnedRunning(j, w) /\ BeginWrite(s, j, PairWrite(j, a, b))
    BY DEF Heartbeat
  <2> HIDE DEF a, b
  <2> QED BY <1>1, <1>2, <2>1, <2>2, OwnerWriteKeepsDInv
<1> QED BY <1>3, <1>4

LEMMA CompleteKeepsDInv ==
  ASSUME IInv, DInv, NEW s, NEW j \in DOMAIN jobs, NEW w, NEW calls,
         NEW operation, NEW entity, Complete(s, j, w, calls, operation, entity)
  PROVE  DInv'
<1> DEFINE a == [Released(jobs[j]) EXCEPT !.status = "SUCCEEDED",
                   !.submitted = @ \/ operation, !.uncertain = FALSE,
                   !.result = entity]
           b == [Latest(j) EXCEPT !.status = "SUCCEEDED", !.calls = calls,
                   !.state = IF calls > 0 \/ Latest(j).external
                             THEN "RESPONSE_RECEIVED" ELSE "NOT_STARTED"]
<1>1. /\ jobs[j] \in JobRow /\ Latest(j) \in AttemptRow
      /\ Latest(j).external => jobs[j].submitted
  BY OwnedTells DEF Complete
<1>2. a.status = "SUCCEEDED" /\ b.status = "SUCCEEDED" /\ a.owner = None
  BY <1>1 DEF JobRow, AttemptRow, Released
<1>3. b.external = Latest(j).external
  BY <1>1 DEF AttemptRow
<1>4. a.submitted = (jobs[j].submitted \/ operation)
  BY <1>1 DEF JobRow, Released
<1>5. OwnedRunning(j, w) /\ BeginWrite(s, j, PairWrite(j, a, b))
  BY DEF Complete
<1> HIDE DEF a, b
<1>6. jobs[j].submitted => a.submitted
  BY <1>4
<1> QED BY <1>1, <1>2, <1>3, <1>5, <1>6, OwnerWriteKeepsDInv

LEMMA FailKeepsDInv ==
  ASSUME IInv, DInv, NEW s, NEW j \in DOMAIN jobs, NEW w, NEW calls,
         NEW external, NEW state, Fail(s, j, w, calls, external, state)
  PROVE  DInv'
<1> DEFINE a == [Released(jobs[j]) EXCEPT !.status = "FAILED", !.uncertain = FALSE]
           b == [Latest(j) EXCEPT !.status = "FAILED", !.calls = calls,
                                  !.state = state]
<1>1. /\ jobs[j] \in JobRow /\ Latest(j) \in AttemptRow
      /\ Latest(j).external => jobs[j].submitted
  BY OwnedTells DEF Fail
<1>2. a.status = "FAILED" /\ b.status = "FAILED" /\ a.owner = None
  BY <1>1 DEF JobRow, AttemptRow, Released
<1>3. b.external = Latest(j).external /\ a.submitted = jobs[j].submitted
  BY <1>1 DEF JobRow, AttemptRow, Released
<1>4. OwnedRunning(j, w) /\ BeginWrite(s, j, PairWrite(j, a, b))
  BY DEF Fail
<1> HIDE DEF a, b
<1> QED BY <1>1, <1>2, <1>3, <1>4, OwnerWriteKeepsDInv

LEMMA MarkSubmitUnknownKeepsDInv ==
  ASSUME IInv, DInv, NEW s, NEW j \in DOMAIN jobs, NEW w, NEW calls,
         MarkSubmitUnknown(s, j, w, calls)
  PROVE  DInv'
<1> DEFINE a == [Released(jobs[j]) EXCEPT !.status = "SUBMIT_UNKNOWN",
                   !.uncertain = TRUE, !.submitted = TRUE]
           b == [Latest(j) EXCEPT !.status = "SUBMIT_UNKNOWN", !.calls = calls,
                   !.external = TRUE, !.state = "SUBMIT_UNKNOWN"]
<1>1. jobs[j] \in JobRow /\ Latest(j) \in AttemptRow
  BY OwnedTells DEF MarkSubmitUnknown
<1>2. a.status = "SUBMIT_UNKNOWN" /\ b.status = "SUBMIT_UNKNOWN" /\ a.owner = None
  BY <1>1 DEF JobRow, AttemptRow, Released
<1>3. a.submitted /\ b.external
  BY <1>1 DEF JobRow, AttemptRow, Released
<1>4. OwnedRunning(j, w) /\ BeginWrite(s, j, PairWrite(j, a, b))
  BY DEF MarkSubmitUnknown
<1> HIDE DEF a, b
<1> QED BY <1>2, <1>3, <1>4, OwnerWriteKeepsDInv

LEMMA WorkerStepKeepsDInv ==
  ASSUME IInv, DInv, NEW s \in Sessions, WorkerStep(s)
  PROVE  DInv'
<1>1. ASSUME Recover(s) PROVE DInv'
  <2>1. Begin(s, RecoverExpiredLeases, None, None, {})
    BY <1>1 DEF Recover, BeginWrites
  <2> QED BY <2>1, RecoveryTells, BeginKeepsDInv
<1>2. ASSUME NEW w \in Workers, NEW types \in ClaimFilters, Claim(s, w, types)
      PROVE  DInv'
  <2>1. Begin(s, RecoverExpiredLeases, None, w, types)
    BY <1>2 DEF Claim
  <2> QED BY <2>1, RecoveryTells, BeginKeepsDInv
<1>3. ASSUME NEW w \in Workers, NEW j \in DOMAIN jobs, NEW calls \in 0..MaxCalls,
             \/ \E e \in BOOLEAN : Heartbeat(s, j, w, calls, e)
             \/ \E o, e \in BOOLEAN : Complete(s, j, w, calls, o, e)
             \/ \E state \in FailStates : Fail(s, j, w, calls, FALSE, state)
             \/ MarkSubmitUnknown(s, j, w, calls)
      PROVE  DInv'
  BY <1>3, HeartbeatKeepsDInv, CompleteKeepsDInv, FailKeepsDInv,
     MarkSubmitUnknownKeepsDInv
<1> QED BY <1>1, <1>2, <1>3 DEF WorkerStep

-----------------------------------------------------------------------------
(***************************************************************************)
(* The end of a transaction.                                               *)
(***************************************************************************)
LEMMA FlushJobFields ==
  ASSUME NEW row \in JobRow, NEW l, NEW a
  PROVE  /\ FlushJob(row, l, a).status = Net(row.status, l.status, a.status)
         /\ FlushJob(row, l, a).owner = Net(row.owner, l.owner, a.owner)
         /\ FlushJob(row, l, a).count = row.count
BY DEF FlushJob, JobRow

LEMMA FlushSubmitted ==
  ASSUME NEW row \in JobRow, NEW l, NEW a,
         Net(row.submitted, l.submitted, a.submitted)
  PROVE  FlushJob(row, l, a).submitted
<1>1. FlushJob(row, l, a).submitted = Net(row.submitted, l.submitted, a.submitted)
  BY DEF FlushJob, JobRow
<1> QED BY Zenon, <1>1

LEMMA FlushExternal ==
  ASSUME NEW row \in AttemptRow, NEW l, NEW a,
         Net(row.external, l.external, a.external)
  PROVE  FlushAttempt(row, l, a).external
<1>1. FlushAttempt(row, l, a).external = Net(row.external, l.external, a.external)
  BY DEF FlushAttempt, AttemptRow
<1> QED BY Zenon, <1>1

LEMMA FlushedExternal ==
  ASSUME NEW row \in AttemptRow, NEW l, NEW a, FlushAttempt(row, l, a).external
  PROVE  row.external \/ a.external
<1>1. FlushAttempt(row, l, a).external = Net(row.external, l.external, a.external)
  BY DEF FlushAttempt, AttemptRow
<1>2. Net(row.external, l.external, a.external)
  BY Zenon, <1>1
<1> QED BY <1>2, NetFrom

LEMMA FlushAttemptStatus ==
  ASSUME NEW row \in AttemptRow, NEW l, NEW a
  PROVE  FlushAttempt(row, l, a).status = Net(row.status, l.status, a.status)
BY DEF FlushAttempt, AttemptRow

\* What a commit makes of a job: it is claimed, flushed, or left alone.
LEMMA CommittedJob ==
  ASSUME IInv, NEW s \in DOMAIN uow, Commit(s), NEW j \in DOMAIN jobs
  PROVE  /\ DOMAIN jobs' = DOMAIN jobs
         /\ j \in Candidates(uow[s]) =>
              /\ jobs[j].status = "QUEUED" /\ uow[s].claimer # None
              /\ jobs'[j].status = "RUNNING" /\ jobs'[j].count = jobs[j].count + 1
              /\ jobs'[j].owner = uow[s].claimer
              /\ jobs'[j].submitted = jobs[j].submitted
         /\ j \notin Candidates(uow[s]) => jobs'[j].count = jobs[j].count
         /\ j \notin Candidates(uow[s]) /\ j \in DOMAIN uow[s].writes =>
              LET w == uow[s].writes[j]
              IN jobs'[j] = FlushJob(jobs[j], w.loaded, w.assigned)
         /\ j \notin Candidates(uow[s]) /\ j \notin DOMAIN uow[s].writes =>
              jobs'[j] = jobs[j]
<1>1. /\ jobs' = FlushedJobs(uow[s]) /\ jobs[j] \in JobRow
      /\ UnitOfWork(uow[s])
  BY DEF Commit, IInv, TypeOK
<1>2. ASSUME j \in Candidates(uow[s])
      PROVE  /\ jobs[j].status = "QUEUED" /\ uow[s].claimer # None
             /\ jobs'[j] = ClaimedJob(jobs[j], uow[s])
  BY <1>1, <1>2 DEF FlushedJobs, Candidates, Eligible
<1>3. /\ ClaimedJob(jobs[j], uow[s]).status = "RUNNING"
      /\ ClaimedJob(jobs[j], uow[s]).count = jobs[j].count + 1
      /\ ClaimedJob(jobs[j], uow[s]).owner = uow[s].claimer
      /\ ClaimedJob(jobs[j], uow[s]).submitted = jobs[j].submitted
  BY <1>1 DEF ClaimedJob, JobRow
<1>4. ASSUME j \notin Candidates(uow[s]), j \in DOMAIN uow[s].writes
      PROVE  LET w == uow[s].writes[j]
             IN jobs'[j] = FlushJob(jobs[j], w.loaded, w.assigned)
  BY <1>1, <1>4 DEF FlushedJobs
<1>5. ASSUME j \notin Candidates(uow[s]), j \notin DOMAIN uow[s].writes
      PROVE  jobs'[j] = jobs[j]
  BY <1>1, <1>5 DEF FlushedJobs
<1>6. j \notin Candidates(uow[s]) => jobs'[j].count = jobs[j].count
  BY <1>1, <1>4, <1>5, FlushJobFields
<1>7. DOMAIN jobs' = DOMAIN jobs
  BY <1>1 DEF FlushedJobs
<1> QED BY <1>2, <1>3, <1>4, <1>5, <1>6, <1>7

\* What a commit makes of the attempts of a job.
LEMMA CommittedAttempts ==
  ASSUME IInv, NEW s \in DOMAIN uow, Commit(s), NEW j \in DOMAIN jobs
  PROVE  /\ DOMAIN attempts[j] = 1..jobs[j].count
         /\ DOMAIN attempts'[j] = 1..jobs'[j].count
         /\ \A n \in DOMAIN attempts[j] :
              attempts'[j][n] = FlushedAttempt(uow[s], j, n)
         /\ j \in Candidates(uow[s]) => attempts'[j][jobs[j].count + 1] = NewAttempt
<1>1. /\ attempts' = FlushedAttempts(uow[s]) /\ j \in DOMAIN attempts
      /\ jobs[j].count \in Nat /\ DOMAIN attempts[j] = 1..jobs[j].count
      /\ AttemptsNumbered'
  BY CommitKeepsIInv DEF Commit, IInv, TypeOK, AttemptsNumbered, JobRow
<1>2. /\ j \in Candidates(uow[s]) =>
           attempts'[j] = [n \in DOMAIN attempts[j] \cup {jobs[j].count + 1} |->
             IF n = jobs[j].count + 1 THEN NewAttempt ELSE FlushedAttempt(uow[s], j, n)]
      /\ j \notin Candidates(uow[s]) =>
           attempts'[j] = [n \in DOMAIN attempts[j] |-> FlushedAttempt(uow[s], j, n)]
  BY <1>1 DEF FlushedAttempts
<1>3. \A n \in DOMAIN attempts[j] : n # jobs[j].count + 1
  BY <1>1
<1>4. \A n \in DOMAIN attempts[j] : attempts'[j][n] = FlushedAttempt(uow[s], j, n)
  BY <1>2, <1>3
<1>5. DOMAIN attempts'[j] = 1..jobs'[j].count
  BY <1>1, CommittedJob DEF AttemptsNumbered
<1>6. j \in Candidates(uow[s]) => attempts'[j][jobs[j].count + 1] = NewAttempt
  BY <1>2
<1> QED BY <1>1, <1>4, <1>5, <1>6

\* The writes of a session and the rows they load and assign.
LEMMA PendingFacts ==
  ASSUME IInv, DInv, NEW s \in DOMAIN uow, NEW j \in DOMAIN uow[s].writes
  PROVE  /\ Tells(j, uow[s].writes[j]) /\ TellsAlone(uow[s], j)
         /\ uow[s].writes[j].loaded \in JobRow
         /\ uow[s].writes[j].assigned \in JobRow
         /\ uow[s].writes[j].loadedAttempt \in AttemptRow
         /\ uow[s].writes[j].assignedAttempt \in AttemptRow
         /\ uow[s].writes[j].number \in Nat
<1>1. uow[s].writes[j] \in Write
  BY DEF IInv, TypeOK, UnitOfWork
<1>2. Tells(j, uow[s].writes[j]) /\ TellsAlone(uow[s], j)
  BY DEF DInv, PendingWritesTell
<1> QED BY <1>1, <1>2 DEF Write

\* No commit takes submitted_at back.
LEMMA SubmittedStays ==
  ASSUME IInv, DInv, NEW s \in DOMAIN uow, Commit(s), NEW j \in DOMAIN jobs,
         jobs[j].submitted
  PROVE  jobs'[j].submitted
<1>1. CASE j \in Candidates(uow[s])
  BY <1>1, CommittedJob
<1>2. CASE j \notin Candidates(uow[s]) /\ j \in DOMAIN uow[s].writes
  <2> DEFINE w == uow[s].writes[j]
  <2>1. jobs[j] \in JobRow /\ jobs'[j] = FlushJob(jobs[j], w.loaded, w.assigned)
    BY <1>2, CommittedJob DEF IInv, TypeOK
  <2>2. Tells(j, w) /\ w.loaded \in JobRow /\ w.assigned \in JobRow
    BY <1>2, PendingFacts
  <2> HIDE DEF w
  <2>3. w.loaded.submitted \in BOOLEAN /\ w.assigned.submitted \in BOOLEAN
    BY <2>2 DEF JobRow
  <2>4. Net(jobs[j].submitted, w.loaded.submitted, w.assigned.submitted)
    BY <2>2, <2>3, NetGrows DEF Tells
  <2> QED BY <2>1, <2>4, FlushSubmitted
<1>3. CASE j \notin Candidates(uow[s]) /\ j \notin DOMAIN uow[s].writes
  BY <1>3, CommittedJob
<1> QED BY <1>1, <1>2, <1>3

\* No commit takes the external boundary of an attempt back.
LEMMA ExternalStays ==
  ASSUME IInv, DInv, NEW s \in DOMAIN uow, Commit(s), NEW j \in DOMAIN jobs,
         NEW n \in DOMAIN attempts[j], attempts[j][n].external
  PROVE  attempts'[j][n].external
<1>1. attempts'[j][n] = FlushedAttempt(uow[s], j, n) /\ attempts[j][n] \in AttemptRow
  BY CommittedAttempts DEF IInv, TypeOK
<1>2. CASE j \in DOMAIN uow[s].writes /\ uow[s].writes[j].number = n
  <2> DEFINE w == uow[s].writes[j]
  <2>1. attempts'[j][n]
          = FlushAttempt(attempts[j][n], w.loadedAttempt, w.assignedAttempt)
    BY <1>1, <1>2 DEF FlushedAttempt
  <2>2. /\ Tells(j, w) /\ w.loadedAttempt \in AttemptRow
        /\ w.assignedAttempt \in AttemptRow
    BY <1>2, PendingFacts
  <2> HIDE DEF w
  <2>3. w.loadedAttempt.external \in BOOLEAN /\ w.assignedAttempt.external \in BOOLEAN
    BY <2>2 DEF AttemptRow
  <2>4. Net(attempts[j][n].external, w.loadedAttempt.external,
            w.assignedAttempt.external)
    BY <2>2, <2>3, NetGrows DEF Tells
  <2> QED BY <1>1, <2>1, <2>4, FlushExternal
<1>3. CASE ~(j \in DOMAIN uow[s].writes /\ uow[s].writes[j].number = n)
  BY <1>1, <1>3 DEF FlushedAttempt
<1> QED BY <1>2, <1>3

\* What a write assigns is there when it is committed, unless the session
\* claims the job: submitted_at ...
LEMMA SubmittedSticks ==
  ASSUME IInv, DInv, NEW s \in DOMAIN uow, Commit(s), NEW j \in DOMAIN uow[s].writes,
         j \in DOMAIN jobs, uow[s].writes[j].assigned.submitted
  PROVE  jobs'[j].submitted
<1> DEFINE w == uow[s].writes[j]
<1>1. Tells(j, w) /\ TellsAlone(uow[s], j)
  BY PendingFacts
<1>2. CASE j \in Candidates(uow[s])
  <2>1. w.loaded.submitted
    BY <1>1, <1>2, CommittedJob DEF TellsAlone
  <2>2. jobs[j].submitted
    BY <1>1, <2>1 DEF Tells
  <2> QED BY <2>2, SubmittedStays
<1>3. CASE j \notin Candidates(uow[s])
  <2>1. jobs[j] \in JobRow /\ jobs'[j] = FlushJob(jobs[j], w.loaded, w.assigned)
    BY <1>3, CommittedJob DEF IInv, TypeOK
  <2>2. w.assigned.submitted
    OBVIOUS
  <2> HIDE DEF w
  <2>3. Net(jobs[j].submitted, w.loaded.submitted, w.assigned.submitted)
    BY <1>1, <2>2, NetSets DEF Tells
  <2> QED BY <2>1, <2>3, FlushSubmitted
<1> QED BY <1>2, <1>3

\* ... and the external boundary of its attempt.
LEMMA ExternalSticks ==
  ASSUME IInv, DInv, NEW s \in DOMAIN uow, Commit(s), NEW j \in DOMAIN uow[s].writes,
         j \in DOMAIN jobs, uow[s].writes[j].number \in DOMAIN attempts[j],
         uow[s].writes[j].assignedAttempt.external
  PROVE  attempts'[j][uow[s].writes[j].number].external
<1> DEFINE w == uow[s].writes[j]
           n == w.number
<1>1. attempts'[j][n] = FlushedAttempt(uow[s], j, n) /\ attempts[j][n] \in AttemptRow
  BY CommittedAttempts DEF IInv, TypeOK
<1>2. attempts'[j][n]
        = FlushAttempt(attempts[j][n], w.loadedAttempt, w.assignedAttempt)
  BY <1>1 DEF FlushedAttempt
<1>3. Tells(j, w) /\ n # 0 /\ w.assignedAttempt.external
  BY PendingFacts DEF IInv, TypeOK
<1> HIDE DEF w
<1>4. w.loadedAttempt.external => attempts[j][n].external
  BY <1>3 DEF Tells
<1> HIDE DEF n
<1>5. Net(attempts[j][n].external, w.loadedAttempt.external,
          w.assignedAttempt.external)
  BY <1>3, <1>4, NetSets
<1>6. attempts'[j][n].external
  BY <1>1, <1>2, <1>5, FlushExternal
<1> QED BY <1>6 DEF w, n

LEMMA CommitKeepsRunsOnceClaimed ==
  ASSUME IInv, DInv, NEW s \in DOMAIN uow, Commit(s), NEW j \in DOMAIN jobs
  PROVE  RunsOnceClaimed(j)'
<1>1. RunsOnceClaimed(j) /\ jobs[j] \in JobRow /\ jobs[j].count \in Nat
  BY DEF DInv, JobTells, IInv, TypeOK, JobRow
<1>2. CASE j \in Candidates(uow[s])
  <2>1. jobs'[j].count # 0
    BY <1>1, <1>2, CommittedJob
  <2> QED BY <2>1 DEF RunsOnceClaimed
<1>3. CASE j \notin Candidates(uow[s]) /\ j \in DOMAIN uow[s].writes
  <2> DEFINE w == uow[s].writes[j]
  <2>1. /\ jobs'[j].status = Net(jobs[j].status, w.loaded.status, w.assigned.status)
        /\ jobs'[j].count = jobs[j].count
    BY <1>1, <1>3, CommittedJob, FlushJobFields
  <2>2. Tells(j, w)
    BY <1>3, PendingFacts
  <2> HIDE DEF w
  <2>3. jobs'[j].status = "RUNNING" => jobs[j].status = "RUNNING"
    BY <2>1, <2>2 DEF Net, Tells
  <2> QED BY <1>1, <2>1, <2>3 DEF RunsOnceClaimed
<1>4. CASE j \notin Candidates(uow[s]) /\ j \notin DOMAIN uow[s].writes
  BY <1>1, <1>4, CommittedJob DEF RunsOnceClaimed
<1> QED BY <1>2, <1>3, <1>4

LEMMA CommitKeepsExternalIsSubmitted ==
  ASSUME IInv, DInv, NEW s \in DOMAIN uow, Commit(s), NEW j \in DOMAIN jobs
  PROVE  ExternalIsSubmitted(j)'
<1> SUFFICES ASSUME NEW n \in DOMAIN attempts'[j], attempts'[j][n].external
             PROVE  jobs'[j].submitted
  BY DEF ExternalIsSubmitted
<1>1. CASE n \notin DOMAIN attempts[j]
  <2>1. n = jobs[j].count + 1 /\ j \in Candidates(uow[s])
    BY <1>1, CommittedJob, CommittedAttempts DEF IInv, TypeOK, JobRow
  <2>2. attempts'[j][n] = NewAttempt
    BY <2>1, CommittedAttempts
  <2> QED BY <2>2 DEF NewAttempt
<1>2. CASE n \in DOMAIN attempts[j]
  <2>1. attempts'[j][n] = FlushedAttempt(uow[s], j, n) /\ attempts[j][n] \in AttemptRow
    BY <1>2, CommittedAttempts DEF IInv, TypeOK
  <2>2. ASSUME attempts[j][n].external
        PROVE  jobs'[j].submitted
    BY <1>2, <2>2, SubmittedStays DEF DInv, JobTells, ExternalIsSubmitted
  <2>3. CASE j \in DOMAIN uow[s].writes /\ uow[s].writes[j].number = n
    <3> DEFINE w == uow[s].writes[j]
    <3>1. attempts'[j][n]
            = FlushAttempt(attempts[j][n], w.loadedAttempt, w.assignedAttempt)
      BY <2>1, <2>3 DEF FlushedAttempt
    <3>2. Tells(j, w)
      BY <2>3, PendingFacts
    <3> HIDE DEF w
    <3>3. attempts[j][n].external \/ w.assignedAttempt.external
      BY <2>1, <3>1, FlushedExternal
    <3>4. ASSUME w.assignedAttempt.external
          PROVE  w.assigned.submitted
      BY <3>2, <3>4 DEF Tells
    <3> QED BY <2>2, <2>3, <3>3, <3>4, SubmittedSticks DEF w
  <2>4. CASE ~(j \in DOMAIN uow[s].writes /\ uow[s].writes[j].number = n)
    BY <2>1, <2>2, <2>4 DEF FlushedAttempt
  <2> QED BY <2>3, <2>4
<1> QED BY <1>1, <1>2

\* A flush of the attempt numbered n, as it is in the table.
LEMMA CommittedStatus ==
  ASSUME IInv, NEW s \in DOMAIN uow, Commit(s), NEW j \in DOMAIN jobs,
         NEW n \in DOMAIN attempts[j]
  PROVE  attempts'[j][n].status =
           IF j \in DOMAIN uow[s].writes /\ uow[s].writes[j].number = n
           THEN Net(attempts[j][n].status, uow[s].writes[j].loadedAttempt.status,
                    uow[s].writes[j].assignedAttempt.status)
           ELSE attempts[j][n].status
<1>1. attempts'[j][n] = FlushedAttempt(uow[s], j, n) /\ attempts[j][n] \in AttemptRow
  BY CommittedAttempts DEF IInv, TypeOK
<1> QED BY <1>1, FlushAttemptStatus DEF FlushedAttempt

\* A write that doubts a job it does not claim leaves the job in doubt.
LEMMA DoubtIsWritten ==
  ASSUME IInv, DInv, NEW s \in DOMAIN uow, Commit(s), NEW j \in DOMAIN jobs,
         j \notin Candidates(uow[s]), j \in DOMAIN uow[s].writes
  PROVE  /\ jobs'[j].status = Net(jobs[j].status, uow[s].writes[j].loaded.status,
                                  uow[s].writes[j].assigned.status)
         /\ uow[s].writes[j].assigned.status = "SUBMIT_UNKNOWN"
              => jobs'[j].status = "SUBMIT_UNKNOWN"
<1>1. jobs'[j].status = Net(jobs[j].status, uow[s].writes[j].loaded.status,
                            uow[s].writes[j].assigned.status)
  BY CommittedJob, FlushJobFields DEF IInv, TypeOK
<1>2. uow[s].writes[j].loaded.status # "SUBMIT_UNKNOWN"
  BY DEF IInv, PendingWritesAreSound, Sound
<1> QED BY <1>1, <1>2 DEF Net

LEMMA CommitKeepsLatestIsCertain ==
  ASSUME IInv, DInv, NEW s \in DOMAIN uow, Commit(s), NEW j \in DOMAIN jobs
  PROVE  LatestIsCertain(j)'
<1>1. CASE j \in Candidates(uow[s])
  <2>1. attempts'[j][jobs'[j].count] = NewAttempt
    BY <1>1, CommittedJob, CommittedAttempts
  <2> QED BY <2>1 DEF LatestIsCertain, NewAttempt
<1>2. CASE j \notin Candidates(uow[s])
  <2> DEFINE n == jobs[j].count
             w == uow[s].writes[j]
  <2> SUFFICES ASSUME n # 0, jobs'[j].status # "SUBMIT_UNKNOWN"
               PROVE  attempts'[j][n].status # "SUBMIT_UNKNOWN"
    BY <1>2, CommittedJob DEF LatestIsCertain
  <2>1. n \in DOMAIN attempts[j]
    BY CommittedAttempts DEF IInv, TypeOK, JobRow
  <2>2. attempts[j][n].status # "SUBMIT_UNKNOWN"
    BY CommitKeepsDoubt DEF DInv, JobTells, LatestIsCertain
  <2>3. CASE j \in DOMAIN uow[s].writes /\ w.number = n
    <3>1. w.assigned.status # "SUBMIT_UNKNOWN" /\ Tells(j, w)
      BY <1>2, <2>3, DoubtIsWritten, PendingFacts
    <3>2. attempts'[j][n].status = Net(attempts[j][n].status, w.loadedAttempt.status,
                                       w.assignedAttempt.status)
      BY <2>1, <2>3, CommittedStatus
    <3> HIDE DEF w, n
    <3> QED BY <2>2, <3>1, <3>2 DEF Net, Tells
  <2>4. CASE ~(j \in DOMAIN uow[s].writes /\ w.number = n)
    BY <2>1, <2>2, <2>4, CommittedStatus
  <2> QED BY <2>3, <2>4
<1> QED BY <1>1, <1>2

LEMMA CommitKeepsExplained ==
  ASSUME IInv, DInv, NEW s \in DOMAIN uow, Commit(s), NEW j \in DOMAIN jobs
  PROVE  Explained(j)'
<1> DEFINE w == uow[s].writes[j]
<1> SUFFICES ASSUME jobs'[j].status = "SUBMIT_UNKNOWN"
             PROVE  /\ jobs'[j].submitted
                    /\ \E n \in DOMAIN attempts[j] :
                         /\ attempts'[j][n].status = "SUBMIT_UNKNOWN"
                         /\ attempts'[j][n].external
  <2>1. DOMAIN attempts[j] \subseteq DOMAIN attempts'[j]
    BY CommittedJob, CommittedAttempts DEF IInv, TypeOK, JobRow
  <2> QED BY <2>1 DEF Explained
<1>1. j \notin Candidates(uow[s])
  BY CommittedJob
<1>2. CASE jobs[j].status = "SUBMIT_UNKNOWN"
  <2>1. PICK n \in DOMAIN attempts[j] :
          attempts[j][n].status = "SUBMIT_UNKNOWN" /\ attempts[j][n].external
    BY <1>2 DEF DInv, JobTells, Explained
  <2>2. jobs'[j].submitted
    BY <1>2, SubmittedStays DEF DInv, JobTells, Explained
  <2>3. attempts'[j][n].external
    BY <2>1, ExternalStays
  <2>4. attempts'[j][n].status = "SUBMIT_UNKNOWN"
    <3>1. CASE j \in DOMAIN uow[s].writes /\ w.number = n
      <4>1. /\ Tells(j, w) /\ n # 0
            /\ jobs'[j].status
                 = Net(jobs[j].status, w.loaded.status, w.assigned.status)
            /\ attempts'[j][n].status
                 = Net(attempts[j][n].status, w.loadedAttempt.status,
                       w.assignedAttempt.status)
        BY <1>1, <3>1, PendingFacts, DoubtIsWritten, CommittedStatus DEF IInv, TypeOK
      <4>2. w.number # 0
        BY <3>1, <4>1
      <4> HIDE DEF w
      <4> QED BY <1>2, <2>1, <4>1, <4>2 DEF Net, Tells
    <3>2. CASE ~(j \in DOMAIN uow[s].writes /\ w.number = n)
      BY <2>1, <3>2, CommittedStatus
    <3> QED BY <3>1, <3>2
  <2> QED BY <2>2, <2>3, <2>4
<1>3. CASE jobs[j].status # "SUBMIT_UNKNOWN"
  <2>1. j \in DOMAIN uow[s].writes
    BY <1>1, <1>3, CommittedJob
  <2>2. w.assigned.status = "SUBMIT_UNKNOWN"
    BY <1>1, <1>3, <2>1, DoubtIsWritten DEF Net
  <2>3. Tells(j, w) /\ w.number \in Nat
    BY <2>1, PendingFacts
  <2>4. /\ w.number # 0 /\ w.number <= jobs[j].count
        /\ w.assignedAttempt.status = "SUBMIT_UNKNOWN"
        /\ w.loadedAttempt.status # "SUBMIT_UNKNOWN"
        /\ w.assignedAttempt.external
    BY <2>2, <2>3 DEF Tells
  <2>5. w.assigned.submitted
    BY <2>3, <2>4 DEF Tells
  <2>6. w.number \in DOMAIN attempts[j]
    BY <2>3, <2>4, CommittedAttempts DEF IInv, TypeOK, JobRow
  <2>7. attempts'[j][w.number].status = "SUBMIT_UNKNOWN"
    BY <2>1, <2>4, <2>6, CommittedStatus DEF Net
  <2>8. jobs'[j].submitted /\ attempts'[j][w.number].external
    BY <2>1, <2>4, <2>5, <2>6, SubmittedSticks, ExternalSticks
  <2> QED BY <2>6, <2>7, <2>8
<1> QED BY <1>2, <1>3

\* What is loaded in other sessions stays true of the rows that were loaded.
LEMMA OthersStillTell ==
  ASSUME IInv, DInv, NEW s \in DOMAIN uow, Close(s),
         \A j \in DOMAIN jobs :
           /\ jobs[j].submitted => jobs'[j].submitted
           /\ jobs'[j].count \in Nat /\ jobs[j].count <= jobs'[j].count
           /\ \A n \in DOMAIN attempts[j] :
                attempts[j][n].external => attempts'[j][n].external
  PROVE  PendingWritesTell'
<1> SUFFICES ASSUME NEW t \in DOMAIN uow', NEW j \in DOMAIN uow'[t].writes
             PROVE  (Tells(j, uow[t].writes[j]) /\ TellsAlone(uow[t], j))'
  BY DEF PendingWritesTell
<1>1. t \in DOMAIN uow /\ uow'[t] = uow[t]
  BY DEF Close
<1> DEFINE w == uow[t].writes[j]
<1>2. /\ Tells(j, w) /\ TellsAlone(uow[t], j) /\ w.number \in Nat
      /\ j \in DOMAIN jobs
  BY <1>1, PendingFacts DEF IInv, TypeOK, UnitOfWork
<1>3. /\ w.number <= jobs'[j].count
      /\ w.number # 0 => w.number \in DOMAIN attempts[j]
  <2>1. w.number <= jobs[j].count
    BY <1>2 DEF Tells
  <2>2. jobs[j].count \in Nat /\ jobs'[j].count \in Nat /\ jobs[j].count <= jobs'[j].count
        /\ DOMAIN attempts[j] = 1..jobs[j].count
    BY <1>2 DEF IInv, TypeOK, JobRow, AttemptsNumbered
  <2> HIDE DEF w
  <2> QED BY <1>2, <2>1, <2>2
<1>4. w.loaded.submitted => w.assigned.submitted /\ jobs'[j].submitted
  BY <1>2 DEF Tells
<1>5. w.number # 0 /\ w.loadedAttempt.external => attempts'[j][w.number].external
  BY <1>2, <1>3 DEF Tells
<1>6. Tells(j, uow[t].writes[j])'
  <2>1. (uow[t].writes[j])' = w
    BY <1>1
  <2> HIDE DEF w
  <2> QED BY <1>2, <1>3, <1>4, <1>5, <2>1 DEF Tells
<1>7. TellsAlone(uow[t], j)'
  BY <1>1, <1>2 DEF TellsAlone
<1> QED BY <1>6, <1>7

LEMMA CommitKeepsDInv ==
  ASSUME IInv, DInv, NEW s \in DOMAIN uow, Commit(s)
  PROVE  DInv'
<1>1. DOMAIN jobs' = DOMAIN jobs /\ Close(s)
  BY DEF Commit, FlushedJobs
<1>2. \A j \in DOMAIN jobs : JobTells(j)'
  BY CommitKeepsRunsOnceClaimed, CommitKeepsExternalIsSubmitted,
     CommitKeepsLatestIsCertain, CommitKeepsExplained DEF JobTells
<1>3. ASSUME NEW j \in DOMAIN jobs
      PROVE  /\ jobs[j].submitted => jobs'[j].submitted
             /\ jobs'[j].count \in Nat /\ jobs[j].count <= jobs'[j].count
             /\ \A n \in DOMAIN attempts[j] :
                  attempts[j][n].external => attempts'[j][n].external
  <2>1. jobs[j].count \in Nat
    BY DEF IInv, TypeOK, JobRow
  <2>2. jobs'[j].count \in {jobs[j].count, jobs[j].count + 1}
    BY CommittedJob
  <2>3. jobs'[j].count \in Nat /\ jobs[j].count <= jobs'[j].count
    BY <2>1, <2>2
  <2> QED BY <2>3, SubmittedStays, ExternalStays
<1>4. PendingWritesTell'
  BY <1>1, <1>3, OthersStillTell
<1> QED BY <1>1, <1>2, <1>4 DEF DInv

LEMMA UntouchedTells ==
  ASSUME NEW j, JobTells(j), jobs'[j] = jobs[j], attempts'[j] = attempts[j]
  PROVE  JobTells(j)'
<1>1. RunsOnceClaimed(j)' /\ LatestIsCertain(j)'
  BY DEF JobTells, RunsOnceClaimed, LatestIsCertain
<1>2. ExternalIsSubmitted(j)'
  BY DEF JobTells, ExternalIsSubmitted
<1>3. Explained(j)'
  BY DEF JobTells, Explained
<1> QED BY <1>1, <1>2, <1>3 DEF JobTells

LEMMA CommitInsertKeepsDInv ==
  ASSUME IInv, DInv, NEW s \in DOMAIN uow, CommitInsert(s)
  PROVE  DInv'
<1> PICK n \in JobIds \ DOMAIN jobs :
      /\ jobs' = InsertedJobs(n, uow[s].insert)
      /\ attempts' = [j \in DOMAIN attempts \cup {n} |->
                        IF j = n THEN <<>> ELSE attempts[j]]
      /\ Close(s)
  BY DEF CommitInsert
<1>1. DOMAIN jobs' = DOMAIN jobs \cup {n}
  BY DEF InsertedJobs
<1>2. \A j \in DOMAIN jobs : jobs'[j] = jobs[j] /\ attempts'[j] = attempts[j]
  BY DEF InsertedJobs, IInv, TypeOK
<1>3. jobs'[n] = NewJob(uow[s].insert) /\ attempts'[n] = <<>>
  BY DEF InsertedJobs
<1>4. JobTells(n)'
  <2>1. jobs'[n].status = "QUEUED" /\ jobs'[n].count = 0 /\ DOMAIN attempts'[n] = {}
    BY <1>3 DEF NewJob
  <2> QED BY <2>1 DEF JobTells, RunsOnceClaimed, ExternalIsSubmitted, LatestIsCertain,
                      Explained
<1>5. \A j \in DOMAIN jobs : JobTells(j)'
  BY <1>2, UntouchedTells DEF DInv
<1>6. \A j \in DOMAIN jobs :
        /\ jobs[j].submitted => jobs'[j].submitted
        /\ jobs'[j].count \in Nat /\ jobs[j].count <= jobs'[j].count
        /\ \A m \in DOMAIN attempts[j] :
             attempts[j][m].external => attempts'[j][m].external
  BY <1>2 DEF IInv, TypeOK, JobRow
<1>7. PendingWritesTell'
  BY <1>6, OthersStillTell
<1> QED BY <1>1, <1>4, <1>5, <1>7 DEF DInv

LEMMA RollbackKeepsDInv ==
  ASSUME IInv, DInv, NEW s \in DOMAIN uow, Rollback(s)
  PROVE  DInv'
<1>1. jobs' = jobs /\ attempts' = attempts /\ Close(s)
  BY DEF Rollback, tables
<1>2. \A j \in DOMAIN jobs' : JobTells(j)'
  BY <1>1 DEF DInv, JobTells, RunsOnceClaimed, ExternalIsSubmitted, LatestIsCertain,
              Explained
<1>3. \A j \in DOMAIN jobs :
        /\ jobs[j].submitted => jobs'[j].submitted
        /\ jobs'[j].count \in Nat /\ jobs[j].count <= jobs'[j].count
        /\ \A m \in DOMAIN attempts[j] :
             attempts[j][m].external => attempts'[j][m].external
  BY <1>1 DEF IInv, TypeOK, JobRow
<1>4. PendingWritesTell'
  BY <1>1, <1>3, OthersStillTell
<1> QED BY <1>2, <1>4 DEF DInv

LEMMA UnwrittenKeepsDInv ==
  ASSUME DInv, jobs' = jobs, attempts' = attempts, uow' = uow
  PROVE  DInv'
BY DEF DInv, PendingWritesTell, Tells, TellsAlone, JobTells, RunsOnceClaimed,
       ExternalIsSubmitted, LatestIsCertain, Explained

LEMMA InitDInv == Init => DInv
<1> SUFFICES ASSUME Init PROVE DInv
  OBVIOUS
<1>1. DOMAIN jobs = {} /\ DOMAIN uow = {}
  BY DEF Init
<1> QED BY <1>1 DEF DInv, PendingWritesTell

LEMMA NextKeepsDInv == IInv /\ DInv /\ [Next]_vars => DInv'
<1> SUFFICES ASSUME IInv, DInv, [Next]_vars PROVE DInv'
  OBVIOUS
<1>1. ASSUME NEW s \in Sessions \ DOMAIN uow, UserStep(s) \/ WorkerStep(s)
      PROVE  DInv'
  BY <1>1, UserStepKeepsDInv, WorkerStepKeepsDInv
<1>2. ASSUME NEW s \in DOMAIN uow, CloseStep(s)
      PROVE  DInv'
  BY <1>2, CommitKeepsDInv, CommitInsertKeepsDInv, RollbackKeepsDInv DEF CloseStep
<1>3. CASE Tick
  BY <1>3, UnwrittenKeepsDInv DEF Tick, tables
<1>4. CASE UNCHANGED vars
  BY <1>4, UnwrittenKeepsDInv DEF vars
<1> QED BY <1>1, <1>2, <1>3, <1>4 DEF Next

\* What every job and every pending write tells holds in every reachable state.
THEOREM DoubtInvariance == Spec => []DInv
BY InitDInv, NextKeepsDInv, Invariance, PTL DEF Spec

\* Whatever raced with the write of a doubt, a job in SUBMIT_UNKNOWN says that
\* something was submitted and which external attempt put it there.
THEOREM DoubtIsExplained == Spec => []UnknownIsExplained
<1>1. DInv => UnknownIsExplained
  BY DEF DInv, JobTells, Explained, UnknownIsExplained
<1> QED BY <1>1, DoubtInvariance, PTL

-----------------------------------------------------------------------------
(***************************************************************************)
(* The serial queue.  When one session is open at a time no table is       *)
(* written between the loads of an operation and its commit, so a unit of  *)
(* work knows the rows as they are, and its commit is one move of the      *)
(* lifecycle of each job it writes.  The attempts then tell what their job *)
(* is.                                                                     *)
(***************************************************************************)
OneSession == \A s, t \in Sessions : s = t
Alone == \A s, t \in DOMAIN uow : s = t

\* What a unit of work loaded is what the tables hold.
Current(j, w) ==
  /\ w.loaded = jobs[j]
  /\ w.number # 0 =>
       w.number = jobs[j].count /\ w.loadedAttempt = attempts[j][w.number]

\* The writes of a user.
RowMove(j, w) ==
  /\ w.number = 0
  /\ \/ jobs[j].status = "QUEUED" /\ w.assigned.status \in {"PAUSED", "CANCELLED"}
     \/ jobs[j].status = "PAUSED" /\ w.assigned.status \in {"QUEUED", "CANCELLED"}
     \/ /\ jobs[j].status = "FAILED" /\ w.assigned.status = "QUEUED"
        /\ jobs[j].count < jobs[j].req.max

\* The writes of an owner and of a recovery: the job and its latest attempt.
PairMove(j, w) ==
  /\ w.number # 0 /\ jobs[j].status = "RUNNING"
  /\ \/ /\ w.assigned.status = "RUNNING" /\ w.assignedAttempt.status = "RUNNING"
        /\ Unresolved(w.loadedAttempt) => Unresolved(w.assignedAttempt)
     \/ /\ w.assigned.status \in {"SUCCEEDED", "FAILED"}
        /\ w.assignedAttempt.status # "RUNNING" /\ ~Unresolved(w.assignedAttempt)
     \/ /\ w.assigned.status = "SUBMIT_UNKNOWN"
        /\ w.assignedAttempt.status # "RUNNING" /\ Unresolved(w.assignedAttempt)
     \/ /\ w.assigned.status = "QUEUED" /\ jobs[j].count < jobs[j].req.max
        /\ w.assignedAttempt.status # "RUNNING" /\ ~Unresolved(w.assignedAttempt)
        /\ ~Unresolved(w.loadedAttempt)

Moves(j, w, claimer) ==
  /\ j \in DOMAIN jobs /\ Current(j, w)
  /\ (RowMove(j, w) /\ claimer = None) \/ PairMove(j, w)

PendingMoves ==
  \A s \in DOMAIN uow : \A j \in DOMAIN uow[s].writes :
    Moves(j, uow[s].writes[j], uow[s].claimer)

QInv == PendingMoves /\ AttemptsTellTheirJob

\* The part of the invariant about one attempt, for use at a step.
AttemptTells(j, n) ==
  /\ attempts[j][n].status = "RUNNING" <=> Running(j) /\ n = jobs[j].count
  /\ Unresolved(attempts[j][n]) /\ attempts[j][n].status # "RUNNING" =>
       jobs[j].status = "SUBMIT_UNKNOWN"

LEMMA TellsByAttempt ==
  AttemptsTellTheirJob
    <=> \A j \in DOMAIN jobs : \A n \in DOMAIN attempts[j] : AttemptTells(j, n)
BY DEF AttemptsTellTheirJob, AttemptTells

-----------------------------------------------------------------------------
(***************************************************************************)
(* What an operation of the serial queue is about to write.                *)
(***************************************************************************)
LEMMA BeginKeepsQInv ==
  ASSUME Alone', IInv, QInv, NEW s \in Sessions,
         NEW writes, NEW insert, NEW claimer, NEW types,
         Begin(s, writes, insert, claimer, types),
         \A j \in DOMAIN writes : Moves(j, writes[j], claimer)
  PROVE  QInv'
<1> DEFINE u == [writes |-> writes, insert |-> insert, claimer |-> claimer,
                 types |-> types, now |-> clock]
<1>1. /\ jobs' = jobs /\ attempts' = attempts
      /\ uow' = [t \in DOMAIN uow \cup {s} |-> IF t = s THEN u ELSE uow[t]]
  BY DEF Begin, tables
<1>2. u.writes = writes /\ u.claimer = claimer
  OBVIOUS
<1> HIDE DEF u
<1>3. \A t \in DOMAIN uow' : uow'[t] = u
  BY <1>1 DEF Alone
<1>4. \A j, w, c : Moves(j, w, c) => Moves(j, w, c)'
  BY <1>1 DEF Moves, Current, RowMove, PairMove
<1>5. PendingMoves'
  <2> SUFFICES ASSUME NEW t \in DOMAIN uow', NEW j \in DOMAIN uow'[t].writes
               PROVE  Moves(j, uow[t].writes[j], uow[t].claimer)'
    BY DEF PendingMoves
  <2>1. uow'[t].writes = writes /\ uow'[t].claimer = claimer
    BY <1>2, <1>3
  <2>2. Moves(j, writes[j], claimer)'
    BY <1>4, <2>1
  <2> QED BY <2>1, <2>2
<1>6. AttemptsTellTheirJob'
  BY <1>1 DEF QInv, AttemptsTellTheirJob, Running
<1> QED BY <1>5, <1>6 DEF QInv

LEMMA BeginWriteKeepsQInv ==
  ASSUME Alone', IInv, QInv, NEW s \in Sessions, NEW j, NEW w,
         BeginWrite(s, j, w), Moves(j, w, None)
  PROVE  QInv'
<1> DEFINE writes == [i \in {j} |-> w]
<1>1. \A i \in DOMAIN writes : Moves(i, writes[i], None)
  OBVIOUS
<1>2. Begin(s, writes, None, None, {})
  BY DEF BeginWrite, BeginWrites
<1> HIDE DEF writes
<1> QED BY <1>1, <1>2, BeginKeepsQInv

LEMMA UserStepKeepsQInv ==
  ASSUME Alone', IInv, QInv, NEW s \in Sessions, UserStep(s)
  PROVE  QInv'
<1>1. ASSUME NEW r \in Requests, Create(s, r)
      PROVE  QInv'
  <2>1. Begin(s, NoWrites, r, None, {})
    BY <1>1 DEF Create
  <2>2. \A j \in DOMAIN NoWrites : Moves(j, NoWrites[j], None)
    BY DEF NoWrites
  <2> QED BY <2>1, <2>2, BeginKeepsQInv
<1>2. ASSUME NEW j \in DOMAIN jobs, NEW from, NEW to, SetStatus(s, j, from, to),
             \/ from = {"QUEUED"} /\ to = "PAUSED"
             \/ from = {"PAUSED"} /\ to = "QUEUED"
             \/ from = {"QUEUED", "PAUSED"} /\ to = "CANCELLED"
             \/ /\ from = {"FAILED"} /\ to = "QUEUED"
                /\ jobs[j].count < jobs[j].req.max
      PROVE  QInv'
  <2> DEFINE a == [jobs[j] EXCEPT !.status = to]
  <2>1. jobs[j] \in JobRow
    BY DEF IInv, TypeOK
  <2>2. a.status = to
    BY <2>1 DEF JobRow
  <2>3. BeginWrite(s, j, RowWrite(j, a)) /\ jobs[j].status \in from
    BY <1>2 DEF SetStatus
  <2> HIDE DEF a
  <2>4. /\ RowWrite(j, a).loaded = jobs[j] /\ RowWrite(j, a).assigned = a
        /\ RowWrite(j, a).number = 0
    BY DEF RowWrite
  <2>5. Moves(j, RowWrite(j, a), None)
    BY <1>2, <2>2, <2>3, <2>4 DEF Moves, Current, RowMove
  <2> QED BY <2>3, <2>5, BeginWriteKeepsQInv
<1>3. ASSUME NEW j \in DOMAIN jobs,
             Pause(s, j) \/ Resume(s, j) \/ Cancel(s, j) \/ Retry(s, j)
      PROVE  QInv'
  BY <1>2, <1>3 DEF Pause, Resume, Cancel, Retry
<1> QED BY <1>1, <1>3 DEF UserStep

\* A write of a running job and its latest attempt.
LEMMA PairWriteMoves ==
  ASSUME IInv, NEW j \in DOMAIN jobs, LatestNumber(j) # 0, NEW a, NEW b,
         jobs[j].status = "RUNNING",
         \/ /\ a.status = "RUNNING" /\ b.status = "RUNNING"
            /\ Unresolved(Latest(j)) => Unresolved(b)
         \/ /\ a.status \in {"SUCCEEDED", "FAILED"}
            /\ b.status # "RUNNING" /\ ~Unresolved(b)
         \/ a.status = "SUBMIT_UNKNOWN" /\ b.status # "RUNNING" /\ Unresolved(b)
         \/ /\ a.status = "QUEUED" /\ jobs[j].count < jobs[j].req.max
            /\ b.status # "RUNNING" /\ ~Unresolved(b) /\ ~Unresolved(Latest(j))
  PROVE  \A claimer : Moves(j, PairWrite(j, a, b), claimer)
<1> DEFINE w == PairWrite(j, a, b)
<1>1. /\ w.loaded = jobs[j] /\ w.assigned = a /\ w.number = jobs[j].count
      /\ w.loadedAttempt = Latest(j) /\ w.assignedAttempt = b
      /\ w.loadedAttempt = attempts[j][w.number] /\ w.number # 0
  BY LatestIsCount DEF PairWrite, Latest, IInv
<1> HIDE DEF w
<1>2. PairMove(j, w)
  BY <1>1 DEF PairMove
<1>3. \A claimer : Moves(j, w, claimer)
  BY <1>1, <1>2 DEF Moves, Current
<1> QED BY <1>3 DEF w

\* Before an attempt reaches the provider nothing about it is unresolved.
LEMMA RecoveryMoves ==
  ASSUME IInv, DInv, QInv, NEW j \in ExpiredJobs
  PROVE  \A claimer : Moves(j, RecoverExpiredLeases[j], claimer)
<1>1. j \in DOMAIN jobs /\ jobs[j].status = "RUNNING" /\ jobs[j] \in JobRow
  BY DEF ExpiredJobs, LeaseExpired, Running, IInv, TypeOK
<1>2. LatestNumber(j) # 0 /\ Latest(j) \in AttemptRow
  BY <1>1, LatestIsCount DEF IInv, DInv, JobTells, RunsOnceClaimed
<1> DEFINE a == RecoveredJob(j)
           b == RecoveredAttempt(j)
<1>3. RecoverExpiredLeases[j] = PairWrite(j, a, b)
  BY <1>2 DEF RecoverExpiredLeases
<1>4. CASE ExternalPossible(j)
  <2>1. a.status = "SUBMIT_UNKNOWN"
    BY <1>1, <1>4 DEF RecoveredJob, Released, JobRow
  <2>2. /\ b.status = "SUBMIT_UNKNOWN" /\ b.state = "SUBMIT_UNKNOWN" /\ b.external
    BY <1>2, <1>4 DEF RecoveredAttempt, AttemptRow
  <2>3. Unresolved(b)
    BY <2>2 DEF Unresolved, CertainStates
  <2> HIDE DEF a, b
  <2> QED BY <1>1, <1>2, <1>3, <2>1, <2>2, <2>3, PairWriteMoves
<1>5. CASE ~ExternalPossible(j)
  <2>1. /\ a.status \in {"QUEUED", "FAILED"}
        /\ a.status = "QUEUED" => jobs[j].count < jobs[j].req.max
    BY <1>1, <1>5 DEF RecoveredJob, Released, JobRow
  <2>2. ~Latest(j).external
    BY <1>2, <1>5 DEF ExternalPossible
  <2>3. b.status = "LEASE_EXPIRED" /\ b.external = Latest(j).external
    BY <1>2, <1>5 DEF RecoveredAttempt, AttemptRow
  <2>4. ~Unresolved(b) /\ ~Unresolved(Latest(j))
    BY <2>2, <2>3 DEF Unresolved
  <2> HIDE DEF a, b
  <2> QED BY <1>1, <1>2, <1>3, <2>1, <2>3, <2>4, PairWriteMoves
<1> QED BY <1>4, <1>5

LEMMA HeartbeatKeepsQInv ==
  ASSUME Alone', IInv, DInv, QInv, NEW s \in Sessions, NEW j \in DOMAIN jobs,
         NEW w, NEW calls, NEW external, Heartbeat(s, j, w, calls, external)
  PROVE  QInv'
<1> DEFINE attempt == [Latest(j) EXCEPT !.calls = calls]
           leased == [jobs[j] EXCEPT !.expires = clock + LeaseTicks]
           a == IF external THEN [leased EXCEPT !.submitted = TRUE] ELSE leased
           b == IF external
                THEN [attempt EXCEPT !.external = TRUE, !.state = "SUBMIT_UNKNOWN"]
                ELSE attempt
<1>1. /\ jobs[j] \in JobRow /\ Latest(j) \in AttemptRow /\ LatestNumber(j) # 0
      /\ jobs[j].status = "RUNNING" /\ Latest(j).status = "RUNNING"
  BY OwnedTells DEF Heartbeat, OwnedRunning
<1>2. a.status = "RUNNING" /\ b.status = "RUNNING"
  BY <1>1 DEF JobRow, AttemptRow
<1>3. Unresolved(Latest(j)) => Unresolved(b)
  <2>1. CASE external
    <3>1. b.external /\ b.state = "SUBMIT_UNKNOWN"
      BY <1>1, <2>1 DEF AttemptRow
    <3> QED BY <3>1 DEF Unresolved, CertainStates
  <2>2. CASE ~external
    <3>1. b.external = Latest(j).external /\ b.state = Latest(j).state
      BY <1>1, <2>2 DEF AttemptRow
    <3> QED BY <3>1 DEF Unresolved
  <2> QED BY <2>1, <2>2
<1>4. BeginWrite(s, j, PairWrite(j, a, b))
  BY DEF Heartbeat
<1> HIDE DEF a, b
<1> QED BY <1>1, <1>2, <1>3, <1>4, PairWriteMoves, BeginWriteKeepsQInv

LEMMA CompleteKeepsQInv ==
  ASSUME Alone', IInv, DInv, QInv, NEW s \in Sessions, NEW j \in DOMAIN jobs,
         NEW w, NEW calls, NEW operation, NEW entity,
         Complete(s, j, w, calls, operation, entity)
  PROVE  QInv'
<1> DEFINE a == [Released(jobs[j]) EXCEPT !.status = "SUCCEEDED",
                   !.submitted = @ \/ operation, !.uncertain = FALSE,
                   !.result = entity]
           b == [Latest(j) EXCEPT !.status = "SUCCEEDED", !.calls = calls,
                   !.state = IF calls > 0 \/ Latest(j).external
                             THEN "RESPONSE_RECEIVED" ELSE "NOT_STARTED"]
<1>1. /\ jobs[j] \in JobRow /\ Latest(j) \in AttemptRow /\ LatestNumber(j) # 0
      /\ jobs[j].status = "RUNNING" /\ Latest(j).status = "RUNNING"
  BY OwnedTells DEF Complete, OwnedRunning
<1>2. a.status = "SUCCEEDED" /\ b.status = "SUCCEEDED"
  BY <1>1 DEF JobRow, AttemptRow, Released
<1>3. /\ b.external = Latest(j).external
      /\ Latest(j).external => b.state = "RESPONSE_RECEIVED"
  BY <1>1 DEF AttemptRow
<1>4. BeginWrite(s, j, PairWrite(j, a, b))
  BY DEF Complete
<1> HIDE DEF a, b
<1>5. ~Unresolved(b)
  BY <1>3 DEF Unresolved, CertainStates
<1> QED BY <1>1, <1>2, <1>4, <1>5, PairWriteMoves, BeginWriteKeepsQInv

LEMMA FailKeepsQInv ==
  ASSUME Alone', IInv, DInv, QInv, NEW s \in Sessions, NEW j \in DOMAIN jobs,
         NEW w, NEW calls, NEW external, NEW state,
         Fail(s, j, w, calls, external, state)
  PROVE  QInv'
<1> DEFINE a == [Released(jobs[j]) EXCEPT !.status = "FAILED", !.uncertain = FALSE]
           b == [Latest(j) EXCEPT !.status = "FAILED", !.calls = calls,
                                  !.state = state]
<1>1. /\ jobs[j] \in JobRow /\ Latest(j) \in AttemptRow /\ LatestNumber(j) # 0
      /\ jobs[j].status = "RUNNING" /\ Latest(j).status = "RUNNING"
  BY OwnedTells DEF Fail, OwnedRunning
<1>2. a.status = "FAILED" /\ b.status = "FAILED"
  BY <1>1 DEF JobRow, AttemptRow, Released
<1>3. b.external = Latest(j).external /\ b.state = state
  BY <1>1 DEF AttemptRow
<1>4. /\ BeginWrite(s, j, PairWrite(j, a, b))
      /\ Latest(j).external => state \in CertainStates
  BY DEF Fail
<1> HIDE DEF a, b
<1>5. ~Unresolved(b)
  BY <1>3, <1>4 DEF Unresolved
<1> QED BY <1>1, <1>2, <1>4, <1>5, PairWriteMoves, BeginWriteKeepsQInv

LEMMA MarkSubmitUnknownKeepsQInv ==
  ASSUME Alone', IInv, DInv, QInv, NEW s \in Sessions, NEW j \in DOMAIN jobs,
         NEW w, NEW calls, MarkSubmitUnknown(s, j, w, calls)
  PROVE  QInv'
<1> DEFINE a == [Released(jobs[j]) EXCEPT !.status = "SUBMIT_UNKNOWN",
                   !.uncertain = TRUE, !.submitted = TRUE]
           b == [Latest(j) EXCEPT !.status = "SUBMIT_UNKNOWN", !.calls = calls,
                   !.external = TRUE, !.state = "SUBMIT_UNKNOWN"]
<1>1. /\ jobs[j] \in JobRow /\ Latest(j) \in AttemptRow /\ LatestNumber(j) # 0
      /\ jobs[j].status = "RUNNING"
  BY OwnedTells DEF MarkSubmitUnknown, OwnedRunning
<1>2. a.status = "SUBMIT_UNKNOWN" /\ b.status = "SUBMIT_UNKNOWN"
  BY <1>1 DEF JobRow, AttemptRow, Released
<1>3. b.external /\ b.state = "SUBMIT_UNKNOWN"
  BY <1>1 DEF AttemptRow
<1>4. BeginWrite(s, j, PairWrite(j, a, b))
  BY DEF MarkSubmitUnknown
<1> HIDE DEF a, b
<1>5. Unresolved(b)
  BY <1>3 DEF Unresolved, CertainStates
<1> QED BY <1>1, <1>2, <1>4, <1>5, PairWriteMoves, BeginWriteKeepsQInv

LEMMA WorkerStepKeepsQInv ==
  ASSUME Alone', IInv, DInv, QInv, NEW s \in Sessions, WorkerStep(s)
  PROVE  QInv'
<1>0. \A claimer : \A j \in DOMAIN RecoverExpiredLeases :
        Moves(j, RecoverExpiredLeases[j], claimer)
  <2>1. DOMAIN RecoverExpiredLeases = ExpiredJobs
    BY DEF RecoverExpiredLeases
  <2> QED BY <2>1, RecoveryMoves
<1>1. ASSUME Recover(s) PROVE QInv'
  <2>1. Begin(s, RecoverExpiredLeases, None, None, {})
    BY <1>1 DEF Recover, BeginWrites
  <2> QED BY <1>0, <2>1, BeginKeepsQInv
<1>2. ASSUME NEW w \in Workers, NEW types \in ClaimFilters, Claim(s, w, types)
      PROVE  QInv'
  <2>1. Begin(s, RecoverExpiredLeases, None, w, types)
    BY <1>2 DEF Claim
  <2> QED BY <1>0, <2>1, BeginKeepsQInv
<1>3. ASSUME NEW w \in Workers, NEW j \in DOMAIN jobs, NEW calls \in 0..MaxCalls,
             \/ \E e \in BOOLEAN : Heartbeat(s, j, w, calls, e)
             \/ \E o, e \in BOOLEAN : Complete(s, j, w, calls, o, e)
             \/ \E state \in FailStates : Fail(s, j, w, calls, FALSE, state)
             \/ MarkSubmitUnknown(s, j, w, calls)
      PROVE  QInv'
  BY <1>3, HeartbeatKeepsQInv, CompleteKeepsQInv, FailKeepsQInv,
     MarkSubmitUnknownKeepsQInv
<1> QED BY <1>1, <1>2, <1>3 DEF WorkerStep

-----------------------------------------------------------------------------
(***************************************************************************)
(* What a commit of the serial queue does to a job: it claims it, writes   *)
(* what was assigned to it, or leaves it alone.                            *)
(***************************************************************************)
IsClaimed(j) ==
  /\ jobs[j].status = "QUEUED" /\ jobs[j].count < jobs[j].req.max
  /\ jobs'[j].status = "RUNNING" /\ jobs'[j].count = jobs[j].count + 1
  /\ DOMAIN attempts'[j] = 1..(jobs[j].count + 1)
  /\ \A n \in DOMAIN attempts[j] : attempts'[j][n] = attempts[j][n]
  /\ attempts'[j][jobs[j].count + 1] = NewAttempt

IsWritten(j, w) ==
  /\ Current(j, w) /\ (RowMove(j, w) \/ PairMove(j, w))
  /\ jobs'[j].status = w.assigned.status /\ jobs'[j].count = jobs[j].count
  /\ DOMAIN attempts'[j] = DOMAIN attempts[j]
  /\ \A n \in DOMAIN attempts[j] :
       IF n = w.number
       THEN /\ attempts'[j][n].status = w.assignedAttempt.status
            /\ Unresolved(attempts'[j][n]) <=> Unresolved(w.assignedAttempt)
       ELSE attempts'[j][n] = attempts[j][n]

IsLeft(j) ==
  /\ jobs'[j] = jobs[j] /\ DOMAIN attempts'[j] = DOMAIN attempts[j]
  /\ \A n \in DOMAIN attempts[j] : attempts'[j][n] = attempts[j][n]

\* A flush over the row that was loaded writes what was assigned.
LEMMA FlushOverLoaded ==
  ASSUME NEW row \in AttemptRow, NEW b \in AttemptRow
  PROVE  /\ FlushAttempt(row, row, b).status = b.status
         /\ Unresolved(FlushAttempt(row, row, b)) <=> Unresolved(b)
<1>1. /\ FlushAttempt(row, row, b).status = Net(row.status, row.status, b.status)
      /\ FlushAttempt(row, row, b).state = Net(row.state, row.state, b.state)
      /\ FlushAttempt(row, row, b).external
           = Net(row.external, row.external, b.external)
  BY DEF FlushAttempt, AttemptRow
<1>2. \A x, y : Net(x, x, y) = y
  BY DEF Net
<1>3. /\ FlushAttempt(row, row, b).status = b.status
      /\ FlushAttempt(row, row, b).state = b.state
  BY <1>1, <1>2
<1>4. FlushAttempt(row, row, b).external <=> b.external
  BY Zenon, <1>1, <1>2
<1> QED BY <1>3, <1>4 DEF Unresolved

LEMMA CommitEffect ==
  ASSUME IInv, DInv, QInv, NEW s \in DOMAIN uow, Commit(s), NEW j \in DOMAIN jobs
  PROVE  /\ jobs'[j].req = jobs[j].req
         /\ \/ IsClaimed(j) \/ IsLeft(j)
            \/ \E w \in Write : IsWritten(j, w)
<1> DEFINE u == uow[s]
<1>1. /\ jobs' = FlushedJobs(u) /\ jobs[j] \in JobRow
      /\ DOMAIN attempts[j] = 1..jobs[j].count /\ jobs[j].count \in Nat
      /\ DOMAIN attempts'[j] = 1..jobs'[j].count
      /\ \A n \in DOMAIN attempts[j] : attempts'[j][n] = FlushedAttempt(u, j, n)
      /\ \A n \in DOMAIN attempts[j] : attempts[j][n] \in AttemptRow
  BY CommittedAttempts DEF Commit, IInv, TypeOK, JobRow
<1>2. j \in DOMAIN u.writes => Moves(j, u.writes[j], u.claimer)
  BY DEF QInv, PendingMoves
<1>3. CASE j \in Candidates(u)
  <2>1. /\ jobs[j].status = "QUEUED" /\ u.claimer # None
        /\ jobs'[j].status = "RUNNING" /\ jobs'[j].count = jobs[j].count + 1
        /\ attempts'[j][jobs[j].count + 1] = NewAttempt
    BY <1>3, CommittedJob, CommittedAttempts
  <2>2. j \notin DOMAIN u.writes
    BY <1>2, <2>1 DEF Moves, PairMove
  <2>3. \A n \in DOMAIN attempts[j] : attempts'[j][n] = attempts[j][n]
    BY <1>1, <2>2 DEF FlushedAttempt
  <2>4. jobs[j].count < jobs[j].req.max
    BY <1>3 DEF Candidates, Eligible
  <2>5. IsClaimed(j)
    BY <1>1, <2>1, <2>3, <2>4 DEF IsClaimed
  <2>6. jobs'[j] = ClaimedJob(jobs[j], u)
    BY <1>1, <1>3 DEF FlushedJobs
  <2>7. ClaimedJob(jobs[j], u).req = jobs[j].req
    BY <1>1 DEF ClaimedJob, JobRow
  <2> QED BY <2>5, <2>6, <2>7
<1>4. CASE j \notin Candidates(u) /\ j \in DOMAIN u.writes
  <2> DEFINE w == u.writes[j]
  <2>1. /\ jobs'[j] = FlushJob(jobs[j], w.loaded, w.assigned)
        /\ jobs'[j].count = jobs[j].count
    BY <1>4, CommittedJob
  <2>2. /\ w.loaded \in JobRow /\ w.assigned \in JobRow /\ w \in Write
        /\ w.loadedAttempt \in AttemptRow /\ w.assignedAttempt \in AttemptRow
    BY <1>4, PendingFacts DEF IInv, TypeOK, UnitOfWork
  <2>3. /\ Current(j, w) /\ (RowMove(j, w) \/ PairMove(j, w))
    BY <1>2, <1>4 DEF Moves
  <2>4. \A n \in DOMAIN attempts[j] :
          attempts'[j][n] = IF w.number = n
                            THEN FlushAttempt(attempts[j][n], w.loadedAttempt,
                                              w.assignedAttempt)
                            ELSE attempts[j][n]
    BY <1>1, <1>4 DEF FlushedAttempt
  <2> HIDE DEF w
  <2>5. jobs'[j].req = jobs[j].req
    BY <1>1, <2>1, <2>2, FlushJobType
  <2>6. jobs'[j].status = w.assigned.status
    <3>1. jobs'[j].status = Net(jobs[j].status, w.loaded.status, w.assigned.status)
      BY <1>1, <2>1, FlushJobFields
    <3> QED BY <2>3, <3>1 DEF Current, Net
  <2>7. ASSUME NEW n \in DOMAIN attempts[j], n = w.number
        PROVE  /\ attempts'[j][n].status = w.assignedAttempt.status
               /\ Unresolved(attempts'[j][n]) <=> Unresolved(w.assignedAttempt)
    <3>1. attempts[j][n] \in AttemptRow /\ w.loadedAttempt = attempts[j][n]
      BY <1>1, <2>3, <2>7 DEF Current
    <3>2. attempts'[j][n] = FlushAttempt(attempts[j][n], attempts[j][n],
                                         w.assignedAttempt)
      BY <2>4, <2>7, <3>1
    <3> QED BY <2>2, <3>1, <3>2, FlushOverLoaded
  <2>8. DOMAIN attempts'[j] = DOMAIN attempts[j]
    BY <1>1, <2>1
  <2>9. IsWritten(j, w)
    BY <2>1, <2>3, <2>4, <2>6, <2>7, <2>8 DEF IsWritten
  <2> QED BY <2>2, <2>5, <2>9
<1>5. CASE j \notin Candidates(u) /\ j \notin DOMAIN u.writes
  <2>1. jobs'[j] = jobs[j]
    BY <1>5, CommittedJob
  <2>2. \A n \in DOMAIN attempts[j] : attempts'[j][n] = attempts[j][n]
    BY <1>1, <1>5 DEF FlushedAttempt
  <2> QED BY <1>1, <2>1, <2>2 DEF IsLeft
<1> QED BY <1>3, <1>4, <1>5

\* What the attempts of a job tell before a step.
LEMMA NothingUnresolved ==
  ASSUME QInv, NEW j \in DOMAIN jobs, NEW n \in DOMAIN attempts[j],
         jobs[j].status # "SUBMIT_UNKNOWN",
         jobs[j].status # "RUNNING" \/ n # jobs[j].count
  PROVE  attempts[j][n].status # "RUNNING" /\ ~Unresolved(attempts[j][n])
BY DEF QInv, AttemptsTellTheirJob, Running

LEMMA CommitTells ==
  ASSUME IInv, DInv, QInv, NEW s \in DOMAIN uow, Commit(s), NEW j \in DOMAIN jobs,
         NEW n \in DOMAIN attempts'[j]
  PROVE  AttemptTells(j, n)'
<1>0. /\ jobs[j].count \in Nat /\ DOMAIN attempts[j] = 1..jobs[j].count
      /\ \A m \in DOMAIN attempts[j] : AttemptTells(j, m)
  BY TellsByAttempt DEF IInv, TypeOK, JobRow, AttemptsNumbered, QInv
<1>1. CASE IsClaimed(j)
  <2>1. CASE n = jobs[j].count + 1
    <3>1. attempts'[j][n].status = "RUNNING"
      BY <1>1, <2>1 DEF IsClaimed, NewAttempt
    <3> QED BY <1>1, <2>1, <3>1 DEF IsClaimed, AttemptTells, Running
  <2>2. CASE n # jobs[j].count + 1
    <3>1. n \in DOMAIN attempts[j] /\ attempts'[j][n] = attempts[j][n]
      BY <1>0, <1>1, <2>2 DEF IsClaimed
    <3>2. attempts[j][n].status # "RUNNING" /\ ~Unresolved(attempts[j][n])
      BY <1>1, <3>1, NothingUnresolved DEF IsClaimed
    <3> QED BY <1>1, <2>2, <3>1, <3>2 DEF IsClaimed, AttemptTells, Running
  <2> QED BY <2>1, <2>2
<1>2. ASSUME NEW w \in Write, IsWritten(j, w) PROVE AttemptTells(j, n)'
  <2>0. n \in DOMAIN attempts[j] /\ jobs'[j].count = jobs[j].count
        /\ jobs'[j].status = w.assigned.status /\ jobs[j].status # "SUBMIT_UNKNOWN"
    BY <1>2 DEF IsWritten, RowMove, PairMove
  <2>1. CASE RowMove(j, w)
    <3>1. n # w.number
      BY <1>0, <2>0, <2>1 DEF RowMove
    <3>2. attempts'[j][n] = attempts[j][n] /\ jobs[j].status # "RUNNING"
          /\ w.assigned.status # "RUNNING"
      BY <1>2, <2>0, <2>1, <3>1 DEF IsWritten, RowMove
    <3>3. attempts[j][n].status # "RUNNING" /\ ~Unresolved(attempts[j][n])
      BY <2>0, <3>2, NothingUnresolved
    <3> QED BY <2>0, <3>2, <3>3 DEF AttemptTells, Running
  <2>2. CASE PairMove(j, w) /\ n = w.number
    <3>1. /\ attempts'[j][n].status = w.assignedAttempt.status
          /\ Unresolved(attempts'[j][n]) <=> Unresolved(w.assignedAttempt)
          /\ n = jobs'[j].count
      BY <1>2, <2>0, <2>2 DEF IsWritten, Current, PairMove
    <3> QED BY <2>0, <2>2, <3>1 DEF PairMove, AttemptTells, Running
  <2>3. CASE PairMove(j, w) /\ n # w.number
    <3>1. attempts'[j][n] = attempts[j][n] /\ n # jobs[j].count
      BY <1>2, <2>0, <2>3 DEF IsWritten, Current, PairMove
    <3>2. attempts[j][n].status # "RUNNING" /\ ~Unresolved(attempts[j][n])
      BY <2>0, <3>1, NothingUnresolved
    <3> QED BY <2>0, <3>1, <3>2 DEF AttemptTells
  <2> QED BY <1>2, <2>1, <2>2, <2>3 DEF IsWritten
<1>3. CASE IsLeft(j)
  <2>1. n \in DOMAIN attempts[j] /\ attempts'[j][n] = attempts[j][n]
    BY <1>3 DEF IsLeft
  <2> QED BY <1>0, <1>3, <2>1 DEF IsLeft, AttemptTells, Running
<1> QED BY <1>1, <1>2, <1>3, CommitEffect

\* A session that is closed was the only one open.
LEMMA CloseLeavesNone ==
  ASSUME Alone, NEW s \in DOMAIN uow, Close(s)
  PROVE  PendingMoves'
<1>1. DOMAIN uow' = DOMAIN uow \ {s}
  BY DEF Close
<1>2. DOMAIN uow' = {}
  BY <1>1 DEF Alone
<1> QED BY <1>2 DEF PendingMoves

LEMMA InitQInv == Init => QInv
BY DEF Init, QInv, PendingMoves, AttemptsTellTheirJob

LEMMA NextKeepsQInv ==
  ASSUME Alone, Alone', IInv, DInv, QInv, [Next]_vars
  PROVE  QInv'
<1>1. ASSUME NEW s \in Sessions, UserStep(s) \/ WorkerStep(s) PROVE QInv'
  BY <1>1, UserStepKeepsQInv, WorkerStepKeepsQInv
<1>2. ASSUME NEW s \in DOMAIN uow, Commit(s) PROVE QInv'
  <2>1. PendingMoves'
    BY <1>2, CloseLeavesNone DEF Commit
  <2>2. DOMAIN jobs' = DOMAIN jobs
    BY <1>2 DEF Commit, FlushedJobs
  <2>3. \A j \in DOMAIN jobs' : \A n \in DOMAIN attempts'[j] : AttemptTells(j, n)'
    BY <1>2, <2>2, CommitTells
  <2>4. AttemptsTellTheirJob'
    BY <2>3 DEF AttemptsTellTheirJob, AttemptTells
  <2> QED BY <2>1, <2>4 DEF QInv
<1>3. ASSUME NEW s \in DOMAIN uow, CommitInsert(s) PROVE QInv'
  <2>1. PendingMoves'
    BY <1>3, CloseLeavesNone DEF CommitInsert
  <2>2. PICK n \in JobIds \ DOMAIN jobs :
          /\ jobs' = InsertedJobs(n, uow[s].insert)
          /\ attempts' = [j \in DOMAIN attempts \cup {n} |->
                            IF j = n THEN <<>> ELSE attempts[j]]
    BY <1>3 DEF CommitInsert
  <2>3. DOMAIN attempts = DOMAIN jobs /\ DOMAIN jobs' = DOMAIN jobs \cup {n}
    BY <2>2 DEF IInv, TypeOK, InsertedJobs
  <2>4. ASSUME NEW j \in DOMAIN jobs', j # n
        PROVE  j \in DOMAIN jobs /\ jobs'[j] = jobs[j] /\ attempts'[j] = attempts[j]
    BY <2>2, <2>3, <2>4 DEF InsertedJobs
  <2>5. DOMAIN attempts'[n] = {}
    BY <2>2
  <2>6. AttemptsTellTheirJob'
    BY <2>4, <2>5 DEF QInv, AttemptsTellTheirJob, Running
  <2> QED BY <2>1, <2>6 DEF QInv
<1>4. ASSUME NEW s \in DOMAIN uow, Rollback(s) PROVE QInv'
  <2>1. PendingMoves' /\ UNCHANGED tables
    BY <1>4, CloseLeavesNone DEF Rollback
  <2> QED BY <2>1 DEF QInv, AttemptsTellTheirJob, Running, tables
<1>5. CASE Tick \/ UNCHANGED vars
  <2>1. UNCHANGED <<jobs, attempts, uow>>
    BY <1>5 DEF Tick, vars, tables
  <2> QED BY <2>1 DEF QInv, PendingMoves, Moves, Current, RowMove, PairMove,
       AttemptsTellTheirJob, Running
<1> QED BY <1>1, <1>2, <1>3, <1>4, <1>5 DEF Next, CloseStep, IInv, TypeOK

\* The other steps write no table.
LEMMA TablesChangeInCommits ==
  ASSUME [Next]_vars
  PROVE  \/ \E s \in DOMAIN uow : Commit(s) \/ CommitInsert(s)
         \/ UNCHANGED tables
<1>1. ASSUME NEW s, NEW writes, NEW insert, NEW claimer, NEW types,
             Begin(s, writes, insert, claimer, types)
      PROVE  UNCHANGED tables
  BY <1>1 DEF Begin
<1>2. ASSUME NEW s, UserStep(s) PROVE UNCHANGED tables
  BY <1>1, <1>2
     DEF UserStep, Create, Pause, Resume, Cancel, Retry, SetStatus, BeginWrite,
         BeginWrites
<1>3. ASSUME NEW s, WorkerStep(s) PROVE UNCHANGED tables
  <2>1. ASSUME NEW j, NEW write, BeginWrite(s, j, write) PROVE UNCHANGED tables
    BY <1>1, <2>1 DEF BeginWrite, BeginWrites
  <2>2. CASE Recover(s)
    BY <1>1, <2>2 DEF Recover, BeginWrites
  <2>3. ASSUME NEW w \in Workers, NEW types \in ClaimFilters, Claim(s, w, types)
        PROVE  UNCHANGED tables
    BY <1>1, <2>3 DEF Claim
  <2>4. ASSUME NEW j, NEW w, NEW calls, NEW e, Heartbeat(s, j, w, calls, e)
        PROVE  UNCHANGED tables
    BY <2>1, <2>4 DEF Heartbeat
  <2>5. ASSUME NEW j, NEW w, NEW calls, NEW o, NEW e, Complete(s, j, w, calls, o, e)
        PROVE  UNCHANGED tables
    BY <2>1, <2>5 DEF Complete
  <2>6. ASSUME NEW j, NEW w, NEW calls, NEW state, Fail(s, j, w, calls, FALSE, state)
        PROVE  UNCHANGED tables
    BY <2>1, <2>6 DEF Fail
  <2>7. ASSUME NEW j, NEW w, NEW calls, MarkSubmitUnknown(s, j, w, calls)
        PROVE  UNCHANGED tables
    BY <2>1, <2>7 DEF MarkSubmitUnknown
  <2> QED BY <1>3, <2>2, <2>3, <2>4, <2>5, <2>6, <2>7 DEF WorkerStep
<1>4. ASSUME NEW s, Rollback(s) PROVE UNCHANGED tables
  BY <1>4 DEF Rollback
<1>5. Tick \/ UNCHANGED vars => UNCHANGED tables
  BY DEF Tick, vars, tables
<1> QED BY <1>2, <1>3, <1>4, <1>5 DEF Next, CloseStep

\* An attempt that may have submitted and has no certain outcome is the last one.
UnresolvedIsLatest ==
  \A j \in DOMAIN jobs : \A n \in DOMAIN attempts[j] :
    Unresolved(attempts[j][n]) => n = jobs[j].count

LEMMA CommitKeepsUnresolvedLast ==
  ASSUME IInv, DInv, QInv, UnresolvedIsLatest, NEW s \in DOMAIN uow, Commit(s),
         NEW j \in DOMAIN jobs, NEW n \in DOMAIN attempts'[j],
         Unresolved(attempts'[j][n])
  PROVE  n = jobs'[j].count
<1>1. \A m \in DOMAIN attempts[j] : Unresolved(attempts[j][m]) => m = jobs[j].count
  BY DEF UnresolvedIsLatest
<1>2. CASE IsClaimed(j)
  <2> SUFFICES ASSUME n # jobs[j].count + 1 PROVE FALSE
    BY <1>2 DEF IsClaimed
  <2>1. n \in DOMAIN attempts[j] /\ attempts'[j][n] = attempts[j][n]
    <3>1. DOMAIN attempts[j] = 1..jobs[j].count /\ jobs[j].count \in Nat
      BY DEF IInv, TypeOK, JobRow, AttemptsNumbered
    <3> QED BY <1>2, <3>1 DEF IsClaimed
  <2>2. ~Unresolved(attempts[j][n])
    BY <1>2, <2>1, NothingUnresolved DEF IsClaimed
  <2> QED BY <2>1, <2>2
<1>3. ASSUME NEW w \in Write, IsWritten(j, w) PROVE n = jobs'[j].count
  <2>1. n \in DOMAIN attempts[j] /\ jobs'[j].count = jobs[j].count
    BY <1>3 DEF IsWritten
  <2>2. CASE n = w.number
    <3>1. w.number # 0
      BY <2>1, <2>2 DEF IInv, TypeOK
    <3> QED BY <1>3, <2>1, <2>2, <3>1 DEF IsWritten, Current
  <2>3. CASE n # w.number
    BY <1>1, <1>3, <2>1, <2>3 DEF IsWritten
  <2> QED BY <2>2, <2>3
<1>4. CASE IsLeft(j)
  BY <1>1, <1>4 DEF IsLeft
<1> QED BY <1>2, <1>3, <1>4, CommitEffect

LEMMA NextKeepsUnresolvedLast ==
  ASSUME IInv, DInv, QInv, UnresolvedIsLatest, [Next]_vars
  PROVE  UnresolvedIsLatest'
<1>1. ASSUME NEW s \in DOMAIN uow, Commit(s) PROVE UnresolvedIsLatest'
  <2>1. DOMAIN jobs' = DOMAIN jobs
    BY <1>1 DEF Commit, FlushedJobs
  <2> QED BY <1>1, <2>1, CommitKeepsUnresolvedLast DEF UnresolvedIsLatest, Unresolved
<1>2. ASSUME NEW s \in DOMAIN uow, CommitInsert(s) PROVE UnresolvedIsLatest'
  <2>1. PICK n \in JobIds \ DOMAIN jobs :
          /\ jobs' = InsertedJobs(n, uow[s].insert)
          /\ attempts' = [j \in DOMAIN attempts \cup {n} |->
                            IF j = n THEN <<>> ELSE attempts[j]]
    BY <1>2 DEF CommitInsert
  <2>2. ASSUME NEW j \in DOMAIN jobs', j # n
        PROVE  j \in DOMAIN jobs /\ jobs'[j] = jobs[j] /\ attempts'[j] = attempts[j]
    BY <2>1, <2>2 DEF InsertedJobs, IInv, TypeOK
  <2>3. DOMAIN attempts'[n] = {}
    BY <2>1
  <2> QED BY <2>2, <2>3 DEF UnresolvedIsLatest, Unresolved
<1>3. CASE UNCHANGED tables
  BY <1>3 DEF tables, UnresolvedIsLatest, Unresolved
<1> QED BY <1>1, <1>2, <1>3, TablesChangeInCommits

\* What the serial queue keeps, whoever uses it.
SerialInv == IInv /\ DInv /\ QInv /\ UnresolvedIsLatest

LEMMA InitSerialInv == Init => SerialInv
<1>1. Init => UnresolvedIsLatest
  BY DEF Init, UnresolvedIsLatest
<1> QED BY <1>1, InitIInv, InitDInv, InitQInv DEF SerialInv

LEMMA NextKeepsSerialInv ==
  SerialInv /\ Alone /\ Alone' /\ [Next]_vars => SerialInv'
BY NextKeepsIInv, NextKeepsDInv, NextKeepsQInv, NextKeepsUnresolvedLast DEF SerialInv

LEMMA OneSessionIsAlone == OneSession /\ IInv => Alone
BY DEF OneSession, Alone, IInv, TypeOK

\* With one session the attempts of a job tell what it is: the latest runs as
\* long as the job does, no other runs, and an attempt that may have submitted
\* with no certain outcome leaves the job in doubt.
THEOREM SerialAttemptsTell == OneSession => (Spec => []AttemptsTellTheirJob)
<1> SUFFICES ASSUME OneSession PROVE Spec => []AttemptsTellTheirJob
  OBVIOUS
<1>1. Init => SerialInv
  BY InitSerialInv
<1>2. IInv => Alone
  BY OneSessionIsAlone
<1>3. SerialInv /\ Alone /\ Alone' /\ [Next]_vars => SerialInv'
  BY NextKeepsSerialInv
<1>4. SerialInv => AttemptsTellTheirJob
  BY DEF SerialInv, QInv
<1> QED BY <1>1, <1>2, <1>3, <1>4, Invariance, PTL DEF Spec

-----------------------------------------------------------------------------
(***************************************************************************)
(* The serial queue implements the lifecycle of its jobs.  The three       *)
(* operators below are what the refinement mapping gives job j; a begin,   *)
(* a rollback and the clock map to a stutter, a commit to one step of each *)
(* job it touches.                                                         *)
(***************************************************************************)
JobPhase(j) == IF j \in DOMAIN jobs THEN PhaseOf(jobs[j].status) ELSE "absent"
JobRemaining(j) ==
  IF j \in DOMAIN jobs THEN jobs[j].req.max - jobs[j].count ELSE 0
InDoubt(j) ==
  j \in DOMAIN jobs /\ \E n \in DOMAIN attempts[j] : Unresolved(attempts[j][n])

LEMMA MoveMaps ==
  ASSUME NEW j \in JobIds, NEW from, NEW to, JobPhase(j) \in from, JobPhase(j)' = to
  PROVE  Lifecycle!Move(j, from, to)
BY DEF Lifecycle!Move, JobPhase

LEMMA KeepMaps ==
  ASSUME NEW j \in JobIds, JobRemaining(j)' = JobRemaining(j)
  PROVE  Lifecycle!Keep(j)
BY DEF Lifecycle!Keep, JobRemaining

LEMMA StutterMaps ==
  ASSUME NEW j \in JobIds, JobPhase(j)' = JobPhase(j),
         JobRemaining(j)' = JobRemaining(j), InDoubt(j)' <=> InDoubt(j)
  PROVE  UNCHANGED Lifecycle!job(j)
BY Zenon DEF JobPhase, JobRemaining, InDoubt, Lifecycle!job

\* Moves that keep the attempts that remain and leave no doubt.
LEMMA CertainMoveMaps ==
  ASSUME NEW j \in JobIds, ~InDoubt(j)', JobRemaining(j)' = JobRemaining(j),
         \/ JobPhase(j) = "waiting" /\ JobPhase(j)' \in {"held", "cancelled"}
         \/ JobPhase(j) = "held" /\ JobPhase(j)' \in {"waiting", "cancelled"}
         \/ JobPhase(j) = "working" /\ JobPhase(j)' \in {"succeeded", "failed"}
         \/ /\ JobPhase(j) \in {"working", "failed"} /\ JobPhase(j)' = "waiting"
            /\ ~InDoubt(j) /\ JobRemaining(j) > 0
  PROVE  Lifecycle!Step(j)
<1>1. Lifecycle!Keep(j)
  BY KeepMaps
<1>2. CASE JobPhase(j) = "waiting" /\ JobPhase(j)' = "held"
  <2>1. Lifecycle!Move(j, {"waiting"}, "held")
    BY <1>2, MoveMaps
  <2>2. Lifecycle!Hold(j)
    BY Zenon, <1>1, <2>1 DEF Lifecycle!Hold, InDoubt
  <2> QED BY <2>2 DEF Lifecycle!Step
<1>3. CASE JobPhase(j) = "held" /\ JobPhase(j)' = "waiting"
  <2>1. Lifecycle!Move(j, {"held"}, "waiting")
    BY <1>3, MoveMaps
  <2>2. Lifecycle!Release(j)
    BY Zenon, <1>1, <2>1 DEF Lifecycle!Release, InDoubt
  <2> QED BY <2>2 DEF Lifecycle!Step
<1>4. CASE JobPhase(j) \in {"waiting", "held"} /\ JobPhase(j)' = "cancelled"
  <2>1. Lifecycle!Move(j, {"waiting", "held"}, "cancelled")
    BY <1>4, MoveMaps
  <2>2. Lifecycle!Withdraw(j)
    BY Zenon, <1>1, <2>1 DEF Lifecycle!Withdraw, InDoubt
  <2> QED BY <2>2 DEF Lifecycle!Step
<1>5. CASE JobPhase(j) = "working" /\ JobPhase(j)' = "succeeded"
  <2>1. Lifecycle!Move(j, {"working"}, "succeeded")
    BY <1>5, MoveMaps
  <2>2. Lifecycle!Succeed(j)
    BY Zenon, <1>1, <2>1 DEF Lifecycle!Succeed, InDoubt
  <2> QED BY <2>2 DEF Lifecycle!Step
<1>6. CASE JobPhase(j) = "working" /\ JobPhase(j)' = "failed"
  <2>1. Lifecycle!Move(j, {"working"}, "failed")
    BY <1>6, MoveMaps
  <2>2. Lifecycle!FailJob(j)
    BY Zenon, <1>1, <2>1 DEF Lifecycle!FailJob, InDoubt
  <2> QED BY <2>2 DEF Lifecycle!Step
<1>7. CASE /\ JobPhase(j) = "working" /\ JobPhase(j)' = "waiting"
           /\ ~InDoubt(j) /\ JobRemaining(j) > 0
  <2>1. Lifecycle!Move(j, {"working"}, "waiting")
    BY <1>7, MoveMaps
  <2>2. Lifecycle!Requeue(j)
    BY Zenon, <1>1, <1>7, <2>1 DEF Lifecycle!Requeue, InDoubt, JobRemaining
  <2> QED BY <2>2 DEF Lifecycle!Step
<1>8. CASE /\ JobPhase(j) = "failed" /\ JobPhase(j)' = "waiting"
           /\ ~InDoubt(j) /\ JobRemaining(j) > 0
  <2>1. Lifecycle!Move(j, {"failed"}, "waiting")
    BY <1>8, MoveMaps
  <2>2. Lifecycle!Again(j)
    BY Zenon, <1>1, <1>8, <2>1 DEF Lifecycle!Again, InDoubt, JobRemaining
  <2> QED BY <2>2 DEF Lifecycle!Step
<1> QED BY <1>2, <1>3, <1>4, <1>5, <1>6, <1>7, <1>8

\* A claim, and the two moves that leave the job in doubt.
LEMMA StartMaps ==
  ASSUME NEW j \in JobIds, ~InDoubt(j)', JobRemaining(j) > 0,
         JobRemaining(j)' = JobRemaining(j) - 1,
         JobPhase(j) = "waiting", JobPhase(j)' = "working"
  PROVE  Lifecycle!Step(j)
<1>1. Lifecycle!Move(j, {"waiting"}, "working")
  BY MoveMaps
<1>2. Lifecycle!Start(j)
  BY Zenon, <1>1 DEF Lifecycle!Start, InDoubt, JobRemaining
<1> QED BY <1>2 DEF Lifecycle!Step

LEMMA DoubtMoveMaps ==
  ASSUME NEW j \in JobIds, InDoubt(j)', JobRemaining(j)' = JobRemaining(j),
         JobPhase(j) = "working", JobPhase(j)' \in {"working", "unknown"}
  PROVE  Lifecycle!Step(j)
<1>1. Lifecycle!Keep(j)
  BY KeepMaps
<1>2. CASE JobPhase(j)' = "working"
  <2>1. Lifecycle!Move(j, {"working"}, "working")
    BY <1>2, MoveMaps
  <2>2. Lifecycle!Expose(j)
    BY Zenon, <1>1, <2>1 DEF Lifecycle!Expose, InDoubt
  <2> QED BY <2>2 DEF Lifecycle!Step
<1>3. CASE JobPhase(j)' = "unknown"
  <2>1. Lifecycle!Move(j, {"working"}, "unknown")
    BY <1>3, MoveMaps
  <2>2. Lifecycle!GiveUp(j)
    BY Zenon, <1>1, <2>1 DEF Lifecycle!GiveUp, InDoubt
  <2> QED BY <2>2 DEF Lifecycle!Step
<1> QED BY <1>2, <1>3

LEMMA SubmitMaps ==
  ASSUME NEW j \in JobIds, ~InDoubt(j)', JobRemaining(j)' \in {r.max : r \in Requests},
         JobPhase(j) = "absent", JobPhase(j)' = "waiting"
  PROVE  Lifecycle!Step(j)
<1>1. Lifecycle!Move(j, {"absent"}, "waiting")
  BY MoveMaps
<1>2. Lifecycle!Submit(j)
  BY Zenon, <1>1 DEF Lifecycle!Submit, InDoubt, JobRemaining
<1> QED BY <1>2 DEF Lifecycle!Step

LEMMA CommitMaps ==
  ASSUME IInv, DInv, QInv, NEW s \in DOMAIN uow, Commit(s), NEW j \in JobIds
  PROVE  Lifecycle!Step(j) \/ UNCHANGED Lifecycle!job(j)
<1>0. DOMAIN jobs' = DOMAIN jobs
  BY DEF Commit, FlushedJobs
<1>1. CASE j \notin DOMAIN jobs
  <2>1. /\ JobPhase(j)' = JobPhase(j) /\ JobRemaining(j)' = JobRemaining(j)
        /\ ~InDoubt(j)' /\ ~InDoubt(j)
    BY <1>0, <1>1 DEF JobPhase, JobRemaining, InDoubt
  <2> QED BY <2>1, StutterMaps
<1>2. CASE j \in DOMAIN jobs
  <2>1. /\ jobs[j].count \in Nat /\ jobs[j].req.max \in Nat
        /\ DOMAIN attempts[j] = 1..jobs[j].count
        /\ jobs[j].status \in JobStatus
    BY <1>2, RequestsAssumption DEF IInv, TypeOK, JobRow, AttemptsNumbered
  <2>2. jobs'[j].req = jobs[j].req
    BY <1>2, CommitEffect
  <2>3. /\ JobPhase(j) = PhaseOf(jobs[j].status)
        /\ JobPhase(j)' = PhaseOf(jobs'[j].status)
        /\ JobRemaining(j) = jobs[j].req.max - jobs[j].count
        /\ JobRemaining(j)' = jobs[j].req.max - jobs'[j].count
    BY <1>0, <1>2, <2>2 DEF JobPhase, JobRemaining, PhaseOf
  <2>4. CASE IsClaimed(j)
    <3>1. JobPhase(j) = "waiting" /\ JobPhase(j)' = "working"
      BY <2>3, <2>4 DEF IsClaimed, PhaseOf
    <3>2. JobRemaining(j) > 0 /\ JobRemaining(j)' = JobRemaining(j) - 1
      BY <2>1, <2>3, <2>4 DEF IsClaimed
    <3>3. ~InDoubt(j)'
      <4> SUFFICES ASSUME NEW n \in DOMAIN attempts'[j]
                   PROVE  ~Unresolved(attempts'[j][n])
        BY DEF InDoubt, Unresolved
      <4>1. CASE n = jobs[j].count + 1
        BY <2>4, <4>1 DEF IsClaimed, NewAttempt, Unresolved
      <4>2. CASE n # jobs[j].count + 1
        <5>1. n \in DOMAIN attempts[j] /\ attempts'[j][n] = attempts[j][n]
          BY <2>1, <2>4, <4>2 DEF IsClaimed
        <5> QED BY <1>2, <2>4, <5>1, NothingUnresolved DEF IsClaimed
      <4> QED BY <4>1, <4>2
    <3> QED BY <3>1, <3>2, <3>3, StartMaps
  <2>5. ASSUME NEW w \in Write, IsWritten(j, w)
        PROVE  Lifecycle!Step(j) \/ UNCHANGED Lifecycle!job(j)
    <3>0. /\ JobRemaining(j)' = JobRemaining(j)
          /\ JobRemaining(j) = jobs[j].req.max - jobs[j].count
          /\ JobPhase(j)' = PhaseOf(w.assigned.status)
          /\ jobs[j].status # "SUBMIT_UNKNOWN"
      BY <2>3, <2>5 DEF IsWritten, RowMove, PairMove
    <3>1. CASE RowMove(j, w)
      <4>1. \A n \in DOMAIN attempts[j] : n # w.number /\ jobs[j].status # "RUNNING"
        BY <2>1, <3>1 DEF RowMove
      <4>2. ~InDoubt(j)
        BY <1>2, <3>0, <4>1, NothingUnresolved DEF InDoubt
      <4>3. ~InDoubt(j)'
        BY <1>2, <2>5, <3>0, <4>1, NothingUnresolved DEF InDoubt, IsWritten
      <4>4. jobs[j].count < jobs[j].req.max => JobRemaining(j) > 0
        BY <2>1, <3>0
      <4>5. \/ JobPhase(j) = "waiting" /\ JobPhase(j)' \in {"held", "cancelled"}
            \/ JobPhase(j) = "held" /\ JobPhase(j)' \in {"waiting", "cancelled"}
            \/ /\ JobPhase(j) = "failed" /\ JobPhase(j)' = "waiting"
               /\ JobRemaining(j) > 0
        BY <2>3, <3>0, <3>1, <4>4 DEF RowMove, PhaseOf
      <4> QED BY <3>0, <4>2, <4>3, <4>5, CertainMoveMaps
    <3>2. CASE PairMove(j, w)
      <4>0. /\ w.number = jobs[j].count /\ w.number \in DOMAIN attempts[j]
            /\ w.loadedAttempt = attempts[j][w.number]
            /\ JobPhase(j) = "working"
            /\ DOMAIN attempts'[j] = DOMAIN attempts[j]
        BY <2>1, <2>3, <2>5, <3>2 DEF IsWritten, Current, PairMove, PhaseOf
      <4>1. InDoubt(j) <=> Unresolved(w.loadedAttempt)
        BY <1>2, <3>0, <4>0, NothingUnresolved DEF InDoubt
      <4>2. InDoubt(j)' <=> Unresolved(w.assignedAttempt)
        <5>1. \A n \in DOMAIN attempts[j] :
                n # w.number => ~Unresolved(attempts'[j][n])
          BY <1>2, <2>5, <3>0, <4>0, NothingUnresolved DEF IsWritten
        <5>2. Unresolved(attempts'[j][w.number]) <=> Unresolved(w.assignedAttempt)
          BY <2>5, <4>0 DEF IsWritten
        <5>3. InDoubt(j)' <=> \E n \in DOMAIN attempts'[j] : Unresolved(attempts'[j][n])
          BY <1>0, <1>2 DEF InDoubt, Unresolved
        <5> QED BY <4>0, <5>1, <5>2, <5>3
      <4>3. CASE w.assigned.status = "RUNNING"
        <5>1. JobPhase(j)' = "working" /\ (InDoubt(j) => InDoubt(j)')
          BY <3>0, <3>2, <4>1, <4>2, <4>3 DEF PairMove, PhaseOf
        <5> QED BY <3>0, <4>0, <5>1, DoubtMoveMaps, StutterMaps
      <4>4. CASE w.assigned.status \in {"SUCCEEDED", "FAILED"}
        <5>1. JobPhase(j)' \in {"succeeded", "failed"} /\ ~InDoubt(j)'
          BY <3>0, <3>2, <4>2, <4>4 DEF PairMove, PhaseOf
        <5> QED BY <3>0, <4>0, <5>1, CertainMoveMaps
      <4>5. CASE w.assigned.status = "SUBMIT_UNKNOWN"
        <5>1. JobPhase(j)' = "unknown" /\ InDoubt(j)'
          BY <3>0, <3>2, <4>2, <4>5 DEF PairMove, PhaseOf
        <5> QED BY <3>0, <4>0, <5>1, DoubtMoveMaps
      <4>6. CASE w.assigned.status = "QUEUED"
        <5>1. JobPhase(j)' = "waiting" /\ ~InDoubt(j)' /\ ~InDoubt(j)
          BY <3>0, <3>2, <4>1, <4>2, <4>6 DEF PairMove, PhaseOf
        <5>2. JobRemaining(j) > 0
          BY <2>1, <3>0, <3>2, <4>6 DEF PairMove
        <5> QED BY <3>0, <4>0, <5>1, <5>2, CertainMoveMaps
      <4> QED BY <3>2, <4>3, <4>4, <4>5, <4>6 DEF PairMove
    <3> QED BY <2>5, <3>1, <3>2 DEF IsWritten
  <2>6. CASE IsLeft(j)
    <3>1. JobPhase(j)' = JobPhase(j) /\ JobRemaining(j)' = JobRemaining(j)
      BY <2>3, <2>6 DEF IsLeft
    <3>2. InDoubt(j)' <=> InDoubt(j)
      BY <1>0, <1>2, <2>6 DEF IsLeft, InDoubt
    <3> QED BY <3>1, <3>2, StutterMaps
  <2> QED BY <1>2, <2>4, <2>5, <2>6, CommitEffect
<1> QED BY <1>1, <1>2

LEMMA CommitInsertMaps ==
  ASSUME IInv, NEW s \in DOMAIN uow, CommitInsert(s), NEW j \in JobIds
  PROVE  Lifecycle!Step(j) \/ UNCHANGED Lifecycle!job(j)
<1>1. PICK n \in JobIds \ DOMAIN jobs :
        /\ uow[s].insert # None
        /\ jobs' = InsertedJobs(n, uow[s].insert)
        /\ attempts' = [i \in DOMAIN attempts \cup {n} |->
                          IF i = n THEN <<>> ELSE attempts[i]]
  BY DEF CommitInsert
<1>2. uow[s].insert \in Requests /\ DOMAIN attempts = DOMAIN jobs
  BY <1>1 DEF IInv, TypeOK, UnitOfWork
<1>3. CASE j = n
  <2>1. jobs'[j] = NewJob(uow[s].insert) /\ j \in DOMAIN jobs' /\ attempts'[j] = <<>>
    BY <1>1, <1>3 DEF InsertedJobs
  <2>2. /\ NewJob(uow[s].insert).status = "QUEUED"
        /\ NewJob(uow[s].insert).count = 0
        /\ NewJob(uow[s].insert).req = uow[s].insert
    BY DEF NewJob
  <2>3. uow[s].insert.max \in Nat
    BY <1>2, RequestsAssumption
  <2>4. JobPhase(j) = "absent" /\ JobPhase(j)' = "waiting"
    BY <1>1, <1>3, <2>1, <2>2 DEF JobPhase, PhaseOf
  <2>5. JobRemaining(j)' = uow[s].insert.max
    BY <2>1, <2>2, <2>3 DEF JobRemaining
  <2>6. ~InDoubt(j)'
    BY <2>1 DEF InDoubt
  <2> QED BY <1>2, <2>4, <2>5, <2>6, SubmitMaps
<1>4. CASE j # n
  <2>1. /\ j \in DOMAIN jobs' <=> j \in DOMAIN jobs
        /\ j \in DOMAIN jobs => jobs'[j] = jobs[j] /\ attempts'[j] = attempts[j]
    BY <1>1, <1>2, <1>4 DEF InsertedJobs
  <2>2. JobPhase(j)' = JobPhase(j) /\ JobRemaining(j)' = JobRemaining(j)
    <3>1. CASE j \in DOMAIN jobs
      <4>1. j \in DOMAIN jobs' /\ jobs'[j] = jobs[j]
        BY <2>1, <3>1
      <4>2. JobRemaining(j)' = JobRemaining(j)
        BY <3>1, <4>1 DEF JobRemaining
      <4>3. JobPhase(j)' = JobPhase(j)
        BY <3>1, <4>1 DEF JobPhase
      <4> QED BY <4>2, <4>3
    <3>2. CASE j \notin DOMAIN jobs
      BY <2>1, <3>2 DEF JobPhase, JobRemaining
    <3> QED BY <3>1, <3>2
  <2>3. InDoubt(j)' <=> InDoubt(j)
    BY <2>1 DEF InDoubt
  <2> QED BY <2>2, <2>3, StutterMaps
<1> QED BY <1>3, <1>4

\* Every step of the serial queue is a step of the lifecycle or a stutter.
LEMMA SerialStepMaps ==
  SerialInv /\ [Next]_vars => [Lifecycle!Next]_(Lifecycle!vars)
<1> SUFFICES ASSUME SerialInv, [Next]_vars
             PROVE  [Lifecycle!Next]_(Lifecycle!vars)
  OBVIOUS
<1>1. ASSUME NEW s \in DOMAIN uow, Commit(s) \/ CommitInsert(s)
      PROVE  Lifecycle!Next
  <2>1. \A j \in JobIds : Lifecycle!Step(j) \/ UNCHANGED Lifecycle!job(j)
    BY <1>1, CommitMaps, CommitInsertMaps DEF SerialInv
  <2> QED BY <2>1 DEF Lifecycle!Next
<1>2. CASE UNCHANGED tables
  BY <1>2 DEF tables, Lifecycle!vars, PhaseOf
<1> QED BY <1>1, <1>2, TablesChangeInCommits

LEMMA InitMaps == Init => Lifecycle!Init
BY DEF Init, Lifecycle!Init

\* With one session the queue is what JobLifecycle promises: a job is worked on
\* max_attempts times at most, and never again once work on it is in doubt.
THEOREM SerialQueueImplementsLifecycle == OneSession => (Spec => ImplementsLifecycle)
<1> SUFFICES ASSUME OneSession PROVE Spec => ImplementsLifecycle
  OBVIOUS
<1>1. Init => Lifecycle!Init
  BY InitMaps
<1>2. SerialInv /\ [Next]_vars => [Lifecycle!Next]_(Lifecycle!vars)
  BY SerialStepMaps
<1>3. Init => SerialInv
  BY InitSerialInv
<1>4. IInv => Alone
  BY OneSessionIsAlone
<1>5. SerialInv /\ Alone /\ Alone' /\ [Next]_vars => SerialInv'
  BY NextKeepsSerialInv
<1> QED BY <1>1, <1>2, <1>3, <1>4, <1>5, Invariance, PTL
     DEF Spec, ImplementsLifecycle, Lifecycle!Spec
=============================================================================
