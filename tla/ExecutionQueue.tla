--------------------------- MODULE ExecutionQueue ---------------------------
(***************************************************************************)
(* The persistent execution queue (ExecutionQueueService over the tables   *)
(* execution_jobs and execution_attempts).                                 *)
(*                                                                         *)
(* Every service method loads rows, decides, assigns attributes and        *)
(* commits.  The loads run outside a write transaction (SQLite, a session  *)
(* with autoflush=False) and the flush emits UPDATE ... WHERE id = ? with  *)
(* the columns whose value changed since they were loaded: no version      *)
(* number and no status is compared.  An operation is therefore two steps: *)
(* the first loads, checks and leaves its assignments in the unit of work  *)
(* of its session; the second, Commit, writes them to whatever the rows    *)
(* hold by then, or is rolled back by a CHECK or UNIQUE constraint.  Only  *)
(* claim_next is one UPDATE statement that reads the table it writes.      *)
(* With a single session the two steps of an operation are never           *)
(* interleaved with another operation's, and the queue is serial.          *)
(***************************************************************************)
EXTENDS Naturals

CONSTANTS
  JobIds,        \* the primary keys execution_jobs may hand out
  Requests,      \* what a creation request may ask for
  ClaimFilters,  \* sets of job types a claim may name; {} takes any type
  Workers,       \* worker identities (stored as their digest)
  Sessions,      \* database sessions that may be open at the same time
  None,          \* SQL NULL
  LeaseTicks,    \* the lease a worker asks for
  MaxCalls,      \* bound on provider_call_count
  MaxTime        \* bound on the clock

JobStatus == {"QUEUED", "PAUSED", "RUNNING", "SUCCEEDED", "FAILED",
              "SUBMIT_UNKNOWN", "CANCELLED"}
AttemptStatus == {"RUNNING", "SUCCEEDED", "FAILED", "SUBMIT_UNKNOWN",
                  "LEASE_EXPIRED"}
\* The provider states that tell what became of a submission ...
CertainStates == {"NOT_SUBMITTED", "EXPLICIT_FAILURE", "RESPONSE_RECEIVED"}
SubmissionState == CertainStates \cup {"NOT_STARTED", "SUBMIT_UNKNOWN"}
\* ... and those a failure report may carry.
FailStates == CertainStates \cup {"NOT_STARTED"}

ASSUME JobIdsAssumption == JobIds \subseteq Nat \ {0}
ASSUME LeaseAssumption == LeaseTicks \in Nat \ {0}
ASSUME BoundsAssumption == MaxCalls \in Nat /\ MaxTime \in Nat
ASSUME NoneAssumption == None \notin Workers
ASSUME RequestsAssumption ==
  \A r \in Requests : /\ r.max \in Nat \ {0}
                      /\ r.priority \in Nat
                      /\ r.cost \in Nat
                      /\ r.confirmed \in BOOLEAN

VARIABLES
  jobs,      \* execution_jobs: a function on the ids inserted so far
  attempts,  \* execution_attempts: per job, a function on attempt numbers
  uow,       \* units of work of the open sessions
  clock      \* utc_now()

vars == <<jobs, attempts, uow, clock>>
tables == <<jobs, attempts>>

(***************************************************************************)
(* Rows.  owner = None and expires = 0 stand for the two NULL lease        *)
(* columns; submitted, result for submitted_at, result_entity_* IS NOT     *)
(* NULL.  provider_operation_id is only ever written together with         *)
(* submitted_at, which is tested next to it, and is left out with the      *)
(* error texts and the timestamps nothing tests.                           *)
(***************************************************************************)
JobRow == [req : Requests, status : JobStatus, count : Nat,
           owner : Workers \cup {None}, expires : Nat,
           submitted : BOOLEAN, uncertain : BOOLEAN, result : BOOLEAN]
AttemptRow == [status : AttemptStatus, calls : Nat, external : BOOLEAN,
               state : SubmissionState]

NewJob(r) == [req |-> r, status |-> "QUEUED", count |-> 0, owner |-> None,
              expires |-> 0, submitted |-> FALSE, uncertain |-> FALSE,
              result |-> FALSE]
NewAttempt == [status |-> "RUNNING", calls |-> 0, external |-> FALSE,
               state |-> "NOT_STARTED"]

\* Mutant: ck_execution_jobs_outcome_uncertain_status is missing.
CheckRowNoUncertain(row) ==
  /\ row.count <= row.req.max
  /\ IF row.status = "RUNNING" THEN row.owner # None /\ row.expires # 0
                               ELSE row.owner = None /\ row.expires = 0
  /\ row.result => row.status = "SUCCEEDED"

\* CHECK constraints of one execution_jobs row.
CheckRow(row) ==
  /\ row.count <= row.req.max
  /\ row.uncertain = (row.status = "SUBMIT_UNKNOWN")
  /\ IF row.status = "RUNNING" THEN row.owner # None /\ row.expires # 0
                               ELSE row.owner = None /\ row.expires = 0
  /\ row.result => row.status = "SUCCEEDED"

\* The UNIQUE constraint and the partial unique index of the table.
UniqueKeys(table) ==
  \A i, j \in DOMAIN table :
    i # j => /\ table[i].req.key # table[j].req.key
             /\ \/ table[i].req.ckey = None
                \/ table[i].req.ckey # table[j].req.ckey
                \/ table[i].status # "RUNNING"
                \/ table[j].status # "RUNNING"

Consistent(table) ==
  UniqueKeys(table) /\ \A j \in DOMAIN table : CheckRow(table[j])

\* repository.latest_attempt: 0 when the job has no attempt.
LatestNumber(j) ==
  IF DOMAIN attempts[j] = {} THEN 0
  ELSE CHOOSE n \in DOMAIN attempts[j] : \A m \in DOMAIN attempts[j] : m <= n

Latest(j) == attempts[j][LatestNumber(j)]

Running(j) == jobs[j].status = "RUNNING"
LeaseExpired(j) == Running(j) /\ jobs[j].expires <= clock

(***************************************************************************)
(* Units of work.  A write names the row as loaded and as assigned; number *)
(* is 0 when no attempt is written.                                        *)
(***************************************************************************)
Write == [loaded : JobRow, assigned : JobRow, number : Nat,
          loadedAttempt : AttemptRow, assignedAttempt : AttemptRow]
NoWrites == <<>>

RowWrite(j, assigned) ==
  [loaded |-> jobs[j], assigned |-> assigned, number |-> 0,
   loadedAttempt |-> NewAttempt, assignedAttempt |-> NewAttempt]

PairWrite(j, assigned, assignedAttempt) ==
  [loaded |-> jobs[j], assigned |-> assigned, number |-> LatestNumber(j),
   loadedAttempt |-> Latest(j), assignedAttempt |-> assignedAttempt]

Begin(s, writes, insert, claimer, types) ==
  /\ s \notin DOMAIN uow
  /\ uow' = [t \in DOMAIN uow \cup {s} |->
               IF t = s
               THEN [writes |-> writes, insert |-> insert, claimer |-> claimer,
                     types |-> types, now |-> clock]
               ELSE uow[t]]
  /\ UNCHANGED <<tables, clock>>

BeginWrites(s, writes) == Begin(s, writes, None, None, {})
BeginWrite(s, j, write) == BeginWrites(s, [i \in {j} |-> write])

Close(s) == s \in DOMAIN uow /\ uow' = [t \in DOMAIN uow \ {s} |-> uow[t]]

\* SQLAlchemy writes a column only when the assigned value differs from the
\* loaded one.
Net(current, loaded, assigned) ==
  IF assigned = loaded THEN current ELSE assigned

FlushJob(row, l, a) ==
  [row EXCEPT !.status    = Net(@, l.status, a.status),
              !.owner     = Net(@, l.owner, a.owner),
              !.expires   = Net(@, l.expires, a.expires),
              !.submitted = Net(@, l.submitted, a.submitted),
              !.uncertain = Net(@, l.uncertain, a.uncertain),
              !.result    = Net(@, l.result, a.result)]

FlushAttempt(row, l, a) ==
  [row EXCEPT !.status   = Net(@, l.status, a.status),
              !.calls    = Net(@, l.calls, a.calls),
              !.external = Net(@, l.external, a.external),
              !.state    = Net(@, l.state, a.state)]

(***************************************************************************)
(* Operations of a user: create, pause, resume, cancel, retry.             *)
(***************************************************************************)
\* create: a key that exists is answered without a write (same digest) or
\* refused (another digest).
Create(s, r) ==
  /\ \A j \in DOMAIN jobs : jobs[j].req.key # r.key
  /\ Begin(s, NoWrites, r, None, {})

SetStatus(s, j, from, to) ==
  /\ jobs[j].status \in from
  /\ BeginWrite(s, j, RowWrite(j, [jobs[j] EXCEPT !.status = to]))

Pause(s, j) == SetStatus(s, j, {"QUEUED"}, "PAUSED")
Resume(s, j) == SetStatus(s, j, {"PAUSED"}, "QUEUED")
Cancel(s, j) == SetStatus(s, j, {"QUEUED", "PAUSED"}, "CANCELLED")
\* Mutant: retry forgets the attempt budget.
RetryExhausted(s, j) == ~jobs[j].uncertain /\ SetStatus(s, j, {"FAILED"}, "QUEUED")
Retry(s, j) ==
  /\ ~jobs[j].uncertain
  /\ jobs[j].count < jobs[j].req.max
  /\ SetStatus(s, j, {"FAILED"}, "QUEUED")

(***************************************************************************)
(* Recovery of expired leases.                                             *)
(***************************************************************************)
Released(row) == [row EXCEPT !.owner = None, !.expires = 0]

ExternalPossible(j) ==
  \/ LatestNumber(j) # 0 /\ Latest(j).external
  \/ jobs[j].submitted

RecoveredJob(j) ==
  IF ExternalPossible(j)
  THEN [Released(jobs[j]) EXCEPT !.status = "SUBMIT_UNKNOWN", !.uncertain = TRUE]
  ELSE [Released(jobs[j]) EXCEPT
          !.status = IF jobs[j].count < jobs[j].req.max
                     THEN "QUEUED" ELSE "FAILED",
          !.uncertain = FALSE]

\* Mutant: a recovered attempt always counts as not submitted.
RecoveredAsExpired(j) ==
  [Latest(j) EXCEPT !.status = "LEASE_EXPIRED", !.state = "NOT_SUBMITTED"]
RecoveredAttempt(j) ==
  IF ExternalPossible(j)
  THEN [Latest(j) EXCEPT !.status = "SUBMIT_UNKNOWN", !.external = TRUE,
                         !.state = "SUBMIT_UNKNOWN"]
  ELSE [Latest(j) EXCEPT !.status = "LEASE_EXPIRED", !.state = "NOT_SUBMITTED"]

ExpiredJobs == {j \in DOMAIN jobs : LeaseExpired(j)}

RecoverExpiredLeases ==
  [j \in ExpiredJobs |->
     IF LatestNumber(j) = 0
     THEN RowWrite(j, RecoveredJob(j))
     ELSE PairWrite(j, RecoveredJob(j), RecoveredAttempt(j))]

\* recover_expired_leases, and any call of an owner whose lease has run out:
\* _owned_running recovers, commits and answers 409.
Recover(s) == ExpiredJobs # {} /\ BeginWrites(s, RecoverExpiredLeases)

(***************************************************************************)
(* Operations of a worker.                                                 *)
(***************************************************************************)
\* Mutant: claim does not recover expired leases.
ClaimWithoutRecovery(s, w, types) == Begin(s, NoWrites, None, w, types)
Claim(s, w, types) == Begin(s, RecoverExpiredLeases, None, w, types)

OwnedRunning(j, w) ==
  /\ Running(j)
  /\ jobs[j].owner = w
  /\ jobs[j].expires > clock
  /\ LatestNumber(j) # 0
  /\ attempts[j][LatestNumber(j)].status = "RUNNING"

\* Mutant: a heartbeat does not record the submission boundary.
HeartbeatUnmarked(s, j, w, calls, external) ==
  /\ OwnedRunning(j, w)
  /\ calls >= Latest(j).calls
  /\ BeginWrite(s, j,
       PairWrite(j, [jobs[j] EXCEPT !.expires = clock + LeaseTicks],
                 [Latest(j) EXCEPT !.calls = calls]))

Heartbeat(s, j, w, calls, external) ==
  /\ OwnedRunning(j, w)
  /\ calls >= Latest(j).calls
  /\ LET attempt == [Latest(j) EXCEPT !.calls = calls]
         leased == [jobs[j] EXCEPT !.expires = clock + LeaseTicks]
     IN BeginWrite(s, j,
          IF external
          THEN PairWrite(j, [leased EXCEPT !.submitted = TRUE],
                 [attempt EXCEPT !.external = TRUE, !.state = "SUBMIT_UNKNOWN"])
          ELSE PairWrite(j, leased, attempt))

\* operation: a provider operation identity is reported; entity: a result is.
Complete(s, j, w, calls, operation, entity) ==
  /\ OwnedRunning(j, w)
  /\ calls >= Latest(j).calls
  /\ BeginWrite(s, j,
       PairWrite(j,
         [Released(jobs[j]) EXCEPT !.status = "SUCCEEDED",
            !.submitted = @ \/ operation, !.uncertain = FALSE,
            !.result = entity],
         [Latest(j) EXCEPT !.status = "SUCCEEDED", !.calls = calls,
            !.state = IF calls > 0 \/ Latest(j).external
                      THEN "RESPONSE_RECEIVED" ELSE "NOT_STARTED"]))

\* Mutant: a failure is accepted without a certain provider state.
FailUncertain(s, j, w, calls, external, state) ==
  /\ OwnedRunning(j, w)
  /\ calls >= Latest(j).calls
  /\ BeginWrite(s, j,
       PairWrite(j,
         [Released(jobs[j]) EXCEPT !.status = "FAILED", !.uncertain = FALSE],
         [Latest(j) EXCEPT !.status = "FAILED", !.calls = calls,
                           !.state = state]))

\* external = TRUE only refuses more reports than FALSE does.
Fail(s, j, w, calls, external, state) ==
  /\ OwnedRunning(j, w)
  /\ external \/ Latest(j).external => state \in CertainStates
  /\ calls >= Latest(j).calls
  /\ BeginWrite(s, j,
       PairWrite(j,
         [Released(jobs[j]) EXCEPT !.status = "FAILED", !.uncertain = FALSE],
         [Latest(j) EXCEPT !.status = "FAILED", !.calls = calls,
                           !.state = state]))

MarkSubmitUnknown(s, j, w, calls) ==
  /\ OwnedRunning(j, w)
  /\ calls >= Latest(j).calls
  /\ BeginWrite(s, j,
       PairWrite(j,
         [Released(jobs[j]) EXCEPT !.status = "SUBMIT_UNKNOWN",
            !.uncertain = TRUE, !.submitted = TRUE],
         [Latest(j) EXCEPT !.status = "SUBMIT_UNKNOWN", !.calls = calls,
            !.external = TRUE, !.state = "SUBMIT_UNKNOWN"]))

(***************************************************************************)
(* The end of a transaction.  claim_next selects and updates in one        *)
(* statement, on the table as it is now: the recoveries of its own session *)
(* are pending (autoflush=False) and not seen.  The UPDATE refreshes the   *)
(* row it matched, which drops what was pending on that row.               *)
(***************************************************************************)
Eligible(j, types) ==
  /\ jobs[j].status = "QUEUED"
  /\ jobs[j].count < jobs[j].req.max
  /\ jobs[j].req.cost = 0 \/ jobs[j].req.confirmed
  /\ types = {} \/ jobs[j].req.type \in types
  /\ \/ jobs[j].req.ckey = None
     \/ \A i \in DOMAIN jobs \ {j} :
          ~(Running(i) /\ jobs[i].req.ckey = jobs[j].req.ckey)

Before(i, j) ==
  \/ jobs[i].req.priority > jobs[j].req.priority
  \/ jobs[i].req.priority = jobs[j].req.priority /\ i < j

Candidates(u) ==
  IF u.claimer = None THEN {}
  ELSE {j \in DOMAIN jobs :
          /\ Eligible(j, u.types)
          /\ \A i \in DOMAIN jobs \ {j} : Eligible(i, u.types) => Before(j, i)}

\* Mutant: the claim does not increment attempt_count.
ClaimedUncounted(row, u) ==
  [row EXCEPT !.status = "RUNNING", !.owner = u.claimer,
              !.expires = u.now + LeaseTicks, !.uncertain = FALSE]

ClaimedJob(row, u) ==
  [row EXCEPT !.status = "RUNNING", !.count = @ + 1, !.owner = u.claimer,
              !.expires = u.now + LeaseTicks, !.uncertain = FALSE]

FlushedJobs(u) ==
  [j \in DOMAIN jobs |->
     IF j \in Candidates(u) THEN ClaimedJob(jobs[j], u)
     ELSE IF j \in DOMAIN u.writes
          THEN FlushJob(jobs[j], u.writes[j].loaded, u.writes[j].assigned)
          ELSE jobs[j]]

FlushedAttempt(u, j, n) ==
  IF j \in DOMAIN u.writes /\ u.writes[j].number = n
  THEN FlushAttempt(attempts[j][n], u.writes[j].loadedAttempt,
                    u.writes[j].assignedAttempt)
  ELSE attempts[j][n]

FlushedAttempts(u) ==
  [j \in DOMAIN attempts |->
     IF j \in Candidates(u)
     THEN [n \in DOMAIN attempts[j] \cup {jobs[j].count + 1} |->
             IF n = jobs[j].count + 1 THEN NewAttempt ELSE FlushedAttempt(u, j, n)]
     ELSE [n \in DOMAIN attempts[j] |-> FlushedAttempt(u, j, n)]]

Commit(s) ==
  /\ uow[s].insert = None
  /\ Consistent(FlushedJobs(uow[s]))
  /\ jobs' = FlushedJobs(uow[s])
  /\ attempts' = FlushedAttempts(uow[s])
  /\ Close(s)
  /\ UNCHANGED clock

InsertedJobs(n, r) ==
  [j \in DOMAIN jobs \cup {n} |-> IF j = n THEN NewJob(r) ELSE jobs[j]]

CommitInsert(s) ==
  \E n \in JobIds \ DOMAIN jobs :
    /\ \A i \in JobIds \ DOMAIN jobs : n <= i
    /\ uow[s].insert # None
    /\ Consistent(InsertedJobs(n, uow[s].insert))
    /\ jobs' = InsertedJobs(n, uow[s].insert)
    /\ attempts' = [j \in DOMAIN attempts \cup {n} |->
                      IF j = n THEN <<>> ELSE attempts[j]]
    /\ Close(s)
    /\ UNCHANGED clock

\* IntegrityError, or the process that holds the session dies before COMMIT.
Rollback(s) ==
  /\ Close(s)
  /\ UNCHANGED <<tables, clock>>

Tick ==
  /\ clock < MaxTime
  /\ clock' = clock + 1
  /\ UNCHANGED <<tables, uow>>

-----------------------------------------------------------------------------
Init ==
  /\ jobs = <<>>
  /\ attempts = <<>>
  /\ uow = <<>>
  /\ clock = 1

UserStep(s) ==
  \/ \E r \in Requests : Create(s, r)
  \/ \E j \in DOMAIN jobs :
       Pause(s, j) \/ Resume(s, j) \/ Cancel(s, j) \/ Retry(s, j)

WorkerStep(s) ==
  \/ Recover(s)
  \/ \E w \in Workers :
       \/ \E types \in ClaimFilters : Claim(s, w, types)
       \/ \E j \in DOMAIN jobs :
            \E calls \in 0..MaxCalls :
              \/ \E e \in BOOLEAN : Heartbeat(s, j, w, calls, e)
              \/ \E o, e \in BOOLEAN : Complete(s, j, w, calls, o, e)
              \/ \E state \in FailStates : Fail(s, j, w, calls, FALSE, state)
              \/ MarkSubmitUnknown(s, j, w, calls)

CloseStep(s) == Commit(s) \/ CommitInsert(s) \/ Rollback(s)

Next ==
  \/ \E s \in Sessions \ DOMAIN uow : UserStep(s) \/ WorkerStep(s)
  \/ \E s \in DOMAIN uow : CloseStep(s)
  \/ Tick

Spec == Init /\ [][Next]_vars

-----------------------------------------------------------------------------
(***************************************************************************)
(* Properties that hold whatever sessions are interleaved.                 *)
(***************************************************************************)
UnitOfWork(u) ==
  /\ DOMAIN u.writes \subseteq DOMAIN jobs
  /\ \A j \in DOMAIN u.writes : u.writes[j] \in Write
  /\ u.insert \in Requests \cup {None}
  /\ u.claimer \in Workers \cup {None}
  /\ u.types \in ClaimFilters \cup {{}}
  /\ u.now \in Nat

\* The tables and the open units of work have the types of the ORM models.
TypeOK ==
  /\ DOMAIN jobs \subseteq JobIds
  /\ \A j \in DOMAIN jobs : jobs[j] \in JobRow
  /\ DOMAIN attempts = DOMAIN jobs
  /\ \A j \in DOMAIN jobs :
       /\ DOMAIN attempts[j] \subseteq Nat \ {0}
       /\ \A n \in DOMAIN attempts[j] : attempts[j][n] \in AttemptRow
  /\ DOMAIN uow \subseteq Sessions
  /\ \A s \in DOMAIN uow : UnitOfWork(uow[s])
  /\ clock \in Nat

\* Attempts are numbered 1 to attempt_count without a gap, never beyond
\* max_attempts, although only claim increments the counter and every other
\* operation may flush a row it loaded before that.
AttemptsNumbered ==
  \A j \in DOMAIN jobs :
    DOMAIN attempts[j] = 1..jobs[j].count /\ jobs[j].count <= jobs[j].req.max

\* A job in doubt stays in doubt: no interleaving of a stale pause, retry,
\* heartbeat, completion or recovery takes a job out of SUBMIT_UNKNOWN.
SubmitUnknownIsFinal ==
  [][\A j \in DOMAIN jobs :
       jobs[j].status = "SUBMIT_UNKNOWN" => jobs'[j].status = "SUBMIT_UNKNOWN"]_vars

\* A job in doubt says which attempt put it there and that something was
\* submitted, even when the flush that wrote the doubt raced with others.
UnknownIsExplained ==
  \A j \in DOMAIN jobs :
    jobs[j].status = "SUBMIT_UNKNOWN" =>
      /\ jobs[j].submitted
      /\ \E n \in DOMAIN attempts[j] : /\ attempts[j][n].status = "SUBMIT_UNKNOWN"
                                      /\ attempts[j][n].external

\* One job per idempotency key, although create looks the key up before it
\* inserts and two requests may both find it free.
OneJobPerKey ==
  \A i, j \in DOMAIN jobs : i # j => jobs[i].req.key # jobs[j].req.key

(***************************************************************************)
(* Properties of the serial queue (one session).                           *)
(***************************************************************************)
\* An attempt that ended after a possible submission with no certain outcome.
Unresolved(a) == a.external /\ a.state \notin CertainStates

\* The attempts tell what the job is: the latest runs exactly when the job does, no
\* other runs, and an unresolved one leaves the job in doubt, so that it is neither
\* retried nor claimed again.
AttemptsTellTheirJob ==
  \A j \in DOMAIN jobs : \A n \in DOMAIN attempts[j] :
    LET a == attempts[j][n]
    IN /\ a.status = "RUNNING" <=> Running(j) /\ n = jobs[j].count
       /\ Unresolved(a) /\ a.status # "RUNNING" => jobs[j].status = "SUBMIT_UNKNOWN"

\* The serial queue implements the lifecycle of its jobs.
PhaseOf(status) ==
  CASE status = "QUEUED" -> "waiting"       [] status = "PAUSED" -> "held"
    [] status = "RUNNING" -> "working"      [] status = "SUCCEEDED" -> "succeeded"
    [] status = "FAILED" -> "failed"        [] status = "SUBMIT_UNKNOWN" -> "unknown"
    [] status = "CANCELLED" -> "cancelled"

Lifecycle == INSTANCE JobLifecycle WITH
  Jobs <- JobIds,
  Limits <- {r.max : r \in Requests},
  phase <- [j \in JobIds |->
              IF j \in DOMAIN jobs THEN PhaseOf(jobs[j].status) ELSE "absent"],
  remaining <- [j \in JobIds |->
              IF j \in DOMAIN jobs THEN jobs[j].req.max - jobs[j].count ELSE 0],
  doubt <- [j \in JobIds |->
              /\ j \in DOMAIN jobs
              /\ \E n \in DOMAIN attempts[j] : Unresolved(attempts[j][n])]
ImplementsLifecycle == Lifecycle!Spec

(***************************************************************************)
(* What a test says, and a race refutes.                                   *)
(***************************************************************************)
\* A worker that lost its lease cannot overwrite the result of the owner that
\* replaced it: a succeeded job is the success of its latest attempt.
LatestAttemptSucceeded ==
  \A j \in DOMAIN jobs :
    jobs[j].status = "SUCCEEDED" => attempts[j][jobs[j].count].status = "SUCCEEDED"

(***************************************************************************)
(* Liveness.  A worker process polls for ever (cli/execution_worker.py),   *)
(* so claims are begun again and again; every session is closed in the end *)
(* (with SessionLocal() as session), and a process may die in a claim but  *)
(* not in every one.                                                       *)
(***************************************************************************)
Poll == \E s \in Sessions \ DOMAIN uow, w \in Workers : Claim(s, w, {})
CommitClaim(s) == s \in DOMAIN uow /\ uow[s].claimer # None /\ Commit(s)

FairSpec ==
  /\ Spec
  /\ WF_vars(Tick)
  /\ SF_vars(Poll)
  /\ \A s \in Sessions : WF_vars(s \in DOMAIN uow /\ CloseStep(s))
  /\ \A s \in Sessions : SF_vars(CommitClaim(s))

\* A job whose worker vanished does not keep its lease, and with it its
\* concurrency key, for ever: it is recovered or renewed.
Stranded(j) == j \in DOMAIN jobs /\ LeaseExpired(j)
ExpiredLeaseIsRecovered == \A j \in JobIds : Stranded(j) ~> ~Stranded(j)
=============================================================================
