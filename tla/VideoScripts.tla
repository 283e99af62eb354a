---------------------------- MODULE VideoScripts ----------------------------
(***************************************************************************)
(* The script versions of one variant of a batch: an editor writes them, or *)
(* Qwen does, by a job.  Each job reserves one of the calls the batch may   *)
(* spend, in the transaction that inserts it.  A job has one attempt, so a  *)
(* key has at most one run.  Versions are immutable and numbered by a       *)
(* counter of the variant; one of them is active.  The variant is ready and *)
(* stays so (BatchVideo: EndsAreKept).                                      *)
(***************************************************************************)
EXTENDS Naturals, Sequences, FiniteSets

CONSTANTS
  Requests,     \* requests that put a script job in the queue
  ScriptKeys,   \* idempotency keys of their clients
  Writers,      \* requests that save a version written by hand
  WriterKeys,   \* idempotency keys of theirs, which may be one a job is going to use
  MaxEdits,     \* bound: edits of the product
  MaxQuota,     \* bound: calls a batch may be given
  MaxVersions   \* bound: versions of the variant

ASSUME ScriptAssumption == {MaxQuota, MaxEdits, MaxVersions} \subseteq Nat

VARIABLES
  brief,        \* the product's content: which edit
  quota,        \* qwen_script_call_quota of the batch, set with it
  reserved,     \* qwen_script_calls_reserved
  scriptJobs,   \* per key, its job, or NoJob
  run,          \* per key, what the run of its job is at
  sequence,     \* script_version_sequence
  versions,     \* the rows of video_script_versions, as a set
  active,       \* number of the active version, or 0
  request, writer

scriptVars == <<brief, quota, reserved, scriptJobs, run, sequence, versions, active,
                request, writer>>
queueSide == <<quota, reserved, scriptJobs, request>>
versionSide == <<sequence, versions, active, writer>>

NoJob == [status |-> "none", draft |-> 0, external |-> FALSE, paid |-> FALSE,
          outcome |-> "none"]
NoRun == [at |-> "none", seen |-> 0]
IdleRequest == [at |-> "idle", key |-> "none", draft |-> 0]
IdleWriter == [at |-> "idle", key |-> "none"]

ScriptInit ==
  /\ brief = 0
  /\ quota \in 0..MaxQuota /\ reserved = 0
  /\ scriptJobs = [k \in ScriptKeys |-> NoJob]
  /\ run = [k \in ScriptKeys |-> NoRun]
  /\ sequence = 0 /\ versions = {} /\ active = 0
  /\ request = [r \in Requests |-> IdleRequest]
  /\ writer = [e \in Writers |-> IdleWriter]

JobsOfBatch == {k \in ScriptKeys : scriptJobs[k].status # "none"}
VersionOf(key) == {v \in versions : v.key = key}

EditBrief ==
  /\ brief < MaxEdits
  /\ brief' = brief + 1
  /\ UNCHANGED <<queueSide, run, versionSide>>

-----------------------------------------------------------------------------
(* QwenVideoScriptJobService.enqueue *)

RequestGoes(r, record) == request' = [request EXCEPT ![r] = record]

\* No job of the key to return or to refuse, the preflight has not expired, is ready and
\* says what the operator confirmed; any other request ends here.
CheckRequest(r) ==
  /\ request[r].at = "idle"
  /\ \E k \in ScriptKeys :
       /\ scriptJobs[k].status = "none" /\ reserved < quota
       /\ RequestGoes(r, [at |-> "checked", key |-> k, draft |-> brief])
  /\ UNCHANGED <<brief, quota, reserved, scriptJobs, run, versionSide>>

LeaveRequest(r) ==
  /\ request[r].at # "idle"
  /\ RequestGoes(r, IdleRequest)
  /\ UNCHANGED <<brief, quota, reserved, scriptJobs, run, versionSide>>

\* Mutant: the preflight's look at the quota is enough.
MayReserveUnchecked == TRUE
MayReserve == reserved < quota

\* UPDATE .. WHERE reserved < quota, then the insert of the job, one transaction.  The
\* key of a job that is there by now takes the reservation back.
ReserveAndCreate(r) ==
  /\ request[r].at = "checked"
  /\ LET k == request[r].key
     IN IF MayReserve /\ scriptJobs[k].status = "none"
        THEN /\ reserved' = reserved + 1
             /\ scriptJobs' = [scriptJobs EXCEPT ![k] =
                  [NoJob EXCEPT !.status = "QUEUED", !.draft = request[r].draft]]
        ELSE UNCHANGED <<reserved, scriptJobs>>
  /\ RequestGoes(r, IdleRequest)
  /\ UNCHANGED <<brief, quota, run, versionSide>>

-----------------------------------------------------------------------------
(* QwenVideoScriptGenerateV1Handler *)

RunAt(k, at) == run[k].at = at
RunGoes(k, record) == run' = [run EXCEPT ![k] = record]
RunAdvances(k, at) == RunGoes(k, [run[k] EXCEPT !.at = at])
\* The report of a run whose lease ended is not taken.
ReportScript(k, status, outcome) ==
  /\ scriptJobs' = IF scriptJobs[k].status = "RUNNING"
                   THEN [scriptJobs EXCEPT ![k].status = status, ![k].outcome = outcome]
                   ELSE scriptJobs
  /\ RunAdvances(k, "over")

ClaimScript(k) ==
  /\ scriptJobs[k].status = "QUEUED" /\ RunAt(k, "none")
  /\ \A other \in ScriptKeys : scriptJobs[other].status # "RUNNING"
  /\ scriptJobs' = [scriptJobs EXCEPT ![k].status = "RUNNING"]
  /\ RunAdvances(k, "claimed")
  /\ UNCHANGED <<brief, quota, reserved, request, versionSide>>

ExpireScript(k) ==
  /\ RunAt(k, "claimed")
  /\ ReportScript(k, "FAILED", "none")
  /\ UNCHANGED <<brief, quota, reserved, request, versionSide>>

\* The batch is read first, the jobs are counted by a later statement: a job reserved
\* in between makes the two differ.
LoadReservation(k) ==
  /\ RunAt(k, "claimed")
  /\ RunGoes(k, [run[k] EXCEPT !.at = "loaded", !.seen = reserved])
  /\ UNCHANGED <<brief, queueSide, versionSide>>

CountReservations(k) ==
  /\ RunAt(k, "loaded")
  /\ IF run[k].seen >= 1 /\ run[k].seen = Cardinality(JobsOfBatch)
     THEN RunAdvances(k, "counted") /\ UNCHANGED scriptJobs
     ELSE ReportScript(k, "FAILED", "none")
  /\ UNCHANGED <<brief, quota, reserved, request, versionSide>>

\* (The prompt is built from rows that are read again: see ContentChain.)
CheckScript(k) ==
  /\ RunAt(k, "counted")
  /\ IF brief = scriptJobs[k].draft
     THEN RunAdvances(k, "ready") /\ UNCHANGED scriptJobs
     ELSE ReportScript(k, "FAILED", "none")
  /\ UNCHANGED <<brief, quota, reserved, request, versionSide>>

\* Mutant: the queue is not told that something may be submitted.
MarkedNever(job) == job
Marked(job) == [job EXCEPT !.external = TRUE]

AnnounceScript(k) ==
  /\ RunAt(k, "ready")
  /\ IF scriptJobs[k].status = "RUNNING"
     THEN /\ scriptJobs' = [scriptJobs EXCEPT ![k] = Marked(@)]
          /\ RunAdvances(k, "announced")
     ELSE RunAdvances(k, "over") /\ UNCHANGED scriptJobs
  /\ UNCHANGED <<brief, quota, reserved, request, versionSide>>

CallForScript(k) ==
  /\ RunAt(k, "announced")
  /\ scriptJobs' = [scriptJobs EXCEPT ![k].paid = TRUE]
  /\ RunAdvances(k, "answered")
  /\ UNCHANGED <<brief, quota, reserved, request, versionSide>>

\* No connection was made, and the failure metadata says so.
RefuseConnection(k) ==
  /\ RunAt(k, "announced")
  /\ ReportScript(k, "FAILED", "NOT_SUBMITTED")
  /\ UNCHANGED <<brief, quota, reserved, request, versionSide>>

\* Qwen's error is uncertain, or an explicit failure, or its answer does not validate
\* or must not be stored.
RefuseAnswer(k) ==
  /\ RunAt(k, "answered")
  /\ \/ ReportScript(k, "SUBMIT_UNKNOWN", "none")
     \/ \E outcome \in {"EXPLICIT_FAILURE", "RESPONSE_RECEIVED"} :
          ReportScript(k, "FAILED", outcome)
  /\ UNCHANGED <<brief, quota, reserved, request, versionSide>>

\* Mutant: the key is not unique among the versions of a variant.
KeyFreeAlways(key) == TRUE
KeyFree(key) == VersionOf(key) = {}

\* The counter and the row are written by one transaction.  The key of a generated
\* version is its job's; one that an editor took refuses the answer.
StoreScript(k) ==
  /\ RunAt(k, "answered") /\ sequence < MaxVersions /\ KeyFree(k)
  /\ sequence' = sequence + 1
  /\ versions' = versions \cup {[number |-> sequence + 1, key |-> k, generated |-> TRUE]}
  /\ RunAdvances(k, "stored")
  /\ UNCHANGED <<brief, queueSide, active, writer>>

SucceedScript(k) ==
  /\ RunAt(k, "stored")
  /\ ReportScript(k, "SUCCEEDED", "none")
  /\ UNCHANGED <<brief, quota, reserved, request, versionSide>>

RunDies(k) ==
  /\ run[k].at \notin {"none", "over"}
  /\ RunAdvances(k, "over")
  /\ UNCHANGED <<brief, queueSide, versionSide>>

\* max_attempts is 1: what was not announced fails.
ScriptLeaseEnds(k) ==
  /\ scriptJobs[k].status = "RUNNING"
  /\ scriptJobs' = [scriptJobs EXCEPT ![k].status =
       IF scriptJobs[k].external THEN "SUBMIT_UNKNOWN" ELSE "FAILED"]
  /\ UNCHANGED <<brief, quota, reserved, request, run, versionSide>>

-----------------------------------------------------------------------------
(* VideoScriptVersionService.create and activate *)

WriterGoes(e, record) == writer' = [writer EXCEPT ![e] = record]
\* Preflight and look-up of the key: a stored version of it ends the request.
ReadWriterKey(e) ==
  /\ writer[e].at = "idle"
  /\ \E key \in WriterKeys :
       /\ VersionOf(key) = {}
       /\ WriterGoes(e, [at |-> "insert", key |-> key])
  /\ UNCHANGED <<brief, queueSide, run, sequence, versions, active>>

\* A taken key rolls the transaction back, and the version of the key is returned, or
\* refused for another text.
WriteVersion(e) ==
  /\ writer[e].at = "insert" /\ sequence < MaxVersions
  /\ IF KeyFree(writer[e].key)
     THEN /\ sequence' = sequence + 1
          /\ versions' = versions \cup {[number |-> sequence + 1, key |-> writer[e].key,
                                         generated |-> FALSE]}
     ELSE UNCHANGED <<sequence, versions>>
  /\ WriterGoes(e, IdleWriter)
  /\ UNCHANGED <<brief, queueSide, run, active>>

ActivateVersion ==
  /\ \E v \in versions : active' = v.number
  /\ UNCHANGED <<brief, queueSide, run, sequence, versions, writer>>

ScriptNext ==
  \/ EditBrief \/ ActivateVersion
  \/ \E r \in Requests :
       CheckRequest(r) \/ LeaveRequest(r) \/ ReserveAndCreate(r)
  \/ \E k \in ScriptKeys :
       \/ ClaimScript(k) \/ ExpireScript(k) \/ LoadReservation(k) \/ CountReservations(k)
       \/ CheckScript(k) \/ AnnounceScript(k) \/ CallForScript(k)
       \/ RefuseConnection(k) \/ RefuseAnswer(k) \/ StoreScript(k) \/ SucceedScript(k)
       \/ RunDies(k) \/ ScriptLeaseEnds(k)
  \/ \E e \in Writers : ReadWriterKey(e) \/ WriteVersion(e)

ScriptSpec == ScriptInit /\ [][ScriptNext]_scriptVars

-----------------------------------------------------------------------------
(* Properties *)

Version == [number : 1..MaxVersions, key : ScriptKeys \cup WriterKeys, generated : BOOLEAN]

ScriptTypeOK ==
  /\ brief \in 0..MaxEdits /\ quota \in 0..MaxQuota
  /\ reserved \in Nat
  /\ scriptJobs \in [ScriptKeys -> [external : BOOLEAN, paid : BOOLEAN,
       draft : 0..MaxEdits,
       status : {"none", "QUEUED", "RUNNING", "SUCCEEDED", "FAILED", "SUBMIT_UNKNOWN"},
       outcome : {"none", "NOT_SUBMITTED", "EXPLICIT_FAILURE", "RESPONSE_RECEIVED"}]]
  /\ run \in [ScriptKeys -> [seen : Nat,
       at : {"none", "claimed", "loaded", "counted", "ready", "announced",
             "answered", "stored", "over"}]]
  /\ sequence \in 0..MaxVersions /\ active \in 0..MaxVersions
  /\ versions \subseteq Version
  /\ request \in [Requests -> [at : {"idle", "checked"},
       key : ScriptKeys \cup {"none"}, draft : 0..MaxEdits]]
  /\ writer \in [Writers -> [at : {"idle", "insert"}, key : WriterKeys \cup {"none"}]]

\* A batch never spends more calls than its quota, however its requests meet, and the
\* counter is the number of jobs that hold a call: no reservation is lost or doubled.
CallsAreReserved ==
  /\ reserved = Cardinality(JobsOfBatch) /\ reserved <= quota
  /\ Cardinality({k \in ScriptKeys : scriptJobs[k].paid}) <= reserved

\* The history of a variant has no gap and no double: editors and jobs that save at
\* once get numbers of their own, a key has one version, a generated version was paid
\* for, and what is active is there.
ScriptHistoryIsWhole ==
  /\ {v.number : v \in versions} = 1..sequence /\ Cardinality(versions) = sequence
  /\ \A v, w \in versions : v.key = w.key => v = w
  /\ \A v \in versions : v.generated => v.key \in ScriptKeys /\ scriptJobs[v.key].paid
  /\ active <= sequence

\* What the queue says of a script job is true: one that succeeded has its version, and
\* one that failed with no word on the submission, or with NOT_SUBMITTED, called no one.
ScriptReportsAreTrue ==
  \A k \in ScriptKeys :
    /\ scriptJobs[k].status = "SUCCEEDED" => \E v \in VersionOf(k) : v.generated
    /\ scriptJobs[k].status = "FAILED" /\ scriptJobs[k].outcome \in {"none", "NOT_SUBMITTED"}
         => ~scriptJobs[k].paid
=============================================================================
