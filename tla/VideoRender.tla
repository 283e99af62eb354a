---------------------------- MODULE VideoRender ----------------------------
(***************************************************************************)
(* The render tasks of one VideoProject and everything that works on them: *)
(* the handlers of the submit and refresh jobs, the live demo route and    *)
(* the route that only creates a task.  A task is claimed by a conditional *)
(* UPDATE of its status; the claimer then talks to the provider and writes *)
(* the outcome without looking at the row again.                           *)
(*                                                                         *)
(* A caller is one run of a handler or of a route: a worker of the queue   *)
(* or a request of the API.  That the queue runs the jobs of a project one *)
(* after the other is NOT assumed: a lease may expire while its handler    *)
(* still runs.  A job is taken once, since its max_attempts is 1.          *)
(***************************************************************************)
EXTENDS Naturals, FiniteSets

CONSTANTS
  Callers,       \* handler runs and API requests that may be under way at once
  MaxEdits,      \* bound: edits of the product the project was made for
  MaxRefreshes,  \* bound: refresh jobs a user asks for
  Faults         \* what may go wrong: "crash", "lease", "write"

ASSUME BoundsAssumption == MaxEdits \in Nat /\ MaxRefreshes \in Nat
ASSUME FaultsAssumption == Faults \subseteq {"crash", "lease", "write"}

VARIABLES
  tasks,      \* video_render_tasks, by idempotency key
  artifacts,  \* the tasks that have a row in video_render_artifacts
  files,      \* the tasks whose video file is in the artifact storage
  inputs,     \* version of the product data that the digests are made of
  queue,      \* the submit and refresh jobs no worker has taken yet
  submitted,  \* versions a submit job exists for (its idempotency key)
  refreshes,  \* refresh jobs created so far
  at, run,    \* where each caller is, and what it knows
  remote,     \* the render the provider holds for each task
  asks,       \* submissions the provider was sent, per task
  told        \* the last status the provider reported for each task

table == <<tasks, artifacts, files>>
jobs == <<inputs, queue, submitted, refreshes>>
callers == <<at, run>>
provider == <<remote, asks, told>>
vars == <<table, jobs, callers, provider>>

\* The workspace and the live demo each derive a key from the project.
Keys == {"workspace", "live"}

Refreshable == {"SUBMITTED", "PENDING", "RUNNING"}
Terminal == {"SUBMIT_UNKNOWN", "SUCCEEDED", "FAILED", "CANCELED",
             "ARTIFACT_PERSIST_FAILED"}
Claims == {"SUBMITTING", "REFRESHING"}
Statuses == {"NONE", "CREATED"} \cup Claims \cup Refreshable \cup Terminal
RemoteStatuses == {"PENDING", "RUNNING", "SUCCEEDED", "FAILED", "CANCELED"}

\* error_code: none, a failed refresh, or the reason of a terminal status.
Errors == {"none", "refresh_failed", "refresh_invalid", "final"}
Task == [status : Statuses, provider : BOOLEAN, error : Errors]
NoTask == [status |-> "NONE", provider |-> FALSE, error |-> "none"]

\* What compute_video_render_task_digest covers and other steps may change:
\* the status, the error code and the data of the product.
Digest == [status : Statuses, error : Errors, inputs : 0..MaxEdits]
TaskDigest(k) ==
  [status |-> tasks[k].status, error |-> tasks[k].error, inputs |-> inputs]

SubmitJob(v) == [kind |-> "submit", inputs |-> v]
RefreshJob(k, d, n) ==
  [kind |-> "refresh", key |-> k, digest |-> d, request |-> n]

Places == {"idle", "looking", "inserting", "claiming", "announcing", "asking",
           "recording", "downloading", "finalizing", "abandoning"}

\* lost: no acknowledgement (timeout, connection); error: any other
\* ProviderError, or an empty task id; invalid: an answer about another render,
\* the status UNKNOWN, or a success without a video.
SubmitAnswers == RemoteStatuses \cup {"UNKNOWN", "lost", "error"}
FetchAnswers == RemoteStatuses \cup {"invalid", "error"}

\* previous: the status a refresh found; external: provider_state()[1] of
\* the job; asked: this run called submit; result: how the run ended.
Run ==
  [kind : {"submit", "refresh", "live", "create"}, key : Keys,
   previous : Statuses, external : BOOLEAN, asked : BOOLEAN,
   answer : SubmitAnswers \cup FetchAnswers \cup {"none"},
   result : {"none", "succeeded", "failed", "raised"}]
NewRun(kind, k, status) ==
  [kind |-> kind, key |-> k, previous |-> status, external |-> FALSE,
   asked |-> FALSE, answer |-> "none", result |-> "none"]

Key(p) == run[p].key
TaskOf(p) == tasks[Key(p)]

Begin(p, place, r) ==
  /\ at[p] = "idle"
  /\ at' = [at EXCEPT ![p] = place]
  /\ run' = [run EXCEPT ![p] = r]
Move(p, from, to) == at[p] = from /\ at' = [at EXCEPT ![p] = to]
\* The run is over; only its result outlives it, until the caller starts again.
NoRun == NewRun("create", "live", "NONE")
Over(result) == [NoRun EXCEPT !.result = result]
End(p, result) ==
  /\ at' = [at EXCEPT ![p] = "idle"]
  /\ run' = [run EXCEPT ![p] = Over(result)]

Write(k, status, error) ==
  tasks' = [tasks EXCEPT ![k] =
              [status |-> status, provider |-> @.provider, error |-> error]]

\* Mutant: the submit handler reports a failure whatever was announced.
RefusalForgetsBoundary(p) ==
  IF run[p].kind = "live" THEN "raised" ELSE "failed"
\* What an AppError becomes: the handlers turn it into a failed result, but
\* for a submission that was announced, and the routes let it pass.
Refusal(p) ==
  IF run[p].kind = "live" \/ run[p].external THEN "raised" ELSE "failed"

(***************************************************************************)
(* The users: edits of the product and the jobs they ask for.              *)
(***************************************************************************)
EditProduct ==
  /\ inputs < MaxEdits
  /\ inputs' = inputs + 1
  /\ UNCHANGED <<table, queue, submitted, refreshes, callers, provider>>

EnqueueSubmit ==
  /\ inputs \notin submitted
  /\ submitted' = submitted \cup {inputs}
  /\ queue' = queue \cup {SubmitJob(inputs)}
  /\ UNCHANGED <<table, inputs, refreshes, callers, provider>>

EnqueueRefresh(k) ==
  /\ refreshes < MaxRefreshes
  /\ tasks[k].status \in Refreshable
  /\ refreshes' = refreshes + 1
  /\ queue' = queue \cup {RefreshJob(k, TaskDigest(k), refreshes)}
  /\ UNCHANGED <<table, inputs, submitted, callers, provider>>

(***************************************************************************)
(* Getting the task: create_render_task_with_reuse and what calls it.      *)
(***************************************************************************)
StartSubmit(p) ==
  \E v \in submitted :
    /\ SubmitJob(v) \in queue
    /\ queue' = queue \ {SubmitJob(v)}
    /\ IF v = inputs
       THEN Begin(p, "looking", NewRun("submit", "workspace", "NONE"))
       ELSE Begin(p, "idle", Over("failed"))
    /\ UNCHANGED <<table, inputs, submitted, refreshes, provider>>

SucceededArtifacts == {k \in artifacts : tasks[k].status = "SUCCEEDED"}

StartLive(p) ==
  /\ IF SucceededArtifacts = {}
     THEN Begin(p, "looking", NewRun("live", "live", "NONE"))
     ELSE Begin(p, "idle", Over("succeeded"))
  /\ UNCHANGED <<table, jobs, provider>>

StartCreate(p, k) ==
  /\ Begin(p, "looking", NewRun("create", k, "NONE"))
  /\ UNCHANGED <<table, jobs, provider>>

\* A submission goes on with a task that is CREATED; any other is returned.
Reuse(p, row) ==
  IF run[p].kind # "create" /\ row.status = "CREATED" /\ ~row.provider
  THEN at' = [at EXCEPT ![p] = "claiming"] /\ UNCHANGED run
  ELSE End(p, "succeeded")

Lookup(p) ==
  /\ at[p] = "looking"
  /\ \/ /\ TaskOf(p).status = "NONE"
        /\ Move(p, "looking", "inserting")
        /\ UNCHANGED run
     \/ TaskOf(p).status # "NONE" /\ Reuse(p, TaskOf(p))
  /\ UNCHANGED <<table, jobs, provider>>

CreatedTask == [status |-> "CREATED", provider |-> FALSE, error |-> "none"]

\* The unique key lets one insertion pass; the others read the row again.
Insert(p) ==
  /\ at[p] = "inserting"
  /\ \/ /\ TaskOf(p).status = "NONE"
        /\ tasks' = [tasks EXCEPT ![Key(p)] = CreatedTask]
        /\ Reuse(p, CreatedTask)
     \/ /\ TaskOf(p).status # "NONE"
        /\ Reuse(p, TaskOf(p))
        /\ UNCHANGED tasks
  /\ UNCHANGED <<artifacts, files, jobs, provider>>

(***************************************************************************)
(* Submission: VideoRenderExecutionService.submit.                         *)
(***************************************************************************)
\* Mutant: only the provider's id is looked at.
ClaimWithoutStatus(row) == ~row.provider
MayClaimSubmission(row) == row.status = "CREATED" /\ ~row.provider

\* A claim that finds the row changed is a 409: execute returns the task as
\* it is now, and the live route passes the refusal on.
ClaimSubmission(p) ==
  /\ run[p].kind \in {"submit", "live"}
  /\ at[p] = "claiming"
  /\ \/ /\ MayClaimSubmission(TaskOf(p))
        /\ Write(Key(p), "SUBMITTING", "none")
        /\ Move(p, "claiming",
                IF run[p].kind = "live" THEN "asking" ELSE "announcing")
        /\ UNCHANGED run
     \/ /\ ~MayClaimSubmission(TaskOf(p))
        /\ End(p, IF run[p].kind = "live" THEN "raised" ELSE "succeeded")
        /\ UNCHANGED tasks
  /\ UNCHANGED <<artifacts, files, jobs, provider>>

\* before_provider_call, of either kind of job.
Announce(p) ==
  /\ Move(p, "announcing", "asking")
  /\ run' = [run EXCEPT ![p].external = run[p].kind = "submit"]
  /\ UNCHANGED <<table, jobs, provider>>

\* ... and where the lease is lost or the worker told to stop: the handler is
\* left at once.  Which boundary it announced is a matter of ExecutionWorker.
AnnounceInterrupted(p) ==
  /\ "lease" \in Faults
  /\ at[p] = "announcing"
  /\ End(p, "raised")
  /\ UNCHANGED <<table, jobs, provider>>

\* The provider may accept and still be heard to fail; the render it accepts is
\* in the status it reports, or PENDING.
AskSubmit(p) ==
  /\ run[p].kind \in {"submit", "live"}
  /\ Move(p, "asking", "recording")
  /\ asks' = [asks EXCEPT ![Key(p)] = @ + 1]
  /\ \E answer \in SubmitAnswers :
       /\ run' = [run EXCEPT ![p] = [@ EXCEPT !.asked = TRUE, !.answer = answer]]
       /\ \/ answer \in {"lost", "error"} /\ UNCHANGED remote
          \/ remote' = [remote EXCEPT ![Key(p)] =
                          IF answer \in RemoteStatuses THEN answer ELSE "PENDING"]
  /\ UNCHANGED <<table, jobs, told>>

\* Mutant: the status of the answer is stored, but for UNKNOWN.
RecordedUnlessUnknown(answer) == IF answer = "UNKNOWN" THEN "SUBMITTED" ELSE answer
\* _record_submission: a task is not believed to have succeeded at once.
Recorded(answer) ==
  IF answer \in {"UNKNOWN", "SUCCEEDED"} THEN "SUBMITTED" ELSE answer

RecordSubmission(p) ==
  LET answer == run[p].answer
      status == IF answer = "lost" /\ run[p].kind = "submit"
                THEN "SUBMIT_UNKNOWN" ELSE "FAILED"
  IN /\ run[p].kind \in {"submit", "live"}
     /\ at[p] = "recording"
     /\ \/ /\ answer \in {"lost", "error"}
           /\ Write(Key(p), status, "final")
           /\ End(p, Refusal(p))
           /\ UNCHANGED told
        \/ /\ answer \in RemoteStatuses \cup {"UNKNOWN"}
           /\ tasks' = [tasks EXCEPT ![Key(p)] =
                          [status |-> Recorded(answer), provider |-> TRUE,
                           error |-> IF answer = "FAILED" THEN "final"
                                     ELSE "none"]]
           /\ End(p, "succeeded")
           /\ told' = [told EXCEPT ![Key(p)] = Recorded(answer)]
     /\ UNCHANGED <<artifacts, files, jobs, remote, asks>>

(***************************************************************************)
(* Refresh: the handler and VideoRenderExecutionService.refresh.           *)
(***************************************************************************)
\* The digest was frozen while the task could be refreshed, so a task that
\* still has it can be: the early returns of refresh are out of its reach.
StartRefresh(p) ==
  \E job \in {j \in queue : j.kind = "refresh"} :
    /\ queue' = queue \ {job}
    /\ IF job.digest = TaskDigest(job.key)
       THEN Begin(p, "claiming",
                  NewRun("refresh", job.key, tasks[job.key].status))
       ELSE Begin(p, "idle", Over("failed"))
    /\ UNCHANGED <<table, inputs, submitted, refreshes, provider>>

\* Mutant: any status that can be refreshed may be claimed.
ClaimAnyRefreshable(row, previous) == row.status \in Refreshable /\ row.provider
MayClaimRefresh(row, previous) == row.status = previous /\ row.provider

ClaimRefresh(p) ==
  /\ run[p].kind = "refresh"
  /\ at[p] = "claiming"
  /\ \/ /\ MayClaimRefresh(TaskOf(p), run[p].previous)
        /\ Write(Key(p), "REFRESHING", "none")
        /\ Move(p, "claiming", "announcing")
        /\ UNCHANGED run
     \/ /\ ~MayClaimRefresh(TaskOf(p), run[p].previous)
        /\ End(p, "failed")
        /\ UNCHANGED tasks
  /\ UNCHANGED <<artifacts, files, jobs, provider>>

AskFetch(p) ==
  /\ run[p].kind = "refresh"
  /\ Move(p, "asking", "recording")
  /\ \E answer \in FetchAnswers :
       /\ answer \in RemoteStatuses => answer = remote[Key(p)]
       /\ run' = [run EXCEPT ![p].answer = answer]
       /\ told' = IF answer \in RemoteStatuses
                  THEN [told EXCEPT ![Key(p)] = answer] ELSE told
  /\ UNCHANGED <<table, jobs, remote, asks>>

\* update_status after a refresh that told nothing.
Restore(p, error) == Write(Key(p), run[p].previous, error)

RecordRefresh(p) ==
  LET answer == run[p].answer
  IN /\ run[p].kind = "refresh"
     /\ at[p] = "recording"
     /\ \/ /\ answer = "error"
           /\ Restore(p, "refresh_failed")
           /\ End(p, "failed")
        \/ /\ answer = "invalid"
           /\ Restore(p, "refresh_invalid")
           /\ End(p, "failed")
        \/ /\ answer \in RemoteStatuses \ {"SUCCEEDED"}
           /\ Write(Key(p), answer, IF answer = "FAILED" THEN "final" ELSE "none")
           /\ End(p, "succeeded")
        \/ /\ answer = "SUCCEEDED"
           /\ Move(p, "recording", "downloading")
           /\ UNCHANGED <<tasks, run>>
     /\ UNCHANGED <<artifacts, files, jobs, provider>>

(***************************************************************************)
(* _persist_succeeded_video: download, store, and finalize in one commit.  *)
(***************************************************************************)
Download(p) ==
  /\ at[p] = "downloading"
  /\ \/ /\ Move(p, "downloading", "finalizing")
        /\ files' = files \cup {Key(p)}
        /\ UNCHANGED <<tasks, run>>
     \/ /\ Write(Key(p), "ARTIFACT_PERSIST_FAILED", "final")
        /\ End(p, "failed")
        /\ UNCHANGED files
  /\ UNCHANGED <<artifacts, jobs, provider>>

\* Mutant: the artifact is committed before the task.
FinalizeArtifactOnly(p) ==
  artifacts' = artifacts \cup {Key(p)} /\ UNCHANGED tasks
\* finalize_succeeded: one commit for the artifact and the task.
FinalizeSucceeded(p) ==
  /\ artifacts' = artifacts \cup {Key(p)}
  /\ Write(Key(p), "SUCCEEDED", "none")

Finalize(p) ==
  /\ at[p] = "finalizing"
  /\ FinalizeSucceeded(p)
  /\ End(p, "succeeded")
  /\ UNCHANGED <<files, jobs, provider>>

\* Mutant: the file stays where it is.
FileKept(p) == files
\* artifact_storage.delete of the file just stored.
FileDeleted(p) == files \ {Key(p)}

\* The commit fails: rollback, and the file goes first.
FinalizeFails(p) ==
  /\ "write" \in Faults
  /\ Move(p, "finalizing", "abandoning")
  /\ files' = FileDeleted(p)
  /\ UNCHANGED <<tasks, artifacts, jobs, run, provider>>

Abandon(p) ==
  /\ at[p] = "abandoning"
  /\ Write(Key(p), "ARTIFACT_PERSIST_FAILED", "final")
  /\ End(p, "failed")
  /\ UNCHANGED <<artifacts, files, jobs, provider>>

(***************************************************************************)
(* Faults: a commit that raises, which no one catches, and a dead process. *)
(***************************************************************************)
WriteFails(p) ==
  /\ "write" \in Faults
  /\ at[p] \in {"inserting", "claiming", "recording", "downloading", "abandoning"}
  /\ End(p, "raised")
  /\ UNCHANGED <<table, jobs, provider>>

Crash(p) ==
  /\ "crash" \in Faults
  /\ at[p] # "idle"
  /\ End(p, "none")
  /\ UNCHANGED <<table, jobs, provider>>

\* The provider works on what it accepted.
RemoteStep(k) ==
  /\ \/ remote[k] = "PENDING" /\ remote' = [remote EXCEPT ![k] = "RUNNING"]
     \/ /\ remote[k] = "RUNNING"
        /\ \E status \in {"SUCCEEDED", "FAILED", "CANCELED"} :
             remote' = [remote EXCEPT ![k] = status]
  /\ UNCHANGED <<table, jobs, callers, asks, told>>

Init ==
  /\ tasks = [k \in Keys |-> NoTask]
  /\ artifacts = {}
  /\ files = {}
  /\ inputs = 0
  /\ queue = {}
  /\ submitted = {}
  /\ refreshes = 0
  /\ at = [p \in Callers |-> "idle"]
  /\ run = [p \in Callers |-> NoRun]
  /\ remote = [k \in Keys |-> "none"]
  /\ asks = [k \in Keys |-> 0]
  /\ told = [k \in Keys |-> "none"]

\* The steps a caller takes by itself once it has begun.
Proceed(p) ==
  \/ Lookup(p) \/ Insert(p)
  \/ ClaimSubmission(p) \/ AskSubmit(p) \/ RecordSubmission(p)
  \/ ClaimRefresh(p) \/ AskFetch(p) \/ RecordRefresh(p)
  \/ Announce(p)
  \/ Download(p) \/ Finalize(p) \/ Abandon(p)

Start(p) ==
  \/ StartSubmit(p) \/ StartRefresh(p) \/ StartLive(p)
  \/ \E k \in Keys : StartCreate(p, k)

Fault(p) ==
  \/ AnnounceInterrupted(p) \/ FinalizeFails(p) \/ WriteFails(p) \/ Crash(p)

Next ==
  \/ \E p \in Callers : Start(p) \/ Proceed(p) \/ Fault(p)
  \/ EditProduct \/ EnqueueSubmit
  \/ \E k \in Keys : EnqueueRefresh(k) \/ RemoteStep(k)

Spec == Init /\ [][Next]_vars

(***************************************************************************)
(* What the recovery endpoint tells a user about a task                    *)
(* (build_recovery_decision, _artifact_state).                             *)
(***************************************************************************)
\* Mutant: a task without a provider's id may always be continued.
ContinueWithoutStatus(row) == row.status # "NONE" /\ ~row.provider
ContinueAllowed(row) == row.status = "CREATED" /\ ~row.provider
RefreshAllowed(row) == row.status \in Refreshable /\ row.provider
ArtifactAvailable(k) ==
  tasks[k].status = "SUCCEEDED" /\ k \in artifacts /\ k \in files

\* RENDER_TASK_TRANSITIONS: what transition_status lets pass.
Declared ==
  [NONE |-> {"CREATED"},
   CREATED |-> {"SUBMITTING", "SUBMITTED", "CANCELED"},
   SUBMITTING |-> {"SUBMITTED", "PENDING", "RUNNING", "FAILED", "SUBMIT_UNKNOWN"},
   SUBMITTED |-> {"REFRESHING", "PENDING", "RUNNING", "SUCCEEDED", "FAILED",
                  "CANCELED", "ARTIFACT_PERSIST_FAILED"},
   PENDING |-> {"REFRESHING", "RUNNING", "SUCCEEDED", "FAILED", "CANCELED",
                "ARTIFACT_PERSIST_FAILED"},
   RUNNING |-> {"REFRESHING", "SUCCEEDED", "FAILED", "CANCELED",
                "ARTIFACT_PERSIST_FAILED"},
   REFRESHING |-> {"SUBMITTED", "PENDING", "RUNNING", "SUCCEEDED", "FAILED",
                   "ARTIFACT_PERSIST_FAILED"},
   SUBMIT_UNKNOWN |-> {}, ARTIFACT_PERSIST_FAILED |-> {}, SUCCEEDED |-> {},
   FAILED |-> {}, CANCELED |-> {}]

Changes(k) == tasks'[k].status # tasks[k].status

-----------------------------------------------------------------------------
\* Shape of the state.
TypeOK ==
  /\ tasks \in [Keys -> Task]
  /\ artifacts \subseteq Keys
  /\ files \subseteq Keys
  /\ inputs \in 0..MaxEdits
  /\ submitted \subseteq 0..MaxEdits
  /\ refreshes \in 0..MaxRefreshes
  /\ queue \subseteq
       [kind : {"submit"}, inputs : 0..MaxEdits] \cup
       [kind : {"refresh"}, key : Keys, digest : Digest, request : Nat]
  /\ at \in [Callers -> Places]
  /\ run \in [Callers -> Run]
  /\ remote \in [Keys -> RemoteStatuses \cup {"none"}]
  /\ asks \in [Keys -> Nat]
  /\ told \in [Keys -> Statuses \cup {"none"}]

\* A render task is submitted to the provider once at most, whichever jobs and
\* requests meet on it, and whichever of them die, lose their lease or fail to
\* write (the claim of submit, video_render_execution_service.py).
SubmittedOnce == \A k \in Keys : asks[k] <= 1

\* A run that has claimed a task and not yet given it back.
Holds(p, k) ==
  /\ Key(p) = k
  /\ at[p] \in {"announcing", "asking", "recording", "downloading",
                "finalizing", "abandoning"}
HeldStatus(p) ==
  IF run[p].kind = "refresh" THEN "REFRESHING" ELSE "SUBMITTING"

\* The writes after a claim look at nothing, so they are right only while the
\* claim is: one run holds a task, and the status shows its claim.
ClaimsAreExclusive ==
  \A k \in Keys : \A p, q \in Callers :
    /\ Holds(p, k) => tasks[k].status = HeldStatus(p)
    /\ Holds(p, k) /\ Holds(q, k) => p = q

\* A task that waits to be refreshed shows the last thing the provider said of
\* it: a failed refresh restores no status that was overtaken.
TasksMirrorTheProvider ==
  \A k \in Keys : tasks[k].status \in Refreshable => tasks[k].status = told[k]

\* The recovery endpoint invites a user to continue a submission only when the
\* provider was never sent it, and to refresh only a render the provider holds.
AdviceIsSafe ==
  \A k \in Keys :
    /\ ContinueAllowed(tasks[k]) => asks[k] = 0
    /\ RefreshAllowed(tasks[k]) => remote[k] # "none"

\* A task has an artifact exactly when it SUCCEEDED, and then the video can be
\* served: no half of finalize_succeeded is ever seen.
ArtifactsAreWhole ==
  \A k \in Keys :
    (tasks[k].status = "SUCCEEDED") = (k \in artifacts)
      /\ (k \in artifacts => ArtifactAvailable(k))

\* While no process dies, a stored video belongs to an artifact or to the run
\* that is about to make one: a failed commit leaves no file behind.
NoFileIsOrphaned ==
  \A k \in files \ artifacts : \E p \in Callers : Holds(p, k) /\ at[p] = "finalizing"

\* What a submit job reports can be relied on: a run that reports a failure
\* submitted nothing, and one that submitted and succeeded left the provider's
\* id in the task.
SubmitReportsAreTrue ==
  [][\A p \in Callers :
       run[p].kind = "submit" /\ run[p].asked /\ at'[p] = "idle" =>
         /\ run'[p].result # "failed"
         /\ run'[p].result = "succeeded" => tasks'[Key(p)].provider]_vars

\* A task that has ended is never changed again, also not by a run that read
\* it before.
EndedTasksStay ==
  [][\A k \in Keys : tasks[k].status \in Terminal => ~Changes(k)]_vars

\* Every change of status is one RENDER_TASK_TRANSITIONS declares, but for a
\* render the provider canceled: CANCELED is written over a claim, which the
\* table does not provide for and nothing consults.
DeclaredUnlessCanceled ==
  [][\A k \in Keys : Changes(k) =>
       tasks'[k].status \in Declared[tasks[k].status] \cup {"CANCELED"}]_vars

\* A run that reports an outcome has given back the task it claimed, on every
\* error path of the handlers: only one that raises or dies may keep it claimed.
ReportsEndClaims ==
  [][\A p \in Callers, k \in Keys :
       Holds(p, k) /\ at'[p] = "idle" /\ run'[p].result \in {"succeeded", "failed"} =>
         tasks'[k].status \notin Claims]_vars
=============================================================================
