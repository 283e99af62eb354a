---------------------------- MODULE Publications ----------------------------
(***************************************************************************)
(* The publication of one video on one platform: the requests that create  *)
(* a PublishTask and its jobs, and the handlers of these jobs, which submit *)
(* the video, refresh the status and, on Instagram, make the post public.  *)
(*                                                                         *)
(* A run is a handler at work on a job.  Every job may be attempted once    *)
(* (max_attempts is 1) and the jobs of a task share a concurrency key, so   *)
(* two of them are never RUNNING; but a run whose lease ran out goes on     *)
(* until it next announces a provider call, next to the run of another job. *)
(***************************************************************************)
EXTENDS Naturals, FiniteSets

CONSTANTS
  MaxRequests,   \* bound: requests to publish this video, each with a preflight
  MaxFollowUps,  \* bound: refresh and finalize jobs
  MaxOutliving,  \* bound: runs that go on after their lease, at a time
  Edits,         \* what the user may change behind a request
  Faults         \* what may go wrong: "crash", "stop", "write"

ASSUME PublicationBounds == MaxRequests \in Nat \ {0} /\ MaxFollowUps \in Nat
ASSUME PublicationOutliving == MaxOutliving \in Nat
ASSUME PublicationEdits ==
  Edits \subseteq {"account", "product", "artifact", "snapshot"}
ASSUME PublicationFaults == Faults \subseteq {"crash", "stop", "write"}

Platforms == {"instagram", "tiktok", "youtube"}
Requests  == 1..MaxRequests
FollowUps == MaxRequests + 1 .. MaxRequests + MaxFollowUps
JobIds    == Requests \cup FollowUps

VARIABLES
  platform,   \* the platform of the account
  changed,    \* what is not as it was when the user had the video checked
  request,    \* how far each request to publish has come
  task,       \* the row of publish_tasks
  jobs,       \* the jobs of the task
  run,        \* the handler at work on each job
  remote,     \* what has become of the video at the platform
  sent,       \* calls of each kind the platform accepted
  late        \* a run wrote the task after its lease was lost

vars == <<platform, changed, request, task, jobs, run, remote, sent, late>>
provider == <<remote, sent>>

Statuses == {"NONE", "CREATED", "UPLOADING", "SUBMITTED", "PROCESSING",
             "READY_TO_PUBLISH", "SUCCEEDED", "FAILED", "SUBMIT_UNKNOWN"}
Ended == {"SUCCEEDED", "FAILED", "SUBMIT_UNKNOWN"}

\* session: the container or upload session, with its id, is stored; video: the
\* platform's id of the video is; preflight: the request it was checked for.
Task == [status : Statuses, session : BOOLEAN, video : BOOLEAN,
         preflight : 0..MaxRequests]
NoTask == [status |-> "NONE", session |-> FALSE, video |-> FALSE, preflight |-> 0]

\* external: external_submission_possible of its attempt; frozen: the status
\* that the digest of a refresh covers.
Job == [kind : {"none", "submit", "refresh", "finalize"},
        status : {"none", "QUEUED", "RUNNING", "SUCCEEDED", "FAILED", "SUBMIT_UNKNOWN"},
        external : BOOLEAN, preflight : 0..MaxRequests, frozen : Statuses]
NoJob == [kind |-> "none", status |-> "none", external |-> FALSE,
          preflight |-> 0, frozen |-> "NONE"]

Places == {"none", "begin", "open?", "open", "store", "upload?", "upload", "finish",
           "doubt", "refuse", "fetch", "apply", "publish?", "publish", "close",
           "report"}
Answers == {"none", "processing", "finished", "failed"}

\* seen: the status as loaded; result: what the handler makes of it.
Run == [at : Places, seen : Statuses, answer : Answers,
        result : {"none", "succeeded", "failed", "unknown", "raised"}]
NoRun == [at |-> "none", seen |-> "NONE", answer |-> "none", result |-> "none"]

PTypeOK ==
  /\ platform \in Platforms
  /\ changed \in Edits \cup {"nothing"}
  /\ request \in [Requests -> {"new", "checked", "prepared", "done"}]
  /\ task \in Task
  /\ jobs \in [JobIds -> Job]
  /\ run \in [JobIds -> Run]
  /\ remote \in {"none", "open", "received", "finished", "failed", "published"}
  /\ sent \in [{"open", "upload", "publish"} -> Nat]
  /\ late \in BOOLEAN

Init ==
  /\ platform \in Platforms
  /\ changed = "nothing"
  /\ request = [r \in Requests |-> "new"]
  /\ task = NoTask
  /\ jobs = [j \in JobIds |-> NoJob]
  /\ run = [j \in JobIds |-> NoRun]
  /\ remote = "none"
  /\ sent = [k \in {"open", "upload", "publish"} |-> 0]
  /\ late = FALSE

-----------------------------------------------------------------------------
(* What the digests cover *)

Intact(sources) == changed \notin sources

\* freeze of each platform: YouTube does not look at the data of the product,
\* and only TikTok has a snapshot of what the creator may do.
FrozenInstagram == Intact({"account", "product", "artifact"})
FrozenTikTok    == Intact({"account", "artifact", "snapshot"})
FrozenYouTube   == Intact({"account", "artifact"})

\* The user edits, disconnects or waits, and may undo it.
Change ==
  /\ changed' \in Edits \cup {"nothing"}
  /\ changed' # changed
  /\ changed = "nothing" \/ changed' = "nothing"
  /\ UNCHANGED <<platform, request, task, jobs, run, provider, late>>

-----------------------------------------------------------------------------
(* enqueue_submit *)

\* Mutant: the idempotency key covers the preflight, which differs in its expiry.
JobOfPreflight(r) == r
\* The job of a request: its idempotency key is made of the input alone.
JobOf(r) == 1

Exists(r) == jobs[JobOf(r)] # NoJob

Progress(r, from, to) ==
  /\ request[r] = from
  /\ request' = [request EXCEPT ![r] = to]

\* A job that exists is returned, or refused as that of another input: nothing is
\* changed.  Requests are numbered in the order in which they get past this.
Check(p, r, frozen) ==
  /\ platform = p
  /\ \A i \in Requests : i < r => request[i] # "new"
  /\ ~Exists(r)
  /\ frozen
  /\ Progress(r, "new", "checked")
  /\ UNCHANGED <<platform, changed, task, jobs, run, provider, late>>

CheckInstagram(r) == Check("instagram", r, FrozenInstagram)
CheckTikTok(r)    == Check("tiktok", r, FrozenTikTok)
CheckYouTube(r)   == Check("youtube", r, FrozenYouTube)

CreatedTask(r) == [NoTask EXCEPT !.status = "CREATED", !.preflight = r]
SubmitJob(r) ==
  [NoJob EXCEPT !.kind = "submit", !.status = "QUEUED", !.preflight = r]

\* The task is committed before its job exists; a task that is there is adopted.
Prepare(p, r) ==
  /\ platform = p
  /\ Progress(r, "checked", "prepared")
  /\ task' = IF task = NoTask THEN CreatedTask(r) ELSE task
  /\ UNCHANGED <<platform, changed, jobs, run, provider, late>>

PrepareInstagram(r) == Prepare("instagram", r)
PrepareYouTube(r)   == Prepare("youtube", r)

CreateJob(r) ==
  /\ Progress(r, "prepared", "done")
  /\ jobs' = IF Exists(r) THEN jobs ELSE [jobs EXCEPT ![JobOf(r)] = SubmitJob(r)]
  /\ UNCHANGED <<platform, changed, task, run, provider, late>>

\* TikTok commits both at once; the unique keys let one request pass.
CreateTikTok(r) ==
  /\ platform = "tiktok"
  /\ Progress(r, "checked", "done")
  /\ \/ /\ task = NoTask /\ ~Exists(r)
        /\ task' = CreatedTask(r)
        /\ jobs' = [jobs EXCEPT ![JobOf(r)] = SubmitJob(r)]
     \/ /\ task # NoTask \/ Exists(r)
        /\ UNCHANGED <<task, jobs>>
  /\ UNCHANGED <<platform, changed, run, provider, late>>

RequestDies(r) ==
  /\ "crash" \in Faults
  /\ request[r] \in {"checked", "prepared"}
  /\ request' = [request EXCEPT ![r] = "done"]
  /\ UNCHANGED <<platform, changed, task, jobs, run, provider, late>>

-----------------------------------------------------------------------------
(* enqueue_refresh and enqueue_finalize *)

FollowUp(j, kind) ==
  /\ j \in FollowUps
  /\ jobs[j] = NoJob
  /\ \A i \in FollowUps : i < j => jobs[i] # NoJob
  /\ jobs' = [jobs EXCEPT ![j] = [NoJob EXCEPT !.kind = kind, !.status = "QUEUED",
                                               !.frozen = task.status]]
  /\ UNCHANGED <<platform, changed, request, task, run, provider, late>>

RefreshInstagram(j) ==
  /\ platform = "instagram"
  /\ task.status = "PROCESSING" /\ task.session
  /\ FollowUp(j, "refresh")

RefreshTikTok(j) ==
  /\ platform = "tiktok"
  /\ task.status = "PROCESSING" /\ task.session
  /\ FollowUp(j, "refresh")

RefreshYouTube(j) ==
  /\ platform = "youtube"
  /\ task.status \in {"SUBMITTED", "PROCESSING"} /\ task.video
  /\ FollowUp(j, "refresh")

FinalizeInstagram(j) ==
  /\ platform = "instagram"
  /\ task.status = "READY_TO_PUBLISH" /\ task.session
  /\ Intact({"account"})
  /\ FollowUp(j, "finalize")

-----------------------------------------------------------------------------
(* The queue and the worker, as far as a handler meets them *)

At(j, place) == run[j].at = place
Goto(j, place) == run' = [run EXCEPT ![j].at = place]
Report(j, result) ==
  run' = [run EXCEPT ![j] = [@ EXCEPT !.at = "report", !.result = result]]

Claim(j) ==
  /\ jobs[j].status = "QUEUED"
  /\ \A i \in JobIds : jobs[i].status # "RUNNING"
  /\ jobs' = [jobs EXCEPT ![j].status = "RUNNING"]
  /\ run' = [run EXCEPT ![j] = [NoRun EXCEPT !.at = "begin"]]
  /\ UNCHANGED <<platform, changed, request, task, provider, late>>

\* How a job ends that has no certain outcome.
Uncertain(j) == IF jobs[j].external THEN "SUBMIT_UNKNOWN" ELSE "FAILED"

Outliving == {j \in JobIds : ~At(j, "none") /\ jobs[j].status # "RUNNING"}

LeaseEnds(j) ==
  /\ jobs[j].status = "RUNNING"
  /\ At(j, "none") \/ Cardinality(Outliving) < MaxOutliving
  /\ jobs' = [jobs EXCEPT ![j].status = Uncertain(j)]
  /\ UNCHANGED <<platform, changed, request, task, run, provider, late>>

\* Mutant: the job takes the word of the handler for its status.
RawOutcome(j) == run[j].result
Outcome(j) ==
  CASE run[j].result = "succeeded" -> "SUCCEEDED"
    [] run[j].result = "unknown"   -> "SUBMIT_UNKNOWN"
    [] OTHER                       -> Uncertain(j)

\* The worker reports; a lease that is lost makes it keep silent.
Finalize(j) ==
  /\ At(j, "report")
  /\ jobs' = IF jobs[j].status = "RUNNING" THEN [jobs EXCEPT ![j].status = Outcome(j)]
             ELSE jobs
  /\ run' = [run EXCEPT ![j] = NoRun]
  /\ UNCHANGED <<platform, changed, request, task, provider, late>>

Crash(j) ==
  /\ "crash" \in Faults
  /\ ~At(j, "none")
  /\ run' = [run EXCEPT ![j] = NoRun]
  /\ UNCHANGED <<platform, changed, request, task, jobs, provider, late>>

\* before_provider_call raises: the lease is lost, or the worker is to stop.
Interrupted(j) == jobs[j].status # "RUNNING" \/ "stop" \in Faults

\* Mutant: the call is announced once it is made.
AnnouncedLater(j, from, to) ==
  At(j, from) /\ jobs[j].status = "RUNNING" /\ Goto(j, to) /\ UNCHANGED jobs
\* ... or it lets the submission pass, now on record.
Announced(j, from, to) ==
  /\ At(j, from)
  /\ jobs[j].status = "RUNNING"
  /\ jobs' = [jobs EXCEPT ![j].external = TRUE]
  /\ Goto(j, to)

Writes(j, row) ==
  /\ task' = row
  /\ late' = (late \/ jobs[j].status # "RUNNING")
Untouched == UNCHANGED <<task, late>>
NotWritten == "write" \in Faults /\ Untouched
SetStatus(j, status) == Writes(j, [task EXCEPT !.status = status])

\* Instagram's marks and TikTok's _unknown swallow an error of the commit ...
MarkOrSwallow(j, status, result) ==
  /\ SetStatus(j, status) \/ NotWritten
  /\ Report(j, result)

\* ... YouTube's marks and TikTok's _failed pass it on.
MarkOrRaise(j, status, result) ==
  \/ SetStatus(j, status) /\ Report(j, result)
  \/ NotWritten /\ Report(j, "raised")

-----------------------------------------------------------------------------
(* The submit handlers: validation *)

\* An access token that is due is refreshed: a lease that is lost, or a stop, is
\* noticed by then, and raised.
MayGo(j, place) == Goto(j, place) \/ (Interrupted(j) /\ Report(j, "raised"))

InstagramBegins(j) ==
  /\ platform = "instagram" /\ jobs[j].kind = "submit" /\ At(j, "begin")
  /\ \/ ~FrozenInstagram /\ MarkOrSwallow(j, "FAILED", "failed")
     \/ /\ FrozenInstagram
        /\ \/ /\ task.session /\ task.status = "PROCESSING"
              /\ Report(j, "succeeded") /\ Untouched
           \/ /\ task.session /\ task.status # "PROCESSING"
              /\ MarkOrSwallow(j, "SUBMIT_UNKNOWN", "unknown")
           \/ /\ ~task.session /\ task.status # "CREATED"
              /\ MarkOrSwallow(j, "FAILED", "failed")
           \/ /\ ~task.session /\ task.status = "CREATED"
              /\ Goto(j, "open?") /\ Untouched
  /\ UNCHANGED <<platform, changed, request, jobs, provider>>

TikTokBegins(j) ==
  /\ platform = "tiktok" /\ jobs[j].kind = "submit" /\ At(j, "begin")
  /\ \/ /\ task.session \/ task.status \in {"UPLOADING", "PROCESSING", "SUBMIT_UNKNOWN"}
        /\ MarkOrSwallow(j, "SUBMIT_UNKNOWN", "unknown")
     \/ /\ ~task.session
        /\ task.status \notin {"UPLOADING", "PROCESSING", "SUBMIT_UNKNOWN"}
        /\ IF FrozenTikTok /\ task.preflight = jobs[j].preflight
           THEN MayGo(j, "open?") /\ Untouched
           ELSE MarkOrRaise(j, "FAILED", "failed")
  /\ UNCHANGED <<platform, changed, request, jobs, provider>>

\* A mismatch leaves YouTube's task as it is.
YouTubeBegins(j) ==
  /\ platform = "youtube" /\ jobs[j].kind = "submit" /\ At(j, "begin")
  /\ IF ~FrozenYouTube \/ task.preflight # jobs[j].preflight
     THEN Report(j, "failed") /\ Untouched
     ELSE \/ /\ task.status = "SUBMITTED" /\ task.video
             /\ Report(j, "succeeded") /\ Untouched
          \/ /\ task.status \in {"UPLOADING", "SUBMIT_UNKNOWN"} \/ task.session
             /\ ~(task.status = "SUBMITTED" /\ task.video)
             /\ MarkOrRaise(j, "SUBMIT_UNKNOWN", "unknown")
          \/ /\ task.status = "CREATED" /\ ~task.session
             /\ MayGo(j, "open") /\ Untouched
          \/ /\ task.status \in {"FAILED", "PROCESSING", "SUCCEEDED"} /\ ~task.session
             /\ Report(j, "failed") /\ Untouched
  /\ UNCHANGED <<platform, changed, request, jobs, provider>>

-----------------------------------------------------------------------------
(* The submit handlers: the calls of the provider *)

\* Announcing: Instagram's handler lets the exception pass, TikTok's marks the task
\* first, YouTube's takes it for an upload in doubt.
InstagramAnnounces(j) ==
  /\ platform = "instagram"
  /\ \E step \in {<<"open?", "open">>, <<"upload?", "upload">>, <<"publish?", "publish">>} :
       \/ Announced(j, step[1], step[2])
       \/ /\ At(j, step[1]) /\ Interrupted(j)
          /\ Report(j, "raised") /\ UNCHANGED jobs
  /\ UNCHANGED <<platform, changed, request, task, provider, late>>

TikTokAnnounces(j) ==
  /\ platform = "tiktok"
  /\ \E step \in {<<"open?", "open">>, <<"upload?", "upload">>} :
       \/ Announced(j, step[1], step[2]) /\ Untouched
       \/ /\ At(j, step[1]) /\ Interrupted(j)
          /\ MarkOrSwallow(j, "SUBMIT_UNKNOWN", "raised") /\ UNCHANGED jobs
  /\ UNCHANGED <<platform, changed, request, provider>>

YouTubeAnnounces(j) ==
  /\ platform = "youtube"
  /\ \/ Announced(j, "upload?", "upload")
     \/ At(j, "upload?") /\ Interrupted(j) /\ Goto(j, "doubt") /\ UNCHANGED jobs
  /\ UNCHANGED <<platform, changed, request, task, provider, late>>

\* The platform does what it is asked, and the answer arrives or is lost; or it does not.
Ask(j, kind, becomes, answered, failed) ==
  /\ \/ /\ sent' = [sent EXCEPT ![kind] = @ + 1]
        /\ remote' = becomes
        /\ Goto(j, answered) \/ Goto(j, failed)
     \/ /\ UNCHANGED provider
        /\ Goto(j, failed)
  /\ UNCHANGED <<platform, changed, request, task, jobs, late>>

CreateContainer(j) ==
  platform = "instagram" /\ At(j, "open") /\ Ask(j, "open", "open", "store", "doubt")
InitializePost(j) ==
  platform = "tiktok" /\ At(j, "open") /\ Ask(j, "open", "open", "store", "doubt")

\* A session alone publishes nothing: YouTube's handler does not announce it, and a
\* failure, a lost lease and a stop all end the task.
InitiateUpload(j) ==
  /\ platform = "youtube" /\ At(j, "open")
  /\ \/ jobs[j].status = "RUNNING" /\ Ask(j, "open", "open", "store", "refuse")
     \/ /\ Interrupted(j) /\ Goto(j, "refuse")
        /\ UNCHANGED <<platform, changed, request, task, jobs, provider, late>>

StoreSession(j) ==
  /\ At(j, "store")
  /\ \/ Writes(j, [[task EXCEPT !.status = "UPLOADING"] EXCEPT !.session = TRUE])
        /\ Goto(j, "upload?")
     \/ NotWritten /\ Goto(j, "doubt")
  /\ UNCHANGED <<platform, changed, request, jobs, provider>>

UploadReel(j) ==
  platform = "instagram" /\ At(j, "upload") /\ Ask(j, "upload", "received", "finish", "doubt")
UploadMedia(j) ==
  platform = "youtube" /\ At(j, "upload") /\ Ask(j, "upload", "received", "finish", "doubt")

\* One chunk, or the last one.
UploadChunk(j) ==
  /\ platform = "tiktok" /\ At(j, "upload")
  /\ \/ /\ Goto(j, "upload?")
        /\ UNCHANGED <<platform, changed, request, task, jobs, provider, late>>
     \/ Ask(j, "upload", "received", "finish", "doubt")

\* What the upload makes of the task.
Submitted(t) ==
  IF platform = "youtube"
  THEN [[t EXCEPT !.status = "SUBMITTED"] EXCEPT !.video = TRUE]
  ELSE [t EXCEPT !.status = "PROCESSING"]

FinishSubmit(j) ==
  /\ At(j, "finish")
  /\ \/ Writes(j, Submitted(task)) /\ Report(j, "succeeded")
     \/ NotWritten /\ Goto(j, "doubt")
  /\ UNCHANGED <<platform, changed, request, jobs, provider>>

\* Mutant: an error of the provider is a failure.
DoubtIsFailure(j) == MarkOrSwallow(j, "FAILED", "failed")
\* An outcome in doubt, of a submission or a publication.
MarkUnknown(j) ==
  IF platform = "youtube" THEN MarkOrRaise(j, "SUBMIT_UNKNOWN", "unknown")
                          ELSE MarkOrSwallow(j, "SUBMIT_UNKNOWN", "unknown")

EndInDoubt(j) ==
  /\ At(j, "doubt")
  /\ MarkUnknown(j)
  /\ UNCHANGED <<platform, changed, request, jobs, provider>>

EndRefused(j) ==
  /\ At(j, "refuse")
  /\ MarkOrRaise(j, "FAILED", "failed")
  /\ UNCHANGED <<platform, changed, request, jobs, provider>>

-----------------------------------------------------------------------------
(* The refresh handlers *)

BeginRefresh(j, p, ready) ==
  /\ platform = p /\ jobs[j].kind = "refresh" /\ At(j, "begin")
  /\ IF ready THEN run' = [run EXCEPT ![j] = [@ EXCEPT !.at = "fetch", !.seen = task.status]]
              ELSE Report(j, "failed")
  /\ UNCHANGED <<platform, changed, request, task, jobs, provider, late>>

\* YouTube refreshes for an account that is not connected any more.
InstagramRefreshes(j) ==
  BeginRefresh(j, "instagram", task.status = "PROCESSING" /\ Intact({"account"}))
TikTokRefreshes(j) ==
  BeginRefresh(j, "tiktok", task.status = "PROCESSING" /\ Intact({"account"}))
YouTubeRefreshes(j) == BeginRefresh(j, "youtube", task.status = jobs[j].frozen)

\* A post that is public has no status that Instagram's adapter knows.
StatusOfVideo ==
  CASE remote = "finished" -> {"finished"}
    [] remote = "failed"   -> {"failed"}
    [] remote = "received" -> {"processing"}
    [] OTHER               -> {}

FetchStatus(j) ==
  /\ At(j, "fetch")
  /\ \/ Interrupted(j) /\ Report(j, "raised")
     \/ jobs[j].status = "RUNNING" /\ Report(j, "failed")
     \/ /\ jobs[j].status = "RUNNING"
        /\ \E answer \in StatusOfVideo :
             run' = [run EXCEPT ![j] = [@ EXCEPT !.at = "apply", !.answer = answer]]
  /\ UNCHANGED <<platform, changed, request, task, jobs, provider, late>>

Applied(p, finished, answer) ==
  CASE answer = "finished" -> finished
    [] answer = "failed"   -> "FAILED"
    [] OTHER               -> "PROCESSING"

\* Nothing is compared with the row as it is by now, and a status that is the one
\* loaded is not written at all.
ApplyStatus(j, p, finished) ==
  /\ platform = p /\ At(j, "apply")
  /\ LET status == Applied(p, finished, run[j].answer)
     IN \/ /\ IF status = run[j].seen THEN Untouched ELSE SetStatus(j, status)
           /\ Report(j, "succeeded")
        \/ NotWritten /\ Report(j, "raised")
  /\ UNCHANGED <<platform, changed, request, jobs, provider>>

ApplyInstagram(j) == ApplyStatus(j, "instagram", "READY_TO_PUBLISH")
ApplyTikTok(j)    == ApplyStatus(j, "tiktok", "SUCCEEDED")
ApplyYouTube(j)   == ApplyStatus(j, "youtube", "SUCCEEDED")

-----------------------------------------------------------------------------
(* Instagram's finalize handler *)

\* Mutant: whatever was submitted may be published.
MayPublishSession == task.session
MayPublish == task.status = "READY_TO_PUBLISH" /\ task.session /\ Intact({"account"})

BeginFinalize(j) ==
  /\ jobs[j].kind = "finalize" /\ At(j, "begin")
  /\ IF MayPublish THEN Goto(j, "publish?") ELSE Report(j, "failed")
  /\ UNCHANGED <<platform, changed, request, task, jobs, provider, late>>

PublishReel(j) ==
  /\ At(j, "publish")
  /\ \/ /\ remote \in {"finished", "published"}
        /\ Ask(j, "publish", "published", "close", "doubt")
     \/ /\ Goto(j, "doubt")
        /\ UNCHANGED <<platform, changed, request, task, jobs, provider, late>>

CloseFinalize(j) ==
  /\ At(j, "close")
  /\ \/ /\ Writes(j, [[task EXCEPT !.status = "SUCCEEDED"] EXCEPT !.video = TRUE])
        /\ Report(j, "succeeded")
     \/ NotWritten /\ Goto(j, "doubt")
  /\ UNCHANGED <<platform, changed, request, jobs, provider>>

-----------------------------------------------------------------------------
\* The platform works on the video; a container that is not published expires.
RemoteStep ==
  /\ \/ remote = "received" /\ remote' \in {"finished", "failed"}
     \/ remote = "finished" /\ platform = "instagram" /\ remote' = "failed"
  /\ UNCHANGED <<platform, changed, request, task, jobs, run, sent, late>>

Next ==
  \/ Change \/ RemoteStep
  \/ \E r \in Requests :
       \/ CheckInstagram(r) \/ CheckTikTok(r) \/ CheckYouTube(r)
       \/ PrepareInstagram(r) \/ PrepareYouTube(r) \/ CreateJob(r) \/ CreateTikTok(r)
       \/ RequestDies(r)
  \/ \E j \in FollowUps :
       \/ RefreshInstagram(j) \/ RefreshTikTok(j) \/ RefreshYouTube(j)
       \/ FinalizeInstagram(j)
  \/ \E j \in JobIds :
       \/ Claim(j) \/ LeaseEnds(j) \/ Finalize(j) \/ Crash(j)
       \/ InstagramBegins(j) \/ TikTokBegins(j) \/ YouTubeBegins(j)
       \/ InstagramAnnounces(j) \/ TikTokAnnounces(j) \/ YouTubeAnnounces(j)
       \/ CreateContainer(j) \/ InitializePost(j) \/ InitiateUpload(j)
       \/ StoreSession(j) \/ UploadReel(j) \/ UploadMedia(j) \/ UploadChunk(j)
       \/ FinishSubmit(j) \/ EndInDoubt(j) \/ EndRefused(j)
       \/ InstagramRefreshes(j) \/ TikTokRefreshes(j) \/ YouTubeRefreshes(j)
       \/ FetchStatus(j) \/ ApplyInstagram(j) \/ ApplyTikTok(j) \/ ApplyYouTube(j)
       \/ BeginFinalize(j) \/ PublishReel(j) \/ CloseFinalize(j)

Spec == Init /\ [][Next]_vars

-----------------------------------------------------------------------------
(* Properties *)

\* The video is submitted once, however many requests ask for it, wherever they and
\* the handler die: the job is found by a key made of the input alone.
UploadedOnce == sent["open"] <= 1 /\ sent["upload"] <= 1

\* YouTube's session publishes nothing, the other platforms' is a submission.
SubmissionSent == sent["upload"] > 0 \/ (platform # "youtube" /\ sent["open"] > 0)
InDoubt(j) == jobs[j].kind = "submit" /\ jobs[j].status \in {"RUNNING", "SUBMIT_UNKNOWN"}

\* FAILED, of the task or of its submit job, means that the platform got nothing or
\* that it said the video failed; and a task that looks untouched although the
\* platform got something has a job that is running or in doubt.
FailureMeansNothingSent ==
  SubmissionSent =>
    /\ task.status = "FAILED" => remote = "failed"
    /\ \A j \in Requests : jobs[j].status = "FAILED" => \E i \in Requests : InDoubt(i)
    /\ task.status = "CREATED" => \E j \in Requests : InDoubt(j)

\* A Reel is made public once more only after a publication that ended in doubt (the
\* task is still READY_TO_PUBLISH if its worker died), or after such a late write.
RepublishedInDoubtOnly ==
  late \/ sent["publish"] <=
            1 + Cardinality({j \in FollowUps : /\ jobs[j].kind = "finalize"
                                               /\ jobs[j].status = "SUBMIT_UNKNOWN"})
=============================================================================
