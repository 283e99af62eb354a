------------------------- MODULE PublicationsProofs -------------------------
(***************************************************************************)
(* Proofs about Publications, for any number of requests, of refresh and    *)
(* finalize jobs and of runs that outlive their leases, whatever the user   *)
(* edits and whatever goes wrong.                                           *)
(*                                                                          *)
(* The video has one submit job, and this job one run: every handler step   *)
(* takes the run one place further, so a call is made once.  No other job   *)
(* of the task exists before that run has reported (TaskFollows), and what  *)
(* it announced stays in the row of its attempt (OnRecord), which decides   *)
(* how the job ends whatever becomes of the worker.  A finalize job makes   *)
(* at most one publication, and after one that is certain (Settled) no run  *)
(* that still holds its lease gets as far as another.                       *)
(***************************************************************************)
EXTENDS Publications, FiniteSetTheorems, TLAPS

\* What a job is, by its kind.
KindsFit ==
  \A j \in JobIds :
    /\ jobs[j].status = "none" => jobs[j] = NoJob
    /\ jobs[j].kind = "none" => jobs[j].status = "none"
    /\ jobs[j].kind = "submit" => j = 1
    /\ jobs[j].kind \in {"refresh", "finalize"} => j \in FollowUps
    /\ jobs[j].kind = "finalize" => platform = "instagram"

Submitting == {"open?", "open", "store", "upload?", "upload", "finish", "refuse"}
Publishing == {"publish?", "publish", "close"}

\* A job is run once, and where its run may be depends on its kind.
PlacesFit ==
  \A j \in JobIds :
    /\ jobs[j].status \in {"none", "QUEUED"} => At(j, "none") /\ ~jobs[j].external
    /\ run[j].at \in Submitting => jobs[j].kind = "submit"
    /\ run[j].at \in {"fetch", "apply"} => jobs[j].kind = "refresh"
    /\ run[j].at \in Publishing => jobs[j].kind = "finalize"
    /\ run[j].at = "doubt" => jobs[j].kind \in {"submit", "finalize"}
    /\ run[j].at = "refuse" => platform = "youtube"

OneRunning ==
  \A i, j \in JobIds : jobs[i].status = "RUNNING" /\ jobs[j].status = "RUNNING" => i = j

\* The submit run has not called the platform, or has not reported yet.
Waiting == jobs[1].status \in {"none", "QUEUED"} \/ run[1].at \in {"begin", "open?", "open"}
Working ==
  Waiting \/ run[1].at \in {"store", "upload?", "upload", "finish", "doubt", "refuse"}

CallsAreFirst ==
  /\ Waiting => sent["open"] = 0 /\ remote = "none"
  /\ Waiting \/ run[1].at \in {"store", "upload?", "upload", "refuse"}
       => sent["upload"] = 0 /\ remote \in {"none", "open"}

\* What the platform may do was announced.
OnRecord ==
  /\ run[1].at = "open" /\ platform # "youtube" => jobs[1].external
  /\ run[1].at = "upload" => jobs[1].external
  /\ SubmissionSent => jobs[1].external
  /\ \A j \in JobIds : At(j, "publish") => jobs[j].external

TaskFollows ==
  Working => /\ task.status \in {"NONE", "CREATED", "UPLOADING"}
             /\ \A j \in FollowUps : jobs[j] = NoJob

\* How jobs and the task end.
EndsFit ==
  /\ \A j \in JobIds : jobs[j].status = "FAILED" => ~jobs[j].external
  /\ jobs[1].status = "SUCCEEDED" \/ (At(1, "report") /\ run[1].result = "succeeded")
       => task.status \notin {"NONE", "CREATED"}
  /\ \A j \in JobIds : At(j, "apply") /\ run[j].answer = "failed" => remote = "failed"
  /\ task.status = "FAILED" /\ SubmissionSent => remote = "failed"

\* The publications: a job that may have made its one, ...
Publisher(j) == jobs[j].kind = "finalize" /\ jobs[j].external
Spent == {j \in FollowUps : Publisher(j) /\ ~At(j, "publish")}
PublishedOnceEach == sent["publish"] <= Cardinality(Spent)
NotYetOnRecord ==
  \A j \in FollowUps : run[j].at \in {"begin", "publish?"} => ~jobs[j].external

\* ... and one that did, and said so: the task stays SUCCEEDED.
Settled(j) ==
  /\ jobs[j].kind = "finalize"
  /\ \/ jobs[j].status = "SUCCEEDED"
     \/ /\ jobs[j].status = "RUNNING"
        /\ At(j, "report") /\ run[j].result = "succeeded"

SettledStays ==
  late \/ \A j \in FollowUps : Settled(j) =>
            /\ task.status = "SUCCEEDED"
            /\ \A i \in JobIds : jobs[i].status = "RUNNING" =>
                 run[i].at \in {"none", "begin", "report"}

OneCertain ==
  late \/ \A i, j \in FollowUps :
            /\ i # j /\ Publisher(i) /\ Publisher(j)
            /\ jobs[i].status \in {"RUNNING", "SUCCEEDED"}
            => jobs[j].status \notin {"RUNNING", "SUCCEEDED"}

UploadInv ==
  /\ PTypeOK /\ KindsFit /\ PlacesFit /\ OneRunning
  /\ CallsAreFirst /\ UploadedOnce /\ OnRecord /\ TaskFollows /\ EndsFit
PublishInv == PublishedOnceEach /\ NotYetOnRecord /\ SettledStays /\ OneCertain
PInv == UploadInv /\ PublishInv

-----------------------------------------------------------------------------
(***************************************************************************)
(* The steps of a handler.  It moves its run to x, and may put its attempt  *)
(* on record, have the platform do something, or write the task.            *)
(***************************************************************************)
Enters(j, x) ==
  /\ ~At(j, "none") /\ x.at # "none"
  /\ run' = [run EXCEPT ![j] = x]
  /\ platform' = platform

Begins(j, x) ==
  \/ /\ x.at \in {"open?", "open"} /\ jobs[j].kind = "submit"
     /\ x.at = "open" => platform = "youtube"
  \/ /\ x.at = "fetch" /\ jobs[j].kind = "refresh"
     /\ platform = "instagram" => task.status = "PROCESSING"
  \/ /\ x.at = "publish?" /\ jobs[j].kind = "finalize"
     /\ task.status = "READY_TO_PUBLISH"

GivesUp ==
  {<<"open", "doubt">>, <<"open", "refuse">>, <<"store", "doubt">>,
   <<"upload?", "doubt">>, <<"upload", "doubt">>, <<"upload", "upload?">>,
   <<"finish", "doubt">>, <<"publish", "doubt">>, <<"close", "doubt">>}

Moves(j, x) ==
  /\ Enters(j, x)
  /\ UNCHANGED <<task, jobs, provider, late>>
  /\ \/ At(j, "begin") /\ Begins(j, x)
     \/ /\ <<run[j].at, x.at>> \in GivesUp
        /\ x.at = "refuse" => platform = "youtube"
     \/ /\ At(j, "fetch") /\ x.at = "apply"
        /\ x.answer = "failed" => remote = "failed"
     \/ /\ x.at = "report"
        /\ x.result = "succeeded" =>
             \/ jobs[j].kind = "submit" /\ task.status \in {"PROCESSING", "SUBMITTED"}
             \/ At(j, "apply")

Announces(j, x) ==
  /\ Enters(j, x)
  /\ UNCHANGED <<task, provider, late>>
  /\ jobs[j].status = "RUNNING"
  /\ jobs' = [jobs EXCEPT ![j].external = TRUE]
  /\ \/ At(j, "open?") /\ x.at = "open"
     \/ At(j, "upload?") /\ x.at = "upload"
     \/ At(j, "publish?") /\ x.at = "publish"

Sends(j, x) ==
  /\ Enters(j, x)
  /\ UNCHANGED <<task, jobs, late>>
  /\ \/ /\ At(j, "open") /\ x.at \in {"store", "doubt", "refuse"}
        /\ x.at = "refuse" => platform = "youtube"
        /\ sent' = [sent EXCEPT !["open"] = @ + 1] /\ remote' = "open"
     \/ /\ At(j, "upload") /\ x.at \in {"finish", "doubt"}
        /\ sent' = [sent EXCEPT !["upload"] = @ + 1] /\ remote' = "received"
     \/ /\ At(j, "publish") /\ x.at \in {"close", "doubt"}
        /\ sent' = [sent EXCEPT !["publish"] = @ + 1]
        /\ remote \in {"finished", "published"} /\ remote' = "published"

Records(j, x) ==
  /\ Enters(j, x) /\ ~At(j, "report")
  /\ UNCHANGED <<jobs, provider>>
  /\ late' = (late \/ jobs[j].status # "RUNNING")
  /\ task' \in Task /\ task'.status \notin {"NONE", "CREATED"}
  /\ \/ At(j, "store") /\ x.at = "upload?" /\ task'.status = "UPLOADING"
     \/ /\ x.at = "report"
        /\ task'.status = "FAILED" =>
             \/ jobs[j].kind = "submit" /\ run[j].at \in {"begin", "refuse"}
             \/ At(j, "apply") /\ run[j].answer = "failed"
        /\ x.result = "succeeded" => run[j].at \in {"finish", "apply", "close"}
        /\ At(j, "begin") => jobs[j].kind = "submit"
        /\ At(j, "close") => task'.status = "SUCCEEDED"

Handler(j) ==
  \/ InstagramBegins(j) \/ TikTokBegins(j) \/ YouTubeBegins(j)
  \/ InstagramAnnounces(j) \/ TikTokAnnounces(j) \/ YouTubeAnnounces(j)
  \/ CreateContainer(j) \/ InitializePost(j) \/ InitiateUpload(j)
  \/ StoreSession(j) \/ UploadReel(j) \/ UploadMedia(j) \/ UploadChunk(j)
  \/ FinishSubmit(j) \/ EndInDoubt(j) \/ EndRefused(j)
  \/ InstagramRefreshes(j) \/ TikTokRefreshes(j) \/ YouTubeRefreshes(j)
  \/ FetchStatus(j) \/ ApplyInstagram(j) \/ ApplyTikTok(j) \/ ApplyYouTube(j)
  \/ BeginFinalize(j) \/ PublishReel(j) \/ CloseFinalize(j)

HandlerStep(j) ==
  \E x \in Run : Moves(j, x) \/ Announces(j, x) \/ Sends(j, x) \/ Records(j, x)

LEMMA Goes ==
  ASSUME PTypeOK, NEW j \in JobIds, NEW place \in Places, Goto(j, place)
  PROVE  \E x \in Run : run' = [run EXCEPT ![j] = x] /\ x.at = place
<1> DEFINE x == [run[j] EXCEPT !.at = place]
<1>1. run[j] \in Run
  BY DEF PTypeOK
<1>2. x \in Run /\ x.at = place
  BY <1>1 DEF Run
<1>3. run' = [run EXCEPT ![j] = x]
  BY DEF Goto
<1> QED BY <1>2, <1>3

LEMMA Reports ==
  ASSUME PTypeOK, NEW j \in JobIds,
         NEW result \in {"succeeded", "failed", "unknown", "raised"}, Report(j, result)
  PROVE  \E x \in Run :
           run' = [run EXCEPT ![j] = x] /\ x.at = "report" /\ x.result = result
<1> DEFINE x == [run[j] EXCEPT !.at = "report", !.result = result]
<1>1. run[j] \in Run
  BY DEF PTypeOK
<1>2. x \in Run /\ x.at = "report" /\ x.result = result
  BY <1>1 DEF Run, Places
<1>3. run' = [run EXCEPT ![j] = x]
  BY DEF Report
<1> QED BY <1>2, <1>3

\* A status that is written, alone or with the identity that comes with it.
LEMMA WrittenTask ==
  ASSUME NEW t \in Task, NEW s \in Statuses
  PROVE  /\ [t EXCEPT !.status = s] \in Task /\ [t EXCEPT !.status = s].status = s
         /\ [[t EXCEPT !.status = s] EXCEPT !.session = TRUE] \in Task
         /\ [[t EXCEPT !.status = s] EXCEPT !.session = TRUE].status = s
         /\ [[t EXCEPT !.status = s] EXCEPT !.video = TRUE] \in Task
         /\ [[t EXCEPT !.status = s] EXCEPT !.video = TRUE].status = s
<1> DEFINE u == [t EXCEPT !.status = s]
<1>1. u \in Task /\ u.status = s
  BY DEF Task
<1> HIDE DEF u
<1>2. [u EXCEPT !.session = TRUE] \in Task /\ [u EXCEPT !.session = TRUE].status = s
  BY <1>1 DEF Task
<1>3. [u EXCEPT !.video = TRUE] \in Task /\ [u EXCEPT !.video = TRUE].status = s
  BY <1>1 DEF Task
<1> QED BY <1>1, <1>2, <1>3 DEF u

LEMMA MovingIsAStep ==
  ASSUME PTypeOK, NEW j \in JobIds, ~At(j, "none"),
         NEW place \in Places \ {"none", "report", "apply"}, Goto(j, place),
         UNCHANGED <<platform, task, jobs, provider, late>>,
         \/ /\ At(j, "begin")
            /\ \/ /\ place \in {"open?", "open"} /\ jobs[j].kind = "submit"
                  /\ place = "open" => platform = "youtube"
               \/ /\ place = "publish?" /\ jobs[j].kind = "finalize"
                  /\ task.status = "READY_TO_PUBLISH"
         \/ /\ <<run[j].at, place>> \in GivesUp
            /\ place = "refuse" => platform = "youtube"
  PROVE  HandlerStep(j)
<1> PICK x \in Run : run' = [run EXCEPT ![j] = x] /\ x.at = place
  BY Goes
<1>1. Enters(j, x)
  BY DEF Enters
<1>2. \/ At(j, "begin") /\ Begins(j, x)
      \/ <<run[j].at, x.at>> \in GivesUp /\ (x.at = "refuse" => platform = "youtube")
  BY DEF Begins
<1> QED BY <1>1, <1>2 DEF HandlerStep, Moves

LEMMA ReportingIsAStep ==
  ASSUME PTypeOK, NEW j \in JobIds, ~At(j, "none"),
         NEW result \in {"succeeded", "failed", "unknown", "raised"}, Report(j, result),
         UNCHANGED <<platform, task, jobs, provider, late>>,
         result = "succeeded" =>
           \/ jobs[j].kind = "submit" /\ task.status \in {"PROCESSING", "SUBMITTED"}
           \/ At(j, "apply")
  PROVE  HandlerStep(j)
<1> PICK x \in Run :
      run' = [run EXCEPT ![j] = x] /\ x.at = "report" /\ x.result = result
  BY Reports
<1>1. Enters(j, x)
  BY DEF Enters
<1> QED BY <1>1 DEF HandlerStep, Moves

LEMMA RecordingIsAStep ==
  ASSUME PTypeOK, NEW j \in JobIds, ~At(j, "none"), ~At(j, "report"),
         NEW result \in {"succeeded", "failed", "unknown", "raised"}, Report(j, result),
         UNCHANGED <<platform, jobs, provider>>,
         NEW row \in Task, Writes(j, row), row.status \notin {"NONE", "CREATED"},
         row.status = "FAILED" =>
           \/ jobs[j].kind = "submit" /\ run[j].at \in {"begin", "refuse"}
           \/ At(j, "apply") /\ run[j].answer = "failed",
         result = "succeeded" => run[j].at \in {"finish", "apply", "close"},
         At(j, "begin") => jobs[j].kind = "submit",
         At(j, "close") => row.status = "SUCCEEDED"
  PROVE  HandlerStep(j)
<1> PICK x \in Run :
      run' = [run EXCEPT ![j] = x] /\ x.at = "report" /\ x.result = result
  BY Reports
<1>1. Enters(j, x)
  BY DEF Enters
<1> QED BY <1>1 DEF HandlerStep, Records, Writes

\* A mark that is written, or not.
LEMMA MarkingIsAStep ==
  ASSUME PTypeOK, NEW j \in JobIds,
         run[j].at \in {"begin", "open?", "upload?", "doubt", "refuse"},
         NEW status \in {"FAILED", "SUBMIT_UNKNOWN"},
         NEW result \in {"failed", "unknown", "raised"},
         MarkOrSwallow(j, status, result) \/ MarkOrRaise(j, status, result),
         UNCHANGED <<platform, jobs, provider>>,
         status = "FAILED" => run[j].at \in {"begin", "refuse"},
         run[j].at \in {"begin", "refuse"} => jobs[j].kind = "submit"
  PROVE  HandlerStep(j)
<1>1. ~At(j, "none") /\ ~At(j, "apply") /\ ~At(j, "close") /\ ~At(j, "report")
  BY DEF At
<1>2. PICK r \in {"failed", "unknown", "raised"} :
        Report(j, r) /\ (SetStatus(j, status) \/ NotWritten)
  BY DEF MarkOrSwallow, MarkOrRaise
<1>3. CASE SetStatus(j, status)
  <2> DEFINE row == [task EXCEPT !.status = status]
  <2>1. task \in Task /\ status \in Statuses
    BY DEF PTypeOK, Statuses
  <2>2. row \in Task /\ row.status = status
    BY <2>1, WrittenTask
  <2>3. Writes(j, row)
    BY <1>3 DEF SetStatus
  <2> HIDE DEF row
  <2>4. At(j, "begin") => jobs[j].kind = "submit"
    BY DEF At
  <2> QED BY <1>1, <1>2, <2>2, <2>3, <2>4, RecordingIsAStep
<1>4. CASE NotWritten
  <2>1. UNCHANGED <<task, late>>
    BY <1>4 DEF NotWritten, Untouched
  <2> QED BY <1>1, <1>2, <2>1, ReportingIsAStep
<1> QED BY <1>2, <1>3, <1>4

LEMMA BeginningIsAStep ==
  ASSUME PTypeOK, NEW j \in JobIds,
         InstagramBegins(j) \/ TikTokBegins(j) \/ YouTubeBegins(j)
  PROVE  HandlerStep(j)
<1>1. /\ jobs[j].kind = "submit" /\ At(j, "begin") /\ ~At(j, "none")
      /\ UNCHANGED <<platform, jobs, provider>>
  BY DEF InstagramBegins, TikTokBegins, YouTubeBegins, At
<1>2. CASE \E status \in {"FAILED", "SUBMIT_UNKNOWN"}, result \in {"failed", "unknown"} :
             MarkOrSwallow(j, status, result) \/ MarkOrRaise(j, status, result)
  BY <1>1, <1>2, MarkingIsAStep DEF At
<1>3. CASE Untouched /\ \/ Report(j, "failed") \/ Report(j, "raised")
                        \/ /\ Report(j, "succeeded")
                           /\ task.status \in {"PROCESSING", "SUBMITTED"}
  BY <1>1, <1>3, ReportingIsAStep DEF Untouched
<1>4. CASE Untouched /\ \/ Goto(j, "open?")
                        \/ Goto(j, "open") /\ platform = "youtube"
  BY <1>1, <1>4, MovingIsAStep DEF Untouched, Places
<1>5. \/ \E status \in {"FAILED", "SUBMIT_UNKNOWN"}, result \in {"failed", "unknown"} :
           MarkOrSwallow(j, status, result) \/ MarkOrRaise(j, status, result)
      \/ Untouched /\ \/ Report(j, "failed") \/ Report(j, "raised")
                      \/ /\ Report(j, "succeeded")
                         /\ task.status \in {"PROCESSING", "SUBMITTED"}
      \/ Untouched /\ \/ Goto(j, "open?")
                      \/ Goto(j, "open") /\ platform = "youtube"
  <2>1. CASE InstagramBegins(j)
    BY <2>1 DEF InstagramBegins
  <2>2. CASE TikTokBegins(j)
    BY <2>2 DEF TikTokBegins, MayGo
  <2>3. CASE YouTubeBegins(j)
    BY <2>3 DEF YouTubeBegins, MayGo
  <2> QED BY <2>1, <2>2, <2>3
<1> QED BY <1>2, <1>3, <1>4, <1>5

LEMMA AnnouncingIsAStep ==
  ASSUME PTypeOK, NEW j \in JobIds,
         InstagramAnnounces(j) \/ TikTokAnnounces(j) \/ YouTubeAnnounces(j)
  PROVE  HandlerStep(j)
<1> DEFINE Pairs == {<<"open?", "open">>, <<"upload?", "upload">>, <<"publish?", "publish">>}
<1>1. /\ UNCHANGED <<platform, provider>>
      /\ \E step \in Pairs :
           /\ At(j, step[1])
           /\ \/ Announced(j, step[1], step[2]) /\ Untouched
              \/ Report(j, "raised") /\ UNCHANGED jobs /\ Untouched
              \/ /\ MarkOrSwallow(j, "SUBMIT_UNKNOWN", "raised") /\ UNCHANGED jobs
                 /\ step[1] \in {"open?", "upload?"}
              \/ /\ step[1] = "upload?" /\ Goto(j, "doubt") /\ UNCHANGED jobs
                 /\ Untouched
  BY DEF InstagramAnnounces, TikTokAnnounces, YouTubeAnnounces, Announced, Untouched
<1>2. PICK step \in Pairs :
        /\ At(j, step[1])
        /\ \/ Announced(j, step[1], step[2]) /\ Untouched
           \/ Report(j, "raised") /\ UNCHANGED jobs /\ Untouched
           \/ /\ MarkOrSwallow(j, "SUBMIT_UNKNOWN", "raised") /\ UNCHANGED jobs
              /\ step[1] \in {"open?", "upload?"}
           \/ /\ step[1] = "upload?" /\ Goto(j, "doubt") /\ UNCHANGED jobs
              /\ Untouched
  BY <1>1
<1>3. ~At(j, "none") /\ step[2] \in Places
  BY <1>2 DEF At, Places
<1>4. CASE Announced(j, step[1], step[2]) /\ Untouched
  <2>1. PICK x \in Run : run' = [run EXCEPT ![j] = x] /\ x.at = step[2]
    BY <1>3, <1>4, Goes DEF Announced
  <2>2. Enters(j, x)
    BY <1>1, <1>2, <1>3, <2>1 DEF Enters, At
  <2>3. \/ At(j, "open?") /\ x.at = "open"
        \/ At(j, "upload?") /\ x.at = "upload"
        \/ At(j, "publish?") /\ x.at = "publish"
    BY <1>2, <2>1
  <2> QED BY <1>1, <1>4, <2>2, <2>3 DEF HandlerStep, Announces, Announced, Untouched
<1>5. CASE Report(j, "raised") /\ UNCHANGED jobs /\ Untouched
  BY <1>1, <1>3, <1>5, ReportingIsAStep DEF Untouched
<1>6. CASE /\ MarkOrSwallow(j, "SUBMIT_UNKNOWN", "raised") /\ UNCHANGED jobs
           /\ step[1] \in {"open?", "upload?"}
  BY <1>1, <1>2, <1>6, MarkingIsAStep DEF At
<1>7. CASE step[1] = "upload?" /\ Goto(j, "doubt") /\ UNCHANGED jobs /\ Untouched
  BY <1>1, <1>2, <1>3, <1>7, MovingIsAStep DEF At, Untouched, GivesUp, Places
<1> QED BY <1>2, <1>4, <1>5, <1>6, <1>7

\* A call that was answered, or whose answer is lost.
LEMMA AskingIsAStep ==
  ASSUME PTypeOK, NEW j \in JobIds, NEW kind, NEW becomes, NEW answered, NEW failed,
         UNCHANGED <<platform, task, jobs, late>>, At(j, kind),
         Ask(j, kind, becomes, answered, failed),
         \/ /\ kind = "open" /\ becomes = "open" /\ answered = "store"
            /\ failed \in {"doubt", "refuse"}
            /\ failed = "refuse" => platform = "youtube"
         \/ /\ kind = "upload" /\ becomes = "received" /\ answered = "finish"
            /\ failed = "doubt"
         \/ /\ kind = "publish" /\ becomes = "published" /\ answered = "close"
            /\ failed = "doubt" /\ remote \in {"finished", "published"}
  PROVE  HandlerStep(j)
<1>1. ~At(j, "none") /\ answered \in Places /\ failed \in Places \ {"none", "report", "apply"}
  BY DEF At, Places
<1>2. CASE /\ sent' = [sent EXCEPT ![kind] = @ + 1] /\ remote' = becomes
           /\ Goto(j, answered) \/ Goto(j, failed)
  <2>1. PICK x \in Run : run' = [run EXCEPT ![j] = x] /\ x.at \in {answered, failed}
    BY <1>1, <1>2, Goes
  <2>2. Enters(j, x)
    BY <1>1, <2>1 DEF Enters
  <2>3. Sends(j, x)
    BY <1>2, <2>1, <2>2 DEF Sends
  <2> QED BY <2>3 DEF HandlerStep
<1>3. CASE UNCHANGED provider /\ Goto(j, failed)
  <2>1. <<run[j].at, failed>> \in GivesUp /\ (failed = "refuse" => platform = "youtube")
    BY DEF At, GivesUp
  <2> QED BY <1>1, <1>3, <2>1, MovingIsAStep
<1> QED BY <1>2, <1>3 DEF Ask

LEMMA CallingIsAStep ==
  ASSUME PTypeOK, NEW j \in JobIds,
         \/ CreateContainer(j) \/ InitializePost(j) \/ InitiateUpload(j)
         \/ UploadReel(j) \/ UploadMedia(j) \/ UploadChunk(j) \/ PublishReel(j)
  PROVE  HandlerStep(j)
<1>1. CASE CreateContainer(j) \/ InitializePost(j)
  BY <1>1, AskingIsAStep DEF CreateContainer, InitializePost, Ask
<1>2. CASE InitiateUpload(j)
  <2>1. CASE Ask(j, "open", "open", "store", "refuse")
    BY <1>2, <2>1, AskingIsAStep DEF InitiateUpload, Ask
  <2>2. CASE Goto(j, "refuse") /\ UNCHANGED <<platform, task, jobs, provider, late>>
    <3>1. ~At(j, "none") /\ "refuse" \in Places \ {"none", "report", "apply"}
          /\ <<run[j].at, "refuse">> \in GivesUp /\ platform = "youtube"
      BY <1>2 DEF InitiateUpload, At, Places, GivesUp
    <3> QED BY <2>2, <3>1, MovingIsAStep
  <2> QED BY <1>2, <2>1, <2>2 DEF InitiateUpload
<1>3. CASE UploadReel(j) \/ UploadMedia(j)
  BY <1>3, AskingIsAStep DEF UploadReel, UploadMedia, Ask
<1>4. CASE UploadChunk(j)
  <2>1. CASE Ask(j, "upload", "received", "finish", "doubt")
    BY <1>4, <2>1, AskingIsAStep DEF UploadChunk, Ask
  <2>2. CASE Goto(j, "upload?") /\ UNCHANGED <<platform, task, jobs, provider, late>>
    <3>1. ~At(j, "none") /\ "upload?" \in Places \ {"none", "report", "apply"}
          /\ <<run[j].at, "upload?">> \in GivesUp
      BY <1>4 DEF UploadChunk, At, Places, GivesUp
    <3> QED BY <2>2, <3>1, MovingIsAStep
  <2> QED BY <1>4, <2>1, <2>2 DEF UploadChunk
<1>5. CASE PublishReel(j)
  <2>1. CASE Ask(j, "publish", "published", "close", "doubt")
             /\ remote \in {"finished", "published"}
    BY <1>5, <2>1, AskingIsAStep DEF PublishReel, Ask
  <2>2. CASE Goto(j, "doubt") /\ UNCHANGED <<platform, task, jobs, provider, late>>
    <3>1. ~At(j, "none") /\ "doubt" \in Places \ {"none", "report", "apply"}
          /\ <<run[j].at, "doubt">> \in GivesUp
      BY <1>5 DEF PublishReel, At, Places, GivesUp
    <3> QED BY <2>2, <3>1, MovingIsAStep
  <2> QED BY <1>5, <2>1, <2>2 DEF PublishReel
<1> QED BY <1>1, <1>2, <1>3, <1>4, <1>5

\* A result of the provider that is written, or fails to be.
LEMMA StoringIsAStep ==
  ASSUME PTypeOK, NEW j \in JobIds,
         StoreSession(j) \/ FinishSubmit(j) \/ CloseFinalize(j)
  PROVE  HandlerStep(j)
<1>1. /\ UNCHANGED <<platform, jobs, provider>> /\ ~At(j, "none")
      /\ task \in Task
      /\ {"UPLOADING", "SUBMITTED", "PROCESSING", "SUCCEEDED"} \subseteq Statuses
  BY DEF StoreSession, FinishSubmit, CloseFinalize, At, PTypeOK, Statuses
<1>2. CASE NotWritten /\ Goto(j, "doubt") /\ run[j].at \in {"store", "finish", "close"}
  <2>1. "doubt" \in Places \ {"none", "report", "apply"} /\ <<run[j].at, "doubt">> \in GivesUp
    BY <1>2 DEF Places, GivesUp
  <2> QED BY <1>1, <1>2, <2>1, MovingIsAStep DEF NotWritten, Untouched
<1>3. CASE /\ At(j, "store") /\ Goto(j, "upload?")
           /\ Writes(j, [[task EXCEPT !.status = "UPLOADING"] EXCEPT !.session = TRUE])
  <2>1. PICK x \in Run : run' = [run EXCEPT ![j] = x] /\ x.at = "upload?"
    BY <1>3, Goes DEF Places
  <2>2. Enters(j, x)
    BY <1>1, <2>1 DEF Enters
  <2>3. task' \in Task /\ task'.status = "UPLOADING"
    BY <1>1, <1>3, WrittenTask DEF Writes
  <2> QED BY <1>1, <1>3, <2>1, <2>2, <2>3 DEF HandlerStep, Records, Writes, At
<1>4. CASE At(j, "finish") /\ Writes(j, Submitted(task)) /\ Report(j, "succeeded")
  <2>1. Submitted(task) \in Task /\ Submitted(task).status \in {"SUBMITTED", "PROCESSING"}
    BY <1>1, WrittenTask DEF Submitted
  <2>2. ~At(j, "begin") /\ ~At(j, "close") /\ ~At(j, "report") /\ run[j].at = "finish"
    BY <1>4 DEF At
  <2> QED BY <1>1, <1>4, <2>1, <2>2, RecordingIsAStep
<1>5. CASE /\ At(j, "close") /\ Report(j, "succeeded")
           /\ Writes(j, [[task EXCEPT !.status = "SUCCEEDED"] EXCEPT !.video = TRUE])
  <2> DEFINE row == [[task EXCEPT !.status = "SUCCEEDED"] EXCEPT !.video = TRUE]
  <2>1. row \in Task /\ row.status = "SUCCEEDED"
    BY <1>1, WrittenTask
  <2>2. ~At(j, "begin") /\ ~At(j, "report") /\ run[j].at = "close"
    BY <1>5 DEF At
  <2>3. Writes(j, row)
    BY <1>5
  <2> HIDE DEF row
  <2> QED BY <1>1, <1>5, <2>1, <2>2, <2>3, RecordingIsAStep
<1> QED BY <1>2, <1>3, <1>4, <1>5 DEF StoreSession, FinishSubmit, CloseFinalize, At

LEMMA EndingIsAStep ==
  ASSUME PTypeOK, PlacesFit, NEW j \in JobIds, EndInDoubt(j) \/ EndRefused(j)
  PROVE  HandlerStep(j)
<1>1. CASE EndInDoubt(j)
  BY <1>1, MarkingIsAStep DEF EndInDoubt, MarkUnknown, At
<1>2. CASE EndRefused(j)
  BY <1>2, MarkingIsAStep DEF EndRefused, At, PlacesFit, Submitting
<1> QED BY <1>1, <1>2

\* What the platform says of the video is taken for the status of the task.
LEMMA RefreshingIsAStep ==
  ASSUME PTypeOK, NEW j \in JobIds,
         \/ InstagramRefreshes(j) \/ TikTokRefreshes(j) \/ YouTubeRefreshes(j)
         \/ FetchStatus(j) \/ BeginFinalize(j)
  PROVE  HandlerStep(j)
<1>1. ~At(j, "none") /\ UNCHANGED <<platform, task, jobs, provider, late>> /\ run[j] \in Run
  BY DEF InstagramRefreshes, TikTokRefreshes, YouTubeRefreshes, BeginRefresh,
         FetchStatus, BeginFinalize, At, PTypeOK
<1>2. CASE Report(j, "failed") \/ Report(j, "raised")
  BY <1>1, <1>2, ReportingIsAStep
<1>3. CASE /\ At(j, "begin") /\ jobs[j].kind = "refresh"
           /\ platform = "instagram" => task.status = "PROCESSING"
           /\ run' = [run EXCEPT ![j] = [@ EXCEPT !.at = "fetch", !.seen = task.status]]
  <2> DEFINE x == [run[j] EXCEPT !.at = "fetch", !.seen = task.status]
  <2>1. task.status \in Statuses
    BY DEF PTypeOK, Task
  <2>2. x \in Run /\ x.at = "fetch"
    BY <1>1, <2>1 DEF Run, Places
  <2>3. run' = [run EXCEPT ![j] = x]
    BY <1>3
  <2> HIDE DEF x
  <2>4. Moves(j, x)
    BY <1>1, <1>3, <2>2, <2>3 DEF Moves, Enters, Begins
  <2> QED BY <2>2, <2>4 DEF HandlerStep
<1>4. ASSUME At(j, "fetch"), NEW answer \in StatusOfVideo,
             run' = [run EXCEPT ![j] = [@ EXCEPT !.at = "apply", !.answer = answer]]
      PROVE  HandlerStep(j)
  <2> DEFINE x == [run[j] EXCEPT !.at = "apply", !.answer = answer]
  <2>1. answer \in Answers /\ (answer = "failed" => remote = "failed")
    BY DEF StatusOfVideo, Answers
  <2>2. x \in Run /\ x.at = "apply" /\ x.answer = answer
    BY <1>1, <2>1 DEF Run, Places
  <2>3. run' = [run EXCEPT ![j] = x]
    BY <1>4
  <2> HIDE DEF x
  <2>4. Moves(j, x)
    BY <1>1, <1>4, <2>1, <2>2, <2>3 DEF Moves, Enters
  <2> QED BY <2>2, <2>4 DEF HandlerStep
<1>5. CASE BeginFinalize(j)
  <2>1. CASE MayPublish /\ Goto(j, "publish?")
    BY <1>1, <1>5, <2>1, MovingIsAStep DEF BeginFinalize, MayPublish, Places
  <2> QED BY <1>2, <1>5, <2>1 DEF BeginFinalize
<1>6. CASE FetchStatus(j)
  BY <1>2, <1>4, <1>6 DEF FetchStatus
<1>7. CASE InstagramRefreshes(j) \/ TikTokRefreshes(j) \/ YouTubeRefreshes(j)
  BY <1>2, <1>3, <1>7
     DEF InstagramRefreshes, TikTokRefreshes, YouTubeRefreshes, BeginRefresh
<1> QED BY <1>5, <1>6, <1>7

LEMMA ApplyingIsAStep ==
  ASSUME PTypeOK, NEW j \in JobIds, NEW p,
         NEW finished \in {"READY_TO_PUBLISH", "SUCCEEDED"}, ApplyStatus(j, p, finished)
  PROVE  HandlerStep(j)
<1> DEFINE status == Applied(p, finished, run[j].answer)
<1>1. /\ At(j, "apply") /\ UNCHANGED <<platform, jobs, provider>>
      /\ ~At(j, "none") /\ ~At(j, "begin") /\ ~At(j, "close") /\ ~At(j, "report")
  BY DEF ApplyStatus, At
<1>2. /\ status \in {"READY_TO_PUBLISH", "SUCCEEDED", "FAILED", "PROCESSING"}
      /\ status = "FAILED" => run[j].answer = "failed"
  BY DEF Applied
<1>3. \/ (Untouched \/ SetStatus(j, status)) /\ Report(j, "succeeded")
      \/ NotWritten /\ Report(j, "raised")
  BY DEF ApplyStatus
<1> HIDE DEF status
<1>4. CASE Untouched /\ (Report(j, "succeeded") \/ Report(j, "raised"))
  BY <1>1, <1>4, ReportingIsAStep DEF Untouched
<1>5. CASE SetStatus(j, status) /\ Report(j, "succeeded")
  <2> DEFINE row == [task EXCEPT !.status = status]
  <2>1. task \in Task /\ status \in Statuses
    BY <1>2 DEF PTypeOK, Statuses
  <2>2. row \in Task /\ row.status = status
    BY <2>1, WrittenTask
  <2>3. Writes(j, row)
    BY <1>5 DEF SetStatus
  <2> HIDE DEF row
  <2>4. run[j].at = "apply"
    BY <1>1 DEF At
  <2> QED BY <1>1, <1>2, <1>5, <2>2, <2>3, <2>4, RecordingIsAStep
<1> QED BY <1>3, <1>4, <1>5 DEF NotWritten

\* Every action of a handler is one of these four kinds of step.
LEMMA HandlersTakeSteps ==
  ASSUME PTypeOK, PlacesFit, NEW j \in JobIds, Handler(j)
  PROVE  HandlerStep(j)
BY BeginningIsAStep, AnnouncingIsAStep, CallingIsAStep, StoringIsAStep, EndingIsAStep,
   RefreshingIsAStep, ApplyingIsAStep DEF Handler, ApplyInstagram, ApplyTikTok, ApplyYouTube

-----------------------------------------------------------------------------
(***************************************************************************)
(* What a handler step does to the submission.                              *)
(***************************************************************************)
LEMMA JobNames ==
  /\ 1 \in Requests /\ 1 \in JobIds /\ 1 \notin FollowUps
  /\ FollowUps \subseteq JobIds /\ Requests \subseteq JobIds
  /\ \A j \in FollowUps : j \notin Requests
BY PublicationBounds DEF JobIds, Requests, FollowUps

LEMMA Entered ==
  ASSUME PTypeOK, NEW j \in JobIds, NEW x \in Run, Enters(j, x)
  PROVE  /\ run' \in [JobIds -> Run] /\ run'[j] = x /\ platform' = platform
         /\ \A i \in JobIds : i # j => run'[i] = run[i]
         /\ run[j].at # "none" /\ x.at # "none"
         /\ x.at \in Places /\ run[j].at \in Places
BY DEF PTypeOK, Enters, At, Run

\* A run that is at work has a job that was claimed.
LEMMA AtWork ==
  ASSUME PTypeOK, KindsFit, PlacesFit, NEW j \in JobIds, run[j].at # "none"
  PROVE  /\ jobs[j].status \in {"RUNNING", "SUCCEEDED", "FAILED", "SUBMIT_UNKNOWN"}
         /\ jobs[j].kind \in {"submit", "refresh", "finalize"}
         /\ jobs[j].kind = "submit" <=> j = 1
         /\ jobs[j].kind # "submit" => j \in FollowUps /\ jobs[j] # NoJob
<1>1. jobs[j] \in Job
  BY DEF PTypeOK
<1>2. jobs[j].status \in {"RUNNING", "SUCCEEDED", "FAILED", "SUBMIT_UNKNOWN"}
  BY <1>1 DEF Job, PlacesFit, At
<1>3. jobs[j].kind \in {"submit", "refresh", "finalize"} /\ jobs[j] # NoJob
  BY <1>1, <1>2 DEF Job, KindsFit, NoJob
<1> QED BY <1>2, <1>3, JobNames DEF KindsFit

LEMMA MovesKeepUploadInv ==
  ASSUME UploadInv, NEW j \in JobIds, NEW x \in Run, Moves(j, x), PTypeOK'
  PROVE  UploadInv'
<1>1. /\ PTypeOK /\ KindsFit /\ PlacesFit /\ OneRunning /\ CallsAreFirst
      /\ OnRecord /\ TaskFollows /\ EndsFit /\ UploadedOnce
  BY DEF UploadInv
<1>2. /\ run'[j] = x /\ \A i \in JobIds : i # j => run'[i] = run[i]
      /\ platform' = platform /\ task' = task /\ jobs' = jobs
      /\ remote' = remote /\ sent' = sent
      /\ run[j].at # "none" /\ x.at # "none"
  BY <1>1, Entered DEF Moves, provider
<1>3. \/ run[j].at = "begin" /\ Begins(j, x)
      \/ <<run[j].at, x.at>> \in GivesUp /\ (x.at = "refuse" => platform = "youtube")
      \/ run[j].at = "fetch" /\ x.at = "apply" /\ (x.answer = "failed" => remote = "failed")
      \/ /\ x.at = "report"
         /\ x.result = "succeeded" =>
              \/ jobs[j].kind = "submit" /\ task.status \in {"PROCESSING", "SUBMITTED"}
              \/ run[j].at = "apply"
  BY DEF Moves, At
<1>4. /\ jobs[j].status \notin {"none", "QUEUED"}
      /\ jobs[j].kind = "submit" <=> j = 1
  BY <1>1, <1>2, AtWork
<1>5. KindsFit' /\ OneRunning' /\ UploadedOnce'
  BY <1>1, <1>2 DEF KindsFit, OneRunning, UploadedOnce
<1>6. PlacesFit'
  <2>1. /\ x.at \in Submitting => jobs[j].kind = "submit"
        /\ x.at \in {"fetch", "apply"} => jobs[j].kind = "refresh"
        /\ x.at \in Publishing => jobs[j].kind = "finalize"
        /\ x.at = "doubt" => jobs[j].kind \in {"submit", "finalize"}
        /\ x.at = "refuse" => platform = "youtube"
    BY <1>1, <1>3 DEF PlacesFit, Begins, GivesUp, Submitting, Publishing
  <2> QED BY <1>1, <1>2, <1>4, <2>1 DEF PlacesFit, At
<1>7. CallsAreFirst' /\ OnRecord' /\ TaskFollows'
  <2>1. CASE j # 1
    <3>1. run'[1] = run[1] /\ ~(At(j, "publish")' /\ ~At(j, "publish"))
      BY <1>1, <1>2, <1>3, <2>1, JobNames DEF At, Begins, GivesUp
    <3> QED BY <1>1, <1>2, <3>1
            DEF CallsAreFirst, OnRecord, TaskFollows, Waiting, Working, SubmissionSent, At
  <2>2. CASE j = 1
    <3>1. /\ run[1].at = "begin" => x.at \in {"open?", "open", "report"}
          /\ x.at = "open" => run[1].at = "begin" /\ platform = "youtube"
          /\ x.at = "upload?" => run[1].at = "upload"
          /\ x.at \notin {"store", "upload", "finish", "begin", "publish"}
          /\ x.at = "open?" => run[1].at = "begin"
          /\ x.at = "refuse" => run[1].at = "open"
          /\ x.at = "doubt" => run[1].at \in {"open", "store", "upload?", "upload", "finish",
                                              "publish", "close"}
      BY <1>2, <1>3, <1>4, <2>2 DEF Begins, GivesUp
    <3>2. run[1].at \notin Publishing
      BY <1>1, <1>4, <2>2 DEF PlacesFit
    <3>3. CallsAreFirst'
      BY <1>1, <1>2, <1>4, <2>2, <3>1 DEF CallsAreFirst, Waiting
    <3>4. OnRecord'
      BY <1>1, <1>2, <2>2, <3>1 DEF OnRecord, SubmissionSent, At
    <3>5. TaskFollows'
      BY <1>1, <1>2, <1>4, <2>2, <3>1, <3>2 DEF TaskFollows, Waiting, Working, Publishing
    <3> QED BY <3>3, <3>4, <3>5
  <2> QED BY <2>1, <2>2
<1>8. EndsFit'
  <2>1. j = 1 /\ x.at = "report" /\ x.result = "succeeded" =>
          task.status \notin {"NONE", "CREATED"}
    BY <1>1, <1>3, <1>4 DEF PlacesFit, Begins, GivesUp
  <2>2. x.at = "apply" /\ x.answer = "failed" => remote = "failed"
    BY <1>3 DEF Begins, GivesUp
  <2> QED BY <1>1, <1>2, <2>1, <2>2, JobNames DEF EndsFit, At, SubmissionSent
<1> QED BY <1>5, <1>6, <1>7, <1>8 DEF UploadInv

LEMMA AnnouncedJob ==
  ASSUME PTypeOK, NEW j \in JobIds, jobs' = [jobs EXCEPT ![j].external = TRUE]
  PROVE  /\ jobs' \in [JobIds -> Job]
         /\ jobs'[j].kind = jobs[j].kind /\ jobs'[j].status = jobs[j].status
         /\ jobs'[j].external
         /\ \A i \in JobIds : i # j => jobs'[i] = jobs[i]
<1>1. jobs[j] \in Job
  BY DEF PTypeOK
<1>2. jobs' = [jobs EXCEPT ![j] = [jobs[j] EXCEPT !.external = TRUE]]
  OBVIOUS
<1>3. [jobs[j] EXCEPT !.external = TRUE] \in Job
  BY <1>1 DEF Job
<1>4. jobs'[j] = [jobs[j] EXCEPT !.external = TRUE]
  BY <1>2 DEF PTypeOK
<1>5. jobs'[j].external = TRUE
  BY <1>1, <1>4 DEF Job
<1>6. jobs'[j].kind = jobs[j].kind /\ jobs'[j].status = jobs[j].status
  BY <1>1, <1>4 DEF Job
<1>7. jobs' \in [JobIds -> Job] /\ \A i \in JobIds : i # j => jobs'[i] = jobs[i]
  BY <1>2, <1>3 DEF PTypeOK
<1> QED BY <1>5, <1>6, <1>7

LEMMA AnnouncesKeepUploadInv ==
  ASSUME UploadInv, NEW j \in JobIds, NEW x \in Run, Announces(j, x), PTypeOK'
  PROVE  UploadInv'
<1>1. /\ PTypeOK /\ KindsFit /\ PlacesFit /\ OneRunning /\ CallsAreFirst
      /\ OnRecord /\ TaskFollows /\ EndsFit /\ UploadedOnce
  BY DEF UploadInv
<1>2. /\ run'[j] = x /\ \A i \in JobIds : i # j => run'[i] = run[i]
      /\ platform' = platform /\ task' = task /\ remote' = remote /\ sent' = sent
      /\ run[j].at # "none" /\ x.at # "none" /\ jobs[j].status = "RUNNING"
  BY <1>1, Entered DEF Announces, provider
<1>3. /\ jobs'[j].kind = jobs[j].kind /\ jobs'[j].status = jobs[j].status
      /\ jobs'[j].external
      /\ \A i \in JobIds : i # j => jobs'[i] = jobs[i]
  BY <1>1, AnnouncedJob DEF Announces
<1>4. \/ run[j].at = "open?" /\ x.at = "open"
      \/ run[j].at = "upload?" /\ x.at = "upload"
      \/ run[j].at = "publish?" /\ x.at = "publish"
  BY DEF Announces, At
<1>5. /\ jobs[j].kind = "submit" <=> j = 1
      /\ jobs[j].kind # "submit" => jobs[j] # NoJob
  BY <1>1, <1>2, AtWork
<1>6. KindsFit' /\ OneRunning' /\ UploadedOnce'
  BY <1>1, <1>2, <1>3 DEF KindsFit, OneRunning, UploadedOnce
<1>7. PlacesFit'
  BY <1>1, <1>2, <1>3, <1>4 DEF PlacesFit, At, Submitting, Publishing
<1>8. \A i \in JobIds : /\ jobs'[i].status = jobs[i].status
                        /\ jobs[i].external => jobs'[i].external
  BY <1>3
<1>9. CallsAreFirst' /\ OnRecord'
  BY <1>1, <1>2, <1>3, <1>4, <1>5, <1>8, JobNames
     DEF CallsAreFirst, OnRecord, Waiting, SubmissionSent, At
<1>10. TaskFollows'
  BY <1>1, <1>2, <1>3, <1>4, <1>5, JobNames DEF TaskFollows, Waiting, Working, PlacesFit,
     Publishing
<1>11. EndsFit'
  BY <1>1, <1>2, <1>3, <1>4, JobNames DEF EndsFit, At, SubmissionSent
<1> QED BY <1>6, <1>7, <1>9, <1>10, <1>11 DEF UploadInv

LEMMA SentCounts ==
  ASSUME PTypeOK, NEW k \in {"open", "upload", "publish"},
         sent' = [sent EXCEPT ![k] = @ + 1]
  PROVE  /\ sent'[k] = sent[k] + 1 /\ sent[k] \in Nat
         /\ \A i \in {"open", "upload", "publish"} : i # k => sent'[i] = sent[i]
BY DEF PTypeOK

LEMMA SendsKeepUploadInv ==
  ASSUME UploadInv, NEW j \in JobIds, NEW x \in Run, Sends(j, x), PTypeOK'
  PROVE  UploadInv'
<1>1. /\ PTypeOK /\ KindsFit /\ PlacesFit /\ OneRunning /\ CallsAreFirst
      /\ OnRecord /\ TaskFollows /\ EndsFit /\ UploadedOnce
  BY DEF UploadInv
<1>2. /\ run'[j] = x /\ \A i \in JobIds : i # j => run'[i] = run[i]
      /\ platform' = platform /\ task' = task /\ jobs' = jobs
      /\ run[j].at # "none" /\ x.at # "none"
  BY <1>1, Entered DEF Sends
<1>3. /\ jobs[j].status \notin {"none", "QUEUED"}
      /\ jobs[j].kind = "submit" <=> j = 1
  BY <1>1, <1>2, AtWork
<1>4. KindsFit' /\ OneRunning'
  BY <1>1, <1>2 DEF KindsFit, OneRunning
<1>5. CASE /\ run[j].at = "open" /\ x.at \in {"store", "doubt", "refuse"}
           /\ x.at = "refuse" => platform = "youtube"
           /\ sent' = [sent EXCEPT !["open"] = @ + 1] /\ remote' = "open"
  <2>1. j = 1
    BY <1>1, <1>3, <1>5 DEF PlacesFit, Submitting
  <2>2. /\ Waiting /\ Working /\ sent["open"] = 0 /\ sent["upload"] = 0 /\ remote = "none"
        /\ sent'["open"] = 1 /\ sent'["upload"] = 0
    BY <1>1, <1>5, <2>1, SentCounts DEF Waiting, Working, CallsAreFirst
  <2>3. ~Waiting'
    BY <1>2, <1>3, <1>5, <2>1 DEF Waiting
  <2>4. PlacesFit' /\ CallsAreFirst' /\ UploadedOnce'
    BY <1>1, <1>2, <1>3, <1>5, <2>1, <2>2, <2>3
       DEF PlacesFit, CallsAreFirst, UploadedOnce, At, Submitting, Publishing
  <2>5. OnRecord'
    BY <1>1, <1>2, <1>5, <2>1, <2>2 DEF OnRecord, SubmissionSent, At
  <2>6. TaskFollows' /\ EndsFit'
    BY <1>1, <1>2, <1>5, <2>1, <2>2 DEF TaskFollows, EndsFit, At
  <2> QED BY <1>4, <2>4, <2>5, <2>6 DEF UploadInv
<1>6. CASE /\ run[j].at = "upload" /\ x.at \in {"finish", "doubt"}
           /\ sent' = [sent EXCEPT !["upload"] = @ + 1] /\ remote' = "received"
  <2>1. j = 1
    BY <1>1, <1>3, <1>6 DEF PlacesFit, Submitting
  <2>2. /\ Working /\ sent["upload"] = 0 /\ remote \in {"none", "open"}
        /\ sent'["upload"] = 1 /\ sent'["open"] = sent["open"] /\ jobs[1].external
    BY <1>1, <1>6, <2>1, SentCounts DEF Working, CallsAreFirst, OnRecord
  <2>3. ~Waiting'
    BY <1>2, <1>3, <1>6, <2>1 DEF Waiting
  <2>4. PlacesFit' /\ CallsAreFirst' /\ UploadedOnce'
    BY <1>1, <1>2, <1>3, <1>6, <2>1, <2>2, <2>3
       DEF PlacesFit, CallsAreFirst, UploadedOnce, At, Submitting, Publishing
  <2>5. OnRecord'
    BY <1>1, <1>2, <1>6, <2>1, <2>2 DEF OnRecord, SubmissionSent, At
  <2>6. TaskFollows' /\ EndsFit'
    BY <1>1, <1>2, <1>6, <2>1, <2>2 DEF TaskFollows, EndsFit, At
  <2> QED BY <1>4, <2>4, <2>5, <2>6 DEF UploadInv
<1>7. CASE /\ run[j].at = "publish" /\ x.at \in {"close", "doubt"}
           /\ sent' = [sent EXCEPT !["publish"] = @ + 1]
           /\ remote \in {"finished", "published"} /\ remote' = "published"
  <2>1. jobs[j].kind = "finalize" /\ j # 1
    BY <1>1, <1>3, <1>7 DEF PlacesFit, Publishing
  <2>2. /\ run'[1] = run[1] /\ sent'["upload"] = sent["upload"]
        /\ sent'["open"] = sent["open"] /\ (Waiting' <=> Waiting)
        /\ (Working' <=> Working) /\ (SubmissionSent' <=> SubmissionSent)
    BY <1>1, <1>2, <1>7, <2>1, SentCounts, JobNames DEF Waiting, Working, SubmissionSent
  <2>3. PlacesFit'
    BY <1>1, <1>2, <1>3, <1>7, <2>1 DEF PlacesFit, At, Submitting, Publishing
  <2>4. CallsAreFirst' /\ UploadedOnce'
    BY <1>1, <1>7, <2>2 DEF CallsAreFirst, UploadedOnce
  <2>5. OnRecord' /\ TaskFollows'
    BY <1>1, <1>2, <1>7, <2>2 DEF OnRecord, TaskFollows, At
  <2>6. EndsFit'
    BY <1>1, <1>2, <1>7, <2>1, <2>2 DEF EndsFit, At
  <2> QED BY <1>4, <2>3, <2>4, <2>5, <2>6 DEF UploadInv
<1> QED BY <1>5, <1>6, <1>7 DEF Sends, At

LEMMA RecordsKeepUploadInv ==
  ASSUME UploadInv, NEW j \in JobIds, NEW x \in Run, Records(j, x), PTypeOK'
  PROVE  UploadInv'
<1>1. /\ PTypeOK /\ KindsFit /\ PlacesFit /\ OneRunning /\ CallsAreFirst
      /\ OnRecord /\ TaskFollows /\ EndsFit /\ UploadedOnce
  BY DEF UploadInv
<1>2. /\ run'[j] = x /\ \A i \in JobIds : i # j => run'[i] = run[i]
      /\ platform' = platform /\ jobs' = jobs /\ remote' = remote /\ sent' = sent
      /\ run[j].at # "none" /\ x.at # "none"
      /\ task'.status \notin {"NONE", "CREATED"}
  BY <1>1, Entered DEF Records, provider
<1>3. /\ jobs[j].status \notin {"none", "QUEUED"}
      /\ jobs[j].kind = "submit" <=> j = 1
      /\ j # 1 => j \in FollowUps /\ jobs[j] # NoJob
  BY <1>1, <1>2, AtWork
<1>4. \/ run[j].at = "store" /\ x.at = "upload?" /\ task'.status = "UPLOADING"
      \/ /\ x.at = "report"
         /\ task'.status = "FAILED" =>
              \/ jobs[j].kind = "submit" /\ run[j].at \in {"begin", "refuse"}
              \/ run[j].at = "apply" /\ run[j].answer = "failed"
  BY DEF Records, At
<1>5. KindsFit' /\ OneRunning' /\ UploadedOnce'
  BY <1>1, <1>2 DEF KindsFit, OneRunning, UploadedOnce
<1>6. PlacesFit'
  BY <1>1, <1>2, <1>3, <1>4 DEF PlacesFit, At, Submitting, Publishing
<1>7. CallsAreFirst' /\ OnRecord' /\ TaskFollows'
  <2>1. CASE j # 1
    <3>1. run'[1] = run[1] /\ (Waiting' <=> Waiting) /\ (Working' <=> Working) /\ ~Working
      BY <1>1, <1>2, <1>3, <2>1, JobNames DEF Waiting, Working, TaskFollows
    <3>2. \A i \in JobIds : At(i, "publish")' => At(i, "publish")
      BY <1>2, <1>4 DEF At
    <3> QED BY <1>1, <1>2, <3>1, <3>2
            DEF CallsAreFirst, OnRecord, TaskFollows, SubmissionSent
  <2>2. CASE j = 1
    <3>1. ~Waiting'
      BY <1>2, <1>3, <1>4, <2>2 DEF Waiting
    <3>2. CallsAreFirst'
      BY <1>1, <1>2, <1>4, <2>2, <3>1 DEF CallsAreFirst
    <3>3. OnRecord'
      BY <1>1, <1>2, <1>4, <2>2 DEF OnRecord, SubmissionSent, At
    <3>4. TaskFollows'
      BY <1>1, <1>2, <1>4, <2>2, <3>1 DEF TaskFollows, Working
    <3> QED BY <3>2, <3>3, <3>4
  <2> QED BY <2>1, <2>2
<1>8. EndsFit'
  <2>1. task'.status = "FAILED" /\ SubmissionSent => remote = "failed"
    <3>1. CASE jobs[j].kind = "submit" /\ run[j].at \in {"begin", "refuse"}
      BY <1>1, <1>3, <3>1
         DEF CallsAreFirst, Waiting, SubmissionSent, PlacesFit
    <3>2. CASE run[j].at = "apply" /\ run[j].answer = "failed"
      BY <1>1, <3>2 DEF EndsFit, At
    <3> QED BY <1>4, <3>1, <3>2
  <2>2. \A i \in JobIds : /\ At(i, "apply")' => At(i, "apply") /\ run'[i] = run[i]
    BY <1>2, <1>4 DEF At
  <2> QED BY <1>1, <1>2, <2>1, <2>2 DEF EndsFit, SubmissionSent
<1> QED BY <1>5, <1>6, <1>7, <1>8 DEF UploadInv

-----------------------------------------------------------------------------
(***************************************************************************)
(* What the requests, the queue and the platform do.                        *)
(***************************************************************************)
\* A request creates the task, the job of the video or both.
Requested ==
  /\ UNCHANGED <<platform, run, provider, late>>
  /\ \/ task' = task
     \/ task = NoTask /\ \E r \in Requests : task' = CreatedTask(r)
  /\ \/ jobs' = jobs
     \/ jobs[1] = NoJob /\ \E r \in Requests : jobs' = [jobs EXCEPT ![1] = SubmitJob(r)]

Asks(r) ==
  \/ CheckInstagram(r) \/ CheckTikTok(r) \/ CheckYouTube(r)
  \/ PrepareInstagram(r) \/ PrepareYouTube(r) \/ CreateJob(r) \/ CreateTikTok(r)
  \/ RequestDies(r)

LEMMA RequestsOnlyCreate ==
  ASSUME NEW r \in Requests, Asks(r)
  PROVE  Requested
<1>1. CASE CheckInstagram(r) \/ CheckTikTok(r) \/ CheckYouTube(r) \/ RequestDies(r)
  BY <1>1 DEF CheckInstagram, CheckTikTok, CheckYouTube, Check, RequestDies, Requested,
              provider
<1>2. CASE PrepareInstagram(r) \/ PrepareYouTube(r)
  BY <1>2 DEF PrepareInstagram, PrepareYouTube, Prepare, Requested, provider
<1>3. CASE CreateJob(r) \/ CreateTikTok(r)
  BY <1>3 DEF CreateJob, CreateTikTok, Exists, JobOf, Requested, provider
<1> QED BY <1>1, <1>2, <1>3 DEF Asks

LEMMA CreatedFacts ==
  ASSUME PTypeOK, NEW r \in Requests
  PROVE  /\ CreatedTask(r) \in Task /\ CreatedTask(r).status = "CREATED"
         /\ SubmitJob(r) \in Job
         /\ SubmitJob(r).kind = "submit" /\ SubmitJob(r).status = "QUEUED"
         /\ ~SubmitJob(r).external
         /\ NoTask.status = "NONE" /\ NoJob.status = "none" /\ NoJob.kind = "none"
<1>1. r \in 0..MaxRequests /\ 0 \in 0..MaxRequests
  BY PublicationBounds DEF Requests
<1>2. CreatedTask(r) \in Task /\ CreatedTask(r).status = "CREATED"
  BY <1>1 DEF CreatedTask, NoTask, Task, Statuses
<1>3. SubmitJob(r) \in Job /\ SubmitJob(r).kind = "submit" /\ SubmitJob(r).status = "QUEUED"
  BY <1>1 DEF SubmitJob, NoJob, Job, Statuses
<1>4. SubmitJob(r).external = FALSE
  BY DEF SubmitJob, NoJob
<1> QED BY <1>2, <1>3, <1>4 DEF NoTask, NoJob

LEMMA RequestedKeepsUploadInv ==
  ASSUME UploadInv, Requested, PTypeOK'
  PROVE  UploadInv'
<1>1. /\ PTypeOK /\ KindsFit /\ PlacesFit /\ OneRunning /\ CallsAreFirst
      /\ OnRecord /\ TaskFollows /\ EndsFit /\ UploadedOnce
  BY DEF UploadInv
<1>2. /\ run' = run /\ platform' = platform /\ remote' = remote /\ sent' = sent
  BY DEF Requested, provider
<1>3. \/ task'.status = task.status
      \/ task.status = "NONE" /\ task'.status = "CREATED"
  BY <1>1, CreatedFacts DEF Requested
<1>4. /\ \A i \in JobIds : i # 1 => jobs'[i] = jobs[i]
      /\ \/ jobs' = jobs
         \/ /\ jobs[1].status = "none" /\ jobs'[1].kind = "submit"
            /\ jobs'[1].status = "QUEUED" /\ ~jobs'[1].external
  <2>1. CASE jobs' = jobs
    BY <2>1
  <2>2. ASSUME NEW r \in Requests, jobs[1] = NoJob,
               jobs' = [jobs EXCEPT ![1] = SubmitJob(r)]
        PROVE  /\ \A i \in JobIds : i # 1 => jobs'[i] = jobs[i]
               /\ jobs[1].status = "none" /\ jobs'[1].kind = "submit"
               /\ jobs'[1].status = "QUEUED" /\ ~jobs'[1].external
    <3>1. jobs'[1] = SubmitJob(r) /\ \A i \in JobIds : i # 1 => jobs'[i] = jobs[i]
      BY <1>1, <2>2, JobNames DEF PTypeOK
    <3> QED BY <1>1, <2>2, <3>1, CreatedFacts
  <2> QED BY <2>1, <2>2 DEF Requested
<1>5. KindsFit' /\ OneRunning' /\ UploadedOnce'
  BY <1>1, <1>2, <1>4, JobNames DEF KindsFit, OneRunning, UploadedOnce
<1>6. PlacesFit'
  <2>1. jobs'[1] # jobs[1] => run[1].at = "none"
    BY <1>1, <1>4, JobNames DEF PlacesFit, At
  <2> QED BY <1>1, <1>2, <1>4, <2>1, JobNames DEF PlacesFit, At, Submitting, Publishing
<1>7. (Waiting' <=> Waiting) /\ (Working' <=> Working)
  BY <1>2, <1>4 DEF Waiting, Working
<1>8. CallsAreFirst'
  BY <1>1, <1>2, <1>7 DEF CallsAreFirst
<1>9. OnRecord'
  <2>1. jobs'[1] # jobs[1] => ~SubmissionSent /\ run[1].at = "none"
    BY <1>1, <1>4, JobNames
       DEF CallsAreFirst, Waiting, SubmissionSent, PlacesFit, At, PTypeOK
  <2> QED BY <1>1, <1>2, <1>4, <2>1 DEF OnRecord, SubmissionSent, At
<1>10. TaskFollows' /\ EndsFit'
  <2>1. TaskFollows'
    BY <1>1, <1>3, <1>4, <1>7, JobNames DEF TaskFollows
  <2>2. \A i \in JobIds : jobs'[i].status \in {"FAILED", "SUCCEEDED"} => jobs'[i] = jobs[i]
    BY <1>4
  <2> QED BY <1>1, <1>2, <1>3, <2>1, <2>2, JobNames DEF EndsFit, SubmissionSent, At
<1> QED BY <1>5, <1>6, <1>8, <1>9, <1>10 DEF UploadInv

\* A refresh or finalize job is made for a task whose submit run has reported.
Follows(j) ==
  /\ j \in FollowUps /\ jobs[j] = NoJob
  /\ UNCHANGED <<platform, task, run, provider, late>>
  /\ task.status \in {"PROCESSING", "SUBMITTED", "READY_TO_PUBLISH"}
  /\ \E kind \in {"refresh", "finalize"} :
       /\ kind = "finalize" => platform = "instagram"
       /\ jobs' = [jobs EXCEPT ![j] = [NoJob EXCEPT !.kind = kind, !.status = "QUEUED",
                                                    !.frozen = task.status]]

FollowsUp(j) ==
  \/ RefreshInstagram(j) \/ RefreshTikTok(j) \/ RefreshYouTube(j)
  \/ FinalizeInstagram(j)

LEMMA FollowUpsFollow ==
  ASSUME NEW j \in FollowUps, FollowsUp(j)
  PROVE  Follows(j)
BY DEF FollowsUp, RefreshInstagram, RefreshTikTok, RefreshYouTube, FinalizeInstagram,
       FollowUp, Follows, provider

LEMMA FollowedJob ==
  ASSUME PTypeOK, NEW j \in FollowUps, Follows(j)
  PROVE  /\ jobs' \in [JobIds -> Job]
         /\ \A i \in JobIds : i # j => jobs'[i] = jobs[i]
         /\ jobs[j].status = "none" /\ jobs'[j].status = "QUEUED"
         /\ jobs'[j].kind \in {"refresh", "finalize"}
         /\ jobs'[j].kind = "finalize" => platform = "instagram"
         /\ ~jobs'[j].external
<1> PICK kind \in {"refresh", "finalize"} :
       /\ kind = "finalize" => platform = "instagram"
       /\ jobs' = [jobs EXCEPT ![j] = [NoJob EXCEPT !.kind = kind, !.status = "QUEUED",
                                                    !.frozen = task.status]]
  BY DEF Follows
<1> DEFINE x == [NoJob EXCEPT !.kind = kind, !.status = "QUEUED", !.frozen = task.status]
<1>1. task.status \in Statuses /\ 0 \in 0..MaxRequests
  BY PublicationBounds DEF PTypeOK, Task
<1>2. x \in Job /\ x.kind = kind /\ x.status = "QUEUED"
  BY <1>1 DEF NoJob, Job
<1>3. x.external = FALSE
  BY DEF NoJob
<1>4. jobs' = [jobs EXCEPT ![j] = x] /\ j \in JobIds
  BY JobNames
<1> HIDE DEF x
<1>5. /\ jobs' \in [JobIds -> Job] /\ jobs'[j] = x
      /\ \A i \in JobIds : i # j => jobs'[i] = jobs[i]
  BY <1>2, <1>4 DEF PTypeOK
<1>6. jobs[j].status = "none"
  BY DEF Follows, NoJob
<1> QED BY <1>2, <1>3, <1>5, <1>6

LEMMA FollowsKeepsUploadInv ==
  ASSUME UploadInv, NEW j \in FollowUps, Follows(j), PTypeOK'
  PROVE  UploadInv'
<1>1. /\ PTypeOK /\ KindsFit /\ PlacesFit /\ OneRunning /\ CallsAreFirst
      /\ OnRecord /\ TaskFollows /\ EndsFit /\ UploadedOnce
  BY DEF UploadInv
<1>2. /\ run' = run /\ platform' = platform /\ remote' = remote /\ sent' = sent
      /\ task' = task
      /\ task.status \in {"PROCESSING", "SUBMITTED", "READY_TO_PUBLISH"}
  BY DEF Follows, provider
<1>3. /\ \A i \in JobIds : i # j => jobs'[i] = jobs[i]
      /\ jobs[j].status = "none" /\ jobs'[j].status = "QUEUED"
      /\ jobs'[j].kind \in {"refresh", "finalize"}
      /\ jobs'[j].kind = "finalize" => platform = "instagram"
      /\ ~jobs'[j].external
  BY <1>1, FollowedJob
<1>4. run[j].at = "none" /\ j # 1 /\ jobs'[1] = jobs[1] /\ j \in JobIds
  BY <1>1, <1>3, JobNames DEF PlacesFit, At
<1>5. KindsFit' /\ OneRunning' /\ UploadedOnce'
  BY <1>1, <1>2, <1>3, <1>4 DEF KindsFit, OneRunning, UploadedOnce
<1>6. PlacesFit'
  BY <1>1, <1>2, <1>3, <1>4 DEF PlacesFit, At, Submitting, Publishing
<1>7. (Waiting' <=> Waiting) /\ (Working' <=> Working) /\ ~Working
  BY <1>1, <1>2, <1>4 DEF Waiting, Working, TaskFollows
<1>8. CallsAreFirst' /\ OnRecord' /\ TaskFollows'
  BY <1>1, <1>2, <1>3, <1>4, <1>7 DEF CallsAreFirst, OnRecord, TaskFollows, SubmissionSent, At
<1>9. EndsFit'
  BY <1>1, <1>2, <1>3, <1>4 DEF EndsFit, SubmissionSent, At
<1> QED BY <1>5, <1>6, <1>8, <1>9 DEF UploadInv

\* A job whose status alone is set.
LEMMA SettingAStatus ==
  ASSUME PTypeOK, NEW j \in JobIds,
         NEW s \in {"RUNNING", "SUCCEEDED", "FAILED", "SUBMIT_UNKNOWN"},
         jobs' = [jobs EXCEPT ![j].status = s]
  PROVE  /\ jobs' \in [JobIds -> Job]
         /\ jobs'[j].kind = jobs[j].kind /\ jobs'[j].status = s
         /\ jobs'[j].external = jobs[j].external
         /\ \A i \in JobIds : i # j => jobs'[i] = jobs[i]
<1> DEFINE x == [jobs[j] EXCEPT !.status = s]
<1>1. jobs[j] \in Job
  BY DEF PTypeOK
<1>2. x \in Job /\ x.kind = jobs[j].kind /\ x.status = s
  BY <1>1 DEF Job
<1>3. x.external = jobs[j].external
  BY <1>1 DEF Job
<1>4. jobs' = [jobs EXCEPT ![j] = x]
  OBVIOUS
<1> HIDE DEF x
<1>5. /\ jobs' \in [JobIds -> Job] /\ jobs'[j] = x
      /\ \A i \in JobIds : i # j => jobs'[i] = jobs[i]
  BY <1>2, <1>4 DEF PTypeOK
<1> QED BY <1>2, <1>3, <1>5

\* The queue gives a job to a run, ends it and takes the run away.
QueueStep(j) == Claim(j) \/ LeaseEnds(j) \/ Finalize(j) \/ Crash(j)

LEMMA OutcomeFacts ==
  ASSUME NEW j \in JobIds
  PROVE  /\ Uncertain(j) \in {"FAILED", "SUBMIT_UNKNOWN"}
         /\ Uncertain(j) = "FAILED" => ~jobs[j].external
         /\ Outcome(j) \in {"SUCCEEDED", "FAILED", "SUBMIT_UNKNOWN"}
         /\ Outcome(j) = "FAILED" => ~jobs[j].external
         /\ Outcome(j) = "SUCCEEDED" => run[j].result = "succeeded"
<1>1. /\ Uncertain(j) \in {"FAILED", "SUBMIT_UNKNOWN"}
      /\ Uncertain(j) = "FAILED" => ~jobs[j].external
  BY DEF Uncertain
<1> QED BY <1>1 DEF Outcome

\* What the queue leaves of a job and of its run.
LEMMA QueueFacts ==
  ASSUME PTypeOK, KindsFit, PlacesFit, NEW j \in JobIds, QueueStep(j)
  PROVE  /\ platform' = platform /\ task' = task /\ remote' = remote /\ sent' = sent
         /\ late' = late /\ changed' = changed /\ request' = request
         /\ jobs' \in [JobIds -> Job] /\ run' \in [JobIds -> Run]
         /\ \A i \in JobIds : /\ i # j => jobs'[i] = jobs[i] /\ run'[i] = run[i]
                              /\ jobs'[i].kind = jobs[i].kind
                              /\ jobs'[i].external = jobs[i].external
         /\ jobs[j].status # "none" /\ jobs'[j].status \notin {"none", "QUEUED"}
         /\ \/ /\ jobs[j].status = "QUEUED" /\ jobs'[j].status = "RUNNING"
               /\ \A i \in JobIds : jobs[i].status # "RUNNING"
               /\ run[j].at = "none" /\ run'[j].at = "begin"
            \/ /\ jobs[j].status # "QUEUED"
               /\ \/ jobs' = jobs
                  \/ jobs[j].status = "RUNNING" /\ jobs'[j].status # "RUNNING"
               /\ jobs'[j].status = "FAILED" /\ jobs' # jobs => ~jobs[j].external
               /\ jobs'[j].status = "SUCCEEDED" /\ jobs' # jobs =>
                    run[j].at = "report" /\ run[j].result = "succeeded"
               /\ \/ run' = run
                  \/ run'[j].at = "none"
<1>1. jobs[j] \in Job /\ run[j] \in Run /\ NoRun \in Run
  BY DEF PTypeOK, Run, NoRun, Places, Answers, Statuses
<1>2. UNCHANGED <<platform, task, provider, late, changed, request>>
  BY DEF QueueStep, Claim, LeaseEnds, Finalize, Crash
<1>3. CASE Claim(j)
  <2> DEFINE x == [NoRun EXCEPT !.at = "begin"]
  <2>1. x \in Run /\ x.at = "begin"
    BY <1>1 DEF Run, Places
  <2>2. run' = [run EXCEPT ![j] = x]
    BY <1>3 DEF Claim
  <2> HIDE DEF x
  <2>3. /\ run' \in [JobIds -> Run] /\ run'[j].at = "begin"
        /\ \A i \in JobIds : i # j => run'[i] = run[i]
    BY <2>1, <2>2 DEF PTypeOK
  <2>4. /\ jobs' \in [JobIds -> Job]
        /\ jobs'[j].kind = jobs[j].kind /\ jobs'[j].status = "RUNNING"
        /\ jobs'[j].external = jobs[j].external
        /\ \A i \in JobIds : i # j => jobs'[i] = jobs[i]
    BY <1>3, SettingAStatus DEF Claim
  <2>5. jobs[j].status = "QUEUED" /\ run[j].at = "none"
        /\ \A i \in JobIds : jobs[i].status # "RUNNING"
    BY <1>3 DEF Claim, PlacesFit, At
  <2> QED BY <1>2, <2>3, <2>4, <2>5 DEF provider
<1>4. CASE LeaseEnds(j)
  <2>1. /\ Uncertain(j) \in {"FAILED", "SUBMIT_UNKNOWN"}
        /\ Uncertain(j) = "FAILED" => ~jobs[j].external
    BY OutcomeFacts
  <2>2. /\ jobs' \in [JobIds -> Job]
        /\ jobs'[j].kind = jobs[j].kind /\ jobs'[j].status = Uncertain(j)
        /\ jobs'[j].external = jobs[j].external
        /\ \A i \in JobIds : i # j => jobs'[i] = jobs[i]
    BY <1>4, <2>1, SettingAStatus DEF LeaseEnds
  <2>3. jobs[j].status = "RUNNING" /\ run' = run /\ run' \in [JobIds -> Run]
    BY <1>4 DEF LeaseEnds, PTypeOK
  <2> QED BY <1>2, <2>1, <2>2, <2>3 DEF provider
<1>5. CASE Finalize(j) \/ Crash(j)
  <2>1. /\ run' \in [JobIds -> Run] /\ run'[j].at = "none"
        /\ \A i \in JobIds : i # j => run'[i] = run[i]
    BY <1>1, <1>5 DEF PTypeOK, Finalize, Crash, NoRun
  <2>2. run[j].at # "none" /\ jobs[j].status \notin {"none", "QUEUED"}
    BY <1>5, AtWork DEF Finalize, Crash, At
  <2>3. CASE jobs' = jobs
    BY <1>2, <2>1, <2>2, <2>3 DEF provider, PTypeOK
  <2>4. CASE jobs' # jobs
    <3>1. /\ jobs[j].status = "RUNNING" /\ run[j].at = "report"
          /\ jobs' = [jobs EXCEPT ![j].status = Outcome(j)]
      BY <1>5, <2>4 DEF Finalize, Crash, At
    <3>2. /\ Outcome(j) \in {"SUCCEEDED", "FAILED", "SUBMIT_UNKNOWN"}
          /\ Outcome(j) = "FAILED" => ~jobs[j].external
          /\ Outcome(j) = "SUCCEEDED" => run[j].result = "succeeded"
      BY OutcomeFacts
    <3>3. /\ jobs' \in [JobIds -> Job]
          /\ jobs'[j].kind = jobs[j].kind /\ jobs'[j].status = Outcome(j)
          /\ jobs'[j].external = jobs[j].external
          /\ \A i \in JobIds : i # j => jobs'[i] = jobs[i]
      BY <3>1, <3>2, SettingAStatus
    <3> QED BY <1>2, <2>1, <2>2, <3>1, <3>2, <3>3 DEF provider
  <2> QED BY <2>3, <2>4
<1> QED BY <1>3, <1>4, <1>5 DEF QueueStep

LEMMA QueueKeepsUploadInv ==
  ASSUME UploadInv, NEW j \in JobIds, QueueStep(j), PTypeOK'
  PROVE  UploadInv'
<1>1. /\ PTypeOK /\ KindsFit /\ PlacesFit /\ OneRunning /\ CallsAreFirst
      /\ OnRecord /\ TaskFollows /\ EndsFit /\ UploadedOnce
  BY DEF UploadInv
<1>2. /\ platform' = platform /\ task' = task /\ remote' = remote /\ sent' = sent
      /\ \A i \in JobIds : /\ i # j => jobs'[i] = jobs[i] /\ run'[i] = run[i]
                           /\ jobs'[i].kind = jobs[i].kind
                           /\ jobs'[i].external = jobs[i].external
      /\ jobs[j].status # "none" /\ jobs'[j].status \notin {"none", "QUEUED"}
  BY <1>1, QueueFacts
<1>3. \/ /\ jobs[j].status = "QUEUED" /\ jobs'[j].status = "RUNNING"
         /\ \A i \in JobIds : jobs[i].status # "RUNNING"
         /\ run[j].at = "none" /\ run'[j].at = "begin"
      \/ /\ jobs[j].status # "QUEUED"
         /\ \/ jobs' = jobs
            \/ jobs[j].status = "RUNNING" /\ jobs'[j].status # "RUNNING"
         /\ jobs'[j].status = "FAILED" /\ jobs' # jobs => ~jobs[j].external
         /\ jobs'[j].status = "SUCCEEDED" /\ jobs' # jobs =>
              run[j].at = "report" /\ run[j].result = "succeeded"
         /\ \/ run' = run
            \/ run'[j].at = "none"
  BY <1>1, QueueFacts
<1>4. \A i \in JobIds : /\ run'[i] = run[i] \/ run'[i].at \in {"none", "begin"}
                        /\ jobs'[i].status = "none" <=> jobs[i].status = "none"
                        /\ jobs'[i].status = "none" => jobs'[i] = jobs[i]
  BY <1>2, <1>3
<1>5. jobs[j].kind # "none" /\ jobs[j] # NoJob
  BY <1>1, <1>2 DEF KindsFit, NoJob
<1>6. KindsFit' /\ UploadedOnce'
  BY <1>1, <1>2, <1>4 DEF KindsFit, UploadedOnce
<1>7. OneRunning'
  BY <1>1, <1>2, <1>3 DEF OneRunning
<1>8. PlacesFit'
  <2>1. \A i \in JobIds : jobs'[i].status \in {"none", "QUEUED"} => i # j
    BY <1>2
  <2> QED BY <1>1, <1>2, <1>4, <2>1 DEF PlacesFit, At, Submitting, Publishing
<1>9. /\ Waiting' => Waiting
      /\ Working' => Working
      /\ run'[1].at = run[1].at \/ run'[1].at \in {"none", "begin"}
  BY <1>2, <1>3, <1>4, JobNames DEF Waiting, Working
<1>10. CallsAreFirst'
  BY <1>1, <1>2, <1>9 DEF CallsAreFirst
<1>11. OnRecord'
  BY <1>1, <1>2, <1>4, JobNames DEF OnRecord, SubmissionSent, At
<1>12. TaskFollows'
  <2>1. Working => j = 1
    BY <1>1, <1>5, JobNames DEF TaskFollows, JobIds, KindsFit, PTypeOK, Job
  <2> QED BY <1>1, <1>2, <1>9, <2>1, JobNames DEF TaskFollows
<1>13. EndsFit'
  <2>1. \A i \in JobIds : jobs'[i].status = "FAILED" => ~jobs'[i].external
    BY <1>1, <1>2, <1>3 DEF EndsFit
  <2>2. \/ jobs'[1].status = "SUCCEEDED"
        \/ run'[1].at = "report" /\ run'[1].result = "succeeded"
        => \/ jobs[1].status = "SUCCEEDED"
           \/ run[1].at = "report" /\ run[1].result = "succeeded"
    BY <1>2, <1>3, <1>4, JobNames
  <2> QED BY <1>1, <1>2, <1>4, <2>1, <2>2 DEF EndsFit, At, SubmissionSent
<1> QED BY <1>6, <1>7, <1>8, <1>10, <1>11, <1>12, <1>13 DEF UploadInv

LEMMA RemoteKeepsUploadInv ==
  ASSUME UploadInv, Change \/ RemoteStep \/ UNCHANGED vars, PTypeOK'
  PROVE  UploadInv'
<1>1. /\ PTypeOK /\ KindsFit /\ PlacesFit /\ OneRunning /\ CallsAreFirst
      /\ OnRecord /\ TaskFollows /\ EndsFit /\ UploadedOnce
  BY DEF UploadInv
<1>2. /\ platform' = platform /\ task' = task /\ jobs' = jobs /\ run' = run /\ sent' = sent
      /\ \/ remote' = remote
         \/ remote = "received" /\ remote' \in {"finished", "failed"}
         \/ remote = "finished" /\ remote' = "failed"
  BY DEF Change, RemoteStep, vars, provider
<1>3. KindsFit' /\ PlacesFit' /\ OneRunning' /\ OnRecord' /\ TaskFollows' /\ UploadedOnce'
  BY <1>1, <1>2 DEF KindsFit, PlacesFit, OneRunning, OnRecord, TaskFollows, UploadedOnce,
     At, SubmissionSent, Waiting, Working
<1>4. CallsAreFirst' /\ EndsFit'
  BY <1>1, <1>2 DEF CallsAreFirst, EndsFit, At, SubmissionSent, Waiting
<1> QED BY <1>3, <1>4 DEF UploadInv

-----------------------------------------------------------------------------
(***************************************************************************)
(* The upload, whatever step is taken.                                      *)
(***************************************************************************)
LEMMA HandlersLeaveRequests ==
  ASSUME NEW j \in JobIds, Handler(j)
  PROVE  changed' = changed /\ request' = request
<1>1. CASE \/ InstagramBegins(j) \/ TikTokBegins(j) \/ YouTubeBegins(j)
           \/ InstagramAnnounces(j) \/ TikTokAnnounces(j) \/ YouTubeAnnounces(j)
           \/ StoreSession(j) \/ FinishSubmit(j) \/ EndInDoubt(j) \/ EndRefused(j)
  BY <1>1 DEF InstagramBegins, TikTokBegins, YouTubeBegins, InstagramAnnounces,
     TikTokAnnounces, YouTubeAnnounces, StoreSession, FinishSubmit, EndInDoubt, EndRefused
<1>2. CASE \/ CreateContainer(j) \/ InitializePost(j) \/ InitiateUpload(j)
           \/ UploadReel(j) \/ UploadMedia(j) \/ UploadChunk(j) \/ PublishReel(j)
  BY <1>2 DEF CreateContainer, InitializePost, InitiateUpload, UploadReel, UploadMedia,
     UploadChunk, PublishReel, Ask
<1>3. CASE \/ InstagramRefreshes(j) \/ TikTokRefreshes(j) \/ YouTubeRefreshes(j)
           \/ FetchStatus(j) \/ ApplyInstagram(j) \/ ApplyTikTok(j) \/ ApplyYouTube(j)
           \/ BeginFinalize(j) \/ CloseFinalize(j)
  BY <1>3 DEF InstagramRefreshes, TikTokRefreshes, YouTubeRefreshes, BeginRefresh,
     FetchStatus, ApplyInstagram, ApplyTikTok, ApplyYouTube, ApplyStatus, BeginFinalize,
     CloseFinalize
<1> QED BY <1>1, <1>2, <1>3 DEF Handler

LEMMA HandlerStepsKeepTypes ==
  ASSUME PTypeOK, NEW j \in JobIds, HandlerStep(j), changed' = changed, request' = request
  PROVE  PTypeOK'
<1> PICK x \in Run : Moves(j, x) \/ Announces(j, x) \/ Sends(j, x) \/ Records(j, x)
  BY DEF HandlerStep
<1>1. run' \in [JobIds -> Run] /\ platform' = platform
  BY Entered DEF Moves, Announces, Sends, Records
<1>2. CASE Moves(j, x)
  BY <1>1, <1>2 DEF PTypeOK, Moves, provider
<1>3. CASE Announces(j, x)
  <2>1. jobs' \in [JobIds -> Job]
    BY <1>3, AnnouncedJob DEF Announces
  <2> QED BY <1>1, <1>3, <2>1 DEF PTypeOK, Announces, provider
<1>4. CASE Sends(j, x)
  <2>1. PICK k \in {"open", "upload", "publish"} : sent' = [sent EXCEPT ![k] = @ + 1]
    BY <1>4 DEF Sends
  <2>2. sent' \in [{"open", "upload", "publish"} -> Nat]
    BY <2>1 DEF PTypeOK
  <2>3. /\ remote' \in {"open", "received", "published"}
        /\ UNCHANGED <<task, jobs, late>>
    BY <1>4 DEF Sends
  <2> QED BY <1>1, <2>2, <2>3 DEF PTypeOK
<1>5. CASE Records(j, x)
  <2>1. late' \in BOOLEAN /\ task' \in Task /\ UNCHANGED <<jobs, provider>>
    BY <1>5 DEF PTypeOK, Records
  <2> QED BY <1>1, <2>1 DEF PTypeOK, provider
<1> QED BY <1>2, <1>3, <1>4, <1>5

LEMMA AsksKeepTypes ==
  ASSUME PTypeOK, NEW r \in Requests, Asks(r)
  PROVE  PTypeOK'
<1>1. Requested
  BY RequestsOnlyCreate
<1>2. /\ changed' = changed
      /\ request' \in [Requests -> {"new", "checked", "prepared", "done"}]
  BY DEF Asks, CheckInstagram, CheckTikTok, CheckYouTube, Check, PrepareInstagram,
     PrepareYouTube, Prepare, CreateJob, CreateTikTok, RequestDies, Progress, PTypeOK
<1>3. task' \in Task
  BY <1>1, CreatedFacts DEF Requested, PTypeOK
<1>4. jobs' \in [JobIds -> Job]
  BY <1>1, CreatedFacts, JobNames DEF Requested, PTypeOK
<1> QED BY <1>1, <1>2, <1>3, <1>4 DEF Requested, PTypeOK, provider

LEMMA FollowsUpKeepsTypes ==
  ASSUME PTypeOK, NEW j \in FollowUps, FollowsUp(j)
  PROVE  PTypeOK'
<1>1. Follows(j)
  BY FollowUpsFollow
<1>2. jobs' \in [JobIds -> Job]
  BY <1>1, FollowedJob
<1>3. changed' = changed /\ request' = request
  BY DEF FollowsUp, RefreshInstagram, RefreshTikTok, RefreshYouTube, FinalizeInstagram,
         FollowUp
<1> QED BY <1>1, <1>2, <1>3 DEF Follows, PTypeOK, provider

LEMMA InitUploadInv ==
  ASSUME Init
  PROVE  UploadInv
<1>1. NoTask \in Task /\ NoJob \in Job /\ NoRun \in Run
  <2>1. 0 \in 0..MaxRequests
    BY PublicationBounds
  <2> QED BY <2>1 DEF NoTask, Task, NoJob, Job, NoRun, Run, Statuses, Places, Answers
<1>2. PTypeOK
  BY <1>1 DEF Init, PTypeOK
<1>3. /\ \A j \in JobIds : jobs[j] = NoJob /\ run[j].at = "none"
      /\ 1 \in JobIds /\ FollowUps \subseteq JobIds
      /\ sent["open"] = 0 /\ sent["upload"] = 0 /\ remote = "none" /\ task.status = "NONE"
  BY JobNames DEF Init, NoRun, NoTask
<1>4. NoJob.status = "none" /\ NoJob.kind = "none" /\ ~NoJob.external
  BY DEF NoJob
<1>5. KindsFit /\ PlacesFit /\ OneRunning
  BY <1>3, <1>4 DEF KindsFit, PlacesFit, OneRunning, At, Submitting, Publishing
<1>6. CallsAreFirst /\ UploadedOnce /\ TaskFollows
  BY <1>3, <1>4 DEF CallsAreFirst, UploadedOnce, TaskFollows
<1>7. OnRecord /\ EndsFit
  BY <1>3, <1>4 DEF OnRecord, EndsFit, At, SubmissionSent
<1> QED BY <1>2, <1>5, <1>6, <1>7 DEF UploadInv

LEMMA NextCases ==
  ASSUME [Next]_vars
  PROVE  \/ Change \/ RemoteStep \/ UNCHANGED vars
         \/ \E r \in Requests : Asks(r)
         \/ \E j \in FollowUps : FollowsUp(j)
         \/ \E j \in JobIds : QueueStep(j) \/ Handler(j)
BY DEF Next, Asks, FollowsUp, QueueStep, Handler

LEMMA NextKeepsUploadInv ==
  ASSUME UploadInv, [Next]_vars
  PROVE  UploadInv'
<1>1. PTypeOK /\ KindsFit /\ PlacesFit
  BY DEF UploadInv
<1>2. CASE Change \/ RemoteStep \/ UNCHANGED vars
  <2>1. PTypeOK'
    BY <1>1, <1>2 DEF PTypeOK, Change, RemoteStep, vars, provider
  <2> QED BY <1>2, <2>1, RemoteKeepsUploadInv
<1>3. ASSUME NEW r \in Requests, Asks(r)
      PROVE  UploadInv'
  BY <1>1, <1>3, AsksKeepTypes, RequestsOnlyCreate, RequestedKeepsUploadInv
<1>4. ASSUME NEW j \in FollowUps, FollowsUp(j)
      PROVE  UploadInv'
  BY <1>1, <1>4, FollowsUpKeepsTypes, FollowUpsFollow, FollowsKeepsUploadInv
<1>5. ASSUME NEW j \in JobIds, QueueStep(j)
      PROVE  UploadInv'
  <2>1. PTypeOK'
    BY <1>1, <1>5, QueueFacts DEF PTypeOK
  <2> QED BY <1>5, <2>1, QueueKeepsUploadInv
<1>6. ASSUME NEW j \in JobIds, Handler(j)
      PROVE  UploadInv'
  <2>1. HandlerStep(j) /\ changed' = changed /\ request' = request
    BY <1>1, <1>6, HandlersTakeSteps, HandlersLeaveRequests
  <2>2. PTypeOK'
    BY <1>1, <2>1, HandlerStepsKeepTypes
  <2> QED BY <2>1, <2>2, MovesKeepUploadInv, AnnouncesKeepUploadInv, SendsKeepUploadInv,
             RecordsKeepUploadInv DEF HandlerStep
<1> QED BY <1>2, <1>3, <1>4, <1>5, <1>6, NextCases

\* The submission is made once, on record, by the one job of the video.
THEOREM UploadInvariance == Spec => []UploadInv
<1>1. Init => UploadInv
  BY InitUploadInv
<1>2. UploadInv /\ [Next]_vars => UploadInv'
  BY NextKeepsUploadInv
<1> QED BY <1>1, <1>2, PTL DEF Spec

-----------------------------------------------------------------------------
(***************************************************************************)
(* The publications.  A publication is made by a run that has put it on     *)
(* record, once; and after one that is certain, the task says SUCCEEDED and *)
(* no run takes another step towards a call, unless a run that had lost its *)
(* lease wrote the task.                                                    *)
(***************************************************************************)
LEMMA FollowUpsAreFinite == IsFiniteSet(FollowUps)
BY PublicationBounds, FS_Interval DEF FollowUps

LEMMA SpentOnly ==
  ASSUME Spent \subseteq Spent', sent'["publish"] = sent["publish"], PublishedOnceEach,
         PTypeOK
  PROVE  PublishedOnceEach'
<1>1. Spent' \in SUBSET FollowUps
  BY DEF Spent
<1>2. IsFiniteSet(Spent')
  BY <1>1, FollowUpsAreFinite, FS_Subset
<1>3. /\ Cardinality(Spent) <= Cardinality(Spent')
      /\ Cardinality(Spent') \in Nat /\ Cardinality(Spent) \in Nat
  BY <1>2, FS_Subset, FS_CardinalityType
<1> QED BY <1>3 DEF PublishedOnceEach, PTypeOK

LEMMA SpentOnce ==
  ASSUME NEW j, j \notin Spent, Spent \cup {j} \subseteq Spent',
         sent'["publish"] = sent["publish"] + 1, PublishedOnceEach, PTypeOK
  PROVE  PublishedOnceEach'
<1>1. Spent' \in SUBSET FollowUps /\ Spent \in SUBSET FollowUps
  BY DEF Spent
<1>2. IsFiniteSet(Spent') /\ IsFiniteSet(Spent)
  BY <1>1, FollowUpsAreFinite, FS_Subset
<1>3. Cardinality(Spent \cup {j}) = Cardinality(Spent) + 1
  BY <1>2, FS_AddElement
<1>4. Cardinality(Spent \cup {j}) <= Cardinality(Spent')
  BY <1>2, FS_Subset
<1>5. Cardinality(Spent') \in Nat /\ Cardinality(Spent) \in Nat
  BY <1>2, FS_CardinalityType
<1> QED BY <1>3, <1>4, <1>5 DEF PublishedOnceEach, PTypeOK

\* Once a publication is certain, no job of its task but finalize and refresh jobs
\* of Instagram can run, and the submit run is over.
LEMMA SettledFacts ==
  ASSUME UploadInv, NEW f \in FollowUps, Settled(f)
  PROVE  platform = "instagram" /\ ~Working /\ f \in JobIds
<1>1. f \in JobIds /\ platform = "instagram"
  BY JobNames DEF UploadInv, KindsFit, Settled
<1>2. jobs[f] # NoJob
  BY DEF Settled, NoJob
<1> QED BY <1>1, <1>2 DEF UploadInv, TaskFollows

LEMMA MovesKeepPublishInv ==
  ASSUME UploadInv, UploadInv', PublishInv, NEW j \in JobIds, NEW x \in Run, Moves(j, x)
  PROVE  PublishInv'
<1>1. PTypeOK /\ KindsFit /\ PlacesFit /\ OneRunning
  BY DEF UploadInv
<1>2. /\ run'[j] = x /\ \A i \in JobIds : i # j => run'[i] = run[i]
      /\ platform' = platform /\ task' = task /\ jobs' = jobs
      /\ remote' = remote /\ sent' = sent /\ late' = late
      /\ run[j].at # "none" /\ x.at # "none"
  BY <1>1, Entered DEF Moves, provider
<1>3. \/ run[j].at = "begin" /\ Begins(j, x)
      \/ <<run[j].at, x.at>> \in GivesUp
      \/ run[j].at = "fetch" /\ x.at = "apply"
      \/ /\ x.at = "report"
         /\ x.result = "succeeded" => jobs[j].kind = "submit" \/ run[j].at = "apply"
  BY DEF Moves, At
<1>4. /\ jobs[j].kind = "submit" <=> j = 1
      /\ j # 1 => j \in FollowUps
      /\ FollowUps \subseteq JobIds
  BY <1>1, <1>2, AtWork, JobNames
<1>5. PublishedOnceEach'
  <2>1. x.at # "publish"
    BY <1>3 DEF Begins, GivesUp
  <2>2. Spent \subseteq Spent'
    BY <1>2, <1>4, <2>1 DEF Spent, Publisher, At
  <2> QED BY <1>1, <1>2, <2>2, SpentOnly DEF PublishInv
<1>6. NotYetOnRecord'
  <2>1. x.at # "begin" /\ (x.at = "publish?" => run[j].at = "begin")
    BY <1>3 DEF Begins, GivesUp
  <2> QED BY <1>2, <1>4, <2>1 DEF PublishInv, NotYetOnRecord
<1>7. SettledStays'
  <2>1. SUFFICES ASSUME ~late, NEW f \in FollowUps, Settled(f)'
                 PROVE  /\ task.status = "SUCCEEDED"
                        /\ \A i \in JobIds : jobs[i].status = "RUNNING" =>
                             run'[i].at \in {"none", "begin", "report"}
    BY <1>2 DEF SettledStays
  <2>2. Settled(f)
    <3>1. j = f => ~(x.at = "report" /\ x.result = "succeeded" /\ jobs[j].kind = "finalize")
      BY <1>1, <1>3 DEF PlacesFit, Begins, GivesUp
    <3> QED BY <1>2, <1>4, <2>1, <3>1 DEF Settled, At
  <2>3. /\ task.status = "SUCCEEDED"
        /\ \A i \in JobIds : jobs[i].status = "RUNNING" =>
             run[i].at \in {"none", "begin", "report"}
    BY <2>1, <2>2 DEF PublishInv, SettledStays
  <2>4. platform = "instagram" /\ ~Working
    BY <2>2, SettledFacts
  <2>5. jobs[j].status = "RUNNING" => x.at = "report"
    <3>1. ~(run[j].at = "begin" /\ Begins(j, x))
      BY <1>4, <2>3, <2>4 DEF Begins, Working, Waiting
    <3> QED BY <1>3, <2>3, <3>1 DEF GivesUp
  <2> QED BY <1>2, <2>3, <2>5
<1>8. OneCertain'
  BY <1>2 DEF PublishInv, OneCertain, Publisher
<1> QED BY <1>5, <1>6, <1>7, <1>8 DEF PublishInv

LEMMA AnnouncesKeepPublishInv ==
  ASSUME UploadInv, UploadInv', PublishInv, NEW j \in JobIds, NEW x \in Run,
         Announces(j, x)
  PROVE  PublishInv'
<1>1. PTypeOK /\ KindsFit /\ PlacesFit /\ OneRunning /\ KindsFit'
  BY DEF UploadInv
<1>2. /\ run'[j] = x /\ \A i \in JobIds : i # j => run'[i] = run[i]
      /\ platform' = platform /\ task' = task /\ remote' = remote /\ sent' = sent
      /\ run[j].at # "none" /\ x.at # "none" /\ jobs[j].status = "RUNNING" /\ late' = late
  BY <1>1, Entered DEF Announces, provider
<1>3. /\ jobs'[j].kind = jobs[j].kind /\ jobs'[j].status = jobs[j].status
      /\ jobs'[j].external
      /\ \A i \in JobIds : i # j => jobs'[i] = jobs[i]
  BY <1>1, AnnouncedJob DEF Announces
<1>4. \/ run[j].at = "open?" /\ x.at = "open"
      \/ run[j].at = "upload?" /\ x.at = "upload"
      \/ run[j].at = "publish?" /\ x.at = "publish"
  BY DEF Announces, At
<1>5. FollowUps \subseteq JobIds
  BY JobNames
<1>6. PublishedOnceEach'
  <2>1. j \in Spent => FALSE
    BY <1>1, <1>4 DEF Spent, Publisher, PlacesFit, Submitting, PublishInv, NotYetOnRecord
  <2>2. Spent \subseteq Spent'
    BY <1>2, <1>3, <1>5, <2>1 DEF Spent, Publisher, At
  <2> QED BY <1>1, <1>2, <2>2, SpentOnly DEF PublishInv
<1>7. NotYetOnRecord'
  BY <1>2, <1>3, <1>4, <1>5 DEF PublishInv, NotYetOnRecord
<1>8. ASSUME ~late, NEW f \in FollowUps, Settled(f)
      PROVE  FALSE
  BY <1>2, <1>4, <1>8 DEF PublishInv, SettledStays
<1>9. SettledStays'
  <2>1. \A f \in FollowUps : Settled(f)' => Settled(f)
    BY <1>2, <1>3, <1>4, <1>5 DEF Settled, At
  <2> QED BY <1>2, <1>8, <2>1 DEF SettledStays
<1>10. OneCertain'
  <2>1. SUFFICES ASSUME ~late, NEW g \in FollowUps, NEW h \in FollowUps, g # h,
                        Publisher(g)', Publisher(h)',
                        jobs'[g].status \in {"RUNNING", "SUCCEEDED"},
                        jobs'[h].status \in {"RUNNING", "SUCCEEDED"}
                 PROVE  FALSE
    BY <1>2 DEF OneCertain
  <2>2. jobs[g].status = "SUCCEEDED" => Settled(g)
    BY <1>2, <1>3, <1>5, <2>1 DEF Settled, Publisher
  <2>3. jobs[h].status = "SUCCEEDED" => Settled(h)
    BY <1>2, <1>3, <1>5, <2>1 DEF Settled, Publisher
  <2>4. jobs[g].status = "RUNNING" /\ jobs[h].status = "RUNNING"
    BY <1>3, <1>5, <1>8, <2>1, <2>2, <2>3
  <2> QED BY <1>1, <1>5, <2>1, <2>4 DEF OneRunning
<1> QED BY <1>6, <1>7, <1>9, <1>10 DEF PublishInv

LEMMA SendsKeepPublishInv ==
  ASSUME UploadInv, UploadInv', PublishInv, NEW j \in JobIds, NEW x \in Run, Sends(j, x)
  PROVE  PublishInv'
<1>1. PTypeOK /\ KindsFit /\ PlacesFit /\ OnRecord
  BY DEF UploadInv
<1>2. /\ run'[j] = x /\ \A i \in JobIds : i # j => run'[i] = run[i]
      /\ platform' = platform /\ task' = task /\ jobs' = jobs /\ late' = late
      /\ run[j].at # "none" /\ x.at # "none"
      /\ FollowUps \subseteq JobIds
  BY <1>1, Entered, JobNames DEF Sends
<1>3. /\ run[j].at \in {"open", "upload", "publish"}
      /\ x.at \in {"store", "doubt", "refuse", "finish", "close"}
      /\ run[j].at \in {"open", "upload"} => sent'["publish"] = sent["publish"]
      /\ run[j].at = "publish" => sent'["publish"] = sent["publish"] + 1
  BY <1>1, SentCounts DEF Sends, At
<1>4. PublishedOnceEach'
  <2>1. Spent \subseteq Spent'
    BY <1>2, <1>3 DEF Spent, Publisher, At
  <2>2. CASE run[j].at \in {"open", "upload"}
    BY <1>1, <1>3, <2>1, <2>2, SpentOnly DEF PublishInv
  <2>3. CASE run[j].at = "publish"
    <3>1. jobs[j].kind = "finalize" /\ jobs[j].external /\ j \in FollowUps
      BY <1>1, <2>3 DEF PlacesFit, Publishing, OnRecord, At, KindsFit
    <3>2. j \notin Spent /\ j \in Spent'
      BY <1>2, <1>3, <2>3, <3>1 DEF Spent, Publisher, At
    <3> QED BY <1>1, <1>3, <2>1, <2>3, <3>2, SpentOnce DEF PublishInv
  <2> QED BY <1>3, <2>2, <2>3
<1>5. NotYetOnRecord'
  BY <1>2, <1>3 DEF PublishInv, NotYetOnRecord
<1>6. SettledStays'
  <2>1. \A f \in FollowUps : Settled(f)' => Settled(f)
    BY <1>2, <1>3 DEF Settled, At
  <2>2. ASSUME ~late, NEW f \in FollowUps, Settled(f)
        PROVE  jobs[j].status # "RUNNING"
    BY <1>3, <2>2 DEF PublishInv, SettledStays
  <2> QED BY <1>2, <2>1, <2>2 DEF PublishInv, SettledStays
<1>7. OneCertain'
  BY <1>2 DEF PublishInv, OneCertain, Publisher
<1> QED BY <1>4, <1>5, <1>6, <1>7 DEF PublishInv

LEMMA RecordsKeepPublishInv ==
  ASSUME UploadInv, UploadInv', PublishInv, NEW j \in JobIds, NEW x \in Run,
         Records(j, x)
  PROVE  PublishInv'
<1>1. PTypeOK /\ KindsFit /\ PlacesFit /\ OneRunning
  BY DEF UploadInv
<1>2. /\ run'[j] = x /\ \A i \in JobIds : i # j => run'[i] = run[i]
      /\ platform' = platform /\ jobs' = jobs /\ sent' = sent
      /\ late' = (late \/ jobs[j].status # "RUNNING")
      /\ run[j].at \notin {"none", "report"}
      /\ FollowUps \subseteq JobIds
  BY <1>1, Entered, JobNames DEF Records, provider, At
<1>3. /\ x.at \in {"upload?", "report"}
      /\ x.at = "report" /\ x.result = "succeeded" =>
           run[j].at \in {"finish", "apply", "close"}
      /\ run[j].at = "begin" => jobs[j].kind = "submit"
      /\ run[j].at = "close" => task'.status = "SUCCEEDED"
  BY DEF Records, At
<1>4. jobs[j].kind = "submit" <=> j = 1
  BY <1>1, <1>2, AtWork
<1>5. PublishedOnceEach'
  <2>1. Spent \subseteq Spent'
    BY <1>2, <1>3 DEF Spent, Publisher, At
  <2> QED BY <1>1, <1>2, <2>1, SpentOnly DEF PublishInv
<1>6. NotYetOnRecord'
  BY <1>2, <1>3 DEF PublishInv, NotYetOnRecord
<1>7. SettledStays'
  <2>1. SUFFICES ASSUME ~late, jobs[j].status = "RUNNING", NEW f \in FollowUps, Settled(f)'
                 PROVE  /\ task'.status = "SUCCEEDED"
                        /\ \A i \in JobIds : jobs[i].status = "RUNNING" =>
                             run'[i].at \in {"none", "begin", "report"}
    BY <1>2 DEF SettledStays
  <2>2. ~Settled(f)
    <3>1. SUFFICES ASSUME Settled(f)
                   PROVE  FALSE
      OBVIOUS
    <3>2. run[j].at = "begin"
      BY <1>2, <2>1, <3>1 DEF PublishInv, SettledStays
    <3>3. ~Working
      BY <3>1, SettledFacts
    <3> QED BY <1>3, <1>4, <3>2, <3>3 DEF Working, Waiting
  <2>3. f = j /\ x.at = "report" /\ x.result = "succeeded" /\ jobs[j].kind = "finalize"
    BY <1>2, <2>1, <2>2 DEF Settled, At
  <2>4. run[j].at = "close"
    BY <1>1, <1>3, <2>3 DEF PlacesFit, Submitting
  <2> QED BY <1>1, <1>2, <1>3, <2>1, <2>3, <2>4 DEF OneRunning
<1>8. OneCertain'
  BY <1>2 DEF PublishInv, OneCertain, Publisher
<1> QED BY <1>5, <1>6, <1>7, <1>8 DEF PublishInv

LEMMA QueueKeepsPublishInv ==
  ASSUME UploadInv, UploadInv', PublishInv, NEW j \in JobIds, QueueStep(j)
  PROVE  PublishInv'
<1>1. PTypeOK /\ KindsFit /\ PlacesFit /\ OneRunning
  BY DEF UploadInv
<1>2. /\ platform' = platform /\ task' = task /\ sent' = sent /\ late' = late
      /\ \A i \in JobIds : /\ i # j => jobs'[i] = jobs[i] /\ run'[i] = run[i]
                           /\ jobs'[i].kind = jobs[i].kind
                           /\ jobs'[i].external = jobs[i].external
      /\ FollowUps \subseteq JobIds
  BY <1>1, QueueFacts, JobNames
<1>3. \/ /\ jobs[j].status = "QUEUED" /\ jobs'[j].status = "RUNNING"
         /\ \A i \in JobIds : jobs[i].status # "RUNNING"
         /\ run[j].at = "none" /\ run'[j].at = "begin"
      \/ /\ jobs[j].status # "QUEUED"
         /\ \/ jobs' = jobs
            \/ jobs[j].status = "RUNNING" /\ jobs'[j].status # "RUNNING"
         /\ jobs'[j].status = "SUCCEEDED" /\ jobs' # jobs =>
              run[j].at = "report" /\ run[j].result = "succeeded"
         /\ \/ run' = run
            \/ run'[j].at = "none"
  BY <1>1, QueueFacts
<1>4. jobs[j].status = "QUEUED" => ~jobs[j].external
  BY <1>1 DEF PlacesFit
<1>5. \A i \in JobIds : run'[i] = run[i] \/ (i = j /\ run'[i].at \in {"none", "begin"})
  BY <1>2, <1>3
<1>6. PublishedOnceEach'
  <2>1. Spent \subseteq Spent'
    BY <1>2, <1>5 DEF Spent, Publisher, At
  <2> QED BY <1>1, <1>2, <2>1, SpentOnly DEF PublishInv
<1>7. NotYetOnRecord'
  BY <1>2, <1>3, <1>4 DEF PublishInv, NotYetOnRecord
<1>8. SettledStays'
  <2>1. \A f \in FollowUps : Settled(f)' => Settled(f)
    BY <1>2, <1>3 DEF Settled, At
  <2>2. \A i \in JobIds : jobs'[i].status = "RUNNING" =>
          jobs[i].status = "RUNNING" \/ run'[i].at = "begin"
    BY <1>2, <1>3
  <2> QED BY <1>2, <1>5, <2>1, <2>2 DEF PublishInv, SettledStays
<1>9. OneCertain'
  <2>1. \A i \in FollowUps : Publisher(i)' /\ jobs'[i].status \in {"RUNNING", "SUCCEEDED"}
          => Publisher(i) /\ jobs[i].status \in {"RUNNING", "SUCCEEDED"}
    BY <1>2, <1>3, <1>4 DEF Publisher
  <2> QED BY <1>2, <2>1 DEF PublishInv, OneCertain
<1> QED BY <1>6, <1>7, <1>8, <1>9 DEF PublishInv

\* A request, and what happens outside: no job that was claimed is touched.
LEMMA OthersKeepPublishInv ==
  ASSUME UploadInv, UploadInv', PublishInv,
         \/ Requested
         \/ \E j \in FollowUps : Follows(j)
         \/ Change \/ RemoteStep \/ UNCHANGED vars
  PROVE  PublishInv'
<1>1. PTypeOK /\ KindsFit /\ PlacesFit /\ FollowUps \subseteq JobIds /\ 1 \notin FollowUps
  BY JobNames DEF UploadInv
<1>2. /\ platform' = platform /\ run' = run /\ sent' = sent /\ late' = late
      /\ task'.status = task.status \/ task = NoTask
  BY DEF Requested, Follows, Change, RemoteStep, vars, provider
<1>3. \A i \in JobIds : \/ jobs'[i] = jobs[i]
                        \/ /\ jobs[i] = NoJob /\ run[i].at = "none"
                           /\ jobs'[i].status = "QUEUED"
  <2>1. CASE Requested
    <3>1. CASE jobs' = jobs
      BY <3>1
    <3>2. ASSUME NEW r \in Requests, jobs[1] = NoJob,
                 jobs' = [jobs EXCEPT ![1] = SubmitJob(r)]
          PROVE  /\ jobs'[1].status = "QUEUED" /\ run[1].at = "none"
                 /\ \A i \in JobIds : i # 1 => jobs'[i] = jobs[i]
      <4>1. jobs'[1] = SubmitJob(r) /\ \A i \in JobIds : i # 1 => jobs'[i] = jobs[i]
        BY <1>1, <3>2, JobNames DEF PTypeOK
      <4> QED BY <1>1, <3>2, <4>1, CreatedFacts, JobNames DEF PlacesFit, At
    <3> QED BY <2>1, <3>1, <3>2 DEF Requested
  <2>2. ASSUME NEW j \in FollowUps, Follows(j)
        PROVE  \A i \in JobIds : \/ jobs'[i] = jobs[i]
                                 \/ /\ jobs[i] = NoJob /\ run[i].at = "none"
                                    /\ jobs'[i].status = "QUEUED"
    BY <1>1, <2>2, FollowedJob DEF Follows, PlacesFit, At
  <2>3. CASE Change \/ RemoteStep \/ UNCHANGED vars
    BY <2>3 DEF Change, RemoteStep, vars
  <2> QED BY <2>1, <2>2, <2>3
<1>4. NoJob.kind = "none" /\ NoJob.status = "none" /\ NoTask.status = "NONE"
  BY DEF NoJob, NoTask
<1>5. PublishedOnceEach'
  <2>1. Spent \subseteq Spent'
    BY <1>1, <1>2, <1>3, <1>4 DEF Spent, Publisher, At
  <2> QED BY <1>1, <1>2, <2>1, SpentOnly DEF PublishInv
<1>6. NotYetOnRecord'
  BY <1>1, <1>2, <1>3 DEF PublishInv, NotYetOnRecord
<1>7. SettledStays'
  <2>1. \A f \in FollowUps : Settled(f)' => Settled(f)
    BY <1>1, <1>2, <1>3, <1>4 DEF Settled, At
  <2>2. \A i \in JobIds : jobs'[i].status = "RUNNING" => jobs[i].status = "RUNNING"
    BY <1>3
  <2> QED BY <1>2, <1>4, <2>1, <2>2 DEF PublishInv, SettledStays
<1>8. OneCertain'
  <2>1. \A i \in FollowUps : jobs'[i].status \in {"RUNNING", "SUCCEEDED"} => jobs'[i] = jobs[i]
    BY <1>1, <1>3
  <2> QED BY <1>2, <2>1 DEF PublishInv, OneCertain, Publisher
<1> QED BY <1>5, <1>6, <1>7, <1>8 DEF PublishInv

LEMMA InitPublishInv ==
  ASSUME Init
  PROVE  PublishInv
<1>1. /\ \A j \in FollowUps : jobs[j] = NoJob /\ run[j].at = "none"
      /\ sent["publish"] = 0 /\ NoJob.kind = "none"
  BY JobNames DEF Init, NoRun, NoJob
<1>2. Spent = {}
  BY <1>1 DEF Spent, Publisher
<1> QED BY <1>1, <1>2, FS_EmptySet
        DEF PublishInv, PublishedOnceEach, NotYetOnRecord, SettledStays, OneCertain,
            Settled, Publisher

LEMMA NextKeepsPublishInv ==
  ASSUME UploadInv, UploadInv', PublishInv, [Next]_vars
  PROVE  PublishInv'
<1>1. PTypeOK /\ PlacesFit
  BY DEF UploadInv
<1>2. CASE Change \/ RemoteStep \/ UNCHANGED vars
  BY <1>2, OthersKeepPublishInv
<1>3. CASE \E r \in Requests : Asks(r)
  BY <1>3, RequestsOnlyCreate, OthersKeepPublishInv
<1>4. CASE \E j \in FollowUps : FollowsUp(j)
  BY <1>4, FollowUpsFollow, OthersKeepPublishInv
<1>5. ASSUME NEW j \in JobIds, QueueStep(j)
      PROVE  PublishInv'
  BY <1>5, QueueKeepsPublishInv
<1>6. ASSUME NEW j \in JobIds, Handler(j)
      PROVE  PublishInv'
  <2>1. HandlerStep(j)
    BY <1>1, <1>6, HandlersTakeSteps
  <2> QED BY <2>1, MovesKeepPublishInv, AnnouncesKeepPublishInv, SendsKeepPublishInv,
             RecordsKeepPublishInv DEF HandlerStep
<1> QED BY <1>2, <1>3, <1>4, <1>5, <1>6, NextCases

\* The invariant that the properties of a publication follow from.
THEOREM PublicationInvariance == Spec => []PInv
<1>1. Init => PInv
  BY InitUploadInv, InitPublishInv DEF PInv
<1>2. PInv /\ [Next]_vars => PInv'
  BY NextKeepsUploadInv, NextKeepsPublishInv DEF PInv
<1> QED BY <1>1, <1>2, PTL DEF Spec

\* Every row and every run of a publication has its type.
THEOREM PublicationTypes == Spec => []PTypeOK
<1>1. PInv => PTypeOK
  BY DEF PInv, UploadInv
<1> QED BY <1>1, PublicationInvariance, PTL

\* The video is submitted once, however many requests ask for it, wherever they, the
\* handler and its lease end: one key for all requests, one attempt for the job.
THEOREM VideoIsUploadedOnce == Spec => []UploadedOnce
<1>1. PInv => UploadedOnce
  BY DEF PInv, UploadInv
<1> QED BY <1>1, PublicationInvariance, PTL

LEMMA FailureIsTold ==
  ASSUME UploadInv
  PROVE  FailureMeansNothingSent
<1>1. KindsFit /\ PlacesFit /\ OnRecord /\ EndsFit /\ PTypeOK
  BY DEF UploadInv
<1>2. SUFFICES ASSUME SubmissionSent
               PROVE  /\ task.status = "FAILED" => remote = "failed"
                      /\ \A j \in Requests : jobs[j].status # "FAILED"
                      /\ task.status = "CREATED" => InDoubt(1)
  BY JobNames DEF FailureMeansNothingSent
<1>3. jobs[1].external /\ jobs[1] \in Job
  BY <1>1, <1>2, JobNames DEF OnRecord, PTypeOK
<1>4. task.status = "FAILED" => remote = "failed"
  BY <1>1, <1>2 DEF EndsFit
<1>5. \A j \in Requests : jobs[j].status # "FAILED"
  <2>1. SUFFICES ASSUME NEW j \in Requests, jobs[j].status = "FAILED"
                 PROVE  FALSE
    OBVIOUS
  <2>2. jobs[j] \in Job /\ j \in JobIds /\ j \notin FollowUps
    BY <1>1, JobNames DEF PTypeOK
  <2>3. j = 1
    BY <1>1, <2>1, <2>2 DEF KindsFit, Job
  <2> QED BY <1>1, <1>3, <2>1, <2>2, <2>3 DEF EndsFit
<1>6. task.status = "CREATED" => InDoubt(1)
  <2>1. jobs[1].status \notin {"none", "QUEUED", "FAILED"}
    BY <1>1, <1>3, JobNames DEF PlacesFit, EndsFit
  <2>2. jobs[1].kind = "submit"
    BY <1>1, <1>3, <2>1, JobNames DEF KindsFit, Job
  <2>3. task.status = "CREATED" => jobs[1].status # "SUCCEEDED"
    BY <1>1 DEF EndsFit
  <2> QED BY <1>3, <2>1, <2>2, <2>3 DEF InDoubt, Job
<1> QED BY <1>4, <1>5, <1>6

\* Neither the task nor its job reads FAILED once the platform may have the video,
\* unless it said the video failed; and a task that looks untouched by then has a job
\* that is running or in doubt.
THEOREM FailuresAreReal == Spec => []FailureMeansNothingSent
<1>1. PInv => FailureMeansNothingSent
  BY FailureIsTold DEF PInv
<1> QED BY <1>1, PublicationInvariance, PTL

LEMMA OneCertainPublication ==
  ASSUME PInv
  PROVE  RepublishedInDoubtOnly
<1> DEFINE D == {j \in FollowUps : /\ jobs[j].kind = "finalize"
                                   /\ jobs[j].status = "SUBMIT_UNKNOWN"}
           Certain == {j \in FollowUps : /\ Publisher(j)
                                         /\ jobs[j].status \in {"RUNNING", "SUCCEEDED"}}
<1>1. /\ PTypeOK /\ PlacesFit /\ EndsFit /\ PublishedOnceEach /\ OneCertain
      /\ FollowUps \subseteq JobIds
  BY JobNames DEF PInv, UploadInv, PublishInv
<1>2. SUFFICES ASSUME ~late
               PROVE  sent["publish"] <= 1 + Cardinality(D)
  BY DEF RepublishedInDoubtOnly
<1>3. Spent \subseteq D \cup Certain
  <2>1. SUFFICES ASSUME NEW j \in Spent
                 PROVE  j \in D \cup Certain
    OBVIOUS
  <2>2. j \in FollowUps /\ Publisher(j) /\ jobs[j] \in Job /\ j \in JobIds
    BY <1>1 DEF Spent, PTypeOK
  <2>3. jobs[j].status \in {"RUNNING", "SUCCEEDED", "SUBMIT_UNKNOWN"}
    BY <1>1, <2>2 DEF PlacesFit, EndsFit, Publisher, Job
  <2> QED BY <2>2, <2>3 DEF Publisher
<1>4. \E c : D \cup Certain \subseteq D \cup {c}
  <2>1. \A i, j \in Certain : i = j
    BY <1>1, <1>2 DEF OneCertain
  <2> QED BY <2>1
<1> PICK c : D \cup Certain \subseteq D \cup {c}
  BY <1>4
<1>5. IsFiniteSet(D)
  BY FollowUpsAreFinite, FS_Subset
<1>6. /\ IsFiniteSet(D \cup {c}) /\ Cardinality(D \cup {c}) <= Cardinality(D) + 1
      /\ Cardinality(D) \in Nat /\ Cardinality(D \cup {c}) \in Nat
  BY <1>5, FS_AddElement, FS_CardinalityType
<1>7. Cardinality(Spent) <= Cardinality(D \cup {c}) /\ Cardinality(Spent) \in Nat
  BY <1>3, <1>6, FS_Subset, FS_CardinalityType
<1> QED BY <1>1, <1>6, <1>7 DEF PublishedOnceEach, PTypeOK

\* A Reel is made public once, and once more only after a publication whose job is
\* in doubt, or after a run that had lost its lease wrote the task.
THEOREM PublishedOncePerDoubt == Spec => []RepublishedInDoubtOnly
<1>1. PInv => RepublishedInDoubtOnly
  BY OneCertainPublication
<1> QED BY <1>1, PublicationInvariance, PTL
=============================================================================
