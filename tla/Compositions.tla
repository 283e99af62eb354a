---------------------------- MODULE Compositions ----------------------------
(***************************************************************************)
(* One video composed of rendered shots by ffmpeg, and its enhancement with *)
(* a voice, music and subtitles: local work that is paid in CPU time, whose *)
(* result is a file and a row that names it.                               *)
(*                                                                         *)
(* The job of a composition may be attempted twice and announces nothing,  *)
(* so its run may be repeated, and an attempt whose lease ran out may meet  *)
(* its replacement.  The job of an enhancement is attempted once and tells  *)
(* the queue before it stores anything.  The operations of the queue are    *)
(* atomic here; ExecutionQueue takes them apart.                           *)
(***************************************************************************)
EXTENDS Naturals

CONSTANT Encodings  \* the contents that encodings of one composition may have
ASSUME EncodingAssumption == "none" \notin Encodings

Attempts == 1..2    \* max_attempts of the job of a composition

VARIABLES
  sources,   \* the stored shots, voice and music, as their digests find them
  comp,      \* the row of video_compositions and the content its artifact names
  compJob,   \* its job: status and attempt_count
  render,    \* what each attempt is at
  files,     \* the contents stored for the composition
  late,      \* an attempt without its lease has ended the composition or removed a file
  enh,       \* the row of video_composition_enhancements, its two artifact rows
  enhJob,    \* its job, and whether the job is known to have begun to store
  enhance,   \* what the attempt is at
  enhFiles   \* the files stored for the enhancement

compVars == <<sources, comp, compJob, render, files, late>>
enhVars == <<enh, enhJob, enhance, enhFiles>>
compositionVars == <<compVars, enhVars>>

Content == Encodings \cup {"none"}
Renderable == {"QUEUED", "FAILED", "PERSIST_UNKNOWN"}
LocalJobStatuses == {"none", "QUEUED", "RUNNING", "SUCCEEDED", "FAILED", "SUBMIT_UNKNOWN"}
Composition ==
  [status : Renderable \cup {"none", "COMPOSING", "VERIFYING", "SUCCEEDED"}, artifact : Content]
Enhancement ==
  [status : Renderable \cup {"none", "ENHANCING", "VERIFYING", "SUCCEEDED"}, artifact : BOOLEAN]
Render == [at : {"idle", "load", "resolve", "compose", "store", "persist", "recover", "undo", "over"},
           content : Content, created : BOOLEAN]
NoRender == [at |-> "idle", content |-> "none", created |-> FALSE]

CompositionTypeOK ==
  /\ sources \in {"intact", "changed", "gone"}
  /\ comp \in Composition
  /\ compJob \in [status : LocalJobStatuses, attempts : 0..2]
  /\ render \in [Attempts -> Render]
  /\ files \subseteq Encodings
  /\ late \in BOOLEAN
  /\ enh \in Enhancement
  /\ enhJob \in [status : LocalJobStatuses, announced : BOOLEAN]
  /\ enhance \in {"idle", "check", "encode", "announce", "subtitle", "video", "persist", "over"}
  /\ enhFiles \subseteq {"subtitle", "video"}

CompositionInit ==
  /\ sources = "intact"
  /\ comp = [status |-> "none", artifact |-> "none"]
  /\ compJob = [status |-> "none", attempts |-> 0]
  /\ render = [r \in Attempts |-> NoRender]
  /\ files = {}
  /\ late = FALSE
  /\ enh = [status |-> "none", artifact |-> FALSE]
  /\ enhJob = [status |-> "none", announced |-> FALSE]
  /\ enhance = "idle"
  /\ enhFiles = {}

\* A stored file is found changed or missing when it is read again.
SourceSpoils ==
  /\ sources = "intact"
  /\ sources' \in {"changed", "gone"}
  /\ UNCHANGED <<comp, compJob, render, files, late, enhVars>>

-----------------------------------------------------------------------------
(* The job of a composition *)

\* The composition, its shots and its job in one transaction; whoever finds the
\* composition by the digest of its input, before or after the unique constraint
\* refused his own, changes nothing.
EnqueueComposition ==
  /\ comp.status = "none"
  /\ sources = "intact"
  /\ comp' = [comp EXCEPT !.status = "QUEUED"]
  /\ compJob' = [compJob EXCEPT !.status = "QUEUED"]
  /\ UNCHANGED <<sources, render, files, late, enhVars>>

Owns(r) == compJob = [status |-> "RUNNING", attempts |-> r]

ClaimComposition(r) ==
  /\ compJob = [status |-> "QUEUED", attempts |-> r - 1]
  /\ compJob' = [status |-> "RUNNING", attempts |-> r]
  /\ render' = [render EXCEPT ![r].at = "load"]
  /\ UNCHANGED <<sources, comp, files, late, enhVars>>

\* The attempt, if it lives, does not learn of it before it ends.
CompositionLeaseEnds ==
  /\ compJob.status = "RUNNING"
  /\ compJob' = [compJob EXCEPT !.status = IF compJob.attempts < 2 THEN "QUEUED" ELSE "FAILED"]
  /\ UNCHANGED <<sources, comp, render, files, late, enhVars>>

RetryComposition ==
  /\ compJob.status = "FAILED"
  /\ compJob.attempts < 2
  /\ compJob' = [compJob EXCEPT !.status = "QUEUED"]
  /\ UNCHANGED <<sources, comp, render, files, late, enhVars>>

\* The result of an attempt counts while it has its lease.
RenderEnds(r, status) ==
  /\ render' = [render EXCEPT ![r] = [NoRender EXCEPT !.at = "over"]]
  /\ compJob' = IF Owns(r) THEN [compJob EXCEPT !.status = status] ELSE compJob

-----------------------------------------------------------------------------
(* render *)

RenderAt(r, at) == render[r].at = at
RenderGoes(r, at) == render' = [render EXCEPT ![r].at = at] /\ UNCHANGED compJob

LoadComposition(r) ==
  /\ RenderAt(r, "load")
  /\ \/ comp.status = "SUCCEEDED" /\ RenderEnds(r, "SUCCEEDED")
     \/ comp.status \in {"COMPOSING", "VERIFYING"} /\ RenderEnds(r, "FAILED")
     \/ comp.status \in Renderable /\ RenderGoes(r, "resolve")
  /\ UNCHANGED <<sources, comp, files, late, enhVars>>

\* A shot that cannot be read leaves the composition as it was.
ResolveShots(r) ==
  /\ RenderAt(r, "resolve")
  /\ \/ sources = "intact" /\ comp' = [comp EXCEPT !.status = "COMPOSING"]
                           /\ RenderGoes(r, "compose")
     \/ sources = "changed" /\ comp' = [comp EXCEPT !.status = "FAILED"]
                            /\ RenderEnds(r, "FAILED")
     \/ sources = "gone" /\ comp' = comp /\ RenderEnds(r, "FAILED")
  /\ UNCHANGED <<sources, files, late, enhVars>>

Compose(r) ==
  /\ RenderAt(r, "compose")
  /\ comp' = [comp EXCEPT !.status = "VERIFYING"]
  /\ \E c \in Encodings :
       render' = [render EXCEPT ![r] = [@ EXCEPT !.at = "store", !.content = c]]
  /\ UNCHANGED <<sources, compJob, files, late, enhVars>>

\* ffmpeg, the probe, the storage or a commit fails: the job ends, the status stays.
RenderFails(r) ==
  /\ render[r].at \in {"load", "resolve", "compose", "store"}
  /\ RenderEnds(r, "FAILED")
  /\ UNCHANGED <<sources, comp, files, late, enhVars>>

\* Mutant: a file that exists is taken for the output, without comparing them.
StoreUncompared(r) ==
  /\ RenderAt(r, "store")
  /\ files' = IF files = {} THEN {render[r].content} ELSE files
  /\ render' = [render EXCEPT ![r] = [@ EXCEPT !.at = "persist", !.created = files = {}]]
  /\ UNCHANGED <<sources, comp, compJob, late, enhVars>>
\* A content is stored once, under its digest.
StoreComposition(r) ==
  /\ RenderAt(r, "store")
  /\ files' = files \cup {render[r].content}
  /\ render' = [render EXCEPT ![r] =
                 [@ EXCEPT !.at = "persist", !.created = render[r].content \notin files]]
  /\ UNCHANGED <<sources, comp, compJob, late, enhVars>>

\* One artifact per composition.  The attempt inserts its own: it loaded none.
PersistComposition(r) ==
  /\ RenderAt(r, "persist")
  /\ \/ /\ comp.artifact = "none"
        /\ comp' = [status |-> "SUCCEEDED", artifact |-> render[r].content]
        /\ late' = (late \/ ~Owns(r))
        /\ RenderEnds(r, "SUCCEEDED")
     \/ RenderGoes(r, "recover") /\ UNCHANGED <<comp, late>>
  /\ UNCHANGED <<sources, files, enhVars>>

\* After the rollback: another attempt may have stored the same content.
RecoverComposition(r) ==
  /\ RenderAt(r, "recover")
  /\ IF comp.artifact = render[r].content THEN RenderEnds(r, "SUCCEEDED") ELSE RenderGoes(r, "undo")
  /\ UNCHANGED <<sources, comp, files, late, enhVars>>

\* What the attempt created is removed, and the composition is marked.
UndoComposition(r) ==
  /\ RenderAt(r, "undo")
  /\ files' = IF render[r].created THEN files \ {render[r].content} ELSE files
  /\ comp' = [comp EXCEPT !.status = "PERSIST_UNKNOWN"]
  /\ late' = (late \/ ~Owns(r))
  /\ RenderEnds(r, "SUBMIT_UNKNOWN")
  /\ UNCHANGED <<sources, enhVars>>

RenderDies(r) ==
  /\ render[r].at \notin {"idle", "over"}
  /\ render' = [render EXCEPT ![r] = [NoRender EXCEPT !.at = "over"]]
  /\ UNCHANGED <<sources, comp, compJob, files, late, enhVars>>

\* resolve: the artifact of a SUCCEEDED composition whose file has its digest.
CanServe == comp.status = "SUCCEEDED" /\ comp.artifact \in files

-----------------------------------------------------------------------------
(* The enhancement of the composition *)

\* The preflight that the request, and later the attempt, must pass.
Enhanceable == CanServe /\ sources = "intact"

EnqueueEnhancement ==
  /\ enh.status = "none"
  /\ Enhanceable
  /\ enh' = [enh EXCEPT !.status = "QUEUED"]
  /\ enhJob' = [enhJob EXCEPT !.status = "QUEUED"]
  /\ UNCHANGED <<enhance, enhFiles, compVars>>

ClaimEnhancement ==
  /\ enhJob.status = "QUEUED"
  /\ enhJob' = [enhJob EXCEPT !.status = "RUNNING"]
  /\ enhance' = "check"
  /\ UNCHANGED <<enh, enhFiles, compVars>>

\* The only attempt is over.
EnhancementLeaseEnds ==
  /\ enhJob.status = "RUNNING"
  /\ enhJob' = [enhJob EXCEPT !.status = IF enhJob.announced THEN "SUBMIT_UNKNOWN" ELSE "FAILED"]
  /\ UNCHANGED <<enh, enhance, enhFiles, compVars>>

\* A failure that follows the announcement is reported as one of unknown outcome.
EnhanceEnds(status) ==
  /\ enhance' = "over"
  /\ enhJob' = IF enhJob.status # "RUNNING" THEN enhJob
               ELSE [enhJob EXCEPT !.status =
                      IF enhJob.announced /\ status # "SUCCEEDED" THEN "SUBMIT_UNKNOWN"
                                                                 ELSE status]
EnhanceGoes(at) == enhance' = at /\ UNCHANGED enhJob

CheckEnhancement ==
  /\ enhance = "check"
  /\ IF Enhanceable
     THEN enh' = [enh EXCEPT !.status = "ENHANCING"] /\ EnhanceGoes("encode")
     ELSE enh' = [enh EXCEPT !.status = "FAILED"] /\ EnhanceEnds("FAILED")
  /\ UNCHANGED <<enhFiles, compVars>>

Encode ==
  /\ enhance = "encode"
  /\ \/ enh' = [enh EXCEPT !.status = "VERIFYING"] /\ EnhanceGoes("announce")
     \/ enh' = [enh EXCEPT !.status = "FAILED"] /\ EnhanceEnds("FAILED")
  /\ UNCHANGED <<enhFiles, compVars>>

\* Mutant: what follows is local, nothing is announced.
AnnounceNothing ==
  /\ enhance = "announce"
  /\ EnhanceGoes("subtitle")
  /\ UNCHANGED <<enh, enhFiles, compVars>>
\* before_irreversible_local_persist: without the lease the attempt ends here.
AnnouncePersist ==
  /\ enhance = "announce"
  /\ IF enhJob.status = "RUNNING"
     THEN enhance' = "subtitle" /\ enhJob' = [enhJob EXCEPT !.announced = TRUE]
     ELSE enhance' = "over" /\ UNCHANGED enhJob
  /\ UNCHANGED <<enh, enhFiles, compVars>>

StoreSubtitle ==
  /\ enhance = "subtitle"
  /\ enhFiles' = enhFiles \cup {"subtitle"}
  /\ EnhanceGoes("video")
  /\ UNCHANGED <<enh, compVars>>

StoreEnhanced ==
  /\ enhance = "video"
  /\ enhFiles' = enhFiles \cup {"video"}
  /\ EnhanceGoes("persist")
  /\ UNCHANGED <<enh, compVars>>

\* The rows of the subtitle and of the video with the status; a failed commit marks
\* the enhancement, and leaves the files.
PersistEnhancement ==
  /\ enhance = "persist"
  /\ \/ enh' = [status |-> "SUCCEEDED", artifact |-> TRUE] /\ EnhanceEnds("SUCCEEDED")
     \/ enh' = [enh EXCEPT !.status = "PERSIST_UNKNOWN"] /\ EnhanceEnds("SUBMIT_UNKNOWN")
  /\ UNCHANGED <<enhFiles, compVars>>

\* Any other error of a step: nothing of the step is kept.
EnhanceFails ==
  /\ enhance \in {"check", "encode", "subtitle", "video", "persist"}
  /\ EnhanceEnds("FAILED")
  /\ UNCHANGED <<enh, enhFiles, compVars>>

EnhanceDies ==
  /\ enhance \notin {"idle", "over"}
  /\ enhance' = "over"
  /\ UNCHANGED <<enh, enhJob, enhFiles, compVars>>

CompositionNext ==
  \/ SourceSpoils \/ EnqueueComposition \/ CompositionLeaseEnds \/ RetryComposition
  \/ \E r \in Attempts :
       \/ ClaimComposition(r) \/ LoadComposition(r) \/ ResolveShots(r) \/ Compose(r)
       \/ RenderFails(r) \/ StoreComposition(r) \/ PersistComposition(r)
       \/ RecoverComposition(r) \/ UndoComposition(r) \/ RenderDies(r)
  \/ EnqueueEnhancement \/ ClaimEnhancement \/ EnhancementLeaseEnds
  \/ CheckEnhancement \/ Encode \/ AnnouncePersist \/ StoreSubtitle \/ StoreEnhanced
  \/ PersistEnhancement \/ EnhanceFails \/ EnhanceDies

CompositionSpec == CompositionInit /\ [][CompositionNext]_compositionVars

-----------------------------------------------------------------------------
(* Properties *)

\* What is listed as finished can be played: a SUCCEEDED composition or enhancement
\* has its files, whatever failed and was repeated on the way.  (An attempt that
\* outlived its lease may remove the file its replacement found and names.)
FinishedVideosExist ==
  /\ comp.status = "SUCCEEDED" /\ ~late => CanServe
  /\ enh.status = "SUCCEEDED" => enh.artifact /\ enhFiles = {"subtitle", "video"}

\* What a job reports is so: one that FAILED has stored nothing of an enhancement, whatever
\* failed or died after the storing was announced; and one that is SUBMIT_UNKNOWN has
\* no artifact of a composition, unless an attempt without its lease added it.
LocalReportsAreTrue ==
  /\ enhJob.status = "FAILED" => enhFiles = {} /\ ~enh.artifact
  /\ compJob.status = "SUBMIT_UNKNOWN" /\ ~late => comp.artifact = "none"
=============================================================================
