------------------------- MODULE VideoRenderProofs -------------------------
(***************************************************************************)
(* Proofs about VideoRender, for any number of callers, edits and refresh  *)
(* jobs, and any faults.                                                   *)
(*                                                                         *)
(* A run writes the outcome of a provider call without reading the row, so *)
(* everything rests on ClaimsAreExclusive: while a run holds a task, the   *)
(* status is its claim, and no other run can claim or write it.            *)
(***************************************************************************)
EXTENDS VideoRender, TLAPS

\* What a run can be doing, by its kind, and what it may put back.
RunsFit ==
  \A p \in Callers :
    /\ run[p].kind = "create" => at[p] \in {"idle", "looking", "inserting"}
    /\ run[p].kind \in {"submit", "live"} =>
         at[p] \notin {"downloading", "finalizing", "abandoning"}
    /\ run[p].kind = "refresh" =>
         at[p] \notin {"looking", "inserting"} /\ run[p].previous \in Refreshable

\* Refresh jobs are made for tasks that could be refreshed.
JobsFit == \A job \in queue : job.kind = "refresh" => job.digest.status \in Refreshable

\* A task that can still be claimed was never submitted ...
Unsubmitted ==
  \A k \in Keys :
    tasks[k].status \in {"NONE", "CREATED"} =>
      ~tasks[k].provider /\ asks[k] = 0

\* ... and the run that is about to submit a task is the first to.
FirstToAsk ==
  \A p \in Callers :
    at[p] \in {"announcing", "asking"} /\ run[p].kind \in {"submit", "live"} =>
      asks[Key(p)] = 0

\* Where the provider's id is known, or about to be, it holds a render.
RendersExist ==
  /\ \A k \in Keys : tasks[k].provider => remote[k] # "none"
  /\ \A p \in Callers :
       /\ at[p] = "recording" /\ run[p].kind \in {"submit", "live"}
       /\ run[p].answer \in RemoteStatuses \cup {"UNKNOWN"}
       => remote[Key(p)] # "none"

\* A run about to finalize has stored the video.
VideosStored == \A p \in Callers : at[p] = "finalizing" => Key(p) \in files

RInv ==
  /\ TypeOK /\ RunsFit /\ JobsFit /\ ClaimsAreExclusive /\ SubmittedOnce
  /\ Unsubmitted /\ FirstToAsk /\ RendersExist /\ VideosStored /\ ArtifactsAreWhole

LEMMA KeyNames == "workspace" \in Keys /\ "live" \in Keys
BY DEF Keys

LEMMA StatusNames ==
  /\ Refreshable \subseteq Statuses /\ Terminal \subseteq Statuses
  /\ Claims \subseteq Statuses /\ "NONE" \in Statuses /\ "CREATED" \in Statuses
  /\ RemoteStatuses \subseteq Statuses
BY DEF Statuses, Refreshable, Terminal, Claims, RemoteStatuses

-----------------------------------------------------------------------------
(***************************************************************************)
(* Types.                                                                  *)
(***************************************************************************)
LEMMA NewRunType ==
  ASSUME NEW kind \in {"submit", "refresh", "live", "create"}, NEW k \in Keys,
         NEW status \in Statuses
  PROVE  NewRun(kind, k, status) \in Run
BY DEF NewRun, Run

LEMMA OverType ==
  ASSUME NEW result \in {"none", "succeeded", "failed", "raised"}
  PROVE  Over(result) \in Run
BY NewRunType, KeyNames, StatusNames DEF Over, NoRun, Run

LEMMA InitType == Init => TypeOK
<1> SUFFICES ASSUME Init PROVE TypeOK
  OBVIOUS
<1>1. NoTask \in Task
  BY StatusNames DEF NoTask, Task, Errors
<1>2. NoRun \in Run
  BY NewRunType, KeyNames, StatusNames DEF NoRun
<1> QED BY <1>1, <1>2, BoundsAssumption DEF Init, TypeOK, Places

LEMMA WriteType ==
  ASSUME TypeOK, NEW k \in Keys, NEW status \in Statuses, NEW error \in Errors,
         Write(k, status, error)
  PROVE  tasks' \in [Keys -> Task]
BY DEF TypeOK, Write, Task

LEMMA EndType ==
  ASSUME TypeOK, NEW p \in Callers,
         NEW result \in {"none", "succeeded", "failed", "raised"}, End(p, result)
  PROVE  at' \in [Callers -> Places] /\ run' \in [Callers -> Run]
BY OverType DEF TypeOK, End, Places

-----------------------------------------------------------------------------
(***************************************************************************)
(* Steps that leave the tables alone.                                      *)
(***************************************************************************)
LEMMA EndMoves ==
  ASSUME TypeOK, NEW p \in Callers, NEW result, End(p, result)
  PROVE  /\ at'[p] = "idle" /\ run'[p].kind = "create"
         /\ \A q \in Callers : q # p => at'[q] = at[q] /\ run'[q] = run[q]
<1>1. NoRun \in Run /\ NoRun.kind = "create"
  BY NewRunType, KeyNames, StatusNames DEF NoRun, NewRun
<1>2. Over(result).kind = "create"
  BY <1>1 DEF Over, Run
<1> QED BY <1>2 DEF TypeOK, End

LEMMA EndOnlyKeepsRInv ==
  ASSUME RInv, NEW p \in Callers,
         NEW result \in {"none", "succeeded", "failed", "raised"}, End(p, result),
         UNCHANGED <<table, jobs, provider>>
  PROVE  RInv'
<1>1. TypeOK'
  BY EndType DEF RInv, TypeOK, table, jobs, provider
<1>2. /\ at'[p] = "idle" /\ run'[p].kind = "create"
      /\ \A q \in Callers : q # p => at'[q] = at[q] /\ run'[q] = run[q]
  BY EndMoves DEF RInv
<1>3. RunsFit' /\ JobsFit'
  BY <1>2 DEF RInv, RunsFit, JobsFit, jobs
<1>4. ClaimsAreExclusive'
  BY <1>2 DEF RInv, ClaimsAreExclusive, Holds, HeldStatus, Key, table
<1>5. SubmittedOnce' /\ Unsubmitted' /\ FirstToAsk'
  BY <1>2 DEF RInv, SubmittedOnce, Unsubmitted, FirstToAsk, Key, table, provider
<1>6. RendersExist'
  BY <1>2 DEF RInv, RendersExist, Key, table, provider
<1>7. VideosStored' /\ ArtifactsAreWhole'
  BY <1>2 DEF RInv, VideosStored, ArtifactsAreWhole, ArtifactAvailable, Key, table
<1> QED BY <1>1, <1>3, <1>4, <1>5, <1>6, <1>7 DEF RInv

LEMMA BeginKeepsRInv ==
  ASSUME RInv, NEW p \in Callers, NEW place \in Places, NEW r \in Run,
         Begin(p, place, r),
         \/ place = "idle" /\ r.kind = "create"
         \/ place = "looking" /\ r.kind # "refresh"
         \/ place = "claiming" /\ r.kind = "refresh" /\ r.previous \in Refreshable,
         queue' \subseteq queue,
         UNCHANGED <<table, inputs, submitted, refreshes, provider>>
  PROVE  RInv'
<1>1. TypeOK'
  BY DEF RInv, TypeOK, Begin, table, provider
<1>2. /\ at'[p] = place /\ run'[p] = r
      /\ \A q \in Callers : q # p => at'[q] = at[q] /\ run'[q] = run[q]
  BY DEF RInv, TypeOK, Begin
<1>3. RunsFit' /\ JobsFit'
  BY <1>2 DEF RInv, RunsFit, JobsFit
<1>4. ClaimsAreExclusive'
  BY <1>2 DEF RInv, ClaimsAreExclusive, Holds, HeldStatus, Key, table
<1>5. SubmittedOnce' /\ Unsubmitted' /\ FirstToAsk'
  BY <1>2 DEF RInv, SubmittedOnce, Unsubmitted, FirstToAsk, Key, table, provider
<1>6. RendersExist'
  BY <1>2 DEF RInv, RendersExist, Key, table, provider
<1>7. VideosStored' /\ ArtifactsAreWhole'
  BY <1>2 DEF RInv, VideosStored, ArtifactsAreWhole, ArtifactAvailable, Key, table
<1> QED BY <1>1, <1>3, <1>4, <1>5, <1>6, <1>7 DEF RInv

LEMMA StartKeepsRInv ==
  ASSUME RInv, NEW p \in Callers, Start(p)
  PROVE  RInv'
<1>0. "idle" \in Places /\ "looking" \in Places /\ "claiming" \in Places
  BY DEF Places
<1>1. ASSUME NEW result \in {"none", "succeeded", "failed", "raised"}
      PROVE  Over(result) \in Run /\ Over(result).kind = "create"
  <2>1. NoRun \in Run /\ NoRun.kind = "create"
    BY NewRunType, KeyNames, StatusNames DEF NoRun, NewRun
  <2> QED BY <2>1, OverType DEF Over, Run
<1>2. ASSUME NEW kind \in {"submit", "refresh", "live", "create"}, NEW k \in Keys,
             NEW status \in Statuses
      PROVE  /\ NewRun(kind, k, status) \in Run
             /\ NewRun(kind, k, status).kind = kind
             /\ NewRun(kind, k, status).previous = status
  BY NewRunType DEF NewRun
<1>3. CASE StartSubmit(p)
  <2> PICK v \in submitted :
        /\ queue' = queue \ {SubmitJob(v)}
        /\ IF v = inputs
           THEN Begin(p, "looking", NewRun("submit", "workspace", "NONE"))
           ELSE Begin(p, "idle", Over("failed"))
        /\ UNCHANGED <<table, inputs, submitted, refreshes, provider>>
    BY <1>3 DEF StartSubmit
  <2>1. CASE Begin(p, "looking", NewRun("submit", "workspace", "NONE"))
    BY <2>1, <1>0, <1>2, KeyNames, StatusNames, BeginKeepsRInv
  <2>2. CASE Begin(p, "idle", Over("failed"))
    BY <2>2, <1>0, <1>1, BeginKeepsRInv
  <2> QED BY <2>1, <2>2
<1>4. CASE StartRefresh(p)
  <2> PICK job \in queue :
        /\ job.kind = "refresh"
        /\ queue' = queue \ {job}
        /\ IF job.digest = TaskDigest(job.key)
           THEN Begin(p, "claiming",
                      NewRun("refresh", job.key, tasks[job.key].status))
           ELSE Begin(p, "idle", Over("failed"))
        /\ UNCHANGED <<table, inputs, submitted, refreshes, provider>>
    BY <1>4 DEF StartRefresh
  <2>1. job.key \in Keys
    BY DEF RInv, TypeOK
  <2>2. tasks[job.key].status \in Statuses
    BY <2>1 DEF RInv, TypeOK, Task
  <2>3. CASE job.digest = TaskDigest(job.key)
    <3>1. tasks[job.key].status \in Refreshable
      BY <2>3 DEF RInv, JobsFit, TaskDigest
    <3> QED BY <2>1, <2>2, <2>3, <3>1, <1>0, <1>2, BeginKeepsRInv
  <2>4. CASE job.digest # TaskDigest(job.key)
    BY <2>4, <1>0, <1>1, BeginKeepsRInv
  <2> QED BY <2>3, <2>4
<1>5. CASE StartLive(p)
  <2>1. CASE Begin(p, "looking", NewRun("live", "live", "NONE"))
    BY <2>1, <1>5, <1>0, <1>2, KeyNames, StatusNames, BeginKeepsRInv
       DEF StartLive, jobs
  <2>2. CASE Begin(p, "idle", Over("succeeded"))
    BY <2>2, <1>5, <1>0, <1>1, BeginKeepsRInv DEF StartLive, jobs
  <2> QED BY <1>5, <2>1, <2>2 DEF StartLive
<1>6. ASSUME NEW k \in Keys, StartCreate(p, k) PROVE RInv'
  BY <1>6, <1>0, <1>2, StatusNames, BeginKeepsRInv DEF StartCreate, jobs
<1> QED BY <1>3, <1>4, <1>5, <1>6 DEF Start

\* Steps of the users and of the provider.
LEMMA OutsideKeepsRInv ==
  ASSUME RInv,
         \/ EditProduct \/ EnqueueSubmit
         \/ \E k \in Keys : EnqueueRefresh(k) \/ RemoteStep(k)
  PROVE  RInv'
<1>1. CASE UNCHANGED <<table, callers, provider>> /\ TypeOK' /\ JobsFit'
  BY <1>1 DEF RInv, RunsFit, ClaimsAreExclusive, Holds, HeldStatus, Key,
     SubmittedOnce, Unsubmitted, FirstToAsk, RendersExist, VideosStored,
     ArtifactsAreWhole, ArtifactAvailable, table, callers, provider
<1>2. CASE EditProduct
  <2>1. TypeOK'
    BY <1>2, BoundsAssumption DEF EditProduct, RInv, TypeOK, table, callers, provider
  <2> QED BY <1>1, <1>2, <2>1 DEF EditProduct, RInv, JobsFit
<1>3. CASE EnqueueSubmit
  <2>1. TypeOK'
    BY <1>3 DEF EnqueueSubmit, SubmitJob, RInv, TypeOK, table, callers, provider
  <2>2. JobsFit'
    BY <1>3 DEF EnqueueSubmit, SubmitJob, RInv, JobsFit
  <2> QED BY <1>1, <1>3, <2>1, <2>2 DEF EnqueueSubmit
<1>4. ASSUME NEW k \in Keys, EnqueueRefresh(k) PROVE RInv'
  <2>1. TaskDigest(k) \in Digest
    BY DEF RInv, TypeOK, Task, TaskDigest, Digest
  <2>2. TypeOK'
    BY <1>4, <2>1, BoundsAssumption
       DEF EnqueueRefresh, RefreshJob, RInv, TypeOK, table, callers, provider
  <2>3. JobsFit'
    BY <1>4 DEF EnqueueRefresh, RefreshJob, TaskDigest, RInv, JobsFit
  <2> QED BY <1>1, <1>4, <2>2, <2>3 DEF EnqueueRefresh
<1>5. ASSUME NEW k \in Keys, RemoteStep(k) PROVE RInv'
  <2>1. /\ TypeOK'
        /\ \A m \in Keys : remote[m] # "none" => remote'[m] # "none"
    BY <1>5 DEF RemoteStep, RInv, TypeOK, RemoteStatuses, table, jobs, callers
  <2>2. RendersExist'
    BY <1>5, <2>1 DEF RemoteStep, RInv, TypeOK, RendersExist, Run, Key, table, callers
  <2> QED BY <1>5, <2>1, <2>2
       DEF RemoteStep, RInv, RunsFit, JobsFit, ClaimsAreExclusive, Holds,
           HeldStatus, Key, SubmittedOnce, Unsubmitted, FirstToAsk, VideosStored,
           ArtifactsAreWhole, ArtifactAvailable, table, jobs, callers
<1> QED BY <1>2, <1>3, <1>4, <1>5

-----------------------------------------------------------------------------
(***************************************************************************)
(* Steps of a run.                                                         *)
(***************************************************************************)
\* A run that writes the outcome of its claim and gives the task back.
LEMMA ReleaseKeepsRInv ==
  ASSUME RInv, NEW p \in Callers, Holds(p, Key(p)),
         NEW result \in {"none", "succeeded", "failed", "raised"}, End(p, result),
         NEW row \in Task, tasks' = [tasks EXCEPT ![Key(p)] = row],
         row.status \notin {"NONE", "CREATED"},
         row.provider => remote[Key(p)] # "none",
         \/ row.status # "SUCCEEDED" /\ UNCHANGED artifacts
         \/ /\ row.status = "SUCCEEDED" /\ Key(p) \in files
            /\ artifacts' = artifacts \cup {Key(p)},
         told' \in [Keys -> Statuses \cup {"none"}],
         UNCHANGED <<files, jobs, remote, asks>>
  PROVE  RInv'
<1> DEFINE k == Key(p)
<1>0. k \in Keys
  BY DEF RInv, TypeOK, Run, Key
<1>1. /\ tasks'[k] = row
      /\ \A m \in Keys : m # k => tasks'[m] = tasks[m]
  BY <1>0 DEF RInv, TypeOK
<1>2. /\ at'[p] = "idle" /\ run'[p].kind = "create"
      /\ \A q \in Callers : q # p => at'[q] = at[q] /\ run'[q] = run[q]
  BY EndMoves DEF RInv
<1>3. TypeOK'
  BY <1>0, EndType DEF RInv, TypeOK, jobs
<1>4. RunsFit' /\ JobsFit'
  BY <1>2 DEF RInv, RunsFit, JobsFit, jobs
<1>5. \A q \in Callers : q # p => ~Holds(q, k)
  BY <1>0 DEF RInv, ClaimsAreExclusive
<1>6. ClaimsAreExclusive'
  BY <1>1, <1>2, <1>5 DEF RInv, ClaimsAreExclusive, Holds, HeldStatus, Key
<1>7. SubmittedOnce' /\ Unsubmitted' /\ FirstToAsk'
  BY <1>1, <1>2 DEF RInv, SubmittedOnce, Unsubmitted, FirstToAsk, Key
<1>8. RendersExist'
  BY <1>1, <1>2 DEF RInv, RendersExist, Key
<1>9. VideosStored'
  BY <1>2 DEF RInv, VideosStored, Key
<1>10. tasks[k].status \in Claims
  BY <1>0 DEF RInv, ClaimsAreExclusive, HeldStatus, Claims
<1>11. ArtifactsAreWhole'
  BY <1>0, <1>1, <1>10 DEF RInv, ArtifactsAreWhole, ArtifactAvailable, Claims
<1> QED BY <1>3, <1>4, <1>6, <1>7, <1>8, <1>9, <1>11 DEF RInv

\* The same, for a write of the status and the error code.
LEMMA WriteKeepsRInv ==
  ASSUME RInv, NEW p \in Callers, Holds(p, Key(p)),
         NEW result \in {"none", "succeeded", "failed", "raised"}, End(p, result),
         NEW status \in Statuses, NEW error \in Errors,
         Write(Key(p), status, error), status \notin {"NONE", "CREATED"},
         \/ status # "SUCCEEDED" /\ UNCHANGED artifacts
         \/ /\ status = "SUCCEEDED" /\ Key(p) \in files
            /\ artifacts' = artifacts \cup {Key(p)},
         UNCHANGED <<files, jobs, provider>>
  PROVE  RInv'
<1> DEFINE row == [status |-> status, provider |-> tasks[Key(p)].provider,
                   error |-> error]
<1>1. Key(p) \in Keys
  BY DEF RInv, TypeOK, Run, Key
<1>2. row \in Task /\ row.status = status /\ row.provider = tasks[Key(p)].provider
  BY <1>1 DEF RInv, TypeOK, Task
<1>3. tasks' = [tasks EXCEPT ![Key(p)] = row]
  BY DEF Write
<1>4. row.provider => remote[Key(p)] # "none"
  BY <1>1, <1>2 DEF RInv, RendersExist
<1>5. told' \in [Keys -> Statuses \cup {"none"}]
  BY DEF RInv, TypeOK, provider
<1> HIDE DEF row
<1> QED BY <1>2, <1>3, <1>4, <1>5, ReleaseKeepsRInv DEF provider

LEMMA KeyType == ASSUME RInv, NEW p \in Callers PROVE Key(p) \in Keys
BY DEF RInv, TypeOK, Run, Key

\* A run that got a task and does not go on with it, or does.
LEMMA ReuseMoves ==
  ASSUME RInv, NEW p \in Callers, NEW row, Reuse(p, row)
  PROVE  \/ End(p, "succeeded")
         \/ /\ run[p].kind # "create"
            /\ at' = [at EXCEPT ![p] = "claiming"] /\ UNCHANGED run
BY DEF Reuse

LEMMA LookupKeepsRInv ==
  ASSUME RInv, NEW p \in Callers, Lookup(p)
  PROVE  RInv'
<1>1. CASE End(p, "succeeded")
  BY <1>1, EndOnlyKeepsRInv DEF Lookup
<1>2. ASSUME NEW place \in {"inserting", "claiming"},
             at' = [at EXCEPT ![p] = place], UNCHANGED run,
             place = "inserting" \/ run[p].kind # "create"
      PROVE  RInv'
  <2>1. /\ at[p] = "looking" /\ at'[p] = place
        /\ \A q \in Callers : q # p => at'[q] = at[q]
    BY <1>2 DEF RInv, TypeOK, Lookup
  <2>2. UNCHANGED <<table, jobs, run, provider>>
    BY <1>2 DEF Lookup
  <2>3. TypeOK'
    BY <1>2, <2>2 DEF RInv, TypeOK, Places, table, jobs, provider
  <2>4. RunsFit' /\ JobsFit'
    BY <1>2, <2>1, <2>2 DEF RInv, RunsFit, JobsFit, jobs
  <2>5. ClaimsAreExclusive'
    BY <2>1, <2>2 DEF RInv, ClaimsAreExclusive, Holds, HeldStatus, Key, table
  <2>6. SubmittedOnce' /\ Unsubmitted' /\ FirstToAsk' /\ RendersExist'
    BY <2>1, <2>2
       DEF RInv, SubmittedOnce, Unsubmitted, FirstToAsk, RendersExist, Key,
           table, provider
  <2>7. VideosStored' /\ ArtifactsAreWhole'
    BY <2>1, <2>2
       DEF RInv, VideosStored, ArtifactsAreWhole, ArtifactAvailable, Key, table
  <2> QED BY <2>3, <2>4, <2>5, <2>6, <2>7 DEF RInv
<1>3. CASE Move(p, "looking", "inserting") /\ UNCHANGED run
  BY <1>2, <1>3 DEF Move
<1>4. CASE Reuse(p, TaskOf(p))
  BY <1>1, <1>2, <1>4, ReuseMoves
<1> QED BY <1>3, <1>4 DEF Lookup

LEMMA InsertKeepsRInv ==
  ASSUME RInv, NEW p \in Callers, Insert(p)
  PROVE  RInv'
<1>0. Key(p) \in Keys /\ at[p] = "inserting" /\ run[p].kind # "refresh"
  BY KeyType DEF Insert, RInv, RunsFit
\* What the caller becomes, whichever row it found.
<1>1. /\ at' \in [Callers -> Places] /\ run' \in [Callers -> Run]
      /\ at'[p] \in {"idle", "claiming"} /\ run'[p].kind # "refresh"
      /\ at'[p] = "claiming" => run'[p].kind # "create"
      /\ \A q \in Callers : q # p => at'[q] = at[q] /\ run'[q] = run[q]
  <2>1. CASE End(p, "succeeded")
    BY <2>1, EndType, EndMoves DEF RInv
  <2>2. CASE /\ run[p].kind # "create"
             /\ at' = [at EXCEPT ![p] = "claiming"] /\ UNCHANGED run
    BY <1>0, <2>2 DEF RInv, TypeOK, Places
  <2> QED BY <2>1, <2>2, ReuseMoves DEF Insert
\* The row: as it was, or made new.
<1>2. /\ \A k \in Keys : k # Key(p) => tasks'[k] = tasks[k]
      /\ \/ tasks'[Key(p)] = tasks[Key(p)]
         \/ /\ tasks[Key(p)].status = "NONE" /\ tasks'[Key(p)].status = "CREATED"
            /\ ~tasks'[Key(p)].provider
      /\ tasks' \in [Keys -> Task]
  <2>1. /\ CreatedTask \in Task /\ CreatedTask.status = "CREATED"
        /\ ~CreatedTask.provider
    BY StatusNames DEF CreatedTask, Task, Errors
  <2>2. CASE /\ TaskOf(p).status = "NONE"
             /\ tasks' = [tasks EXCEPT ![Key(p)] = CreatedTask]
    BY <1>0, <2>1, <2>2 DEF RInv, TypeOK, TaskOf
  <2>3. CASE UNCHANGED tasks
    BY <2>3 DEF RInv, TypeOK
  <2> QED BY <2>2, <2>3 DEF Insert
<1>3. UNCHANGED <<artifacts, files, jobs, provider>>
  BY DEF Insert
<1>4. TypeOK'
  BY <1>1, <1>2, <1>3 DEF RInv, TypeOK, jobs, provider
<1>5. RunsFit' /\ JobsFit'
  BY <1>1, <1>3 DEF RInv, RunsFit, JobsFit, jobs
<1>6. ClaimsAreExclusive'
  BY <1>1, <1>2 DEF RInv, ClaimsAreExclusive, Holds, HeldStatus, Key
<1>7. SubmittedOnce' /\ Unsubmitted' /\ FirstToAsk' /\ RendersExist'
  BY <1>0, <1>1, <1>2, <1>3
     DEF RInv, SubmittedOnce, Unsubmitted, FirstToAsk, RendersExist, Key, provider
<1>8. VideosStored'
  BY <1>1, <1>3 DEF RInv, VideosStored, Key
<1>9. ArtifactsAreWhole'
  BY <1>0, <1>2, <1>3 DEF RInv, ArtifactsAreWhole, ArtifactAvailable
<1> QED BY <1>4, <1>5, <1>6, <1>7, <1>8, <1>9 DEF RInv

\* A claim that passes: nobody held the task, since its status was no claim.
LEMMA ClaimKeepsRInv ==
  ASSUME RInv, NEW p \in Callers, at[p] = "claiming",
         NEW place \in {"announcing", "asking"}, at' = [at EXCEPT ![p] = place],
         Write(Key(p), HeldStatus(p), "none"),
         TaskOf(p).status \notin Claims \cup {"NONE", "SUCCEEDED"},
         \/ run[p].kind = "refresh"
         \/ run[p].kind \in {"submit", "live"} /\ asks[Key(p)] = 0,
         UNCHANGED <<artifacts, files, jobs, run, provider>>
  PROVE  RInv'
<1> DEFINE k == Key(p)
<1>0. k \in Keys
  BY KeyType
<1>1. /\ at'[p] = place /\ \A q \in Callers : q # p => at'[q] = at[q]
  BY DEF RInv, TypeOK
<1>2. /\ HeldStatus(p) \in Claims /\ Claims \subseteq Statuses
  BY StatusNames DEF HeldStatus, Claims
<1>3. /\ tasks' \in [Keys -> Task]
      /\ tasks'[k].status = HeldStatus(p) /\ tasks'[k].provider = tasks[k].provider
      /\ \A m \in Keys : m # k => tasks'[m] = tasks[m]
  <2>1. tasks' \in [Keys -> Task]
    BY <1>0, <1>2, WriteType DEF RInv, Errors
  <2> QED BY <1>0, <2>1 DEF Write, RInv, TypeOK
<1>4. TypeOK'
  BY <1>3 DEF RInv, TypeOK, Places, jobs, provider
<1>5. RunsFit' /\ JobsFit'
  BY <1>1 DEF RInv, RunsFit, JobsFit, jobs
<1>6. \A q \in Callers : ~Holds(q, k)
  BY <1>0 DEF RInv, ClaimsAreExclusive, HeldStatus, Claims, TaskOf
<1>7. ClaimsAreExclusive'
  BY <1>1, <1>3, <1>6 DEF RInv, ClaimsAreExclusive, Holds, HeldStatus, Key
<1>8. SubmittedOnce' /\ Unsubmitted' /\ FirstToAsk' /\ RendersExist'
  BY <1>0, <1>1, <1>2, <1>3
     DEF RInv, SubmittedOnce, Unsubmitted, FirstToAsk, RendersExist, Key,
         Claims, provider
<1>9. VideosStored'
  BY <1>1 DEF RInv, VideosStored, Key
<1>10. ArtifactsAreWhole'
  BY <1>0, <1>2, <1>3
     DEF RInv, ArtifactsAreWhole, ArtifactAvailable, Claims, TaskOf
<1> QED BY <1>4, <1>5, <1>7, <1>8, <1>9, <1>10 DEF RInv

\* A run that keeps its claim and leaves the tables alone, but for the file.
LEMMA HoldKeepsRInv ==
  ASSUME RInv, NEW p \in Callers, Holds(p, Key(p)),
         NEW place \in {"asking", "recording", "downloading", "finalizing",
                        "abandoning"},
         at' = [at EXCEPT ![p] = place],
         run' \in [Callers -> Run], run'[p].key = run[p].key,
         run'[p].kind = run[p].kind, run'[p].previous = run[p].previous,
         \A q \in Callers : q # p => run'[q] = run[q],
         place \in {"downloading", "finalizing", "abandoning"} =>
           run[p].kind = "refresh",
         TypeOK', SubmittedOnce', Unsubmitted', FirstToAsk', RendersExist',
         \A k \in Keys : k # Key(p) /\ k \in files => k \in files',
         place = "finalizing" => Key(p) \in files',
         UNCHANGED <<tasks, artifacts, jobs>>
  PROVE  RInv'
<1> DEFINE k == Key(p)
<1>0. k \in Keys
  BY KeyType
<1>1. at'[p] = place /\ \A q \in Callers : q # p => at'[q] = at[q]
  BY DEF RInv, TypeOK
<1>2. RunsFit' /\ JobsFit'
  BY <1>1 DEF RInv, RunsFit, JobsFit, jobs, Holds
<1>3. ClaimsAreExclusive'
  BY <1>1 DEF RInv, ClaimsAreExclusive, Holds, HeldStatus, Key
<1>4. \A q \in Callers : q # p => ~Holds(q, k)
  BY <1>0 DEF RInv, ClaimsAreExclusive
<1>5. VideosStored'
  <2>1. ASSUME NEW q \in Callers, q # p, at[q] = "finalizing" PROVE Key(q) \in files'
    <3>1. Key(q) \in files /\ Key(q) # k /\ Key(q) \in Keys
      BY <1>4, <2>1, KeyType DEF RInv, VideosStored, Holds
    <3> QED BY <3>1
  <2> QED BY <1>1, <2>1 DEF VideosStored, Key
<1>6. tasks[k].status # "SUCCEEDED"
  BY <1>0 DEF RInv, ClaimsAreExclusive, HeldStatus
<1>7. ArtifactsAreWhole'
  BY <1>0, <1>6 DEF RInv, ArtifactsAreWhole, ArtifactAvailable
<1> QED BY <1>2, <1>3, <1>5, <1>7 DEF RInv

-----------------------------------------------------------------------------
(***************************************************************************)
(* The actions of a run that holds a task.                                 *)
(***************************************************************************)
LEMMA ClaimsKeepRInv ==
  ASSUME RInv, NEW p \in Callers, ClaimSubmission(p) \/ ClaimRefresh(p)
  PROVE  RInv'
<1>0. Key(p) \in Keys
  BY KeyType
<1>1. CASE ClaimSubmission(p) /\ MayClaimSubmission(TaskOf(p))
  <2>1. TaskOf(p).status = "CREATED" /\ HeldStatus(p) = "SUBMITTING"
    BY <1>1 DEF ClaimSubmission, MayClaimSubmission, HeldStatus
  <2>2. asks[Key(p)] = 0
    BY <1>0, <2>1 DEF RInv, Unsubmitted, TaskOf
  <2> QED BY <1>1, <2>1, <2>2, ClaimKeepsRInv DEF ClaimSubmission, Move, Claims
<1>2. CASE ClaimRefresh(p) /\ MayClaimRefresh(TaskOf(p), run[p].previous)
  <2>1. TaskOf(p).status \in Refreshable /\ HeldStatus(p) = "REFRESHING"
    BY <1>2 DEF ClaimRefresh, MayClaimRefresh, HeldStatus, RInv, RunsFit
  <2> QED BY <1>2, <2>1, ClaimKeepsRInv DEF ClaimRefresh, Move, Claims, Refreshable
<1>3. CASE ClaimSubmission(p) /\ ~MayClaimSubmission(TaskOf(p))
  BY <1>3, EndOnlyKeepsRInv DEF ClaimSubmission, table
<1>4. CASE ClaimRefresh(p) /\ ~MayClaimRefresh(TaskOf(p), run[p].previous)
  BY <1>4, EndOnlyKeepsRInv DEF ClaimRefresh, table
<1> QED BY <1>1, <1>2, <1>3, <1>4

LEMMA AnnounceKeepsRInv ==
  ASSUME RInv, NEW p \in Callers, Announce(p)
  PROVE  RInv'
<1>1. at[p] = "announcing" /\ Holds(p, Key(p)) /\ at' = [at EXCEPT ![p] = "asking"]
  BY DEF Announce, Move, Holds
<1> DEFINE r == [run[p] EXCEPT !.external = run[p].kind = "submit"]
<1>2. /\ r \in Run /\ r.key = run[p].key /\ r.kind = run[p].kind
      /\ r.previous = run[p].previous
  <2>1. run[p] \in Run /\ (run[p].kind = "submit") \in BOOLEAN
    BY DEF RInv, TypeOK
  <2> QED BY ZenonT(30), <2>1 DEF Run
<1>3. run' = [run EXCEPT ![p] = r]
  BY DEF Announce
<1> HIDE DEF r
<1>4. /\ run' \in [Callers -> Run] /\ run'[p] = r
      /\ \A q \in Callers : q # p => run'[q] = run[q]
  BY <1>2, <1>3 DEF RInv, TypeOK
<1>5. /\ at'[p] = "asking" /\ \A q \in Callers : q # p => at'[q] = at[q]
  BY <1>1 DEF RInv, TypeOK
<1>6. UNCHANGED <<table, jobs, provider>>
  BY DEF Announce
<1>7. TypeOK'
  BY <1>1, <1>4, <1>6 DEF RInv, TypeOK, Places, table, jobs, provider
<1>8. SubmittedOnce' /\ Unsubmitted' /\ FirstToAsk' /\ RendersExist'
  BY <1>1, <1>2, <1>4, <1>5, <1>6
     DEF RInv, SubmittedOnce, Unsubmitted, FirstToAsk, RendersExist, Key,
         table, provider
<1> QED BY <1>1, <1>2, <1>4, <1>6, <1>7, <1>8, HoldKeepsRInv DEF table

LEMMA AskSubmitKeepsRInv ==
  ASSUME RInv, NEW p \in Callers, AskSubmit(p)
  PROVE  RInv'
<1> DEFINE k == Key(p)
<1>0. k \in Keys
  BY KeyType
<1>1. /\ at[p] = "asking" /\ Holds(p, k) /\ at' = [at EXCEPT ![p] = "recording"]
      /\ run[p].kind \in {"submit", "live"}
      /\ asks' = [asks EXCEPT ![k] = @ + 1] /\ UNCHANGED <<table, jobs, told>>
  BY DEF AskSubmit, Move, Holds
<1>a. PICK answer \in SubmitAnswers :
      /\ run' = [run EXCEPT ![p] = [@ EXCEPT !.asked = TRUE, !.answer = answer]]
      /\ \/ answer \in {"lost", "error"} /\ UNCHANGED remote
         \/ remote' = [remote EXCEPT ![k] =
                         IF answer \in RemoteStatuses THEN answer ELSE "PENDING"]
  BY DEF AskSubmit
<1> DEFINE r == [run[p] EXCEPT !.asked = TRUE, !.answer = answer]
<1>2. /\ r \in Run /\ r.key = run[p].key /\ r.kind = run[p].kind
      /\ r.previous = run[p].previous /\ r.answer = answer
  <2>1. run[p] \in Run
    BY DEF RInv, TypeOK
  <2>2. [run[p] EXCEPT !.asked = TRUE] \in Run
    BY <2>1 DEF Run
  <2>3. r = [[run[p] EXCEPT !.asked = TRUE] EXCEPT !.answer = answer]
    OBVIOUS
  <2> QED BY <2>1, <2>2, <2>3 DEF Run
<1>3. run' = [run EXCEPT ![p] = r]
  BY <1>a
<1> HIDE DEF r
<1>4. /\ run' \in [Callers -> Run] /\ run'[p] = r
      /\ \A q \in Callers : q # p => run'[q] = run[q]
  BY <1>2, <1>3 DEF RInv, TypeOK
<1>5. /\ at'[p] = "recording" /\ \A q \in Callers : q # p => at'[q] = at[q]
  BY <1>1 DEF RInv, TypeOK
<1>6. /\ remote' \in [Keys -> RemoteStatuses \cup {"none"}]
      /\ answer \in RemoteStatuses \cup {"UNKNOWN"} => remote'[k] # "none"
      /\ \A m \in Keys : remote[m] # "none" => remote'[m] # "none"
  BY <1>0, <1>a DEF RInv, TypeOK, RemoteStatuses
<1>7. /\ asks' \in [Keys -> Nat] /\ asks[k] = 0 /\ asks'[k] = 1
      /\ \A m \in Keys : m # k => asks'[m] = asks[m]
  BY <1>0, <1>1 DEF RInv, TypeOK, FirstToAsk
<1>8. TypeOK'
  BY <1>1, <1>4, <1>6, <1>7 DEF RInv, TypeOK, Places, table, jobs
<1>9. tasks[k].status \notin {"NONE", "CREATED"}
  BY <1>0, <1>1 DEF RInv, ClaimsAreExclusive, HeldStatus
<1>10. SubmittedOnce' /\ Unsubmitted'
  BY <1>1, <1>7, <1>9 DEF RInv, SubmittedOnce, Unsubmitted, table
<1>11. \A q \in Callers : q # p => ~Holds(q, k)
  BY <1>0, <1>1 DEF RInv, ClaimsAreExclusive
<1>12. FirstToAsk'
  BY <1>4, <1>5, <1>7, <1>11, KeyType DEF RInv, FirstToAsk, Holds, Key
<1>13. RendersExist'
  <2>1. \A q \in Callers : Key(q) \in Keys
    BY KeyType
  <2> QED BY <1>1, <1>2, <1>4, <1>5, <1>6, <2>1 DEF RInv, RendersExist, Key, table
<1>14. /\ run'[p].key = run[p].key /\ run'[p].kind = run[p].kind
       /\ run'[p].previous = run[p].previous
       /\ UNCHANGED <<tasks, artifacts, files>>
  BY <1>1, <1>2, <1>4 DEF table
<1> QED BY <1>1, <1>4, <1>8, <1>10, <1>12, <1>13, <1>14, HoldKeepsRInv

LEMMA AskFetchKeepsRInv ==
  ASSUME RInv, NEW p \in Callers, AskFetch(p)
  PROVE  RInv'
<1> DEFINE k == Key(p)
<1>0. k \in Keys
  BY KeyType
<1>1. /\ at[p] = "asking" /\ Holds(p, k) /\ at' = [at EXCEPT ![p] = "recording"]
      /\ run[p].kind = "refresh" /\ UNCHANGED <<table, jobs, remote, asks>>
  BY DEF AskFetch, Move, Holds
<1>a. PICK answer \in FetchAnswers :
      /\ run' = [run EXCEPT ![p].answer = answer]
      /\ told' = IF answer \in RemoteStatuses
                 THEN [told EXCEPT ![k] = answer] ELSE told
  BY DEF AskFetch
<1> DEFINE r == [run[p] EXCEPT !.answer = answer]
<1>2. /\ r \in Run /\ r.key = run[p].key /\ r.kind = run[p].kind
      /\ r.previous = run[p].previous
  BY DEF RInv, TypeOK, Run
<1>3. run' = [run EXCEPT ![p] = r]
  BY <1>a
<1> HIDE DEF r
<1>4. /\ run' \in [Callers -> Run] /\ run'[p] = r
      /\ \A q \in Callers : q # p => run'[q] = run[q]
  BY <1>2, <1>3 DEF RInv, TypeOK
<1>5. /\ at'[p] = "recording" /\ \A q \in Callers : q # p => at'[q] = at[q]
  BY <1>1 DEF RInv, TypeOK
<1>6. told' \in [Keys -> Statuses \cup {"none"}]
  BY <1>a, StatusNames DEF RInv, TypeOK
<1>7. TypeOK'
  BY <1>1, <1>4, <1>6 DEF RInv, TypeOK, Places, table, jobs
<1>8. SubmittedOnce' /\ Unsubmitted' /\ FirstToAsk' /\ RendersExist'
  BY <1>1, <1>2, <1>4, <1>5
     DEF RInv, SubmittedOnce, Unsubmitted, FirstToAsk, RendersExist, Key, table
<1>9. /\ run'[p].key = run[p].key /\ run'[p].kind = run[p].kind
      /\ run'[p].previous = run[p].previous
      /\ UNCHANGED <<tasks, artifacts, files>>
  BY <1>1, <1>2, <1>4 DEF table
<1> QED BY <1>1, <1>4, <1>7, <1>8, <1>9, HoldKeepsRInv

LEMMA RecordSubmissionKeepsRInv ==
  ASSUME RInv, NEW p \in Callers, RecordSubmission(p)
  PROVE  RInv'
<1> DEFINE answer == run[p].answer
<1>0. Key(p) \in Keys /\ Holds(p, Key(p)) /\ run[p].kind \in {"submit", "live"}
      /\ at[p] = "recording" /\ UNCHANGED <<artifacts, files, jobs, remote, asks>>
  BY KeyType DEF RecordSubmission, Holds
<1>1. ASSUME NEW status \in {"SUBMIT_UNKNOWN", "FAILED"},
             Write(Key(p), status, "final"), End(p, Refusal(p)), UNCHANGED told
      PROVE  RInv'
  <2>1. status \in Statuses /\ status \notin {"NONE", "CREATED", "SUCCEEDED"}
        /\ "final" \in Errors
    BY DEF Statuses, Terminal, Errors
  <2>2. Refusal(p) \in {"none", "succeeded", "failed", "raised"}
    BY DEF Refusal
  <2>3. UNCHANGED provider
    BY <1>0, <1>1 DEF provider
  <2> QED BY <1>0, <1>1, <2>1, <2>2, <2>3, WriteKeepsRInv
<1>2. ASSUME NEW error \in {"final", "none"}, answer \in RemoteStatuses \cup {"UNKNOWN"},
             tasks' = [tasks EXCEPT ![Key(p)] =
                         [status |-> Recorded(answer), provider |-> TRUE,
                          error |-> error]],
             End(p, "succeeded"), told' = [told EXCEPT ![Key(p)] = Recorded(answer)]
      PROVE  RInv'
  <2> DEFINE row == [status |-> Recorded(answer), provider |-> TRUE, error |-> error]
  <2>1. /\ Recorded(answer) \in Statuses
        /\ Recorded(answer) \notin {"NONE", "CREATED", "SUCCEEDED"}
    BY <1>2 DEF Recorded, RemoteStatuses, Statuses, Refreshable, Terminal
  <2>2. row \in Task /\ row.status = Recorded(answer)
    BY <2>1 DEF Task, Errors
  <2>3. remote[Key(p)] # "none"
    BY <1>0, <1>2 DEF RInv, RendersExist
  <2>4. told' \in [Keys -> Statuses \cup {"none"}]
    BY <1>2, <2>1 DEF RInv, TypeOK
  <2>5. tasks' = [tasks EXCEPT ![Key(p)] = row]
    BY <1>2
  <2> HIDE DEF row
  <2> QED BY <1>0, <1>2, <2>1, <2>2, <2>3, <2>4, <2>5, ReleaseKeepsRInv
<1> QED BY <1>1, <1>2 DEF RecordSubmission

\* A refresh that stays: its video is still to be loaded, stored or dropped.
LEMMA PersistKeepsRInv ==
  ASSUME RInv, NEW p \in Callers, Holds(p, Key(p)), run[p].kind = "refresh",
         NEW place \in {"downloading", "finalizing", "abandoning"},
         at' = [at EXCEPT ![p] = place],
         files' \subseteq Keys,
         \A k \in Keys : k # Key(p) /\ k \in files => k \in files',
         place = "finalizing" => Key(p) \in files',
         UNCHANGED <<tasks, artifacts, jobs, run, provider>>
  PROVE  RInv'
<1>1. at'[p] = place /\ \A q \in Callers : q # p => at'[q] = at[q]
  BY DEF RInv, TypeOK
<1>2. TypeOK'
  BY DEF RInv, TypeOK, Places, jobs, provider
<1>3. SubmittedOnce' /\ Unsubmitted' /\ FirstToAsk' /\ RendersExist'
  BY <1>1
     DEF RInv, SubmittedOnce, Unsubmitted, FirstToAsk, RendersExist, Key, provider
<1>4. run' \in [Callers -> Run]
  BY DEF RInv, TypeOK
<1> QED BY <1>2, <1>3, <1>4, HoldKeepsRInv

LEMMA RecordRefreshKeepsRInv ==
  ASSUME RInv, NEW p \in Callers, RecordRefresh(p)
  PROVE  RInv'
<1> DEFINE answer == run[p].answer
<1>0. Key(p) \in Keys /\ Holds(p, Key(p)) /\ run[p].kind = "refresh"
      /\ at[p] = "recording" /\ UNCHANGED <<artifacts, files, jobs, provider>>
  BY KeyType DEF RecordRefresh, Holds
<1>1. ASSUME NEW error \in {"refresh_failed", "refresh_invalid"},
             Write(Key(p), run[p].previous, error), End(p, "failed")
      PROVE  RInv'
  <2>1. /\ run[p].previous \in Statuses
        /\ run[p].previous \notin {"NONE", "CREATED", "SUCCEEDED"}
    BY <1>0, StatusNames DEF RInv, RunsFit, Refreshable
  <2>2. error \in Errors
    BY DEF Errors
  <2> QED BY <1>0, <1>1, <2>1, <2>2, WriteKeepsRInv
<1>2. ASSUME NEW error \in {"final", "none"}, answer \in RemoteStatuses \ {"SUCCEEDED"},
             Write(Key(p), answer, error), End(p, "succeeded")
      PROVE  RInv'
  <2>1. answer \in Statuses /\ answer \notin {"NONE", "CREATED", "SUCCEEDED"}
    BY <1>2, StatusNames DEF RemoteStatuses
  <2>2. error \in Errors
    BY DEF Errors
  <2> QED BY <1>0, <1>2, <2>1, <2>2, WriteKeepsRInv
<1>3. CASE Move(p, "recording", "downloading") /\ UNCHANGED <<tasks, run>>
  <2>1. at' = [at EXCEPT ![p] = "downloading"] /\ files' \subseteq Keys
    BY <1>0, <1>3 DEF Move, RInv, TypeOK
  <2>2. \A k \in Keys : k # Key(p) /\ k \in files => k \in files'
    BY <1>0
  <2> QED BY <1>0, <1>3, <2>1, <2>2, PersistKeepsRInv
<1> QED BY <1>1, <1>2, <1>3 DEF RecordRefresh, Restore

LEMMA PersistStepsKeepRInv ==
  ASSUME RInv, NEW p \in Callers,
         Download(p) \/ Finalize(p) \/ FinalizeFails(p) \/ Abandon(p)
  PROVE  RInv'
<1>0. /\ Key(p) \in Keys /\ Holds(p, Key(p))
      /\ at[p] \in {"downloading", "finalizing", "abandoning"}
  BY KeyType DEF Download, Finalize, FinalizeFails, Abandon, Move, Holds
<1>1. run[p].kind = "refresh"
  BY <1>0 DEF RInv, RunsFit, TypeOK, Run
<1>2. ASSUME Write(Key(p), "ARTIFACT_PERSIST_FAILED", "final"), End(p, "failed"),
             UNCHANGED <<artifacts, files, jobs, provider>>
      PROVE  RInv'
  <2>1. "ARTIFACT_PERSIST_FAILED" \in Statuses /\ "final" \in Errors
    BY DEF Statuses, Terminal, Errors
  <2> QED BY <1>0, <1>2, <2>1, WriteKeepsRInv
<1>3. CASE /\ Move(p, "downloading", "finalizing") /\ files' = files \cup {Key(p)}
           /\ UNCHANGED <<tasks, run, artifacts, jobs, provider>>
  <2>1. at' = [at EXCEPT ![p] = "finalizing"] /\ files' \subseteq Keys
    BY <1>0, <1>3 DEF Move, RInv, TypeOK
  <2>2. /\ Key(p) \in files'
        /\ \A k \in Keys : k # Key(p) /\ k \in files => k \in files'
    BY <1>3
  <2> QED BY <1>0, <1>1, <1>3, <2>1, <2>2, PersistKeepsRInv
<1>4. CASE Finalize(p)
  <2>1. Key(p) \in files
    BY <1>4 DEF Finalize, RInv, VideosStored
  <2>2. "SUCCEEDED" \in Statuses /\ "none" \in Errors
    BY DEF Statuses, Terminal, Errors
  <2>3. /\ Write(Key(p), "SUCCEEDED", "none") /\ End(p, "succeeded")
        /\ artifacts' = artifacts \cup {Key(p)}
        /\ UNCHANGED <<files, jobs, provider>>
    BY <1>4 DEF Finalize, FinalizeSucceeded
  <2> QED BY <1>0, <2>1, <2>2, <2>3, WriteKeepsRInv
<1>5. CASE FinalizeFails(p)
  <2>1. at' = [at EXCEPT ![p] = "abandoning"] /\ files' \subseteq Keys
    BY <1>5 DEF FinalizeFails, FileDeleted, Move, RInv, TypeOK
  <2>2. \A k \in Keys : k # Key(p) /\ k \in files => k \in files'
    BY <1>5 DEF FinalizeFails, FileDeleted
  <2>3. UNCHANGED <<tasks, artifacts, jobs, run, provider>>
    BY <1>5 DEF FinalizeFails
  <2> QED BY <1>0, <1>1, <2>1, <2>2, <2>3, PersistKeepsRInv
<1>6. CASE Download(p)
  BY <1>2, <1>3, <1>6 DEF Download
<1>7. CASE Abandon(p)
  BY <1>2, <1>7 DEF Abandon
<1> QED BY <1>4, <1>5, <1>6, <1>7

-----------------------------------------------------------------------------
(***************************************************************************)
(* The specification.                                                      *)
(***************************************************************************)
LEMMA InitRInv == Init => RInv
<1> SUFFICES ASSUME Init PROVE RInv
  OBVIOUS
<1>1. TypeOK
  BY InitType
<1>2. /\ \A p \in Callers : at[p] = "idle" /\ run[p] = NoRun
      /\ \A k \in Keys : tasks[k] = NoTask /\ asks[k] = 0
      /\ NoTask.status = "NONE" /\ ~NoTask.provider /\ NoRun.kind = "create"
      /\ artifacts = {} /\ queue = {}
  BY DEF Init, NoTask, NoRun, NewRun
<1> QED BY <1>1, <1>2
     DEF RInv, RunsFit, JobsFit, ClaimsAreExclusive, Holds, SubmittedOnce,
         Unsubmitted, FirstToAsk, RendersExist, VideosStored, ArtifactsAreWhole

LEMMA StepRInv == RInv /\ [Next]_vars => RInv'
<1> SUFFICES ASSUME RInv, [Next]_vars PROVE RInv'
  OBVIOUS
<1>1. ASSUME NEW p \in Callers, Proceed(p) PROVE RInv'
  BY <1>1, LookupKeepsRInv, InsertKeepsRInv, ClaimsKeepRInv, AnnounceKeepsRInv,
     AskSubmitKeepsRInv, AskFetchKeepsRInv, RecordSubmissionKeepsRInv,
     RecordRefreshKeepsRInv, PersistStepsKeepRInv DEF Proceed
<1>2. ASSUME NEW p \in Callers, Fault(p) PROVE RInv'
  <2>1. CASE AnnounceInterrupted(p) \/ WriteFails(p) \/ Crash(p)
    BY <2>1, EndOnlyKeepsRInv DEF AnnounceInterrupted, WriteFails, Crash
  <2> QED BY <1>2, <2>1, PersistStepsKeepRInv DEF Fault
<1>3. CASE UNCHANGED vars
  BY <1>3 DEF vars, table, jobs, callers, provider, RInv, TypeOK, RunsFit, JobsFit,
     ClaimsAreExclusive, Holds, HeldStatus, Key, SubmittedOnce, Unsubmitted,
     FirstToAsk, RendersExist, VideosStored, ArtifactsAreWhole, ArtifactAvailable
<1> QED BY <1>1, <1>2, <1>3, StartKeepsRInv, OutsideKeepsRInv DEF Next

\* What the steps of the handlers, routes and faults preserve together.
THEOREM RenderInvariance == Spec => []RInv
BY InitRInv, StepRInv, PTL DEF Spec

\* The variables keep their types.
THEOREM RenderTypeCorrect == Spec => []TypeOK
<1>1. RInv => TypeOK
  BY DEF RInv
<1> QED BY <1>1, RenderInvariance, PTL

\* However many handlers and requests meet on a task, and wherever they die or
\* fail to write, the provider is sent its submission once at most.
THEOREM TasksAreSubmittedOnce == Spec => []SubmittedOnce
<1>1. RInv => SubmittedOnce
  BY DEF RInv
<1> QED BY <1>1, RenderInvariance, PTL

\* One run at a time holds a task, and the status of the task is its claim: the
\* writes that follow a provider call overwrite nobody's work.
THEOREM RenderClaimsAreExclusive == Spec => []ClaimsAreExclusive
<1>1. RInv => ClaimsAreExclusive
  BY DEF RInv
<1> QED BY <1>1, RenderInvariance, PTL

\* A succeeded task has its artifact and its file, and no other task has one.
THEOREM RenderArtifactsAreWhole == Spec => []ArtifactsAreWhole
<1>1. RInv => ArtifactsAreWhole
  BY DEF RInv
<1> QED BY <1>1, RenderInvariance, PTL

\* The recovery endpoint offers to continue only what was never submitted, and
\* to refresh only what the provider holds.
THEOREM RenderAdviceIsSafe == Spec => []AdviceIsSafe
<1>1. RInv => AdviceIsSafe
  BY DEF RInv, AdviceIsSafe, ContinueAllowed, RefreshAllowed, Unsubmitted,
     RendersExist
<1> QED BY <1>1, RenderInvariance, PTL

-----------------------------------------------------------------------------
(***************************************************************************)
(* What has ended stays.                                                   *)
(***************************************************************************)
\* A run writes its own task only, and only one that has not ended.
WritesOpenTask(p) ==
  \/ UNCHANGED tasks
  \/ /\ TaskOf(p).status \notin Terminal
     /\ \A k \in Keys : k # Key(p) => tasks'[k] = tasks[k]

LEMMA HeldIsOpen ==
  ASSUME RInv, NEW p \in Callers, Holds(p, Key(p))
  PROVE  TaskOf(p).status \notin Terminal
BY KeyType DEF RInv, ClaimsAreExclusive, HeldStatus, TaskOf, Terminal

LEMMA WriteIsOwn ==
  ASSUME RInv, NEW p \in Callers, NEW row, tasks' = [tasks EXCEPT ![Key(p)] = row]
  PROVE  \A k \in Keys : k # Key(p) => tasks'[k] = tasks[k]
BY DEF RInv, TypeOK

LEMMA ProceedWritesOpenTask ==
  ASSUME RInv, NEW p \in Callers, Proceed(p)
  PROVE  WritesOpenTask(p)
<1>1. CASE Lookup(p) \/ Announce(p) \/ AskSubmit(p) \/ AskFetch(p)
  BY <1>1 DEF Lookup, Announce, AskSubmit, AskFetch, WritesOpenTask, table
<1>2. CASE Insert(p)
  <2>1. "NONE" \notin Terminal
    BY DEF Terminal
  <2> QED BY <1>2, <2>1, WriteIsOwn DEF Insert, WritesOpenTask
<1>3. CASE ClaimSubmission(p)
  BY <1>3, WriteIsOwn
     DEF ClaimSubmission, MayClaimSubmission, WritesOpenTask, Write, Terminal
<1>4. CASE ClaimRefresh(p)
  <2>1. run[p].previous \notin Terminal
    BY <1>4 DEF ClaimRefresh, RInv, RunsFit, Refreshable, Terminal
  <2> QED BY <1>4, <2>1, WriteIsOwn
       DEF ClaimRefresh, MayClaimRefresh, WritesOpenTask, Write
<1>5. CASE \/ RecordSubmission(p) \/ RecordRefresh(p) \/ Download(p)
           \/ Finalize(p) \/ Abandon(p)
  <2>1. TaskOf(p).status \notin Terminal
    BY <1>5, HeldIsOpen
       DEF Holds, RecordSubmission, RecordRefresh, Download, Finalize, Abandon, Move
  <2>2. UNCHANGED tasks \/ \E row : tasks' = [tasks EXCEPT ![Key(p)] = row]
    BY <1>5
       DEF RecordSubmission, RecordRefresh, Restore, Download, Finalize,
           FinalizeSucceeded, Abandon, Write
  <2> QED BY <2>1, <2>2, WriteIsOwn DEF WritesOpenTask
<1> QED BY <1>1, <1>2, <1>3, <1>4, <1>5 DEF Proceed

LEMMA OthersWriteNoTask ==
  ASSUME \/ \E p \in Callers : Start(p) \/ Fault(p)
         \/ EditProduct \/ EnqueueSubmit
         \/ \E k \in Keys : EnqueueRefresh(k) \/ RemoteStep(k)
  PROVE  UNCHANGED tasks
BY DEF Start, StartSubmit, StartRefresh, StartLive, StartCreate,
   Fault, AnnounceInterrupted, FinalizeFails, WriteFails, Crash,
   EditProduct, EnqueueSubmit, EnqueueRefresh, RemoteStep, table

\* No step of any handler, route or fault changes the status of a task that has
\* ended, whatever the run that takes the step read before.
THEOREM EndedTasksStayEnded == Spec => EndedTasksStay
<1>1. ASSUME RInv, [Next]_vars, NEW k \in Keys, tasks[k].status \in Terminal
      PROVE  ~Changes(k)
  <2>1. CASE UNCHANGED tasks
    BY <2>1 DEF Changes
  <2>2. ASSUME NEW p \in Callers, WritesOpenTask(p) PROVE ~Changes(k)
    BY <1>1, <2>2 DEF WritesOpenTask, TaskOf, Changes
  <2> QED BY <1>1, <2>1, <2>2, ProceedWritesOpenTask, OthersWriteNoTask
       DEF Next, vars, table
<1>2. RInv /\ [Next]_vars =>
        [\A k \in Keys : tasks[k].status \in Terminal => ~Changes(k)]_vars
  BY <1>1
<1> QED BY <1>2, RenderInvariance, PTL DEF Spec, EndedTasksStay

-----------------------------------------------------------------------------
(***************************************************************************)
(* What is reported is given back.                                         *)
(***************************************************************************)
LEMMA WriteSetsStatus ==
  ASSUME RInv, NEW p \in Callers, NEW status, NEW error,
         Write(Key(p), status, error)
  PROVE  tasks'[Key(p)].status = status
BY KeyType DEF RInv, TypeOK, Write

\* A step of a run that holds a task keeps it, raises, or writes no claim.
LEMMA HolderGivesBack ==
  ASSUME RInv, NEW p \in Callers, Holds(p, Key(p)), Proceed(p) \/ Fault(p),
         at'[p] = "idle", run'[p].result \in {"succeeded", "failed"}
  PROVE  tasks'[Key(p)].status \notin Claims
<1>0. Key(p) \in Keys /\ at \in [Callers -> Places]
  BY KeyType DEF RInv, TypeOK
<1>1. CASE RecordSubmission(p)
  <2>1. ASSUME NEW status \in {"SUBMIT_UNKNOWN", "FAILED"},
               Write(Key(p), status, "final")
        PROVE  tasks'[Key(p)].status \notin Claims
    BY <2>1, WriteSetsStatus DEF Claims
  <2>2. ASSUME NEW answer \in RemoteStatuses \cup {"UNKNOWN"}, NEW error,
               tasks' = [tasks EXCEPT ![Key(p)] =
                           [status |-> Recorded(answer), provider |-> TRUE,
                            error |-> error]]
        PROVE  tasks'[Key(p)].status \notin Claims
    <3>1. tasks'[Key(p)].status = Recorded(answer)
      BY <1>0, <2>2 DEF RInv, TypeOK
    <3> QED BY <3>1 DEF Recorded, RemoteStatuses, Claims
  <2> QED BY <1>1, <2>1, <2>2 DEF RecordSubmission
<1>2. CASE RecordRefresh(p)
  <2>1. run[p].previous \notin Claims
    BY <1>2 DEF RecordRefresh, RInv, RunsFit, Refreshable, Claims
  <2>2. at'[p] # "downloading"
    OBVIOUS
  <2> QED BY <1>0, <1>2, <2>1, <2>2, WriteSetsStatus
       DEF RecordRefresh, Restore, Move, RemoteStatuses, Claims
<1>3. CASE Download(p) \/ Finalize(p) \/ Abandon(p)
  BY <1>0, <1>3, WriteSetsStatus
     DEF Download, Finalize, FinalizeSucceeded, Abandon, Move, Claims
<1>4. CASE Announce(p) \/ AskSubmit(p) \/ AskFetch(p) \/ FinalizeFails(p)
  BY <1>0, <1>4 DEF Announce, AskSubmit, AskFetch, FinalizeFails, Move
<1>5. CASE AnnounceInterrupted(p) \/ WriteFails(p) \/ Crash(p)
  <2>1. PICK result \in {"raised", "none"} : End(p, result)
    BY <1>5 DEF AnnounceInterrupted, WriteFails, Crash
  <2>2. run'[p] = Over(result) /\ NoRun \in Run
    BY <2>1, OverType, NewRunType, KeyNames, StatusNames
       DEF End, RInv, TypeOK, NoRun
  <2>3. run'[p].result = result
    BY <2>2 DEF Over, Run
  <2> QED BY <2>3
<1>6. CASE Lookup(p) \/ Insert(p) \/ ClaimSubmission(p) \/ ClaimRefresh(p)
  BY <1>6 DEF Lookup, Insert, ClaimSubmission, ClaimRefresh, Holds
<1> QED BY <1>1, <1>2, <1>3, <1>4, <1>5, <1>6 DEF Proceed, Fault

\* The steps of one caller do not move another.
LEMMA OthersStay ==
  ASSUME RInv, NEW q \in Callers, Start(q) \/ Proceed(q) \/ Fault(q),
         NEW p \in Callers, p # q
  PROVE  at'[p] = at[p]
<1>1. ASSUME NEW place, at' = [at EXCEPT ![q] = place] PROVE at'[p] = at[p]
  BY <1>1 DEF RInv, TypeOK
<1>2. \E place : at' = [at EXCEPT ![q] = place]
  BY DEF Start, StartSubmit, StartRefresh, StartLive, StartCreate, Begin,
     Proceed, Lookup, Insert, Reuse, ClaimSubmission, AskSubmit, RecordSubmission,
     ClaimRefresh, AskFetch, RecordRefresh, Announce, Download, Finalize, Abandon,
     Fault, AnnounceInterrupted, FinalizeFails, WriteFails, Crash, Move, End
<1> QED BY <1>1, <1>2

\* Only a run that raises or dies leaves a claim behind: one that reports an
\* outcome has written another status over it, on each path of the handlers.
THEOREM ClaimsAreGivenBack == Spec => ReportsEndClaims
<1>1. ASSUME RInv, [Next]_vars, NEW p \in Callers, NEW k \in Keys, Holds(p, k),
             at'[p] = "idle", run'[p].result \in {"succeeded", "failed"}
      PROVE  tasks'[k].status \notin Claims
  <2>1. k = Key(p) /\ at[p] # "idle"
    BY <1>1 DEF Holds
  <2>2. CASE UNCHANGED at
    BY <1>1, <2>1, <2>2
  <2>3. ASSUME NEW q \in Callers, Start(q) \/ Proceed(q) \/ Fault(q)
        PROVE  tasks'[k].status \notin Claims
    <3>1. q = p
      BY <1>1, <2>1, <2>3, OthersStay
    <3>2. ~Start(p)
      BY <2>1 DEF Start, StartSubmit, StartRefresh, StartLive, StartCreate, Begin
    <3> QED BY <1>1, <2>1, <2>3, <3>1, <3>2, HolderGivesBack
  <2> QED BY <1>1, <2>2, <2>3
       DEF Next, vars, callers, EditProduct, EnqueueSubmit, EnqueueRefresh, RemoteStep
<1>2. RInv /\ [Next]_vars =>
        [\A p \in Callers, k \in Keys :
           Holds(p, k) /\ at'[p] = "idle"
             /\ run'[p].result \in {"succeeded", "failed"} =>
           tasks'[k].status \notin Claims]_vars
  BY <1>1
<1> QED BY <1>2, RenderInvariance, PTL DEF Spec, ReportsEndClaims

-----------------------------------------------------------------------------
(***************************************************************************)
(* What one run does to the others, to its task and to what was told of it. *)
(***************************************************************************)
LEMMA OtherRunsStay ==
  ASSUME RInv, NEW p \in Callers, Start(p) \/ Proceed(p) \/ Fault(p)
  PROVE  \A q \in Callers : q # p => at'[q] = at[q] /\ run'[q] = run[q]
<1>1. \A q \in Callers : q # p => at'[q] = at[q]
  BY OthersStay
<1>2. ASSUME NEW result, End(p, result) \/ UNCHANGED run
      PROVE  \A q \in Callers : q # p => run'[q] = run[q]
  BY <1>2 DEF End, RInv, TypeOK
<1>3. CASE Start(p)
  <2>1. ASSUME NEW place, NEW r, Begin(p, place, r)
        PROVE  \A q \in Callers : q # p => run'[q] = run[q]
    BY <2>1 DEF Begin, RInv, TypeOK
  <2> QED BY <1>1, <1>3, <2>1
       DEF Start, StartSubmit, StartRefresh, StartLive, StartCreate
<1>4. CASE \/ Lookup(p) \/ Insert(p) \/ ClaimSubmission(p) \/ ClaimRefresh(p)
           \/ RecordSubmission(p) \/ RecordRefresh(p)
           \/ Download(p) \/ Finalize(p) \/ Abandon(p) \/ Fault(p)
  BY <1>1, <1>2, <1>4
     DEF Lookup, Insert, Reuse, ClaimSubmission, ClaimRefresh,
         RecordSubmission, RecordRefresh, Download, Finalize, Abandon, Fault,
         AnnounceInterrupted, FinalizeFails, WriteFails, Crash
<1>5. CASE Announce(p)
  BY <1>1, <1>5 DEF Announce, RInv, TypeOK
<1>6. CASE AskSubmit(p)
  BY <1>1, <1>6 DEF AskSubmit, RInv, TypeOK
<1>7. CASE AskFetch(p)
  BY <1>1, <1>7 DEF AskFetch, RInv, TypeOK
<1> QED BY <1>1, <1>3, <1>4, <1>5, <1>6, <1>7 DEF Proceed

\* A step that ends the run: it is idle, holds nothing and has asked nothing.
LEMMA EndForgets ==
  ASSUME RInv, NEW p \in Callers,
         NEW result \in {"none", "succeeded", "failed", "raised"}, End(p, result)
  PROVE  /\ at'[p] = "idle" /\ run'[p].kind = "create" /\ ~run'[p].asked
         /\ run'[p].result = result
<1>1. /\ NoRun \in Run /\ NoRun.kind = "create" /\ NoRun.asked = FALSE
  BY NewRunType, KeyNames, StatusNames DEF NoRun, NewRun
<1>2. /\ Over(result).kind = "create" /\ Over(result).asked = FALSE
      /\ Over(result).result = result
  BY <1>1 DEF Over, Run
<1> QED BY <1>2 DEF RInv, TypeOK, End

\* A new run is idle, looks for its task or is about to claim it.
LEMMA StartPlaces ==
  ASSUME RInv, NEW p \in Callers, Start(p)
  PROVE  /\ at'[p] \in {"idle", "looking", "claiming"} /\ ~run'[p].asked
         /\ at[p] = "idle" /\ UNCHANGED <<table, provider>>
<1>1. /\ \A kind, k, status : NewRun(kind, k, status).asked = FALSE
      /\ \A result : Over(result).asked = FALSE
  BY DEF NewRun, Over, NoRun
<1>2. ASSUME NEW place, NEW r, Begin(p, place, r)
      PROVE  at[p] = "idle" /\ at'[p] = place /\ run'[p] = r
  BY <1>2 DEF Begin, RInv, TypeOK
<1>3. CASE StartSubmit(p)
  BY <1>1, <1>2, <1>3 DEF StartSubmit
<1>4. CASE StartRefresh(p)
  BY <1>1, <1>2, <1>4 DEF StartRefresh
<1>5. CASE StartLive(p)
  BY <1>1, <1>2, <1>5 DEF StartLive
<1>6. ASSUME NEW k \in Keys, StartCreate(p, k)
      PROVE  /\ at'[p] = "looking" /\ ~run'[p].asked
             /\ at[p] = "idle" /\ UNCHANGED <<table, provider>>
  BY <1>1, <1>2, <1>6 DEF StartCreate
<1> QED BY <1>3, <1>4, <1>5, <1>6 DEF Start

-----------------------------------------------------------------------------
(***************************************************************************)
(* Statuses change as RENDER_TASK_TRANSITIONS declares.                    *)
(***************************************************************************)
\* The changes a step of a run may make to the status of its task.
LEMMA OwnChangeIsDeclared ==
  ASSUME RInv, NEW p \in Callers, Proceed(p), Changes(Key(p))
  PROVE  tasks'[Key(p)].status \in Declared[TaskOf(p).status] \cup {"CANCELED"}
<1>0. Key(p) \in Keys
  BY KeyType
<1>1. ~(Lookup(p) \/ Announce(p) \/ AskSubmit(p) \/ AskFetch(p))
  BY DEF Lookup, Announce, AskSubmit, AskFetch, table, Changes
<1>2. CASE Insert(p)
  <2>1. CreatedTask.status = "CREATED"
    BY DEF CreatedTask
  <2>2. TaskOf(p).status = "NONE" /\ tasks'[Key(p)].status = "CREATED"
    BY <1>0, <1>2, <2>1 DEF Insert, Changes, RInv, TypeOK
  <2> QED BY <2>2 DEF Declared
<1>3. CASE ClaimSubmission(p)
  <2>1. TaskOf(p).status = "CREATED" /\ tasks'[Key(p)].status = "SUBMITTING"
    BY <1>3, WriteSetsStatus DEF ClaimSubmission, MayClaimSubmission, Changes
  <2> QED BY <2>1 DEF Declared
<1>4. CASE ClaimRefresh(p)
  <2>1. /\ TaskOf(p).status \in Refreshable
        /\ tasks'[Key(p)].status = "REFRESHING"
    BY <1>4, WriteSetsStatus
       DEF ClaimRefresh, MayClaimRefresh, Changes, RInv, RunsFit
  <2> QED BY <2>1 DEF Declared, Refreshable
<1>5. CASE RecordSubmission(p)
  <2>1. TaskOf(p).status = "SUBMITTING"
    BY <1>0, <1>5
       DEF RecordSubmission, RInv, ClaimsAreExclusive, Holds, HeldStatus, TaskOf
  <2>2. tasks'[Key(p)].status \in
          {"SUBMITTED", "PENDING", "RUNNING", "FAILED", "SUBMIT_UNKNOWN", "CANCELED"}
    <3>1. ASSUME NEW status \in {"SUBMIT_UNKNOWN", "FAILED"},
                 Write(Key(p), status, "final")
          PROVE  tasks'[Key(p)].status = status
      BY <3>1, WriteSetsStatus
    <3>2. ASSUME NEW answer \in RemoteStatuses \cup {"UNKNOWN"}, NEW error,
                 tasks' = [tasks EXCEPT ![Key(p)] =
                             [status |-> Recorded(answer), provider |-> TRUE,
                              error |-> error]]
          PROVE  tasks'[Key(p)].status \in
                   {"SUBMITTED", "PENDING", "RUNNING", "FAILED", "CANCELED"}
      <4>1. tasks'[Key(p)].status = Recorded(answer)
        BY <1>0, <3>2 DEF RInv, TypeOK
      <4> QED BY <4>1 DEF Recorded, RemoteStatuses
    <3> QED BY <1>5, <3>1, <3>2 DEF RecordSubmission
  <2> QED BY <2>1, <2>2 DEF Declared
<1>6. ASSUME run[p].kind = "refresh", Holds(p, Key(p)),
             tasks'[Key(p)].status \in
               {"SUBMITTED", "PENDING", "RUNNING", "SUCCEEDED", "FAILED",
                "ARTIFACT_PERSIST_FAILED", "CANCELED"}
      PROVE  tasks'[Key(p)].status \in Declared[TaskOf(p).status] \cup {"CANCELED"}
  <2>1. TaskOf(p).status = "REFRESHING"
    BY <1>0, <1>6 DEF RInv, ClaimsAreExclusive, HeldStatus, TaskOf
  <2> QED BY <1>6, <2>1 DEF Declared
<1>7. CASE RecordRefresh(p)
  <2>1. /\ run[p].kind = "refresh" /\ Holds(p, Key(p))
        /\ run[p].previous \in {"SUBMITTED", "PENDING", "RUNNING"}
    BY <1>7 DEF RecordRefresh, Holds, RInv, RunsFit, Refreshable
  <2>2. tasks'[Key(p)].status \in
          {"SUBMITTED", "PENDING", "RUNNING", "FAILED", "CANCELED"}
    BY <1>7, <2>1, WriteSetsStatus DEF RecordRefresh, Restore, RemoteStatuses, Changes
  <2> QED BY <1>6, <2>1, <2>2
<1>8. CASE Download(p) \/ Finalize(p) \/ Abandon(p)
  <2>1. Holds(p, Key(p)) /\ at[p] \in {"downloading", "finalizing", "abandoning"}
    BY <1>8 DEF Download, Finalize, Abandon, Move, Holds
  <2>2. run[p].kind = "refresh"
    BY <2>1 DEF RInv, RunsFit, TypeOK, Run
  <2>3. tasks'[Key(p)].status \in {"SUCCEEDED", "ARTIFACT_PERSIST_FAILED"}
    BY <1>8, WriteSetsStatus
       DEF Download, Finalize, FinalizeSucceeded, Abandon, Changes
  <2> QED BY <1>6, <2>1, <2>2, <2>3
<1> QED BY <1>1, <1>2, <1>3, <1>4, <1>5, <1>7, <1>8 DEF Proceed

\* The claims and the blind writes after them take a task only along the
\* transitions the code declares and does not consult here, but for CANCELED.
THEOREM ChangesAreDeclared == Spec => DeclaredUnlessCanceled
<1>1. ASSUME RInv, [Next]_vars, NEW k \in Keys, Changes(k)
      PROVE  tasks'[k].status \in Declared[tasks[k].status] \cup {"CANCELED"}
  <2>1. ~UNCHANGED tasks
    BY <1>1 DEF Changes
  <2>2. PICK p \in Callers : Proceed(p)
    BY <1>1, <2>1, OthersWriteNoTask DEF Next, vars, table
  <2>3. k = Key(p)
    BY <1>1, <2>1, <2>2, ProceedWritesOpenTask DEF WritesOpenTask, Changes
  <2> QED BY <1>1, <2>2, <2>3, OwnChangeIsDeclared DEF TaskOf
<1>2. RInv /\ [Next]_vars =>
        [\A k \in Keys : Changes(k) =>
           tasks'[k].status \in Declared[tasks[k].status] \cup {"CANCELED"}]_vars
  BY <1>1
<1> QED BY <1>2, RenderInvariance, PTL DEF Spec, DeclaredUnlessCanceled

-----------------------------------------------------------------------------
(***************************************************************************)
(* What a submit job reports.                                              *)
(***************************************************************************)
\* A run that has submitted is about to record the answer, and a submit job
\* has announced the submission before.
AskedFits(p) ==
  /\ run[p].asked => at[p] = "recording" /\ run[p].kind \in {"submit", "live"}
  /\ run[p].kind = "submit" /\ at[p] \in {"asking", "recording"} => run[p].external

SInv == RInv /\ \A p \in Callers : AskedFits(p)

LEMMA InitSInv == Init => SInv
<1>1. NoRun.asked = FALSE /\ NoRun.kind = "create"
  BY DEF NoRun, NewRun
<1> QED BY <1>1, InitRInv DEF Init, SInv, AskedFits

LEMMA EndFits ==
  ASSUME RInv, NEW p \in Callers,
         NEW result \in {"none", "succeeded", "failed", "raised"}, End(p, result)
  PROVE  AskedFits(p)'
BY EndForgets DEF AskedFits

LEMMA OwnStepFits ==
  ASSUME SInv, NEW p \in Callers, Start(p) \/ Proceed(p) \/ Fault(p)
  PROVE  AskedFits(p)'
<1>0. RInv /\ AskedFits(p) /\ TypeOK
  BY DEF SInv, RInv
<1>1. CASE Start(p)
  BY <1>0, <1>1, StartPlaces DEF AskedFits
\* A run that moves without a word to the provider.
<1>2. ASSUME NEW place \in Places \ {"asking", "recording"}, at[p] # "recording",
             at' = [at EXCEPT ![p] = place], UNCHANGED run
      PROVE  AskedFits(p)'
  <2>1. at'[p] = place
    BY <1>0, <1>2 DEF TypeOK
  <2> QED BY <1>0, <1>2, <2>1 DEF AskedFits
<1>a. {"inserting", "claiming", "announcing", "downloading", "finalizing",
       "abandoning"} \subseteq Places
  BY DEF Places
<1>3. CASE Lookup(p) \/ Insert(p)
  <2>1. at[p] # "recording"
    BY <1>3 DEF Lookup, Insert
  <2>2. ASSUME NEW row, Reuse(p, row) PROVE AskedFits(p)'
    BY <1>0, <1>2, <1>a, <2>1, <2>2, ReuseMoves, EndFits
  <2>3. CASE Move(p, "looking", "inserting") /\ UNCHANGED run
    BY <1>2, <1>a, <2>1, <2>3 DEF Move
  <2> QED BY <1>3, <2>2, <2>3 DEF Lookup, Insert
<1>4. CASE ClaimSubmission(p)
  <2>1. CASE run[p].kind = "live" /\ Move(p, "claiming", "asking") /\ UNCHANGED run
    <3>1. at'[p] = "asking" /\ ~run[p].asked
      BY <1>0, <2>1 DEF Move, TypeOK, AskedFits
    <3> QED BY <2>1, <3>1 DEF AskedFits
  <2>2. CASE Move(p, "claiming", "announcing") /\ UNCHANGED run
    BY <1>2, <1>a, <2>2 DEF Move
  <2> QED BY <1>0, <1>4, <2>1, <2>2, EndFits DEF ClaimSubmission
<1>5. CASE ClaimRefresh(p)
  <2>1. CASE Move(p, "claiming", "announcing") /\ UNCHANGED run
    BY <1>2, <1>a, <2>1 DEF Move
  <2> QED BY <1>0, <1>5, <2>1, EndFits DEF ClaimRefresh
<1>6. CASE Announce(p)
  <2>1. at[p] = "announcing" /\ at'[p] = "asking" /\ ~run[p].asked
    BY <1>0, <1>6 DEF Announce, Move, TypeOK, AskedFits
  <2>2. run'[p] = [run[p] EXCEPT !.external = run[p].kind = "submit"] /\ run[p] \in Run
    BY <1>0, <1>6 DEF Announce, TypeOK
  <2>3. run'[p].asked = run[p].asked /\ run'[p].kind = run[p].kind
    BY <2>2 DEF Run
  <2>4. run[p].kind = "submit" => run'[p].external
    BY <2>2 DEF Run
  <2> QED BY <2>1, <2>3, <2>4 DEF AskedFits
<1>7. CASE AskSubmit(p)
  <2>1. /\ at[p] = "asking" /\ at'[p] = "recording"
        /\ run[p].kind \in {"submit", "live"}
    BY <1>0, <1>7 DEF AskSubmit, Move, TypeOK
  <2>2. PICK answer \in SubmitAnswers :
          run' = [run EXCEPT ![p] = [@ EXCEPT !.asked = TRUE, !.answer = answer]]
    BY <1>7 DEF AskSubmit
  <2>3. /\ run'[p].kind = run[p].kind /\ run'[p].external = run[p].external
    BY <1>0, <2>2 DEF TypeOK, Run
  <2> QED BY <1>0, <2>1, <2>3 DEF AskedFits
<1>8. CASE AskFetch(p)
  <2>1. at[p] = "asking" /\ at'[p] = "recording" /\ run[p].kind = "refresh"
    BY <1>0, <1>8 DEF AskFetch, Move, TypeOK
  <2>2. PICK answer \in FetchAnswers : run' = [run EXCEPT ![p].answer = answer]
    BY <1>8 DEF AskFetch
  <2>3. run'[p].kind = run[p].kind /\ run'[p].asked = run[p].asked
    BY <1>0, <2>2 DEF TypeOK, Run
  <2> QED BY <1>0, <2>1, <2>3 DEF AskedFits
<1>9. CASE RecordSubmission(p)
  <2>1. Refusal(p) \in {"none", "succeeded", "failed", "raised"}
    BY DEF Refusal
  <2> QED BY <1>0, <1>9, <2>1, EndFits DEF RecordSubmission
<1>10. CASE RecordRefresh(p)
  <2>1. CASE Move(p, "recording", "downloading") /\ UNCHANGED run
    <3>1. at'[p] = "downloading" /\ ~run[p].asked
      BY <1>0, <1>10, <2>1 DEF RecordRefresh, Move, TypeOK, AskedFits
    <3> QED BY <2>1, <3>1 DEF AskedFits
  <2> QED BY <1>0, <1>10, <2>1, EndFits DEF RecordRefresh
<1>11. CASE Download(p) \/ FinalizeFails(p)
  <2>1. CASE Move(p, "downloading", "finalizing") /\ UNCHANGED run
    BY <1>2, <1>a, <2>1 DEF Move
  <2>2. CASE Move(p, "finalizing", "abandoning") /\ UNCHANGED run
    BY <1>2, <1>a, <2>2 DEF Move
  <2> QED BY <1>0, <1>11, <2>1, <2>2, EndFits DEF Download, FinalizeFails
<1>12. CASE \/ Finalize(p) \/ Abandon(p)
            \/ AnnounceInterrupted(p) \/ WriteFails(p) \/ Crash(p)
  BY <1>0, <1>12, EndFits DEF Finalize, Abandon, AnnounceInterrupted, WriteFails, Crash
<1> QED BY <1>1, <1>3, <1>4, <1>5, <1>6, <1>7, <1>8, <1>9, <1>10, <1>11, <1>12
     DEF Proceed, Fault

LEMMA StepSInv == SInv /\ [Next]_vars => SInv'
<1> SUFFICES ASSUME SInv, [Next]_vars PROVE SInv'
  OBVIOUS
<1>1. RInv /\ RInv'
  BY StepRInv DEF SInv
<1>2. ASSUME NEW p \in Callers, Start(p) \/ Proceed(p) \/ Fault(p),
             NEW q \in Callers
      PROVE  AskedFits(q)'
  <2>1. CASE q = p
    BY <1>2, <2>1, OwnStepFits
  <2>2. CASE q # p
    BY <1>1, <1>2, <2>2, OtherRunsStay DEF SInv, AskedFits
  <2> QED BY <2>1, <2>2
<1>3. CASE UNCHANGED callers
  BY <1>1, <1>3 DEF SInv, AskedFits, callers
<1> QED BY <1>1, <1>2, <1>3
     DEF SInv, Next, vars, EditProduct, EnqueueSubmit, EnqueueRefresh, RemoteStep

THEOREM SubmitInvariance == Spec => []SInv
BY InitSInv, StepSInv, PTL DEF Spec

\* What the job record says can be relied on: a submit job that talked to the
\* provider never reports a failure, whatever refused or raised afterwards, and
\* where it reports a success the provider's id is in the task.
THEOREM SubmitReportsStayTrue == Spec => SubmitReportsAreTrue
<1>1. ASSUME SInv, [Next]_vars, NEW p \in Callers, run[p].kind = "submit",
             run[p].asked, at'[p] = "idle"
      PROVE  /\ run'[p].result # "failed"
             /\ run'[p].result = "succeeded" => tasks'[Key(p)].provider
  <2>0. /\ RInv /\ at[p] = "recording" /\ run[p].external
        /\ Key(p) \in Keys
    BY <1>1, KeyType DEF SInv, AskedFits
  <2>1. PICK q \in Callers : Start(q) \/ Proceed(q) \/ Fault(q)
    BY <1>1, <2>0
       DEF Next, vars, callers, EditProduct, EnqueueSubmit, EnqueueRefresh, RemoteStep
  <2>2. q = p
    BY <1>1, <2>0, <2>1, OthersStay
  <2>3. RecordSubmission(p) \/ WriteFails(p) \/ Crash(p)
    BY <1>1, <2>0, <2>1, <2>2, StartPlaces
       DEF Proceed, Lookup, Insert, ClaimSubmission, AskSubmit, ClaimRefresh,
           AskFetch, RecordRefresh, Announce, Download, Finalize, Abandon, Move,
           Fault, AnnounceInterrupted, FinalizeFails
  <2>4. CASE WriteFails(p) \/ Crash(p)
    BY <2>0, <2>4, EndForgets DEF WriteFails, Crash
  <2>5. CASE RecordSubmission(p)
    <3>1. CASE End(p, Refusal(p))
      <4>1. Refusal(p) = "raised"
        BY <2>0 DEF Refusal
      <4> QED BY <2>0, <3>1, <4>1, EndForgets
    <3>2. ASSUME NEW error, End(p, "succeeded"),
                 tasks' = [tasks EXCEPT ![Key(p)] =
                             [status |-> Recorded(run[p].answer),
                              provider |-> TRUE, error |-> error]]
          PROVE  run'[p].result = "succeeded" /\ tasks'[Key(p)].provider
      BY <2>0, <3>2, EndForgets DEF RInv, TypeOK
    <3> QED BY <2>5, <3>1, <3>2 DEF RecordSubmission
  <2> QED BY <2>3, <2>4, <2>5
<1>2. SInv /\ [Next]_vars =>
        [\A p \in Callers :
           run[p].kind = "submit" /\ run[p].asked /\ at'[p] = "idle" =>
             /\ run'[p].result # "failed"
             /\ run'[p].result = "succeeded" => tasks'[Key(p)].provider]_vars
  BY <1>1
<1> QED BY <1>2, SubmitInvariance, PTL DEF Spec, SubmitReportsAreTrue

-----------------------------------------------------------------------------
(***************************************************************************)
(* Stored videos.                                                          *)
(***************************************************************************)
\* A step stores a video for the run that will finalize it, deletes one it
\* drops, or leaves the storage alone.
LEMMA StepKeepsFiles ==
  ASSUME RInv, [Next]_vars
  PROVE  \/ UNCHANGED <<files, artifacts>>
         \/ \E p \in Callers :
              \/ Download(p) /\ files' = files \cup {Key(p)} /\ UNCHANGED artifacts
              \/ Finalize(p)
              \/ FinalizeFails(p)
<1>1. ASSUME NEW p \in Callers,
             \/ Start(p)
             \/ Proceed(p) /\ ~Download(p) /\ ~Finalize(p)
             \/ Fault(p) /\ ~FinalizeFails(p)
      PROVE  UNCHANGED <<files, artifacts>>
  BY <1>1
     DEF Start, StartSubmit, StartRefresh, StartLive, StartCreate, Proceed, Lookup,
         Insert, ClaimSubmission, AskSubmit, RecordSubmission, ClaimRefresh,
         AskFetch, RecordRefresh, Announce, Abandon, Fault, AnnounceInterrupted,
         WriteFails, Crash, table
<1>2. ASSUME NEW p \in Callers, Download(p)
      PROVE  \/ UNCHANGED <<files, artifacts>>
             \/ files' = files \cup {Key(p)} /\ UNCHANGED artifacts
  BY <1>2 DEF Download
<1> QED BY <1>1, <1>2
     DEF Next, vars, table, EditProduct, EnqueueSubmit, EnqueueRefresh, RemoteStep

\* Where no process dies, a run about to finalize stays until it does, or until
\* it drops the file.
LEMMA FinalizersStay ==
  ASSUME RInv, [Next]_vars, "crash" \notin Faults, NEW p \in Callers,
         at[p] = "finalizing", ~Finalize(p), ~FinalizeFails(p)
  PROVE  at'[p] = at[p] /\ run'[p] = run[p]
<1>1. CASE UNCHANGED callers
  BY <1>1 DEF callers
<1>2. ASSUME NEW q \in Callers, Start(q) \/ Proceed(q) \/ Fault(q) PROVE q # p
  BY <1>2, StartPlaces
     DEF Proceed, Lookup, Insert, ClaimSubmission, AskSubmit, RecordSubmission,
         ClaimRefresh, AskFetch, RecordRefresh, Announce, Download, Abandon, Move,
         Fault, AnnounceInterrupted, WriteFails, Crash
<1> QED BY <1>1, <1>2, OtherRunsStay
     DEF Next, vars, EditProduct, EnqueueSubmit, EnqueueRefresh, RemoteStep

LEMMA StepOrphansNone ==
  ASSUME RInv, NoFileIsOrphaned, [Next]_vars, "crash" \notin Faults
  PROVE  NoFileIsOrphaned'
<1> SUFFICES ASSUME NEW k \in files' \ artifacts'
             PROVE  \E p \in Callers : (Holds(p, k) /\ at[p] = "finalizing")'
  BY DEF NoFileIsOrphaned
<1>1. ASSUME k \in files \ artifacts,
             \A p \in Callers : Key(p) = k => ~Finalize(p) /\ ~FinalizeFails(p)
      PROVE  \E p \in Callers : (Holds(p, k) /\ at[p] = "finalizing")'
  <2>1. PICK p \in Callers : Holds(p, k) /\ at[p] = "finalizing"
    BY <1>1 DEF NoFileIsOrphaned
  <2>2. at'[p] = at[p] /\ run'[p] = run[p]
    BY <1>1, <2>1, FinalizersStay DEF Holds
  <2> QED BY <2>1, <2>2 DEF Holds, Key
\* The run that finalizes a task, or drops its file, is the one that holds it.
<1>2. \A p \in Callers : Key(p) = k => ~Finalize(p) /\ ~FinalizeFails(p)
  BY DEF Finalize, FinalizeSucceeded, FinalizeFails, FileDeleted
<1>3. CASE k \in files \ artifacts
  BY <1>1, <1>2, <1>3
<1>4. CASE k \notin files \ artifacts
  <2>1. PICK p \in Callers :
          /\ Download(p) /\ files' = files \cup {Key(p)} /\ UNCHANGED artifacts
          /\ k = Key(p)
    BY <1>4, StepKeepsFiles
       DEF Finalize, FinalizeSucceeded, FinalizeFails, FileDeleted
  <2>2. at'[p] = "finalizing" /\ run'[p] = run[p]
    BY <1>4, <2>1 DEF Download, Move, RInv, TypeOK
  <2> QED BY <2>1, <2>2 DEF Holds, Key
<1> QED BY <1>3, <1>4

\* Whatever fails to write or loses its lease, a stored video is deleted with
\* the commit that failed, or belongs to an artifact or a run about to make it.
\* Only a process that dies leaves a file nobody knows.
THEOREM OnlyDeathsOrphanFiles == "crash" \notin Faults => (Spec => []NoFileIsOrphaned)
<1> SUFFICES ASSUME "crash" \notin Faults PROVE Spec => []NoFileIsOrphaned
  OBVIOUS
<1>1. Init => NoFileIsOrphaned
  BY DEF Init, NoFileIsOrphaned
<1>2. RInv /\ NoFileIsOrphaned /\ [Next]_vars => NoFileIsOrphaned'
  BY StepOrphansNone
<1> QED BY <1>1, <1>2, RenderInvariance, PTL DEF Spec

-----------------------------------------------------------------------------
(***************************************************************************)
(* What is shown of a render is the last thing the provider said of it.    *)
(***************************************************************************)
\* A refresh that holds a task would put back what was said last, until it has
\* heard something newer; what it then writes is what it heard.
RunMirrors(p) ==
  run[p].kind = "refresh" =>
    /\ at[p] \in {"announcing", "asking"} => run[p].previous = told[Key(p)]
    /\ at[p] = "recording" =>
         /\ run[p].answer \in RemoteStatuses => told[Key(p)] = run[p].answer
         /\ run[p].answer \in {"error", "invalid"} => run[p].previous = told[Key(p)]

\* The row of a task, before and after a step of the run that works on it.
RowMirrors(k) == tasks[k].status \in Refreshable => tasks[k].status = told[k]

RowMirrorsNext(p) ==
  tasks'[Key(p)].status \in Refreshable => tasks'[Key(p)].status = told'[Key(p)]

MInv == RInv /\ TasksMirrorTheProvider /\ \A p \in Callers : RunMirrors(p)

LEMMA InitMInv == Init => MInv
<1>1. NoTask.status = "NONE" /\ NoRun.kind = "create"
  BY DEF NoTask, NoRun, NewRun
<1> QED BY <1>1, InitRInv
     DEF Init, MInv, RunMirrors, TasksMirrorTheProvider, Refreshable

\* A step of a run touches its own task, and what was told of it only while it
\* holds it, so no other run that holds a task can tell the difference.
LEMMA MirrorFrame ==
  ASSUME MInv, NEW p \in Callers, Start(p) \/ Proceed(p) \/ Fault(p),
         RunMirrors(p)', RowMirrorsNext(p),
         \A k \in Keys : k # Key(p) => tasks'[k] = tasks[k] /\ told'[k] = told[k],
         UNCHANGED told \/ Holds(p, Key(p)),
         RInv'
  PROVE  MInv'
<1>1. TasksMirrorTheProvider'
  <2> SUFFICES ASSUME NEW k \in Keys, tasks'[k].status \in Refreshable
               PROVE  tasks'[k].status = told'[k]
    BY DEF TasksMirrorTheProvider
  <2>1. CASE k = Key(p)
    BY <2>1 DEF RowMirrorsNext
  <2>2. CASE k # Key(p)
    BY <2>2 DEF MInv, TasksMirrorTheProvider
  <2> QED BY <2>1, <2>2
<1>2. ASSUME NEW q \in Callers, q # p PROVE RunMirrors(q)'
  <2>0. Key(q) \in Keys /\ Key(p) \in Keys
    BY KeyType DEF MInv
  <2>1. at'[q] = at[q] /\ run'[q] = run[q]
    BY <1>2, OtherRunsStay DEF MInv
  <2>2. CASE Holds(q, Key(q))
    <3>1. told'[Key(q)] = told[Key(q)]
      BY <1>2, <2>0, <2>2 DEF MInv, RInv, ClaimsAreExclusive
    <3> QED BY <2>1, <3>1 DEF MInv, RunMirrors, Key
  <2>3. CASE ~Holds(q, Key(q))
    BY <2>1, <2>3 DEF RunMirrors, Holds
  <2> QED BY <2>2, <2>3
<1> QED BY <1>1, <1>2 DEF MInv

\* What is written over a claim is no status that waits, or what was told last.
LEMMA WriteMirrors ==
  ASSUME MInv, NEW p \in Callers, NEW status, NEW error,
         Write(Key(p), status, error),
         status \in Refreshable => status = told'[Key(p)]
  PROVE  RowMirrorsNext(p)
<1>1. tasks'[Key(p)].status = status
  BY WriteSetsStatus DEF MInv
<1> QED BY <1>1 DEF RowMirrorsNext

\* The case of a run that tells nothing and writes nothing.
LEMMA QuietMirrors ==
  ASSUME MInv, NEW p \in Callers, UNCHANGED <<tasks, told>>
  PROVE  RowMirrorsNext(p)
BY KeyType DEF MInv, TasksMirrorTheProvider, RowMirrorsNext

LEMMA AwayMirrors ==
  ASSUME NEW p \in Callers, at'[p] \notin {"announcing", "asking", "recording"}
  PROVE  RunMirrors(p)'
BY DEF RunMirrors

LEMMA OwnStepMirrors ==
  ASSUME MInv, NEW p \in Callers, Start(p) \/ Proceed(p) \/ Fault(p)
  PROVE  RunMirrors(p)' /\ RowMirrorsNext(p)
<1>0. RInv /\ RunMirrors(p) /\ TypeOK /\ Key(p) \in Keys /\ RowMirrors(Key(p))
  BY KeyType DEF MInv, RInv, TasksMirrorTheProvider, RowMirrors
<1>a. "SUBMIT_UNKNOWN" \notin Refreshable /\ "FAILED" \notin Refreshable
      /\ "SUCCEEDED" \notin Refreshable /\ "ARTIFACT_PERSIST_FAILED" \notin Refreshable
      /\ "SUBMITTING" \notin Refreshable /\ "REFRESHING" \notin Refreshable
      /\ "CREATED" \notin Refreshable
  BY DEF Refreshable
<1>b. ASSUME NEW result \in {"none", "succeeded", "failed", "raised"}, End(p, result)
      PROVE  RunMirrors(p)'
  BY <1>0, <1>b, EndForgets, AwayMirrors
<1>1. CASE Start(p)
  BY <1>0, <1>1, StartPlaces, AwayMirrors, QuietMirrors DEF table, provider
<1>2. CASE Lookup(p)
  <2>1. RunMirrors(p)'
    <3>1. ASSUME NEW place \in {"inserting", "claiming"}, at' = [at EXCEPT ![p] = place]
          PROVE  RunMirrors(p)'
      BY <1>0, <3>1, AwayMirrors DEF TypeOK
    <3> QED BY <1>0, <1>2, <1>b, <3>1, ReuseMoves DEF Lookup, Move
  <2> QED BY <1>2, <2>1, QuietMirrors DEF Lookup, table, provider
<1>3. CASE Insert(p)
  <2>1. RunMirrors(p)'
    <3>1. ASSUME at' = [at EXCEPT ![p] = "claiming"] PROVE RunMirrors(p)'
      BY <1>0, <3>1, AwayMirrors DEF TypeOK
    <3> QED BY <1>0, <1>3, <1>b, <3>1, ReuseMoves DEF Insert
  <2>2. RowMirrorsNext(p)
    <3>1. CASE UNCHANGED tasks
      BY <1>3, <3>1, QuietMirrors DEF Insert, provider
    <3>2. CASE tasks' = [tasks EXCEPT ![Key(p)] = CreatedTask]
      BY <1>0, <1>a, <3>2 DEF TypeOK, CreatedTask, RowMirrorsNext
    <3> QED BY <1>3, <3>1, <3>2 DEF Insert
  <2> QED BY <2>1, <2>2
<1>4. CASE ClaimSubmission(p)
  <2>1. RunMirrors(p)'
    <3>1. CASE UNCHANGED run
      BY <1>4, <3>1 DEF ClaimSubmission, RunMirrors
    <3> QED BY <1>4, <1>b, <3>1 DEF ClaimSubmission
  <2> QED BY <1>4, <1>a, <2>1, WriteMirrors, QuietMirrors
       DEF ClaimSubmission, provider
<1>5. CASE ClaimRefresh(p)
  <2>1. CASE /\ MayClaimRefresh(TaskOf(p), run[p].previous)
             /\ Write(Key(p), "REFRESHING", "none")
             /\ Move(p, "claiming", "announcing") /\ UNCHANGED run
\* The row still has the status the refresh found, which was told last.
    <3>1. run[p].previous = told[Key(p)]
      BY <1>0, <1>5, <2>1
         DEF ClaimRefresh, MayClaimRefresh, RowMirrors, TaskOf, RInv, RunsFit
    <3>2. at'[p] = "announcing" /\ UNCHANGED told
      BY <1>0, <1>5, <2>1 DEF ClaimRefresh, Move, TypeOK, provider
    <3>3. RunMirrors(p)'
      BY <2>1, <3>1, <3>2 DEF RunMirrors, Key
    <3> QED BY <1>a, <2>1, <3>3, WriteMirrors
  <2> QED BY <1>5, <1>b, <2>1, QuietMirrors DEF ClaimRefresh, provider
<1>6. CASE Announce(p)
  <2>1. at[p] = "announcing" /\ at'[p] = "asking" /\ UNCHANGED <<tasks, told>>
    BY <1>0, <1>6 DEF Announce, Move, TypeOK, table, provider
  <2>2. /\ run'[p].kind = run[p].kind /\ run'[p].key = run[p].key
        /\ run'[p].previous = run[p].previous
    BY <1>0, <1>6 DEF Announce, TypeOK, Run
  <2>3. RunMirrors(p)'
    BY <1>0, <2>1, <2>2 DEF RunMirrors, Key
  <2> QED BY <2>1, <2>3, QuietMirrors
<1>7. CASE AskSubmit(p)
  <2>1. PICK answer \in SubmitAnswers :
          run' = [run EXCEPT ![p] = [@ EXCEPT !.asked = TRUE, !.answer = answer]]
    BY <1>7 DEF AskSubmit
  <2>2. run'[p].kind \in {"submit", "live"}
    BY <1>0, <1>7, <2>1 DEF AskSubmit, TypeOK, Run
  <2>3. RunMirrors(p)'
    BY <2>2 DEF RunMirrors
  <2> QED BY <1>7, <2>3, QuietMirrors DEF AskSubmit, table
<1>8. CASE AskFetch(p)
  <2>1. PICK answer \in FetchAnswers :
          /\ run' = [run EXCEPT ![p].answer = answer]
          /\ told' = IF answer \in RemoteStatuses
                     THEN [told EXCEPT ![Key(p)] = answer] ELSE told
    BY <1>8 DEF AskFetch
  <2>2. /\ at[p] = "asking" /\ at'[p] = "recording" /\ run[p].kind = "refresh"
        /\ UNCHANGED tasks
    BY <1>0, <1>8 DEF AskFetch, Move, TypeOK, table
  <2>3. /\ run'[p].key = run[p].key /\ run'[p].answer = answer
        /\ run'[p].previous = run[p].previous
    BY <1>0, <2>1 DEF TypeOK, Run
  <2>4. /\ answer \in RemoteStatuses => told'[Key(p)] = answer
        /\ answer \in {"error", "invalid"} => told' = told
    BY <1>0, <2>1 DEF TypeOK, RemoteStatuses
  <2>5. RunMirrors(p)'
    BY <1>0, <2>2, <2>3, <2>4 DEF RunMirrors, Key
\* The task itself shows the claim meanwhile.
  <2>6. tasks[Key(p)].status = "REFRESHING"
    BY <1>0, <2>2 DEF RInv, ClaimsAreExclusive, Holds, HeldStatus
  <2> QED BY <1>a, <2>2, <2>5, <2>6 DEF RowMirrorsNext
<1>9. CASE RecordSubmission(p)
  <2>0. Refusal(p) \in {"none", "succeeded", "failed", "raised"}
    BY DEF Refusal
  <2>1. RunMirrors(p)'
    BY <1>9, <1>b, <2>0 DEF RecordSubmission
  <2>2. ASSUME NEW status \in {"SUBMIT_UNKNOWN", "FAILED"},
               Write(Key(p), status, "final")
        PROVE  RowMirrorsNext(p)
    BY <1>a, <2>2, WriteMirrors
  <2>3. ASSUME NEW answer, NEW error,
               tasks' = [tasks EXCEPT ![Key(p)] =
                           [status |-> Recorded(answer), provider |-> TRUE,
                            error |-> error]],
               told' = [told EXCEPT ![Key(p)] = Recorded(answer)]
        PROVE  RowMirrorsNext(p)
    <3>1. tasks'[Key(p)].status = Recorded(answer) /\ told'[Key(p)] = Recorded(answer)
      BY <1>0, <2>3 DEF TypeOK
    <3> QED BY <3>1 DEF RowMirrorsNext
  <2> QED BY <1>9, <2>1, <2>2, <2>3 DEF RecordSubmission
<1>10. CASE RecordRefresh(p)
  <2>0. /\ at[p] = "recording" /\ run[p].kind = "refresh" /\ UNCHANGED told
    BY <1>10 DEF RecordRefresh, provider
  <2>1. CASE Move(p, "recording", "downloading") /\ UNCHANGED <<tasks, run>>
    <3>1. at'[p] = "downloading"
      BY <1>0, <2>1 DEF Move, TypeOK
    <3> QED BY <2>0, <2>1, <3>1, AwayMirrors, QuietMirrors
  <2>2. ASSUME run[p].answer \in {"error", "invalid"}, NEW error,
               Write(Key(p), run[p].previous, error), End(p, "failed")
        PROVE  RunMirrors(p)' /\ RowMirrorsNext(p)
    <3>1. run[p].previous = told'[Key(p)]
      BY <1>0, <2>0, <2>2 DEF RunMirrors
    <3> QED BY <1>b, <2>2, <3>1, WriteMirrors
  <2>3. ASSUME run[p].answer \in RemoteStatuses, NEW error,
               Write(Key(p), run[p].answer, error), End(p, "succeeded")
        PROVE  RunMirrors(p)' /\ RowMirrorsNext(p)
    <3>1. run[p].answer = told'[Key(p)]
      BY <1>0, <2>0, <2>3 DEF RunMirrors
    <3> QED BY <1>b, <2>3, <3>1, WriteMirrors
  <2> QED BY <1>10, <2>1, <2>2, <2>3 DEF RecordRefresh, Restore
<1>11. CASE Download(p) \/ Finalize(p) \/ FinalizeFails(p) \/ Abandon(p)
  <2>1. RunMirrors(p)'
    <3>1. ASSUME NEW place \in {"finalizing", "abandoning"},
                 at' = [at EXCEPT ![p] = place]
          PROVE  RunMirrors(p)'
      BY <1>0, <3>1, AwayMirrors DEF TypeOK
    <3> QED BY <1>11, <1>b, <3>1 DEF Download, Finalize, FinalizeFails, Abandon, Move
  <2>2. UNCHANGED told
    BY <1>11 DEF Download, Finalize, FinalizeFails, Abandon, provider
  <2>3. CASE UNCHANGED tasks
    BY <2>1, <2>2, <2>3, QuietMirrors
  <2>4. ASSUME NEW status \in {"ARTIFACT_PERSIST_FAILED", "SUCCEEDED"}, NEW error,
               Write(Key(p), status, error)
        PROVE  RowMirrorsNext(p)
    BY <1>a, <2>4, WriteMirrors
  <2> QED BY <1>11, <2>1, <2>3, <2>4
       DEF Download, Finalize, FinalizeSucceeded, FinalizeFails, Abandon
<1>12. CASE AnnounceInterrupted(p) \/ WriteFails(p) \/ Crash(p)
  BY <1>12, <1>b, QuietMirrors
     DEF AnnounceInterrupted, WriteFails, Crash, table, provider
<1> QED BY <1>1, <1>2, <1>3, <1>4, <1>5, <1>6, <1>7, <1>8, <1>9, <1>10, <1>11,
     <1>12 DEF Proceed, Fault

\* Only the run that holds the task hears something of it.
LEMMA ToldToTheHolder ==
  ASSUME RInv, NEW p \in Callers, Start(p) \/ Proceed(p) \/ Fault(p)
  PROVE  /\ \A k \in Keys : k # Key(p) => tasks'[k] = tasks[k] /\ told'[k] = told[k]
         /\ UNCHANGED told \/ Holds(p, Key(p))
<1>1. \A k \in Keys : k # Key(p) => tasks'[k] = tasks[k]
  BY ProceedWritesOpenTask, OthersWriteNoTask DEF WritesOpenTask
<1>2. CASE RecordSubmission(p) \/ AskFetch(p)
  <2>1. Holds(p, Key(p))
    BY <1>2 DEF RecordSubmission, AskFetch, Move, Holds
  <2>2. \A k \in Keys : k # Key(p) => told'[k] = told[k]
    BY <1>2 DEF RecordSubmission, AskFetch, RInv, TypeOK
  <2> QED BY <1>1, <2>1, <2>2
<1>3. CASE ~RecordSubmission(p) /\ ~AskFetch(p)
  <2>1. UNCHANGED told
    BY <1>3
       DEF Start, StartSubmit, StartRefresh, StartLive, StartCreate, Proceed, Lookup,
           Insert, ClaimSubmission, AskSubmit, ClaimRefresh, RecordRefresh, Announce,
           Download, Finalize, Abandon, Fault, AnnounceInterrupted, FinalizeFails,
           WriteFails, Crash, provider
  <2> QED BY <1>1, <2>1
<1> QED BY <1>2, <1>3

LEMMA StepMInv == MInv /\ [Next]_vars => MInv'
<1> SUFFICES ASSUME MInv, [Next]_vars PROVE MInv'
  OBVIOUS
<1>1. RInv /\ RInv'
  BY StepRInv DEF MInv
<1>2. ASSUME NEW p \in Callers, Start(p) \/ Proceed(p) \/ Fault(p) PROVE MInv'
  BY <1>1, <1>2, OwnStepMirrors, ToldToTheHolder, MirrorFrame
<1>3. CASE UNCHANGED <<tasks, told, callers>>
  BY <1>1, <1>3 DEF MInv, TasksMirrorTheProvider, RunMirrors, Key, callers
<1> QED BY <1>2, <1>3
     DEF Next, vars, table, provider, EditProduct, EnqueueSubmit, EnqueueRefresh,
         RemoteStep

THEOREM MirrorInvariance == Spec => []MInv
BY InitMInv, StepMInv, PTL DEF Spec

\* A task that waits to be refreshed shows what the provider said of it last,
\* however many refresh jobs meet, and whichever of them fail: a refresh that
\* learnt nothing puts back what it found, and that was not overtaken.
THEOREM TasksStayMirrored == Spec => []TasksMirrorTheProvider
<1>1. MInv => TasksMirrorTheProvider
  BY DEF MInv
<1> QED BY <1>1, MirrorInvariance, PTL
=============================================================================
