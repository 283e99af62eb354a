----------------------------- MODULE BatchVideo -----------------------------
(***************************************************************************)
(* A batch of video variants: its creation, the control of the whole batch *)
(* (pause, resume, cancel) and of single jobs, and the worker that prepares *)
(* each variant for its script.                                            *)
(*                                                                         *)
(* A control loads the batch with its variants and jobs, decides on what it *)
(* loaded and flushes UPDATEs that name rows by id only: a job may have     *)
(* been claimed, ended or cancelled in between.  What stands in the way of  *)
(* a control that is late are the CHECK constraints of the two tables; one  *)
(* that is violated rolls the whole control back.                          *)
(***************************************************************************)
EXTENDS Naturals, FiniteSets

CONSTANTS
  VariantCount,    \* variants of the batch, numbered from 0 as its create does
  MaxConcurrency,  \* slots of the batch
  Controllers      \* requests that control the batch or one of its jobs

ASSUME BatchAssumption ==
  /\ VariantCount \in Nat \ {0}
  /\ MaxConcurrency \in 1..VariantCount

Variants == 0 .. VariantCount - 1

VARIABLES
  batch,         \* whether the batch exists
  variant,       \* the rows of batch_video_variants
  prepareJob,    \* the rows of execution_jobs that prepare the variants
  prepare,       \* the handler at work on each variant
  control        \* what each control loaded and is about to flush

batchVars == <<batch, variant, prepareJob, prepare, control>>

VariantStatuses == {"WAITING", "READY_FOR_SCRIPT", "PAUSED", "CANCELLED"}
PrepareStatuses == {"QUEUED", "PAUSED", "RUNNING", "SUCCEEDED", "FAILED", "CANCELLED"}

\* result: result_entity_type and result_entity_id are set.
VariantRow == [status : VariantStatuses, result : BOOLEAN]
\* leased: lease_owner_digest and lease_expires_at are set.
PrepareRow == [status : PrepareStatuses, leased : BOOLEAN, result : BOOLEAN,
               attempts : 0..1]
Actions == {"pause", "resume", "cancel"}
Ended == {"SUCCEEDED", "FAILED", "CANCELLED"}

\* jobs, variants: the rows that the control is going to write, as it decided when it
\* loaded them; ended: those of the jobs that had ended by then.
Control == [action : Actions, jobs : SUBSET Variants, variants : SUBSET Variants,
            ended : SUBSET Variants]
NoControl == [action |-> "pause", jobs |-> {}, variants |-> {}, ended |-> {}]
NewVariant == [status |-> "WAITING", result |-> FALSE]
NewJob == [status |-> "QUEUED", leased |-> FALSE, result |-> FALSE, attempts |-> 0]

BatchTypeOK ==
  /\ batch \in {"none", "created"}
  /\ variant \in [Variants -> VariantRow]
  /\ prepareJob \in [Variants -> PrepareRow]
  /\ prepare \in [Variants -> {"none", "load", "write", "succeeded", "failed"}]
  /\ control \in [Controllers -> Control]

BatchInit ==
  /\ batch = "none"
  /\ variant = [v \in Variants |-> NewVariant]
  /\ prepareJob = [v \in Variants |-> NewJob]
  /\ prepare = [v \in Variants |-> "none"]
  /\ control = [c \in Controllers |-> NoControl]

-----------------------------------------------------------------------------
(* The constraints of the tables *)

\* Mutant: no constraint ties the lease of a job to its status.
JobAllowedLeased(row) == row.result => row.status = "SUCCEEDED"
JobAllowed(row) ==
  /\ row.leased <=> row.status = "RUNNING"
  /\ row.result => row.status = "SUCCEEDED"

VariantAllowed(row) == row.result => row.status = "READY_FOR_SCRIPT"

-----------------------------------------------------------------------------
(* create: the batch, its variants and their jobs in one transaction.  A     *)
(* request that finds the batch, by its key or its digest, before or after  *)
(* the unique constraints refused its own, changes nothing.                 *)

CreateBatch ==
  /\ batch = "none"
  /\ batch' = "created"
  /\ UNCHANGED <<variant, prepareJob, prepare, control>>

Slot(v) == v % MaxConcurrency

-----------------------------------------------------------------------------
(* What is shown of a batch *)

\* Mutant: a job at work has prepared its variant.
ShownEarly(v) ==
  CASE prepareJob[v].status = "QUEUED" -> "WAITING"
    [] prepareJob[v].status \in {"RUNNING", "SUCCEEDED"} -> "READY_FOR_SCRIPT"
    [] OTHER -> prepareJob[v].status
VariantStatus(v) ==
  CASE prepareJob[v].status = "QUEUED"    -> "WAITING"
    [] prepareJob[v].status = "SUCCEEDED" -> "READY_FOR_SCRIPT"
    [] OTHER                              -> prepareJob[v].status

AggregateStatus ==
  LET shown == {VariantStatus(v) : v \in Variants}
  IN IF \E s \in {"WAITING", "READY_FOR_SCRIPT", "FAILED", "CANCELLED"} : shown = {s}
     THEN CHOOSE s \in shown : TRUE
     ELSE CASE "RUNNING" \in shown -> "RUNNING"
            [] shown \cap {"RUNNING", "FAILED"} = {"FAILED"} -> "PARTIAL_FAILED"
            [] shown \subseteq {"READY_FOR_SCRIPT", "CANCELLED"} -> "MIXED_TERMINAL"
            [] shown \cap {"RUNNING", "FAILED", "PAUSED"} = {"PAUSED"} -> "PAUSED"
            [] OTHER -> "RUNNING"

-----------------------------------------------------------------------------
(* pause, resume, cancel *)

\* Mutant: a cancel takes every job that is not at work.
ActsOnIdle(action) ==
  CASE action = "pause"  -> {"QUEUED"}
    [] action = "resume" -> {"PAUSED"}
    [] action = "cancel" -> {"QUEUED", "PAUSED", "FAILED"}
\* The jobs an action is for; the others are passed over.
ActsOn(action) ==
  CASE action = "pause"  -> {"QUEUED"}
    [] action = "resume" -> {"PAUSED"}
    [] action = "cancel" -> {"QUEUED", "PAUSED"}
JobBecomes(action) ==
  CASE action = "pause"  -> "PAUSED"
    [] action = "resume" -> "QUEUED"
    [] action = "cancel" -> "CANCELLED"
VariantBecomes(action) ==
  IF action = "resume" THEN "WAITING" ELSE JobBecomes(action)

\* A status equal to the loaded one is not going to be written.
Loads(c, action, scope, withVariants) ==
  LET jobs == {v \in scope : prepareJob[v].status \in ActsOn(action)}
  IN /\ batch = "created"
     /\ control[c] = NoControl
     /\ jobs # {}
     /\ control' = [control EXCEPT ![c] =
          [action |-> action, jobs |-> jobs,
           variants |-> {v \in jobs : withVariants
                                      /\ variant[v].status # VariantBecomes(action)},
           ended |-> {v \in jobs : prepareJob[v].status \in Ended}]]
     /\ UNCHANGED <<batch, variant, prepareJob, prepare>>

LoadBatch(c, action) == Loads(c, action, Variants, TRUE)

\* The routes of the queue control one job, and leave its variant alone.
LoadJob(c, action, v) == Loads(c, action, {v}, FALSE)

FlushedJob(c, v) ==
  IF v \in control[c].jobs
  THEN [prepareJob[v] EXCEPT !.status = JobBecomes(control[c].action)]
  ELSE prepareJob[v]
FlushedVariant(c, v) ==
  IF v \in control[c].variants
  THEN [variant[v] EXCEPT !.status = VariantBecomes(control[c].action)]
  ELSE variant[v]

FlushControl(c) ==
  /\ control[c] # NoControl
  /\ \A v \in Variants : JobAllowed(FlushedJob(c, v)) /\ VariantAllowed(FlushedVariant(c, v))
  /\ prepareJob' = [v \in Variants |-> FlushedJob(c, v)]
  /\ variant' = [v \in Variants |-> FlushedVariant(c, v)]
  /\ control' = [control EXCEPT ![c] = NoControl]
  /\ UNCHANGED <<batch, prepare>>

\* A constraint refuses the flush, or the process of the request dies.
RollBackControl(c) ==
  /\ control[c] # NoControl
  /\ control' = [control EXCEPT ![c] = NoControl]
  /\ UNCHANGED <<batch, variant, prepareJob, prepare>>

-----------------------------------------------------------------------------
(* The queue and the worker *)

ClaimPrepare(v) ==
  /\ batch = "created"
  /\ prepareJob[v].status = "QUEUED"
  /\ prepareJob[v].attempts = 0
  /\ \A u \in Variants : Slot(u) = Slot(v) => prepareJob[u].status # "RUNNING"
  /\ prepareJob' = [prepareJob EXCEPT ![v] =
                     [@ EXCEPT !.status = "RUNNING", !.leased = TRUE, !.attempts = 1]]
  /\ prepare' = [prepare EXCEPT ![v] = "load"]
  /\ UNCHANGED <<batch, variant, control>>

Ends(v, status) ==
  prepareJob' = [prepareJob EXCEPT ![v] =
    [@ EXCEPT !.status = status, !.leased = FALSE, !.result = (status = "SUCCEEDED")]]

\* The only attempt of a job is over.
PrepareLeaseEnds(v) ==
  /\ prepareJob[v].status = "RUNNING"
  /\ Ends(v, "FAILED")
  /\ UNCHANGED <<batch, variant, prepare, control>>

\* The frozen source of a variant is made of its own columns and of a brand kit
\* version, none of which changes: it is found as it was frozen.
LoadVariant(v) ==
  /\ prepare[v] = "load"
  /\ prepare' = [prepare EXCEPT ![v] = "write"]
  /\ UNCHANGED <<batch, variant, prepareJob, control>>

\* Mutant: the job is reported before the variant is stored.
ReadyUnwritten(v) == variant
Ready(v) == [variant EXCEPT ![v] = [status |-> "READY_FOR_SCRIPT", result |-> TRUE]]

PrepareVariant(v) ==
  /\ prepare[v] = "write"
  /\ \/ variant' = Ready(v) /\ prepare' = [prepare EXCEPT ![v] = "succeeded"]
     \/ variant' = variant  /\ prepare' = [prepare EXCEPT ![v] = "failed"]
  /\ UNCHANGED <<batch, prepareJob, control>>

\* A worker that lost its lease keeps silent.
ReportPrepared(v) ==
  /\ prepare[v] \in {"succeeded", "failed"}
  /\ IF prepareJob[v].status = "RUNNING"
     THEN Ends(v, IF prepare[v] = "succeeded" THEN "SUCCEEDED" ELSE "FAILED")
     ELSE UNCHANGED prepareJob
  /\ prepare' = [prepare EXCEPT ![v] = "none"]
  /\ UNCHANGED <<batch, variant, control>>

PrepareDies(v) ==
  /\ prepare[v] # "none"
  /\ prepare' = [prepare EXCEPT ![v] = "none"]
  /\ UNCHANGED <<batch, variant, prepareJob, control>>

BatchNext ==
  \/ CreateBatch
  \/ \E c \in Controllers : FlushControl(c) \/ RollBackControl(c)
  \/ \E c \in Controllers, action \in Actions :
       LoadBatch(c, action) \/ \E v \in Variants : LoadJob(c, action, v)
  \/ \E v \in Variants :
       \/ ClaimPrepare(v) \/ PrepareLeaseEnds(v) \/ LoadVariant(v)
       \/ PrepareVariant(v) \/ ReportPrepared(v) \/ PrepareDies(v)

BatchSpec == BatchInit /\ [][BatchNext]_batchVars

-----------------------------------------------------------------------------
(* Properties *)

\* No control takes a job away from the worker that runs it, however late it is
\* flushed: a RUNNING job only ends, and is neither requeued, paused nor cancelled.
RunningJobIsLeftAlone ==
  [][\A v \in Variants :
       prepareJob[v].status = "RUNNING" /\ prepareJob'[v] # prepareJob[v] =>
         prepareJob'[v].status \in {"SUCCEEDED", "FAILED"}]_batchVars

\* An ended job is brought back only by a control that loaded it before it ended
\* (two controls that cross may undo a cancel), and a SUCCEEDED one by nothing.
EndsAreKept ==
  [][\A v \in Variants :
       prepareJob[v].status \in Ended /\ prepareJob'[v] # prepareJob[v] =>
         /\ prepareJob[v].status # "SUCCEEDED"
         /\ \E c \in Controllers : /\ control'[c] # control[c]
                                   /\ v \in control[c].jobs \ control[c].ended]_batchVars

\* A batch is shown READY_FOR_SCRIPT only when a script may be made for each of its
\* variants: the variant is stored before its job is reported, and no late control
\* takes it back.  (FAILED may be shown for a variant that is ready.)
ShownReadyIsReady ==
  /\ \A v \in Variants : VariantStatus(v) = "READY_FOR_SCRIPT" =>
       variant[v].status = "READY_FOR_SCRIPT"
  /\ batch = "created" /\ AggregateStatus = "READY_FOR_SCRIPT" =>
       \A v \in Variants : variant[v].result
=============================================================================
