-------------------------- MODULE ExecutionWorker --------------------------
(***************************************************************************)
(* Worker processes (ExecutionWorker, the loop of cli/execution_worker.py) *)
(* on top of the execution queue.  A worker claims a job, starts a thread  *)
(* that renews the lease, runs the handler of the job, joins the thread    *)
(* and reports the outcome.  Both threads heartbeat, one at a time, each   *)
(* in a session of its own; a worker therefore has one session open at     *)
(* most, and its sessions are named after it.                              *)
(*                                                                         *)
(* The handler is any one that follows the contract of contracts.py: it    *)
(* announces every provider call, submits once unless it was refused, and  *)
(* reports what it knows of the submission.                                *)
(***************************************************************************)
EXTENDS ExecutionQueue, Sequences

CONSTANT Serializable  \* FALSE: sessions interleave, as in the code;
                       \* TRUE: only the executions where they do not

ASSUME WorkerSessionsAssumption == Workers \subseteq Sessions
ASSUME AnyTypeAssumption == {} \in ClaimFilters
ASSUME SerializableAssumption == Serializable \in BOOLEAN

Users == Sessions \ Workers

VARIABLES
  main,      \* where the thread that runs run_once is
  beat,      \* where the heartbeat thread is
  ctx,       \* the ExecutionContext of each worker, and the pending result
  stop,      \* the stop event of each worker
  accepted   \* per job, the attempts whose submissions the provider accepted

threads == <<main, beat, ctx>>
wvars == <<vars, threads, stop, accepted>>

MainState == {"idle", "claiming", "handling", "locking", "persisting", "calling",
              "joining", "finalizing", "marking", "closing", "stopped", "dead"}
BeatState == {"off", "waiting", "ready", "writing"}

\* What the handler knows of its submission, and a HandlerResult.
Outcome == {"none", "refused", "answered", "silent"}
Result == [status : {"SUCCEEDED", "FAILED", "SUBMIT_UNKNOWN"},
           state : CertainStates \cup {"NOT_STARTED"}]

Succeeded == [status |-> "SUCCEEDED", state |-> "NOT_STARTED"]
Failed(state) == [status |-> "FAILED", state |-> state]
Unknown == [status |-> "SUBMIT_UNKNOWN", state |-> "NOT_STARTED"]

ContextRow ==
  [job : JobIds \cup {0}, attempt : Nat, calls : 0..MaxCalls,
   external : BOOLEAN, lost : BOOLEAN, seenCalls : 0..MaxCalls,
   seenExternal : BOOLEAN, submits : BOOLEAN, outcome : Outcome,
   result : Result]

\* seenCalls and seenExternal are the provider state the heartbeat thread read;
\* submits tells whether the announced call may submit.
Context(j, n) ==
  [job |-> j, attempt |-> n, calls |-> 0, external |-> FALSE, lost |-> FALSE,
   seenCalls |-> 0, seenExternal |-> FALSE, submits |-> FALSE,
   outcome |-> "none", result |-> Succeeded]
NoContext == Context(0, 0)

Goto(w, state) == main' = [main EXCEPT ![w] = state]
BeatGoto(w, state) == beat' = [beat EXCEPT ![w] = state]
With(w, c) == ctx' = [ctx EXCEPT ![w] = c]
LoseLease(w) == With(w, [ctx[w] EXCEPT !.lost = TRUE])

\* A session may open: the lock of the worker (_heartbeat_lock) is free.
MayOpen(s) == s \notin DOMAIN uow /\ (Serializable => DOMAIN uow = {})

\* The queue refuses a call (409) ...
LeaseRanOut(w) ==
  LET j == ctx[w].job IN jobs[j].owner = w /\ LeaseExpired(j)

Refused(w, calls) ==
  /\ ~LeaseRanOut(w)
  /\ OwnedRunning(ctx[w].job, w) => calls < Latest(ctx[w].job).calls
  /\ LoseLease(w)
  /\ UNCHANGED vars

\* ... and an owner whose lease has run out first recovers: the session left
\* open here is closed by RecoveryEnds, which raises the refusal.
RefusedLate(w) == LeaseRanOut(w) /\ Recover(w) /\ UNCHANGED ctx

(***************************************************************************)
(* The main thread: run_once and the handler.                              *)
(***************************************************************************)
RunOnce(w) ==
  /\ main[w] = "idle"
  /\ stop[w] \/ MayOpen(w)
  /\ \/ stop[w] /\ Goto(w, "stopped") /\ UNCHANGED vars
     \/ ~stop[w] /\ Goto(w, "claiming") /\ Claim(w, w, {})
  /\ UNCHANGED <<beat, ctx, stop, accepted>>

Claimed(w) ==
  /\ main[w] = "claiming"
  /\ Commit(w)
  /\ \/ /\ Candidates(uow[w]) = {}
        /\ Goto(w, "idle")
        /\ UNCHANGED <<beat, ctx>>
     \/ \E j \in Candidates(uow[w]) :
          /\ Goto(w, "handling")
          /\ BeatGoto(w, "waiting")
          /\ With(w, Context(j, jobs[j].count + 1))
  /\ UNCHANGED <<stop, accepted>>

\* Mutant: a stopped handler is taken for one that submitted nothing.
InterruptedAsCertain(c) == Failed("NOT_SUBMITTED")
\* How _execute_claimed ends a handler that was stopped or raised.
Interrupted(c) == IF c.external THEN Unknown ELSE Failed("NOT_STARTED")

\* context.checkpoint: raise, or go on at state with context c.
Checkpoint(w, c, state) ==
  IF c.lost \/ stop[w]
  THEN Goto(w, "joining") /\ With(w, [c EXCEPT !.result = Interrupted(c)])
  ELSE Goto(w, state) /\ With(w, c)

\* before_provider_call: the count and the boundary, then their heartbeat.
Announce(w, submits) ==
  /\ main[w] = "handling"
  /\ ctx[w].calls < MaxCalls
  /\ submits => ctx[w].outcome \in {"none", "refused"}
  /\ Checkpoint(w, IF ctx[w].lost \/ stop[w] THEN ctx[w]
                   ELSE [ctx[w] EXCEPT !.calls = @ + 1, !.submits = submits,
                                       !.external = @ \/ submits],
                "locking")
  /\ UNCHANGED <<vars, beat, stop, accepted>>

\* before_irreversible_local_persist: the boundary without a provider call.
AnnouncePersist(w) ==
  /\ main[w] = "handling"
  /\ Checkpoint(w, IF ctx[w].lost \/ stop[w] THEN ctx[w]
                   ELSE [ctx[w] EXCEPT !.submits = FALSE, !.external = TRUE],
                "locking")
  /\ UNCHANGED <<vars, beat, stop, accepted>>

\* Mutant: the provider is called without waiting for the heartbeat.
BoundaryAssumed(w) ==
  /\ main[w] = "locking"
  /\ Goto(w, "calling")
  /\ UNCHANGED <<vars, beat, ctx, stop, accepted>>

PersistBoundary(w) ==
  /\ main[w] = "locking"
  /\ MayOpen(w)
  /\ \/ /\ Heartbeat(w, ctx[w].job, w, ctx[w].calls, ctx[w].external)
        /\ Goto(w, "persisting")
        /\ UNCHANGED ctx
     \/ /\ Refused(w, ctx[w].calls) \/ RefusedLate(w)
        /\ Goto(w, "joining")
  /\ UNCHANGED <<beat, stop, accepted>>

BoundaryPersisted(w) ==
  /\ main[w] = "persisting"
  /\ \/ Commit(w) /\ Checkpoint(w, ctx[w], "calling")
     \/ Rollback(w) /\ Goto(w, "joining") /\ LoseLease(w)
  /\ UNCHANGED <<beat, stop, accepted>>

\* The provider answers, refuses, or stays silent whether it accepted or not.
Call(w, outcome, accepts) ==
  /\ main[w] = "calling"
  /\ IF ctx[w].submits
     THEN /\ outcome = "answered" => accepts
          /\ outcome = "refused" => ~accepts
          /\ outcome # "none"
          /\ With(w, [ctx[w] EXCEPT !.outcome = outcome])
          /\ accepted' = IF accepts
                         THEN [accepted EXCEPT ![ctx[w].job] = Append(@, ctx[w].attempt)]
                         ELSE accepted
     ELSE outcome = "none" /\ ~accepts /\ UNCHANGED <<ctx, accepted>>
  /\ Goto(w, "handling")
  /\ UNCHANGED <<vars, beat, stop>>

HandlerResults(c) ==
  CASE c.outcome = "none" ->
         {Succeeded, Failed("NOT_STARTED"), Failed("NOT_SUBMITTED"), Unknown}
    [] c.outcome = "refused" -> {Failed("EXPLICIT_FAILURE")}
    [] c.outcome = "answered" -> {Succeeded, Failed("RESPONSE_RECEIVED"), Unknown}
    [] c.outcome = "silent" -> {Unknown}

\* The handler returns, and its result counts unless the last checkpoint
\* raises; or the handler raises.
Return(w) ==
  /\ main[w] = "handling"
  /\ \/ \E result \in HandlerResults(ctx[w]) :
          Checkpoint(w, [ctx[w] EXCEPT !.result = result], "joining")
     \/ /\ Goto(w, "joining")
        /\ With(w, [ctx[w] EXCEPT !.result = Interrupted(ctx[w])])
  /\ UNCHANGED <<vars, beat, stop, accepted>>

Join(w) ==
  /\ main[w] = "joining"
  /\ beat[w] = "off"
  /\ w \notin DOMAIN uow
  /\ IF ctx[w].lost THEN Goto(w, "idle") /\ With(w, NoContext)
                    ELSE Goto(w, "finalizing") /\ UNCHANGED ctx
  /\ UNCHANGED <<vars, beat, stop, accepted>>

(***************************************************************************)
(* _finalize: an unknown outcome nobody announced is announced first.      *)
(***************************************************************************)
\* Mutant: the worker writes its success without asking the queue.
ReportUnasked(w) ==
  BeginWrite(w, ctx[w].job,
    RowWrite(ctx[w].job,
      [Released(jobs[ctx[w].job]) EXCEPT !.status = "SUCCEEDED"]))

Report(w) ==
  LET c == ctx[w]
  IN CASE c.result.status = "SUCCEEDED" ->
            \E operation, entity \in BOOLEAN :
              Complete(w, c.job, w, c.calls, operation, entity)
       [] \/ c.result.status = "SUBMIT_UNKNOWN"
          \/ /\ c.result.status = "FAILED"
             /\ c.external
             /\ c.result.state \notin CertainStates ->
            MarkSubmitUnknown(w, c.job, w, c.calls)
       [] OTHER -> Fail(w, c.job, w, c.calls, c.external, c.result.state)

\* (A failure is never refused for its provider state: the latest attempt is
\* external only if the context is.)
Unsaid(c) == c.result.status = "SUBMIT_UNKNOWN" /\ ~c.external

Finalize(w) ==
  /\ main[w] = "finalizing"
  /\ MayOpen(w)
  /\ \/ /\ Unsaid(ctx[w])
        /\ Heartbeat(w, ctx[w].job, w, ctx[w].calls, TRUE)
        /\ Goto(w, "marking")
        /\ UNCHANGED ctx
     \/ /\ Unsaid(ctx[w])
        /\ RefusedLate(w)
        /\ Goto(w, "joining")
     \/ /\ ~Unsaid(ctx[w])
        /\ Report(w) \/ RefusedLate(w)
        /\ Goto(w, "closing")
        /\ UNCHANGED ctx
     \/ Refused(w, ctx[w].calls) /\ Goto(w, "joining")
  /\ UNCHANGED <<beat, stop, accepted>>

Marked(w) ==
  /\ main[w] = "marking"
  /\ \/ /\ Commit(w)
        /\ Goto(w, "finalizing")
        /\ With(w, [ctx[w] EXCEPT !.external = TRUE])
     \/ /\ Rollback(w)
        /\ Goto(w, "joining")
        /\ LoseLease(w)
  /\ UNCHANGED <<beat, stop, accepted>>

Finalized(w) ==
  /\ main[w] = "closing"
  /\ Commit(w)
  /\ Goto(w, "idle")
  /\ With(w, NoContext)
  /\ UNCHANGED <<beat, stop, accepted>>

\* A constraint rolls the claim, the report or the recovery that precedes its
\* refusal back: the exception leaves run_once and ends the process.
Aborts(w) ==
  /\ main[w] \in {"claiming", "closing"}
  /\ Rollback(w)
  /\ Goto(w, "dead")
  /\ With(w, NoContext)
  /\ UNCHANGED <<beat, stop, accepted>>

(***************************************************************************)
(* The heartbeat thread.                                                   *)
(***************************************************************************)
\* It wakes up and reads the provider state, before it has the lock.
BeatWakes(w) ==
  /\ beat[w] = "waiting"
  /\ main[w] # "joining"
  /\ BeatGoto(w, "ready")
  /\ With(w, [ctx[w] EXCEPT !.seenCalls = ctx[w].calls,
                            !.seenExternal = ctx[w].external])
  /\ UNCHANGED <<vars, main, stop, accepted>>

Beats(w) ==
  /\ beat[w] = "ready"
  /\ MayOpen(w)
  /\ \/ /\ Heartbeat(w, ctx[w].job, w, ctx[w].seenCalls, ctx[w].seenExternal)
        /\ BeatGoto(w, "writing")
        /\ UNCHANGED ctx
     \/ /\ Refused(w, ctx[w].seenCalls) \/ RefusedLate(w)
        /\ BeatGoto(w, "off")
  /\ UNCHANGED <<main, stop, accepted>>

BeatEnds(w) ==
  /\ beat[w] = "writing"
  /\ \/ Commit(w) /\ BeatGoto(w, "waiting") /\ UNCHANGED ctx
     \/ Rollback(w) /\ BeatGoto(w, "off") /\ LoseLease(w)
  /\ UNCHANGED <<main, stop, accepted>>

\* Mutant: the thread ends only when it cannot renew the lease.
BeatStopsWhenLost(w) ==
  /\ beat[w] = "waiting"
  /\ main[w] = "joining" /\ ctx[w].lost
  /\ BeatGoto(w, "off")
  /\ UNCHANGED <<vars, main, ctx, stop, accepted>>

\* heartbeat_stop is set before the main thread joins.
BeatStops(w) ==
  /\ beat[w] = "waiting"
  /\ main[w] = "joining"
  /\ BeatGoto(w, "off")
  /\ UNCHANGED <<vars, main, ctx, stop, accepted>>

\* The recovery that precedes a refusal is committed (or fails): the lease is
\* lost for the thread that asked.
RecoveryEnds(w) ==
  /\ w \in DOMAIN uow
  /\ main[w] \notin {"claiming", "persisting", "marking", "closing"}
  /\ beat[w] # "writing"
  /\ Commit(w) \/ Rollback(w)
  /\ LoseLease(w)
  /\ UNCHANGED <<main, beat, stop, accepted>>

(***************************************************************************)
(* The environment.                                                        *)
(***************************************************************************)
RequestStop(w) ==
  /\ ~stop[w]
  /\ main[w] # "dead"
  /\ stop' = [stop EXCEPT ![w] = TRUE]
  /\ UNCHANGED <<vars, threads, accepted>>

\* The process dies; the one that replaces it has a new identity.
Dies(w) ==
  /\ main[w] \notin {"stopped", "dead"}
  /\ Goto(w, "dead")
  /\ BeatGoto(w, "off")
  /\ With(w, NoContext)
  /\ IF w \in DOMAIN uow THEN Rollback(w) ELSE UNCHANGED vars
  /\ UNCHANGED <<stop, accepted>>

UserActs(s) ==
  /\ \/ s \in DOMAIN uow /\ CloseStep(s)
     \/ MayOpen(s) /\ UserStep(s)
  /\ UNCHANGED <<threads, stop, accepted>>

Elapse ==
  /\ Tick
  /\ UNCHANGED <<threads, stop, accepted>>

-----------------------------------------------------------------------------
WInit ==
  /\ Init
  /\ main = [w \in Workers |-> "idle"]
  /\ beat = [w \in Workers |-> "off"]
  /\ ctx = [w \in Workers |-> NoContext]
  /\ stop = [w \in Workers |-> FALSE]
  /\ accepted = [j \in JobIds |-> <<>>]

MainStep(w) ==
  \/ RunOnce(w) \/ Claimed(w)
  \/ \E submits \in BOOLEAN : Announce(w, submits)
  \/ AnnouncePersist(w)
  \/ PersistBoundary(w) \/ BoundaryPersisted(w)
  \/ \E outcome \in Outcome, accepts \in BOOLEAN : Call(w, outcome, accepts)
  \/ Return(w) \/ Join(w) \/ Finalize(w) \/ Marked(w) \/ Finalized(w)
  \/ RecoveryEnds(w) \/ Aborts(w)

BeatStep(w) == BeatWakes(w) \/ Beats(w) \/ BeatEnds(w) \/ BeatStops(w)

WNext ==
  \/ \E w \in Workers : MainStep(w) \/ BeatStep(w) \/ RequestStop(w) \/ Dies(w)
  \/ \E s \in Users : UserActs(s)
  \/ Elapse

WSpec == WInit /\ [][WNext]_wvars

-----------------------------------------------------------------------------
WTypeOK ==
  /\ main \in [Workers -> MainState]
  /\ beat \in [Workers -> BeatState]
  /\ ctx \in [Workers -> ContextRow]
  /\ stop \in [Workers -> BOOLEAN]
  /\ accepted \in [JobIds -> Seq(Nat)]

\* "Persist the safety boundary before an Adapter makes a Provider call": a
\* worker that may submit has said so in the rows, whoever wrote them since.
Submitting(w, j) == main[w] = "calling" /\ ctx[w].submits /\ ctx[w].job = j
BoundaryFirst ==
  \A w \in Workers : \A j \in JobIds :
    Submitting(w, j) =>
      jobs[j].submitted /\ attempts[j][ctx[w].attempt].external

\* However workers die, are stopped, lose their leases and flush stale rows,
\* the provider accepts no more submissions of a job than it has attempts.
SubmissionsAreBounded ==
  \A j \in DOMAIN jobs : Len(accepted[j]) <= jobs[j].req.max

\* A submission the provider accepted has its response on record, or belongs
\* to the last attempt of a job that is running or in doubt: nothing runs the
\* job again by itself, and nobody takes it for a failure.
AcceptedIsNotForgotten ==
  \A j \in JobIds : \A i \in DOMAIN accepted[j] :
    LET n == accepted[j][i]
    IN \/ attempts[j][n].state = "RESPONSE_RECEIVED"
       \/ /\ n = jobs[j].count
          /\ attempts[j][n].external
          /\ jobs[j].status \in {"RUNNING", "SUBMIT_UNKNOWN"}

\* Two workers never submit the same job at the same time.
OneSubmitter ==
  \A v, w \in Workers : \A j \in JobIds :
    Submitting(v, j) /\ Submitting(w, j) => v = w

\* The queue never refuses a heartbeat of the owner of a live lease.
OwnerIsHeard ==
  \A w \in Workers :
    /\ main[w] = "locking" /\ OwnedRunning(ctx[w].job, w) =>
         ctx[w].calls >= Latest(ctx[w].job).calls
    /\ beat[w] = "ready" /\ OwnedRunning(ctx[w].job, w) =>
         ctx[w].seenCalls >= Latest(ctx[w].job).calls

\* Workers and users only do what the queue offers: whatever holds of the
\* queue under every interleaving holds of the composition.
QueueSpec == Spec

(***************************************************************************)
(* Liveness.  The threads of a live process go on, the handler returns,    *)
(* and neither thread keeps the lock for ever: the heartbeat thread sleeps *)
(* for heartbeat_interval_seconds each time it released it.                *)
(***************************************************************************)
FairWSpec ==
  /\ WSpec
  /\ \A w \in Workers : WF_wvars(MainStep(w)) /\ WF_wvars(BeatStep(w))
  /\ \A w \in Workers : SF_wvars(PersistBoundary(w))

\* "Request cooperative stop; run_once always joins its Heartbeat thread": a
\* worker that was asked to stop does, whatever its threads were doing.
StoppedWorkerEnds ==
  \A w \in Workers : stop[w] ~> main[w] \in {"stopped", "dead"}
=============================================================================
