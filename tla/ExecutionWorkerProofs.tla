------------------------ MODULE ExecutionWorkerProofs ------------------------
(***************************************************************************)
(* Proofs about ExecutionWorker: whatever the threads of the workers, the  *)
(* users, deaths and stops do, the tables only see steps of the queue, so  *)
(* that the theorems of ExecutionQueueProofs hold of the composition.      *)
(*                                                                         *)
(* A step of a thread is one of the queue only if the job it names is in   *)
(* the table and the numbers it reports are in range: the invariant keeps  *)
(* the threads of a worker and its context together.                       *)
(***************************************************************************)
EXTENDS ExecutionWorker, ExecutionQueueProofs, FiniteSetTheorems

Resting == {"idle", "claiming", "stopped", "dead"}
Renewing == {"handling", "locking", "persisting", "calling", "joining"}

\* A worker at work has a job, and its lease is only renewed until the join.
ThreadsMatch ==
  \A w \in Workers :
    /\ main[w] \notin Resting => ctx[w].job \in DOMAIN jobs
    /\ beat[w] # "off" => main[w] \in Renewing

IWInv == IInv /\ WTypeOK /\ ThreadsMatch

-----------------------------------------------------------------------------
(***************************************************************************)
(* Every step is one of the queue.                                         *)
(***************************************************************************)
LEMMA CloseIsQueueStep ==
  ASSUME NEW s, Commit(s) \/ CommitInsert(s) \/ Rollback(s)
  PROVE  Next
<1>1. s \in DOMAIN uow
  BY DEF Commit, CommitInsert, Rollback, Close
<1> QED BY <1>1 DEF CloseStep, Next

LEMMA OpenIsQueueStep ==
  ASSUME NEW s \in Sessions, s \notin DOMAIN uow, UserStep(s) \/ WorkerStep(s)
  PROVE  Next
BY DEF Next

\* What a thread reads from its context is in range.
LEMMA ContextFacts ==
  ASSUME IWInv, NEW w \in Workers
  PROVE  /\ w \in Sessions
         /\ ctx[w] \in ContextRow
         /\ ctx[w].calls \in 0..MaxCalls /\ ctx[w].seenCalls \in 0..MaxCalls
         /\ ctx[w].external \in BOOLEAN /\ ctx[w].seenExternal \in BOOLEAN
         /\ ctx[w].result \in Result
         /\ main[w] \notin Resting => ctx[w].job \in DOMAIN jobs
         /\ beat[w] # "off" => ctx[w].job \in DOMAIN jobs
BY WorkerSessionsAssumption
   DEF IWInv, WTypeOK, ThreadsMatch, ContextRow, Resting, Renewing

LEMMA HeartbeatIsQueueStep ==
  ASSUME NEW w \in Workers, w \in Sessions, w \notin DOMAIN uow,
         NEW j \in DOMAIN jobs, NEW calls \in 0..MaxCalls, NEW external \in BOOLEAN,
         Heartbeat(w, j, w, calls, external)
  PROVE  Next
BY OpenIsQueueStep DEF WorkerStep

LEMMA RefusalIsQueueStep ==
  ASSUME NEW w \in Workers, w \in Sessions, w \notin DOMAIN uow,
         NEW calls, Refused(w, calls) \/ RefusedLate(w)
  PROVE  Next \/ UNCHANGED vars
BY OpenIsQueueStep DEF Refused, RefusedLate, WorkerStep

LEMMA ReportIsQueueStep ==
  ASSUME IWInv, NEW w \in Workers, w \notin DOMAIN uow, main[w] = "finalizing",
         Report(w)
  PROVE  Next
<1> DEFINE c == ctx[w]
<1>1. /\ w \in Sessions /\ c.job \in DOMAIN jobs
      /\ c.calls \in 0..MaxCalls /\ c.external \in BOOLEAN /\ c.result \in Result
  BY ContextFacts DEF Resting
<1>2. ASSUME NEW o \in BOOLEAN, NEW e \in BOOLEAN, Complete(w, c.job, w, c.calls, o, e)
      PROVE  Next
  BY <1>1, <1>2, OpenIsQueueStep DEF WorkerStep
<1>3. CASE MarkSubmitUnknown(w, c.job, w, c.calls)
  BY <1>1, <1>3, OpenIsQueueStep DEF WorkerStep
<1>4. ASSUME Fail(w, c.job, w, c.calls, c.external, c.result.state)
      PROVE  Next
  <2>1. c.result.state \in FailStates
    BY <1>1 DEF Result, FailStates
  <2>2. Fail(w, c.job, w, c.calls, FALSE, c.result.state)
    BY <1>4 DEF Fail
  <2> QED BY <1>1, <2>1, <2>2, OpenIsQueueStep DEF WorkerStep
<1>5. \/ \E o, e \in BOOLEAN : Complete(w, c.job, w, c.calls, o, e)
      \/ MarkSubmitUnknown(w, c.job, w, c.calls)
      \/ Fail(w, c.job, w, c.calls, c.external, c.result.state)
  <2> HIDE DEF c
  <2> QED BY DEF Report, c
<1> QED BY <1>2, <1>3, <1>4, <1>5

LEMMA MainStepIsQueueStep ==
  ASSUME IWInv, NEW w \in Workers, MainStep(w)
  PROVE  Next \/ UNCHANGED vars
<1>1. CASE RunOnce(w)
  BY <1>1, ContextFacts, OpenIsQueueStep, AnyTypeAssumption
     DEF RunOnce, MayOpen, WorkerStep
<1>2. CASE Claimed(w) \/ Marked(w) \/ Finalized(w) \/ RecoveryEnds(w) \/ Aborts(w)
           \/ BoundaryPersisted(w)
  BY <1>2, CloseIsQueueStep
     DEF Claimed, Marked, Finalized, RecoveryEnds, Aborts, BoundaryPersisted
<1>3. CASE \/ \E submits \in BOOLEAN : Announce(w, submits)
           \/ \E outcome \in Outcome, accepts \in BOOLEAN : Call(w, outcome, accepts)
           \/ AnnouncePersist(w) \/ Return(w) \/ Join(w)
  BY <1>3 DEF Announce, AnnouncePersist, Call, Return, Join
<1>4. CASE PersistBoundary(w)
  BY <1>4, ContextFacts, HeartbeatIsQueueStep, RefusalIsQueueStep
     DEF PersistBoundary, MayOpen, Resting
<1>5. CASE Finalize(w)
  <2>1. main[w] = "finalizing" /\ w \notin DOMAIN uow
    BY <1>5 DEF Finalize, MayOpen
  <2>2. \/ Heartbeat(w, ctx[w].job, w, ctx[w].calls, TRUE)
        \/ Report(w)
        \/ Refused(w, ctx[w].calls) \/ RefusedLate(w)
    BY <1>5 DEF Finalize
  <2> QED BY <2>1, <2>2, ContextFacts, HeartbeatIsQueueStep, RefusalIsQueueStep,
             ReportIsQueueStep DEF Resting
<1> QED BY <1>1, <1>2, <1>3, <1>4, <1>5 DEF MainStep

LEMMA BeatStepIsQueueStep ==
  ASSUME IWInv, NEW w \in Workers, BeatStep(w)
  PROVE  Next \/ UNCHANGED vars
<1>1. CASE BeatWakes(w) \/ BeatStops(w)
  BY <1>1 DEF BeatWakes, BeatStops
<1>2. CASE Beats(w)
  BY <1>2, ContextFacts, HeartbeatIsQueueStep, RefusalIsQueueStep DEF Beats, MayOpen
<1>3. CASE BeatEnds(w)
  BY <1>3, CloseIsQueueStep DEF BeatEnds
<1> QED BY <1>1, <1>2, <1>3 DEF BeatStep

LEMMA StepIsQueueStep ==
  ASSUME IWInv, [WNext]_wvars
  PROVE  [Next]_vars
<1>1. ASSUME NEW w \in Workers, RequestStop(w) \/ Dies(w)
      PROVE  Next \/ UNCHANGED vars
  BY <1>1, CloseIsQueueStep DEF RequestStop, Dies
<1>2. ASSUME NEW s \in Users, UserActs(s)
      PROVE  Next
  BY <1>2, CloseIsQueueStep, OpenIsQueueStep DEF UserActs, Users, CloseStep, MayOpen
<1>3. CASE Elapse
  BY <1>3 DEF Elapse, Next
<1>4. CASE UNCHANGED wvars
  BY <1>4 DEF wvars
<1> QED BY <1>1, <1>2, <1>3, <1>4, MainStepIsQueueStep, BeatStepIsQueueStep DEF WNext

-----------------------------------------------------------------------------
(***************************************************************************)
(* The table of jobs only grows.                                           *)
(***************************************************************************)
LEMMA JobsStay ==
  ASSUME [Next]_vars
  PROVE  DOMAIN jobs \subseteq DOMAIN jobs'
<1>1. ASSUME NEW s, Commit(s) \/ CommitInsert(s)
      PROVE  DOMAIN jobs \subseteq DOMAIN jobs'
  BY <1>1 DEF Commit, CommitInsert, FlushedJobs, InsertedJobs
<1> QED BY <1>1, OnlyCommitsWrite

-----------------------------------------------------------------------------
(***************************************************************************)
(* Threads and contexts.                                                   *)
(***************************************************************************)
\* A step of one worker that leaves its threads and its context matching.
LEMMA ThreadStep ==
  ASSUME IWInv, NEW w \in Workers, DOMAIN jobs \subseteq DOMAIN jobs',
         NEW m \in MainState, NEW b \in BeatState, NEW c \in ContextRow,
         Goto(w, m), BeatGoto(w, b), With(w, c),
         stop' \in [Workers -> BOOLEAN], accepted' \in [JobIds -> Seq(Nat)],
         m \notin Resting => c.job \in DOMAIN jobs',
         b # "off" => m \in Renewing
  PROVE  WTypeOK' /\ ThreadsMatch'
<1>1. WTypeOK'
  BY DEF Goto, BeatGoto, With, IWInv, WTypeOK
<1>2. ThreadsMatch'
  BY DEF Goto, BeatGoto, With, IWInv, WTypeOK, ThreadsMatch
<1> QED BY <1>1, <1>2

\* What does not move stays where it is.
LEMMA Unmoved ==
  ASSUME IWInv, NEW w \in Workers
  PROVE  /\ main' = main => Goto(w, main[w])
         /\ beat' = beat => BeatGoto(w, beat[w])
         /\ ctx' = ctx => With(w, ctx[w])
         /\ main[w] \in MainState /\ beat[w] \in BeatState /\ ctx[w] \in ContextRow
         /\ stop \in [Workers -> BOOLEAN] /\ accepted \in [JobIds -> Seq(Nat)]
         /\ main[w] \notin Resting => ctx[w].job \in DOMAIN jobs
         /\ beat[w] # "off" => main[w] \in Renewing
BY DEF Goto, BeatGoto, With, IWInv, WTypeOK, ThreadsMatch

LEMMA NoContextType == NoContext \in ContextRow /\ NoContext.job = 0
BY BoundsAssumption
   DEF NoContext, Context, ContextRow, Outcome, Result, Succeeded, CertainStates

LEMMA ContextType ==
  ASSUME NEW j \in JobIds, NEW n \in Nat
  PROVE  Context(j, n) \in ContextRow /\ Context(j, n).job = j
BY BoundsAssumption
   DEF Context, ContextRow, Outcome, Result, Succeeded, CertainStates

\* The results a handler may leave in its context.
LEMMA ResultTypes ==
  ASSUME NEW c \in ContextRow
  PROVE  /\ Interrupted(c) \in Result
         /\ HandlerResults(c) \subseteq Result
<1>1. c.outcome \in Outcome
  BY DEF ContextRow
<1>2. /\ Succeeded \in Result /\ Unknown \in Result
      /\ \A state \in FailStates : Failed(state) \in Result
  BY DEF Succeeded, Unknown, Failed, Result, FailStates, CertainStates
<1>3. Interrupted(c) \in Result
  BY <1>2 DEF Interrupted, FailStates
<1>4. HandlerResults(c) \subseteq Result
  <2>1. CASE c.outcome = "none"
    BY <1>2, <2>1 DEF HandlerResults, FailStates, CertainStates
  <2>2. CASE c.outcome = "refused"
    BY <1>2, <2>2 DEF HandlerResults, FailStates, CertainStates
  <2>3. CASE c.outcome = "answered"
    BY <1>2, <2>3 DEF HandlerResults, FailStates, CertainStates
  <2>4. CASE c.outcome = "silent"
    BY <1>2, <2>4 DEF HandlerResults
  <2> QED BY <1>1, <2>1, <2>2, <2>3, <2>4 DEF Outcome
<1> QED BY <1>3, <1>4

\* The fields a step assigns keep the context a context.
LEMMA ContextUpdates ==
  ASSUME NEW c \in ContextRow
  PROVE  /\ [c EXCEPT !.lost = TRUE] \in ContextRow
         /\ [c EXCEPT !.external = TRUE] \in ContextRow
         /\ [c EXCEPT !.seenCalls = c.calls, !.seenExternal = c.external]
              \in ContextRow
         /\ \A r \in Result : [c EXCEPT !.result = r] \in ContextRow
         /\ \A o \in Outcome : [c EXCEPT !.outcome = o] \in ContextRow
BY DEF ContextRow

LEMMA UpdatesKeepJob ==
  ASSUME NEW c \in ContextRow
  PROVE  /\ [c EXCEPT !.lost = TRUE].job = c.job
         /\ [c EXCEPT !.external = TRUE].job = c.job
         /\ [c EXCEPT !.seenCalls = c.calls, !.seenExternal = c.external].job = c.job
         /\ \A r : [c EXCEPT !.result = r].job = c.job
         /\ \A o : [c EXCEPT !.outcome = o].job = c.job
BY DEF ContextRow

\* A checkpoint raises, with the result of a handler that was stopped, or
\* goes on.
LEMMA CheckpointKeepsThreads ==
  ASSUME IWInv, NEW w \in Workers, DOMAIN jobs \subseteq DOMAIN jobs',
         NEW c \in ContextRow, NEW state \in Renewing, Checkpoint(w, c, state),
         c.job = ctx[w].job, main[w] \notin Resting, main[w] \in Renewing,
         beat' = beat, stop' = stop, accepted' = accepted
  PROVE  WTypeOK' /\ ThreadsMatch'
<1> DEFINE d == [c EXCEPT !.result = Interrupted(c)]
<1>1. d \in ContextRow /\ d.job = c.job
  BY ResultTypes, ContextUpdates, UpdatesKeepJob
<1>2. state \in MainState /\ "joining" \in MainState /\ "joining" \in Renewing
  BY DEF Renewing, MainState
<1>3. c.job \in DOMAIN jobs'
  BY Unmoved
<1>4. CASE Goto(w, "joining") /\ With(w, d)
  <2> HIDE DEF d
  <2> QED BY <1>1, <1>2, <1>3, <1>4, Unmoved, ThreadStep
<1>5. CASE Goto(w, state) /\ With(w, c)
  BY <1>2, <1>3, <1>5, Unmoved, ThreadStep
<1> QED BY <1>4, <1>5 DEF Checkpoint

\* Losing the lease moves the main thread to the join, or only marks it.
LEMMA LosingKeepsThreads ==
  ASSUME IWInv, NEW w \in Workers, DOMAIN jobs \subseteq DOMAIN jobs',
         ctx' = ctx \/ LoseLease(w),
         NEW m \in MainState, NEW b \in BeatState, Goto(w, m), BeatGoto(w, b),
         stop' = stop, accepted' = accepted,
         m \notin Resting => main[w] \notin Resting,
         b # "off" => m \in Renewing
  PROVE  WTypeOK' /\ ThreadsMatch'
<1>1. [ctx[w] EXCEPT !.lost = TRUE] \in ContextRow
      /\ [ctx[w] EXCEPT !.lost = TRUE].job = ctx[w].job
  BY Unmoved, ContextUpdates, UpdatesKeepJob
<1>2. CASE ctx' = ctx
  BY <1>2, Unmoved, ThreadStep
<1>3. CASE LoseLease(w)
  <2> DEFINE c == [ctx[w] EXCEPT !.lost = TRUE]
  <2>1. With(w, c)
    BY <1>3 DEF LoseLease
  <2> HIDE DEF c
  <2> QED BY <1>1, <2>1, Unmoved, ThreadStep DEF c
<1> QED BY <1>2, <1>3

\* A worker that rests forgets its job.
LEMMA RestingKeepsThreads ==
  ASSUME IWInv, NEW w \in Workers, DOMAIN jobs \subseteq DOMAIN jobs',
         NEW m \in Resting, Goto(w, m), With(w, NoContext),
         (beat' = beat /\ beat[w] = "off") \/ BeatGoto(w, "off"),
         stop' = stop, accepted' = accepted
  PROVE  WTypeOK' /\ ThreadsMatch'
<1>1. m \in MainState /\ "off" \in BeatState
  BY DEF Resting, MainState, BeatState
<1>2. BeatGoto(w, "off")
  BY Unmoved
<1> QED BY <1>1, <1>2, NoContextType, Unmoved, ThreadStep

LEMMA RefusalKeepsContext ==
  ASSUME NEW w, NEW calls, Refused(w, calls) \/ RefusedLate(w)
  PROVE  ctx' = ctx \/ LoseLease(w)
BY DEF Refused, RefusedLate

-----------------------------------------------------------------------------
(***************************************************************************)
(* The steps of the main thread.                                           *)
(***************************************************************************)
LEMMA MainStepKeepsThreads ==
  ASSUME IWInv, NEW w \in Workers, DOMAIN jobs \subseteq DOMAIN jobs', MainStep(w)
  PROVE  WTypeOK' /\ ThreadsMatch'
<1> USE DEF MainState, BeatState, Resting, Renewing
<1>1. CASE RunOnce(w)
  <2>1. main[w] = "idle" /\ beat[w] = "off"
    BY <1>1, Unmoved DEF RunOnce
  <2>2. /\ Goto(w, "stopped") \/ Goto(w, "claiming")
        /\ beat' = beat /\ ctx' = ctx /\ stop' = stop /\ accepted' = accepted
    BY <1>1 DEF RunOnce
  <2> QED BY <2>1, <2>2, Unmoved, ThreadStep
<1>2. CASE Claimed(w)
  <2>1. main[w] = "claiming" /\ beat[w] = "off" /\ stop' = stop /\ accepted' = accepted
    BY <1>2, Unmoved DEF Claimed
  <2>2. CASE Goto(w, "idle") /\ beat' = beat /\ ctx' = ctx
    BY <2>1, <2>2, Unmoved, ThreadStep
  <2>3. ASSUME NEW j \in Candidates(uow[w]), Goto(w, "handling"),
               BeatGoto(w, "waiting"), With(w, Context(j, jobs[j].count + 1))
        PROVE  WTypeOK' /\ ThreadsMatch'
    <3>1. j \in DOMAIN jobs /\ j \in JobIds /\ jobs[j].count + 1 \in Nat
      BY DEF Candidates, IWInv, IInv, TypeOK, JobRow
    <3>2. PICK c : c = Context(j, jobs[j].count + 1)
      OBVIOUS
    <3>3. c \in ContextRow /\ c.job = j
      BY <3>1, <3>2, ContextType
    <3>4. With(w, c)
      BY <2>3, <3>2
    <3>5. c.job \in DOMAIN jobs'
      BY <3>1, <3>3
    <3> QED BY <2>1, <2>3, <3>3, <3>4, <3>5, Unmoved, ThreadStep
  <2> QED BY <1>2, <2>2, <2>3 DEF Claimed
<1>3. ASSUME NEW submits \in BOOLEAN, Announce(w, submits)
      PROVE  WTypeOK' /\ ThreadsMatch'
  <2> DEFINE c == IF ctx[w].lost \/ stop[w] THEN ctx[w]
                  ELSE [ctx[w] EXCEPT !.calls = @ + 1, !.submits = submits,
                                      !.external = @ \/ submits]
  <2>1. c \in ContextRow /\ c.job = ctx[w].job
    <3>1. ctx[w] \in ContextRow /\ ctx[w].calls < MaxCalls
      BY <1>3, Unmoved DEF Announce
    <3>2. ctx[w].calls + 1 \in 0..MaxCalls
      BY <3>1, BoundsAssumption DEF ContextRow
    <3>3. (ctx[w].external \/ submits) \in BOOLEAN
      OBVIOUS
    <3> QED BY <3>1, <3>2, <3>3 DEF ContextRow
  <2>2. Checkpoint(w, c, "locking") /\ main[w] = "handling"
        /\ beat' = beat /\ stop' = stop /\ accepted' = accepted
    BY <1>3 DEF Announce
  <2> HIDE DEF c
  <2> QED BY <2>1, <2>2, CheckpointKeepsThreads
<1>4. CASE PersistBoundary(w)
  <2>1. /\ main[w] = "locking" /\ beat' = beat /\ stop' = stop /\ accepted' = accepted
        /\ Goto(w, "persisting") \/ Goto(w, "joining")
        /\ ctx' = ctx \/ LoseLease(w)
    BY <1>4, RefusalKeepsContext DEF PersistBoundary
  <2> QED BY <2>1, Unmoved, LosingKeepsThreads
<1>5. CASE BoundaryPersisted(w)
  <2>1. main[w] = "persisting" /\ beat' = beat /\ stop' = stop /\ accepted' = accepted
    BY <1>5 DEF BoundaryPersisted
  <2>2. CASE Checkpoint(w, ctx[w], "calling")
    BY <2>1, <2>2, Unmoved, CheckpointKeepsThreads
  <2>3. CASE Goto(w, "joining") /\ LoseLease(w)
    BY <2>1, <2>3, Unmoved, LosingKeepsThreads
  <2> QED BY <1>5, <2>2, <2>3 DEF BoundaryPersisted
<1>6. ASSUME NEW outcome \in Outcome, NEW accepts \in BOOLEAN, Call(w, outcome, accepts)
      PROVE  WTypeOK' /\ ThreadsMatch'
  <2> DEFINE c == [ctx[w] EXCEPT !.outcome = outcome]
  <2>1. c \in ContextRow /\ c.job = ctx[w].job /\ ctx[w] \in ContextRow
    BY Unmoved, ContextUpdates, UpdatesKeepJob
  <2>2. main[w] = "calling" /\ Goto(w, "handling") /\ beat' = beat /\ stop' = stop
    BY <1>6 DEF Call
  <2>3. accepted' \in [JobIds -> Seq(Nat)]
    <3>1. accepted \in [JobIds -> Seq(Nat)] /\ ctx[w].attempt \in Nat
      BY Unmoved DEF ContextRow
    <3>2. \A q \in Seq(Nat) : Append(q, ctx[w].attempt) \in Seq(Nat)
      BY <3>1
    <3>3. \/ accepted' = accepted
          \/ accepted' = [accepted EXCEPT ![ctx[w].job] = Append(@, ctx[w].attempt)]
      BY <1>6 DEF Call
    <3> DEFINE n == ctx[w].attempt
               j == ctx[w].job
    <3>4. CASE accepted' = [accepted EXCEPT ![j] = Append(@, n)]
      <4> HIDE DEF n, j
      <4> QED BY <3>1, <3>2, <3>4 DEF n
    <3> QED BY <3>1, <3>3, <3>4
  <2>4. With(w, c) \/ ctx' = ctx
    BY <1>6 DEF Call
  <2> HIDE DEF c
  <2> QED BY <2>1, <2>2, <2>3, <2>4, Unmoved, ThreadStep
<1>7. CASE Return(w)
  <2>1. main[w] = "handling" /\ beat' = beat /\ stop' = stop /\ accepted' = accepted
    BY <1>7 DEF Return
  <2>2. ASSUME NEW r \in HandlerResults(ctx[w]),
               Checkpoint(w, [ctx[w] EXCEPT !.result = r], "joining")
        PROVE  WTypeOK' /\ ThreadsMatch'
    <3>1. [ctx[w] EXCEPT !.result = r] \in ContextRow
          /\ [ctx[w] EXCEPT !.result = r].job = ctx[w].job
      BY Unmoved, ResultTypes, ContextUpdates, UpdatesKeepJob
    <3> QED BY <2>1, <2>2, <3>1, CheckpointKeepsThreads
  <2>3. ASSUME Goto(w, "joining"),
               With(w, [ctx[w] EXCEPT !.result = Interrupted(ctx[w])])
        PROVE  WTypeOK' /\ ThreadsMatch'
    <3> DEFINE c == [ctx[w] EXCEPT !.result = Interrupted(ctx[w])]
    <3>1. c \in ContextRow /\ c.job = ctx[w].job
      BY Unmoved, ResultTypes, ContextUpdates, UpdatesKeepJob
    <3>2. With(w, c)
      BY <2>3
    <3> HIDE DEF c
    <3> QED BY <3>2, <2>1, <2>3, <3>1, Unmoved, ThreadStep
  <2> QED BY <1>7, <2>2, <2>3 DEF Return
<1>8. CASE Join(w)
  <2>1. /\ main[w] = "joining" /\ beat[w] = "off"
        /\ beat' = beat /\ stop' = stop /\ accepted' = accepted
    BY <1>8 DEF Join
  <2>2. CASE Goto(w, "idle") /\ With(w, NoContext)
    BY <2>1, <2>2, RestingKeepsThreads
  <2>3. CASE Goto(w, "finalizing") /\ ctx' = ctx
    BY <2>1, <2>3, Unmoved, ThreadStep
  <2> QED BY <1>8, <2>2, <2>3 DEF Join
<1>9. CASE Finalize(w)
  <2>1. /\ main[w] = "finalizing" /\ beat[w] = "off"
        /\ beat' = beat /\ stop' = stop /\ accepted' = accepted
        /\ Goto(w, "marking") \/ Goto(w, "closing") \/ Goto(w, "joining")
        /\ ctx' = ctx \/ LoseLease(w)
    BY <1>9, Unmoved, RefusalKeepsContext DEF Finalize
  <2> QED BY <2>1, Unmoved, LosingKeepsThreads
<1>10. CASE Marked(w)
  <2>1. /\ main[w] = "marking" /\ beat[w] = "off"
        /\ beat' = beat /\ stop' = stop /\ accepted' = accepted
    BY <1>10, Unmoved DEF Marked
  <2>2. CASE Goto(w, "finalizing") /\ With(w, [ctx[w] EXCEPT !.external = TRUE])
    <3> DEFINE c == [ctx[w] EXCEPT !.external = TRUE]
    <3>1. c \in ContextRow /\ c.job = ctx[w].job
      BY Unmoved, ContextUpdates, UpdatesKeepJob
    <3>2. With(w, c)
      BY <2>2
    <3> HIDE DEF c
    <3> QED BY <3>2, <2>1, <2>2, <3>1, Unmoved, ThreadStep
  <2>3. CASE Goto(w, "joining") /\ LoseLease(w)
    BY <2>1, <2>3, Unmoved, LosingKeepsThreads
  <2> QED BY <1>10, <2>2, <2>3 DEF Marked
<1>11. CASE Finalized(w) \/ Aborts(w)
  <2>1. /\ main[w] \in {"claiming", "closing"} /\ beat[w] = "off"
        /\ beat' = beat /\ stop' = stop /\ accepted' = accepted
        /\ Goto(w, "idle") \/ Goto(w, "dead")
        /\ With(w, NoContext)
    BY <1>11, Unmoved DEF Finalized, Aborts
  <2> QED BY <2>1, RestingKeepsThreads
<1>12. CASE RecoveryEnds(w)
  <2>1. main' = main /\ beat' = beat /\ stop' = stop /\ accepted' = accepted
        /\ LoseLease(w)
    BY <1>12 DEF RecoveryEnds
  <2> QED BY <2>1, Unmoved, LosingKeepsThreads
<1>13. CASE AnnouncePersist(w)
  <2> DEFINE c == IF ctx[w].lost \/ stop[w] THEN ctx[w]
                  ELSE [ctx[w] EXCEPT !.submits = FALSE, !.external = TRUE]
  <2>1. c \in ContextRow /\ c.job = ctx[w].job
    BY Unmoved DEF ContextRow
  <2>2. Checkpoint(w, c, "locking") /\ main[w] = "handling"
        /\ beat' = beat /\ stop' = stop /\ accepted' = accepted
    BY <1>13 DEF AnnouncePersist
  <2> HIDE DEF c
  <2> QED BY <2>1, <2>2, CheckpointKeepsThreads
<1> QED BY <1>1, <1>2, <1>3, <1>4, <1>5, <1>6, <1>7, <1>8, <1>9, <1>10, <1>11,
           <1>12, <1>13 DEF MainStep

-----------------------------------------------------------------------------
(***************************************************************************)
(* The steps of the heartbeat thread and of the environment.               *)
(***************************************************************************)
LEMMA BeatStepKeepsThreads ==
  ASSUME IWInv, NEW w \in Workers, DOMAIN jobs \subseteq DOMAIN jobs', BeatStep(w)
  PROVE  WTypeOK' /\ ThreadsMatch'
<1> USE DEF MainState, BeatState, Resting, Renewing
<1>1. CASE BeatWakes(w)
  <2> DEFINE c == [ctx[w] EXCEPT !.seenCalls = ctx[w].calls,
                                 !.seenExternal = ctx[w].external]
  <2>1. c \in ContextRow /\ c.job = ctx[w].job
    BY Unmoved, ContextUpdates, UpdatesKeepJob
  <2>2. /\ beat[w] = "waiting" /\ BeatGoto(w, "ready") /\ With(w, c)
        /\ main' = main /\ stop' = stop /\ accepted' = accepted
    BY <1>1 DEF BeatWakes
  <2> HIDE DEF c
  <2> QED BY <2>1, <2>2, Unmoved, ThreadStep
<1>2. CASE Beats(w)
  <2>1. /\ beat[w] = "ready" /\ (BeatGoto(w, "writing") \/ BeatGoto(w, "off"))
        /\ main' = main /\ stop' = stop /\ accepted' = accepted
        /\ ctx' = ctx \/ LoseLease(w)
    BY <1>2, RefusalKeepsContext DEF Beats
  <2> QED BY <2>1, Unmoved, LosingKeepsThreads
<1>3. CASE BeatEnds(w)
  <2>1. /\ beat[w] = "writing" /\ (BeatGoto(w, "waiting") \/ BeatGoto(w, "off"))
        /\ main' = main /\ stop' = stop /\ accepted' = accepted
        /\ ctx' = ctx \/ LoseLease(w)
    BY <1>3 DEF BeatEnds
  <2> QED BY <2>1, Unmoved, LosingKeepsThreads
<1>4. CASE BeatStops(w)
  <2>1. /\ beat[w] = "waiting" /\ BeatGoto(w, "off")
        /\ main' = main /\ ctx' = ctx /\ stop' = stop /\ accepted' = accepted
    BY <1>4 DEF BeatStops
  <2> QED BY <2>1, Unmoved, LosingKeepsThreads
<1> QED BY <1>1, <1>2, <1>3, <1>4 DEF BeatStep

\* Steps that leave every thread alone.
LEMMA OthersKeepThreads ==
  ASSUME IWInv, DOMAIN jobs \subseteq DOMAIN jobs', UNCHANGED <<threads, accepted>>,
         stop' \in [Workers -> BOOLEAN]
  PROVE  WTypeOK' /\ ThreadsMatch'
<1>1. WTypeOK'
  BY DEF IWInv, WTypeOK, threads
<1>2. ThreadsMatch'
  BY DEF IWInv, ThreadsMatch, threads
<1> QED BY <1>1, <1>2

LEMMA EnvironmentKeepsThreads ==
  ASSUME IWInv, DOMAIN jobs \subseteq DOMAIN jobs',
         \/ \E w \in Workers : RequestStop(w) \/ Dies(w)
         \/ \E s \in Users : UserActs(s)
         \/ Elapse
         \/ UNCHANGED wvars
  PROVE  WTypeOK' /\ ThreadsMatch'
<1>1. ASSUME NEW w \in Workers, RequestStop(w)
      PROVE  WTypeOK' /\ ThreadsMatch'
  <2>1. stop' \in [Workers -> BOOLEAN]
    BY <1>1, Unmoved DEF RequestStop
  <2> QED BY <1>1, <2>1, OthersKeepThreads DEF RequestStop
<1>2. ASSUME NEW w \in Workers, Dies(w)
      PROVE  WTypeOK' /\ ThreadsMatch'
  BY <1>2, RestingKeepsThreads DEF Dies, Resting
<1>3. CASE (\E s \in Users : UserActs(s)) \/ Elapse \/ UNCHANGED wvars
  <2>1. UNCHANGED <<threads, accepted>> /\ stop' = stop
    BY <1>3 DEF UserActs, Elapse, wvars
  <2>2. stop' \in [Workers -> BOOLEAN]
    BY <2>1 DEF IWInv, WTypeOK
  <2> QED BY <2>1, <2>2, OthersKeepThreads
<1> QED BY <1>1, <1>2, <1>3

-----------------------------------------------------------------------------
(***************************************************************************)
(* The theorems.                                                           *)
(***************************************************************************)
LEMMA WInitIWInv == WInit => IWInv
<1> SUFFICES ASSUME WInit PROVE IWInv
  OBVIOUS
<1>1. Init /\ IInv
  BY InitIInv DEF WInit
<1>2. WTypeOK
  <2>1. /\ "idle" \in MainState /\ "off" \in BeatState
        /\ <<>> \in Seq(Nat)
    BY DEF MainState, BeatState
  <2> QED BY <2>1, NoContextType DEF WInit, WTypeOK
<1>3. ThreadsMatch
  BY DEF WInit, ThreadsMatch, Resting
<1> QED BY <1>1, <1>2, <1>3 DEF IWInv

LEMMA WNextKeepsIWInv == IWInv /\ [WNext]_wvars => IWInv'
<1> SUFFICES ASSUME IWInv, [WNext]_wvars PROVE IWInv'
  OBVIOUS
<1>1. [Next]_vars
  BY StepIsQueueStep
<1>2. IInv'
  BY <1>1, NextKeepsIInv DEF IWInv
<1>3. DOMAIN jobs \subseteq DOMAIN jobs'
  BY <1>1, JobsStay
<1>4. WTypeOK' /\ ThreadsMatch'
  <2>1. ASSUME NEW w \in Workers, MainStep(w) \/ BeatStep(w)
        PROVE  WTypeOK' /\ ThreadsMatch'
    BY <1>3, <2>1, MainStepKeepsThreads, BeatStepKeepsThreads
  <2> QED BY <1>3, <2>1, EnvironmentKeepsThreads DEF WNext
<1> QED BY <1>2, <1>4 DEF IWInv

\* The inductive invariant of the composition holds in every reachable state.
THEOREM WorkerInvariance == WSpec => []IWInv
BY WInitIWInv, WNextKeepsIWInv, PTL DEF WSpec

\* The threads, contexts and stop events keep their types.
THEOREM WorkerTypeCorrect == WSpec => []WTypeOK
<1>1. IWInv => WTypeOK
  BY DEF IWInv
<1> QED BY <1>1, WorkerInvariance, PTL

\* Workers and users only do to the tables what the queue offers: a thread
\* never reports a job that is not there, nor a count or a state out of range.
THEOREM WorkersUseTheQueue == WSpec => QueueSpec
<1>1. WInit => Init
  BY DEF WInit
<1>2. IWInv /\ [WNext]_wvars => [Next]_vars
  BY StepIsQueueStep
<1> QED BY <1>1, <1>2, WorkerInvariance, PTL DEF WSpec, QueueSpec, Spec

\* So what the queue guarantees holds while workers die, stop and race:
\* attempts are numbered without a gap within the budget of their job ...
THEOREM WorkersKeepTheBudget == WSpec => []AttemptsNumbered
BY WorkersUseTheQueue, AttemptsAreNumbered, PTL DEF QueueSpec

\* ... and a job in doubt is never run again.
THEOREM WorkersRespectDoubt == WSpec => SubmitUnknownIsFinal
BY WorkersUseTheQueue, DoubtIsFinal, PTL DEF QueueSpec

-----------------------------------------------------------------------------
(***************************************************************************)
(* The submission boundary.  A worker calls the provider after the flush   *)
(* of its heartbeat.  Other sessions may have written the rows since they  *)
(* were loaded, and may write them until the call: none takes a boundary   *)
(* back, and the attempt the worker marks is its own, because the owner of *)
(* a job is the worker that claimed its latest attempt.                    *)
(***************************************************************************)
Holding == {"claiming", "persisting", "marking", "closing"}

\* Who waits for the end of a transaction has one, and it is not the other thread's.
Held(w) ==
  /\ main[w] \in Holding => w \in DOMAIN uow
  /\ beat[w] = "writing" => w \in DOMAIN uow /\ main[w] \notin Holding

ClaimersClaim ==
  \A s \in DOMAIN uow : uow[s].claimer # None =>
    s \in Workers /\ uow[s].claimer = s /\ main[s] = "claiming"

\* The attempt of a worker exists, and is the latest one while the job is its own.
Attempting(w) ==
  main[w] \notin Resting =>
    /\ ctx[w].attempt \in DOMAIN attempts[ctx[w].job]
    /\ jobs[ctx[w].job].owner = w => jobs[ctx[w].job].count = ctx[w].attempt

\* The boundary is in the unit of work, and then in the row, before the call.
Bounding(w) ==
  /\ ctx[w].submits => ctx[w].external
  /\ main[w] = "persisting" /\ ctx[w].external =>
       /\ ctx[w].job \in DOMAIN uow[w].writes
       /\ uow[w].writes[ctx[w].job].number = ctx[w].attempt
       /\ uow[w].writes[ctx[w].job].assignedAttempt.external
  /\ main[w] = "calling" /\ ctx[w].submits
       => attempts[ctx[w].job][ctx[w].attempt].external

(***************************************************************************)
(* The number of submissions.  An attempt has one worker, and a worker     *)
(* submits again only when it knows it was refused.                        *)
(***************************************************************************)
Unanswered == {"none", "refused"}

SubmitsOnce(w) ==
  /\ main[w] \in {"locking", "persisting", "calling"} /\ ctx[w].submits
       => ctx[w].outcome \in Unanswered
  /\ main[w] \notin Resting /\ ctx[w].outcome \in Unanswered =>
       \A i \in DOMAIN accepted[ctx[w].job] :
         accepted[ctx[w].job][i] # ctx[w].attempt

OneWorkerPerAttempt ==
  \A v, w \in Workers :
    /\ v # w /\ main[v] \notin Resting /\ main[w] \notin Resting
    /\ ctx[v].job = ctx[w].job
    => ctx[v].attempt # ctx[w].attempt

AcceptedOnce ==
  \A j \in JobIds : \A i \in DOMAIN accepted[j] :
    /\ j \in DOMAIN jobs /\ accepted[j][i] \in DOMAIN attempts[j]
    /\ \A k \in DOMAIN accepted[j] : k # i => accepted[j][k] # accepted[j][i]

WorkerTells(w) == Held(w) /\ Attempting(w) /\ Bounding(w) /\ SubmitsOnce(w)

BInv ==
  /\ ClaimersClaim
  /\ OneWorkerPerAttempt
  /\ AcceptedOnce
  /\ \A w \in Workers : WorkerTells(w)

WInv == IWInv /\ DInv /\ BInv

-----------------------------------------------------------------------------
(***************************************************************************)
(* What the session of one worker or user may do to what the others rely   *)
(* on.                                                                     *)
(***************************************************************************)
Calm(s) ==
  /\ \A j \in DOMAIN jobs :
       /\ j \in DOMAIN jobs'
       /\ DOMAIN attempts[j] \subseteq DOMAIN attempts'[j]
       /\ \A n \in DOMAIN attempts[j] :
            attempts[j][n].external => attempts'[j][n].external
       /\ \A v \in Workers : main[v] \notin Resting /\ jobs'[j].owner = v =>
            jobs[j].owner = v /\ jobs'[j].count = jobs[j].count
  /\ \A v \in Workers \ {s} : v \in DOMAIN uow =>
       v \in DOMAIN uow' /\ uow'[v] = uow[v]

LEMMA UnwrittenIsCalm ==
  ASSUME NEW s, jobs' = jobs, attempts' = attempts,
         \A v \in Workers \ {s} : v \in DOMAIN uow =>
           v \in DOMAIN uow' /\ uow'[v] = uow[v]
  PROVE  Calm(s)
BY DEF Calm

LEMMA BeginIsCalm ==
  ASSUME NEW s, NEW writes, NEW insert, NEW claimer, NEW types,
         Begin(s, writes, insert, claimer, types)
  PROVE  Calm(s)
BY UnwrittenIsCalm DEF Begin, tables

LEMMA RollbackIsCalm ==
  ASSUME NEW s, Rollback(s)
  PROVE  Calm(s)
BY UnwrittenIsCalm DEF Rollback, Close, tables

\* Only a claim gives a job an owner.
LEMMA CommittedOwner ==
  ASSUME IInv, DInv, NEW s \in DOMAIN uow, Commit(s), NEW j \in DOMAIN jobs,
         NEW v \in Workers, jobs'[j].owner = v, uow[s].claimer # v
  PROVE  jobs[j].owner = v /\ jobs'[j].count = jobs[j].count
<1>1. v # None
  BY NoneAssumption
<1>2. j \notin Candidates(uow[s])
  BY CommittedJob
<1>3. CASE j \in DOMAIN uow[s].writes
  <2> DEFINE w == uow[s].writes[j]
  <2>1. /\ jobs'[j] = FlushJob(jobs[j], w.loaded, w.assigned)
        /\ jobs[j] \in JobRow /\ jobs'[j].count = jobs[j].count
    BY <1>2, <1>3, CommittedJob DEF IInv, TypeOK
  <2>2. jobs'[j].owner = Net(jobs[j].owner, w.loaded.owner, w.assigned.owner)
    BY <2>1, FlushJobFields
  <2>3. Tells(j, w)
    BY <1>3, PendingFacts
  <2> HIDE DEF w
  <2>4. jobs[j].owner = v
    BY <1>1, <2>2, <2>3 DEF Net, Tells
  <2> QED BY <2>1, <2>4
<1>4. CASE j \notin DOMAIN uow[s].writes
  BY <1>2, <1>4, CommittedJob
<1> QED BY <1>3, <1>4

LEMMA CommitIsCalm ==
  ASSUME WInv, NEW s, Commit(s)
  PROVE  Calm(s)
<1>1. s \in DOMAIN uow /\ IInv /\ DInv /\ ClaimersClaim
  BY DEF Commit, Close, WInv, IWInv, BInv
<1>2. \A v \in Workers \ {s} : v \in DOMAIN uow => v \in DOMAIN uow' /\ uow'[v] = uow[v]
  BY DEF Commit, Close
<1>3. ASSUME NEW j \in DOMAIN jobs
      PROVE  /\ j \in DOMAIN jobs'
             /\ DOMAIN attempts[j] \subseteq DOMAIN attempts'[j]
             /\ \A n \in DOMAIN attempts[j] :
                  attempts[j][n].external => attempts'[j][n].external
  <2>1. jobs[j].count \in Nat /\ jobs'[j].count \in {jobs[j].count, jobs[j].count + 1}
    BY <1>1, CommittedJob DEF IInv, TypeOK, JobRow
  <2>2. DOMAIN attempts[j] = 1..jobs[j].count /\ DOMAIN attempts'[j] = 1..jobs'[j].count
    BY <1>1, CommittedAttempts
  <2>3. DOMAIN attempts[j] \subseteq DOMAIN attempts'[j]
    BY <2>1, <2>2
  <2>4. j \in DOMAIN jobs'
    BY <1>1, CommittedJob
  <2> QED BY <1>1, <2>3, <2>4, ExternalStays
<1>4. ASSUME NEW j \in DOMAIN jobs, NEW v \in Workers, main[v] \notin Resting,
             jobs'[j].owner = v
      PROVE  jobs[j].owner = v /\ jobs'[j].count = jobs[j].count
  <2>1. uow[s].claimer # v
    BY <1>1, <1>4, NoneAssumption DEF ClaimersClaim, Resting
  <2> QED BY <1>1, <1>4, <2>1, CommittedOwner
<1> QED BY <1>2, <1>3, <1>4 DEF Calm

LEMMA CommitInsertIsCalm ==
  ASSUME WInv, NEW s, CommitInsert(s)
  PROVE  Calm(s)
<1> PICK n \in JobIds \ DOMAIN jobs :
      /\ jobs' = InsertedJobs(n, uow[s].insert)
      /\ attempts' = [j \in DOMAIN attempts \cup {n} |->
                        IF j = n THEN <<>> ELSE attempts[j]]
      /\ Close(s)
  BY DEF CommitInsert
<1>1. \A j \in DOMAIN jobs :
        j \in DOMAIN jobs' /\ jobs'[j] = jobs[j] /\ attempts'[j] = attempts[j]
  BY DEF InsertedJobs, WInv, IWInv, IInv, TypeOK
<1>2. \A v \in Workers \ {s} : v \in DOMAIN uow => v \in DOMAIN uow' /\ uow'[v] = uow[v]
  BY DEF Close
<1> QED BY <1>1, <1>2 DEF Calm

\* No other session changes, and the worker's own does not claim.
Quiet(w) ==
  /\ \A t \in DOMAIN uow' : t # w => t \in DOMAIN uow /\ uow'[t] = uow[t]
  /\ w \in DOMAIN uow' => uow'[w].claimer = None

LEMMA UnchangedSession ==
  ASSUME WInv, NEW w \in Workers, UNCHANGED vars, main[w] # "claiming"
  PROVE  Calm(w) /\ Quiet(w) /\ uow' = uow
<1>1. jobs' = jobs /\ attempts' = attempts /\ uow' = uow
  BY DEF vars
<1>2. w \in DOMAIN uow => uow[w].claimer = None
  BY DEF WInv, BInv, ClaimersClaim
<1> QED BY <1>1, <1>2, UnwrittenIsCalm DEF Quiet

LEMMA OpenedSession ==
  ASSUME NEW w, NEW writes, NEW insert, NEW types,
         Begin(w, writes, insert, None, types)
  PROVE  /\ Calm(w) /\ Quiet(w) /\ w \in DOMAIN uow' /\ w \notin DOMAIN uow
         /\ uow'[w].writes = writes
<1>1. w \in DOMAIN uow' /\ uow'[w].claimer = None /\ uow'[w].writes = writes
  BY DEF Begin
<1>2. \A t \in DOMAIN uow' : t # w => t \in DOMAIN uow /\ uow'[t] = uow[t]
  BY DEF Begin
<1> QED BY <1>1, <1>2, BeginIsCalm DEF Quiet, Begin

LEMMA ClosedSession ==
  ASSUME WInv, NEW w, Commit(w) \/ Rollback(w)
  PROVE  Calm(w) /\ Quiet(w) /\ w \notin DOMAIN uow'
<1>1. Close(w)
  BY DEF Commit, Rollback
<1> QED BY <1>1, CommitIsCalm, RollbackIsCalm DEF Close, Quiet

\* A refusal changes nothing, or leaves a recovery open.
LEMMA RefusedSession ==
  ASSUME WInv, NEW w \in Workers, main[w] # "claiming", w \notin DOMAIN uow,
         NEW calls, Refused(w, calls) \/ RefusedLate(w)
  PROVE  Calm(w) /\ Quiet(w)
<1>1. CASE Refused(w, calls)
  BY <1>1, UnchangedSession DEF Refused
<1>2. CASE RefusedLate(w)
  BY <1>2, OpenedSession DEF RefusedLate, Recover, BeginWrites
<1> QED BY <1>1, <1>2

LEMMA HeartbeatSession ==
  ASSUME IInv, NEW w, NEW j \in DOMAIN jobs, NEW v, NEW calls, NEW external,
         Heartbeat(w, j, v, calls, external)
  PROVE  /\ Calm(w) /\ Quiet(w) /\ w \in DOMAIN uow' /\ w \notin DOMAIN uow
         /\ OwnedRunning(j, v)
         /\ j \in DOMAIN uow'[w].writes
         /\ uow'[w].writes[j].number = LatestNumber(j)
         /\ external => uow'[w].writes[j].assignedAttempt.external
<1> DEFINE attempt == [Latest(j) EXCEPT !.calls = calls]
           leased == [jobs[j] EXCEPT !.expires = clock + LeaseTicks]
           a == IF external THEN [leased EXCEPT !.submitted = TRUE] ELSE leased
           b == IF external
                THEN [attempt EXCEPT !.external = TRUE, !.state = "SUBMIT_UNKNOWN"]
                ELSE attempt
           writes == [i \in {j} |-> PairWrite(j, a, b)]
<1>1. OwnedRunning(j, v) /\ Begin(w, writes, None, None, {})
  BY DEF Heartbeat, BeginWrite, BeginWrites
<1>2. Latest(j) \in AttemptRow
  BY <1>1, OwnedFacts
<1>3. external => b.external
  BY <1>2 DEF AttemptRow
<1>4. writes[j].number = LatestNumber(j) /\ writes[j].assignedAttempt = b
  BY DEF PairWrite
<1>5. j \in DOMAIN writes
  OBVIOUS
<1> HIDE DEF writes, b
<1>6. /\ Calm(w) /\ Quiet(w) /\ w \in DOMAIN uow' /\ w \notin DOMAIN uow
      /\ uow'[w].writes = writes
  BY <1>1, OpenedSession
<1> QED BY <1>1, <1>3, <1>4, <1>5, <1>6

LEMMA ReportSession ==
  ASSUME NEW w, Report(w)
  PROVE  Calm(w) /\ Quiet(w) /\ w \in DOMAIN uow' /\ w \notin DOMAIN uow
<1> DEFINE c == ctx[w]
<1>1. \/ \E o, e \in BOOLEAN : Complete(w, c.job, w, c.calls, o, e)
      \/ MarkSubmitUnknown(w, c.job, w, c.calls)
      \/ Fail(w, c.job, w, c.calls, c.external, c.result.state)
  <2> HIDE DEF c
  <2> QED BY DEF Report, c
<1> HIDE DEF c
<1>2. \E writes : Begin(w, writes, None, None, {})
  BY <1>1 DEF Complete, MarkSubmitUnknown, Fail, BeginWrite, BeginWrites
<1> QED BY <1>2, OpenedSession

-----------------------------------------------------------------------------
(***************************************************************************)
(* A step of one worker and what the others rely on.                       *)
(***************************************************************************)
LEMMA OthersTell ==
  ASSUME WInv, NEW s, Calm(s), NEW v \in Workers, v # s,
         main'[v] = main[v], beat'[v] = beat[v], ctx'[v] = ctx[v],
         accepted' = accepted
  PROVE  WorkerTells(v)'
<1> DEFINE j == ctx[v].job
           n == ctx[v].attempt
<1>1. /\ Held(v) /\ Attempting(v) /\ Bounding(v) /\ SubmitsOnce(v)
      /\ main[v] \notin Resting => j \in DOMAIN jobs /\ n \in DOMAIN attempts[j]
  BY Unmoved DEF WInv, BInv, WorkerTells, Attempting
<1>2. v \in DOMAIN uow => v \in DOMAIN uow' /\ uow'[v] = uow[v]
  BY DEF Calm
<1>3. Held(v)'
  BY <1>1, <1>2 DEF Held
<1>4. Attempting(v)'
  <2> SUFFICES ASSUME main[v] \notin Resting
               PROVE  /\ n \in DOMAIN attempts'[j]
                      /\ jobs'[j].owner = v => jobs'[j].count = n
    BY DEF Attempting
  <2>1. n \in DOMAIN attempts'[j]
    BY <1>1 DEF Calm
  <2>2. jobs'[j].owner = v => jobs[j].owner = v /\ jobs'[j].count = jobs[j].count
    BY <1>1 DEF Calm
  <2> QED BY <1>1, <2>1, <2>2 DEF Attempting
<1>5. Bounding(v)'
  <2>1. main[v] = "persisting" => v \in DOMAIN uow
    BY <1>1 DEF Held, Holding
  <2>2. ASSUME main[v] = "calling", ctx[v].submits
        PROVE  attempts'[j][n].external
    BY <1>1, <2>2 DEF Calm, Bounding, Resting
  <2> QED BY <1>1, <1>2, <2>1, <2>2 DEF Bounding
<1>6. SubmitsOnce(v)'
  BY <1>1 DEF SubmitsOnce
<1> QED BY <1>3, <1>4, <1>5, <1>6 DEF WorkerTells

LEMMA AcceptedStays ==
  ASSUME WInv, NEW s, Calm(s), accepted' = accepted
  PROVE  AcceptedOnce'
BY DEF WInv, BInv, AcceptedOnce, Calm

LEMMA QuietKeepsClaimers ==
  ASSUME WInv, NEW w \in Workers, Quiet(w), NEW m, Goto(w, m)
  PROVE  ClaimersClaim'
<1> SUFFICES ASSUME NEW t \in DOMAIN uow', uow'[t].claimer # None
             PROVE  t \in Workers /\ uow'[t].claimer = t /\ main'[t] = "claiming"
  BY DEF ClaimersClaim
<1>1. t # w /\ t \in DOMAIN uow /\ uow'[t] = uow[t]
  BY DEF Quiet
<1>2. t \in Workers /\ uow[t].claimer = t /\ main[t] = "claiming"
  BY <1>1 DEF WInv, BInv, ClaimersClaim
<1>3. main'[t] = main[t]
  BY <1>1, <1>2 DEF Goto, WInv, IWInv, WTypeOK
<1> QED BY <1>1, <1>2, <1>3

\* A step of a worker that starts no attempt and has no submission accepted.
LEMMA StepTells ==
  ASSUME WInv, NEW w \in Workers, Calm(w), NEW m, NEW b, NEW c,
         Goto(w, m), BeatGoto(w, b), With(w, c), accepted' = accepted,
         ClaimersClaim', WorkerTells(w)',
         m \notin Resting => /\ main[w] \notin Resting
                             /\ c.job = ctx[w].job /\ c.attempt = ctx[w].attempt
  PROVE  BInv'
<1>1. /\ main'[w] = m /\ beat'[w] = b /\ ctx'[w] = c
      /\ \A v \in Workers : v # w =>
           main'[v] = main[v] /\ beat'[v] = beat[v] /\ ctx'[v] = ctx[v]
  BY DEF Goto, BeatGoto, With, WInv, IWInv, WTypeOK
<1>2. \A v \in Workers : WorkerTells(v)'
  BY <1>1, OthersTell
<1>3. OneWorkerPerAttempt'
  <2> SUFFICES ASSUME NEW u \in Workers, NEW v \in Workers, u # v,
                      main'[u] \notin Resting, main'[v] \notin Resting,
                      ctx'[u].job = ctx'[v].job
               PROVE  ctx'[u].attempt # ctx'[v].attempt
    BY DEF OneWorkerPerAttempt
  <2>1. \A x \in {u, v} : /\ main[x] \notin Resting
                          /\ ctx'[x].job = ctx[x].job
                          /\ ctx'[x].attempt = ctx[x].attempt
    BY <1>1
  <2> QED BY <2>1 DEF WInv, BInv, OneWorkerPerAttempt
<1> QED BY <1>2, <1>3, AcceptedStays DEF BInv

\* A worker that rests relies on nothing.
LEMMA RestTells ==
  ASSUME WInv, NEW w \in Workers, NEW m \in Resting, NEW c,
         main'[w] = m, beat'[w] = "off", ctx'[w] = c,
         m = "claiming" => w \in DOMAIN uow',
         c.submits => c.external
  PROVE  WorkerTells(w)'
<1>1. m \notin {"persisting", "marking", "closing", "locking", "calling"}
  BY DEF Resting
<1>2. Held(w)' /\ Attempting(w)' /\ Bounding(w)' /\ SubmitsOnce(w)'
  BY <1>1 DEF Held, Holding, Attempting, Bounding, SubmitsOnce
<1> QED BY <1>2 DEF WorkerTells

\* A worker at work stays on its attempt.
LEMMA WorkTells ==
  ASSUME WInv, NEW w \in Workers, Calm(w), NEW m, NEW b, NEW c,
         main'[w] = m, beat'[w] = b, ctx'[w] = c, accepted' = accepted,
         main[w] \notin Resting, m \notin Resting,
         c.job = ctx[w].job, c.attempt = ctx[w].attempt,
         m \in Holding => w \in DOMAIN uow',
         b = "writing" => w \in DOMAIN uow' /\ m \notin Holding,
         c.submits => c.external,
         m = "persisting" /\ c.external =>
           /\ c.job \in DOMAIN uow'[w].writes
           /\ uow'[w].writes[c.job].number = c.attempt
           /\ uow'[w].writes[c.job].assignedAttempt.external,
         m = "calling" /\ c.submits =>
           \/ attempts'[c.job][c.attempt].external
           \/ main[w] = "calling" /\ ctx[w].submits,
         m \in {"locking", "persisting", "calling"} /\ c.submits =>
           c.outcome \in Unanswered,
         c.outcome \in Unanswered => ctx[w].outcome \in Unanswered
  PROVE  WorkerTells(w)'
<1> DEFINE j == ctx[w].job
           n == ctx[w].attempt
<1>1. /\ Attempting(w) /\ Bounding(w) /\ SubmitsOnce(w)
      /\ j \in DOMAIN jobs /\ n \in DOMAIN attempts[j]
  BY Unmoved DEF WInv, BInv, WorkerTells, Attempting
<1>2. Held(w)'
  BY DEF Held
<1>3. Attempting(w)'
  <2>1. n \in DOMAIN attempts'[j]
    BY <1>1 DEF Calm
  <2>2. jobs'[j].owner = w => jobs[j].owner = w /\ jobs'[j].count = jobs[j].count
    BY <1>1 DEF Calm
  <2>3. jobs'[j].owner = w => jobs'[j].count = n
    BY <1>1, <2>2 DEF Attempting
  <2> QED BY <2>1, <2>3 DEF Attempting
<1>4. Bounding(w)'
  <2>1. ASSUME main[w] = "calling", ctx[w].submits
        PROVE  attempts'[j][n].external
    BY <1>1, <2>1 DEF Calm, Bounding
  <2> QED BY <2>1 DEF Bounding
<1>5. SubmitsOnce(w)'
  BY <1>1 DEF SubmitsOnce
<1> QED BY <1>2, <1>3, <1>4, <1>5 DEF WorkerTells

LEMMA WorkStep ==
  ASSUME WInv, NEW w \in Workers, Calm(w), Quiet(w), NEW m, NEW b, NEW c,
         Goto(w, m), BeatGoto(w, b), With(w, c), accepted' = accepted,
         main[w] \notin Resting, m \notin Resting,
         c.job = ctx[w].job, c.attempt = ctx[w].attempt,
         m \in Holding => w \in DOMAIN uow',
         b = "writing" => w \in DOMAIN uow' /\ m \notin Holding,
         c.submits => c.external,
         m = "persisting" /\ c.external =>
           /\ c.job \in DOMAIN uow'[w].writes
           /\ uow'[w].writes[c.job].number = c.attempt
           /\ uow'[w].writes[c.job].assignedAttempt.external,
         m = "calling" /\ c.submits =>
           \/ attempts'[c.job][c.attempt].external
           \/ main[w] = "calling" /\ ctx[w].submits,
         m \in {"locking", "persisting", "calling"} /\ c.submits =>
           c.outcome \in Unanswered,
         c.outcome \in Unanswered => ctx[w].outcome \in Unanswered
  PROVE  BInv'
<1>1. main'[w] = m /\ beat'[w] = b /\ ctx'[w] = c
  BY DEF Goto, BeatGoto, With, WInv, IWInv, WTypeOK
<1>2. WorkerTells(w)'
  BY <1>1, WorkTells
<1> QED BY <1>2, QuietKeepsClaimers, StepTells

LEMMA RestStep ==
  ASSUME WInv, NEW w \in Workers, Calm(w), NEW m \in Resting, NEW c,
         ClaimersClaim' \/ Quiet(w),
         Goto(w, m), BeatGoto(w, "off"), With(w, c), accepted' = accepted,
         m = "claiming" => w \in DOMAIN uow',
         c.submits => c.external
  PROVE  BInv'
<1>1. main'[w] = m /\ beat'[w] = "off" /\ ctx'[w] = c
  BY DEF Goto, BeatGoto, With, WInv, IWInv, WTypeOK
<1>2. WorkerTells(w)'
  BY <1>1, RestTells
<1> QED BY <1>2, QuietKeepsClaimers, StepTells

\* What a worker knows before its step.
LEMMA WorkerFacts ==
  ASSUME WInv, NEW w \in Workers
  PROVE  /\ IInv /\ DInv /\ IWInv
         /\ ctx[w] \in ContextRow
         /\ main[w] \in Holding => w \in DOMAIN uow
         /\ beat[w] = "writing" => w \in DOMAIN uow /\ main[w] \notin Holding
         /\ beat[w] # "off" => main[w] \in Renewing
         /\ ctx[w].submits => ctx[w].external
         /\ main[w] \in {"locking", "persisting", "calling"} /\ ctx[w].submits
              => ctx[w].outcome \in Unanswered
         /\ main[w] \notin Resting => ctx[w].job \in DOMAIN jobs
BY Unmoved DEF WInv, IWInv, BInv, WorkerTells, Held, Bounding, SubmitsOnce

\* Contexts that differ in nothing the invariant names.
SameBounds(c, d) ==
  /\ c.job = d.job /\ c.attempt = d.attempt /\ c.external = d.external
  /\ c.submits = d.submits /\ c.outcome = d.outcome

LEMMA UpdatesKeepBounds ==
  ASSUME NEW c \in ContextRow
  PROVE  /\ SameBounds(c, c)
         /\ SameBounds([c EXCEPT !.lost = TRUE], c)
         /\ SameBounds([c EXCEPT !.seenCalls = c.calls, !.seenExternal = c.external], c)
         /\ \A r : SameBounds([c EXCEPT !.result = r], c)
BY DEF SameBounds, ContextRow

\* Most steps leave what the context says of the submission, and go on or give up.
LEMMA SameStep ==
  ASSUME WInv, NEW w \in Workers, Calm(w), Quiet(w), NEW m, NEW b, NEW c,
         Goto(w, m), BeatGoto(w, b), With(w, c), accepted' = accepted,
         SameBounds(c, ctx[w]), main[w] \notin Resting, m \notin Resting,
         m \in Holding => w \in DOMAIN uow',
         b = "writing" => w \in DOMAIN uow' /\ m \notin Holding,
         m = "persisting" /\ ctx[w].external =>
           /\ ctx[w].job \in DOMAIN uow'[w].writes
           /\ uow'[w].writes[ctx[w].job].number = ctx[w].attempt
           /\ uow'[w].writes[ctx[w].job].assignedAttempt.external,
         m = "calling" /\ ctx[w].submits =>
           \/ attempts'[ctx[w].job][ctx[w].attempt].external
           \/ main[w] = "calling",
         m \in {"locking", "persisting", "calling"} =>
           main[w] \in {"locking", "persisting", "calling"}
  PROVE  BInv'
<1>1. /\ c.job = ctx[w].job /\ c.attempt = ctx[w].attempt
      /\ c.external = ctx[w].external /\ c.submits = ctx[w].submits
      /\ c.outcome = ctx[w].outcome
  BY DEF SameBounds
<1>2. c.submits => c.external
  BY <1>1, WorkerFacts
<1>3. m \in {"locking", "persisting", "calling"} /\ c.submits => c.outcome \in Unanswered
  BY <1>1, WorkerFacts
<1> QED BY <1>1, <1>2, <1>3, WorkStep

\* The same when the lease is lost or not.
LEMMA LosingStep ==
  ASSUME WInv, NEW w \in Workers, Calm(w), Quiet(w), NEW m, NEW b,
         Goto(w, m), BeatGoto(w, b), ctx' = ctx \/ LoseLease(w), accepted' = accepted,
         main[w] \notin Resting, m \notin Resting,
         m \in Holding => w \in DOMAIN uow',
         b = "writing" => w \in DOMAIN uow' /\ m \notin Holding,
         m = "persisting" /\ ctx[w].external =>
           /\ ctx[w].job \in DOMAIN uow'[w].writes
           /\ uow'[w].writes[ctx[w].job].number = ctx[w].attempt
           /\ uow'[w].writes[ctx[w].job].assignedAttempt.external,
         m = "calling" /\ ctx[w].submits =>
           \/ attempts'[ctx[w].job][ctx[w].attempt].external
           \/ main[w] = "calling",
         m \in {"locking", "persisting", "calling"} =>
           main[w] \in {"locking", "persisting", "calling"}
  PROVE  BInv'
<1> DEFINE c == [ctx[w] EXCEPT !.lost = TRUE]
<1>1. IWInv /\ SameBounds(c, ctx[w]) /\ SameBounds(ctx[w], ctx[w])
  BY WorkerFacts, UpdatesKeepBounds
<1>2. With(w, ctx[w]) \/ With(w, c)
  BY <1>1, Unmoved DEF LoseLease
<1> HIDE DEF c
<1>3. CASE With(w, ctx[w])
  BY <1>1, <1>3, SameStep
<1>4. CASE With(w, c)
  BY <1>1, <1>4, SameStep
<1> QED BY <1>2, <1>3, <1>4

-----------------------------------------------------------------------------
(***************************************************************************)
(* The steps of the main thread.                                           *)
(***************************************************************************)
LEMMA RunOnceKeepsBInv ==
  ASSUME WInv, NEW w \in Workers, RunOnce(w)
  PROVE  BInv'
<1>1. /\ main[w] = "idle" /\ beat[w] = "off"
      /\ BeatGoto(w, "off") /\ With(w, ctx[w]) /\ accepted' = accepted
      /\ ctx[w].submits => ctx[w].external
  BY WorkerFacts, Unmoved DEF RunOnce, Renewing
<1>2. CASE Goto(w, "stopped") /\ UNCHANGED vars
  BY <1>1, <1>2, UnchangedSession, RestStep DEF Resting
<1>3. CASE Goto(w, "claiming") /\ Claim(w, w, {})
  <2>1. Begin(w, RecoverExpiredLeases, None, w, {})
    BY <1>3 DEF Claim
  <2>2. /\ Calm(w) /\ w \in DOMAIN uow' /\ uow'[w].claimer = w
        /\ \A t \in DOMAIN uow' : t # w => t \in DOMAIN uow /\ uow'[t] = uow[t]
    BY <2>1, BeginIsCalm DEF Begin
  <2>3. \A t : main[t] = "claiming" /\ t \in Workers => main'[t] = "claiming"
    BY <1>3 DEF Goto, WInv, IWInv, WTypeOK
  <2>4. main'[w] = "claiming"
    BY <1>3 DEF Goto, WInv, IWInv, WTypeOK
  <2>5. ClaimersClaim'
    BY <2>2, <2>3, <2>4 DEF WInv, BInv, ClaimersClaim
  <2> QED BY <1>1, <1>3, <2>2, <2>5, RestStep DEF Resting
<1> QED BY <1>2, <1>3 DEF RunOnce

LEMMA ClaimedKeepsBInv ==
  ASSUME WInv, NEW w \in Workers, Claimed(w)
  PROVE  BInv'
<1>1. /\ main[w] = "claiming" /\ beat[w] = "off" /\ Commit(w) /\ accepted' = accepted
      /\ ctx[w].submits => ctx[w].external
      /\ IInv /\ DInv /\ w \in DOMAIN uow
  BY WorkerFacts DEF Claimed, Renewing, Holding
<1>2. Calm(w) /\ Quiet(w) /\ w \notin DOMAIN uow'
  BY <1>1, ClosedSession
<1>3. CASE Goto(w, "idle") /\ UNCHANGED <<beat, ctx>>
  <2>1. BeatGoto(w, "off") /\ With(w, ctx[w])
    BY <1>1, <1>3, Unmoved DEF WInv
  <2> QED BY <1>1, <1>2, <1>3, <2>1, RestStep DEF Resting
<1>4. ASSUME NEW j \in Candidates(uow[w]), Goto(w, "handling"), BeatGoto(w, "waiting"),
             With(w, Context(j, jobs[j].count + 1))
      PROVE  BInv'
  <2> DEFINE n == jobs[j].count + 1
  <2>1. j \in DOMAIN jobs /\ j \in JobIds /\ jobs[j].count \in Nat
    BY <1>1 DEF Candidates, IInv, TypeOK, JobRow
  <2>2. /\ main'[w] = "handling" /\ beat'[w] = "waiting"
        /\ ctx'[w].job = j /\ ctx'[w].attempt = n /\ ctx'[w].submits = FALSE
        /\ \A v \in Workers : v # w =>
             main'[v] = main[v] /\ beat'[v] = beat[v] /\ ctx'[v] = ctx[v]
    BY <1>4 DEF Goto, BeatGoto, With, Context, WInv, IWInv, WTypeOK
  <2>3. /\ jobs'[j].count = n
        /\ DOMAIN attempts[j] = 1..jobs[j].count /\ DOMAIN attempts'[j] = 1..n
    BY <1>1, <2>1, CommittedJob, CommittedAttempts
  <2>4. n \in DOMAIN attempts'[j] /\ n \notin DOMAIN attempts[j]
    BY <2>1, <2>3
  <2>5. \A i \in DOMAIN accepted[j] : accepted[j][i] # n
    BY <2>1, <2>4 DEF WInv, BInv, AcceptedOnce
  <2> HIDE DEF n
  <2>6. WorkerTells(w)'
    <3>1. Held(w)' /\ Bounding(w)'
      BY <2>2 DEF Held, Holding, Bounding
    <3>2. Attempting(w)'
      BY <2>2, <2>3, <2>4 DEF Attempting
    <3>3. SubmitsOnce(w)'
      BY <1>1, <2>2, <2>5 DEF SubmitsOnce
    <3> QED BY <3>1, <3>2, <3>3 DEF WorkerTells
  <2>7. \A v \in Workers : WorkerTells(v)'
    BY <1>1, <1>2, <2>2, <2>6, OthersTell
  <2>8. \A v \in Workers : v # w /\ main[v] \notin Resting /\ ctx[v].job = j =>
          ctx[v].attempt # n
    BY <2>4 DEF WInv, BInv, WorkerTells, Attempting
  <2>9. OneWorkerPerAttempt'
    BY <2>2, <2>8 DEF WInv, BInv, OneWorkerPerAttempt
  <2> QED BY <1>1, <1>2, <1>4, <2>7, <2>9, AcceptedStays, QuietKeepsClaimers DEF BInv
<1> QED BY <1>3, <1>4 DEF Claimed

\* A checkpoint raises or goes on with a context the step prepared.
LEMMA CheckpointStep ==
  ASSUME WInv, NEW w \in Workers, Calm(w), Quiet(w), NEW state \in Renewing, NEW c,
         Checkpoint(w, c, state), beat' = beat, accepted' = accepted,
         c \in ContextRow, main[w] \notin Resting, main[w] \in Renewing,
         state \notin Holding,
         beat[w] = "writing" => w \in DOMAIN uow',
         c.job = ctx[w].job, c.attempt = ctx[w].attempt, c.outcome = ctx[w].outcome,
         c.submits => c.external,
         ~c.lost /\ ~stop[w] /\ state \in {"locking", "calling"} /\ c.submits =>
           /\ c.outcome \in Unanswered
           /\ state = "calling" => attempts'[c.job][c.attempt].external
  PROVE  BInv'
<1> DEFINE d == [c EXCEPT !.result = Interrupted(c)]
<1>1. BeatGoto(w, beat[w])
  BY Unmoved DEF WInv
<1>2. CASE c.lost \/ stop[w]
  <2>1. SameBounds(d, c)
    BY UpdatesKeepBounds
  <2>2. Goto(w, "joining") /\ With(w, d)
    BY <1>2 DEF Checkpoint
  <2> HIDE DEF d
  <2>3. /\ d.job = ctx[w].job /\ d.attempt = ctx[w].attempt
        /\ d.outcome = ctx[w].outcome /\ d.submits = c.submits
        /\ d.external = c.external
    BY <2>1 DEF SameBounds
  <2>4. d.submits => d.external
    BY <2>3
  <2> QED BY <1>1, <2>2, <2>3, <2>4, WorkStep DEF Resting, Holding
<1>3. CASE ~(c.lost \/ stop[w])
  <2>1. Goto(w, state) /\ With(w, c)
    BY <1>3 DEF Checkpoint
  <2>2. state \in {"handling", "joining", "locking", "calling"}
    BY DEF Renewing, Holding
  <2> QED BY <1>1, <1>3, <2>1, <2>2, WorkStep DEF Resting, Holding
<1> QED BY <1>2, <1>3

LEMMA AnnounceKeepsBInv ==
  ASSUME WInv, NEW w \in Workers, NEW submits \in BOOLEAN, Announce(w, submits)
  PROVE  BInv'
<1> DEFINE raises == ctx[w].lost \/ stop[w]
           c == IF raises THEN ctx[w]
                ELSE [ctx[w] EXCEPT !.calls = @ + 1, !.submits = submits,
                                    !.external = @ \/ submits]
<1>1. /\ main[w] = "handling" /\ Checkpoint(w, c, "locking") /\ UNCHANGED vars
      /\ beat' = beat /\ accepted' = accepted
      /\ submits => ctx[w].outcome \in Unanswered
      /\ ctx[w] \in ContextRow /\ ctx[w].calls < MaxCalls
      /\ ctx[w].submits => ctx[w].external
  BY WorkerFacts DEF Announce, Unanswered
<1>2. c \in ContextRow
  <2>1. ctx[w].calls + 1 \in 0..MaxCalls
    BY <1>1, BoundsAssumption DEF ContextRow
  <2>2. (ctx[w].external \/ submits) \in BOOLEAN
    OBVIOUS
  <2> QED BY <1>1, <2>1, <2>2 DEF ContextRow
<1>3. c.job = ctx[w].job /\ c.attempt = ctx[w].attempt /\ c.outcome = ctx[w].outcome
  BY <1>1 DEF ContextRow
<1>4. c.submits => c.external
  <2>1. CASE raises
    BY <1>1, <2>1
  <2>2. CASE ~raises
    <3>1. c.submits = submits /\ c.external = (ctx[w].external \/ submits)
      BY <1>1, <2>2 DEF ContextRow
    <3> HIDE DEF c
    <3> QED BY <3>1
  <2> QED BY <2>1, <2>2
<1>5. ~c.lost /\ ~stop[w] /\ c.submits => c.outcome \in Unanswered
  <2>1. CASE raises
    BY <2>1
  <2>2. CASE ~raises
    <3>1. c.submits = submits
      BY <1>1, <2>2 DEF ContextRow
    <3> HIDE DEF c
    <3> QED BY <1>1, <1>3, <3>1
  <2> QED BY <2>1, <2>2
<1> HIDE DEF c, raises
<1>6. Calm(w) /\ Quiet(w) /\ uow' = uow
  BY <1>1, UnchangedSession
<1>7. beat[w] = "writing" => w \in DOMAIN uow'
  BY <1>6, WorkerFacts
<1> QED BY <1>1, <1>2, <1>3, <1>4, <1>5, <1>6, <1>7, CheckpointStep
           DEF Renewing, Resting, Holding

\* What announcing the boundary without a call leaves of the context.
LEMMA MarkedContext ==
  ASSUME NEW c \in ContextRow
  PROVE  \E d \in ContextRow :
           /\ d = [c EXCEPT !.submits = FALSE, !.external = TRUE]
           /\ d.job = c.job /\ d.attempt = c.attempt /\ d.outcome = c.outcome
           /\ d.submits = FALSE
<1> DEFINE d == [c EXCEPT !.submits = FALSE, !.external = TRUE]
<1>1. d \in ContextRow
  BY DEF ContextRow
<1>2. d.job = c.job /\ d.attempt = c.attempt /\ d.outcome = c.outcome
  BY DEF ContextRow
<1>3. d.submits = FALSE
  BY DEF ContextRow
<1> QED BY <1>1, <1>2, <1>3

LEMMA AnnouncePersistKeepsBInv ==
  ASSUME WInv, NEW w \in Workers, AnnouncePersist(w)
  PROVE  BInv'
<1>1. /\ main[w] = "handling" /\ UNCHANGED vars
      /\ beat' = beat /\ accepted' = accepted
      /\ ctx[w].submits => ctx[w].external
  BY WorkerFacts DEF AnnouncePersist
<1>6. ctx[w] \in ContextRow
  BY WorkerFacts
<1>2. Calm(w) /\ Quiet(w) /\ uow' = uow
  BY <1>1, UnchangedSession
<1>3. beat[w] = "writing" => w \in DOMAIN uow'
  BY <1>2, WorkerFacts
<1>4. CASE ctx[w].lost \/ stop[w]
  <2>1. Checkpoint(w, ctx[w], "locking")
    BY <1>4 DEF AnnouncePersist
  <2> QED BY <1>1, <1>2, <1>3, <1>4, <1>6, <2>1, CheckpointStep DEF Renewing, Resting, Holding
<1>5. CASE ~(ctx[w].lost \/ stop[w])
  <2>1. PICK d \in ContextRow :
          /\ d = [ctx[w] EXCEPT !.submits = FALSE, !.external = TRUE]
          /\ d.job = ctx[w].job /\ d.attempt = ctx[w].attempt
          /\ d.outcome = ctx[w].outcome /\ d.submits = FALSE
    BY <1>6, MarkedContext
  <2>2. Checkpoint(w, d, "locking")
    BY <1>5, <2>1 DEF AnnouncePersist
  <2>3. /\ d.job = ctx[w].job /\ d.attempt = ctx[w].attempt
        /\ d.outcome = ctx[w].outcome /\ ~d.submits
    BY <2>1
  <2> QED BY <1>1, <1>2, <1>3, <2>2, <2>3, CheckpointStep DEF Renewing, Resting, Holding
<1> QED BY <1>4, <1>5

LEMMA PersistBoundaryKeepsBInv ==
  ASSUME WInv, NEW w \in Workers, PersistBoundary(w)
  PROVE  BInv'
<1> DEFINE j == ctx[w].job
<1>1. /\ main[w] = "locking" /\ w \notin DOMAIN uow /\ accepted' = accepted
      /\ BeatGoto(w, beat[w]) /\ beat[w] # "writing"
      /\ j \in DOMAIN jobs /\ IInv
  BY WorkerFacts, Unmoved DEF PersistBoundary, MayOpen, Resting, WInv
<1>2. CASE /\ Heartbeat(w, j, w, ctx[w].calls, ctx[w].external)
           /\ Goto(w, "persisting") /\ ctx' = ctx
  <2>1. /\ Calm(w) /\ Quiet(w) /\ w \in DOMAIN uow' /\ OwnedRunning(j, w)
        /\ j \in DOMAIN uow'[w].writes
        /\ uow'[w].writes[j].number = LatestNumber(j)
        /\ ctx[w].external => uow'[w].writes[j].assignedAttempt.external
    BY <1>1, <1>2, HeartbeatSession
  <2>2. LatestNumber(j) = ctx[w].attempt
    BY <1>1, <2>1, LatestIsCount
       DEF OwnedRunning, WInv, BInv, WorkerTells, Attempting, IInv, Resting
  <2> QED BY <1>1, <1>2, <2>1, <2>2, LosingStep DEF Resting
<1>3. CASE /\ Refused(w, ctx[w].calls) \/ RefusedLate(w)
           /\ Goto(w, "joining")
  <2>1. Calm(w) /\ Quiet(w) /\ (ctx' = ctx \/ LoseLease(w))
    BY <1>1, <1>3, RefusedSession, RefusalKeepsContext
  <2> QED BY <1>1, <1>3, <2>1, LosingStep DEF Resting, Holding
<1> QED BY <1>2, <1>3 DEF PersistBoundary

LEMMA BoundaryPersistedKeepsBInv ==
  ASSUME WInv, NEW w \in Workers, BoundaryPersisted(w)
  PROVE  BInv'
<1> DEFINE j == ctx[w].job
           n == ctx[w].attempt
<1>1. /\ main[w] = "persisting" /\ beat' = beat /\ accepted' = accepted
      /\ BeatGoto(w, beat[w]) /\ beat[w] # "writing" /\ w \in DOMAIN uow
      /\ j \in DOMAIN jobs /\ IInv /\ DInv /\ ctx[w] \in ContextRow
      /\ ctx[w].submits => ctx[w].external
      /\ ctx[w].submits => ctx[w].outcome \in Unanswered
  BY WorkerFacts, Unmoved DEF BoundaryPersisted, Holding, Resting, WInv
<1>2. CASE Commit(w) /\ Checkpoint(w, ctx[w], "calling")
  <2>1. Calm(w) /\ Quiet(w)
    BY <1>2, ClosedSession
  <2>2. ASSUME ctx[w].submits
        PROVE  attempts'[j][n].external
    <3>1. /\ j \in DOMAIN uow[w].writes /\ uow[w].writes[j].number = n
          /\ uow[w].writes[j].assignedAttempt.external
          /\ n \in DOMAIN attempts[j]
      BY <1>1, <2>2 DEF WInv, BInv, WorkerTells, Bounding, Attempting, Resting
    <3> QED BY <1>1, <1>2, <3>1, ExternalSticks
  <2> QED BY <1>1, <1>2, <2>1, <2>2, CheckpointStep DEF Renewing, Resting, Holding
<1>3. CASE Rollback(w) /\ Goto(w, "joining") /\ LoseLease(w)
  BY <1>1, <1>3, ClosedSession, LosingStep DEF Resting, Holding
<1> QED BY <1>2, <1>3 DEF BoundaryPersisted

\* The attempt of the worker had no accepted submission, and no other worker has it.
LEMMA AcceptanceKeepsBInv ==
  ASSUME WInv, NEW w \in Workers, NEW c, Calm(w), Quiet(w), uow' = uow, UNCHANGED vars,
         main[w] = "calling", Goto(w, "handling"), beat' = beat, With(w, c),
         ctx[w].submits, c.submits => c.external,
         c.job = ctx[w].job, c.attempt = ctx[w].attempt, c.outcome \notin Unanswered,
         accepted' = [accepted EXCEPT ![ctx[w].job] = Append(@, ctx[w].attempt)]
  PROVE  BInv'
<1> DEFINE j == ctx[w].job
           n == ctx[w].attempt
<1>1. /\ main'[w] = "handling" /\ ctx'[w] = c /\ beat' = beat
      /\ \A v \in Workers : v # w => main'[v] = main[v] /\ ctx'[v] = ctx[v]
  BY DEF Goto, With, WInv, IWInv, WTypeOK
<1>2. /\ WorkerTells(w) /\ j \in DOMAIN jobs /\ j \in JobIds /\ n \in DOMAIN attempts[j]
      /\ \A i \in DOMAIN accepted[j] : accepted[j][i] # n
      /\ n \in Nat
  BY Unmoved, WorkerFacts
     DEF WInv, BInv, WorkerTells, Attempting, SubmitsOnce, Resting, ContextRow, IWInv,
         IInv, TypeOK
<1>3. /\ \A i \in JobIds : i # j => accepted'[i] = accepted[i]
      /\ accepted[j] \in Seq(Nat)
      /\ accepted'[j] = Append(accepted[j], n)
  BY <1>2 DEF WInv, IWInv, WTypeOK
<1>4. /\ DOMAIN accepted'[j] = DOMAIN accepted[j] \cup {Len(accepted[j]) + 1}
      /\ accepted'[j][Len(accepted[j]) + 1] = n
      /\ \A i \in DOMAIN accepted[j] :
           i # Len(accepted[j]) + 1 /\ accepted'[j][i] = accepted[j][i]
  BY <1>2, <1>3
<1>5. jobs' = jobs /\ attempts' = attempts /\ uow' = uow
  BY DEF vars
<1>6. ClaimersClaim'
  BY QuietKeepsClaimers
<1>7. OneWorkerPerAttempt'
  BY <1>1 DEF WInv, BInv, OneWorkerPerAttempt, Resting
<1>8. AcceptedOnce'
  <2> SUFFICES ASSUME NEW k \in JobIds, NEW i \in DOMAIN accepted'[k]
               PROVE  /\ k \in DOMAIN jobs /\ accepted'[k][i] \in DOMAIN attempts[k]
                      /\ \A l \in DOMAIN accepted'[k] :
                           l # i => accepted'[k][l] # accepted'[k][i]
    BY <1>5 DEF AcceptedOnce
  <2>1. CASE k # j
    BY <1>3, <2>1 DEF WInv, BInv, AcceptedOnce
  <2>2. CASE k = j
    <3>1. \A l \in DOMAIN accepted[j] :
            /\ accepted[j][l] \in DOMAIN attempts[j]
            /\ \A o \in DOMAIN accepted[j] : o # l => accepted[j][o] # accepted[j][l]
      BY <1>2 DEF WInv, BInv, AcceptedOnce
    <3>2. accepted'[j][i] \in DOMAIN attempts[j]
      BY <1>2, <1>4, <2>2, <3>1
    <3>3. ASSUME NEW l \in DOMAIN accepted'[j], l # i
          PROVE  accepted'[j][l] # accepted'[j][i]
      BY <1>2, <1>4, <2>2, <3>1, <3>3
    <3> QED BY <1>2, <2>2, <3>2, <3>3
  <2> QED BY <2>1, <2>2
<1>9. WorkerTells(w)'
  <2>1. Held(w)'
    BY <1>1, <1>2, <1>5 DEF WorkerTells, Held, Holding
  <2>2. Attempting(w)'
    BY <1>1, <1>2, <1>5 DEF WorkerTells, Attempting, Resting
  <2>3. Bounding(w)'
    BY <1>1 DEF Bounding
  <2>4. SubmitsOnce(w)'
    BY <1>1 DEF SubmitsOnce
  <2> QED BY <2>1, <2>2, <2>3, <2>4 DEF WorkerTells
<1>10. ASSUME NEW v \in Workers, v # w
       PROVE  WorkerTells(v)'
  <2>1. WorkerTells(v) /\ main'[v] = main[v] /\ ctx'[v] = ctx[v]
    BY <1>1, <1>10 DEF WInv, BInv
  <2>2. Held(v)' /\ Attempting(v)' /\ Bounding(v)'
    BY <1>1, <1>5, <2>1 DEF WorkerTells, Held, Attempting, Bounding
  <2>3. SubmitsOnce(v)'
    <3>1. CASE main[v] \in Resting
      BY <2>1, <3>1 DEF WorkerTells, SubmitsOnce, Resting
    <3>2. CASE main[v] \notin Resting /\ ctx[v].job # j
      <4>1. ctx[v].job \in JobIds
        BY <3>2, Unmoved DEF WInv, IWInv, IInv, TypeOK
      <4>2. accepted'[ctx[v].job] = accepted[ctx[v].job]
        BY <1>3, <3>2, <4>1
      <4> QED BY <2>1, <4>2 DEF WorkerTells, SubmitsOnce
    <3>3. CASE main[v] \notin Resting /\ ctx[v].job = j
      <4>1. ctx[v].attempt # n
        BY <1>10, <3>3 DEF WInv, BInv, OneWorkerPerAttempt, Resting
      <4>2. main[v] \notin Resting /\ ctx[v].outcome \in Unanswered =>
              \A i \in DOMAIN accepted'[j] : accepted'[j][i] # ctx[v].attempt
        BY <1>4, <2>1, <3>3, <4>1 DEF WorkerTells, SubmitsOnce
      <4> QED BY <2>1, <3>3, <4>2 DEF WorkerTells, SubmitsOnce
    <3> QED BY <3>1, <3>2, <3>3
  <2> QED BY <2>2, <2>3 DEF WorkerTells
<1> QED BY <1>6, <1>7, <1>8, <1>9, <1>10 DEF BInv

\* The provider's answer: only an accepted submission is counted, on the attempt
\* of the worker that made it.
LEMMA CallKeepsBInv ==
  ASSUME WInv, NEW w \in Workers, NEW outcome \in Outcome, NEW accepts \in BOOLEAN,
         Call(w, outcome, accepts)
  PROVE  BInv'
<1> DEFINE j == ctx[w].job
           n == ctx[w].attempt
           c == [ctx[w] EXCEPT !.outcome = outcome]
<1>1. /\ main[w] = "calling" /\ Goto(w, "handling") /\ beat' = beat
      /\ UNCHANGED vars /\ BeatGoto(w, beat[w])
  BY Unmoved DEF Call, WInv
<1>2. Calm(w) /\ Quiet(w) /\ uow' = uow
  BY <1>1, UnchangedSession
<1>3. beat[w] = "writing" => w \in DOMAIN uow'
  BY <1>2, WorkerFacts
<1>4. CASE ~ctx[w].submits
  <2>1. ctx' = ctx /\ accepted' = accepted
    BY <1>4 DEF Call
  <2> QED BY <1>1, <1>2, <1>3, <2>1, LosingStep DEF Resting, Holding
<1>5. CASE ctx[w].submits
  <2>1. /\ With(w, c)
        /\ accepts => outcome \notin Unanswered
        /\ accepted' = IF accepts THEN [accepted EXCEPT ![j] = Append(@, n)]
                       ELSE accepted
    BY <1>5 DEF Call, Unanswered
  <2>2. c.submits = ctx[w].submits /\ c.external = ctx[w].external
    BY WorkerFacts DEF ContextRow
  <2>3. c.job = j /\ c.attempt = n /\ c.outcome = outcome
    BY WorkerFacts DEF ContextRow
  <2>4. ctx[w].submits => ctx[w].external /\ ctx[w].outcome \in Unanswered
    BY <1>1, WorkerFacts
  <2> HIDE DEF c
  <2>5. c.submits => c.external
    BY <1>5, <2>2, <2>4
  <2>6. CASE ~accepts
    BY <1>1, <1>2, <1>3, <1>5, <2>1, <2>3, <2>4, <2>5, <2>6, WorkStep
       DEF Resting, Holding
  <2>7. CASE accepts
    BY <1>1, <1>2, <1>5, <2>1, <2>3, <2>5, <2>7, AcceptanceKeepsBInv
  <2> QED BY <2>6, <2>7
<1> QED BY <1>4, <1>5

\* The handler returns a result, or is stopped with one.
LEMMA ReturnKeepsBInv ==
  ASSUME WInv, NEW w \in Workers, Return(w)
  PROVE  BInv'
<1>1. /\ main[w] = "handling" /\ UNCHANGED vars /\ beat' = beat /\ accepted' = accepted
      /\ BeatGoto(w, beat[w])
  BY Unmoved DEF Return, WInv
<1>2. Calm(w) /\ Quiet(w) /\ uow' = uow
  BY <1>1, UnchangedSession
<1>3. (beat[w] = "writing" => w \in DOMAIN uow') /\ ctx[w] \in ContextRow
  BY <1>2, WorkerFacts
<1>4. ctx[w].submits => ctx[w].external
  BY WorkerFacts
<1>5. ASSUME NEW r \in HandlerResults(ctx[w]),
             Checkpoint(w, [ctx[w] EXCEPT !.result = r], "joining")
      PROVE  BInv'
  <2> DEFINE c == [ctx[w] EXCEPT !.result = r]
  <2>1. c \in ContextRow /\ SameBounds(c, ctx[w])
    BY <1>3, ResultTypes, ContextUpdates, UpdatesKeepBounds
  <2>2. Checkpoint(w, c, "joining")
    BY <1>5
  <2> HIDE DEF c
  <2>3. /\ c.job = ctx[w].job /\ c.attempt = ctx[w].attempt
        /\ c.outcome = ctx[w].outcome
    BY <2>1 DEF SameBounds
  <2>4. c.submits => c.external
    BY <1>4, <2>1 DEF SameBounds
  <2> QED BY <1>1, <1>2, <1>3, <2>1, <2>2, <2>3, <2>4, CheckpointStep
             DEF Renewing, Resting, Holding
<1>6. ASSUME Goto(w, "joining"),
             With(w, [ctx[w] EXCEPT !.result = Interrupted(ctx[w])])
      PROVE  BInv'
  <2> DEFINE c == [ctx[w] EXCEPT !.result = Interrupted(ctx[w])]
  <2>1. SameBounds(c, ctx[w]) /\ With(w, c)
    BY <1>3, <1>6, UpdatesKeepBounds
  <2> HIDE DEF c
  <2> QED BY <1>1, <1>2, <1>3, <1>6, <2>1, SameStep DEF Resting, Holding
<1> QED BY <1>5, <1>6 DEF Return

\* A worker that lost its job, reported it or died starts from nothing.
LEMMA ForgettingStep ==
  ASSUME WInv, NEW w \in Workers, Calm(w), Quiet(w), NEW m \in {"idle", "dead"},
         Goto(w, m), BeatGoto(w, "off"), With(w, NoContext), accepted' = accepted
  PROVE  BInv'
<1>1. NoContext.submits = FALSE
  BY DEF NoContext, Context
<1> HIDE DEF NoContext
<1>2. NoContext.submits => NoContext.external
  BY <1>1
<1> QED BY <1>2, RestStep DEF Resting

LEMMA JoinKeepsBInv ==
  ASSUME WInv, NEW w \in Workers, Join(w)
  PROVE  BInv'
<1>1. /\ main[w] = "joining" /\ UNCHANGED vars /\ accepted' = accepted
      /\ BeatGoto(w, "off")
  BY Unmoved DEF Join, WInv
<1>2. Calm(w) /\ Quiet(w) /\ uow' = uow
  BY <1>1, UnchangedSession
<1>3. CASE Goto(w, "idle") /\ With(w, NoContext)
  BY <1>1, <1>2, <1>3, ForgettingStep
<1>4. CASE Goto(w, "finalizing") /\ ctx' = ctx
  BY <1>1, <1>2, <1>4, LosingStep DEF Resting, Holding
<1> QED BY <1>3, <1>4 DEF Join

LEMMA FinalizeKeepsBInv ==
  ASSUME WInv, NEW w \in Workers, Finalize(w)
  PROVE  BInv'
<1> DEFINE j == ctx[w].job
<1>1. /\ main[w] = "finalizing" /\ w \notin DOMAIN uow /\ accepted' = accepted
      /\ BeatGoto(w, "off") /\ j \in DOMAIN jobs /\ IInv
  BY WorkerFacts, Unmoved DEF Finalize, MayOpen, Resting, Renewing, WInv
<1>2. CASE Heartbeat(w, j, w, ctx[w].calls, TRUE) /\ Goto(w, "marking") /\ ctx' = ctx
  <2>1. Calm(w) /\ Quiet(w) /\ w \in DOMAIN uow'
    BY <1>1, <1>2, HeartbeatSession
  <2> QED BY <1>1, <1>2, <2>1, LosingStep DEF Resting
<1>3. CASE (Refused(w, ctx[w].calls) \/ RefusedLate(w)) /\ Goto(w, "joining")
  <2>1. Calm(w) /\ Quiet(w) /\ (ctx' = ctx \/ LoseLease(w))
    BY <1>1, <1>3, RefusedSession, RefusalKeepsContext
  <2> QED BY <1>1, <1>3, <2>1, LosingStep DEF Resting, Holding
<1>4. CASE (Report(w) \/ RefusedLate(w)) /\ Goto(w, "closing") /\ ctx' = ctx
  <2>1. Calm(w) /\ Quiet(w) /\ w \in DOMAIN uow'
    BY <1>4, ReportSession, OpenedSession DEF RefusedLate, Recover, BeginWrites
  <2> QED BY <1>1, <1>4, <2>1, LosingStep DEF Resting
<1> QED BY <1>2, <1>3, <1>4 DEF Finalize

LEMMA MarkedKeepsBInv ==
  ASSUME WInv, NEW w \in Workers, Marked(w)
  PROVE  BInv'
<1>1. main[w] = "marking" /\ accepted' = accepted /\ BeatGoto(w, "off")
  BY WorkerFacts, Unmoved DEF Marked, Renewing, WInv
<1>2. CASE /\ Commit(w) /\ Goto(w, "finalizing")
           /\ With(w, [ctx[w] EXCEPT !.external = TRUE])
  <2> DEFINE c == [ctx[w] EXCEPT !.external = TRUE]
  <2>1. Calm(w) /\ Quiet(w)
    BY <1>2, ClosedSession
  <2>2. /\ c.job = ctx[w].job /\ c.attempt = ctx[w].attempt
        /\ c.outcome = ctx[w].outcome
    BY WorkerFacts DEF ContextRow
  <2>3. c.external = TRUE
    BY WorkerFacts DEF ContextRow
  <2>4. With(w, c)
    BY <1>2
  <2> HIDE DEF c
  <2> QED BY <1>1, <1>2, <2>1, <2>2, <2>3, <2>4, WorkStep DEF Resting, Holding
<1>3. CASE Rollback(w) /\ Goto(w, "joining") /\ LoseLease(w)
  BY <1>1, <1>3, ClosedSession, LosingStep DEF Resting, Holding
<1> QED BY <1>2, <1>3 DEF Marked

LEMMA FinalizedKeepsBInv ==
  ASSUME WInv, NEW w \in Workers, Finalized(w) \/ Aborts(w)
  PROVE  BInv'
<1>1. PICK m \in {"idle", "dead"} :
        /\ main[w] \in {"claiming", "closing"}
        /\ Commit(w) \/ Rollback(w)
        /\ Goto(w, m) /\ With(w, NoContext) /\ beat' = beat /\ accepted' = accepted
  BY DEF Finalized, Aborts
<1>2. BeatGoto(w, "off")
  BY <1>1, WorkerFacts, Unmoved DEF Renewing
<1>3. Calm(w) /\ Quiet(w)
  BY <1>1, ClosedSession
<1> QED BY <1>1, <1>2, <1>3, ForgettingStep

LEMMA RecoveryEndsKeepsBInv ==
  ASSUME WInv, NEW w \in Workers, RecoveryEnds(w)
  PROVE  BInv'
<1>1. /\ main[w] \notin Holding /\ beat[w] # "writing" /\ LoseLease(w)
      /\ Goto(w, main[w]) /\ BeatGoto(w, beat[w]) /\ accepted' = accepted
  BY Unmoved DEF RecoveryEnds, Holding, WInv
<1>2. Calm(w) /\ Quiet(w)
  BY ClosedSession DEF RecoveryEnds
<1>3. CASE main[w] \notin Resting
  BY <1>1, <1>2, <1>3, LosingStep DEF Holding
<1>4. CASE main[w] \in Resting
  <2> DEFINE c == [ctx[w] EXCEPT !.lost = TRUE]
  <2>1. beat[w] = "off" /\ main[w] # "claiming"
    BY <1>1, <1>4, WorkerFacts DEF Resting, Renewing, Holding
  <2>2. SameBounds(c, ctx[w])
    BY WorkerFacts, UpdatesKeepBounds
  <2>3. With(w, c)
    BY <1>1 DEF LoseLease
  <2> HIDE DEF c
  <2>4. c.submits => c.external
    BY <2>2, WorkerFacts DEF SameBounds
  <2> QED BY <1>1, <1>2, <1>4, <2>1, <2>3, <2>4, RestStep
<1> QED BY <1>3, <1>4

LEMMA MainStepKeepsBInv ==
  ASSUME WInv, NEW w \in Workers, MainStep(w)
  PROVE  BInv'
BY RunOnceKeepsBInv, ClaimedKeepsBInv, AnnounceKeepsBInv, AnnouncePersistKeepsBInv,
   PersistBoundaryKeepsBInv, BoundaryPersistedKeepsBInv, CallKeepsBInv,
   ReturnKeepsBInv, JoinKeepsBInv, FinalizeKeepsBInv, MarkedKeepsBInv,
   FinalizedKeepsBInv, RecoveryEndsKeepsBInv DEF MainStep

-----------------------------------------------------------------------------
(***************************************************************************)
(* The steps of the heartbeat thread and of the environment.               *)
(***************************************************************************)
LEMMA BeatStepKeepsBInv ==
  ASSUME WInv, NEW w \in Workers, BeatStep(w)
  PROVE  BInv'
<1>1. /\ main[w] \notin Resting /\ main[w] # "claiming" /\ accepted' = accepted
      /\ Goto(w, main[w]) /\ main[w] \in Renewing
  BY WorkerFacts, Unmoved
     DEF BeatStep, BeatWakes, Beats, BeatEnds, BeatStops, Renewing, Resting, WInv
<1>2. /\ main[w] \in Holding => w \in DOMAIN uow
      /\ beat[w] = "writing" => w \in DOMAIN uow /\ main[w] \notin Holding
  BY WorkerFacts
<1>3. main[w] = "persisting" /\ ctx[w].external =>
        /\ ctx[w].job \in DOMAIN uow[w].writes
        /\ uow[w].writes[ctx[w].job].number = ctx[w].attempt
        /\ uow[w].writes[ctx[w].job].assignedAttempt.external
  BY DEF WInv, BInv, WorkerTells, Bounding
<1>4. CASE BeatWakes(w)
  <2> DEFINE c == [ctx[w] EXCEPT !.seenCalls = ctx[w].calls,
                                 !.seenExternal = ctx[w].external]
  <2>1. /\ SameBounds(c, ctx[w]) /\ With(w, c) /\ BeatGoto(w, "ready")
        /\ UNCHANGED vars
    BY <1>4, WorkerFacts, UpdatesKeepBounds DEF BeatWakes
  <2> HIDE DEF c
  <2>2. Calm(w) /\ Quiet(w) /\ uow' = uow
    BY <1>1, <2>1, UnchangedSession
  <2> QED BY <1>1, <1>2, <1>3, <2>1, <2>2, SameStep
<1>5. CASE BeatStops(w)
  <2>1. /\ ctx' = ctx /\ BeatGoto(w, "off") /\ UNCHANGED vars /\ main[w] = "joining"
    BY <1>5 DEF BeatStops
  <2>2. Calm(w) /\ Quiet(w) /\ uow' = uow
    BY <1>1, <2>1, UnchangedSession
  <2> QED BY <1>1, <2>1, <2>2, LosingStep DEF Holding
<1>6. CASE Beats(w)
  <2>1. w \notin DOMAIN uow /\ main[w] \notin Holding
    BY <1>2, <1>6 DEF Beats, MayOpen
  <2>2. CASE /\ Heartbeat(w, ctx[w].job, w, ctx[w].seenCalls, ctx[w].seenExternal)
             /\ BeatGoto(w, "writing") /\ ctx' = ctx
    <3>1. Calm(w) /\ Quiet(w) /\ w \in DOMAIN uow'
      BY <1>1, <2>2, WorkerFacts, HeartbeatSession
    <3> QED BY <1>1, <2>1, <2>2, <3>1, LosingStep DEF Holding
  <2>3. CASE /\ Refused(w, ctx[w].seenCalls) \/ RefusedLate(w)
             /\ BeatGoto(w, "off")
    <3>1. Calm(w) /\ Quiet(w) /\ (ctx' = ctx \/ LoseLease(w))
      BY <1>1, <2>1, <2>3, RefusedSession, RefusalKeepsContext
    <3> QED BY <1>1, <2>1, <2>3, <3>1, LosingStep DEF Holding
  <2> QED BY <1>6, <2>2, <2>3 DEF Beats
<1>7. CASE BeatEnds(w)
  <2>1. /\ main[w] \notin Holding /\ Calm(w) /\ Quiet(w)
        /\ BeatGoto(w, "waiting") \/ BeatGoto(w, "off")
        /\ ctx' = ctx \/ LoseLease(w)
    BY <1>2, <1>7, ClosedSession DEF BeatEnds
  <2> QED BY <1>1, <2>1, LosingStep DEF Holding
<1> QED BY <1>4, <1>5, <1>6, <1>7 DEF BeatStep

LEMMA DiesKeepsBInv ==
  ASSUME WInv, NEW w \in Workers, Dies(w)
  PROVE  BInv'
<1>1. /\ Goto(w, "dead") /\ BeatGoto(w, "off") /\ With(w, NoContext)
      /\ accepted' = accepted
  BY DEF Dies
<1>2. Calm(w) /\ Quiet(w)
  <2>1. CASE w \in DOMAIN uow
    BY <2>1, ClosedSession DEF Dies
  <2>2. CASE w \notin DOMAIN uow
    <3>1. jobs' = jobs /\ attempts' = attempts /\ uow' = uow
      BY <2>2 DEF Dies, vars
    <3> QED BY <2>2, <3>1, UnwrittenIsCalm DEF Quiet
  <2> QED BY <2>1, <2>2
<1> QED BY <1>1, <1>2, ForgettingStep

\* A user's session claims nothing, and is nobody's but its own.
LEMMA UserActsKeepsBInv ==
  ASSUME WInv, NEW s \in Users, UserActs(s)
  PROVE  BInv'
<1>1. main' = main /\ beat' = beat /\ ctx' = ctx /\ accepted' = accepted
  BY DEF UserActs, threads
<1>2. /\ Calm(s)
      /\ \A t \in DOMAIN uow' : uow'[t].claimer # None =>
           t \in DOMAIN uow /\ uow'[t] = uow[t]
  <2>1. CASE CloseStep(s)
    <3>1. Close(s)
      BY <2>1 DEF CloseStep, Commit, CommitInsert, Rollback
    <3> QED BY <2>1, <3>1, CommitIsCalm, CommitInsertIsCalm, RollbackIsCalm
               DEF CloseStep, Close
  <2>2. CASE UserStep(s)
    <3>1. PICK writes, insert : Begin(s, writes, insert, None, {})
      BY <2>2 DEF UserStep, Create, Pause, Resume, Cancel, Retry, SetStatus,
                  BeginWrite, BeginWrites
    <3> QED BY <3>1, BeginIsCalm DEF Begin
  <2> QED BY <2>1, <2>2 DEF UserActs
<1>3. ClaimersClaim'
  BY <1>1, <1>2 DEF WInv, BInv, ClaimersClaim
<1>4. \A v \in Workers : v # s /\ WorkerTells(v)'
  BY <1>1, <1>2, OthersTell DEF Users
<1>5. OneWorkerPerAttempt'
  BY <1>1 DEF WInv, BInv, OneWorkerPerAttempt
<1> QED BY <1>1, <1>2, <1>3, <1>4, <1>5, AcceptedStays DEF BInv

LEMMA UntouchedKeepsBInv ==
  ASSUME WInv, jobs' = jobs, attempts' = attempts, uow' = uow, main' = main,
         beat' = beat, ctx' = ctx, accepted' = accepted
  PROVE  BInv'
BY DEF WInv, BInv, ClaimersClaim, OneWorkerPerAttempt, AcceptedOnce, WorkerTells, Held,
       Attempting, Bounding, SubmitsOnce

LEMMA WInitBInv == WInit => BInv
<1> SUFFICES ASSUME WInit PROVE BInv
  OBVIOUS
<1>1. /\ uow = <<>> /\ \A j \in JobIds : accepted[j] = <<>>
      /\ \A w \in Workers :
           main[w] = "idle" /\ beat[w] = "off" /\ ctx[w] = NoContext
  BY DEF WInit, Init
<1>2. NoContext.submits = FALSE
  BY DEF NoContext, Context
<1> HIDE DEF NoContext
<1>3. \A w \in Workers : WorkerTells(w)
  BY <1>1, <1>2
     DEF WorkerTells, Held, Holding, Attempting, Bounding, SubmitsOnce, Resting
<1> QED BY <1>1, <1>3 DEF BInv, ClaimersClaim, OneWorkerPerAttempt, AcceptedOnce, Resting

LEMMA WNextKeepsWInv == WInv /\ [WNext]_wvars => WInv'
<1> SUFFICES ASSUME WInv, [WNext]_wvars PROVE WInv'
  OBVIOUS
<1>1. IWInv' /\ DInv'
  <2>1. IWInv /\ IInv /\ DInv
    BY DEF WInv, IWInv
  <2>2. [Next]_vars
    BY <2>1, StepIsQueueStep
  <2> QED BY <2>1, <2>2, WNextKeepsIWInv, NextKeepsDInv
<1>2. ASSUME NEW w \in Workers, MainStep(w) \/ BeatStep(w) \/ RequestStop(w) \/ Dies(w)
      PROVE  BInv'
  <2>1. CASE RequestStop(w)
    BY <2>1, UntouchedKeepsBInv DEF RequestStop, vars, threads
  <2> QED BY <1>2, <2>1, MainStepKeepsBInv, BeatStepKeepsBInv, DiesKeepsBInv
<1>3. Elapse => BInv'
  BY UntouchedKeepsBInv DEF Elapse, Tick, tables, threads
<1>4. UNCHANGED wvars => BInv'
  BY UntouchedKeepsBInv DEF wvars, vars, threads
<1>5. ASSUME NEW s \in Users, UserActs(s)
      PROVE  BInv'
  BY <1>5, UserActsKeepsBInv
<1>6. BInv'
  BY <1>2, <1>3, <1>4, <1>5 DEF WNext
<1> QED BY <1>1, <1>6 DEF WInv

\* The boundary, the attempts and the submissions agree in every reachable state.
THEOREM BoundaryInvariance == WSpec => []WInv
<1>1. WInit => WInv
  <2>1. WInit => Init
    BY DEF WInit
  <2> QED BY <2>1, WInitIWInv, InitDInv, WInitBInv DEF WInv
<1> QED BY <1>1, WNextKeepsWInv, PTL DEF WSpec

\* "Persist the safety boundary before an Adapter makes a Provider call": a worker
\* that may submit has said so in the rows, whoever wrote them since.
THEOREM BoundaryComesFirst == WSpec => []BoundaryFirst
<1>1. WInv => BoundaryFirst
  <2> SUFFICES ASSUME WInv, NEW w \in Workers, NEW j \in JobIds, Submitting(w, j)
               PROVE  jobs[j].submitted /\ attempts[j][ctx[w].attempt].external
    BY DEF BoundaryFirst
  <2>1. /\ main[w] = "calling" /\ ctx[w].submits /\ ctx[w].job = j
        /\ Attempting(w) /\ Bounding(w) /\ j \in DOMAIN jobs
    BY WorkerFacts DEF Submitting, WInv, BInv, WorkerTells, Resting
  <2>2. /\ ctx[w].attempt \in DOMAIN attempts[j]
        /\ attempts[j][ctx[w].attempt].external
    BY <2>1 DEF Attempting, Bounding, Resting
  <2>3. jobs[j].submitted
    BY <2>1, <2>2 DEF WInv, DInv, JobTells, ExternalIsSubmitted
  <2> QED BY <2>2, <2>3
<1> QED BY <1>1, BoundaryInvariance, PTL

\* An injection into 1..n has no more than n values.
LEMMA InjectionIsShort ==
  ASSUME NEW s \in Seq(Nat), NEW n \in Nat,
         \A i \in DOMAIN s : s[i] \in 1..n,
         \A i, k \in DOMAIN s : i # k => s[i] # s[k]
  PROVE  Len(s) <= n
<1>1. DOMAIN s = 1..Len(s) /\ Len(s) \in Nat
  OBVIOUS
<1>2. /\ IsFiniteSet(1..Len(s)) /\ Cardinality(1..Len(s)) = Len(s)
      /\ IsFiniteSet(1..n) /\ Cardinality(1..n) = n
  <2>1. \A m \in Nat : IsFiniteSet(1..m) /\ Cardinality(1..m) = m
    <3> TAKE m \in Nat
    <3>1. IsFiniteSet(1..m) /\ Cardinality(1..m) = IF 1 > m THEN 0 ELSE m - 1 + 1
      BY FS_Interval
    <3>2. (IF 1 > m THEN 0 ELSE m - 1 + 1) = m
      OBVIOUS
    <3> QED BY <3>1, <3>2
  <2> QED BY <1>1, <2>1
<1>3. s \in Injection(1..Len(s), 1..n)
  <2>1. s \in [1..Len(s) -> 1..n]
    BY <1>1
  <2>2. IsInjective(s)
    BY DEF IsInjective
  <2> QED BY <2>1, <2>2 DEF Injection
<1>4. Cardinality(1..Len(s)) <= Cardinality(1..n)
  BY <1>2, <1>3, FS_Injection
<1> QED BY <1>2, <1>4

\* However workers die, are stopped, lose their leases and flush stale rows, the
\* provider accepts no more submissions of a job than its budget of attempts.
THEOREM SubmissionsStayBounded == WSpec => []SubmissionsAreBounded
<1>1. WInv => SubmissionsAreBounded
  <2> SUFFICES ASSUME WInv, NEW j \in DOMAIN jobs
               PROVE  Len(accepted[j]) <= jobs[j].req.max
    BY DEF SubmissionsAreBounded
  <2>1. /\ j \in JobIds /\ accepted[j] \in Seq(Nat) /\ jobs[j] \in JobRow
        /\ DOMAIN attempts[j] = 1..jobs[j].count /\ jobs[j].count <= jobs[j].req.max
    BY DEF WInv, IWInv, IInv, WTypeOK, TypeOK, AttemptsNumbered
  <2>2. jobs[j].count \in Nat /\ jobs[j].req.max \in Nat
    BY <2>1, RequestsAssumption DEF JobRow
  <2>3. \A i \in DOMAIN accepted[j] :
          /\ accepted[j][i] \in 1..jobs[j].count
          /\ \A k \in DOMAIN accepted[j] : k # i => accepted[j][k] # accepted[j][i]
    BY <2>1 DEF WInv, BInv, AcceptedOnce
  <2>4. Len(accepted[j]) <= jobs[j].count
    BY <2>1, <2>2, <2>3, InjectionIsShort
  <2> QED BY <2>1, <2>2, <2>4
<1> QED BY <1>1, BoundaryInvariance, PTL

\* A job that may be run once, like a render, a publication or a script, is submitted by
\* one worker, however the sessions interleave: a worker at work has its own attempt.
THEOREM SingleAttemptsSubmitAlone ==
  WSpec => [](\A v, w \in Workers : \A j \in JobIds :
                 Submitting(v, j) /\ Submitting(w, j) /\ jobs[j].req.max = 1 => v = w)
<1>1. ASSUME WInv, NEW v \in Workers, NEW w \in Workers, NEW j \in JobIds,
             Submitting(v, j), Submitting(w, j), jobs[j].req.max = 1
      PROVE  v = w
  <2>1. ASSUME NEW u \in Workers, Submitting(u, j)
        PROVE  main[u] \notin Resting /\ ctx[u].job = j /\ ctx[u].attempt = 1
    <3>1. main[u] = "calling" /\ main[u] \notin Resting /\ ctx[u].job = j
      BY <2>1 DEF Submitting, Resting
    <3>2. j \in DOMAIN jobs /\ ctx[u].attempt \in DOMAIN attempts[j]
      BY <1>1, <3>1, WorkerFacts DEF WInv, BInv, WorkerTells, Attempting
    <3>3. DOMAIN attempts[j] = 1..jobs[j].count /\ jobs[j].count <= 1
      BY <1>1, <3>2 DEF WInv, IWInv, IInv, AttemptsNumbered
    <3>4. jobs[j].count \in Nat
      BY <1>1, <3>2 DEF WInv, IWInv, IInv, TypeOK, JobRow
    <3> QED BY <3>1, <3>2, <3>3, <3>4
  <2>2. /\ main[v] \notin Resting /\ ctx[v].job = j /\ ctx[v].attempt = 1
        /\ main[w] \notin Resting /\ ctx[w].job = j /\ ctx[w].attempt = 1
    BY <1>1, <2>1
  <2> QED BY <1>1, <2>2 DEF WInv, BInv, OneWorkerPerAttempt
<1>2. WInv => \A v, w \in Workers : \A j \in JobIds :
                Submitting(v, j) /\ Submitting(w, j) /\ jobs[j].req.max = 1 => v = w
  BY <1>1
<1> QED BY <1>2, BoundaryInvariance, PTL

\* The composition only does what the queue does, so a doubt of a worker is as
\* well explained as one the queue alone could reach.
THEOREM WorkersExplainDoubt == WSpec => []UnknownIsExplained
BY WorkersUseTheQueue, DoubtIsExplained, PTL DEF QueueSpec
-----------------------------------------------------------------------------
(***************************************************************************)
(* The serial composition.  While one session is open at a time, nothing   *)
(* is written between what a session loads and what it flushes, and the    *)
(* finding of the run worker_forgets cannot happen: a recovery that takes  *)
(* an attempt for one that submitted nothing flushes before its owner can  *)
(* persist a boundary.  So only the worker of an attempt says with         *)
(* certainty what became of its submission, and it says so after its call. *)
(***************************************************************************)
Refusals == {"NOT_SUBMITTED", "EXPLICIT_FAILURE"}
Acting == {"handling", "locking", "persisting", "calling"}

\* The session of worker s reports provider state of attempt n of job j.
Reports(s, j, n, state) ==
  /\ s \in Workers /\ main[s] = "closing"
  /\ ctx[s].job = j /\ ctx[s].attempt = n
  /\ state \in Refusals => ctx[s].outcome \in Unanswered

\* What a pending write says with certainty comes from the attempt's worker, or
\* the attempt has not come to its boundary.
WriteFits(s, j, w) ==
  /\ w.assignedAttempt.state \in CertainStates
  /\ w.assignedAttempt.state # w.loadedAttempt.state
  => /\ w.number # 0
     /\ \/ ~attempts[j][w.number].external
        \/ Reports(s, j, w.number, w.assignedAttempt.state)

PendingWritesFit ==
  \A s \in DOMAIN uow : \A j \in DOMAIN uow[s].writes :
    WriteFits(s, j, uow[s].writes[j])

\* Nobody takes an accepted submission for one that was not made.
AcceptedIsKept ==
  \A j \in JobIds : \A i \in DOMAIN accepted[j] :
    /\ attempts[j][accepted[j][i]].external
    /\ attempts[j][accepted[j][i]].state \notin Refusals

\* A worker at m with context c knows what it announced, and gives no refusal for
\* its result once the provider answered or stayed silent.
ContextFits(m, c) ==
  m \notin Resting =>
    /\ c.outcome \notin Unanswered => c.external
    /\ m \in Acting \/ c.outcome \notin Unanswered => c.result.state \notin Refusals

\* Its attempt is uncertain from the flush of the boundary to the end of the call.
SubmissionFits(w) ==
  /\ main[w] = "persisting" /\ ctx[w].external =>
       uow[w].writes[ctx[w].job].assignedAttempt.state = "SUBMIT_UNKNOWN"
  /\ main[w] = "calling" /\ ctx[w].submits =>
       attempts[ctx[w].job][ctx[w].attempt].state \notin CertainStates
  /\ ContextFits(main[w], ctx[w])

SubmissionsFit ==
  PendingWritesFit /\ AcceptedIsKept /\ \A w \in Workers : SubmissionFits(w)

WSerialInv == Alone /\ SerialInv /\ WInv /\ SubmissionsFit

-----------------------------------------------------------------------------
(***************************************************************************)
(* What a step does to the sessions: it leaves them alone, opens the only  *)
(* one, or closes the one that is open.                                    *)
(***************************************************************************)
Leaves == jobs' = jobs /\ attempts' = attempts /\ uow' = uow

Opens(s, writes) ==
  /\ MayOpen(s)
  /\ \E insert, claimer, types : Begin(s, writes, insert, claimer, types)

Touches(s) == Leaves \/ (\E writes : Opens(s, writes)) \/ CloseStep(s)

\* A session that opens is the only one.
LEMMA OpensAlone ==
  ASSUME Serializable, NEW s, NEW writes, Opens(s, writes)
  PROVE  /\ DOMAIN uow' = {s} /\ uow'[s].writes = writes
         /\ jobs' = jobs /\ attempts' = attempts
<1>1. DOMAIN uow = {}
  BY DEF Opens, MayOpen
<1>2. PICK insert, claimer, types : Begin(s, writes, insert, claimer, types)
  BY DEF Opens
<1> QED BY <1>1, <1>2 DEF Begin, tables

LEMMA TouchesAlone ==
  ASSUME Serializable, Alone, NEW s, Touches(s)
  PROVE  Alone'
<1>1. CASE Leaves
  BY <1>1 DEF Leaves, Alone
<1>2. ASSUME NEW writes, Opens(s, writes)
      PROVE  Alone'
  <2>1. DOMAIN uow' = {s}
    BY <1>2, OpensAlone
  <2> QED BY <2>1 DEF Alone
<1>3. CASE CloseStep(s)
  BY <1>3 DEF CloseStep, Commit, CommitInsert, Rollback, Close, Alone
<1> QED BY <1>1, <1>2, <1>3 DEF Touches

\* The calls of a session and what they leave to be written.
LEMMA HeartbeatOpens ==
  ASSUME NEW s, MayOpen(s), NEW j, NEW w, NEW calls, NEW external,
         Heartbeat(s, j, w, calls, external)
  PROVE  \E writes : Opens(s, writes)
BY DEF Heartbeat, BeginWrite, BeginWrites, Opens

LEMMA RefusalTouches ==
  ASSUME NEW w, MayOpen(w), NEW calls, Refused(w, calls) \/ RefusedLate(w)
  PROVE  Leaves \/ Opens(w, RecoverExpiredLeases)
BY DEF Refused, RefusedLate, Recover, BeginWrites, Opens, Leaves, vars

LEMMA ReportOpens ==
  ASSUME NEW w, MayOpen(w), Report(w)
  PROVE  \E writes : Opens(w, writes)
<1> DEFINE c == ctx[w]
<1>1. \/ \E o, e \in BOOLEAN : Complete(w, c.job, w, c.calls, o, e)
      \/ MarkSubmitUnknown(w, c.job, w, c.calls)
      \/ Fail(w, c.job, w, c.calls, c.external, c.result.state)
  <2> HIDE DEF c
  <2> QED BY DEF Report, c
<1> HIDE DEF c
<1> QED BY <1>1 DEF Complete, MarkSubmitUnknown, Fail, BeginWrite, BeginWrites, Opens

LEMMA UserOpens ==
  ASSUME NEW s, MayOpen(s), UserStep(s)
  PROVE  \E writes : Opens(s, writes)
<1>1. PICK writes, insert : Begin(s, writes, insert, None, {})
  BY DEF UserStep, Create, Pause, Resume, Cancel, Retry, SetStatus,
         BeginWrite, BeginWrites
<1> QED BY <1>1 DEF Opens

LEMMA MainStepTouches ==
  ASSUME NEW w \in Workers, MainStep(w)
  PROVE  Touches(w)
<1>1. CASE RunOnce(w)
  <2>1. CASE UNCHANGED vars
    BY <2>1 DEF Touches, Leaves, vars
  <2>2. CASE ~stop[w] /\ Claim(w, w, {})
    <3>1. MayOpen(w)
      BY <1>1, <2>2 DEF RunOnce
    <3> QED BY <2>2, <3>1 DEF Claim, Opens, Touches
  <2> QED BY <1>1, <2>1, <2>2 DEF RunOnce
<1>2. CASE \/ Claimed(w) \/ Marked(w) \/ Finalized(w) \/ RecoveryEnds(w) \/ Aborts(w)
           \/ BoundaryPersisted(w)
  BY <1>2 DEF Claimed, Marked, Finalized, RecoveryEnds, Aborts, BoundaryPersisted,
              Touches, CloseStep
<1>3. CASE \/ \E submits \in BOOLEAN : Announce(w, submits)
           \/ \E outcome \in Outcome, accepts \in BOOLEAN : Call(w, outcome, accepts)
           \/ AnnouncePersist(w) \/ Return(w) \/ Join(w)
  BY <1>3 DEF Announce, AnnouncePersist, Call, Return, Join, Touches, Leaves, vars
<1>4. CASE PersistBoundary(w)
  BY <1>4, HeartbeatOpens, RefusalTouches DEF PersistBoundary, Touches
<1>5. CASE Finalize(w)
  <2>1. MayOpen(w)
    BY <1>5 DEF Finalize
  <2>2. \/ Heartbeat(w, ctx[w].job, w, ctx[w].calls, TRUE)
        \/ Report(w)
        \/ Refused(w, ctx[w].calls) \/ RefusedLate(w)
    BY <1>5 DEF Finalize
  <2> QED BY <2>1, <2>2, HeartbeatOpens, ReportOpens, RefusalTouches DEF Touches
<1> QED BY <1>1, <1>2, <1>3, <1>4, <1>5 DEF MainStep

LEMMA BeatStepTouches ==
  ASSUME NEW w \in Workers, BeatStep(w)
  PROVE  Touches(w)
<1>1. CASE BeatWakes(w) \/ BeatStops(w)
  BY <1>1 DEF BeatWakes, BeatStops, Touches, Leaves, vars
<1>2. CASE Beats(w)
  BY <1>2, HeartbeatOpens, RefusalTouches DEF Beats, Touches
<1>3. CASE BeatEnds(w)
  BY <1>3 DEF BeatEnds, Touches, CloseStep
<1> QED BY <1>1, <1>2, <1>3 DEF BeatStep

LEMMA StepTouches ==
  ASSUME [WNext]_wvars
  PROVE  \E s : Touches(s)
<1>1. ASSUME NEW w \in Workers, RequestStop(w) \/ Dies(w)
      PROVE  Touches(w)
  BY <1>1 DEF RequestStop, Dies, Touches, Leaves, CloseStep, vars
<1>2. ASSUME NEW s \in Users, UserActs(s)
      PROVE  Touches(s)
  BY <1>2, UserOpens DEF UserActs, Touches
<1>3. CASE Elapse \/ UNCHANGED wvars
  BY <1>3 DEF Elapse, Tick, tables, wvars, vars, Touches, Leaves
<1> QED BY <1>1, <1>2, <1>3, MainStepTouches, BeatStepTouches DEF WNext

-----------------------------------------------------------------------------
(***************************************************************************)
(* What a step does to the provider states that the workers rely on.       *)
(***************************************************************************)
\* What attempt n of job j says after a step of session s.
StateStays(s, j, n) ==
  /\ attempts'[j][n].external
  /\ \/ attempts'[j][n].state = attempts[j][n].state
     \/ attempts'[j][n].state \notin CertainStates
     \/ Reports(s, j, n, attempts'[j][n].state)

LEMMA FlushAttemptState ==
  ASSUME NEW row \in AttemptRow, NEW l, NEW a
  PROVE  FlushAttempt(row, l, a).state = Net(row.state, l.state, a.state)
BY DEF FlushAttempt, AttemptRow

LEMMA CommitStates ==
  ASSUME WSerialInv, NEW s \in DOMAIN uow, Commit(s), NEW j \in DOMAIN jobs,
         NEW n \in DOMAIN attempts[j], attempts[j][n].external
  PROVE  StateStays(s, j, n)
<1> DEFINE w == uow[s].writes[j]
           new == attempts'[j][n].state
<1>1. /\ IInv /\ DInv /\ attempts[j][n] \in AttemptRow /\ n # 0
      /\ attempts'[j][n] = FlushedAttempt(uow[s], j, n)
  BY CommittedAttempts DEF WSerialInv, SerialInv, IInv, TypeOK
<1>2. attempts'[j][n].external
  BY <1>1, ExternalStays
<1>3. CASE ~(j \in DOMAIN uow[s].writes /\ w.number = n)
  BY <1>1, <1>2, <1>3 DEF FlushedAttempt, StateStays
<1>4. CASE j \in DOMAIN uow[s].writes /\ w.number = n
  <2>1. attempts'[j][n]
          = FlushAttempt(attempts[j][n], w.loadedAttempt, w.assignedAttempt)
    BY <1>1, <1>4 DEF FlushedAttempt
  <2>2. new = Net(attempts[j][n].state, w.loadedAttempt.state, w.assignedAttempt.state)
    BY <1>1, <2>1, FlushAttemptState
  <2>3. WriteFits(s, j, w)
    BY <1>4 DEF WSerialInv, SubmissionsFit, PendingWritesFit
  <2>4. CASE w.assignedAttempt.state = w.loadedAttempt.state
    BY <1>2, <2>2, <2>4 DEF Net, StateStays
  <2>5. CASE w.assignedAttempt.state # w.loadedAttempt.state
    <3>1. new = w.assignedAttempt.state
      BY <2>2, <2>5 DEF Net
    <3> QED BY <1>2, <1>4, <2>3, <2>5, <3>1 DEF WriteFits, StateStays
  <2> QED BY <2>4, <2>5
<1> QED BY <1>3, <1>4

LEMMA TouchesStates ==
  ASSUME WSerialInv, NEW s, Touches(s), NEW j \in DOMAIN jobs,
         NEW n \in DOMAIN attempts[j], attempts[j][n].external
  PROVE  StateStays(s, j, n)
<1>1. CASE attempts'[j] = attempts[j]
  BY <1>1 DEF StateStays
<1>2. ASSUME Commit(s) PROVE StateStays(s, j, n)
  BY <1>2, CommitStates DEF Commit, Close
<1>3. CASE CommitInsert(s)
  <2>1. attempts'[j] = attempts[j]
    BY <1>3 DEF CommitInsert, WSerialInv, SerialInv, IInv, TypeOK
  <2> QED BY <1>1, <2>1
<1>4. CASE Leaves \/ (\E writes : Opens(s, writes)) \/ Rollback(s)
  <2>1. attempts' = attempts
    BY <1>4 DEF Leaves, Opens, Begin, Rollback, tables
  <2> QED BY <1>1, <2>1
<1> QED BY <1>2, <1>3, <1>4 DEF Touches, CloseStep

\* What was accepted is still on record ...
LEMMA AcceptedStaysKept ==
  ASSUME WSerialInv, NEW s, Touches(s),
         NEW j \in JobIds, NEW i \in DOMAIN accepted[j]
  PROVE  /\ attempts'[j][accepted[j][i]].external
         /\ attempts'[j][accepted[j][i]].state \notin Refusals
<1> DEFINE n == accepted[j][i]
<1>1. j \in DOMAIN jobs /\ n \in DOMAIN attempts[j]
  BY DEF WSerialInv, WInv, BInv, AcceptedOnce
<1>2. attempts[j][n].external /\ attempts[j][n].state \notin Refusals
  BY DEF WSerialInv, SubmissionsFit, AcceptedIsKept
<1>3. StateStays(s, j, n)
  BY <1>1, <1>2, TouchesStates
<1>4. ASSUME attempts'[j][n].state \in Refusals,
             Reports(s, j, n, attempts'[j][n].state)
      PROVE  FALSE
  <2>1. /\ s \in Workers /\ main[s] \notin Resting
        /\ ctx[s].job = j /\ ctx[s].attempt = n /\ ctx[s].outcome \in Unanswered
    BY <1>4 DEF Reports, Resting
  <2>2. SubmitsOnce(s)
    BY <2>1 DEF WSerialInv, WInv, BInv, WorkerTells
  <2> QED BY <2>1, <2>2 DEF SubmitsOnce
<1> QED BY <1>2, <1>3, <1>4 DEF StateStays, Refusals, CertainStates

\* ... and nobody else reports the attempt of a worker that is submitting.
LEMMA CallStaysUncertain ==
  ASSUME WSerialInv, NEW s, Touches(s), NEW v \in Workers,
         main[v] = "calling", ctx[v].submits
  PROVE  attempts'[ctx[v].job][ctx[v].attempt].state \notin CertainStates
<1> DEFINE j == ctx[v].job
           n == ctx[v].attempt
<1>1. /\ j \in DOMAIN jobs /\ n \in DOMAIN attempts[j] /\ attempts[j][n].external
      /\ main[v] \notin Resting
  BY WorkerFacts
     DEF WSerialInv, WInv, BInv, WorkerTells, Attempting, Bounding, Resting
<1>2. attempts[j][n].state \notin CertainStates
  BY DEF WSerialInv, SubmissionsFit, SubmissionFits
<1>3. StateStays(s, j, n)
  BY <1>1, TouchesStates
<1>4. ASSUME Reports(s, j, n, attempts'[j][n].state)
      PROVE  FALSE
  <2>1. /\ s \in Workers /\ s # v /\ main[s] \notin Resting
        /\ ctx[s].job = j /\ ctx[s].attempt = n
    BY <1>4 DEF Reports, Resting
  <2> QED BY <1>1, <2>1 DEF WSerialInv, WInv, BInv, OneWorkerPerAttempt
<1> QED BY <1>2, <1>3, <1>4 DEF StateStays

\* The boundary a worker flushes leaves its attempt uncertain.
LEMMA BoundaryIsUncertain ==
  ASSUME WSerialInv, NEW w \in Workers, main[w] = "persisting", ctx[w].external,
         Commit(w)
  PROVE  attempts'[ctx[w].job][ctx[w].attempt].state \notin CertainStates
<1> DEFINE j == ctx[w].job
           n == ctx[w].attempt
           d == uow[w].writes[j]
<1>1. /\ w \in DOMAIN uow /\ j \in DOMAIN jobs /\ n \in DOMAIN attempts[j]
      /\ j \in DOMAIN uow[w].writes /\ d.number = n
      /\ d.assignedAttempt.state = "SUBMIT_UNKNOWN"
  BY WorkerFacts
     DEF WSerialInv, WInv, BInv, WorkerTells, Attempting, Bounding, Resting, Holding,
         SubmissionsFit, SubmissionFits
<1>2. /\ attempts'[j][n] = FlushedAttempt(uow[w], j, n)
      /\ attempts[j][n] \in AttemptRow /\ n # 0
  BY <1>1, CommittedAttempts DEF WSerialInv, SerialInv, IInv, TypeOK
<1>3. d.loadedAttempt = attempts[j][n]
  BY <1>1, <1>2 DEF WSerialInv, SerialInv, QInv, PendingMoves, Moves, Current
<1>4. attempts'[j][n]
        = FlushAttempt(attempts[j][n], d.loadedAttempt, d.assignedAttempt)
  BY <1>1, <1>2 DEF FlushedAttempt
<1>5. attempts'[j][n].state
        = Net(attempts[j][n].state, d.loadedAttempt.state, d.assignedAttempt.state)
  BY <1>2, <1>4, FlushAttemptState
<1>6. attempts'[j][n].state = "SUBMIT_UNKNOWN"
  BY <1>1, <1>3, <1>5 DEF Net
<1> QED BY <1>6 DEF CertainStates

-----------------------------------------------------------------------------
(***************************************************************************)
(* What is left to be written.                                             *)
(***************************************************************************)
\* A write that says nothing certain of an attempt that came to its boundary.
SaysNothing(j, w) ==
  /\ w.assignedAttempt.state \in CertainStates
  /\ w.assignedAttempt.state # w.loadedAttempt.state
  => w.number # 0 /\ ~attempts[j][w.number].external

LEMMA RecoverySaysNothing ==
  ASSUME IInv, NEW j \in ExpiredJobs
  PROVE  SaysNothing(j, RecoverExpiredLeases[j])
<1>1. j \in DOMAIN jobs
  BY DEF ExpiredJobs
<1>2. PICK w : w = RecoverExpiredLeases[j]
  OBVIOUS
<1>3. CASE LatestNumber(j) = 0
  <2>1. w = RowWrite(j, RecoveredJob(j))
    BY <1>2, <1>3 DEF RecoverExpiredLeases
  <2>2. w.assignedAttempt = NewAttempt /\ w.loadedAttempt = NewAttempt
    BY <2>1 DEF RowWrite
  <2>3. SaysNothing(j, w)
    BY <2>2 DEF SaysNothing
  <2> QED BY <1>2, <2>3
<1>4. CASE LatestNumber(j) # 0
  <2>1. w = PairWrite(j, RecoveredJob(j), RecoveredAttempt(j))
    BY <1>2, <1>4 DEF RecoverExpiredLeases
  <2>2. w.assignedAttempt = RecoveredAttempt(j) /\ w.number = LatestNumber(j)
    BY <2>1 DEF PairWrite
  <2>3. Latest(j) \in AttemptRow /\ Latest(j) = attempts[j][LatestNumber(j)]
    BY <1>1, <1>4, LatestIsCount DEF IInv, Latest
  <2>4. ASSUME ExternalPossible(j) PROVE SaysNothing(j, w)
    <3>1. RecoveredAttempt(j).state = "SUBMIT_UNKNOWN"
      BY <2>3, <2>4 DEF RecoveredAttempt, AttemptRow
    <3> QED BY <2>2, <3>1 DEF SaysNothing, CertainStates
  <2>5. ASSUME ~ExternalPossible(j) PROVE SaysNothing(j, w)
    <3>1. ~attempts[j][LatestNumber(j)].external
      BY <1>4, <2>3, <2>5 DEF ExternalPossible
    <3> QED BY <1>4, <2>2, <3>1 DEF SaysNothing
  <2> QED BY <1>2, <2>4, <2>5
<1> QED BY <1>3, <1>4

LEMMA OpenedWritesFit ==
  ASSUME Serializable, NEW s, NEW writes, Opens(s, writes),
         \A j \in DOMAIN writes : WriteFits(s, j, writes[j])'
  PROVE  PendingWritesFit'
<1>1. DOMAIN uow' = {s} /\ uow'[s].writes = writes
  BY OpensAlone
<1> SUFFICES ASSUME NEW j \in DOMAIN uow'[s].writes
             PROVE  WriteFits(s, j, uow[s].writes[j])'
  BY <1>1 DEF PendingWritesFit
<1>2. WriteFits(s, j, writes[j])'
  BY <1>1
<1> QED BY <1>1, <1>2 DEF WriteFits

LEMMA SilentWritesFit ==
  ASSUME Serializable, NEW s, NEW writes, Opens(s, writes),
         \A j \in DOMAIN writes : SaysNothing(j, writes[j])
  PROVE  PendingWritesFit'
<1>1. DOMAIN uow' = {s} /\ uow'[s].writes = writes /\ attempts' = attempts
  BY OpensAlone
<1> SUFFICES ASSUME NEW j \in DOMAIN uow'[s].writes
             PROVE  WriteFits(s, j, uow[s].writes[j])'
  BY <1>1 DEF PendingWritesFit
<1>2. SaysNothing(j, writes[j])
  BY <1>1
<1> QED BY <1>1, <1>2 DEF WriteFits, SaysNothing

LEMMA RecoveryFits ==
  ASSUME Serializable, IInv, NEW s, Opens(s, RecoverExpiredLeases)
  PROVE  PendingWritesFit'
<1>1. DOMAIN RecoverExpiredLeases = ExpiredJobs
  BY DEF RecoverExpiredLeases
<1> QED BY <1>1, RecoverySaysNothing, SilentWritesFit

\* A heartbeat announces a submission or repeats what it read.
LEMMA HeartbeatFits ==
  ASSUME Serializable, IInv, NEW s, MayOpen(s), NEW j \in DOMAIN jobs, NEW w,
         NEW calls, NEW external, Heartbeat(s, j, w, calls, external)
  PROVE  /\ PendingWritesFit'
         /\ external => uow'[s].writes[j].assignedAttempt.state = "SUBMIT_UNKNOWN"
<1> DEFINE attempt == [Latest(j) EXCEPT !.calls = calls]
           leased == [jobs[j] EXCEPT !.expires = clock + LeaseTicks]
           a == IF external THEN [leased EXCEPT !.submitted = TRUE] ELSE leased
           b == IF external
                THEN [attempt EXCEPT !.external = TRUE, !.state = "SUBMIT_UNKNOWN"]
                ELSE attempt
           d == PairWrite(j, a, b)
           writes == [i \in {j} |-> d]
<1>1. OwnedRunning(j, w) /\ Begin(s, writes, None, None, {})
  BY DEF Heartbeat, BeginWrite, BeginWrites
<1>2. Latest(j) \in AttemptRow
  BY <1>1, OwnedFacts
<1>3. /\ external => b.state = "SUBMIT_UNKNOWN"
      /\ ~external => b.state = Latest(j).state
  BY <1>2 DEF AttemptRow
<1>4. d.assignedAttempt = b /\ d.loadedAttempt = Latest(j)
  BY DEF PairWrite
<1>5. DOMAIN writes = {j} /\ writes[j] = d
  OBVIOUS
<1> HIDE DEF b, d, writes
<1>6. SaysNothing(j, d)
  BY <1>3, <1>4 DEF SaysNothing, CertainStates
<1>7. Opens(s, writes)
  BY <1>1 DEF Opens
<1>8. PendingWritesFit'
  BY <1>5, <1>6, <1>7, SilentWritesFit
<1>9. uow'[s].writes[j] = d
  BY <1>5, <1>7, OpensAlone
<1> QED BY <1>3, <1>4, <1>8, <1>9

\* A user says nothing of an attempt.
LEMMA UserFits ==
  ASSUME Serializable, NEW s, MayOpen(s), UserStep(s)
  PROVE  PendingWritesFit'
<1>1. ASSUME NEW r \in Requests, Create(s, r)
      PROVE  PendingWritesFit'
  <2>1. Opens(s, NoWrites)
    BY <1>1 DEF Create, Opens
  <2>2. DOMAIN NoWrites = {}
    BY DEF NoWrites
  <2> QED BY <2>1, <2>2, SilentWritesFit
<1>2. ASSUME NEW j, NEW from, NEW to, SetStatus(s, j, from, to)
      PROVE  PendingWritesFit'
  <2> DEFINE d == RowWrite(j, [jobs[j] EXCEPT !.status = to])
             writes == [i \in {j} |-> d]
  <2>1. Opens(s, writes)
    BY <1>2 DEF SetStatus, BeginWrite, BeginWrites, Opens
  <2>2. d.assignedAttempt = NewAttempt /\ d.loadedAttempt = NewAttempt
    BY DEF RowWrite
  <2>3. DOMAIN writes = {j} /\ writes[j] = d
    OBVIOUS
  <2> HIDE DEF d, writes
  <2>4. SaysNothing(j, d)
    BY <2>2 DEF SaysNothing
  <2> QED BY <2>1, <2>3, <2>4, SilentWritesFit
<1> QED BY <1>1, <1>2 DEF UserStep, Pause, Resume, Cancel, Retry

\* A worker reports the attempt it works on, and no refusal once the provider was
\* reached.
LEMMA ReportFits ==
  ASSUME Serializable, WSerialInv, NEW w \in Workers, MayOpen(w), Report(w),
         main[w] = "finalizing", main'[w] = "closing", ctx' = ctx
  PROVE  PendingWritesFit'
<1> DEFINE c == ctx[w]
           j == c.job
<1>1. /\ IInv /\ j \in DOMAIN jobs /\ c \in ContextRow
      /\ Attempting(w) /\ ContextFits("finalizing", c)
  BY WorkerFacts
     DEF WSerialInv, SerialInv, WInv, BInv, WorkerTells, SubmissionsFit, SubmissionFits,
         Resting
<1>2. ASSUME NEW a, NEW b, BeginWrite(w, j, PairWrite(j, a, b)), OwnedRunning(j, w),
             \/ b.state \notin CertainStates \/ b.state = "RESPONSE_RECEIVED"
             \/ b.state = c.result.state
      PROVE  PendingWritesFit'
  <2>1. PICK k, d : k = j /\ d = PairWrite(j, a, b)
    OBVIOUS
  <2>2. PICK writes : writes = [i \in {k} |-> d]
    OBVIOUS
  <2>3. Opens(w, writes) /\ DOMAIN writes = {k} /\ writes[k] = d
    BY <1>2, <2>1, <2>2 DEF BeginWrite, BeginWrites, Opens
  <2>4. d.number = c.attempt /\ d.number # 0 /\ d.assignedAttempt = b
    <3>1. LatestNumber(j) = jobs[j].count /\ jobs[j].owner = w /\ LatestNumber(j) # 0
      BY <1>1, <1>2, LatestIsCount DEF IInv, OwnedRunning
    <3>2. jobs[j].count = c.attempt
      BY <1>1, <3>1 DEF Attempting, Resting
    <3> QED BY <2>1, <3>1, <3>2 DEF PairWrite
  <2>5. b.state \in Refusals => c.outcome \in Unanswered
    BY <1>1, <1>2 DEF ContextFits, Resting, Refusals, CertainStates
  <2>6. /\ main'[w] = "closing" /\ ctx'[w].job = k /\ ctx'[w].attempt = d.number
        /\ d.assignedAttempt.state \in Refusals => ctx'[w].outcome \in Unanswered
    BY <2>1, <2>4, <2>5
  <2>7. WriteFits(w, k, d)'
    BY <2>4, <2>6 DEF WriteFits, Reports
  <2> QED BY <2>3, <2>7, OpenedWritesFit
<1>3. ASSUME OwnedRunning(j, w) PROVE Latest(j) \in AttemptRow
  BY <1>1, <1>3, OwnedFacts
<1>4. ASSUME NEW o, NEW e, Complete(w, j, w, c.calls, o, e)
      PROVE  PendingWritesFit'
  <2> DEFINE a == [Released(jobs[j]) EXCEPT !.status = "SUCCEEDED",
                     !.submitted = @ \/ o, !.uncertain = FALSE, !.result = e]
             b == [Latest(j) EXCEPT !.status = "SUCCEEDED", !.calls = c.calls,
                     !.state = IF c.calls > 0 \/ Latest(j).external
                               THEN "RESPONSE_RECEIVED" ELSE "NOT_STARTED"]
  <2>1. OwnedRunning(j, w) /\ BeginWrite(w, j, PairWrite(j, a, b))
    BY <1>4 DEF Complete
  <2>2. b.state \in {"RESPONSE_RECEIVED", "NOT_STARTED"}
    BY <1>3, <2>1 DEF AttemptRow
  <2> HIDE DEF a, b
  <2> QED BY <1>2, <2>1, <2>2 DEF CertainStates
<1>5. ASSUME Fail(w, j, w, c.calls, c.external, c.result.state)
      PROVE  PendingWritesFit'
  <2> DEFINE a == [Released(jobs[j]) EXCEPT !.status = "FAILED", !.uncertain = FALSE]
             b == [Latest(j) EXCEPT !.status = "FAILED", !.calls = c.calls,
                                    !.state = c.result.state]
  <2>1. OwnedRunning(j, w) /\ BeginWrite(w, j, PairWrite(j, a, b))
    BY <1>5 DEF Fail
  <2>2. b.state = c.result.state
    BY <1>3, <2>1 DEF AttemptRow
  <2> HIDE DEF a, b
  <2> QED BY <1>2, <2>1, <2>2
<1>6. ASSUME MarkSubmitUnknown(w, j, w, c.calls)
      PROVE  PendingWritesFit'
  <2> DEFINE a == [Released(jobs[j]) EXCEPT !.status = "SUBMIT_UNKNOWN",
                     !.uncertain = TRUE, !.submitted = TRUE]
             b == [Latest(j) EXCEPT !.status = "SUBMIT_UNKNOWN", !.calls = c.calls,
                     !.external = TRUE, !.state = "SUBMIT_UNKNOWN"]
  <2>1. OwnedRunning(j, w) /\ BeginWrite(w, j, PairWrite(j, a, b))
    BY <1>6 DEF MarkSubmitUnknown
  <2>2. b.state = "SUBMIT_UNKNOWN"
    BY <1>3, <2>1 DEF AttemptRow
  <2> HIDE DEF a, b
  <2> QED BY <1>2, <2>1, <2>2 DEF CertainStates
<1>7. \/ \E o, e \in BOOLEAN : Complete(w, j, w, c.calls, o, e)
      \/ MarkSubmitUnknown(w, j, w, c.calls)
      \/ Fail(w, j, w, c.calls, c.external, c.result.state)
  <2> HIDE DEF c
  <2> QED BY DEF Report, c
<1> QED BY <1>4, <1>5, <1>6, <1>7

\* A session that closes was the only one; steps beside the sessions leave the
\* reports that are under way.
LEMMA ClosedFits ==
  ASSUME Alone, NEW s, CloseStep(s)
  PROVE  PendingWritesFit'
<1>1. s \in DOMAIN uow /\ DOMAIN uow' = DOMAIN uow \ {s}
  BY DEF CloseStep, Commit, CommitInsert, Rollback, Close
<1>2. DOMAIN uow' = {}
  BY <1>1 DEF Alone
<1> QED BY <1>2 DEF PendingWritesFit

LEMMA LeftFits ==
  ASSUME PendingWritesFit, Leaves,
         \A v \in Workers : main[v] = "closing" => main'[v] = main[v] /\ ctx'[v] = ctx[v]
  PROVE  PendingWritesFit'
BY DEF PendingWritesFit, Leaves, WriteFits, Reports

-----------------------------------------------------------------------------
(***************************************************************************)
(* What the workers know of their submissions.                             *)
(***************************************************************************)
LEMMA TouchesCalm ==
  ASSUME WInv, NEW s, Touches(s)
  PROVE  Calm(s)
<1>1. CASE Leaves
  BY <1>1, UnwrittenIsCalm DEF Leaves
<1>2. ASSUME NEW writes, Opens(s, writes) PROVE Calm(s)
  BY <1>2, BeginIsCalm DEF Opens
<1>3. CASE CloseStep(s)
  BY <1>3, CommitIsCalm, CommitInsertIsCalm, RollbackIsCalm DEF CloseStep
<1> QED BY <1>1, <1>2, <1>3 DEF Touches

\* A worker moves itself only.
LEMMA OthersStay ==
  ASSUME WInv, NEW w \in Workers, MainStep(w) \/ BeatStep(w) \/ Dies(w),
         NEW v \in Workers, v # w
  PROVE  main'[v] = main[v] /\ ctx'[v] = ctx[v]
<1>1. /\ \A m : Goto(w, m) => main'[v] = main[v]
      /\ \A c : With(w, c) => ctx'[v] = ctx[v]
      /\ LoseLease(w) => ctx'[v] = ctx[v]
  BY DEF Goto, With, LoseLease, WInv, IWInv, WTypeOK
<1>2. \A c, state : Checkpoint(w, c, state) => main'[v] = main[v] /\ ctx'[v] = ctx[v]
  BY <1>1 DEF Checkpoint
<1>3. \A calls : Refused(w, calls) \/ RefusedLate(w) => ctx'[v] = ctx[v]
  BY <1>1 DEF Refused, RefusedLate
<1>4. CASE MainStep(w)
  <2>1. CASE \/ RunOnce(w) \/ Claimed(w) \/ Marked(w) \/ Finalized(w)
             \/ RecoveryEnds(w) \/ Aborts(w) \/ Join(w)
    BY <1>1, <2>1 DEF RunOnce, Claimed, Marked, Finalized, RecoveryEnds, Aborts, Join
  <2>2. CASE \/ \E submits \in BOOLEAN : Announce(w, submits)
             \/ \E o \in Outcome, a \in BOOLEAN : Call(w, o, a)
             \/ AnnouncePersist(w) \/ Return(w) \/ BoundaryPersisted(w)
    BY <1>1, <1>2, <2>2 DEF Announce, AnnouncePersist, Call, Return, BoundaryPersisted
  <2>3. CASE PersistBoundary(w) \/ Finalize(w)
    BY <1>1, <1>3, <2>3 DEF PersistBoundary, Finalize
  <2> QED BY <1>4, <2>1, <2>2, <2>3 DEF MainStep
<1>5. CASE BeatStep(w)
  BY <1>1, <1>3, <1>5 DEF BeatStep, BeatWakes, Beats, BeatEnds, BeatStops
<1>6. CASE Dies(w)
  BY <1>1, <1>6 DEF Dies
<1> QED BY <1>4, <1>5, <1>6

\* The others keep what they know.
LEMMA OthersFit ==
  ASSUME WSerialInv, NEW s, Touches(s), NEW v \in Workers, v # s,
         main'[v] = main[v], ctx'[v] = ctx[v]
  PROVE  SubmissionFits(v)'
<1>1. SubmissionFits(v) /\ Calm(s)
  BY TouchesCalm DEF WSerialInv, SubmissionsFit
<1>2. main[v] = "persisting" => v \in DOMAIN uow' /\ uow'[v] = uow[v]
  BY <1>1, WorkerFacts DEF WSerialInv, Holding, Calm
<1>3. main[v] = "calling" /\ ctx[v].submits =>
        attempts'[ctx[v].job][ctx[v].attempt].state \notin CertainStates
  BY CallStaysUncertain
<1> QED BY <1>1, <1>2, <1>3 DEF SubmissionFits, ContextFits

LEMMA SameContextFits ==
  ASSUME NEW m, NEW n, NEW c, NEW d, ContextFits(m, c), SameBounds(d, c),
         d.result = c.result, n \notin Resting => m \notin Resting,
         n \in Acting => m \in Acting
  PROVE  ContextFits(n, d)
BY DEF ContextFits, SameBounds

LEMMA UpdatesKeepResult ==
  ASSUME NEW c \in ContextRow
  PROVE  /\ [c EXCEPT !.lost = TRUE].result = c.result
         /\ [c EXCEPT !.seenCalls = c.calls, !.seenExternal = c.external].result
              = c.result
BY DEF ContextRow

\* A handler that was stopped reports no refusal.
LEMMA StoppedFits ==
  ASSUME NEW c \in ContextRow, NEW m, m \notin Resting, ContextFits(m, c)
  PROVE  ContextFits("joining", [c EXCEPT !.result = Interrupted(c)])
<1> DEFINE d == [c EXCEPT !.result = Interrupted(c)]
<1>1. SameBounds(d, c)
  BY UpdatesKeepBounds
<1>2. d.result = Interrupted(c)
  BY DEF ContextRow
<1>3. Interrupted(c).state = "NOT_STARTED"
  BY DEF Interrupted, Unknown, Failed
<1> HIDE DEF d
<1>4. ContextFits("joining", d)
  BY <1>1, <1>2, <1>3 DEF ContextFits, SameBounds, Refusals
<1> QED BY <1>4 DEF d

LEMMA CheckpointFits ==
  ASSUME WSerialInv, NEW w \in Workers, NEW c \in ContextRow, NEW state,
         Checkpoint(w, c, state), ContextFits(state, c),
         state \notin Resting, state # "persisting",
         state = "calling" /\ c.submits =>
           attempts'[c.job][c.attempt].state \notin CertainStates
  PROVE  SubmissionFits(w)'
<1>1. /\ \A m : Goto(w, m) => main'[w] = m
      /\ \A d : With(w, d) => ctx'[w] = d
  BY DEF Goto, With, WSerialInv, WInv, IWInv, WTypeOK
<1>2. PICK d : d = [c EXCEPT !.result = Interrupted(c)]
  OBVIOUS
<1>3. CASE Goto(w, "joining") /\ With(w, d)
  <2>1. main'[w] = "joining" /\ ctx'[w] = d
    BY <1>1, <1>3
  <2>2. ContextFits("joining", d)
    BY <1>2, StoppedFits
  <2> QED BY <2>1, <2>2 DEF SubmissionFits, ContextFits
<1>4. CASE Goto(w, state) /\ With(w, c)
  <2>1. main'[w] = state /\ ctx'[w] = c
    BY <1>1, <1>4
  <2> QED BY <2>1 DEF SubmissionFits, ContextFits
<1> QED BY <1>2, <1>3, <1>4 DEF Checkpoint

\* A worker that goes on with what it knows, or loses its lease.
LEMMA GoingFits ==
  ASSUME WSerialInv, NEW w \in Workers, Touches(w), NEW m, Goto(w, m), NEW c,
         With(w, c), SameBounds(c, ctx[w]), c.result = ctx[w].result,
         m \notin Resting => main[w] \notin Resting,
         m \in Acting => main[w] \in Acting,
         m = "persisting" /\ ctx[w].external =>
           uow'[w].writes[ctx[w].job].assignedAttempt.state = "SUBMIT_UNKNOWN",
         m = "calling" /\ ctx[w].submits => main[w] = "calling"
  PROVE  SubmissionFits(w)'
<1>1. main'[w] = m /\ ctx'[w] = c
  BY DEF Goto, With, WSerialInv, WInv, IWInv, WTypeOK
<1>2. ContextFits(main[w], ctx[w])
  BY DEF WSerialInv, SubmissionsFit, SubmissionFits
<1>3. ContextFits(m, c)
  BY <1>2, SameContextFits
<1>4. m = "calling" /\ ctx[w].submits =>
        attempts'[ctx[w].job][ctx[w].attempt].state \notin CertainStates
  BY CallStaysUncertain
<1> QED BY <1>1, <1>3, <1>4 DEF SubmissionFits, ContextFits, SameBounds

LEMMA LosingFits ==
  ASSUME WSerialInv, NEW w \in Workers, Touches(w), NEW m, Goto(w, m),
         ctx' = ctx \/ LoseLease(w),
         m \notin Resting => main[w] \notin Resting,
         m \in Acting => main[w] \in Acting,
         m = "persisting" /\ ctx[w].external =>
           uow'[w].writes[ctx[w].job].assignedAttempt.state = "SUBMIT_UNKNOWN",
         m = "calling" /\ ctx[w].submits => main[w] = "calling"
  PROVE  SubmissionFits(w)'
<1>1. PICK c : c = [ctx[w] EXCEPT !.lost = TRUE]
  OBVIOUS
<1>2. /\ IWInv /\ SameBounds(c, ctx[w]) /\ SameBounds(ctx[w], ctx[w])
      /\ c.result = ctx[w].result
  BY <1>1, WorkerFacts, UpdatesKeepBounds, UpdatesKeepResult DEF WSerialInv
<1>3. With(w, ctx[w]) \/ With(w, c)
  BY <1>1, <1>2, Unmoved DEF LoseLease
<1>4. CASE With(w, c)
  BY <1>2, <1>4, GoingFits
<1>5. CASE With(w, ctx[w])
  BY <1>2, <1>5, GoingFits
<1> QED BY <1>3, <1>4, <1>5

LEMMA RestFits ==
  ASSUME WSerialInv, NEW w \in Workers, NEW m \in Resting, Goto(w, m)
  PROVE  SubmissionFits(w)'
<1>1. main'[w] = m
  BY DEF Goto, WSerialInv, WInv, IWInv, WTypeOK
<1> QED BY <1>1 DEF SubmissionFits, ContextFits, Resting

-----------------------------------------------------------------------------
(***************************************************************************)
(* The steps of a worker keep what it knows.                               *)
(***************************************************************************)
LEMMA AnnounceFits ==
  ASSUME WSerialInv, NEW w \in Workers, NEW submits \in BOOLEAN,
         Announce(w, submits) \/ AnnouncePersist(w)
  PROVE  SubmissionFits(w)'
<1>1. /\ main[w] = "handling" /\ ctx[w] \in ContextRow /\ WInv
      /\ ContextFits("handling", ctx[w])
  BY WorkerFacts
     DEF Announce, AnnouncePersist, WSerialInv, SubmissionsFit, SubmissionFits
<1>2. ContextFits("locking", ctx[w])
  BY <1>1 DEF ContextFits, Resting, Acting
<1>3. ASSUME Checkpoint(w, ctx[w], "locking") PROVE SubmissionFits(w)'
  BY <1>1, <1>2, <1>3, CheckpointFits DEF Resting
<1>4. ASSUME NEW c \in ContextRow, Checkpoint(w, c, "locking"), c.external,
             c.outcome = ctx[w].outcome, c.result = ctx[w].result
      PROVE  SubmissionFits(w)'
  <2>1. ContextFits("locking", c)
    BY <1>2, <1>4 DEF ContextFits
  <2> QED BY <1>4, <2>1, CheckpointFits DEF Resting
<1>5. ASSUME NEW c \in ContextRow, Checkpoint(w, c, "locking"),
             c.external = ctx[w].external,
             c.outcome = ctx[w].outcome, c.result = ctx[w].result
      PROVE  SubmissionFits(w)'
  <2>1. ContextFits("locking", c)
    BY <1>2, <1>5 DEF ContextFits
  <2> QED BY <1>5, <2>1, CheckpointFits DEF Resting
<1>6. CASE Announce(w, submits) /\ ~(ctx[w].lost \/ stop[w])
  <2>1. PICK c : c = [ctx[w] EXCEPT !.calls = @ + 1, !.submits = submits,
                                    !.external = @ \/ submits]
    OBVIOUS
  <2>2. c \in ContextRow
    <3>1. ctx[w].calls + 1 \in 0..MaxCalls
      BY <1>1, <1>6, BoundsAssumption DEF Announce, ContextRow
    <3>2. (ctx[w].external \/ submits) \in BOOLEAN
      OBVIOUS
    <3> QED BY <1>1, <2>1, <3>1, <3>2 DEF ContextRow
  <2>3. c.outcome = ctx[w].outcome /\ c.result = ctx[w].result
    BY <1>1, <2>1 DEF ContextRow
  <2>4. c.external = (ctx[w].external \/ submits)
    BY <1>1, <2>1 DEF ContextRow
  <2>5. Checkpoint(w, c, "locking")
    BY <1>6, <2>1 DEF Announce
  <2>6. c.external \/ c.external = ctx[w].external
    <3>1. ctx[w].external \in BOOLEAN /\ c.external \in BOOLEAN
      BY <1>1, <2>2 DEF ContextRow
    <3> QED BY <2>4, <3>1
  <2> QED BY <1>4, <1>5, <2>2, <2>3, <2>5, <2>6
<1>7. CASE AnnouncePersist(w) /\ ~(ctx[w].lost \/ stop[w])
  <2>1. PICK c : c = [ctx[w] EXCEPT !.submits = FALSE, !.external = TRUE]
    OBVIOUS
  <2>2. c \in ContextRow /\ c.outcome = ctx[w].outcome /\ c.result = ctx[w].result
    BY <1>1, <2>1 DEF ContextRow
  <2>3. c.external = TRUE
    BY <1>1, <2>1 DEF ContextRow
  <2>4. Checkpoint(w, c, "locking")
    BY <1>7, <2>1 DEF AnnouncePersist
  <2> QED BY <1>4, <2>2, <2>3, <2>4
<1>8. CASE ctx[w].lost \/ stop[w]
  <2>1. Checkpoint(w, ctx[w], "locking")
    BY <1>8 DEF Announce, AnnouncePersist
  <2> QED BY <1>3, <2>1
<1> QED BY <1>6, <1>7, <1>8

LEMMA PersistBoundaryFits ==
  ASSUME Serializable, WSerialInv, NEW w \in Workers, PersistBoundary(w)
  PROVE  SubmissionFits(w)' /\ PendingWritesFit'
<1>1. /\ main[w] = "locking" /\ MayOpen(w) /\ IInv /\ ctx[w].job \in DOMAIN jobs
  BY WorkerFacts DEF PersistBoundary, WSerialInv, SerialInv, Resting
<1>2. CASE /\ Heartbeat(w, ctx[w].job, w, ctx[w].calls, ctx[w].external)
           /\ Goto(w, "persisting") /\ ctx' = ctx
  <2>1. /\ PendingWritesFit'
        /\ ctx[w].external =>
             uow'[w].writes[ctx[w].job].assignedAttempt.state = "SUBMIT_UNKNOWN"
    BY <1>1, <1>2, HeartbeatFits
  <2>2. Touches(w)
    BY <1>1, <1>2, HeartbeatOpens DEF Touches
  <2> QED BY <1>1, <1>2, <2>1, <2>2, LosingFits DEF Resting, Acting
<1>3. CASE (Refused(w, ctx[w].calls) \/ RefusedLate(w)) /\ Goto(w, "joining")
  <2>1. Leaves \/ Opens(w, RecoverExpiredLeases)
    BY <1>1, <1>3, RefusalTouches
  <2>2. PendingWritesFit'
    <3>1. \A v \in Workers : main[v] = "closing" => main'[v] = main[v] /\ ctx'[v] = ctx[v]
      BY <1>1, OthersStay DEF WSerialInv, MainStep
    <3> QED BY <1>1, <2>1, <3>1, RecoveryFits, LeftFits DEF WSerialInv, SubmissionsFit
  <2>3. Touches(w) /\ (ctx' = ctx \/ LoseLease(w))
    BY <1>3, <2>1, RefusalKeepsContext DEF Touches
  <2>4. SubmissionFits(w)'
    BY <1>1, <1>3, <2>3, LosingFits DEF Resting, Acting
  <2> QED BY <2>2, <2>4
<1> QED BY <1>2, <1>3 DEF PersistBoundary

LEMMA BoundaryPersistedFits ==
  ASSUME WSerialInv, NEW w \in Workers, BoundaryPersisted(w)
  PROVE  SubmissionFits(w)'
<1>1. /\ main[w] = "persisting" /\ ctx[w] \in ContextRow /\ Touches(w)
      /\ ctx[w].submits => ctx[w].external
      /\ ContextFits("persisting", ctx[w])
  BY WorkerFacts
     DEF BoundaryPersisted, Touches, CloseStep, WSerialInv, SubmissionsFit, SubmissionFits
<1>2. CASE Commit(w) /\ Checkpoint(w, ctx[w], "calling")
  <2>1. ContextFits("calling", ctx[w])
    BY <1>1 DEF ContextFits, Resting, Acting
  <2>2. ctx[w].submits =>
          attempts'[ctx[w].job][ctx[w].attempt].state \notin CertainStates
    BY <1>1, <1>2, BoundaryIsUncertain
  <2> QED BY <1>1, <1>2, <2>1, <2>2, CheckpointFits DEF Resting
<1>3. CASE Goto(w, "joining") /\ LoseLease(w)
  BY <1>1, <1>3, LosingFits DEF Resting, Acting
<1> QED BY <1>2, <1>3 DEF BoundaryPersisted

LEMMA CallFits ==
  ASSUME WSerialInv, NEW w \in Workers, NEW outcome \in Outcome, NEW accepts \in BOOLEAN,
         Call(w, outcome, accepts)
  PROVE  SubmissionFits(w)'
<1>1. /\ main[w] = "calling" /\ ctx[w] \in ContextRow /\ Touches(w)
      /\ Goto(w, "handling")
      /\ ctx[w].submits => ctx[w].external
      /\ ContextFits("calling", ctx[w])
  BY WorkerFacts
     DEF Call, Touches, Leaves, vars, WSerialInv, SubmissionsFit, SubmissionFits
<1>2. CASE ~ctx[w].submits
  <2>1. ctx' = ctx
    BY <1>2 DEF Call
  <2> QED BY <1>1, <2>1, LosingFits DEF Resting, Acting
<1>3. CASE ctx[w].submits
  <2>1. PICK c : c = [ctx[w] EXCEPT !.outcome = outcome]
    OBVIOUS
  <2>2. c.external = ctx[w].external /\ c.result = ctx[w].result
    BY <1>1, <2>1 DEF ContextRow
  <2>3. main'[w] = "handling" /\ ctx'[w] = c
    BY <1>1, <1>3, <2>1 DEF Call, Goto, With, WSerialInv, WInv, IWInv, WTypeOK
  <2>4. ContextFits("handling", c)
    BY <1>1, <1>3, <2>2 DEF ContextFits, Resting, Acting
  <2> QED BY <2>3, <2>4 DEF SubmissionFits, ContextFits
<1> QED BY <1>2, <1>3

\* What a handler returns once the provider was reached is no refusal.
LEMMA ResultFits ==
  ASSUME NEW c, c.outcome \in Outcome, NEW r \in HandlerResults(c),
         c.outcome \notin Unanswered
  PROVE  r.state \notin Refusals
<1>1. /\ Succeeded.state \notin Refusals /\ Unknown.state \notin Refusals
      /\ Failed("RESPONSE_RECEIVED").state \notin Refusals
  BY DEF Succeeded, Unknown, Failed, Refusals
<1>2. CASE c.outcome = "answered"
  BY <1>1, <1>2 DEF HandlerResults
<1>3. CASE c.outcome = "silent"
  BY <1>1, <1>3 DEF HandlerResults
<1> QED BY <1>2, <1>3 DEF Outcome, Unanswered

LEMMA ReturnFits ==
  ASSUME WSerialInv, NEW w \in Workers, Return(w)
  PROVE  SubmissionFits(w)'
<1>1. /\ main[w] = "handling" /\ ctx[w] \in ContextRow /\ ctx[w].outcome \in Outcome
      /\ ContextFits("handling", ctx[w])
  BY WorkerFacts DEF Return, ContextRow, WSerialInv, SubmissionsFit, SubmissionFits
<1>2. ASSUME NEW r \in HandlerResults(ctx[w]),
             Checkpoint(w, [ctx[w] EXCEPT !.result = r], "joining")
      PROVE  SubmissionFits(w)'
  <2>1. PICK c : c = [ctx[w] EXCEPT !.result = r]
    OBVIOUS
  <2>2. /\ c \in ContextRow /\ c.external = ctx[w].external
        /\ c.outcome = ctx[w].outcome /\ c.result = r
    <3>1. c \in ContextRow
      BY <1>1, <2>1, ResultTypes, ContextUpdates
    <3> QED BY <1>1, <2>1, <3>1 DEF ContextRow
  <2>3. Checkpoint(w, c, "joining")
    BY <1>2, <2>1
  <2>4. c.outcome \notin Unanswered => c.external /\ r.state \notin Refusals
    BY <1>1, <2>2, ResultFits DEF ContextFits, Resting
  <2>5. ContextFits("joining", c)
    BY <2>2, <2>4 DEF ContextFits, Acting
  <2> QED BY <2>2, <2>3, <2>5, CheckpointFits DEF Resting
<1>3. ASSUME Goto(w, "joining"),
             With(w, [ctx[w] EXCEPT !.result = Interrupted(ctx[w])])
      PROVE  SubmissionFits(w)'
  <2>1. PICK c : c = [ctx[w] EXCEPT !.result = Interrupted(ctx[w])]
    OBVIOUS
  <2>2. main'[w] = "joining" /\ ctx'[w] = c
    BY <1>3, <2>1 DEF Goto, With, WSerialInv, WInv, IWInv, WTypeOK
  <2>3. ContextFits("joining", c)
    BY <1>1, <2>1, StoppedFits DEF Resting
  <2> QED BY <2>2, <2>3 DEF SubmissionFits, ContextFits
<1> QED BY <1>2, <1>3 DEF Return

\* Steps that leave the sessions as they are, by a worker that reports nothing.
LEMMA StillFits ==
  ASSUME WSerialInv, NEW w \in Workers, MainStep(w) \/ BeatStep(w) \/ Dies(w), Leaves,
         main[w] # "closing"
  PROVE  PendingWritesFit'
<1>1. \A v \in Workers : main[v] = "closing" => main'[v] = main[v] /\ ctx'[v] = ctx[v]
  BY OthersStay DEF WSerialInv
<1> QED BY <1>1, LeftFits DEF WSerialInv, SubmissionsFit

\* A refusal leaves the sessions alone, or a recovery to be committed.
LEMMA RefusalFits ==
  ASSUME Serializable, WSerialInv, NEW w \in Workers, MainStep(w) \/ BeatStep(w),
         main[w] # "closing", MayOpen(w), NEW calls, Refused(w, calls) \/ RefusedLate(w)
  PROVE  Touches(w) /\ PendingWritesFit' /\ (ctx' = ctx \/ LoseLease(w))
<1>1. Leaves \/ Opens(w, RecoverExpiredLeases)
  BY RefusalTouches
<1>2. PendingWritesFit'
  BY <1>1, RecoveryFits, StillFits DEF WSerialInv, SerialInv
<1> QED BY <1>1, <1>2, RefusalKeepsContext DEF Touches

LEMMA JoinFits ==
  ASSUME WSerialInv, NEW w \in Workers, Join(w)
  PROVE  SubmissionFits(w)'
<1>1. main[w] = "joining" /\ Touches(w)
  BY DEF Join, Touches, Leaves, vars
<1>2. CASE Goto(w, "idle")
  BY <1>2, RestFits DEF Resting
<1>3. CASE Goto(w, "finalizing") /\ ctx' = ctx
  BY <1>1, <1>3, LosingFits DEF Resting, Acting
<1> QED BY <1>2, <1>3 DEF Join

LEMMA FinalizeFits ==
  ASSUME Serializable, WSerialInv, NEW w \in Workers, Finalize(w)
  PROVE  SubmissionFits(w)' /\ PendingWritesFit'
<1>1. /\ main[w] = "finalizing" /\ MayOpen(w) /\ IInv /\ ctx[w].job \in DOMAIN jobs
      /\ MainStep(w)
  BY WorkerFacts DEF Finalize, MainStep, WSerialInv, SerialInv, Resting
<1>2. CASE Heartbeat(w, ctx[w].job, w, ctx[w].calls, TRUE) /\ Goto(w, "marking") /\ ctx' = ctx
  <2>1. PendingWritesFit' /\ Touches(w)
    BY <1>1, <1>2, HeartbeatFits, HeartbeatOpens DEF Touches
  <2> QED BY <1>1, <1>2, <2>1, LosingFits DEF Resting, Acting
<1>3. CASE (Refused(w, ctx[w].calls) \/ RefusedLate(w)) /\ Goto(w, "joining")
  <2>1. Touches(w) /\ PendingWritesFit' /\ (ctx' = ctx \/ LoseLease(w))
    BY <1>1, <1>3, RefusalFits
  <2> QED BY <1>1, <1>3, <2>1, LosingFits DEF Resting, Acting
<1>4. CASE Report(w) /\ Goto(w, "closing") /\ ctx' = ctx
  <2>1. main'[w] = "closing"
    BY <1>4 DEF Goto, WSerialInv, WInv, IWInv, WTypeOK
  <2>2. PendingWritesFit' /\ Touches(w)
    BY <1>1, <1>4, <2>1, ReportFits, ReportOpens DEF Touches
  <2> QED BY <1>1, <1>4, <2>2, LosingFits DEF Resting, Acting
<1>5. CASE RefusedLate(w) /\ Goto(w, "closing") /\ ctx' = ctx
  <2>1. Touches(w) /\ PendingWritesFit'
    BY <1>1, <1>5, RefusalFits
  <2> QED BY <1>1, <1>5, <2>1, LosingFits DEF Resting, Acting
<1> QED BY <1>2, <1>3, <1>4, <1>5 DEF Finalize

LEMMA MarkedFits ==
  ASSUME WSerialInv, NEW w \in Workers, Marked(w)
  PROVE  SubmissionFits(w)'
<1>1. /\ main[w] = "marking" /\ ctx[w] \in ContextRow /\ Touches(w)
      /\ ContextFits("marking", ctx[w])
  BY WorkerFacts
     DEF Marked, Touches, CloseStep, WSerialInv, SubmissionsFit, SubmissionFits
<1>2. CASE Goto(w, "finalizing") /\ With(w, [ctx[w] EXCEPT !.external = TRUE])
  <2>1. PICK c : c = [ctx[w] EXCEPT !.external = TRUE]
    OBVIOUS
  <2>2. c.outcome = ctx[w].outcome /\ c.result = ctx[w].result
    BY <1>1, <2>1 DEF ContextRow
  <2>3. c.external = TRUE
    BY <1>1, <2>1 DEF ContextRow
  <2>4. main'[w] = "finalizing" /\ ctx'[w] = c
    BY <1>2, <2>1 DEF Goto, With, WSerialInv, WInv, IWInv, WTypeOK
  <2>5. ContextFits("finalizing", c)
    BY <1>1, <2>2, <2>3 DEF ContextFits, Resting, Acting
  <2> QED BY <2>4, <2>5 DEF SubmissionFits, ContextFits
<1>3. CASE Goto(w, "joining") /\ LoseLease(w)
  BY <1>1, <1>3, LosingFits DEF Resting, Acting
<1> QED BY <1>2, <1>3 DEF Marked

LEMMA ClaimedFits ==
  ASSUME WSerialInv, NEW w \in Workers, Claimed(w)
  PROVE  SubmissionFits(w)'
<1>1. CASE Goto(w, "idle")
  BY <1>1, RestFits DEF Resting
<1>2. ASSUME NEW j, NEW n, Goto(w, "handling"), With(w, Context(j, n))
      PROVE  SubmissionFits(w)'
  <2>1. /\ Context(j, n).outcome = "none"
        /\ Context(j, n).result.state = "NOT_STARTED"
    BY DEF Context, Succeeded
  <2>2. main'[w] = "handling" /\ ctx'[w] = Context(j, n)
    BY <1>2 DEF Goto, With, WSerialInv, WInv, IWInv, WTypeOK
  <2>3. ctx'[w].outcome \in Unanswered /\ ctx'[w].result.state \notin Refusals
    BY <2>1, <2>2 DEF Unanswered, Refusals
  <2> QED BY <2>2, <2>3 DEF SubmissionFits, ContextFits
<1> QED BY <1>1, <1>2 DEF Claimed

\* The heartbeat thread, and the end of a recovery, leave the main thread where it is.
LEMMA BesideFits ==
  ASSUME Serializable, WSerialInv, NEW w \in Workers, BeatStep(w) \/ RecoveryEnds(w)
  PROVE  SubmissionFits(w)' /\ PendingWritesFit'
<1>1. Goto(w, main[w]) /\ ctx[w] \in ContextRow /\ IInv
  BY Unmoved, WorkerFacts
     DEF BeatStep, BeatWakes, Beats, BeatEnds, BeatStops, RecoveryEnds, WSerialInv, WInv
<1>2. /\ BeatStep(w) => main[w] \in Renewing
      /\ main[w] \in Holding => w \in DOMAIN uow
      /\ beat[w] = "writing" => main[w] \notin Holding
      /\ main[w] = "persisting" /\ ctx[w].external =>
           uow[w].writes[ctx[w].job].assignedAttempt.state = "SUBMIT_UNKNOWN"
  BY WorkerFacts
     DEF BeatStep, BeatWakes, Beats, BeatEnds, BeatStops, WSerialInv, SubmissionsFit,
         SubmissionFits
<1>3. CASE BeatWakes(w)
  <2>1. PICK c : c = [ctx[w] EXCEPT !.seenCalls = ctx[w].calls,
                                    !.seenExternal = ctx[w].external]
    OBVIOUS
  <2>2. SameBounds(c, ctx[w]) /\ c.result = ctx[w].result
    BY <1>1, <2>1, UpdatesKeepBounds, UpdatesKeepResult
  <2>3. With(w, c) /\ Leaves /\ Touches(w) /\ main[w] # "closing"
    BY <1>2, <1>3, <2>1 DEF BeatWakes, BeatStep, Touches, Leaves, vars, Renewing
  <2>4. SubmissionFits(w)'
    BY <1>1, <1>2, <2>2, <2>3, GoingFits DEF Leaves
  <2> QED BY <1>3, <2>3, <2>4, StillFits DEF BeatStep
<1>4. CASE BeatStops(w)
  <2>1. ctx' = ctx /\ Leaves /\ Touches(w) /\ main[w] = "joining"
    BY <1>4 DEF BeatStops, Touches, Leaves, vars
  <2> QED BY <1>1, <1>4, <2>1, StillFits, LosingFits DEF BeatStep
<1>5. CASE Beats(w)
  <2>1. /\ MayOpen(w) /\ main[w] \notin Holding /\ main[w] # "closing"
        /\ ctx[w].job \in DOMAIN jobs
    BY <1>2, <1>5, WorkerFacts
       DEF Beats, BeatStep, MayOpen, Holding, Renewing, Resting, WSerialInv
  <2>2. CASE /\ Heartbeat(w, ctx[w].job, w, ctx[w].seenCalls, ctx[w].seenExternal)
             /\ ctx' = ctx
    <3>1. PendingWritesFit' /\ Touches(w)
      BY <1>1, <2>1, <2>2, HeartbeatFits, HeartbeatOpens DEF Touches
    <3> QED BY <1>1, <2>1, <2>2, <3>1, LosingFits DEF Holding
  <2>3. CASE Refused(w, ctx[w].seenCalls) \/ RefusedLate(w)
    <3>1. Touches(w) /\ PendingWritesFit' /\ (ctx' = ctx \/ LoseLease(w))
      BY <1>5, <2>1, <2>3, RefusalFits DEF BeatStep
    <3> QED BY <1>1, <2>1, <3>1, LosingFits DEF Holding
  <2> QED BY <1>5, <2>2, <2>3 DEF Beats
<1>6. CASE BeatEnds(w) \/ RecoveryEnds(w)
  <2>1. /\ CloseStep(w) /\ main[w] \notin Holding
        /\ ctx' = ctx \/ LoseLease(w)
    BY <1>2, <1>6 DEF BeatEnds, RecoveryEnds, CloseStep, Holding
  <2>2. PendingWritesFit' /\ Touches(w)
    BY <2>1, ClosedFits DEF WSerialInv, Touches
  <2> QED BY <1>1, <2>1, <2>2, LosingFits DEF Holding
<1> QED BY <1>3, <1>4, <1>5, <1>6 DEF BeatStep

LEMMA MainStepFits ==
  ASSUME Serializable, WSerialInv, NEW w \in Workers, MainStep(w)
  PROVE  SubmissionFits(w)' /\ PendingWritesFit'
<1>1. ASSUME CloseStep(w) PROVE PendingWritesFit'
  BY <1>1, ClosedFits DEF WSerialInv
<1>2. ASSUME Leaves, main[w] # "closing" PROVE PendingWritesFit'
  BY <1>2, StillFits
<1>3. CASE RunOnce(w)
  <2>1. main[w] = "idle" /\ (Goto(w, "stopped") \/ Goto(w, "claiming"))
    BY <1>3 DEF RunOnce
  <2>2. PendingWritesFit'
    <3>1. CASE UNCHANGED vars
      BY <1>2, <2>1, <3>1 DEF vars, Leaves
    <3>2. CASE MayOpen(w) /\ Claim(w, w, {})
      <4>1. Opens(w, RecoverExpiredLeases)
        BY <3>2 DEF Claim, Opens
      <4> QED BY <4>1, RecoveryFits DEF WSerialInv, SerialInv
    <3> QED BY <1>3, <3>1, <3>2 DEF RunOnce
  <2> QED BY <2>1, <2>2, RestFits DEF Resting
<1>4. CASE Claimed(w)
  BY <1>1, <1>4, ClaimedFits DEF Claimed, CloseStep
<1>5. ASSUME NEW submits \in BOOLEAN, Announce(w, submits) \/ AnnouncePersist(w)
      PROVE  SubmissionFits(w)' /\ PendingWritesFit'
  <2>1. Leaves /\ main[w] = "handling"
    BY <1>5 DEF Announce, AnnouncePersist, Leaves, vars
  <2> QED BY <1>2, <1>5, <2>1, AnnounceFits
<1>6. CASE BoundaryPersisted(w)
  BY <1>1, <1>6, BoundaryPersistedFits DEF BoundaryPersisted, CloseStep
<1>7. ASSUME NEW outcome \in Outcome, NEW accepts \in BOOLEAN, Call(w, outcome, accepts)
      PROVE  SubmissionFits(w)' /\ PendingWritesFit'
  <2>1. Leaves /\ main[w] = "calling"
    BY <1>7 DEF Call, Leaves, vars
  <2> QED BY <1>2, <1>7, <2>1, CallFits
<1>8. CASE Return(w)
  <2>1. Leaves /\ main[w] = "handling"
    BY <1>8 DEF Return, Leaves, vars
  <2> QED BY <1>2, <1>8, <2>1, ReturnFits
<1>9. CASE Join(w)
  <2>1. Leaves /\ main[w] = "joining"
    BY <1>9 DEF Join, Leaves, vars
  <2> QED BY <1>2, <1>9, <2>1, JoinFits
<1>10. CASE Marked(w)
  BY <1>1, <1>10, MarkedFits DEF Marked, CloseStep
<1>11. CASE Finalized(w) \/ Aborts(w)
  BY <1>1, <1>11, RestFits DEF Finalized, Aborts, CloseStep, Resting
<1> QED BY <1>3, <1>4, <1>5, <1>6, <1>7, <1>8, <1>9, <1>10, <1>11, PersistBoundaryFits,
           FinalizeFits, BesideFits DEF MainStep

-----------------------------------------------------------------------------
(***************************************************************************)
(* The invariant of the serial composition.                                *)
(***************************************************************************)
\* The provider accepts the submission of an attempt that is in doubt.
LEMMA CallKeepsAccepted ==
  ASSUME WSerialInv, NEW w \in Workers, NEW outcome \in Outcome, NEW accepts \in BOOLEAN,
         Call(w, outcome, accepts)
  PROVE  AcceptedIsKept'
<1> DEFINE j == ctx[w].job
           n == ctx[w].attempt
<1>1. attempts' = attempts /\ AcceptedIsKept
  BY DEF Call, vars, WSerialInv, SubmissionsFit
<1>2. CASE accepted' = accepted
  BY <1>1, <1>2 DEF AcceptedIsKept
<1>3. CASE ctx[w].submits /\ accepted' = [accepted EXCEPT ![j] = Append(@, n)]
  <2>1. main[w] = "calling" /\ accepted \in [JobIds -> Seq(Nat)] /\ n \in Nat
    BY WorkerFacts DEF Call, ContextRow, WSerialInv, WInv, IWInv, WTypeOK
  <2>2. attempts[j][n].external /\ attempts[j][n].state \notin Refusals
    <3>1. attempts[j][n].external
      BY <1>3, <2>1 DEF WSerialInv, WInv, BInv, WorkerTells, Bounding
    <3>2. attempts[j][n].state \notin CertainStates
      BY <1>3, <2>1 DEF WSerialInv, SubmissionsFit, SubmissionFits
    <3> QED BY <3>1, <3>2 DEF Refusals, CertainStates
  <2>3. \A i \in JobIds : \A k \in DOMAIN accepted'[i] :
          \/ k \in DOMAIN accepted[i] /\ accepted'[i][k] = accepted[i][k]
          \/ i = j /\ accepted'[i][k] = n
    <3> TAKE i \in JobIds
    <3>1. accepted[i] \in Seq(Nat)
      BY <2>1
    <3>2. CASE i # j
      BY <1>3, <2>1, <3>2
    <3>3. CASE i = j
      <4>1. accepted'[i] = Append(accepted[i], n)
        BY <1>3, <2>1, <3>3
      <4> HIDE DEF j, n
      <4> QED BY <2>1, <3>1, <3>3, <4>1
    <3> QED BY <3>2, <3>3
  <2> SUFFICES ASSUME NEW i \in JobIds, NEW k \in DOMAIN accepted'[i]
               PROVE  /\ attempts[i][accepted'[i][k]].external
                      /\ attempts[i][accepted'[i][k]].state \notin Refusals
    BY <1>1 DEF AcceptedIsKept
  <2> QED BY <1>1, <2>2, <2>3 DEF AcceptedIsKept
<1> QED BY <1>2, <1>3 DEF Call

LEMMA WorkerKeepsFit ==
  ASSUME Serializable, WSerialInv, NEW w \in Workers,
         MainStep(w) \/ BeatStep(w) \/ Dies(w)
  PROVE  SubmissionsFit'
<1>1. Touches(w)
  <2>1. Dies(w) => Touches(w)
    BY DEF Dies, Touches, Leaves, CloseStep, vars
  <2> QED BY <2>1, MainStepTouches, BeatStepTouches
<1>2. SubmissionFits(w)' /\ PendingWritesFit'
  <2>1. CASE MainStep(w) \/ BeatStep(w)
    BY <2>1, MainStepFits, BesideFits
  <2>2. CASE Dies(w)
    <3>1. SubmissionFits(w)'
      BY <2>2, RestFits DEF Dies, Resting
    <3>2. CASE w \in DOMAIN uow
      BY <2>2, <3>1, <3>2, ClosedFits DEF Dies, CloseStep, WSerialInv
    <3>3. CASE w \notin DOMAIN uow
      <4>1. Leaves /\ main[w] # "closing"
        BY <2>2, <3>3, WorkerFacts DEF Dies, Leaves, vars, Holding, WSerialInv
      <4> QED BY <2>2, <3>1, <4>1, StillFits
    <3> QED BY <3>2, <3>3
  <2> QED BY <2>1, <2>2
<1>3. \A v \in Workers : SubmissionFits(v)'
  BY <1>1, <1>2, OthersStay, OthersFit DEF WSerialInv
<1>4. AcceptedIsKept'
  <2>1. ASSUME accepted' = accepted PROVE AcceptedIsKept'
    BY <1>1, <2>1, AcceptedStaysKept DEF AcceptedIsKept
  <2>2. \/ accepted' = accepted
        \/ \E outcome \in Outcome, accepts \in BOOLEAN : Call(w, outcome, accepts)
    BY DEF MainStep, RunOnce, Claimed, Announce, AnnouncePersist, PersistBoundary,
           BoundaryPersisted, Return, Join, Finalize, Marked, Finalized, RecoveryEnds,
           Aborts, BeatStep, BeatWakes, Beats, BeatEnds, BeatStops, Dies
  <2> QED BY <2>1, <2>2, CallKeepsAccepted
<1> QED BY <1>2, <1>3, <1>4 DEF SubmissionsFit

LEMMA OthersKeepFit ==
  ASSUME WSerialInv, NEW s, s \notin Workers, Touches(s), PendingWritesFit',
         main' = main, ctx' = ctx, accepted' = accepted
  PROVE  SubmissionsFit'
<1>1. \A v \in Workers : SubmissionFits(v)'
  BY OthersFit
<1>2. AcceptedIsKept'
  BY AcceptedStaysKept DEF AcceptedIsKept
<1> QED BY <1>1, <1>2 DEF SubmissionsFit

LEMMA WNextKeepsFit ==
  ASSUME Serializable, WSerialInv, [WNext]_wvars
  PROVE  SubmissionsFit'
<1>1. ASSUME NEW s \in Users, UserActs(s) PROVE SubmissionsFit'
  <2>1. s \notin Workers /\ main' = main /\ ctx' = ctx /\ accepted' = accepted
    BY <1>1 DEF UserActs, Users, threads
  <2>2. Touches(s) /\ PendingWritesFit'
    BY <1>1, UserOpens, UserFits, ClosedFits DEF UserActs, Touches, WSerialInv
  <2> QED BY <2>1, <2>2, OthersKeepFit
<1>2. ASSUME Leaves, main' = main, ctx' = ctx, accepted' = accepted
      PROVE  SubmissionsFit'
  <2>1. PendingWritesFit'
    BY <1>2, LeftFits DEF WSerialInv, SubmissionsFit
  <2>2. Touches(None)
    BY <1>2 DEF Touches
  <2> QED BY <1>2, <2>1, <2>2, NoneAssumption, OthersKeepFit
<1>3. ASSUME NEW w \in Workers, RequestStop(w) PROVE SubmissionsFit'
  BY <1>2, <1>3 DEF RequestStop, vars, threads, Leaves
<1>4. CASE Elapse \/ UNCHANGED wvars
  BY <1>2, <1>4 DEF Elapse, Tick, tables, wvars, vars, threads, Leaves
<1> QED BY <1>1, <1>3, <1>4, WorkerKeepsFit DEF WNext

LEMMA WInitSerialInv == WInit => WSerialInv
<1> SUFFICES ASSUME WInit PROVE WSerialInv
  OBVIOUS
<1>1. /\ Init /\ uow = <<>> /\ \A j \in JobIds : accepted[j] = <<>>
      /\ \A w \in Workers : main[w] = "idle"
  BY DEF WInit, Init
<1>2. WInv
  BY <1>1, WInitIWInv, InitDInv, WInitBInv DEF WInv
<1>3. SubmissionsFit
  BY <1>1 DEF SubmissionsFit, PendingWritesFit, AcceptedIsKept, SubmissionFits,
              ContextFits, Resting
<1> QED BY <1>1, <1>2, <1>3, InitSerialInv DEF WSerialInv, Alone

LEMMA WNextKeepsSerialInv ==
  ASSUME Serializable, WSerialInv, [WNext]_wvars
  PROVE  WSerialInv'
<1>1. Alone'
  BY StepTouches, TouchesAlone DEF WSerialInv
<1>2. SerialInv'
  BY <1>1, StepIsQueueStep, NextKeepsSerialInv DEF WSerialInv, WInv
<1> QED BY <1>1, <1>2, WNextKeepsWInv, WNextKeepsFit DEF WSerialInv

\* When sessions do not interleave, rows, units of work, workers and the provider
\* agree in every reachable state.
THEOREM SerialInvariance == Serializable => (WSpec => []WSerialInv)
<1> SUFFICES ASSUME Serializable PROVE WSpec => []WSerialInv
  OBVIOUS
<1>1. WSerialInv /\ [WNext]_wvars => WSerialInv'
  BY WNextKeepsSerialInv
<1> QED BY <1>1, WInitSerialInv, PTL DEF WSpec

\* What the run worker_forgets refutes of interleaved sessions holds when they do
\* not interleave: an accepted submission has its response on record, or is the
\* last attempt of a job that is running or in doubt.
THEOREM AcceptedAreNotForgotten == Serializable => (WSpec => []AcceptedIsNotForgotten)
<1> SUFFICES ASSUME Serializable PROVE WSpec => []AcceptedIsNotForgotten
  OBVIOUS
<1>1. WSerialInv => AcceptedIsNotForgotten
  <2> SUFFICES ASSUME WSerialInv, NEW j \in JobIds, NEW i \in DOMAIN accepted[j],
                      attempts[j][accepted[j][i]].state # "RESPONSE_RECEIVED"
               PROVE  /\ accepted[j][i] = jobs[j].count
                      /\ attempts[j][accepted[j][i]].external
                      /\ jobs[j].status \in {"RUNNING", "SUBMIT_UNKNOWN"}
    BY DEF AcceptedIsNotForgotten
  <2> DEFINE n == accepted[j][i]
  <2>1. j \in DOMAIN jobs /\ n \in DOMAIN attempts[j]
    BY DEF WSerialInv, WInv, BInv, AcceptedOnce
  <2>2. attempts[j][n].external /\ Unresolved(attempts[j][n])
    BY DEF WSerialInv, SubmissionsFit, AcceptedIsKept, Refusals, CertainStates, Unresolved
  <2>3. n = jobs[j].count
    BY <2>1, <2>2 DEF WSerialInv, SerialInv, UnresolvedIsLatest
  <2>4. AttemptTells(j, n)
    BY <2>1, TellsByAttempt DEF WSerialInv, SerialInv, QInv
  <2>5. jobs[j].status \in {"RUNNING", "SUBMIT_UNKNOWN"}
    BY <2>2, <2>4 DEF AttemptTells, Running
  <2> QED BY <2>2, <2>3, <2>5
<1> QED BY <1>1, SerialInvariance, PTL

\* When sessions do not interleave, two workers never submit the same job at the
\* same time: a worker that may be submitting holds the last attempt of its job.
THEOREM SubmittersAreAlone == Serializable => (WSpec => []OneSubmitter)
<1> SUFFICES ASSUME Serializable PROVE WSpec => []OneSubmitter
  OBVIOUS
<1>1. WSerialInv => OneSubmitter
  <2> SUFFICES ASSUME WSerialInv, NEW v \in Workers, NEW w \in Workers, NEW j \in JobIds,
                      Submitting(v, j), Submitting(w, j), v # w
               PROVE  FALSE
    BY DEF OneSubmitter
  <2>1. ASSUME NEW u \in Workers, Submitting(u, j)
        PROVE  main[u] \notin Resting /\ ctx[u].job = j /\ ctx[u].attempt = jobs[j].count
    <3>1. /\ main[u] = "calling" /\ main[u] \notin Resting
          /\ ctx[u].submits /\ ctx[u].job = j
      BY <2>1 DEF Submitting, Resting
    <3>2. j \in DOMAIN jobs /\ ctx[u].attempt \in DOMAIN attempts[j]
      BY <3>1, WorkerFacts DEF WSerialInv, WInv, BInv, WorkerTells, Attempting
    <3>3. attempts[j][ctx[u].attempt].external
      BY <3>1 DEF WSerialInv, WInv, BInv, WorkerTells, Bounding
    <3>4. attempts[j][ctx[u].attempt].state \notin CertainStates
      BY <3>1 DEF WSerialInv, SubmissionsFit, SubmissionFits
    <3>5. Unresolved(attempts[j][ctx[u].attempt])
      BY <3>3, <3>4 DEF Unresolved
    <3> QED BY <3>1, <3>2, <3>5 DEF WSerialInv, SerialInv, UnresolvedIsLatest
  <2>2. /\ main[v] \notin Resting /\ ctx[v].job = j /\ ctx[v].attempt = jobs[j].count
        /\ main[w] \notin Resting /\ ctx[w].job = j /\ ctx[w].attempt = jobs[j].count
    BY <2>1
  <2> QED BY <2>2 DEF WSerialInv, WInv, BInv, OneWorkerPerAttempt
<1> QED BY <1>1, SerialInvariance, PTL

\* Workers and users whose sessions do not interleave do to each job what
\* JobLifecycle promises of it.
THEOREM SerialWorkersImplementLifecycle == Serializable => (WSpec => ImplementsLifecycle)
<1> SUFFICES ASSUME Serializable PROVE WSpec => ImplementsLifecycle
  OBVIOUS
<1>1. WInit => Lifecycle!Init
  BY InitMaps DEF WInit
<1>2. WSerialInv /\ [WNext]_wvars => [Lifecycle!Next]_(Lifecycle!vars)
  BY StepIsQueueStep, SerialStepMaps DEF WSerialInv, WInv
<1> QED BY <1>1, <1>2, SerialInvariance, PTL DEF WSpec, ImplementsLifecycle, Lifecycle!Spec
=============================================================================
