---------------------------- MODULE JobLifecycle ----------------------------
(***************************************************************************)
(* What the execution queue promises about one job, without leases,        *)
(* sessions or rows.  A job waits, may be held, and is worked on a limited *)
(* number of times.  doubt tells that work on it may have reached the      *)
(* provider with no certain outcome; a job in doubt is never worked on     *)
(* again, it either gets its outcome from the work in progress or ends as  *)
(* unknown.  Jobs are independent of each other: a step may move several.  *)
(***************************************************************************)
EXTENDS Naturals

CONSTANTS
  Jobs,    \* the jobs there may be
  Limits   \* how many times a job may be worked on, positive numbers

VARIABLES phase, remaining, doubt

vars == <<phase, remaining, doubt>>
job(j) == <<phase[j], remaining[j], doubt[j]>>

Phases == {"absent", "waiting", "held", "working", "succeeded", "failed",
           "unknown", "cancelled"}
Final == {"succeeded", "unknown", "cancelled"}

Init ==
  /\ phase = [j \in Jobs |-> "absent"]
  /\ remaining = [j \in Jobs |-> 0]
  /\ doubt = [j \in Jobs |-> FALSE]

Move(j, from, to) == phase[j] \in from /\ phase'[j] = to
Keep(j) == remaining'[j] = remaining[j]

Submit(j) ==
  /\ Move(j, {"absent"}, "waiting")
  /\ remaining'[j] \in Limits
  /\ ~doubt'[j]

Hold(j)     == Move(j, {"waiting"}, "held") /\ Keep(j) /\ ~doubt'[j]
Release(j)  == Move(j, {"held"}, "waiting") /\ Keep(j) /\ ~doubt'[j]
Withdraw(j) == Move(j, {"waiting", "held"}, "cancelled") /\ Keep(j) /\ ~doubt'[j]

Start(j) ==
  /\ Move(j, {"waiting"}, "working")
  /\ remaining[j] > 0
  /\ remaining'[j] = remaining[j] - 1
  /\ ~doubt'[j]

\* The work is about to reach the provider.
Expose(j) == Move(j, {"working"}, "working") /\ Keep(j) /\ doubt'[j]

Succeed(j) == Move(j, {"working"}, "succeeded") /\ Keep(j) /\ ~doubt'[j]
FailJob(j) == Move(j, {"working"}, "failed") /\ Keep(j) /\ ~doubt'[j]
GiveUp(j)  == Move(j, {"working"}, "unknown") /\ Keep(j) /\ doubt'[j]

\* The worker vanished before it could have reached the provider.
Requeue(j) ==
  /\ ~doubt[j]
  /\ remaining[j] > 0
  /\ Move(j, {"working"}, "waiting")
  /\ Keep(j) /\ ~doubt'[j]
Abandon(j) ==
  /\ ~doubt[j]
  /\ remaining[j] = 0
  /\ Move(j, {"working"}, "failed")
  /\ Keep(j) /\ ~doubt'[j]

\* An explicit retry of a failure that is certain.
Again(j) ==
  /\ ~doubt[j]
  /\ remaining[j] > 0
  /\ Move(j, {"failed"}, "waiting")
  /\ Keep(j) /\ ~doubt'[j]

Step(j) ==
  \/ Submit(j) \/ Hold(j) \/ Release(j) \/ Withdraw(j) \/ Start(j) \/ Expose(j)
  \/ Succeed(j) \/ FailJob(j) \/ GiveUp(j) \/ Requeue(j) \/ Abandon(j) \/ Again(j)

Next == \A j \in Jobs : Step(j) \/ UNCHANGED job(j)

Spec == Init /\ [][Next]_vars
=============================================================================
