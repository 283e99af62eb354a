------------------------- MODULE MCExecutionWorker -------------------------
(***************************************************************************)
(* Instances of ExecutionWorker for TLC.                                   *)
(***************************************************************************)
EXTENDS ExecutionWorker, TLC

CONSTANTS w1, w2, u1

\* One paid generation (strategy_job_service.py), and one publication.
OneRequest == {[key |-> "k1", type |-> "strategy", priority |-> 0, ckey |-> None,
                cost |-> 0, confirmed |-> FALSE, max |-> 2]}
OneAttempt == {[r EXCEPT !.max = 1] : r \in OneRequest}

Symmetry == Permutations(Workers)
=============================================================================
