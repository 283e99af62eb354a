-------------------------- MODULE MCExecutionQueue --------------------------
(***************************************************************************)
(* Instances of ExecutionQueue for TLC: the requests the runs create.      *)
(***************************************************************************)
EXTENDS ExecutionQueue, TLC

CONSTANTS w1, w2, s1, s2

Request(key, type, priority, ckey, max) ==
  [key |-> key, type |-> type, priority |-> priority, ckey |-> ckey,
   cost |-> 0, confirmed |-> FALSE, max |-> max]

\* One job that may be attempted twice.
OneRequest == {Request("k1", "script", 0, None, 2)}

\* A job that may be attempted twice and one that may not, sharing a slot;
\* the second may also be asked for at a cost nobody confirmed.
TwoRequests == {Request("k1", "script", 0, "slot", 2),
                Request("k2", "publish", 0, "slot", 1),
                [Request("k2", "publish", 1, "slot", 1) EXCEPT !.cost = 5]}

Symmetry == Permutations(Workers) \cup Permutations(Sessions)
=============================================================================
