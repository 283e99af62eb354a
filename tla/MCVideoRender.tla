--------------------------- MODULE MCVideoRender ---------------------------
(***************************************************************************)
(* Bounded instances of VideoRender.                                       *)
(***************************************************************************)
EXTENDS VideoRender, TLC

Symmetry == Permutations(Callers)

FailedWrites == {"lease", "write"}
AllFaults == {"crash", "lease", "write"}
=============================================================================
