--------------------------- MODULE MCPublications ---------------------------
(***************************************************************************)
(* Bounded instances of Publications.                                      *)
(***************************************************************************)
EXTENDS Publications, TLC

AnyFault == {"crash", "stop", "write"}
=============================================================================
