--------------------------- MODULE MCIssueLedger ---------------------------
(***************************************************************************)
(* IssueLedger on small sets for TLC.                                      *)
(***************************************************************************)
EXTENDS IssueLedger

\* Calls are interchangeable.
Symmetry == Permutations(CallId)
=============================================================================
