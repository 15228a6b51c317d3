-------------------------- MODULE MCFirestoreQueue --------------------------
(***************************************************************************)
(* FirestoreQueue on small sets for TLC.                                   *)
(***************************************************************************)
EXTENDS FirestoreQueue, TLC

\* Agents, proposals and callers are interchangeable.
Symmetry == Permutations(Agent) \cup Permutations(Caller)
=============================================================================
