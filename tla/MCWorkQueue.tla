---------------------------- MODULE MCWorkQueue ----------------------------
(***************************************************************************)
(* WorkQueue on small sets for TLC.                                        *)
(***************************************************************************)
EXTENDS WorkQueue, TLC

\* Agents, and proposals, are interchangeable.
Symmetry == Permutations(Agent) \cup Permutations(Proposal)
=============================================================================
