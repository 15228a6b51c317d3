----------------------------- MODULE MCSOCFleet -----------------------------
(***************************************************************************)
(* SOCFleet on small sets for TLC.                                         *)
(***************************************************************************)
EXTENDS SOCFleet, TLC

\* Agents, and proposals, are interchangeable.
Symmetry == Permutations(Agent) \cup Permutations(Proposal)
=============================================================================
