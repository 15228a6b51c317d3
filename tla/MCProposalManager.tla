------------------------- MODULE MCProposalManager -------------------------
(***************************************************************************)
(* ProposalManager on small sets for TLC.                                  *)
(***************************************************************************)
EXTENDS ProposalManager, TLC

\* Agents are interchangeable, and so are submissions.
AgentSymmetry      == Permutations(Agent)
SubmissionSymmetry == Permutations(Submission)
=============================================================================
