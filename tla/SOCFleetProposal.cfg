\* A run that is interrupted after its proposal was linked.
CONSTANTS
  Agent = {a1, a2}
  NoAgent = NoAgent
  Proposal = {p1}
  NoProposal = NoProposal
  IssueId = {i1}
  NoIssue = NoIssue
  MaxGeneration = 6
  MaxFailures = 8
  MaxAttempts = 2
  MaxConcurrent = 2
  MaxInterventions = 0
  MaxFaults = 0
SPECIFICATION FleetSafety
PROPERTIES
  ProposalKeepsIssue
