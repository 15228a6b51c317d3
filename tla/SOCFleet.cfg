\* One issue, two agents: one fault and two interventions, one attempt per retry window.
CONSTANTS
  Agent = {a1, a2}
  NoAgent = NoAgent
  Proposal = {p1}
  NoProposal = NoProposal
  IssueId = {i1}
  NoIssue = NoIssue
  MaxGeneration = 6
  MaxFailures = 8
  MaxAttempts = 1
  MaxConcurrent = 2
  MaxInterventions = 2
  MaxFaults = 1
SPECIFICATION FleetSafety
SYMMETRY Symmetry
INVARIANTS
  NoDoubleRun
  RetryBudget
  AppliedIsMerged
PROPERTIES
  UsesQueue
