\* The fleet left alone, with one fault: two attempts per issue.
CONSTANTS
  Agent = {a1, a2}
  NoAgent = NoAgent
  Proposal = {p1}
  NoProposal = NoProposal
  IssueId = {i1}
  NoIssue = NoIssue
  MaxGeneration = 6
  MaxFailures = 8
  MaxAttempts = 2
  MaxConcurrent = 2
  MaxInterventions = 0
  MaxFaults = 1
SPECIFICATION FleetSpec
PROPERTIES
  IssuesSettle
