\* One issue, two agents, two callers, up to two leases.
CONSTANTS
  Agent = {a1, a2}
  NoAgent = NoAgent
  Proposal = {p1}
  NoProposal = NoProposal
  IssueId = {i1}
  Caller = {c1, c2}
  MaxGeneration = 2
  MaxFailures = 1
SPECIFICATION CloudSpec
SYMMETRY Symmetry
INVARIANTS
  LeasesAndClaimsAgree
PROPERTIES
  SweepSparesLiveLeases
  ImplementsLateLease
