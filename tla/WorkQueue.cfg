\* One issue, two agents, up to four leases.
CONSTANTS
  Agent = {a1, a2}
  NoAgent = NoAgent
  Proposal = {p1}
  NoProposal = NoProposal
  IssueId = {i1}
  MaxGeneration = 4
  MaxFailures = 2
SPECIFICATION Spec
INVARIANTS
  TypeOK
  FencingTokens
  PoolIsUnleased
  ClaimMatchesLease
PROPERTIES
  LapsedStaysLapsed
  LiveLeaseIsSafe
  ImplementsFencedLease
