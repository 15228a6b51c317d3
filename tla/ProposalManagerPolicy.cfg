\* One proposal of any kind, approved, refused, replayed and interrupted at will.
CONSTANTS
  Agent = {a1, a2}
  Human = {h1}
  Submission = {s1}
  Kind = {"text", "deploy", "generic", "refinement", "manual"}
  Risk = {TRUE, FALSE}
  Dashes = {"none", "title", "payload"}
  NoBase = NoBase
  Absent = Absent
  MaxSecond = 1
  MaxRevision = 1
  MaxFaults = 1
  MaxReplays = 1
SPECIFICATION PMSpec
SYMMETRY AgentSymmetry
CHECK_DEADLOCK FALSE
INVARIANTS
  DecidedOnce
  AuthorizedWrites
PROPERTIES
  ImplementsProposalLife
