\* Two changes to the text of one rule, submitted in one second or in two.
CONSTANTS
  Agent = {a1}
  Human = {h1}
  Submission = {s1, s2}
  Kind = {"text"}
  Risk = {FALSE}
  Dashes = {"none"}
  NoBase = NoBase
  Absent = Absent
  MaxSecond = 2
  MaxRevision = 2
  MaxFaults = 1
  MaxReplays = 0
SPECIFICATION PMSpec
SYMMETRY SubmissionSymmetry
CHECK_DEADLOCK FALSE
INVARIANTS
  PMTypeOK
  OnePerBase
PROPERTIES
  NeverLost
