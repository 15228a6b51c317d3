\* Four calls on one issue, one crash.
CONSTANTS
  CallId = {c1, c2, c3, c4}
  NoCall = NoCall
  MaxCrashes = 1
SPECIFICATION Spec
SYMMETRY Symmetry
INVARIANTS
  LedgerTypeOK
  HistoryInOrder
  EventsAreKept
  YamlIsUpToDate
  SerialLedgerIsExact
CHECK_DEADLOCK FALSE
