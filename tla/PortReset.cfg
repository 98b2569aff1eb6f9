SPECIFICATION Spec
CONSTANTS
  PowerPolls = 2
  Attempts = 4
  MaxEarly = 2
  MaxFaults = 2
INVARIANTS
  VerdictRight
PROPERTIES
  UsableNotReset
  ScanEnds
CHECK_DEADLOCK FALSE
