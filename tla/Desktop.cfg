SPECIFICATION Spec
CONSTANTS
  QueueSize = 3
  Budget = 2
  ReportKeys = 2
  LineCap = 2
  TextCap = 2
  LastStep = 1
  MaxInputs = 4
INVARIANTS
  WindowsConsistent
PROPERTIES
  KeysInOrder
  TypedOnce
