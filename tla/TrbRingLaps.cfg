SPECIFICATION Spec
CONSTANTS
  N = 8
  Window = 6
  MaxPush = 26
PROPERTY EveryTrbExecuted
CHECK_DEADLOCK FALSE
