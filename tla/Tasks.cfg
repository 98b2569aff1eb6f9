SPECIFICATION Spec
CONSTANTS
  MaxTasks = 3
  MaxPages = 12
  FrameDelay = 2
INVARIANTS
  ContextsKept
  Ring3StackFree
PROPERTIES
  ImplementsProcesses
  MainLoopGoesOn
  Ring3TaskEnds
CHECK_DEADLOCK FALSE
