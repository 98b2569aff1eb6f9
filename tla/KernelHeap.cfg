SPECIFICATION KSpec
CONSTANTS
  HeapSize = 300
  Header = 2
  Slack = 1
  Sizes = {60, 63, 64}
  FirstCap = 4
  Fb = 12
  HeapSlack = 10
  LeastHeap = 300
  Stack = 4
  Files <- MCFiles
INVARIANTS
  HeapInv
  Coalesced
  PointersHeld
PROPERTIES
  FailsOnlyWhenFull
  ImplementsAllocator
  CallsReturn
  WallShows
CHECK_DEADLOCK FALSE
