SPECIFICATION PathSpec
CONSTANTS
  N = 8
  Window = 6
  MaxPush = 26
  Device <- MCDevice
  Width = 5
  Height = 3
INVARIANTS
  RingInv
  PathInv
  BufferNotShared
PROPERTIES
  ImplementsQueue
  TwoLapsServed
CHECK_DEADLOCK FALSE
