SPECIFICATION CSpec
CONSTANTS
  Regions = {1, 2, 12, 17, 20, 21, 22, 23, 24, 25, 26, 28, 30, 32, 33, 34, 35, 36, 37, 38, 39, 40, 41, 43, 45, 48, 49, 52}
  Base = 16
  PageBytes = 8
  PerByte = 2
  Fan = 4
  Low = 19
  Window = 44
  Others = {8, 72}
  HeapPages = 3
  Mmio = {112, 134}
  UserVa = 76
  LastSlot = 1
  LastFunc = 1
  FourGig = 128
  Machines <- MCSlots
  Scratchpads = {0, 2}
INVARIANTS
  OneUse
  FaultsOnlyBeyondWindow
  HeapInOnePiece
  RingThreeSees
  ControllersInv
PROPERTY ScanOver
CHECK_DEADLOCK FALSE
