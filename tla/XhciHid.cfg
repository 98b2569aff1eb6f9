SPECIFICATION Spec
CONSTANTS
  NPorts = 2
  Config <- MCConfig
  Hids = {1, 2}
  Interface <- MCInterface
  Endpoint <- MCEndpoint
  EventRing = 29
  Resize = {1}
  MaxTrouble = 1
  MaxBehind = 1
INVARIANTS
  HidInv
  EagerBootFindsAll
PROPERTIES
  CompletionsMatch
  DevsKept
  BootEnds
  UndroppedInputArrives
CHECK_DEADLOCK FALSE
