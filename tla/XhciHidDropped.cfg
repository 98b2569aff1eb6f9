SPECIFICATION Spec
CONSTANTS
  NPorts = 2
  Config <- MCConfig
  Hids = {1, 2}
  Interface <- MCInterface
  Endpoint <- MCEndpoint
  EventRing = 29
  Resize = {}
  MaxTrouble = 0
  MaxBehind = 0
PROPERTIES
  InputStaysResponsive
CHECK_DEADLOCK FALSE
