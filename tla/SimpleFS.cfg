SPECIFICATION Spec
CONSTANTS
  Names = {"new.png", "notes"}
  ImageName = "new.png"
  Volumes <- MCVolumes
  FatMaxFiles = 3
  PerFatSector = 5
  RootClusters = 3
  ChainClusters = 3
  MaxFiles = 2
  PerSector = 1
  TableSectors = 3
  DiskSectors = 8
  MaxLen = 2
  ViewSectors = 1
  MaxSaves = 2
  MaxFaults = 1
  MaxCrashes = 1
  Machines <- MCMachines
INVARIANTS
  FrontierCovers
  OneEntryPerName
  AckedSavesSurvive
PROPERTIES
  ReadsAreWhole
  ImplementsStore
