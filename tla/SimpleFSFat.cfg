SPECIFICATION Spec
CONSTANTS
  Names = {"new.png", "notes"}
  ImageName = "new.png"
  Volumes <- MCVolumes
  FatMaxFiles = 3
  PerFatSector = 5
  RootClusters = 3
  ChainClusters = 3
  MaxFiles = 2
  PerSector = 1
  TableSectors = 3
  DiskSectors = 8
  MaxLen = 1
  ViewSectors = 1
  MaxSaves = 1
  MaxFaults = 2
  MaxCrashes = 0
  Machines <- BootMachines
PROPERTY
  FatDiskIsReadOnly
