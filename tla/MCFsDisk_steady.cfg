SPECIFICATION Spec
CONSTANTS
  MaxEnt = 3
  PerSector = 2
  DataSectors = 3
  DirNames = {"d"}
  FileKeys <- TwoFiles
  Contents <- Short
  NoName = "-"
  MaxFaults = 2
INVARIANTS
  DriveInv
  NoLostSectors
  WrittenIsRead
  SuccessIsDurable
PROPERTIES
  BystandersIntact
