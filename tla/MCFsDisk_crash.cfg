SPECIFICATION CrashSpec
CONSTANTS
  MaxEnt = 3
  PerSector = 1
  DataSectors = 2
  DirNames = {"d"}
  FileKeys <- TwoFiles
  Contents <- Short
  NoName = "-"
  MaxFaults = 2
PROPERTIES
  CreatingIsCrashSafe
  BootPreservesFiles
  BootIsSafe
