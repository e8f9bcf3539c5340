SPECIFICATION CrashSpec
CONSTANTS
  MaxEnt = 3
  PerSector = 2
  DataSectors = 2
  DirNames = {"d"}
  FileKeys <- OneFile
  Contents <- OneSector
  NoName = "-"
  MaxFaults = 2
PROPERTY
  DriveIsPersistent
