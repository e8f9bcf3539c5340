SPECIFICATION RamSpec
CONSTANTS
  NumBlocks = 11
  BlockSize = 1
  Sizes = {2, 3, 4, 5}
  Words = {0, 7, 8, 9}
  MaxText = 3
  MaxEnt = 3
  IdxMod = 4
  DirNames = {}
  FileKeys <- FG
  Texts <- Lines
  NewLine = 7
  NoName = "-"
INVARIANTS
  NoLeakNoDangling
  FilesKeepText
PROPERTY
  CallersKeepContract
