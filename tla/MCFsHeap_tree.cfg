SPECIFICATION RamSpec
CONSTANTS
  NumBlocks = 6
  BlockSize = 1
  Sizes = {2, 3, 4}
  Words = {0, 7, 8, 9}
  MaxText = 3
  MaxEnt = 4
  IdxMod = 4
  DirNames = {"D"}
  FileKeys <- FG
  Texts <- Line
  NewLine = 7
  NoName = "-"
INVARIANT
  TreeIntact
CONSTRAINT NotStale
