SPECIFICATION FairSpec
CONSTANTS
  Size = 4
  Keys = {"a", "b"}
  NoKey = "-"
INVARIANTS
  RingInv
PROPERTIES
  ImplementsKeyQueue
  EveryKeyTaken
