SPECIFICATION FairSpec
CONSTANTS
  Keycaps = {"LShift", "RShift", "LCtrl", "RCtrl", "LAlt", "AltGr", "CapsLock", "A", "One", "F1", "Left", "Pad4"}
  MaxDown = 3
  NoKey = "-"
  Width = 5
  Moves <- LeftAndRight
  MaxBytes = 6
  Wrap = 16
  Times = {0, 1, 5}
  MaxLate = 2
INVARIANTS
  TypeOK
  NoStuckModifiers
  TimeIsKept
PROPERTIES
  SwitchIsMeant
  StaysInStep
  WaitEnds
