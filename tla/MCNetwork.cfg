SPECIFICATION NetSpec
CONSTANTS
  NumMod = 16
  RxBuf = 3
  MaxLen = 2
  NumBytes = 4
  Isns = {14}
  MaxSends = 2
  Subnet = {"gw", "dns", "pc"}
  Far = {"far"}
  Gw = "gw"
  Server = "dns"
  Pinged = {"pc", "far"}
  Names = {"short", "long", "longer"}
  Cut <- CutTo63
  Answers <- AddressOf
  ArpSize = 2
  CacheSize = 2
  Pings = 2
  IdMod = 3
  MaxQueries = 2
  Positions = 4
  Frames = {"a", "b", "c"}
  NoFrame = "-"
  Units <- UnitsOf
  Buffers = 2
  TxFrames = {"x", "y", "z"}
  NoTxFrame = "-"
  TxCards = {"e1000", "pcnet", "rtl8139", "ne2000"}
  Slow = {"e1000", "pcnet"}
INVARIANTS
  NetTypeOK
  StreamInOrder
  NumbersAreTrue
  NamesMeanTheirHosts
PROPERTIES
  FramesFindTheirHost
  FramesComeInOrder
  FramesGoInOrder
CONSTRAINT NotHoled
CHECK_DEADLOCK FALSE
