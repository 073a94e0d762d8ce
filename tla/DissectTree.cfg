SPECIFICATION FairSpec
CONSTANTS
  Char = {"x"}
  Key = {"k", "j", "d", "e", "m", "l"}
  NoKey = NoKey
  Tid = {0, 1, 4, 6, 7}
  DictName = {"global"}
  Width32 = 8
  Width64 = 16
  Address = {"a"}
  NoEntry = NoEntry
  Token <- MCToken
  NullToken <- MCNull
  Size <- MCSize
  MaxBytes32 = 1
  MaxBytes64 = 2
  AsUnsigned <- MCAsUnsigned
  AsSigned <- MCAsSigned
  AsText <- MCAsText
  AsPmap <- MCAsPmap
  Node <- MCNode
  FType <- MCFType
  Children <- MCChildren
  Template <- MCTemplate
  Packet <- MCPacket
  Uninit <- OneUninit
  UninitValue <- MCUninitValue
  MaxPackets = 2
INVARIANTS
  TypeOK
  NestedPmapAgreement
  SharedMapUntouched
  WindowsNest
  TreeMirrorsTemplate
PROPERTIES
  PacketCompletes
