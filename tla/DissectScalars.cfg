SPECIFICATION Spec
CONSTANTS
  Char = {"x"}
  Key = {"k", "j"}
  NoKey = NoKey
  Tid = {0, 1, 4, 6, 7}
  DictName = {"global"}
  Width32 = 8
  Width64 = 16
  Address = {"a", "b"}
  NoEntry = NoEntry
  Token <- MCToken
  NullToken <- MCNull
  Size <- MCSize
  MaxBytes32 = 1
  MaxBytes64 = 2
  AsUnsigned <- MCAsUnsigned
  AsSigned <- MCAsSigned
  AsText <- MCAsText
  AsPmap <- MCAsPmap
  Field <- ScalarField
  Template <- ScalarTemplates
  Packet <- MCPacket
  Pairs <- TwoPairs
  ResetPairs <- ResetPair
  Uninit <- MCUninit
  MaxPackets = 2
INVARIANTS
  TypeOK
  PmapAgreement
  PreviousIsLatest
PROPERTIES
  AbsentMandatoryContract
CHECK_DEADLOCK FALSE
