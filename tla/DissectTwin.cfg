SPECIFICATION TwinSpec
CONSTANTS
  Char = {"x"}
  Key = {"k", "j"}
  NoKey = NoKey
  Tid = {1, 4}
  DictName = {"global"}
  Width32 = 8
  Width64 = 16
  Address = {"a", "b", "c"}
  NoEntry = NoEntry
  Token <- MCToken
  NullToken <- MCNull
  Size <- MCSize
  MaxBytes32 = 1
  MaxBytes64 = 2
  AsUnsigned <- MCAsUnsigned
  AsSigned <- MCAsSigned
  AsText <- MCAsText
  AsPmap <- MCAsPmap
  Field <- CopyField
  Template <- CopyTemplates
  Packet <- TwinPacket
  Pairs <- TwinPairs
  ResetPairs <- TwinReset
  Uninit <- OneUninit
  MaxPackets = 3
INVARIANTS
  ShownIndependently
  DictionariesIndependent
CHECK_DEADLOCK FALSE
