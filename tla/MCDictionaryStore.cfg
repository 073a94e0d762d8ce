SPECIFICATION Spec
CONSTANTS
  Char = {}
  Key = {"k"}
  NoKey = NoKey
  Tid = {1, 2}
  DictName = {"global"}
  Width32 = 4
  Width64 = 8
  Address = {"a", "b"}
  NoEntry = NoEntry
  Field <- MCField
  Data <- MCData
  MaxCalls = 3
INVARIANTS
  LastWriteFound
  NothingInvented
CHECK_DEADLOCK FALSE
