SPECIFICATION Spec
CONSTANTS
  Char = {"x"}
  Key = {"a", "b", "c", "d", "g", "l", "m", "s", "v"}
  NoKey = NoKey
  Tid = {1, 2}
  DictName = {"global", "local"}
  Width32 = 8
  Width64 = 16
  Absent = Absent
  Element <- MCElement
  Document <- MCDocument
INVARIANTS
  OwnTemplateId
  DictionaryIsNearest
  KeysSeparate
  NeverDroppedSilently
  OperatorsValid
