-------------------------- MODULE MCDictionaryStore ---------------------------
(* A small instance of DictionaryStore: four fields, three of which meet in *)
(* one named dictionary (with two types) or under one key.                  *)
EXTENDS DictionaryStore, TLC

F(type, dictionary, tid, key, hasDefault) ==
  [type |-> type, op |-> "Copy", mandatory |-> TRUE, dictionary |-> dictionary,
   tid |-> tid, key |-> key, hasDefault |-> hasDefault,
   value |-> [num |-> 3, expt |-> 0, text |-> << >>]]

MCField ==
  { F("UInt32", "template", 1, "k", FALSE),
    F("UInt32", "template", 2, "k", TRUE),
    F("UInt32", "global",   1, "k", FALSE),
    F("Int32",  "global",   2, "k", FALSE) }

MCData ==
  { [status |-> "Exists", value |-> [num |-> 1, expt |-> 0, text |-> << >>], err |-> 0],
    [status |-> "Empty",  value |-> [num |-> 0, expt |-> 0, text |-> << >>], err |-> 0],
    [status |-> "Error",  value |-> [num |-> 2, expt |-> 0, text |-> << >>], err |-> 2] }

================================================================================
