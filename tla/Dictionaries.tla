----------------------------- MODULE Dictionaries -----------------------------
(***************************************************************************)
(* dictionaries.c: the previous values of fields.                          *)
(*                                                                         *)
(* The program keeps hash tables nested four deep: source address,         *)
(* destination address, dictionary, key.  A dictionary is either named or, *)
(* for the name "template", one per template id.  Tables are created on    *)
(* first use and an absent table answers as an empty one does, so the      *)
(* nesting is flattened to one function from conversations to functions    *)
(* from cells to entries.                                                  *)
(***************************************************************************)
EXTENDS Fields

CONSTANTS
  Address,  \* network addresses
  NoEntry   \* what a lookup returns for a key that is not in the table

Conversation == Address \X Address

(* Mutant: the destination is ignored. *)
get_source_table(src, dest) == <<src, src>>

(* get_conversation_table: one set of dictionaries per directed pair. *)
get_conversation_table(src, dest) == <<src, dest>>

(* Mutant: one template dictionary for all templates. *)
get_shared_dictionary(ftype) ==
  IF ftype.dictionary = TEMPLATE_DICTIONARY
  THEN <<"templates", CHOOSE tid \in Tid : TRUE>>
  ELSE <<"normal", ftype.dictionary>>

(* get_dictionary: the dictionary a field lives in. *)
get_dictionary(ftype) ==
  IF ftype.dictionary = TEMPLATE_DICTIONARY
  THEN <<"templates", ftype.tid>>
  ELSE <<"normal", ftype.dictionary>>

DictionaryId ==
  ({"templates"} \X Tid) \cup ({"normal"} \X DictName)

Cell(ftype) == <<get_dictionary(ftype), ftype.key>>

CellId == DictionaryId \X Key

(* TypedValue.  The value of an empty entry is never read. *)
TypedValue ==
  [type : FieldTypeIdentifier, empty : BOOLEAN, value : FieldValue]

ASSUME NoEntryAssumption == NoEntry \notin TypedValue

(* The dictionaries of one conversation. *)
ConversationTables == [CellId -> TypedValue \cup {NoEntry}]

EmptyTables == [cell \in CellId |-> NoEntry]

(* Mutant: the template dictionaries are cleared, the named ones are not. *)
clear_template_dictionaries(tables, src, dest) ==
  [tables EXCEPT ![get_conversation_table(src, dest)] =
    [cell \in CellId |-> IF cell[1][1] = "templates" THEN NoEntry ELSE @[cell]]]

(***************************************************************************)
(* clear_dictionaries removes every pair of every dictionary, named and    *)
(* per template, of the one conversation.                                  *)
(***************************************************************************)
clear_dictionaries(tables, src, dest) ==
  [tables EXCEPT ![get_conversation_table(src, dest)] = EmptyTables]

(***************************************************************************)
(* get_dictionary_value on the dictionaries tab of one conversation.  The  *)
(* initial value is returned but not stored, and then found is FALSE.      *)
(***************************************************************************)
get_dictionary_value(tab, ftype, fdata) ==
  LET prev == tab[Cell(ftype)] IN
  CASE ftype.key = NoKey ->
         [found |-> FALSE, fdata |-> fdata]
    [] ftype.key # NoKey /\ prev # NoEntry /\ prev.type # ftype.type ->
         [found |-> FALSE, fdata |-> err_d(4, fdata)]
    [] ftype.key # NoKey /\ prev # NoEntry /\ prev.type = ftype.type /\ prev.empty ->
         [found |-> TRUE, fdata |-> [fdata EXCEPT !.status = "Empty"]]
    [] ftype.key # NoKey /\ prev # NoEntry /\ prev.type = ftype.type /\ ~prev.empty ->
         [found |-> TRUE,
          fdata |-> [status |-> "Exists", value |-> prev.value, err |-> 0]]
    [] ftype.key # NoKey /\ prev = NoEntry /\ ftype.hasDefault ->
         [found |-> FALSE,
          fdata |-> [status |-> "Exists", value |-> ftype.value, err |-> 0]]
    [] OTHER ->
         [found |-> FALSE, fdata |-> [fdata EXCEPT !.status = "Undefined"]]

(***************************************************************************)
(* set_dictionary_value: only FieldEmpty is stored as empty.  The value of *)
(* a field in error or undefined is stored like any other.                 *)
(***************************************************************************)
set_dictionary_value(tab, ftype, fdata) ==
  IF ftype.key = NoKey
  THEN tab
  ELSE [tab EXCEPT ![Cell(ftype)] =
         [type  |-> ftype.type,
          empty |-> fdata.status = "Empty",
          value |-> IF fdata.status = "Empty" THEN init_field_value
                                              ELSE fdata.value]]
================================================================================
