--------------------------- MODULE DictionaryStore ----------------------------
(***************************************************************************)
(* The interface of dictionaries.c as its callers use it: any sequence of  *)
(* writes and clears, for any conversations.  The history variable log     *)
(* records the calls as the caller made them, and says nothing of how they *)
(* are stored; what a lookup must return is defined from log alone.        *)
(***************************************************************************)
EXTENDS Dictionaries, FiniteSets

CONSTANTS
  Field,      \* the fields of the templates in use
  Data,       \* the field data the callers store
  MaxCalls    \* bound on the number of calls

ASSUME FieldAssumption == Field \subseteq FieldTypes
ASSUME DataAssumption  == Data \subseteq FieldData
ASSUME CallsAssumption == MaxCalls \in Nat

VARIABLES
  tables,  \* src_table: the dictionaries of every conversation
  log      \* history: the calls made so far

vars == <<tables, log>>

SetCall   == [call : {"set"}, src : Address, dest : Address,
              ftype : Field, fdata : Data]
ClearCall == [call : {"clear"}, src : Address, dest : Address]
Call      == SetCall \cup ClearCall

(* Every conversation has well typed tables, and the calls are those of the*)
(* interface.                                                              *)
TypeOK ==
  /\ tables \in [Conversation -> ConversationTables]
  /\ log \in Seq(Call)

Init ==
  /\ tables = [c \in Conversation |-> EmptyTables]
  /\ log = << >>

Set(src, dest, ftype, fdata) ==
  /\ tables' = [tables EXCEPT ![get_conversation_table(src, dest)] =
                 set_dictionary_value(@, ftype, fdata)]
  /\ log' = Append(log, [call |-> "set", src |-> src, dest |-> dest,
                         ftype |-> ftype, fdata |-> fdata])

Clear(src, dest) ==
  /\ tables' = clear_dictionaries(tables, src, dest)
  /\ log' = Append(log, [call |-> "clear", src |-> src, dest |-> dest])

Next ==
  /\ Len(log) < MaxCalls
  /\ \E src, dest \in Address :
       \/ \E ftype \in Field, fdata \in Data : Set(src, dest, ftype, fdata)
       \/ Clear(src, dest)

Spec == Init /\ [][Next]_vars

--------------------------------------------------------------------------------
(* What a lookup owes its caller, in terms of the calls alone.             *)

(* Two fields share a previous value when they agree on dictionary and key,*)
(* the template counting only for the template dictionary.                 *)
SharePrevious(f, g) ==
  /\ f.key = g.key /\ f.key # NoKey
  /\ f.dictionary = g.dictionary
  /\ f.dictionary = TEMPLATE_DICTIONARY => f.tid = g.tid

(* The call decides what a lookup of ftype from src to dest returns. *)
Concerns(call, src, dest, ftype) ==
  /\ call.src = src /\ call.dest = dest
  /\ \/ call.call = "clear"
     \/ call.call = "set" /\ SharePrevious(call.ftype, ftype)

(* call number i is the last one that concerns the lookup. *)
IsLast(i, src, dest, ftype) ==
  /\ i \in 1..Len(log)
  /\ Concerns(log[i], src, dest, ftype)
  /\ \A j \in (i+1)..Len(log) : ~Concerns(log[j], src, dest, ftype)

(* The field data of dissect_value before anything is known. *)
Blank == [status |-> "Empty", value |-> init_field_value, err |-> 0]

Retrieved(src, dest, ftype) ==
  get_dictionary_value(tables[get_conversation_table(src, dest)], ftype, Blank)

(***************************************************************************)
(* A lookup finds the value of the last write of the same conversation to  *)
(* the same dictionary and key, unless the conversation was cleared since; *)
(* a write of another type is reported as error D4, and never read as a    *)
(* value (get_dictionary_value, set_dictionary_value, clear_dictionaries). *)
(***************************************************************************)
LastWriteFound ==
  \A src, dest \in Address, ftype \in Field : \A i \in DOMAIN log :
    (IsLast(i, src, dest, ftype) /\ log[i].call = "set") =>
      LET w == log[i]
          r == Retrieved(src, dest, ftype)
      IN  IF w.ftype.type # ftype.type
          THEN ~r.found /\ r.fdata.status = "Error" /\ r.fdata.err = 4
          ELSE /\ r.found
               /\ r.fdata.status =
                    IF w.fdata.status = "Empty" THEN "Empty" ELSE "Exists"
               /\ r.fdata.status = "Exists" => r.fdata.value = w.fdata.value

(***************************************************************************)
(* With no write since the last clear, a lookup finds nothing, and answers *)
(* with the initial value or as undefined: no value survives a clear or    *)
(* crosses into another conversation, dictionary or template.              *)
(***************************************************************************)
NothingInvented ==
  \A src, dest \in Address, ftype \in Field :
    (\A i \in DOMAIN log :
       IsLast(i, src, dest, ftype) => log[i].call = "clear") =>
      LET r == Retrieved(src, dest, ftype)
      IN  /\ ~r.found
          /\ ftype.key # NoKey =>
               r.fdata.status =
                 IF ftype.hasDefault THEN "Exists" ELSE "Undefined"

================================================================================
