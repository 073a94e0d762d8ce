------------------------- MODULE DictionaryStoreProofs -------------------------
(***************************************************************************)
(* Proofs about DictionaryStore, for any fields, data and addresses.  The  *)
(* lemmas about the operations of Dictionaries are in DissectFieldsProofs. *)
(***************************************************************************)
EXTENDS DictionaryStore, DissectFieldsProofs

(***************************************************************************)
(* Type correctness.                                                       *)
(***************************************************************************)
THEOREM StoreTypeCorrect == Spec => []TypeOK
<1>1. Init => TypeOK
  BY DEF Init, TypeOK, EmptyTables, ConversationTables
<1>2. ASSUME TypeOK, [Next]_vars
      PROVE  TypeOK'
  <2>1. CASE UNCHANGED vars
    BY <1>2, <2>1 DEF TypeOK, vars
  <2>2. ASSUME NEW src \in Address, NEW dest \in Address,
               NEW ftype \in Field, NEW fdata \in Data,
               Set(src, dest, ftype, fdata)
        PROVE  TypeOK'
    <3>1. ftype \in FieldTypes /\ fdata \in FieldData
      BY FieldAssumption, DataAssumption
    <3>2. <<src, dest>> \in Conversation
      BY DEF Conversation
    <3>3. set_dictionary_value(tables[<<src, dest>>], ftype, fdata) \in ConversationTables
      BY <1>2, <3>1, <3>2, SetType DEF TypeOK
    <3>4. tables' \in [Conversation -> ConversationTables]
      BY <1>2, <2>2, <3>2, <3>3 DEF TypeOK, Set, get_conversation_table
    <3>5. log' \in Seq(Call)
      BY <1>2, <2>2 DEF TypeOK, Set, Call, SetCall, ClearCall
    <3> QED
      BY <3>4, <3>5 DEF TypeOK
  <2>3. ASSUME NEW src \in Address, NEW dest \in Address, Clear(src, dest)
        PROVE  TypeOK'
    <3>1. tables' \in [Conversation -> ConversationTables]
      BY <1>2, <2>3, ClearType DEF TypeOK, Clear
    <3>2. log' \in Seq(Call)
      BY <1>2, <2>3 DEF TypeOK, Clear, Call, SetCall, ClearCall
    <3> QED
      BY <3>1, <3>2 DEF TypeOK
  <2> QED
    BY <1>2, <2>1, <2>2, <2>3 DEF Next
<1> QED
  BY <1>1, <1>2, PTL DEF Spec

(***************************************************************************)
(* The inductive invariant behind the two properties of a lookup: the cell *)
(* of a field holds what the last call that concerns it left there.        *)
(***************************************************************************)
LastIn(calls, i, src, dest, ftype) ==
  /\ i \in 1..Len(calls)
  /\ Concerns(calls[i], src, dest, ftype)
  /\ \A j \in (i+1)..Len(calls) : ~Concerns(calls[j], src, dest, ftype)

Stored(ftype, fdata) ==
  [type  |-> ftype.type,
   empty |-> fdata.status = "Empty",
   value |-> IF fdata.status = "Empty" THEN init_field_value ELSE fdata.value]

Left(call) == IF call.call = "set" THEN Stored(call.ftype, call.fdata) ELSE NoEntry

HeldFor(tabs, calls, src, dest, ftype) ==
  /\ \A i \in 1..Len(calls) :
       LastIn(calls, i, src, dest, ftype) => tabs[<<src, dest>>][Cell(ftype)] = Left(calls[i])
  /\ (\A i \in 1..Len(calls) : ~LastIn(calls, i, src, dest, ftype)) =>
       tabs[<<src, dest>>][Cell(ftype)] = NoEntry

CellHoldsLast ==
  \A src, dest \in Address, ftype \in Field :
    ftype.key # NoKey => HeldFor(tables, log, src, dest, ftype)

(* After a call is logged, the last one that concerns a lookup is this one *)
(* if it does, and the earlier one otherwise.                              *)
LEMMA AppendLast ==
  ASSUME NEW calls \in Seq(Call), NEW call \in Call, NEW src, NEW dest, NEW ftype,
         NEW i \in 1..(Len(calls) + 1)
  PROVE  LastIn(Append(calls, call), i, src, dest, ftype) <=>
           IF Concerns(call, src, dest, ftype)
           THEN i = Len(calls) + 1
           ELSE i \in 1..Len(calls) /\ LastIn(calls, i, src, dest, ftype)
<1> DEFINE n == Len(calls) + 1
           longer == Append(calls, call)
<1>1. /\ Len(longer) = n /\ longer[n] = call
      /\ \A j \in 1..Len(calls) : longer[j] = calls[j]
      /\ Len(calls) \in Nat
  OBVIOUS
<1> HIDE DEF longer
<1>2. CASE i = n
  <2>1. \A j \in (n+1)..n : FALSE
    BY <1>1
  <2> QED
    BY <1>1, <1>2, <2>1 DEF LastIn, longer
<1>3. CASE i # n
  <2>1. i \in 1..Len(calls)
    BY <1>1, <1>3
  <2>2. \A j \in (i+1)..n : j = n \/ j \in (i+1)..Len(calls)
    BY <1>1, <2>1
  <2>3. n \in (i+1)..n /\ \A j \in (i+1)..Len(calls) : j \in (i+1)..n /\ j \in 1..Len(calls)
    BY <1>1, <2>1
  <2>4. LastIn(longer, i, src, dest, ftype) <=>
          /\ Concerns(calls[i], src, dest, ftype)
          /\ ~Concerns(call, src, dest, ftype)
          /\ \A j \in (i+1)..Len(calls) : ~Concerns(calls[j], src, dest, ftype)
    <3> HIDE DEF n
    <3>1. i \in 1..n /\ longer[i] = calls[i]
      BY <1>1, <2>1 DEF n
    <3> QED
      BY <1>1, <2>2, <2>3, <3>1 DEF LastIn
  <2> QED
    BY <1>3, <2>1, <2>4 DEF LastIn, longer
<1> QED
  BY <1>2, <1>3

(* One more call keeps the cells right if it leaves what it should in the  *)
(* cells it concerns and leaves the others alone.                          *)
LEMMA HeldAfter ==
  ASSUME NEW tabs, NEW after, NEW calls \in Seq(Call), NEW call \in Call,
         NEW src, NEW dest, NEW ftype,
         HeldFor(tabs, calls, src, dest, ftype),
         after[<<src, dest>>][Cell(ftype)] =
           IF Concerns(call, src, dest, ftype)
           THEN Left(call) ELSE tabs[<<src, dest>>][Cell(ftype)]
  PROVE  HeldFor(after, Append(calls, call), src, dest, ftype)
<1> DEFINE n == Len(calls) + 1
           longer == Append(calls, call)
<1>1. /\ Len(longer) = n /\ longer[n] = call
      /\ \A j \in 1..Len(calls) : longer[j] = calls[j] /\ j \in 1..n
      /\ n \in 1..n
  OBVIOUS
<1>2. \A i \in 1..n : LastIn(longer, i, src, dest, ftype) <=>
           IF Concerns(call, src, dest, ftype)
           THEN i = n
           ELSE i \in 1..Len(calls) /\ LastIn(calls, i, src, dest, ftype)
  BY AppendLast
<1> HIDE DEF longer, n
<1>3. CASE Concerns(call, src, dest, ftype)
  BY <1>1, <1>2, <1>3 DEF HeldFor, longer
<1>4. CASE ~Concerns(call, src, dest, ftype)
  BY <1>1, <1>2, <1>4 DEF HeldFor, longer
<1> QED
  BY <1>3, <1>4

(* Two fields have the same cell exactly when they share a previous value. *)
LEMMA CellShared ==
  ASSUME NEW f \in FieldTypes, NEW g \in FieldTypes, g.key # NoKey
  PROVE  (f.key # NoKey /\ Cell(f) = Cell(g)) <=> SharePrevious(f, g)
<1>1. f.dictionary = TEMPLATE_DICTIONARY /\ g.dictionary # TEMPLATE_DICTIONARY
        => get_dictionary(f) # get_dictionary(g)
  BY DEF get_dictionary
<1>2. f.dictionary # TEMPLATE_DICTIONARY /\ g.dictionary = TEMPLATE_DICTIONARY
        => get_dictionary(f) # get_dictionary(g)
  BY DEF get_dictionary
<1>3. get_dictionary(f) = get_dictionary(g) <=>
        /\ f.dictionary = g.dictionary
        /\ f.dictionary = TEMPLATE_DICTIONARY => f.tid = g.tid
  BY <1>1, <1>2 DEF get_dictionary
<1> QED
  BY <1>3 DEF Cell, SharePrevious

(* A write establishes CellHoldsLast for the fields that share its cell and*)
(* keeps it for all others.                                                *)
LEMMA SetHolds ==
  ASSUME TypeOK, CellHoldsLast,
         NEW src \in Address, NEW dest \in Address,
         NEW ftype \in Field, NEW fdata \in Data,
         Set(src, dest, ftype, fdata)
  PROVE  CellHoldsLast'
<1> DEFINE call == [call |-> "set", src |-> src, dest |-> dest,
                    ftype |-> ftype, fdata |-> fdata]
<1>1. call \in Call /\ log \in Seq(Call) /\ log' = Append(log, call)
  BY DEF Set, TypeOK, Call, SetCall
<1>2. ASSUME NEW src2 \in Address, NEW dest2 \in Address, NEW g \in Field, g.key # NoKey
      PROVE  HeldFor(tables', log', src2, dest2, g)
  <2>1. ftype \in FieldTypes /\ g \in FieldTypes /\ fdata \in FieldData
    BY FieldAssumption, DataAssumption
  <2>2. /\ <<src, dest>> \in Conversation /\ <<src2, dest2>> \in Conversation
        /\ (<<src, dest>> = <<src2, dest2>> <=> src = src2 /\ dest = dest2)
    BY DEF Conversation
  <2>3. Cell(g) \in CellId
    BY <1>2, <2>1, CellType
  <2>4. tables[<<src, dest>>] \in [CellId -> TypedValue \cup {NoEntry}]
    BY <2>2 DEF TypeOK, ConversationTables
  <2>5. tables'[<<src2, dest2>>] =
          IF src = src2 /\ dest = dest2
          THEN set_dictionary_value(tables[<<src, dest>>], ftype, fdata)
          ELSE tables[<<src2, dest2>>]
    BY <2>2 DEF Set, TypeOK, get_conversation_table
  <2>6. set_dictionary_value(tables[<<src, dest>>], ftype, fdata)[Cell(g)] =
          IF SharePrevious(ftype, g) THEN Stored(ftype, fdata)
                                     ELSE tables[<<src, dest>>][Cell(g)]
    <3>1. CASE ftype.key = NoKey
      BY <1>2, <3>1 DEF set_dictionary_value, SharePrevious
    <3>2. CASE ftype.key # NoKey
      <4>1. set_dictionary_value(tables[<<src, dest>>], ftype, fdata) =
              [tables[<<src, dest>>] EXCEPT ![Cell(ftype)] = Stored(ftype, fdata)]
        BY <3>2 DEF set_dictionary_value, Stored
      <4>2. Cell(ftype) = Cell(g) <=> SharePrevious(ftype, g)
        BY <1>2, <2>1, <3>2, CellShared
      <4> QED
        BY <2>3, <2>4, <4>1, <4>2
    <3> QED
      BY <3>1, <3>2
  <2>7. Concerns(call, src2, dest2, g) <=>
          src = src2 /\ dest = dest2 /\ SharePrevious(ftype, g)
    BY DEF Concerns
  <2>8. Left(call) = Stored(ftype, fdata)
    BY DEF Left
  <2> HIDE DEF call
  <2>9. tables'[<<src2, dest2>>][Cell(g)] =
          IF Concerns(call, src2, dest2, g)
          THEN Left(call) ELSE tables[<<src2, dest2>>][Cell(g)]
    BY <2>5, <2>6, <2>7, <2>8
  <2>10. HeldFor(tables, log, src2, dest2, g)
    BY <1>2 DEF CellHoldsLast
  <2> QED
    BY <1>1, <2>9, <2>10, HeldAfter
<1> QED
  BY <1>2 DEF CellHoldsLast

(* A clear establishes CellHoldsLast for its conversation and keeps it for *)
(* all others.                                                             *)
LEMMA ClearHolds ==
  ASSUME TypeOK, CellHoldsLast,
         NEW src \in Address, NEW dest \in Address, Clear(src, dest)
  PROVE  CellHoldsLast'
<1> DEFINE call == [call |-> "clear", src |-> src, dest |-> dest]
<1>1. call \in Call /\ log \in Seq(Call) /\ log' = Append(log, call)
  BY DEF Clear, TypeOK, Call, ClearCall
<1>2. ASSUME NEW src2 \in Address, NEW dest2 \in Address, NEW g \in Field, g.key # NoKey
      PROVE  HeldFor(tables', log', src2, dest2, g)
  <2>1. g \in FieldTypes
    BY FieldAssumption
  <2>2. /\ <<src, dest>> \in Conversation /\ <<src2, dest2>> \in Conversation
        /\ (<<src, dest>> = <<src2, dest2>> <=> src = src2 /\ dest = dest2)
    BY DEF Conversation
  <2>3. Cell(g) \in CellId
    BY <1>2, <2>1, CellType
  <2>4. tables'[<<src2, dest2>>] =
          IF src = src2 /\ dest = dest2
          THEN EmptyTables ELSE tables[<<src2, dest2>>]
    BY <2>2 DEF Clear, TypeOK, clear_dictionaries, get_conversation_table
  <2>5. Concerns(call, src2, dest2, g) <=> src = src2 /\ dest = dest2
    BY DEF Concerns
  <2>6. Left(call) = NoEntry
    BY DEF Left
  <2> HIDE DEF call
  <2>7. tables'[<<src2, dest2>>][Cell(g)] =
          IF Concerns(call, src2, dest2, g)
          THEN Left(call) ELSE tables[<<src2, dest2>>][Cell(g)]
    BY <2>3, <2>4, <2>5, <2>6 DEF EmptyTables
  <2>8. HeldFor(tables, log, src2, dest2, g)
    BY <1>2 DEF CellHoldsLast
  <2> QED
    BY <1>1, <2>7, <2>8, HeldAfter
<1> QED
  BY <1>2 DEF CellHoldsLast

(* The inductive invariant: every cell holds what the last call that       *)
(* concerns it left there.                                                 *)
LEMMA CellsHoldLast == Spec => [](TypeOK /\ CellHoldsLast)
<1>1. Init => CellHoldsLast
  <2> SUFFICES ASSUME Init, NEW src \in Address, NEW dest \in Address,
                      NEW ftype \in Field, ftype.key # NoKey
               PROVE  HeldFor(tables, log, src, dest, ftype)
    BY DEF CellHoldsLast
  <2>1. <<src, dest>> \in Conversation
    BY DEF Conversation
  <2>2. Cell(ftype) \in CellId
    BY FieldAssumption, CellType
  <2>3. Len(log) = 0
    BY DEF Init
  <2> QED
    BY <2>1, <2>2, <2>3 DEF Init, HeldFor, EmptyTables
<1>2. ASSUME TypeOK, CellHoldsLast, [Next]_vars
      PROVE  CellHoldsLast'
  <2>1. CASE UNCHANGED vars
    BY <1>2, <2>1 DEF CellHoldsLast, vars
  <2>2. CASE Next
    BY <1>2, <2>2, SetHolds, ClearHolds DEF Next
  <2> QED
    BY <1>2, <2>1, <2>2
<1> QED
  BY <1>1, <1>2, StoreTypeCorrect, PTL DEF Spec

(***************************************************************************)
(* For any fields and any sequence of calls, a lookup finds the value of   *)
(* the last write of its conversation to its dictionary and key.           *)
(***************************************************************************)
THEOREM LookupFindsLastWrite == Spec => []LastWriteFound
<1>1. ASSUME TypeOK, CellHoldsLast
      PROVE  LastWriteFound
  <2> SUFFICES ASSUME NEW src \in Address, NEW dest \in Address, NEW ftype \in Field,
                      NEW i \in DOMAIN log,
                      IsLast(i, src, dest, ftype), log[i].call = "set"
               PROVE  LET w == log[i]
                          r == Retrieved(src, dest, ftype)
                      IN  IF w.ftype.type # ftype.type
                          THEN ~r.found /\ r.fdata.status = "Error" /\ r.fdata.err = 4
                          ELSE /\ r.found
                               /\ r.fdata.status =
                                    IF w.fdata.status = "Empty" THEN "Empty" ELSE "Exists"
                               /\ r.fdata.status = "Exists" => r.fdata.value = w.fdata.value
    BY DEF LastWriteFound
  <2> DEFINE w == log[i]
             entry == Stored(w.ftype, w.fdata)
             r == Retrieved(src, dest, ftype)
  <2>1. log \in Seq(Call) /\ i \in 1..Len(log)
    BY <1>1 DEF TypeOK
  <2>2. w \in SetCall
    BY <2>1 DEF Call, ClearCall
  <2>3. w.ftype \in FieldTypes /\ w.fdata \in FieldData
    BY <2>2, FieldAssumption, DataAssumption DEF SetCall
  <2>4. ftype.key # NoKey
    BY DEF IsLast, Concerns, SharePrevious
  <2>5. tables[<<src, dest>>][Cell(ftype)] = entry
    BY <1>1, <2>1, <2>4 DEF CellHoldsLast, HeldFor, IsLast, LastIn, Left
  <2>6. /\ entry.type = w.ftype.type
        /\ entry.empty <=> w.fdata.status = "Empty"
        /\ entry.value = IF w.fdata.status = "Empty"
                         THEN init_field_value ELSE w.fdata.value
    BY DEF Stored
  <2>7. entry # NoEntry
    <3>1. init_field_value \in FieldValue
      BY DEF init_field_value, FieldValue
    <3>2. entry \in TypedValue
      BY <2>3, <3>1 DEF Stored, TypedValue, FieldTypes, FieldData
    <3> QED
      BY <3>2, NoEntryAssumption
  <2> HIDE DEF entry, w
  <2>8. CASE w.ftype.type # ftype.type
    <3>1. r = [found |-> FALSE, fdata |-> err_d(4, Blank)]
      BY <2>4, <2>5, <2>6, <2>7, <2>8
         DEF Retrieved, get_dictionary_value, get_conversation_table
    <3> QED
      BY <2>8, <3>1 DEF err_d, w
  <2>9. CASE w.ftype.type = ftype.type /\ w.fdata.status = "Empty"
    <3>1. r = [found |-> TRUE, fdata |-> [Blank EXCEPT !.status = "Empty"]]
      BY <2>4, <2>5, <2>6, <2>7, <2>9
         DEF Retrieved, get_dictionary_value, get_conversation_table
    <3> QED
      BY <2>9, <3>1 DEF Blank, w
  <2>10. CASE w.ftype.type = ftype.type /\ w.fdata.status # "Empty"
    <3>1. r = [found |-> TRUE,
               fdata |-> [status |-> "Exists", value |-> entry.value, err |-> 0]]
      BY <2>4, <2>5, <2>6, <2>7, <2>10
         DEF Retrieved, get_dictionary_value, get_conversation_table
    <3> QED
      BY <2>6, <2>10, <3>1 DEF w
  <2> QED
    BY <2>8, <2>9, <2>10 DEF w
<1> QED
  BY <1>1, CellsHoldLast, PTL

(***************************************************************************)
(* Nothing survives a clear or crosses into another conversation,          *)
(* dictionary or template.                                                 *)
(***************************************************************************)
THEOREM LookupInventsNothing == Spec => []NothingInvented
<1>1. ASSUME TypeOK, CellHoldsLast
      PROVE  NothingInvented
  <2> SUFFICES ASSUME NEW src \in Address, NEW dest \in Address, NEW ftype \in Field,
                      \A i \in DOMAIN log :
                        IsLast(i, src, dest, ftype) => log[i].call = "clear"
               PROVE  LET r == Retrieved(src, dest, ftype)
                      IN  /\ ~r.found
                          /\ ftype.key # NoKey =>
                               r.fdata.status =
                                 IF ftype.hasDefault THEN "Exists" ELSE "Undefined"
    BY DEF NothingInvented
  <2>1. DOMAIN log = 1..Len(log)
    BY <1>1 DEF TypeOK
  <2>2. CASE ftype.key = NoKey
    BY <2>2 DEF Retrieved, get_dictionary_value
  <2>3. CASE ftype.key # NoKey
    <3>1. tables[<<src, dest>>][Cell(ftype)] = NoEntry
      <4>1. HeldFor(tables, log, src, dest, ftype)
        BY <1>1, <2>3 DEF CellHoldsLast
      <4>2. CASE \A i \in 1..Len(log) : ~LastIn(log, i, src, dest, ftype)
        BY <4>1, <4>2 DEF HeldFor
      <4>3. ASSUME NEW i \in 1..Len(log), LastIn(log, i, src, dest, ftype)
            PROVE  tables[<<src, dest>>][Cell(ftype)] = NoEntry
        <5>1. log[i].call = "clear"
          BY <2>1, <4>3 DEF IsLast, LastIn
        <5> QED
          BY <4>1, <4>3, <5>1 DEF HeldFor, Left
      <4> QED
        BY <4>2, <4>3
    <3>2. Retrieved(src, dest, ftype) =
            IF ftype.hasDefault
            THEN [found |-> FALSE, fdata |-> [status |-> "Exists",
                                              value |-> ftype.value, err |-> 0]]
            ELSE [found |-> FALSE, fdata |-> [Blank EXCEPT !.status = "Undefined"]]
      BY <2>3, <3>1 DEF Retrieved, get_dictionary_value, get_conversation_table
    <3> QED
      BY <2>3, <3>2 DEF Blank
  <2> QED
    BY <2>2, <2>3
<1> QED
  BY <1>1, CellsHoldLast, PTL
================================================================================
