-------------------------- MODULE DissectFieldsProofs --------------------------
(***************************************************************************)
(* Lemmas about the operations of Dictionaries, and about the functions of *)
(* DissectFields that use them: each of these maps a well-typed stack to a *)
(* well-typed stack, never moves backwards in the packet, and takes a      *)
(* known number of bits of the presence map.                               *)
(***************************************************************************)
EXTENDS DissectFields, TLAPS

--------------------------------------------------------------------------------
(* The operations of Dictionaries.                                         *)

(***************************************************************************)
(* A field with a key lives in a cell of the tables.                       *)
(***************************************************************************)
LEMMA CellType ==
  ASSUME NEW ftype \in FieldTypes, ftype.key # NoKey
  PROVE  Cell(ftype) \in CellId
<1>1. get_dictionary(ftype) \in DictionaryId
  BY DEF get_dictionary, DictionaryId, FieldTypes
<1>2. ftype.key \in Key
  BY DEF FieldTypes
<1> QED
  BY <1>1, <1>2 DEF Cell, CellId

(***************************************************************************)
(* set_dictionary_value keeps the dictionaries of a conversation well      *)
(* typed.                                                                  *)
(***************************************************************************)
LEMMA SetType ==
  ASSUME NEW tab \in ConversationTables, NEW ftype \in FieldTypes,
         NEW fdata \in FieldData
  PROVE  set_dictionary_value(tab, ftype, fdata) \in ConversationTables
<1>1. CASE ftype.key = NoKey
  BY <1>1 DEF set_dictionary_value
<1>2. CASE ftype.key # NoKey
  <2> DEFINE entry == [type  |-> ftype.type,
                       empty |-> fdata.status = "Empty",
                       value |-> IF fdata.status = "Empty"
                                 THEN init_field_value ELSE fdata.value]
  <2>1. init_field_value \in FieldValue
    BY DEF init_field_value, FieldValue
  <2>2. entry \in TypedValue
    BY <2>1 DEF TypedValue, FieldTypes, FieldData
  <2>3. Cell(ftype) \in CellId
    BY <1>2, CellType
  <2>4. set_dictionary_value(tab, ftype, fdata) = [tab EXCEPT ![Cell(ftype)] = entry]
    BY <1>2 DEF set_dictionary_value
  <2> HIDE DEF entry
  <2> QED
    BY <2>2, <2>3, <2>4 DEF ConversationTables
<1> QED
  BY <1>1, <1>2

(***************************************************************************)
(* Clearing keeps the tables of every conversation.                        *)
(***************************************************************************)
LEMMA ClearType ==
  ASSUME NEW t \in [Conversation -> ConversationTables],
         NEW src \in Address, NEW dest \in Address
  PROVE  clear_dictionaries(t, src, dest) \in [Conversation -> ConversationTables]
<1>1. EmptyTables \in ConversationTables
  BY DEF EmptyTables, ConversationTables
<1> QED
  BY <1>1 DEF clear_dictionaries, get_conversation_table, Conversation

(***************************************************************************)
(* A field that turns into an error is still well-typed field data.        *)
(***************************************************************************)
LEMMA ErrType ==
  ASSUME NEW n \in 0..9, NEW fdata \in FieldData
  PROVE  err_d(n, fdata) \in FieldData
BY DEF err_d, FieldData, FieldStatus

(***************************************************************************)
(* get_dictionary_value returns well-typed field data.                     *)
(***************************************************************************)
LEMMA GetType ==
  ASSUME NEW tab \in ConversationTables, NEW ftype \in FieldTypes,
         NEW fdata \in FieldData
  PROVE  /\ get_dictionary_value(tab, ftype, fdata).found \in BOOLEAN
         /\ get_dictionary_value(tab, ftype, fdata).fdata \in FieldData
<1>1. ASSUME ftype.key # NoKey
      PROVE  tab[Cell(ftype)] = NoEntry \/ tab[Cell(ftype)] \in TypedValue
  BY <1>1, CellType DEF ConversationTables
<1>2. ASSUME NEW status \in FieldStatus
      PROVE  [fdata EXCEPT !.status = status] \in FieldData
  BY DEF FieldData
<1>3. err_d(4, fdata) \in FieldData
  BY ErrType
<1>4. ASSUME NEW value \in FieldValue
      PROVE  [status |-> "Exists", value |-> value, err |-> 0] \in FieldData
  BY DEF FieldData, FieldStatus
<1>5. ftype.value \in FieldValue
  BY DEF FieldTypes
<1>6. ASSUME ftype.key # NoKey, tab[Cell(ftype)] # NoEntry
      PROVE  tab[Cell(ftype)].value \in FieldValue
  BY <1>1, <1>6 DEF TypedValue
<1>7. "Empty" \in FieldStatus /\ "Undefined" \in FieldStatus
  BY DEF FieldStatus
<1> QED
  BY <1>1, <1>2, <1>3, <1>4, <1>5, <1>6, <1>7 DEF get_dictionary_value

--------------------------------------------------------------------------------
(* Positions and the functions of DissectFields.                           *)

(* q is p moved forward, with n (0 or 1) bits of the map taken while there *)
(* are any.  Only outside of the packet can it have run into a fault.      *)
Took(p, q, n) ==
  /\ q.bytes = p.bytes /\ p.offset <= q.offset
  /\ q.rest = p.rest \/ (p.rest = "outside" /\ q.rest = "fault")
  /\ q.pmap = p.pmap
  /\ q.pmap_idx = IF n = 1 /\ p.pmap_idx < Len(p.pmap)
                  THEN p.pmap_idx + 1 ELSE p.pmap_idx

(* Nothing done takes no bit. *)
LEMMA TookNothing ==
  ASSUME NEW p \in DissectPosition
  PROVE  Took(p, p, 0)
BY DEF Took, DissectPosition

(* Bits taken and then bytes read: the bits are those taken. *)
LEMMA TookThenRead ==
  ASSUME NEW p \in DissectPosition, NEW q \in DissectPosition,
         NEW r \in DissectPosition, NEW n \in {0, 1},
         Took(p, q, n), Took(q, r, 0)
  PROVE  Took(p, r, n)
BY DEF Took, DissectPosition

(* Bytes read and then bits taken: the bits are those taken. *)
LEMMA TookAfterRead ==
  ASSUME NEW p \in DissectPosition, NEW q \in DissectPosition,
         NEW r \in DissectPosition, NEW n \in {0, 1},
         Took(p, q, 0), Took(q, r, n)
  PROVE  Took(p, r, n)
BY DEF Took, DissectPosition

(* ShiftBytes takes no bit and stays in the packet. *)
LEMMA ShiftBytesTook ==
  ASSUME NEW p \in DissectPosition
  PROVE  ShiftBytes(p) \in DissectPosition /\ Took(p, ShiftBytes(p), 0)
<1>1. CASE NoEntity(p) /\ p.rest # "outside"
  <2>1. ShiftBytes(p) = p
    BY <1>1 DEF ShiftBytes
  <2> QED
    BY <2>1, TookNothing
<1>3. CASE NoEntity(p) /\ p.rest = "outside"
  <2>1. ShiftBytes(p) = [p EXCEPT !.rest = "fault"]
    BY <1>3 DEF ShiftBytes
  <2> QED
    BY <1>3, <2>1 DEF DissectPosition, Took
<1>2. CASE ~NoEntity(p)
  <2>1. ShiftBytes(p) = [p EXCEPT !.offset = p.offset + 1]
    BY <1>2 DEF ShiftBytes
  <2>2. p.offset + 1 <= Len(p.bytes)
    BY <1>2 DEF NoEntity, DissectPosition
  <2> QED
    BY <2>1, <2>2 DEF DissectPosition, Took
<1> QED
  BY <1>1, <1>2, <1>3

(* dissect_shift_pmap takes one bit, and none when none is left. *)
LEMMA ShiftPmapTook ==
  ASSUME NEW p \in DissectPosition
  PROVE  dissect_shift_pmap(p) \in DissectPosition /\ Took(p, dissect_shift_pmap(p), 1)
<1>1. CASE p.pmap_idx < Len(p.pmap)
  <2>1. dissect_shift_pmap(p) = [p EXCEPT !.pmap_idx = p.pmap_idx + 1]
    BY <1>1 DEF dissect_shift_pmap
  <2> QED
    BY <1>1, <2>1 DEF DissectPosition, Took
<1>2. CASE ~(p.pmap_idx < Len(p.pmap))
  BY <1>2 DEF dissect_shift_pmap, DissectPosition, Took
<1> QED
  BY <1>1, <1>2

(* As long as there is an entity there is a next token. *)
LEMMA NextTokenType ==
  ASSUME NEW p \in DissectPosition, ~NoEntity(p)
  PROVE  NextToken(p) \in Token
BY DEF NextToken, NoEntity, DissectPosition

(* The widths are positive. *)
LEMMA WidthPositive ==
  ASSUME NEW type
  PROVE  /\ Width(type) \in Nat /\ Width(type) > 0
         /\ Width(type) \div 2 \in Int
BY WidthAssumption DEF Width

(* A conversion to an integer type yields an integer. *)
LEMMA WrapType ==
  ASSUME NEW type, NEW n \in Int
  PROVE  /\ Wrap(type, n) \in Int
         /\ type \in UnsignedType => Wrap(type, n) \in Nat
<1>1. CASE type \in UnsignedType
  BY <1>1, WidthPositive DEF Wrap
<1>2. CASE type \notin UnsignedType
  <2> DEFINE half == Width(type) \div 2
  <2>1. half \in Int
    BY WidthPositive
  <2> HIDE DEF half
  <2>2. n + half \in Int
    BY <2>1
  <2>3. (n + half) % Width(type) \in Int
    BY <2>2, WidthPositive
  <2> QED
    BY <1>2, <2>1, <2>3 DEF Wrap, half
<1> QED
  BY <1>1, <1>2

(* What decode.c reads from a token is an integer. *)
LEMMA ReadingType ==
  ASSUME NEW type, NEW p \in DissectPosition
  PROVE  Reading(type, p) \in Int /\ ReadingText(p) \in Seq(Char)
<1>1. CASE NoEntity(p)
  BY <1>1 DEF Reading, ReadingText, Read
<1>2. CASE ~NoEntity(p)
  BY <1>2, NextTokenType, TokenAssumption DEF Reading, ReadingText, Read
<1> QED
  BY <1>1, <1>2

(***************************************************************************)
(* A result of a function called on the stack s: well typed, with n bits   *)
(* of the presence map taken.                                              *)
(***************************************************************************)
Result(s, t, n) == t \in Stack /\ Took(s.pos, t.pos, n)

(* A result at another position with other data is typed and took the bits *)
(* between the two.                                                        *)
LEMMA ToResult ==
  ASSUME NEW s \in Stack, NEW p \in DissectPosition, NEW fdata \in FieldData,
         NEW n, Took(s.pos, p, n)
  PROVE  Result(s, To(s, p, fdata), n)
BY DEF Result, To, Stack

(* Storing a value takes no bit and keeps the dictionaries typed. *)
LEMMA StoreResult ==
  ASSUME NEW s, NEW t \in Stack, NEW ftype \in FieldTypes, NEW n, Result(s, t, n)
  PROVE  Result(s, Store(ftype, t), n)
<1>1. Store(ftype, t).pos = t.pos
  BY DEF Store, Stack
<1>2. set_dictionary_value(t.tab, ftype, t.fdata) \in ConversationTables
  BY SetType DEF Stack
<1>3. Store(ftype, t) \in Stack
  BY <1>2 DEF Store, Stack
<1> QED
  BY <1>1, <1>3 DEF Result

(* A lookup returns field data. *)
LEMMA LookUpType ==
  ASSUME NEW s \in Stack, NEW ftype \in FieldTypes
  PROVE  LookUp(ftype, s).fdata \in FieldData
BY GetType DEF LookUp, Stack

(* An integer may replace the number of a field. *)
LEMMA NumType ==
  ASSUME NEW fdata \in FieldData, NEW n \in Int
  PROVE  [fdata EXCEPT !.value.num = n] \in FieldData
BY DEF FieldData, FieldValue

(* A string may replace the text of a field. *)
LEMMA TextType ==
  ASSUME NEW fdata \in FieldData, NEW text \in Seq(Char)
  PROVE  [fdata EXCEPT !.value.text = text] \in FieldData
BY DEF FieldData, FieldValue

(* basic_dissect_uint32 and its like take no bit. *)
LEMMA BasicIntResult ==
  ASSUME NEW s \in Stack, NEW type
  PROVE  Result(s, basic_dissect_int(type, s), 0)
<1> DEFINE n == Reading(type, s.pos)
           fdata == [s.fdata EXCEPT !.value.num = Wrap(type, n)]
<1>1. s.pos \in DissectPosition /\ s.fdata \in FieldData
  BY DEF Stack
<1>2. Wrap(type, n) \in Int
  BY <1>1, ReadingType, WrapType
<1>3. fdata \in FieldData
  BY <1>1, <1>2, NumType
<1>4. err_d(2, fdata) \in FieldData
  BY <1>3, ErrType
<1>5. basic_dissect_int(type, s) =
        To(s, ShiftBytes(s.pos), IF Fits(type, s.pos) THEN fdata ELSE err_d(2, fdata))
  BY DEF basic_dissect_int
<1> HIDE DEF fdata, n
<1> QED
  BY <1>1, <1>3, <1>4, <1>5, ShiftBytesTook, ToResult

(* basic_dissect_ascii_string takes no bit. *)
LEMMA BasicTextResult ==
  ASSUME NEW s \in Stack
  PROVE  Result(s, basic_dissect_ascii_string(s), 0)
<1> DEFINE fdata == [status |-> s.fdata.status, err |-> 0,
                     value |-> [s.fdata.value EXCEPT !.text = ReadingText(s.pos)]]
<1>1. s.pos \in DissectPosition /\ s.fdata \in FieldData
  BY DEF Stack
<1>2. fdata \in FieldData
  <2>1. [s.fdata.value EXCEPT !.text = ReadingText(s.pos)] \in FieldValue
    BY <1>1, ReadingType DEF FieldData, FieldValue
  <2>2. s.fdata.status \in FieldStatus
    BY <1>1 DEF FieldData
  <2> QED
    BY <2>1, <2>2 DEF FieldData
<1>3. basic_dissect_ascii_string(s) = To(s, ShiftBytes(s.pos), fdata)
  BY DEF basic_dissect_ascii_string
<1> HIDE DEF fdata
<1> QED
  BY <1>1, <1>2, <1>3, ShiftBytesTook, ToResult

(***************************************************************************)
(* A delta takes bytes only; an increment takes its bit of the map.        *)
(***************************************************************************)
LEMMA IntDeltaResult ==
  ASSUME NEW s \in Stack, NEW ftype \in FieldTypes
  PROVE  /\ Result(s, IntDelta(ftype, s).s, 0)
         /\ IntDelta(ftype, s).delta \in Int
<1> DEFINE found == LookUp(ftype, s).fdata
           base  == IF found.status = "Undefined"
                    THEN [status |-> "Exists", err |-> 0,
                          value |-> IF ftype.hasDefault THEN ftype.value
                                                        ELSE init_field_value]
                    ELSE found
           delta == Wrap("Int64", Reading("Int64", s.pos))
<1>1. s.pos \in DissectPosition /\ found \in FieldData
  BY LookUpType DEF Stack
<1>2. init_field_value \in FieldValue /\ ftype.value \in FieldValue
  BY DEF init_field_value, FieldValue, FieldTypes
<1>3. base \in FieldData
  BY <1>1, <1>2 DEF FieldData, FieldStatus
<1>4. delta \in Int
  BY <1>1, ReadingType, WrapType
<1>5. CASE found.status = "Empty" /\ ftype.mandatory
  <2>1. IntDelta(ftype, s) = [dissect_it |-> FALSE, delta |-> 0,
                              s |-> To(s, s.pos, err_d(6, found))]
    BY <1>5 DEF IntDelta
  <2> QED
    BY <1>1, <2>1, ErrType, TookNothing, ToResult
<1>6. CASE ~(found.status = "Empty" /\ ftype.mandatory)
  <2>1. IntDelta(ftype, s) =
          [dissect_it |-> FALSE,
           delta |-> IF ~ftype.mandatory /\ 0 < delta THEN delta - 1 ELSE delta,
           s |-> To(s, ShiftBytes(s.pos), base)]
    BY <1>6 DEF IntDelta
  <2> HIDE DEF base, delta, found
  <2>2. Result(s, To(s, ShiftBytes(s.pos), base), 0)
    BY <1>1, <1>3, ShiftBytesTook, ToResult
  <2> QED
    BY <1>4, <2>1, <2>2
<1> QED
  BY <1>5, <1>6

(* Errors D5 and D6 leave field data. *)
LEMMA AbsentErrorType ==
  ASSUME NEW ftype, NEW found
  PROVE  AbsentError(ftype, found) \in 0..9
BY DEF AbsentError

(* Increment takes one bit. *)
LEMMA IntIncrementResult ==
  ASSUME NEW s \in Stack, NEW ftype \in FieldTypes
  PROVE  /\ Result(s, IntIncrement(ftype, s).s, 1)
         /\ IntIncrement(ftype, s).delta \in Int
<1> DEFINE found == LookUp(ftype, s).fdata
           err   == AbsentError(ftype, found)
           after == dissect_shift_pmap(s.pos)
<1>1. s.pos \in DissectPosition /\ s.fdata \in FieldData /\ found \in FieldData
  BY LookUpType DEF Stack
<1>2. err_d(err, found) \in FieldData
  BY <1>1, AbsentErrorType, ErrType
<1>3. after \in DissectPosition /\ Took(s.pos, after, 1)
  BY <1>1, ShiftPmapTook
<1>4. /\ Result(s, To(s, after, s.fdata), 1)
      /\ Result(s, To(s, after, err_d(err, found)), 1)
      /\ Result(s, To(s, after, found), 1)
  <2> HIDE DEF found, err, after
  <2> QED
    BY <1>1, <1>2, <1>3, ToResult
<1>5. \/ IntIncrement(ftype, s) =
           [dissect_it |-> TRUE, delta |-> 0, s |-> To(s, after, s.fdata)]
      \/ IntIncrement(ftype, s) =
           [dissect_it |-> FALSE, delta |-> 0, s |-> To(s, after, err_d(err, found))]
      \/ IntIncrement(ftype, s) =
           [dissect_it |-> FALSE, delta |-> 1, s |-> To(s, after, found)]
  BY DEF IntIncrement
<1> HIDE DEF found, err, after
<1> QED
  BY <1>4, <1>5

(* dissect_int_op takes a bit for increment only. *)
LEMMA IntOpResult ==
  ASSUME NEW s \in Stack, NEW ftype \in FieldTypes
  PROVE  /\ Result(s, dissect_int_op(ftype, s).s, IF ftype.op = "Increment" THEN 1 ELSE 0)
         /\ dissect_int_op(ftype, s).delta \in Int
<1>1. CASE ftype.op = "Delta"
  BY <1>1, IntDeltaResult DEF dissect_int_op
<1>2. CASE ftype.op = "Increment"
  BY <1>2, IntIncrementResult DEF dissect_int_op
<1>3. CASE ftype.op \notin {"Delta", "Increment"}
  <2>1. dissect_int_op(ftype, s) = [dissect_it |-> TRUE, delta |-> 0, s |-> s]
    BY <1>3 DEF dissect_int_op
  <2>2. Result(s, s, 0)
    BY TookNothing DEF Result, Stack
  <2> QED
    BY <1>3, <2>1, <2>2
<1> QED
  BY <1>1, <1>2, <1>3

(* dissect_uint32 and its like take a bit for increment only. *)
LEMMA DissectIntResult ==
  ASSUME NEW s \in Stack, NEW ftype \in FieldTypes
  PROVE  Result(s, dissect_int(ftype, s), IF ftype.op = "Increment" THEN 1 ELSE 0)
<1> DEFINE op    == dissect_int_op(ftype, s)
           read  == IF op.dissect_it THEN basic_dissect_int(ftype.type, op.s) ELSE op.s
           delta == IF op.dissect_it
                    THEN NullableDelta(ftype, read.fdata.value.num) ELSE op.delta
           num   == Wrap(ftype.type, read.fdata.value.num + delta)
           bits  == IF ftype.op = "Increment" THEN 1 ELSE 0
<1>1. Result(s, op.s, bits) /\ op.delta \in Int
  BY IntOpResult
<1>2. op.s \in Stack /\ Took(s.pos, op.s.pos, bits)
  BY <1>1 DEF Result
<1>3. read \in Stack /\ Took(op.s.pos, read.pos, 0)
  <2>1. CASE op.dissect_it
    BY <1>2, <2>1, BasicIntResult DEF Result
  <2>2. CASE ~op.dissect_it
    BY <1>2, <2>2, TookNothing DEF Stack
  <2> QED
    BY <2>1, <2>2
<1>4. s.pos \in DissectPosition /\ op.s.pos \in DissectPosition
      /\ read.pos \in DissectPosition /\ read.fdata \in FieldData
  BY <1>2, <1>3 DEF Stack
<1>5. bits \in {0, 1}
  OBVIOUS
<1>6. Took(s.pos, read.pos, bits)
  <2> HIDE DEF op, read, bits
  <2> QED
    BY <1>2, <1>3, <1>4, <1>5, TookThenRead
<1>7. num \in Int
  <2>1. read.fdata.value.num \in Int
    BY <1>4 DEF FieldData, FieldValue
  <2>2. delta \in Int
    BY <1>1 DEF NullableDelta
  <2> HIDE DEF read, delta
  <2> QED
    BY <2>1, <2>2, WrapType
<1>8. [read EXCEPT !.fdata.value.num = num] = To(read, read.pos, [read.fdata EXCEPT !.value.num = num])
  <2> HIDE DEF num, read
  <2> QED
    BY <1>3 DEF To, Stack
<1>9. [read.fdata EXCEPT !.value.num = num] \in FieldData
  <2> HIDE DEF num, read
  <2> QED
    BY <1>4, <1>7, NumType
<1>10. [read EXCEPT !.fdata.value.num = num] \in Stack
       /\ [read EXCEPT !.fdata.value.num = num].pos = read.pos
  <2> HIDE DEF num, read
  <2> QED
    BY <1>3, <1>4, <1>8, <1>9 DEF To, Stack
<1>11. Result(s, [read EXCEPT !.fdata.value.num = num], bits)
  <2> HIDE DEF num, read, bits
  <2> QED
    BY <1>6, <1>10 DEF Result
<1>12. dissect_int(ftype, s) = Store(ftype, [read EXCEPT !.fdata.value.num = num])
  BY DEF dissect_int
<1> HIDE DEF num, read, bits, op, delta
<1>13. Result(s, dissect_int(ftype, s), bits)
  BY <1>10, <1>11, <1>12, StoreResult
<1> QED
  BY <1>13 DEF bits

(***************************************************************************)
(* A string delta takes bytes only, whatever the uninitialised text is.    *)
(***************************************************************************)
LEMMA CutAndAppendType ==
  ASSUME NEW previous \in Seq(Char), NEW input \in Seq(Char), NEW subtract \in Int,
         CutLength(subtract) <= Len(previous)
  PROVE  CutAndAppend(previous, subtract, input) \in Seq(Char)
<1>1. CASE subtract < 0
  <2>1. SubSeq(previous, -subtract, Len(previous)) \in Seq(Char)
    BY <1>1
  <2> QED
    BY <1>1, <2>1 DEF CutAndAppend
<1>2. CASE ~(subtract < 0)
  <2>1. SubSeq(previous, 1, Len(previous) - subtract) \in Seq(Char)
    BY <1>2
  <2> QED
    BY <1>2, <2>1 DEF CutAndAppend
<1> QED
  BY <1>1, <1>2

(* dissect_ascii_delta takes no bit, whatever the uninitialised string     *)
(* holds.                                                                  *)
LEMMA AsciiDeltaResult ==
  ASSUME NEW s \in Stack, NEW ftype \in FieldTypes, NEW uninit \in Uninitialised
  PROVE  Result(s, dissect_ascii_delta(ftype, s, uninit), 0)
<1> DEFINE subtract == Reading("Int32", s.pos)
           after    == ShiftBytes(s.pos)
           lookup   == LookUp(ftype, s)
           previous == IF lookup.fdata.status = "Empty"
                       THEN uninit.text ELSE lookup.fdata.value.text
           input    == ReadingText(after)
           both     == ShiftBytes(after)
           text     == CutAndAppend(previous, subtract, input)
<1>1. s.pos \in DissectPosition /\ s.fdata \in FieldData
  BY DEF Stack
<1>2. after \in DissectPosition /\ Took(s.pos, after, 0)
  BY <1>1, ShiftBytesTook
<1>3. both \in DissectPosition /\ Took(after, both, 0)
  BY <1>2, ShiftBytesTook
<1>4. Took(s.pos, both, 0)
  <2> HIDE DEF after, both
  <2> QED
    BY <1>1, <1>2, <1>3, TookThenRead
<1>5. CASE ~lookup.found
  <2>1. dissect_ascii_delta(ftype, s, uninit) =
          basic_dissect_ascii_string(To(s, after, s.fdata))
    BY <1>5 DEF dissect_ascii_delta
  <2> DEFINE t == To(s, after, s.fdata)
  <2>2. Result(s, t, 0)
    <3> HIDE DEF after
    <3> QED
      BY <1>1, <1>2, ToResult
  <2> HIDE DEF t
  <2>3. t \in Stack /\ Took(s.pos, t.pos, 0)
    BY <2>2 DEF Result
  <2>4. /\ basic_dissect_ascii_string(t) \in Stack
        /\ Took(t.pos, basic_dissect_ascii_string(t).pos, 0)
    BY <2>3, BasicTextResult DEF Result
  <2>5. t.pos \in DissectPosition /\ basic_dissect_ascii_string(t).pos \in DissectPosition
    BY <2>3, <2>4 DEF Stack
  <2>6. Took(s.pos, basic_dissect_ascii_string(t).pos, 0)
    BY <1>1, <2>3, <2>4, <2>5, TookThenRead
  <2> QED
    BY <2>1, <2>4, <2>6 DEF Result, t
<1>6. CASE lookup.found /\ InvalidSubtraction(s.pos, previous, uninit.failed)
  <2>1. dissect_ascii_delta(ftype, s, uninit) = To(s, both, err_d(7, s.fdata))
    BY <1>6 DEF dissect_ascii_delta
  <2>2. err_d(7, s.fdata) \in FieldData
    BY <1>1, ErrType
  <2> HIDE DEF both
  <2> QED
    BY <1>3, <1>4, <2>1, <2>2, ToResult
<1>7. CASE lookup.found /\ ~InvalidSubtraction(s.pos, previous, uninit.failed)
  <2>1. dissect_ascii_delta(ftype, s, uninit) =
          To(s, both, [s.fdata EXCEPT !.value.text = text])
    BY <1>7 DEF dissect_ascii_delta
  <2>2. previous \in Seq(Char) /\ input \in Seq(Char) /\ subtract \in Int
    <3>1. lookup.fdata.value.text \in Seq(Char)
      BY LookUpType DEF FieldData, FieldValue
    <3> QED
      BY <1>1, <1>2, <3>1, ReadingType DEF Uninitialised
  <2>3. text \in Seq(Char)
    <3>1. ~(Len(previous) < CutLength(subtract))
      BY <1>7 DEF InvalidSubtraction
    <3>2. CutLength(subtract) <= Len(previous)
      <4> HIDE DEF previous, subtract
      <4> QED
        BY <2>2, <3>1 DEF CutLength
    <3> HIDE DEF previous, subtract, input
    <3> QED
      BY <2>2, <3>2, CutAndAppendType
  <2>4. [s.fdata EXCEPT !.value.text = text] \in FieldData
    <3> HIDE DEF text
    <3> QED
      BY <1>1, <2>3, TextType
  <2> HIDE DEF both, text
  <2> QED
    BY <1>3, <1>4, <2>1, <2>4, ToResult
<1> QED
  BY <1>5, <1>6, <1>7

(* dissect_ascii_string takes no bit. *)
LEMMA DissectTextResult ==
  ASSUME NEW s \in Stack, NEW ftype \in FieldTypes, NEW uninit \in Uninitialised
  PROVE  Result(s, dissect_ascii_string(ftype, s, uninit), 0)
<1> DEFINE read ==
      CASE ftype.op \in {"Delta", "Tail"} -> dissect_ascii_delta(ftype, s, uninit)
        [] ftype.op \in {"None", "Default", "Copy"} -> basic_dissect_ascii_string(s)
        [] OTHER -> s
<1>1. Result(s, read, 0)
  <2>1. Result(s, s, 0)
    BY TookNothing DEF Result, Stack
  <2>2. CASE ftype.op \in {"Delta", "Tail"}
    <3>1. read = dissect_ascii_delta(ftype, s, uninit)
      BY <2>2
    <3> QED
      BY <3>1, AsciiDeltaResult
  <2>3. CASE ftype.op \in {"None", "Default", "Copy"}
    <3>1. read = basic_dissect_ascii_string(s)
      BY <2>3
    <3> QED
      BY <3>1, BasicTextResult
  <2>4. CASE ftype.op \notin {"Delta", "Tail", "None", "Default", "Copy"}
    <3>1. read = s
      BY <2>4
    <3> QED
      BY <2>1, <3>1
  <2> QED
    BY <2>2, <2>3, <2>4
<1>2. dissect_ascii_string(ftype, s, uninit) = Store(ftype, read)
  BY DEF dissect_ascii_string
<1> HIDE DEF read
<1>3. read \in Stack
  BY <1>1 DEF Result
<1> QED
  BY <1>1, <1>2, <1>3, StoreResult

(* The dissector of a field's type takes a bit for increment only. *)
LEMMA FnResult ==
  ASSUME NEW s \in Stack, NEW ftype \in FieldTypes, check_valid_operator(ftype),
         NEW uninit \in Uninitialised
  PROVE  Result(s, dissect_fn(ftype, s, uninit), IF ftype.op = "Increment" THEN 1 ELSE 0)
<1>1. CASE ftype.type \in IntegerType
  BY <1>1, DissectIntResult DEF dissect_fn
<1>2. CASE ftype.type \notin IntegerType
  <2>1. ftype.op # "Increment"
    BY <1>2 DEF check_valid_operator
  <2> QED
    BY <1>2, <2>1, DissectTextResult DEF dissect_fn
<1> QED
  BY <1>1, <1>2

OptionalBits(ftype, t) ==
  IF ChecksPmap(ftype) /\ (~ChecksNull(ftype) \/ t.fdata.status # "Exists")
  THEN 1 ELSE 0

(***************************************************************************)
(* dissect_optional takes the bit of a constant, and that of any other     *)
(* field with a bit exactly when the field turns out to be empty.          *)
(***************************************************************************)
LEMMA OptionalResult ==
  ASSUME NEW s \in Stack, NEW ftype \in FieldTypes
  PROVE  Result(s, dissect_optional(ftype, s),
                OptionalBits(ftype, dissect_optional(ftype, s)))
<1> DEFINE bit    == dissect_peek_pmap(s.pos)
           byBit  == ChecksPmap(ftype) /\ (bit # ChecksNull(ftype))
           null   == ~byBit /\ ChecksNull(ftype) /\ dissect_shift_null(s.pos)
           exists == byBit \/ (ChecksNull(ftype) /\ ~null)
           byteAt == IF null THEN ShiftBytes(s.pos) ELSE s.pos
           takes  == ChecksPmap(ftype) /\ (~ChecksNull(ftype) \/ ~exists)
           bitAt  == IF takes THEN dissect_shift_pmap(byteAt) ELSE byteAt
           status == IF exists THEN "Exists" ELSE "Empty"
           fdata  == [s.fdata EXCEPT !.status = status]
           after  == To(s, bitAt, fdata)
           bits   == IF takes THEN 1 ELSE 0
<1>1. s.pos \in DissectPosition /\ s.fdata \in FieldData
  BY DEF Stack
<1>2. byteAt \in DissectPosition /\ Took(s.pos, byteAt, 0)
  <2> HIDE DEF null
  <2> QED
    BY <1>1, ShiftBytesTook, TookNothing
<1>3. bits \in {0, 1}
  OBVIOUS
<1>4. bitAt \in DissectPosition /\ Took(byteAt, bitAt, bits)
  <2> HIDE DEF takes, byteAt
  <2>1. CASE takes
    BY <1>2, <2>1, ShiftPmapTook
  <2>2. CASE ~takes
    BY <1>2, <2>2, TookNothing
  <2> QED
    BY <2>1, <2>2
<1>5. Took(s.pos, bitAt, bits)
  <2> HIDE DEF bits, bitAt, byteAt
  <2> QED
    BY <1>1, <1>2, <1>3, <1>4, TookAfterRead
<1>6. fdata \in FieldData /\ fdata.status = status
  <2> HIDE DEF exists
  <2> QED
    BY <1>1 DEF FieldData, FieldStatus
<1>7. Result(s, after, bits)
  <2> HIDE DEF bits, bitAt, fdata
  <2> QED
    BY <1>4, <1>5, <1>6, ToResult
<1>8. dissect_optional(ftype, s) =
        IF ~exists /\ SetsEmpty(ftype) THEN Store(ftype, after) ELSE after
  BY DEF dissect_optional
<1>9. Result(s, dissect_optional(ftype, s), bits)
  <2> HIDE DEF after, bits, exists
  <2>1. after \in Stack
    BY <1>7 DEF Result
  <2> QED
    BY <1>7, <1>8, <2>1, StoreResult
<1>10. dissect_optional(ftype, s).fdata.status = status
  <2>1. after.fdata.status = status
    <3> HIDE DEF bitAt, fdata, status
    <3> QED
      BY <1>6 DEF To
  <2>2. Store(ftype, after).fdata = after.fdata
    <3>1. after \in Stack
      BY <1>7 DEF Result
    <3> HIDE DEF after
    <3> QED
      BY <3>1 DEF Store, Stack
  <2> HIDE DEF after, exists, status
  <2> QED
    BY <1>8, <2>1, <2>2
<1>11. bits = OptionalBits(ftype, dissect_optional(ftype, s))
  <2>1. status # "Exists" <=> ~exists
    <3> HIDE DEF exists
    <3> QED
      OBVIOUS
  <2> HIDE DEF exists, status
  <2> QED
    BY <1>10, <2>1 DEF OptionalBits
<1> QED
  BY <1>9, <1>11

(***************************************************************************)
(* The operators that may replace dissection: copy and default take their  *)
(* bit, a constant none.                                                   *)
(***************************************************************************)
LEMMA CopyResult ==
  ASSUME NEW s \in Stack, NEW ftype \in FieldTypes
  PROVE  Result(s, dissect_copy(ftype, s).s, 1)
<1> DEFINE found == LookUp(ftype, s).fdata
           err   == AbsentError(ftype, found)
           after == dissect_shift_pmap(s.pos)
<1>1. s.pos \in DissectPosition /\ s.fdata \in FieldData /\ found \in FieldData
  BY LookUpType DEF Stack
<1>2. err_d(err, found) \in FieldData
  BY <1>1, AbsentErrorType, ErrType
<1>3. after \in DissectPosition /\ Took(s.pos, after, 1)
  BY <1>1, ShiftPmapTook
<1>4. \/ dissect_copy(ftype, s).s = To(s, after, s.fdata)
      \/ dissect_copy(ftype, s).s = To(s, after, err_d(err, found))
      \/ dissect_copy(ftype, s).s = To(s, after, found)
  BY DEF dissect_copy
<1> HIDE DEF found, err, after
<1> QED
  BY <1>1, <1>2, <1>3, <1>4, ToResult

(* dissect_default takes one bit. *)
LEMMA DefaultResult ==
  ASSUME NEW s \in Stack, NEW ftype \in FieldTypes
  PROVE  Result(s, dissect_default(ftype, s).s, 1)
<1> DEFINE after == dissect_shift_pmap(s.pos)
           fdata == [s.fdata EXCEPT !.value = ftype.value]
<1>1. s.pos \in DissectPosition /\ s.fdata \in FieldData
  BY DEF Stack
<1>2. after \in DissectPosition /\ Took(s.pos, after, 1)
  BY <1>1, ShiftPmapTook
<1>3. fdata \in FieldData
  BY <1>1 DEF FieldData, FieldTypes
<1>4. \/ dissect_default(ftype, s).s = To(s, after, s.fdata)
      \/ dissect_default(ftype, s).s = Store(ftype, To(s, after, fdata))
  BY DEF dissect_default
<1> HIDE DEF after, fdata
<1>5. Result(s, To(s, after, s.fdata), 1) /\ Result(s, To(s, after, fdata), 1)
  BY <1>1, <1>2, <1>3, ToResult
<1>6. To(s, after, fdata) \in Stack
  BY <1>5 DEF Result
<1> QED
  BY <1>4, <1>5, <1>6, StoreResult

(* The operators copy and default take one bit, the others none. *)
LEMMA OperatorResult ==
  ASSUME NEW s \in Stack, NEW ftype \in FieldTypes
  PROVE  Result(s, ApplyOperator(ftype, s).s,
                IF ftype.op \in {"Copy", "Default"} THEN 1 ELSE 0)
<1>1. CASE ftype.op = "Copy"
  BY <1>1, CopyResult DEF ApplyOperator
<1>2. CASE ftype.op = "Default"
  BY <1>2, DefaultResult DEF ApplyOperator
<1>3. CASE ftype.op = "Constant"
  <2> DEFINE t == [s EXCEPT !.fdata.value = ftype.value]
             fdata == [s.fdata EXCEPT !.value = ftype.value]
  <2>1. ApplyOperator(ftype, s).s = t
    BY <1>3 DEF ApplyOperator
  <2>2. fdata \in FieldData
    BY DEF Stack, FieldData, FieldTypes
  <2>3. t = To(s, s.pos, fdata)
    BY DEF Stack, To
  <2>4. s.pos \in DissectPosition
    BY DEF Stack
  <2> HIDE DEF t, fdata
  <2>5. Result(s, t, 0)
    BY <2>2, <2>3, <2>4, TookNothing, ToResult
  <2> QED
    BY <1>3, <2>1, <2>5
<1>4. CASE ftype.op \notin {"Copy", "Default", "Constant"}
  <2>1. ApplyOperator(ftype, s).s = s
    BY <1>4 DEF ApplyOperator
  <2>2. Result(s, s, 0)
    BY TookNothing DEF Result, Stack
  <2> QED
    BY <1>4, <2>1, <2>2
<1> QED
  BY <1>1, <1>2, <1>3, <1>4

(* The presence map bits that template.c grants a field. *)
Bits(ftype) == IF requires_pmap_bit(ftype) THEN 1 ELSE 0

(* A field begins with typed data. *)
LEMMA BeginType ==
  ASSUME NEW pos \in DissectPosition, NEW tab \in ConversationTables,
         NEW status \in FieldStatus
  PROVE  [pos |-> pos, tab |-> tab, fdata |-> BlankField(status)] \in Stack
BY DEF Stack, BlankField, FieldData, FieldValue, init_field_value

(* The parts of a typed result. *)
LEMMA TookType ==
  ASSUME NEW s \in Stack, NEW t, NEW n, Result(s, t, n)
  PROVE  t \in Stack /\ s.pos \in DissectPosition /\ t.pos \in DissectPosition
         /\ Took(s.pos, t.pos, n)
BY DEF Result, Stack

(* Two steps of one field, of which only the first takes bits. *)
LEMMA ResultThenRead ==
  ASSUME NEW s \in Stack, NEW t, NEW r, NEW n \in {0, 1},
         Result(s, t, n), Result(t, r, 0)
  PROVE  Result(s, r, n)
<1>1. t \in Stack
  BY DEF Result
<1>2. Took(s.pos, r.pos, n)
  BY <1>1, TookType, TookThenRead
<1> QED
  BY <1>2 DEF Result

(* Two steps of one field, of which only the second takes bits. *)
LEMMA ResultAfterRead ==
  ASSUME NEW s \in Stack, NEW t, NEW r, NEW n \in {0, 1},
         Result(s, t, 0), Result(t, r, n)
  PROVE  Result(s, r, n)
<1>1. t \in Stack
  BY DEF Result
<1>2. Took(s.pos, r.pos, n)
  BY <1>1, TookType, TookAfterRead
<1> QED
  BY <1>2 DEF Result

(* What is left to do for a field that exists. *)
LEMMA ExistsResult ==
  ASSUME NEW s \in Stack, NEW ftype \in FieldTypes, check_valid_operator(ftype),
         NEW uninit \in Uninitialised
  PROVE  /\ Result(s, ApplyOperator(ftype, s).s,
                   IF ftype.op \in {"Copy", "Default"} THEN 1 ELSE 0)
         /\ ApplyOperator(ftype, s).operator_used => ftype.op # "Increment"
         /\ Result(s, dissect_fn(ftype, ApplyOperator(ftype, s).s, uninit),
                   IF ftype.op \in {"Copy", "Default", "Increment"} THEN 1 ELSE 0)
<1> DEFINE t == ApplyOperator(ftype, s).s
           r == dissect_fn(ftype, t, uninit)
<1>1. Result(s, t, IF ftype.op \in {"Copy", "Default"} THEN 1 ELSE 0)
  BY OperatorResult
<1>2. t \in Stack
  BY <1>1 DEF Result
<1>3. Result(t, r, IF ftype.op = "Increment" THEN 1 ELSE 0)
  BY <1>2, FnResult
<1>4. ApplyOperator(ftype, s).operator_used => ftype.op # "Increment"
  BY DEF ApplyOperator
<1> HIDE DEF t, r
<1>5. CASE ftype.op \in {"Copy", "Default"}
  BY <1>1, <1>3, <1>4, <1>5, ResultThenRead DEF t, r
<1>6. CASE ftype.op \notin {"Copy", "Default"}
  BY <1>1, <1>3, <1>4, <1>6, ResultAfterRead DEF t, r
<1> QED
  BY <1>5, <1>6

(***************************************************************************)
(* dissect_value keeps everything well typed and never moves backwards;    *)
(* for any operator but Tail it takes exactly the bits of the presence map *)
(* that requires_pmap_bit of template.c grants the field.                  *)
(***************************************************************************)
LEMMA ValueResult ==
  ASSUME NEW pos \in DissectPosition, NEW tab \in ConversationTables,
         NEW ftype \in FieldTypes, ftype.type # "Group", check_valid_operator(ftype),
         NEW uninit \in Uninitialised
  PROVE  LET r == dissect_value(ftype, pos, tab, uninit) IN
         /\ r \in Stack
         /\ ftype.op # "Tail" => Took(pos, r.pos, Bits(ftype))
         /\ r.pos.bytes = pos.bytes /\ pos.offset <= r.pos.offset
         /\ r.pos.pmap = pos.pmap
         /\ r.pos.rest = pos.rest \/ (pos.rest = "outside" /\ r.pos.rest = "fault")
<1> DEFINE begin == [pos |-> pos, tab |-> tab,
                     fdata |-> BlankField(IF ftype.mandatory THEN "Exists" ELSE "Empty")]
           s  == IF ftype.mandatory THEN begin ELSE dissect_optional(ftype, begin)
           op == ApplyOperator(ftype, s)
           r  == dissect_value(ftype, pos, tab, uninit)
           before == IF ftype.mandatory THEN 0 ELSE OptionalBits(ftype, s)
           after  == IF ftype.op \in {"Copy", "Default", "Increment"} THEN 1 ELSE 0
<1>1. begin \in Stack /\ begin.pos = pos
  BY BeginType DEF FieldStatus
<1>2. Result(begin, begin, 0)
  <2> HIDE DEF begin
  <2> QED
    BY <1>1, TookNothing DEF Result
<1>3. Result(begin, s, before)
  <2> HIDE DEF begin
  <2> QED
    BY <1>1, <1>2, OptionalResult
<1>4. s \in Stack /\ before \in {0, 1}
  BY <1>3 DEF Result, OptionalBits
<1>5. r = CASE s.fdata.status # "Exists" -> s
            [] s.fdata.status = "Exists" /\ op.operator_used -> op.s
            [] OTHER -> dissect_fn(ftype, op.s, uninit)
  BY DEF dissect_value
<1>6. ftype.mandatory => s.fdata.status = "Exists"
  BY DEF BlankField
<1> HIDE DEF begin, s, r
<1>7. CASE s.fdata.status # "Exists"
  <2>1. r = s /\ ~ftype.mandatory
    BY <1>5, <1>6, <1>7
  <2>2. before = IF ChecksPmap(ftype) THEN 1 ELSE 0
    BY <1>7, <2>1 DEF OptionalBits
  <2>3. Result(begin, r, before)
    BY <1>3, <2>1
  <2>4. ftype.op \in FieldOperatorIdentifier
    BY DEF FieldTypes
  <2>5. before = Bits(ftype)
    BY <2>1, <2>2, <2>4 DEF Bits, requires_pmap_bit, ChecksPmap, FieldOperatorIdentifier
  <2> HIDE DEF before
  <2> QED
    BY <1>1, <2>3, <2>5 DEF Result, Took, r
<1>8. CASE s.fdata.status = "Exists"
  <2>1. before = IF ftype.op = "Constant" /\ ~ftype.mandatory THEN 1 ELSE 0
    BY <1>8 DEF OptionalBits, ChecksPmap, ChecksNull
  <2>2. Result(s, r, after)
    <3>1. CASE op.operator_used
      <4>1. r = op.s
        BY <1>5, <1>8, <3>1
      <4> QED
        BY <1>4, <3>1, <4>1, ExistsResult
    <3>2. CASE ~op.operator_used
      <4>1. r = dissect_fn(ftype, op.s, uninit)
        BY <1>5, <1>8, <3>2
      <4> QED
        BY <1>4, <4>1, ExistsResult
    <3> QED
      BY <3>1, <3>2
  <2>3. before = 0 \/ after = 0
    BY <2>1
  <2>4. Bits(ftype) = IF before = 1 \/ after = 1 \/ ftype.op = "Tail" THEN 1 ELSE 0
    BY <2>1 DEF Bits, requires_pmap_bit
  <2> DEFINE both == IF before = 1 \/ after = 1 THEN 1 ELSE 0
  <2>5. Result(begin, r, both)
    <3>1. before \in {0, 1} /\ after \in {0, 1}
      BY <1>4
    <3> HIDE DEF before, after
    <3>2. CASE after = 0
      <4>1. both = before
        BY <3>1, <3>2
      <4> QED
        BY <1>1, <1>3, <2>2, <3>1, <3>2, <4>1, ResultThenRead
    <3>3. CASE before = 0
      <4>1. both = after
        BY <3>1, <3>3
      <4> QED
        BY <1>1, <1>3, <2>2, <3>1, <3>3, <4>1, ResultAfterRead
    <3> QED
      BY <2>3, <3>2, <3>3
  <2>6. ftype.op # "Tail" => both = Bits(ftype)
    BY <2>4
  <2> HIDE DEF both
  <2> QED
    BY <1>1, <2>5, <2>6 DEF Result, Took, r
<1> QED
  BY <1>7, <1>8

(***************************************************************************)
(* What a field leaves in the dictionaries.  Until its data are final no   *)
(* function writes to them.                                                *)
(***************************************************************************)
LEMMA StoreLeaves ==
  ASSUME NEW ftype, NEW s \in Stack
  PROVE  /\ Store(ftype, s).fdata = s.fdata
         /\ Store(ftype, s).tab = set_dictionary_value(s.tab, ftype, s.fdata)
BY DEF Store, Stack

(* Reading an integer leaves the dictionaries alone. *)
LEMMA IntOpKeeps ==
  ASSUME NEW s \in Stack, NEW ftype \in FieldTypes
  PROVE  dissect_int_op(ftype, s).s.tab = s.tab
<1>1. IntDelta(ftype, s).s.tab = s.tab
  BY DEF IntDelta, To
<1>2. IntIncrement(ftype, s).s.tab = s.tab
  BY DEF IntIncrement, To
<1> QED
  BY <1>1, <1>2 DEF dissect_int_op

(* The integer that dissect_uint32 and its like show is the one they store. *)
LEMMA IntStored ==
  ASSUME NEW s \in Stack, NEW ftype \in FieldTypes
  PROVE  LET r == dissect_int(ftype, s) IN
         r.tab = set_dictionary_value(s.tab, ftype, r.fdata)
<1> DEFINE op    == dissect_int_op(ftype, s)
           read  == IF op.dissect_it THEN basic_dissect_int(ftype.type, op.s) ELSE op.s
           delta == IF op.dissect_it
                    THEN NullableDelta(ftype, read.fdata.value.num) ELSE op.delta
           num   == Wrap(ftype.type, read.fdata.value.num + delta)
           final == [read EXCEPT !.fdata.value.num = num]
<1>1. op.s \in Stack /\ op.s.tab = s.tab
  BY IntOpResult, IntOpKeeps DEF Result
<1>2. read \in Stack /\ read.tab = s.tab
  <2>1. CASE op.dissect_it
    <3>1. read = basic_dissect_int(ftype.type, op.s)
      BY <2>1
    <3>2. basic_dissect_int(ftype.type, op.s).tab = op.s.tab
      BY DEF basic_dissect_int, To
    <3> QED
      BY <1>1, <3>1, <3>2, BasicIntResult DEF Result
  <2>2. CASE ~op.dissect_it
    BY <1>1, <2>2
  <2> QED
    BY <2>1, <2>2
<1>3. op.delta \in Int
  BY IntOpResult
<1> HIDE DEF op
<1>4. num \in Int
  <2>1. read.fdata.value.num \in Int
    BY <1>2 DEF Stack, FieldData, FieldValue
  <2>2. delta \in Int
    BY <1>3 DEF NullableDelta
  <2> HIDE DEF read, delta
  <2> QED
    BY <2>1, <2>2, WrapType
<1> HIDE DEF read, num
<1>5. final \in Stack /\ final.tab = s.tab
  <2>1. [read.fdata EXCEPT !.value.num = num] \in FieldData
    BY <1>2, <1>4, NumType DEF Stack
  <2>2. final = [read EXCEPT !.fdata = [read.fdata EXCEPT !.value.num = num]]
    BY <1>2 DEF Stack
  <2> HIDE DEF final
  <2> QED
    BY <1>2, <2>1, <2>2 DEF Stack
<1>6. dissect_int(ftype, s) = Store(ftype, final)
  BY DEF dissect_int, final, num, delta, read, op
<1> HIDE DEF final
<1> QED
  BY <1>5, <1>6, StoreLeaves

(* The string that dissect_ascii_string shows is the one it stores. *)
LEMMA TextStored ==
  ASSUME NEW s \in Stack, NEW ftype \in FieldTypes, NEW uninit \in Uninitialised
  PROVE  LET r == dissect_ascii_string(ftype, s, uninit) IN
         r.tab = set_dictionary_value(s.tab, ftype, r.fdata)
<1> DEFINE read ==
      CASE ftype.op \in {"Delta", "Tail"} -> dissect_ascii_delta(ftype, s, uninit)
        [] ftype.op \in {"None", "Default", "Copy"} -> basic_dissect_ascii_string(s)
        [] OTHER -> s
<1>1. dissect_ascii_delta(ftype, s, uninit).tab = s.tab
  BY DEF dissect_ascii_delta, basic_dissect_ascii_string, To
<1>2. basic_dissect_ascii_string(s).tab = s.tab
  BY DEF basic_dissect_ascii_string, To
<1>3. read \in Stack
  <2>1. dissect_ascii_delta(ftype, s, uninit) \in Stack
    BY AsciiDeltaResult DEF Result
  <2>2. basic_dissect_ascii_string(s) \in Stack
    BY BasicTextResult DEF Result
  <2> QED
    BY <2>1, <2>2
<1>4. read.tab = s.tab
  BY <1>1, <1>2
<1>5. dissect_ascii_string(ftype, s, uninit) = Store(ftype, read)
  BY DEF dissect_ascii_string
<1> HIDE DEF read
<1> QED
  BY <1>3, <1>4, <1>5, StoreLeaves

(* Whatever a field's own dissector shows it stores. *)
LEMMA FnStored ==
  ASSUME NEW s \in Stack, NEW ftype \in FieldTypes, NEW uninit \in Uninitialised
  PROVE  LET r == dissect_fn(ftype, s, uninit) IN
         r.tab = set_dictionary_value(s.tab, ftype, r.fdata)
BY IntStored, TextStored DEF dissect_fn

(* What dissect_optional decides: the field exists, with its dictionaries  *)
(* as they were; or it is empty and, unless it is a constant or a delta,   *)
(* stored as empty.                                                        *)
LEMMA OptionalStored ==
  ASSUME NEW s \in Stack, NEW ftype \in FieldTypes
  PROVE  LET r == dissect_optional(ftype, s) IN
         /\ r.fdata.status = "Exists" \/ ~SetsEmpty(ftype) => r.tab = s.tab
         /\ r.fdata.status # "Exists" /\ SetsEmpty(ftype) =>
              r.tab = set_dictionary_value(s.tab, ftype, r.fdata)
         /\ ftype.op = "Delta" =>
              (r.fdata.status = "Exists" <=> ~dissect_shift_null(s.pos))
<1> DEFINE bit    == dissect_peek_pmap(s.pos)
           byBit  == ChecksPmap(ftype) /\ (bit # ChecksNull(ftype))
           null   == ~byBit /\ ChecksNull(ftype) /\ dissect_shift_null(s.pos)
           exists == byBit \/ (ChecksNull(ftype) /\ ~null)
           byteAt == IF null THEN ShiftBytes(s.pos) ELSE s.pos
           takes  == ChecksPmap(ftype) /\ (~ChecksNull(ftype) \/ ~exists)
           bitAt  == IF takes THEN dissect_shift_pmap(byteAt) ELSE byteAt
           status == IF exists THEN "Exists" ELSE "Empty"
           fdata  == [s.fdata EXCEPT !.status = status]
           after  == To(s, bitAt, fdata)
           r      == dissect_optional(ftype, s)
<1>1. r = IF ~exists /\ SetsEmpty(ftype) THEN Store(ftype, after) ELSE after
  BY DEF dissect_optional
<1>2. bitAt \in DissectPosition
  <2>1. s.pos \in DissectPosition
    BY DEF Stack
  <2>2. byteAt \in DissectPosition
    BY <2>1, ShiftBytesTook
  <2> HIDE DEF byteAt
  <2> QED
    BY <2>2, ShiftPmapTook
<1>3. fdata \in FieldData /\ fdata.status = status
  <2> HIDE DEF exists
  <2> QED
    BY DEF Stack, FieldData, FieldStatus
<1>4. ftype.op = "Delta" => (exists <=> ~dissect_shift_null(s.pos))
  BY DEF ChecksPmap, ChecksNull
<1> HIDE DEF bitAt, fdata, exists, r
<1>5. after \in Stack /\ after.tab = s.tab /\ after.fdata = fdata
  BY <1>2, <1>3 DEF To, Stack
<1> HIDE DEF after
<1>6. r.fdata = fdata
  BY <1>1, <1>5, StoreLeaves
<1>7. r.fdata.status = "Exists" <=> exists
  BY <1>3, <1>6
<1>8. exists \/ ~SetsEmpty(ftype) => r.tab = s.tab
  BY <1>1, <1>5
<1>9. ~exists /\ SetsEmpty(ftype) => r.tab = set_dictionary_value(s.tab, ftype, r.fdata)
  BY <1>1, <1>5, <1>6, StoreLeaves
<1> QED
  BY <1>4, <1>7, <1>8, <1>9 DEF r

(* The operators that replace dissection: a default is stored, a copied    *)
(* value is the one that is in the dictionary already.                     *)
LEMMA OperatorStored ==
  ASSUME NEW s \in Stack, NEW ftype \in FieldTypes
  PROVE  LET op == ApplyOperator(ftype, s) IN
         /\ ~op.operator_used => op.s.tab = s.tab
         /\ op.operator_used =>
              \/ ftype.op = "Constant" /\ op.s.tab = s.tab
              \/ /\ ftype.op = "Default"
                 /\ op.s.tab = set_dictionary_value(s.tab, ftype, op.s.fdata)
              \/ /\ ftype.op = "Copy" /\ op.s.tab = s.tab
                 /\ op.s.fdata = LookUp(ftype, s).fdata
<1>1. CASE ftype.op = "Copy"
  BY <1>1 DEF ApplyOperator, dissect_copy, To
<1>2. CASE ftype.op = "Default"
  <2> DEFINE after == dissect_shift_pmap(s.pos)
             fdata == [s.fdata EXCEPT !.value = ftype.value]
             t     == To(s, after, fdata)
  <2>1. s.pos \in DissectPosition /\ s.fdata \in FieldData /\ s.tab \in ConversationTables
    BY DEF Stack
  <2>2. after \in DissectPosition
    BY <2>1, ShiftPmapTook
  <2>3. fdata \in FieldData
    BY <2>1 DEF FieldData, FieldTypes
  <2>4. ApplyOperator(ftype, s) =
          IF dissect_peek_pmap(s.pos)
          THEN [operator_used |-> FALSE, s |-> To(s, after, s.fdata)]
          ELSE [operator_used |-> TRUE, s |-> Store(ftype, t)]
    BY <1>2 DEF ApplyOperator, dissect_default
  <2> HIDE DEF after, fdata
  <2>5. t \in Stack /\ t.tab = s.tab /\ To(s, after, s.fdata).tab = s.tab
    BY <2>1, <2>2, <2>3 DEF To, Stack
  <2> HIDE DEF t
  <2> QED
    BY <1>2, <2>4, <2>5, StoreLeaves
<1>3. CASE ftype.op = "Constant"
  BY <1>3 DEF ApplyOperator, Stack
<1>4. CASE ftype.op \notin {"Copy", "Default", "Constant"}
  BY <1>4 DEF ApplyOperator
<1> QED
  BY <1>1, <1>2, <1>3, <1>4

(* A null delta and a constant do not touch the dictionaries. *)
LeavesAlone(ftype, pos) ==
  \/ ftype.op = "Constant"
  \/ ftype.op = "Delta" /\ dissect_shift_null(pos) /\ ~ftype.mandatory

(***************************************************************************)
(* dissect_value leaves the dictionaries alone for a constant and for a    *)
(* null delta; otherwise it stores what it shows, or shows what a copy     *)
(* field has looked up.                                                    *)
(***************************************************************************)
LEMMA ValueStored ==
  ASSUME NEW pos \in DissectPosition, NEW tab \in ConversationTables,
         NEW ftype \in FieldTypes, check_valid_operator(ftype),
         NEW uninit \in Uninitialised
  PROVE  LET r == dissect_value(ftype, pos, tab, uninit) IN
         /\ LeavesAlone(ftype, pos) => r.tab = tab
         /\ ~LeavesAlone(ftype, pos) =>
              \/ r.tab = set_dictionary_value(tab, ftype, r.fdata)
              \/ /\ ftype.op = "Copy" /\ r.tab = tab
                 /\ \E fdata \in FieldData :
                      r.fdata = get_dictionary_value(tab, ftype, fdata).fdata
<1> DEFINE begin == [pos |-> pos, tab |-> tab,
                     fdata |-> BlankField(IF ftype.mandatory THEN "Exists" ELSE "Empty")]
           s  == IF ftype.mandatory THEN begin ELSE dissect_optional(ftype, begin)
           op == ApplyOperator(ftype, s)
           r  == dissect_value(ftype, pos, tab, uninit)
<1>1. begin \in Stack /\ begin.pos = pos /\ begin.tab = tab
  BY BeginType DEF FieldStatus
<1>2. ftype.mandatory => s = begin /\ s.fdata.status = "Exists"
  BY DEF BlankField
<1>3. ~ftype.mandatory => s = dissect_optional(ftype, begin)
  OBVIOUS
<1>4. r = CASE s.fdata.status # "Exists" -> s
            [] s.fdata.status = "Exists" /\ op.operator_used -> op.s
            [] OTHER -> dissect_fn(ftype, op.s, uninit)
  BY DEF dissect_value
<1> HIDE DEF begin, s, r
<1>5. s \in Stack
  BY <1>1, <1>2, <1>3, OptionalResult DEF Result
<1>6. s.tab = tab \/ (s.fdata.status # "Exists" /\ SetsEmpty(ftype))
  BY <1>1, <1>2, <1>3, OptionalStored
<1>7. CASE s.fdata.status # "Exists"
  <2>1. ~ftype.mandatory /\ r = s
    BY <1>2, <1>4, <1>7
  <2>2. SetsEmpty(ftype) => s.tab = set_dictionary_value(tab, ftype, s.fdata)
    BY <1>1, <1>3, <1>7, <2>1, OptionalStored
  <2>3. ftype.op = "Delta" => dissect_shift_null(pos)
    BY <1>1, <1>3, <1>7, <2>1, OptionalStored
  <2> QED
    BY <1>6, <2>1, <2>2, <2>3 DEF LeavesAlone, SetsEmpty, r
<1>8. CASE s.fdata.status = "Exists"
  <2>1. s.tab = tab
    BY <1>6, <1>8
  <2>2. LeavesAlone(ftype, pos) => ftype.op = "Constant"
    BY <1>1, <1>3, <1>8, OptionalStored DEF LeavesAlone
  <2>3. CASE op.operator_used
    <3>1. r = op.s
      BY <1>4, <1>8, <2>3
    <3>2. LookUp(ftype, s).fdata = get_dictionary_value(tab, ftype, s.fdata).fdata
          /\ s.fdata \in FieldData
      BY <1>5, <2>1 DEF LookUp, Stack
    <3> HIDE DEF op
    <3> QED
      BY <1>5, <2>1, <2>2, <2>3, <3>1, <3>2, OperatorStored DEF LeavesAlone, op, r
  <2>4. CASE ~op.operator_used
    <3>1. r = dissect_fn(ftype, op.s, uninit)
      BY <1>4, <1>8, <2>4
    <3>2. op.s.tab = tab /\ op.s \in Stack
      BY <1>5, <2>1, <2>4, OperatorStored, OperatorResult DEF Result
    <3>3. r.tab = set_dictionary_value(tab, ftype, r.fdata)
      BY <3>1, <3>2, FnStored
    <3>4. ftype.op # "Constant"
      BY <2>4 DEF ApplyOperator
    <3> QED
      BY <2>2, <3>3, <3>4 DEF r
  <2> QED
    BY <2>3, <2>4
<1> QED
  BY <1>7, <1>8

(* A field in error stays in error when it is read all the same. *)
LEMMA ErrorStays ==
  ASSUME NEW s \in Stack, NEW ftype \in FieldTypes, NEW uninit \in Uninitialised,
         ftype.op = "Copy", s.fdata.status = "Error"
  PROVE  dissect_fn(ftype, s, uninit).fdata.status = "Error"
<1>1. CASE ftype.type \in IntegerType
  <2> DEFINE read == basic_dissect_int(ftype.type, s)
             num  == Wrap(ftype.type, read.fdata.value.num
                                        + NullableDelta(ftype, read.fdata.value.num))
             final == [read EXCEPT !.fdata.value.num = num]
  <2>1. read \in Stack /\ read.fdata.status = "Error"
    <3>1. read.fdata.status = "Error"
      BY DEF basic_dissect_int, To, err_d, Stack, FieldData
    <3> QED
      BY <3>1, BasicIntResult DEF Result
  <2>2. dissect_fn(ftype, s, uninit) = Store(ftype, final)
    BY <1>1 DEF dissect_fn, dissect_int, dissect_int_op
  <2>3. num \in Int
    <3>1. read.fdata.value.num \in Int
      BY <2>1 DEF Stack, FieldData, FieldValue
    <3> HIDE DEF read
    <3>2. read.fdata.value.num + NullableDelta(ftype, read.fdata.value.num) \in Int
      BY <3>1 DEF NullableDelta
    <3> QED
      BY <3>2, WrapType
  <2> HIDE DEF read, num
  <2>4. final \in Stack /\ final.fdata.status = "Error"
    <3>1. [read.fdata EXCEPT !.value.num = num] \in FieldData
      BY <2>1, <2>3, NumType DEF Stack
    <3>2. final = [read EXCEPT !.fdata = [read.fdata EXCEPT !.value.num = num]]
      BY <2>1 DEF Stack
    <3>3. [read.fdata EXCEPT !.value.num = num].status = "Error"
      BY <2>1 DEF Stack, FieldData
    <3> HIDE DEF final
    <3> QED
      BY <2>1, <3>1, <3>2, <3>3 DEF Stack
  <2> HIDE DEF final
  <2> QED
    BY <2>2, <2>4, StoreLeaves
<1>2. CASE ftype.type \notin IntegerType
  <2> DEFINE read == basic_dissect_ascii_string(s)
  <2>1. read \in Stack /\ read.fdata.status = "Error"
    BY BasicTextResult DEF Result, basic_dissect_ascii_string, To
  <2>2. dissect_fn(ftype, s, uninit) = Store(ftype, read)
    BY <1>2 DEF dissect_fn, dissect_ascii_string
  <2> HIDE DEF read
  <2> QED
    BY <2>1, <2>2, StoreLeaves
<1> QED
  BY <1>1, <1>2

(***************************************************************************)
(* The head of a message takes one bit of the presence map it has just     *)
(* read, and stays in the packet.                                          *)
(***************************************************************************)
LEMMA PmapType ==
  ASSUME NEW p \in DissectPosition
  PROVE  /\ basic_dissect_pmap(p) \in DissectPosition
         /\ basic_dissect_pmap(p).bytes = p.bytes
         /\ basic_dissect_pmap(p).pmap_idx = 0
         /\ p.offset <= basic_dissect_pmap(p).offset
         /\ basic_dissect_pmap(p).rest = p.rest
              \/ (p.rest = "outside" /\ basic_dissect_pmap(p).rest = "fault")
<1> DEFINE pmap == IF NoEntity(p) THEN << >> ELSE AsPmap[NextToken(p)]
           offset == ShiftBytes(p).offset
           rest == ShiftBytes(p).rest
<1>1. pmap \in Seq(BOOLEAN)
  <2>1. CASE NoEntity(p)
    BY <2>1
  <2>2. CASE ~NoEntity(p)
    <3>1. NextToken(p) \in Token
      BY <2>2, NextTokenType
    <3>2. AsPmap[NextToken(p)] \in Seq(BOOLEAN)
      BY <3>1, TokenAssumption
    <3> QED
      BY <2>2, <3>2
  <2> QED
    BY <2>1, <2>2
<1>2. /\ offset \in Nat /\ offset <= Len(p.bytes) /\ p.offset <= offset
      /\ rest \in {"none", "torn", "outside", "fault"}
      /\ rest = p.rest \/ (p.rest = "outside" /\ rest = "fault")
  BY ShiftBytesTook DEF DissectPosition, Took
<1>3. basic_dissect_pmap(p) =
        [bytes |-> p.bytes, rest |-> rest, offset |-> offset, pmap |-> pmap, pmap_idx |-> 0]
  BY DEF basic_dissect_pmap
<1> HIDE DEF pmap, offset, rest
<1> QED
  BY <1>1, <1>2, <1>3 DEF DissectPosition

(* The head of a message has consumed one bit of its presence map. *)
LEMMA HeadType ==
  ASSUME NEW p \in DissectPosition
  PROVE  LET q == HeadPosition(MessageHead(p)) IN
         /\ q \in DissectPosition
         /\ q.bytes = p.bytes /\ p.offset <= q.offset
         /\ q.rest = p.rest \/ (p.rest = "outside" /\ q.rest = "fault")
         /\ q.pmap_idx = IF 1 <= Len(q.pmap) THEN 1 ELSE 0
<1> DEFINE mapped == basic_dissect_pmap(p)
           first  == dissect_shift_pmap(mapped)
           q      == HeadPosition(MessageHead(p))
<1>1. mapped \in DissectPosition /\ mapped.bytes = p.bytes /\ mapped.pmap_idx = 0
      /\ p.offset <= mapped.offset
      /\ (mapped.rest = p.rest \/ (p.rest = "outside" /\ mapped.rest = "fault"))
  BY PmapType
<1>2. MessageHead(p).first = first
  BY DEF MessageHead
<1> HIDE DEF mapped
<1>3. first \in DissectPosition /\ Took(mapped, first, 1)
  BY <1>1, ShiftPmapTook
<1> HIDE DEF first
<1>4. q \in DissectPosition /\ Took(first, q, 0)
  BY <1>2, <1>3, ShiftBytesTook, TookNothing DEF HeadPosition
<1> HIDE DEF q
<1>5. /\ q \in DissectPosition
      /\ q.bytes = p.bytes /\ p.offset <= q.offset
      /\ q.rest = p.rest \/ (p.rest = "outside" /\ q.rest = "fault")
      /\ q.pmap_idx = IF 1 <= Len(q.pmap) THEN 1 ELSE 0
  BY <1>1, <1>3, <1>4 DEF Took, DissectPosition
<1> QED
  BY <1>5 DEF q

(* The template id of a message is a natural number, its own or the last   *)
(* one's.                                                                  *)
LEMMA HeadIdType ==
  ASSUME NEW p \in DissectPosition, NEW id \in Nat
  PROVE  HeadId(MessageHead(p), id) \in Nat
<1>1. MessageHead(p).first \in DissectPosition
  BY PmapType, ShiftPmapTook DEF MessageHead
<1>2. Wrap("UInt32", Reading("UInt32", MessageHead(p).first)) \in Nat
  BY <1>1, ReadingType, WrapType DEF UnsignedType
<1> QED
  BY <1>2 DEF HeadId
================================================================================
