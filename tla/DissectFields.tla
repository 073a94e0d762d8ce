---------------------------- MODULE DissectFields -----------------------------
(***************************************************************************)
(* dissect.c and basic-dissect.c for scalar fields: what each function     *)
(* does to the position in the packet, to the field's data and to the      *)
(* dictionaries of the conversation.                                       *)
(*                                                                         *)
(* Bytes are a sequence of tokens, each one entity that ends with a stop   *)
(* bit, and a rest without one.  A token has one reading per way the code  *)
(* decodes it, because the code may read any entity as anything.  The      *)
(* readings are those of decode.c without truncation, which is the         *)
(* callers' (Wrap, D2).                                                    *)
(***************************************************************************)
EXTENDS Dictionaries

CONSTANTS
  Token,       \* the stop-bit entities
  NullToken,   \* the one byte 0x80
  Size,        \* the number of bytes of each token
  AsUnsigned,  \* decode_uint64, unbounded
  AsSigned,    \* decode_int64, unbounded
  AsText,      \* decode_ascii_string, up to the first NUL
  AsPmap,      \* decode_pmap: seven bits for each byte
  MaxBytes32,  \* Int32MaxBytes, 5 in the code
  MaxBytes64   \* Int64MaxBytes, 10 in the code

ASSUME TokenAssumption ==
  /\ NullToken \in Token
  /\ AsUnsigned \in [Token -> Nat]
  /\ AsSigned \in [Token -> Int]
  /\ AsText \in [Token -> Seq(Char)]
  /\ AsPmap \in [Token -> Seq(BOOLEAN)]

MaxBytes(type) == IF type \in {"UInt32", "Int32"} THEN MaxBytes32 ELSE MaxBytes64

Read(type, t) == IF type \in UnsignedType THEN AsUnsigned[t] ELSE AsSigned[t]

(* Fewer bytes than the most a type may have always fit into it.           *)
ASSUME SizeAssumption ==
  /\ Size \in [Token -> Nat \ {0}] /\ Size[NullToken] = 1
  /\ \A type \in IntegerType, t \in Token :
       Size[t] < MaxBytes(type) => InRange(type, Read(type, t))

(***************************************************************************)
(* DissectPosition.  pmap_len is Len(pmap).  nbytes counts what is behind  *)
(* the offset: the tokens left and the rest, which is                      *)
(*   - "none", so that nbytes is 0 at the end of the tokens;               *)
(*   - "torn": bytes of which none has a stop bit;                         *)
(*   - "outside": the position is past its packet and nbytes has wrapped   *)
(*     around; the tokens are memory, and more may not be read;            *)
(*   - "fault": it has been read all the same.                             *)
(***************************************************************************)
DissectPosition ==
  {p \in [bytes : Seq(Token), rest : {"none", "torn", "outside", "fault"},
          offset : Nat, pmap : Seq(BOOLEAN), pmap_idx : Nat] :
     p.offset <= Len(p.bytes) /\ p.pmap_idx <= Len(p.pmap)}

(* count_stop_bit_encoded finds no stop bit. *)
NoEntity(pos) == pos.offset = Len(pos.bytes)

(* nbytes is 0. *)
AtEnd(pos) == NoEntity(pos) /\ pos.rest = "none"

NextToken(pos) == pos.bytes[pos.offset + 1]

(* Mutants: the offset moves past the end, or not at all. *)
ShiftBytesUnchecked(pos) == [pos EXCEPT !.offset = @ + 1]
ShiftBytesStuck(pos) == pos

(* ShiftBytes after count_stop_bit_encoded, which has looked at all bytes  *)
(* up to a stop bit: without one nothing is consumed.                      *)
ShiftBytes(pos) ==
  CASE ~NoEntity(pos) -> [pos EXCEPT !.offset = @ + 1]
    [] NoEntity(pos) /\ pos.rest = "outside" -> [pos EXCEPT !.rest = "fault"]
    [] OTHER -> pos

(* dissect_shift_pmap and dissect_peek_pmap; a bit past the end reads FALSE. *)
dissect_peek_pmap(pos) ==
  pos.pmap_idx < Len(pos.pmap) /\ pos.pmap[pos.pmap_idx + 1]

dissect_shift_pmap(pos) ==
  IF pos.pmap_idx < Len(pos.pmap) THEN [pos EXCEPT !.pmap_idx = @ + 1] ELSE pos

(* Whether dissect_shift_null finds the null byte, which it then consumes; *)
(* where it does not, the field is read from the same place.               *)
dissect_shift_null(pos) == ~NoEntity(pos) /\ NextToken(pos) = NullToken

basic_dissect_pmap(pos) ==
  [bytes |-> pos.bytes, rest |-> ShiftBytes(pos).rest, offset |-> ShiftBytes(pos).offset,
   pmap |-> IF NoEntity(pos) THEN << >> ELSE AsPmap[NextToken(pos)],
   pmap_idx |-> 0]

(* The head of dissect_fast_bytes: presence map and, if its first bit says  *)
(* so, the template id; without it the message has the id of the last one.  *)
MessageHead(p) ==
  LET mapped == basic_dissect_pmap(p)
  IN  [first |-> dissect_shift_pmap(mapped),
       hasId |-> dissect_peek_pmap(mapped)]

(* Mutant: increment is taken for an operator without a bit, like delta. *)
requires_pmap_bit_no_increment(ftype) ==
  \/ ftype.op = "Constant" /\ ~ftype.mandatory
  \/ ftype.op \in {"Default", "Copy", "Tail"}

(* requires_pmap_bit of template.c. *)
requires_pmap_bit(ftype) ==
  \/ (ftype.type = "Group" \/ ftype.op = "Constant") /\ ~ftype.mandatory
  \/ ftype.op \in {"Default", "Copy", "Increment", "Tail"}

(***************************************************************************)
(* What the functions of dissect.c work on.                                *)
(***************************************************************************)
Stack == [pos : DissectPosition, fdata : FieldData, tab : ConversationTables]

(* The stack after a function has moved to pos and set the field's data.   *)
To(s, pos, fdata) == [pos |-> pos, fdata |-> fdata, tab |-> s.tab]

Reading(type, pos) == IF NoEntity(pos) THEN 0 ELSE Read(type, NextToken(pos))

(* The nbytes of what is read. *)
Bytes(pos) == IF NoEntity(pos) THEN 0 ELSE Size[NextToken(pos)]

(* No error D2: an entity that is not too long, and of one of the greatest *)
(* length no extra bits.                                                   *)
Fits(type, pos) == Bytes(pos) <= MaxBytes(type) /\ InRange(type, Reading(type, pos))

(* basic_dissect_uint32, _uint64, _int32 and _int64.  The status is only   *)
(* ever changed to an error: a field in error stays in error.              *)
basic_dissect_int(type, s) ==
  LET fdata == [s.fdata EXCEPT !.value.num = Wrap(type, Reading(type, s.pos))]
  IN  To(s, ShiftBytes(s.pos),
         IF Fits(type, s.pos) THEN fdata ELSE err_d(2, fdata))

HeadId(h, template_id) ==
  IF h.hasId THEN Wrap("UInt32", Reading("UInt32", h.first)) ELSE template_id

HeadPosition(h) == IF h.hasId THEN ShiftBytes(h.first) ELSE h.first

ReadingText(pos) == IF NoEntity(pos) THEN << >> ELSE AsText[NextToken(pos)]

(* The text takes the place of any error message; the status is untouched. *)
basic_dissect_ascii_string(s) ==
  To(s, ShiftBytes(s.pos),
     [status |-> s.fdata.status, err |-> 0,
      value |-> [s.fdata.value EXCEPT !.text = ReadingText(s.pos)]])

LookUp(ftype, s) == get_dictionary_value(s.tab, ftype, s.fdata)

Store(ftype, s) == [s EXCEPT !.tab = set_dictionary_value(@, ftype, s.fdata)]

(***************************************************************************)
(* dissect_int_op: whether the caller still has to read the integer, the   *)
(* delta it has to add, and the stack.                                     *)
(***************************************************************************)
IntDelta(ftype, s) ==
  LET found == LookUp(ftype, s).fdata
      base  == IF found.status = "Undefined"
               THEN [status |-> "Exists", err |-> 0,
                     value |-> IF ftype.hasDefault THEN ftype.value
                                                   ELSE init_field_value]
               ELSE found
      delta == Wrap("Int64", Reading("Int64", s.pos))
  IN  IF found.status = "Empty" /\ ftype.mandatory
      THEN [dissect_it |-> FALSE, delta |-> 0,
            s |-> To(s, s.pos, err_d(6, found))]
      ELSE [dissect_it |-> FALSE,
            delta |-> IF ~ftype.mandatory /\ 0 < delta THEN delta - 1 ELSE delta,
            s |-> To(s, ShiftBytes(s.pos), base)]

(* Mutant: an empty previous value is not an error. *)
AbsentErrorD5(ftype, found) ==
  IF ftype.mandatory /\ found.status = "Undefined" THEN 5 ELSE 0

(* The dynamic error of an absent mandatory field, 0 if there is none. *)
AbsentError(ftype, found) ==
  CASE ftype.mandatory /\ found.status = "Undefined" -> 5
    [] ftype.mandatory /\ found.status = "Empty" -> 6
    [] OTHER -> 0

IntIncrement(ftype, s) ==
  LET found == LookUp(ftype, s).fdata
      err   == AbsentError(ftype, found)
      after == dissect_shift_pmap(s.pos)
  IN  CASE dissect_peek_pmap(s.pos) ->
             [dissect_it |-> TRUE, delta |-> 0, s |-> To(s, after, s.fdata)]
        [] ~dissect_peek_pmap(s.pos) /\ err # 0 ->
             [dissect_it |-> FALSE, delta |-> 0, s |-> To(s, after, err_d(err, found))]
        [] OTHER ->
             [dissect_it |-> FALSE, delta |-> 1, s |-> To(s, after, found)]

dissect_int_op(ftype, s) ==
  CASE ftype.op = "Delta"     -> IntDelta(ftype, s)
    [] ftype.op = "Increment" -> IntIncrement(ftype, s)
    [] OTHER -> [dissect_it |-> TRUE, delta |-> 0, s |-> s]

(* An optional integer is sent one higher than it is, a signed one only if *)
(* it is not negative.                                                     *)
NullableDelta(ftype, num) ==
  IF ~ftype.mandatory /\ (ftype.type \in UnsignedType \/ 0 < num) THEN -1 ELSE 0

(* dissect_uint32, dissect_uint64, dissect_int32 and dissect_int64. *)
dissect_int(ftype, s) ==
  LET op    == dissect_int_op(ftype, s)
      read  == IF op.dissect_it THEN basic_dissect_int(ftype.type, op.s) ELSE op.s
      delta == IF op.dissect_it
               THEN NullableDelta(ftype, read.fdata.value.num) ELSE op.delta
      num   == Wrap(ftype.type, read.fdata.value.num + delta)
  IN  Store(ftype, [read EXCEPT !.fdata.value.num = num])

(***************************************************************************)
(* dissect_ascii_delta, which also serves Tail.  Nothing is initialised in *)
(* its locals.  uninit is what the stack holds: the text that stands for   *)
(* an empty previous string, and whether the status of the subtraction     *)
(* length, which is set only by error D2, happens to be FieldError.        *)
(***************************************************************************)
Uninitialised == [text : Seq(Char), failed : BOOLEAN]

CutLength(subtract) == IF subtract < 0 THEN -(subtract + 1) ELSE subtract

(* Error D7: a length too long, out of range, or more than there is.       *)
InvalidSubtraction(pos, previous, failed) ==
  \/ MaxBytes32 < Bytes(pos)
  \/ MaxBytes32 = Bytes(pos) /\ (failed \/ ~InRange("Int32", Reading("Int32", pos)))
  \/ Len(previous) < CutLength(Reading("Int32", pos))

CutAndAppend(previous, subtract, input) ==
  IF subtract < 0
  THEN input \o SubSeq(previous, -subtract, Len(previous))
  ELSE SubSeq(previous, 1, Len(previous) - subtract) \o input

dissect_ascii_delta(ftype, s, uninit) ==
  LET subtract == Reading("Int32", s.pos)
      after    == ShiftBytes(s.pos)
      lookup   == LookUp(ftype, s)
      previous == IF lookup.fdata.status = "Empty"
                  THEN uninit.text ELSE lookup.fdata.value.text
      input    == ReadingText(after)
      both     == ShiftBytes(after)
  IN  CASE ~lookup.found ->
             basic_dissect_ascii_string(To(s, after, s.fdata))
        [] lookup.found /\ InvalidSubtraction(s.pos, previous, uninit.failed) ->
             To(s, both, err_d(7, s.fdata))
        [] OTHER ->
             To(s, both, [s.fdata EXCEPT !.value.text =
                            CutAndAppend(previous, subtract, input)])

(* Mutant: the result of a string delta is not stored. *)
dissect_ascii_string_unstored(ftype, s, uninit) ==
  CASE ftype.op \in {"Delta", "Tail"} -> dissect_ascii_delta(ftype, s, uninit)
    [] ftype.op \in {"None", "Default", "Copy"} ->
         Store(ftype, basic_dissect_ascii_string(s))
    [] OTHER -> Store(ftype, s)

dissect_ascii_string(ftype, s, uninit) ==
  Store(ftype,
    CASE ftype.op \in {"Delta", "Tail"} -> dissect_ascii_delta(ftype, s, uninit)
      [] ftype.op \in {"None", "Default", "Copy"} -> basic_dissect_ascii_string(s)
      [] OTHER -> s)

(* The function of dissect_fn_map for the field's type. *)
dissect_fn(ftype, s, uninit) ==
  IF ftype.type \in IntegerType
  THEN dissect_int(ftype, s)
  ELSE dissect_ascii_string(ftype, s, uninit)

(***************************************************************************)
(* dissect_optional: the pmap bit and the null byte decide whether there   *)
(* is anything left to dissect.                                            *)
(***************************************************************************)
(* Mutant: an optional constant is given no bit. *)
ChecksPmapNoConstant(ftype) == ftype.op \in {"Default", "Copy", "Increment", "Tail"}

ChecksPmap(ftype) ==
  ftype.op \in {"Constant", "Default", "Copy", "Increment", "Tail"}
ChecksNull(ftype) == ftype.op # "Constant"

(* Mutant: an empty copy or increment keeps its previous value. *)
SetsEmptyNoCopy(ftype) == ftype.op \notin {"Constant", "Delta", "Copy", "Increment"}

SetsEmpty(ftype)  == ftype.op \notin {"Constant", "Delta"}

dissect_optional(ftype, s) ==
  LET bit    == dissect_peek_pmap(s.pos)
      byBit  == ChecksPmap(ftype) /\ (bit # ChecksNull(ftype))
      null   == ~byBit /\ ChecksNull(ftype) /\ dissect_shift_null(s.pos)
      exists == byBit \/ (ChecksNull(ftype) /\ ~null)
      byteAt == IF null THEN ShiftBytes(s.pos) ELSE s.pos
      bitAt  == IF ChecksPmap(ftype) /\ (~ChecksNull(ftype) \/ ~exists)
                THEN dissect_shift_pmap(byteAt) ELSE byteAt
      after  == To(s, bitAt,
                   [s.fdata EXCEPT !.status = IF exists THEN "Exists" ELSE "Empty"])
  IN  IF ~exists /\ SetsEmpty(ftype) THEN Store(ftype, after) ELSE after

(* Mutant: the bit is only looked at. *)
dissect_copy_peek(ftype, s) ==
  LET found == LookUp(ftype, s).fdata
      err   == AbsentError(ftype, found)
  IN  CASE dissect_peek_pmap(s.pos) -> [operator_used |-> FALSE, s |-> s]
        [] ~dissect_peek_pmap(s.pos) /\ err # 0 ->
             [operator_used |-> FALSE, s |-> To(s, s.pos, err_d(err, found))]
        [] OTHER ->
             [operator_used |-> TRUE, s |-> To(s, s.pos, found)]

(* dissect_copy: operator_used is FALSE when the field is still to be read. *)
dissect_copy(ftype, s) ==
  LET found == LookUp(ftype, s).fdata
      err   == AbsentError(ftype, found)
      after == dissect_shift_pmap(s.pos)
  IN  CASE dissect_peek_pmap(s.pos) ->
             [operator_used |-> FALSE, s |-> To(s, after, s.fdata)]
        [] ~dissect_peek_pmap(s.pos) /\ err # 0 ->
             [operator_used |-> FALSE, s |-> To(s, after, err_d(err, found))]
        [] OTHER ->
             [operator_used |-> TRUE, s |-> To(s, after, found)]

(* Mutant: the initial value is shown and not stored. *)
dissect_default_unstored(ftype, s) ==
  LET after == dissect_shift_pmap(s.pos)
  IN  IF dissect_peek_pmap(s.pos)
      THEN [operator_used |-> FALSE, s |-> To(s, after, s.fdata)]
      ELSE [operator_used |-> TRUE,
            s |-> To(s, after, [s.fdata EXCEPT !.value = ftype.value])]

(* dissect_default shows the initial value whether or not there is one. *)
dissect_default(ftype, s) ==
  LET after == dissect_shift_pmap(s.pos)
  IN  IF dissect_peek_pmap(s.pos)
      THEN [operator_used |-> FALSE, s |-> To(s, after, s.fdata)]
      ELSE [operator_used |-> TRUE,
            s |-> Store(ftype, To(s, after, [s.fdata EXCEPT !.value = ftype.value]))]

ApplyOperator(ftype, s) ==
  CASE ftype.op = "Copy"     -> dissect_copy(ftype, s)
    [] ftype.op = "Default"  -> dissect_default(ftype, s)
    [] ftype.op = "Constant" ->
         [operator_used |-> TRUE, s |-> [s EXCEPT !.fdata.value = ftype.value]]
    [] OTHER -> [operator_used |-> FALSE, s |-> s]

(* dissect_value, from the sensible defaults it starts a field with. *)
BlankField(status) == [status |-> status, value |-> init_field_value, err |-> 0]

dissect_value(ftype, pos, tab, uninit) ==
  LET begin == [pos |-> pos, tab |-> tab,
                fdata |-> BlankField(IF ftype.mandatory THEN "Exists" ELSE "Empty")]
      s     == IF ftype.mandatory THEN begin ELSE dissect_optional(ftype, begin)
      op    == ApplyOperator(ftype, s)
  IN  CASE s.fdata.status # "Exists" -> s
        [] s.fdata.status = "Exists" /\ op.operator_used -> op.s
        [] OTHER -> dissect_fn(ftype, op.s, uninit)
================================================================================
