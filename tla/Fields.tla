-------------------------------- MODULE Fields --------------------------------
(***************************************************************************)
(* What a template field is and what dissecting it yields: FieldType of    *)
(* template.h, FieldData of basic-dissect.h and FieldValue of              *)
(* basic-field.h.                                                          *)
(*                                                                         *)
(* The four integer types are kept with their wrap-around, scaled down to  *)
(* Width[type] values; strings are sequences over Char.                 *)
(***************************************************************************)
EXTENDS Integers, Sequences

CONSTANTS
  Char,      \* the characters strings are made of
  Key,       \* dictionary keys, NoKey excluded
  NoKey,     \* the NULL key of a field with neither a key nor a name
  Tid,       \* template identifiers
  DictName,  \* names of dictionaries, the template dictionary excluded
  Width32,   \* number of values of a 32-bit integer (2^32 in the code)
  Width64    \* number of values of a 64-bit integer (2^64 in the code)

TEMPLATE_DICTIONARY == "template"

ASSUME WidthAssumption ==
  /\ Width32 \in Nat /\ Width64 \in Nat
  /\ 2 <= Width32 /\ Width32 <= Width64
  /\ Width32 % 2 = 0 /\ Width64 % 2 = 0

ASSUME NameAssumption ==
  /\ NoKey \notin Key
  /\ TEMPLATE_DICTIONARY \notin DictName
  /\ Tid \subseteq Nat

UnsignedType == {"UInt32", "UInt64"}
SignedType   == {"Int32", "Int64"}
IntegerType  == UnsignedType \cup SignedType
ScalarType   == IntegerType \cup {"AsciiString"}
FieldTypeIdentifier ==
  ScalarType \cup {"Decimal", "UnicodeString", "ByteVector", "Group", "Sequence"}

FieldOperatorIdentifier ==
  {"None", "Constant", "Default", "Copy", "Increment", "Delta", "Tail"}

FieldStatus == {"Exists", "Empty", "Undefined", "Error"}

Width(type) == IF type \in {"UInt32", "Int32"} THEN Width32 ELSE Width64

(* The values an integer of the given type can hold. *)
InRange(type, n) ==
  IF type \in UnsignedType
  THEN 0 <= n /\ n < Width(type)
  ELSE -(Width(type) \div 2) <= n /\ n < Width(type) \div 2

(* The C conversion of n to the given type, which keeps its low bits. *)
Wrap(type, n) ==
  IF type \in UnsignedType
  THEN n % Width(type)
  ELSE ((n + Width(type) \div 2) % Width(type)) - Width(type) \div 2

(***************************************************************************)
(* FieldValue is a C union.  num stands for the integers, which share      *)
(* their place with the mantissa of a decimal, expt for its exponent, text *)
(* for the strings.  On the 64-bit builds that are modelled, no integer    *)
(* overlaps the pointer that err_d overwrites, so a field keeps its        *)
(* integer when it turns into an error.                                    *)
(***************************************************************************)
FieldValue == [num : Int, expt : Int, text : Seq(Char)]

(* init_field_value: all bytes zero. *)
init_field_value == [num |-> 0, expt |-> 0, text |-> << >>]

(* err is the number of the dynamic error whose message the value points   *)
(* to, 0 when it points to none.                                           *)
FieldData == [status : FieldStatus, value : FieldValue, err : 0..9]

(* err_d: the status becomes FieldError and the bytes pointer the message. *)
err_d(n, fdata) == [status |-> "Error", value |-> fdata.value, err |-> n]

FieldTypes ==
  [type : FieldTypeIdentifier, op : FieldOperatorIdentifier,
   mandatory : BOOLEAN, dictionary : DictName \cup {TEMPLATE_DICTIONARY},
   tid : Tid, key : Key \cup {NoKey}, hasDefault : BOOLEAN, value : FieldValue]

(* check_valid_operator of parse-template.c, which every field has passed. *)
check_valid_operator(ftype) ==
  /\ ftype.op = "Increment" => ftype.type \in IntegerType
  /\ ftype.op = "Tail" => ftype.type \notin IntegerType \cup {"Decimal"}
================================================================================
