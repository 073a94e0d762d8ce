----------------------------- MODULE MCTemplates ------------------------------
(***************************************************************************)
(* Tokens and templates for the small instances.  A byte carries three     *)
(* bits instead of seven, so one byte of presence map serves the template  *)
(* id and two fields; 32-bit integers have 8 values and 64-bit ones 16.  A *)
(* token is the sequence of its bytes' payloads, most significant first.   *)
(***************************************************************************)
EXTENDS Fields, TLC, SequencesExt

Byte == 8

MCToken == { <<0>>, <<1>>, <<2>>, <<4>>, <<6>>, <<7>>, <<1, 1>>, <<0, 0>> }

MCNull == <<0>>

(* One byte is the most for 32 bits, two are for 64. *)
MCSize == [t \in MCToken |-> Len(t)]

MCAsUnsigned ==
  [t \in MCToken |-> FoldLeft(LAMBDA n, b : n * Byte + b, 0, t)]

MCAsSigned ==
  [t \in MCToken |->
     IF t[1] < Byte \div 2 THEN MCAsUnsigned[t]
                           ELSE MCAsUnsigned[t] - Byte ^ Len(t)]

Bits(b) == << b \div 4 = 1, (b \div 2) % 2 = 1, b % 2 = 1 >>

MCAsPmap ==
  [t \in MCToken |-> FoldLeft(LAMBDA bits, b : bits \o Bits(b), << >>, t)]

(* The text up to the first NUL, over the alphabet {"x"}. *)
MCAsText ==
  [t \in MCToken |->
     IF t[1] = 0 THEN << >> ELSE [i \in 1..(t[1] % 3) |-> "x"]]

MCUninit ==
  { [text |-> << >>, failed |-> FALSE], [text |-> <<"x", "x">>, failed |-> FALSE],
    [text |-> << >>, failed |-> TRUE] }

OneUninit == { [text |-> << >>, failed |-> FALSE] }

(* Tokens and nothing behind them, or one byte without a stop bit.         *)
Whole(bytes) == [bytes |-> bytes, rest |-> "none"]
Torn(bytes)  == [bytes |-> bytes, rest |-> "torn"]

Value(n) == [num |-> n, expt |-> 0, text |-> << >>]

F(type, op, mandatory, dictionary, tid, key, hasDefault, n) ==
  [type |-> type, op |-> op, mandatory |-> mandatory, dictionary |-> dictionary,
   tid |-> tid, key |-> key, hasDefault |-> hasDefault, value |-> Value(n)]

M == TRUE
O == FALSE

(* Copy, increment and no operator on one shared cell and on two types.    *)
CopyTemplates ==
  1 :> << F("UInt32", "Copy", M, "global", 1, "k", FALSE, 0),
          F("UInt32", "Increment", M, "global", 1, "k", FALSE, 0) >>
  @@
  4 :> << F("Int32", "Copy", M, "global", 4, "k", TRUE, 3),
          F("Int32", "Increment", M, "global", 4, "k", TRUE, 1),
          F("UInt32", "None", O, "global", 4, "k", FALSE, 0) >>

(* With these, template dictionaries, delta, default and constant, a field *)
(* without key, and strings.                                               *)
ScalarTemplates ==
  CopyTemplates
  @@
  6 :> << F("Int32", "Delta", M, "template", 6, "k", TRUE, 2),
          F("UInt32", "Default", O, "template", 6, "j", TRUE, 2),
          F("UInt32", "Delta", O, "template", 6, "j", FALSE, 0) >>
  @@
  7 :> << F("UInt32", "Copy", O, "global", 7, "k", FALSE, 0),
          F("Int64", "Increment", O, "global", 7, NoKey, FALSE, 0),
          F("UInt64", "Default", O, "global", 7, "j", FALSE, 0) >>
  @@
  0 :> << F("Int32", "Constant", O, "global", 0, "k", TRUE, 1),
          F("AsciiString", "Delta", M, "global", 0, "k", FALSE, 0),
          F("AsciiString", "Tail", O, "global", 0, "k", FALSE, 0) >>

FieldsOf(template) ==
  UNION { {template[t][i] : i \in DOMAIN template[t]} : t \in DOMAIN template }

CopyField   == FieldsOf(CopyTemplates)
ScalarField == FieldsOf(ScalarTemplates)

================================================================================
