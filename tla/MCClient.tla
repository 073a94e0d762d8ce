------------------------------ MODULE MCClient -------------------------------
(***************************************************************************)
(* A codec with 3 bits beside the stop bit and integers of 5 and 7 bits:   *)
(* as with 7 bits and 32 and 64, the first of the most bytes holds some    *)
(* bits of the short integer beside extra ones, and a single bit of the    *)
(* long one.                                                               *)
(***************************************************************************)
EXTENDS Client

\* An option whose argument is the value.
Plain(option, v) == [option |-> option, str |-> v, value |-> v]

\* An option whose argument is a string of digits.
Text(option, str, v) == [option |-> option, str |-> str, value |-> v]

\* --int32 subtract --bytevec str for a delta field.
Delta(subtract, str, v) ==
  [option |-> "delta", subtract |-> subtract, str |-> str, value |-> v]

\* One option of each kind of encoding, a negative number, a long integer of
\* the most bytes the encoders have room for; other values come as entities.
MCArgs ==
  {Plain("int32", -4), Plain("int64", 24), Plain("ascii", << >>), Plain("ascii", <<7, 2>>),
   Text("bytevec", <<3, 0, 1, 2>>, <<12, 6>>),
   Delta(0, <<2, 1>>, <<9>>), Delta(-2, <<0, 3>>, <<3>>), Delta(2, << >>, << >>)}

\* Every entity of up to four bytes.
MCEntities ==
  {bytes \in UNION {[1 .. n -> Byte] : n \in 1 .. 3} :
     \A i \in DOMAIN bytes : Stops(bytes[i]) <=> i = Len(bytes)} \cup
  {bytes \in [1 .. 4 -> Byte] :
     /\ bytes[1] \in {0, 1, 3, 4, 7} /\ ~Stops(bytes[2]) /\ bytes[3] \in {0, 7}
     /\ bytes[4] \in {8, 15}}
==============================================================================
