------------------------------- MODULE Client --------------------------------
(***************************************************************************)
(* util/client/client.c encodes its options, in their order, as one FAST   *)
(* message and sends it to every address of the host; the dissector reads  *)
(* the packet of each address back with a template that lists the same     *)
(* fields.  A datagram may be lost, and anybody may send an entity of his  *)
(* own.  Each address is a conversation with a dictionary of its own, of   *)
(* which the entry of the one delta field, a byte vector, is kept.         *)
(***************************************************************************)
EXTENDS Codec

CONSTANTS
  Args,        \* the field options: records of option, argument and value
  Tids,        \* the arguments of --tid
  Entities,    \* the entities that other senders send
  Addresses,   \* what the host resolves to
  MaxArgs,     \* bound on the field options of an invocation
  MaxNops,     \* and on its --nop
  MaxVector    \* bound on the bytes of a vector in a dictionary

ASSUME ClientAssumption ==
  /\ \A a \in Args : {"option", "str", "value"} \subseteq DOMAIN a
  /\ MaxArgs \in Nat /\ MaxNops \in Nat /\ MaxVector \in Nat

VARIABLES
  phase,      \* "options", "refused" after exit (1), "sent" or "foreign"
  requiredp,  \* --req or --noreq
  fmsg,       \* fast_message_t: tidp, tid, pmap and msg
  given,      \* history: the field options and the bits they put in the pmap
  packet,     \* the bytes on the wire
  todo,       \* the addresses whose copy is still to be read
  pos,        \* the reader's offset, presence map and index in it
  got,        \* the fields that are read
  previous,   \* at each address, the entries for the delta field: one or none
  crashed     \* the dissector is gone

client == <<phase, requiredp, fmsg, given, packet>>
reader == <<todo, pos, got, previous, crashed>>
vars == <<client, reader>>

NoMessage == [tidp |-> TRUE, tid |-> 1, pmap |-> <<TRUE>>, msg |-> << >>]
Unread == [offset |-> 0, pmap |-> << >>, idx |-> 0, tid |-> << >>]

Init ==
  /\ phase = "options" /\ requiredp = TRUE
  /\ fmsg = NoMessage /\ given = << >> /\ packet = << >>
  /\ todo = {} /\ pos = Unread /\ got = << >>
  /\ previous = [a \in Addresses |-> {}]
  /\ crashed = FALSE

------------------------------------------------------------------------------
(* The options of main *)

Option == phase = "options" /\ UNCHANGED <<phase, packet, reader>>

Fields == Cardinality({k \in DOMAIN given : given[k].bit # "clear"})

SetTid(n) ==
  /\ Option
  /\ fmsg' = [fmsg EXCEPT !.tid = n]
  /\ UNCHANGED <<requiredp, given>>

NoTid ==
  /\ Option
  /\ fmsg' = [fmsg EXCEPT !.tidp = FALSE]
  /\ UNCHANGED <<requiredp, given>>

Require(b) ==
  /\ Option
  /\ requiredp' = b
  /\ UNCHANGED <<fmsg, given>>

\* --int64 calls encode_uint64, so a sign bit is not added where one is needed.
\* A delta is the options --int32 for the subtraction and --bytevec.
Encode(a) ==
  CASE a.option \in {"uint32", "uint64", "int64"} -> encode_uint64(a.str)
    [] a.option = "int32" -> encode_int64(a.str)
    [] a.option = "ascii" -> encode_ascii(a.str)
    [] a.option = "bytevec" -> encode_bytevec(a.str)
    [] a.option = "hex" -> encode_hex(a.str)
    [] a.option = "bit" -> encode_bit(a.str)
    [] a.option = "delta" -> encode_int64(a.subtract) \o encode_bytevec(a.str)

\* The template has some field for a --nop, too.
OptionOf(g) == IF g.bit = "clear" THEN "uint32" ELSE g.arg.option

\* Mutant: a negative subtraction length is taken as it is.
CutLengthPlain(subtract) == IF subtract < 0 THEN -subtract ELSE subtract

CutLength(subtract) == IF subtract < 0 THEN -(subtract + 1) ELSE subtract

\* One delta to a message, of a field without a bit, within the bound.
OneDelta(a) ==
  /\ requiredp
  /\ \A k \in DOMAIN given : OptionOf(given[k]) # "delta"
  /\ \A d \in Addresses : \A v \in previous[d] : 
        Len(v) + Len(a.value) - CutLength(a.subtract) <= MaxVector

Refused(a) == a.option = "ascii" /\ a.str = << >>

\* Mutant: the presence bit goes in front of those that are there already.
FieldAhead(a) ==
  /\ Fields < MaxArgs /\ ~Refused(a)
  /\ a.option = "delta" => OneDelta(a)
  /\ Option
  /\ given' = Append(given, [arg |-> a, bit |-> IF requiredp THEN "none" ELSE "set"])
  /\ fmsg' = [fmsg EXCEPT !.pmap = IF requiredp THEN @ ELSE <<TRUE>> \o @,
                          !.msg = @ \o Encode(a)]
  /\ UNCHANGED requiredp

Field(a) ==
  /\ Fields < MaxArgs /\ ~Refused(a)
  /\ a.option = "delta" => OneDelta(a)
  /\ Option
  /\ given' = Append(given, [arg |-> a, bit |-> IF requiredp THEN "none" ELSE "set"])
  /\ fmsg' = [fmsg EXCEPT !.pmap = IF requiredp THEN @ ELSE Append(@, TRUE),
                          !.msg = @ \o Encode(a)]
  /\ UNCHANGED requiredp

\* A text of length zero ends the client before anything is sent.
Refuse(a) ==
  /\ phase = "options" /\ Refused(a)
  /\ phase' = "refused"
  /\ UNCHANGED <<requiredp, fmsg, given, packet, reader>>

\* --nop, for a field that is absent.
Nop ==
  /\ Len(given) - Fields < MaxNops
  /\ Option
  /\ given' = Append(given, [bit |-> "clear"])
  /\ fmsg' = [fmsg EXCEPT !.pmap = Append(@, FALSE)]
  /\ UNCHANGED requiredp

encode_fast ==
  encode_pmap([fmsg.pmap EXCEPT ![1] = fmsg.tidp])
    \o (IF fmsg.tidp THEN encode_uint64(fmsg.tid) ELSE << >>)
    \o fmsg.msg

\* send_fast sends to each address; socket, connect and send may fail for any,
\* and a datagram may be lost.  Then the client exits.
send_fast ==
  /\ phase = "options"
  /\ packet' = encode_fast
  /\ phase' = "sent"
  /\ todo' \in SUBSET Addresses
  /\ requiredp' = TRUE
  /\ UNCHANGED <<fmsg, given, pos, got, previous, crashed>>

Foreign(e) ==
  /\ phase = "options" /\ fmsg = NoMessage /\ given = << >>
  /\ packet' = e
  /\ phase' = "foreign"
  /\ UNCHANGED <<requiredp, fmsg, given, reader>>

------------------------------------------------------------------------------
(* The dissector, one address after the other *)

Here == CHOOSE a \in todo : TRUE
Rest(offset) == SubSeq(packet, offset + 1, Len(packet))
Reading == phase = "sent" /\ todo # {} /\ ~crashed

\* The head of dissect_fast_bytes: presence map and template id.
ReadHead ==
  /\ Reading /\ pos = Unread
  /\ LET map == Entity(packet)
         hasId == decode_pmap(map)[1]
         id == basic_dissect_uint(W32, Rest(Len(map)))
     IN  pos' = [offset |-> Len(map) + IF hasId THEN id.nbytes ELSE 0,
                 pmap |-> decode_pmap(map), idx |-> 1,
                 tid |-> IF hasId THEN <<id.value>> ELSE << >>]
  /\ UNCHANGED <<client, todo, got, previous, crashed>>

\* dissect_byte_vector without an operator, and where it "generalizes" that:
\* the length, a field of its own, and so many bytes, even past the packet.
ReadVector(bytes) ==
  LET length == basic_dissect_uint(W32, bytes)
  IN  [value |-> SubSeq(bytes, length.nbytes + 1,
                          Min({length.nbytes + length.value, Len(bytes)})),
       err |-> 0, nbytes |-> length.nbytes + length.value]

CutAndAppend(old, subtract, input) ==
  LET cut == CutLength(subtract)
  IN  IF subtract < 0 THEN input \o SubSeq(old, cut + 1, Len(old))
      ELSE SubSeq(old, 1, Len(old) - cut) \o input

\* A subtraction from less than there is, is reported as D7 and made all the
\* same: cut_length is negative, and memcpy runs off the address space.
CutsTooMuch(old, subtract) == Len(old) < CutLength(subtract)

\* Delta (and tail) of dissect_byte_vector.  Without a previous value the
\* subtraction is read and ignored.
ReadDelta(entry, bytes) ==
  LET subtract == basic_dissect_int(W64, bytes)
      input == ReadVector(SubSeq(bytes, subtract.nbytes + 1, Len(bytes)))
  IN  [value |-> IF entry = {} THEN input.value
                 ELSE CutAndAppend(CHOOSE v \in entry : TRUE, subtract.value, input.value),
       err |-> 0, nbytes |-> subtract.nbytes + input.nbytes,
       crash |-> \E v \in entry : CutsTooMuch(v, subtract.value)]

ReadField(option, bytes) ==
  CASE option = "uint32" -> basic_dissect_uint(W32, bytes)
    [] option = "int32" -> basic_dissect_int(W32, bytes)
    [] option \in {"uint64", "hex", "bit"} -> basic_dissect_uint(W64, bytes)
    [] option = "int64" -> basic_dissect_int(W64, bytes)
    [] option = "ascii" -> basic_dissect_ascii_string(bytes)
    [] option = "bytevec" -> ReadVector(bytes)
    [] option = "delta" -> ReadDelta(previous[Here], bytes)

Next1 == given[Len(got) + 1]

\* dissect_value for a field that has a bit: none set, nothing to read.
ShiftPmap(bit) == IF bit = "none" THEN pos.idx ELSE pos.idx + 1
PeekPmap == pos.idx < Len(pos.pmap) /\ pos.pmap[pos.idx + 1]
Absent == [err |-> 0, absent |-> TRUE]

SkipField ==
  /\ Reading /\ pos # Unread /\ Len(got) < Len(given)
  /\ Next1.bit # "none" /\ ~PeekPmap
  /\ pos' = [pos EXCEPT !.idx = ShiftPmap(Next1.bit)]
  /\ got' = Append(got, Absent)
  /\ UNCHANGED <<client, todo, previous, crashed>>

DissectField ==
  /\ Reading /\ pos # Unread /\ Len(got) < Len(given)
  /\ Next1.bit = "none" \/ PeekPmap
  /\ LET f == ReadField(OptionOf(Next1), Rest(pos.offset))
     IN  IF "crash" \in DOMAIN f /\ f.crash
         THEN crashed' = TRUE /\ UNCHANGED <<pos, got, previous>>
         ELSE /\ pos' = [pos EXCEPT !.offset = @ + f.nbytes,
                                    !.idx = ShiftPmap(Next1.bit)]
              /\ got' = Append(got, [value |-> f.value, err |-> f.err, absent |-> FALSE])
              /\ previous' = IF OptionOf(Next1) = "delta"
                             THEN [previous EXCEPT ![Here] = {f.value}] ELSE previous
              /\ UNCHANGED crashed
  /\ UNCHANGED <<client, todo>>

\* The packet is read; the copy of the next address starts anew.
NextAddress ==
  /\ Reading /\ pos # Unread /\ Len(got) = Len(given)
  /\ todo' = todo \ {Here}
  /\ pos' = Unread /\ got' = << >>
  /\ UNCHANGED <<client, previous, crashed>>

\* "There is no state maintained and each run is a new packet to send."
RunAgain ==
  /\ phase # "options" /\ todo = {} /\ ~crashed
  /\ phase' = "options" /\ requiredp' = TRUE
  /\ fmsg' = NoMessage /\ given' = << >> /\ packet' = << >>
  /\ UNCHANGED reader

Crashed == crashed /\ UNCHANGED vars

Next ==
  \/ \E n \in Tids : SetTid(n)
  \/ NoTid
  \/ \E b \in BOOLEAN : Require(b)
  \/ \E a \in Args : Field(a) \/ Refuse(a)
  \/ Nop
  \/ send_fast
  \/ \E e \in Entities : Foreign(e)
  \/ ReadHead \/ SkipField \/ DissectField \/ NextAddress
  \/ RunAgain
  \/ Crashed

Spec == Init /\ [][Next]_vars

------------------------------------------------------------------------------
(* Properties *)

\* What the reader shows of a field that arrived, but for a delta.
Shows(k) ==
  CASE given[k].bit = "clear" -> got[k] = Absent
    [] OptionOf(given[k]) = "delta" -> got[k].err = 0
    [] OTHER -> got[k] = [value |-> given[k].arg.value, err |-> 0, absent |-> FALSE]

(* Each option arrives as it was given, in the order it was given in:        *)
(* decode.c undoes encode.c for every type and sign, neither the presence    *)
(* map nor any length gets out of step, and --req only decides about the     *)
(* presence bit.  Args leaves out the --int64 whose missing sign bit turns   *)
(* it into another number.                                                   *)
ArgumentsArrive == \A k \in DOMAIN got : Shows(k)

(* At the end of the message every byte is consumed, no presence bit that is *)
(* set is left over, and the template id is the one of the last --tid, unless*)
(* --notid was given anywhere.                                               *)
PacketUsedUp ==
  (Reading /\ pos # Unread /\ Len(got) = Len(given)) =>
    /\ pos.offset = Len(packet)
    /\ \A i \in pos.idx + 1 .. Len(pos.pmap) : ~pos.pmap[i]
    /\ pos.tid = IF fmsg.tidp THEN <<fmsg.tid>> ELSE << >>

\* The number an entity stands for, whatever its length.
Unsigned(e) ==
  MapThenSumSet(LAMBDA i : Payload(e[i]) * StopByte^(Len(e) - i), DOMAIN e)
TwosComplement(e) ==
  IF 2 * Payload(e[1]) >= StopByte THEN Unsigned(e) - StopByte^Len(e) ELSE Unsigned(e)

Exact(w, e, value, low, high, f) ==
  /\ f.nbytes = Len(e)
  /\ f.err = IF Len(e) <= MaxBytes(w) /\ low <= value /\ value <= high THEN 0 ELSE 2
  /\ f.err = 0 => f.value = value

(* "Integer does not fall within the bounds of the specified type": error D2 *)
(* is raised for exactly the entities whose number does not fit, or that are *)
(* longer than any number of the type, and without it the value is right.    *)
(* (basic_dissect_uint32, _int32, _uint64 and _int64.)                       *)
BoundsErrorExact ==
  phase = "foreign" => \A w \in {W32, W64} :
    /\ Exact(w, packet, Unsigned(packet), 0, 2^w - 1, basic_dissect_uint(w, packet))
    /\ Exact(w, packet, TwosComplement(packet), -(2^(w - 1)), 2^(w - 1) - 1,
             basic_dissect_int(w, packet))

\* The digits of the bytes, with garbage before each byte.
Spelled(bytes, bits) ==
  FlattenSeq([k \in DOMAIN bytes |->
    <<Garbage>> \o [i \in 1 .. (B + 1) \div bits |->
                     (bytes[k] \div 2^(B + 1 - i * bits)) % 2^bits]])

(* decode.c undoes encode.c: what the readers find in any entity, the        *)
(* encoders write in as few bytes or fewer, and it is found again; for every *)
(* number the encoders have room for.  The strings of --hex and --bit give   *)
(* the entity itself, garbage skipped.                                       *)
EncodersUndone ==
  phase = "foreign" =>
    LET u == basic_dissect_uint(W64, packet)
        n == basic_dissect_int(W64, packet)
        room == StopByte^MaxSeptets
    IN  /\ (u.err = 0 /\ u.value < room) =>
             LET e == encode_uint64(u.value)
             IN  Len(e) <= Len(packet) /\ basic_dissect_uint(W64, e).value = u.value
        /\ (n.err = 0 /\ -room <= 2 * n.value /\ 2 * n.value < room) =>
             LET e == encode_int64(n.value)
             IN  Len(e) <= Len(packet) /\ basic_dissect_int(W64, e).value = n.value
        /\ encode_hex(Spelled(packet, HexBits)) = packet
        /\ encode_bit(Spelled(packet, 1)) = packet

DeltaGiven == {given[k].arg : k \in {j \in DOMAIN given : OptionOf(given[j]) = "delta"}}

(* A delta keeps what it does not cut: the end of the old vector after a     *)
(* negative subtraction, the start of it otherwise, next to the bytes given. *)
KeepsTheRest(d, old, new) ==
  LET kept == Len(new) - Len(d.value)
  IN  IF d.subtract < 0
      THEN /\ kept = Len(old) + d.subtract + 1
           /\ IsPrefix(d.value, new) /\ IsSuffix(SubSeq(old, Len(old) - kept + 1, Len(old)), new)
      ELSE /\ kept = Len(old) - d.subtract
           /\ IsSuffix(d.value, new) /\ IsPrefix(SubSeq(old, 1, kept), new)

(* dissect_byte_vector: the value of one address changes by the delta that   *)
(* was sent to it, and that of the others not at all.                        *)
DeltaApplied ==
  [][\A a \in Addresses : previous'[a] # previous[a] =>
       /\ a \in todo
       /\ \A old \in previous[a], new \in previous'[a], d \in DeltaGiven :
            KeepsTheRest(d, old, new)]_vars

==============================================================================
