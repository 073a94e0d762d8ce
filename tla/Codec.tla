-------------------------------- MODULE Codec --------------------------------
(***************************************************************************)
(* The stop-bit codec, byte by byte: decode.c, the readers of              *)
(* basic-dissect.c that bound it, and the client's encode.c.  The number   *)
(* of bits of a byte and the widths of the integers are parameters; in the *)
(* code they are 7 bits beside the stop bit, 32 and 64.                    *)
(***************************************************************************)
EXTENDS Integers, Sequences, FiniteSetsExt, SequencesExt

CONSTANTS
  B,         \* bits of a byte beside the stop bit
  W32, W64   \* the widths of the short and the long integers

ASSUME WidthAssumption ==
  /\ B \in Nat /\ B % 2 = 1
  /\ W32 \in Nat /\ W64 \in Nat /\ B < W32 /\ W32 < W64

StopByte == 2^B
Byte == 0 .. 2 * StopByte - 1
Stops(b) == b >= StopByte
Payload(b) == b % StopByte
Stopped(bytes) == [bytes EXCEPT ![Len(bytes)] = @ + StopByte]

(***************************************************************************)
(* encode.c                                                                *)
(***************************************************************************)
\* The septets of x, highest first; the lowest bears the stop bit.
Septets(x, n) ==
  Stopped([i \in 1 .. n |-> (x \div StopByte^(n - i)) % StopByte])

\* The encoders have room for nine septets; a longer value is out of bounds.
MaxSeptets == (W64 - 1) \div B
Shortest(fits(_)) == Min({n \in 1 .. MaxSeptets : fits(n)})

encode_uint64(x) == Septets(x, Shortest(LAMBDA n : x < StopByte^n))

\* Mutant: the sign bit of the first septet is not looked at.
encode_int64_unsigned(x) ==
  IF x >= 0 THEN encode_uint64(x)
  ELSE Septets(x, Shortest(LAMBDA n : -(StopByte^n) <= 2 * x))

encode_int64(x) ==
  LET fits(n) == -(StopByte^n) <= 2 * x /\ 2 * x < StopByte^n
  IN  Septets(x, Shortest(fits))

\* Digits of 2^bits values packed into bytes, the last one filled with zeros.
Pack(digits, bits) ==
  LET each == (B + 1) \div bits
      digit(i) == IF i <= Len(digits) THEN digits[i] ELSE 0
  IN  [k \in 1 .. (Len(digits) + each - 1) \div each |->
         FoldLeft(LAMBDA b, j : b * 2^bits + digit((k - 1) * each + j),
                  0, [j \in 1 .. each |-> j])]

\* A character that is no digit is skipped.
Garbage == -1
Digits(str) == SelectSeq(str, LAMBDA c : c # Garbage)

HexBits == (B + 1) \div 2
encode_hex(str) == Pack(Digits(str), HexBits)
encode_bit(str) == Pack(Digits(str), 1)

\* The length counts every character of the string, two to a byte.
encode_bytevec(str) == encode_uint64((Len(str) + 1) \div 2) \o encode_hex(str)

encode_ascii(str) == Stopped(str)

\* Mutant: a new byte is begun one bit late.
encode_pmap_late(pmap) ==
  Stopped([k \in 1 .. 1 + Len(pmap) \div (B + 2) |->
    MapThenSumSet(LAMBDA j : 2^(B - j),
                  {j \in 1 .. B : (k - 1) * (B + 1) + j <= Len(pmap)
                                  /\ pmap[(k - 1) * (B + 1) + j]})])

encode_pmap(pmap) ==
  Stopped([k \in 1 .. 1 + (Len(pmap) - 1) \div B |->
    MapThenSumSet(LAMBDA j : 2^(B - j),
                  {j \in 1 .. B : (k - 1) * B + j <= Len(pmap)
                                  /\ pmap[(k - 1) * B + j]})])

(***************************************************************************)
(* decode.c                                                                *)
(***************************************************************************)
count_stop_bit_encoded(bytes) ==
  LET ends == {i \in DOMAIN bytes : Stops(bytes[i])}
  IN  IF ends = {} THEN 0 ELSE Min(ends)

number_decoded_bits(nbytes) == nbytes * B

decode_pmap(bytes) ==
  [i \in 1 .. number_decoded_bits(Len(bytes)) |->
     LET b == bytes[1 + (i - 1) \div B]
     IN  (b \div 2^(B - 1 - ((i - 1) % B))) % 2 = 1]

decode_uint(w, bytes) ==
  FoldLeft(LAMBDA n, b : (n * StopByte + Payload(b)) % 2^w, 0, bytes)

\* Mutant: a short negative number is not sign extended.
decode_int_unextended(w, bytes) ==
  LET n == decode_uint(w, bytes)
  IN  IF 2 * n >= 2^w THEN n - 2^w ELSE n

\* The bit below the stop bit of the first byte is the sign of a short one.
decode_int(w, bytes) ==
  LET n == decode_uint(w, bytes)
      nbits == number_decoded_bits(Len(bytes))
  IN  CASE bytes # << >> /\ nbits < w /\ 2 * Payload(bytes[1]) >= StopByte ->
             n - 2^nbits
        [] (bytes = << >> \/ nbits >= w) /\ 2 * n >= 2^w -> n - 2^w
        [] OTHER -> n

(***************************************************************************)
(* The readers of basic-dissect.c: the value, the error number or 0, and   *)
(* how far the position moves.  They are given the rest of the packet.     *)
(***************************************************************************)
Entity(bytes) == SubSeq(bytes, 1, count_stop_bit_encoded(bytes))

\* Int32MaxBytes is 5 and Int64MaxBytes is 10; of the first of so many bytes
\* Int32SignBit is 0x08 and Int64SignBit 0x01, with Int32ExtraBits 0x70 and
\* Int64ExtraBits 0x7E above them.
MaxBytes(w) == (w + B - 1) \div B
SignBit(w) == 2^((w - 1) % B)
ExtraBits(w, b) == Payload(b) \div (2 * SignBit(w))
AllExtra(w) == StopByte \div (2 * SignBit(w)) - 1
Signed(w, b) == (b \div SignBit(w)) % 2 = 1

Read(value, err, bytes) ==
  [value |-> value, err |-> err, nbytes |-> Len(Entity(bytes))]

\* Mutant: only the length is bounded.
uint_err_length(w, e) == IF MaxBytes(w) < Len(e) THEN 2 ELSE 0

uint_err(w, e) ==
  IF \/ MaxBytes(w) < Len(e)
     \/ MaxBytes(w) = Len(e) /\ ExtraBits(w, e[1]) > 0
  THEN 2 ELSE 0

int_err(w, e) ==
  IF \/ MaxBytes(w) < Len(e)
     \/ /\ MaxBytes(w) = Len(e)
        /\ ExtraBits(w, e[1]) # IF Signed(w, e[1]) THEN AllExtra(w) ELSE 0
  THEN 2 ELSE 0

basic_dissect_uint(w, bytes) ==
  LET e == Entity(bytes) IN Read(decode_uint(w, e), uint_err(w, e), bytes)

basic_dissect_int(w, bytes) ==
  LET e == Entity(bytes) IN Read(decode_int(w, e), int_err(w, e), bytes)

\* The text ends at its first NUL, but for the bytes of the entity.
basic_dissect_ascii_string(bytes) ==
  LET text == [i \in DOMAIN Entity(bytes) |-> Payload(bytes[i])]
      nul == {i \in DOMAIN text : text[i] = 0}
  IN  Read(IF nul = {} THEN text ELSE SubSeq(text, 1, Min(nul) - 1), 0, bytes)
==============================================================================
