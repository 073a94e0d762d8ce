------------------------------ MODULE DissectFast -----------------------------
(***************************************************************************)
(* The dissection of packets: dissect_fast_bytes and dissector_walk of     *)
(* dissect.c, driven by the message loop of dissect_fast in packet-fast.c. *)
(*                                                                         *)
(* The program dissects in a single thread.  What is unpredictable is the  *)
(* order in which packets of the several conversations come, and what they *)
(* hold: any bytes the constant Packet offers.                             *)
(***************************************************************************)
EXTENDS DissectFields

CONSTANTS
  Field,       \* the fields of all templates
  Template,    \* the template table: a sequence of fields for each Tid
  Packet,      \* the payloads that may be captured, without any header
  Pairs,       \* the conversations packets belong to
  ResetPairs,  \* those of flavor CME, UMDF or MOEX
  Uninit,      \* what the uninitialised locals of a string delta may hold
  MaxPackets   \* bound on the number of packets

ASSUME FieldAssumption    ==
  Field \subseteq {f \in FieldTypes : f.type \in ScalarType /\ check_valid_operator(f)}
ASSUME TemplateAssumption == Template \in [Tid -> Seq(Field)]
ASSUME PacketAssumption   == Packet \subseteq [bytes : Seq(Token), rest : {"none", "torn"}]
ASSUME PairsAssumption    == Pairs \subseteq Conversation /\ ResetPairs \subseteq Pairs
ASSUME UninitAssumption   == Uninit \subseteq Uninitialised
ASSUME MaxAssumption      == MaxPackets \in Nat
ASSUME LatestAssumption   == NoEntry \notin [ftype : Field, fdata : FieldData]

VARIABLES
  tables,       \* src_table of dictionaries.c
  template_id,  \* the static variable of dissect_fast_bytes
  phase,        \* "idle", "packet" at a message boundary, "fields" within one,
                \* "crashed" when a bad pointer has ended the program
  pair,         \* <<source, destination>> of the current packet
  pos,          \* the DissectPosition
  next,         \* index of the next field of the current template
  shown,        \* the FieldData of the current message
  packets,      \* number of packets captured
  \* History variables: written, never read by an action.
  due,          \* presence map bits the fields so far are entitled to
  latest        \* per conversation and cell, the last field shown there

vars == <<tables, template_id, phase, pair, pos, next, shown, packets,
          due, latest>>

(* A field of the data tree. *)
ShownField == [ftype : Field, fdata : FieldData, absent : BOOLEAN]

(* The position stays in the presence map, the next field in its template, *)
(* and the position in the packet: only with the flavors that have a       *)
(* header can it be outside, and then still in memory that may be read     *)
(* until a message is under way.                                           *)
TypeOK ==
  /\ tables \in [Conversation -> ConversationTables]
  /\ template_id \in Nat
  /\ phase \in {"idle", "packet", "fields", "crashed"}
  /\ pair \in Conversation
  /\ pos \in DissectPosition
  /\ next \in Nat \ {0}
  /\ shown \in Seq(ShownField)
  /\ packets \in Nat
  /\ due \in Nat
  /\ phase = "fields" => template_id \in Tid /\ next <= Len(Template[template_id]) + 1
  /\ pos.rest \in {"outside", "fault"} => pair \in ResetPairs
  /\ pos.rest = "fault" => phase \in {"fields", "crashed"}

Nowhere ==
  [bytes |-> << >>, rest |-> "none", offset |-> 0, pmap |-> << >>, pmap_idx |-> 0]

Init ==
  /\ tables = [c \in Conversation |-> EmptyTables]
  /\ template_id = 0
  /\ phase = "idle"
  /\ pair \in Pairs
  /\ pos = Nowhere
  /\ next = 1
  /\ shown = << >>
  /\ packets = 0
  /\ due = 0
  /\ latest = [c \in Conversation |-> [cell \in CellId |-> NoEntry]]

(* dissect_fast sets up the position for a packet not dissected before.    *)
Receive(c, bytes, rest) ==
  /\ phase = "idle" /\ packets < MaxPackets
  /\ pair' = c
  /\ pos' = [Nowhere EXCEPT !.bytes = bytes, !.rest = rest]
  /\ phase' = "packet"
  /\ packets' = packets + 1
  /\ shown' = << >>
  /\ UNCHANGED <<tables, template_id, next, due, latest>>

(* The 5, 10 or 4 bytes that precede the messages of a CME, UMDF or MOEX   *)
(* packet are skipped; positions are counted from there.                   *)
ReceivePacket == \E c \in Pairs, p \in Packet : Receive(c, p.bytes, p.rest)

(* Whether the packet is that long is not looked at.  If it is shorter,    *)
(* nbytes wraps around, and whatever bytes the memory behind it holds are  *)
(* dissected.                                                              *)
ReceiveShort == \E c \in ResetPairs, p \in Packet : Receive(c, p.bytes, "outside")

(* The head of dissect_fast_bytes can be read. *)
HasHead == ~NoEntity(pos) /\ HeadPosition(MessageHead(pos)).rest # "fault"

(* It gives an id that has a template. *)
BeginMessage ==
  /\ phase = "packet" /\ HasHead
  /\ LET h == MessageHead(pos) IN
       /\ template_id' = HeadId(h, template_id)
       /\ template_id' \in Tid
       /\ pos' = HeadPosition(h)
  /\ phase' = "fields"
  /\ next' = 1
  /\ shown' = << >>
  /\ due' = 1
  /\ UNCHANGED <<tables, pair, packets, latest>>

(* Error D9: the template id is kept and the rest of the packet dropped,   *)
(* by setting nbytes to 0.                                                 *)
UnknownTemplate ==
  /\ phase = "packet" /\ HasHead
  /\ LET h == MessageHead(pos) IN
       /\ template_id' = HeadId(h, template_id)
       /\ template_id' \notin Tid
       /\ pos' = [HeadPosition(h) EXCEPT !.offset = Len(pos.bytes), !.rest = "none"]
  /\ shown' = << >>
  /\ due' = 1
  /\ UNCHANGED <<tables, phase, pair, next, packets, latest>>

(* A presence map without a stop bit: dissect_fast_bytes bails out before  *)
(* it makes the data node that dissect_fast then takes the id from.  Or    *)
(* memory was read that may not be.  Either ends the program.              *)
Crash ==
  /\ \/ phase = "packet" /\ ~AtEnd(pos) /\ ~HasHead
     \/ phase = "fields" /\ pos.rest = "fault"
  /\ phase' = "crashed"
  /\ UNCHANGED <<tables, template_id, pair, pos, next, shown, packets, due, latest>>

CurrentField == Template[template_id][next]

(* The stream says that the field is not in it and its operator is to      *)
(* provide the value.                                                      *)
LeftToOperator(ftype) ==
  ftype.op \in {"Copy", "Increment", "Default"} /\ ~dissect_peek_pmap(pos)

(* History: what the field leaves as the last one shown on its cell.  A    *)
(* null delta and a constant leave the previous value alone.               *)
Remember(ftype, fdata) ==
  IF \/ ftype.key = NoKey
     \/ ftype.op = "Constant"
     \/ ftype.op = "Delta" /\ dissect_shift_null(pos) /\ ~ftype.mandatory
  THEN latest
  ELSE [latest EXCEPT ![pair][Cell(ftype)] = [ftype |-> ftype, fdata |-> fdata]]

(* One iteration of dissector_walk: dissect_descend and dissect_value. *)
DissectField ==
  /\ phase = "fields" /\ pos.rest # "fault" /\ next <= Len(Template[template_id])
  /\ \E uninit \in Uninit :
       LET ftype == CurrentField
           c == get_conversation_table(pair[1], pair[2])
           s == dissect_value(ftype, pos, tables[c], uninit)
       IN  /\ pos' = s.pos
           /\ tables' = [tables EXCEPT ![c] = s.tab]
           /\ shown' = Append(shown, [ftype |-> ftype, fdata |-> s.fdata,
                                      absent |-> LeftToOperator(ftype)])
           /\ latest' = Remember(ftype, s.fdata)
  /\ due' = due + IF requires_pmap_bit(CurrentField) THEN 1 ELSE 0
  /\ next' = next + 1
  /\ UNCHANGED <<template_id, phase, pair, packets>>

EndMessage ==
  /\ phase = "fields" /\ pos.rest # "fault" /\ next > Len(Template[template_id])
  /\ phase' = "packet"
  /\ UNCHANGED <<tables, template_id, pair, pos, next, shown, packets,
                 due, latest>>

(* The end of the loop; the exchange flavors reset their dictionaries. *)
EndPacket ==
  /\ phase = "packet" /\ AtEnd(pos)
  /\ phase' = "idle"
  /\ IF pair \in ResetPairs
     THEN /\ tables' = clear_dictionaries(tables, pair[1], pair[2])
          /\ latest' = [latest EXCEPT ![pair] = [cell \in CellId |-> NoEntry]]
     ELSE UNCHANGED <<tables, latest>>
  /\ UNCHANGED <<template_id, pair, pos, next, shown, packets, due>>

Next ==
  \/ ReceivePacket \/ ReceiveShort \/ BeginMessage \/ UnknownTemplate
  \/ DissectField \/ EndMessage \/ EndPacket \/ Crash

Spec == Init /\ [][Next]_vars

--------------------------------------------------------------------------------
MinOf(a, b) == IF a <= b THEN a ELSE b

(***************************************************************************)
(* template.c and dissect.c agree on the presence map: before each field   *)
(* dissect.c has consumed one bit for the template id and one for each     *)
(* field that requires_pmap_bit of template.c grants one.                  *)
(***************************************************************************)
BitsConsumed ==
  phase = "fields" => pos.pmap_idx = MinOf(due, Len(pos.pmap))

(* As long as the message has had no field with the tail operator. *)
PmapAgreement ==
  (phase = "fields" /\ \A i \in 1..(next - 1) : Template[template_id][i].op # "Tail") => BitsConsumed

(* A copy field that found no previous value showed its initial value. *)
InitialCopied(shew) ==
  /\ shew.ftype.op = "Copy" /\ shew.ftype.hasDefault
  /\ shew.fdata.value = shew.ftype.value

(***************************************************************************)
(* What a field of the same cell will be given as its previous value is    *)
(* what the last field of that cell showed, whichever operator produced    *)
(* it: the dictionary never keeps a value older than the display, nor one  *)
(* that was never shown.  Only an initial value shown by a copy field is   *)
(* not in the dictionary.                                                  *)
(***************************************************************************)
PreviousIsLatest ==
  \A c \in Conversation, cell \in CellId :
    LET entry == tables[c][cell]
        shew  == latest[c][cell]
    IN  /\ shew = NoEntry => entry = NoEntry
        /\ shew # NoEntry =>
             /\ shew.fdata.status = "Exists" =>
                  \/ entry = NoEntry /\ InitialCopied(shew)
                  \/ /\ entry # NoEntry
                     /\ entry.type = shew.ftype.type
                     /\ ~entry.empty /\ entry.value = shew.fdata.value
             /\ shew.fdata.status = "Empty" => entry # NoEntry /\ entry.empty

(* A step of DissectField: the only action that moves to the next field. *)
FieldStep == phase = "fields" /\ next' = next + 1

(* The data of the field that such a step shows. *)
Now == shown'[Len(shown')].fdata

Before == latest[pair][Cell(CurrentField)]

(* The value an absent field shows after the given previous one. *)
Successor(ftype, value) ==
  IF ftype.op = "Increment"
  THEN [value EXCEPT !.num = Wrap(ftype.type, @ + 1)]
  ELSE value

Follows(value) ==
  Now.status = "Exists" /\ Now.value = Successor(CurrentField, value)

FollowsInitial ==
  IF CurrentField.hasDefault THEN Follows(CurrentField.value) ELSE Now.status = "Error"

(* A mandatory copy or increment field that the stream leaves out. *)
AbsentStep ==
  /\ FieldStep
  /\ CurrentField.mandatory /\ CurrentField.op \in {"Copy", "Increment"}
  /\ CurrentField.key # NoKey /\ LeftToOperator(CurrentField)

FollowsBefore ==
  /\ Before = NoEntry => FollowsInitial
  /\ (Before # NoEntry /\ Before.fdata.status = "Exists") =>
       \/ IF Before.ftype.type = CurrentField.type
          THEN Follows(Before.fdata.value)
          ELSE Now.status = "Error" /\ Now.err = 4
       \/ InitialCopied(Before) /\ FollowsInitial
  /\ (Before # NoEntry /\ Before.fdata.status = "Empty") => Now.status = "Error"

(***************************************************************************)
(* What a mandatory copy or increment field shows when the stream leaves   *)
(* it out is decided by the last field of its cell that was shown in the   *)
(* same conversation: the same value or its successor, the initial value,  *)
(* or one of the errors D4, D5 and D6; never a value of another type, and  *)
(* never the value of an empty field.  After a copy field that showed its  *)
(* own initial value the next field may start from its own as well.        *)
(***************************************************************************)
AbsentMandatoryContract == [][AbsentStep => FollowsBefore]_vars

--------------------------------------------------------------------------------
(* Statements of the repository about single fields, see the README.       *)

(***************************************************************************)
(* A mandatory field that is not present takes nothing from the stream     *)
(* (test/byteplans/error_d6.xml: the message has no byte for it).          *)
(***************************************************************************)
NotPresentReadsNothing ==
  [][ (FieldStep /\ LeftToOperator(CurrentField) /\ CurrentField.mandatory)
        => pos'.offset = pos.offset ]_vars
================================================================================
