--------------------------- MODULE DissectFastProofs ----------------------------
(***************************************************************************)
(* Proofs about DissectFast and about the two dissectors of DissectTwin,   *)
(* for any templates, packets and conversations.                           *)
(***************************************************************************)
EXTENDS DissectTwin, DissectFieldsProofs

(***************************************************************************)
(* What a step of DissectField does.                                       *)
(***************************************************************************)
LEMMA DissectFieldStep ==
  ASSUME TypeOK, DissectField
  PROVE  /\ CurrentField \in Field
         /\ pos' \in DissectPosition
         /\ tables' \in [Conversation -> ConversationTables]
         /\ CurrentField.op # "Tail" => Took(pos, pos', Bits(CurrentField))
         /\ pos'.pmap = pos.pmap
         /\ pos'.rest = pos.rest \/ (pos.rest = "outside" /\ pos'.rest = "fault")
         /\ \E last \in ShownField : shown' = Append(shown, last)
<1>1. CurrentField \in Field
  BY TemplateAssumption DEF TypeOK, DissectField, CurrentField
<1>2. CurrentField \in FieldTypes /\ check_valid_operator(CurrentField)
      /\ CurrentField.type # "Group"
  BY <1>1, FieldAssumption
     DEF ScalarType, IntegerType, UnsignedType, SignedType
<1> DEFINE c == get_conversation_table(pair[1], pair[2])
<1>3. PICK uninit \in Uninit :
        LET s == dissect_value(CurrentField, pos, tables[c], uninit) IN
        /\ pos' = s.pos
        /\ tables' = [tables EXCEPT ![c] = s.tab]
        /\ shown' = Append(shown, [ftype |-> CurrentField, fdata |-> s.fdata,
                                   absent |-> LeftToOperator(CurrentField)])
  BY DEF DissectField
<1> DEFINE s == dissect_value(CurrentField, pos, tables[c], uninit)
           last == [ftype |-> CurrentField, fdata |-> s.fdata,
                    absent |-> LeftToOperator(CurrentField)]
<1>4. pos \in DissectPosition /\ c \in Conversation
      /\ tables[c] \in ConversationTables
  BY DEF TypeOK, Conversation, get_conversation_table
<1>5. uninit \in Uninitialised
  BY UninitAssumption
<1>6. /\ s \in Stack
      /\ CurrentField.op # "Tail" => Took(pos, s.pos, Bits(CurrentField))
      /\ s.pos.pmap = pos.pmap
      /\ s.pos.rest = pos.rest \/ (pos.rest = "outside" /\ s.pos.rest = "fault")
  BY <1>2, <1>4, <1>5, ValueResult
<1>7. pos' = s.pos /\ tables' = [tables EXCEPT ![c] = s.tab]
      /\ shown' = Append(shown, last)
  BY <1>3
<1>8. LeftToOperator(CurrentField) \in BOOLEAN
  BY DEF LeftToOperator
<1> HIDE DEF s, c
<1>9. s.pos \in DissectPosition /\ s.fdata \in FieldData /\ s.tab \in ConversationTables
  BY <1>6 DEF Stack
<1>10. last \in ShownField
  BY <1>1, <1>8, <1>9 DEF ShownField
<1>11. tables' \in [Conversation -> ConversationTables]
  BY <1>4, <1>7, <1>9 DEF TypeOK
<1> HIDE DEF last
<1> QED
  BY <1>1, <1>6, <1>7, <1>9, <1>10, <1>11

(***************************************************************************)
(* Type correctness: whatever packets come, the position stays within its  *)
(* presence map and, but for packets shorter than the header of their      *)
(* flavor, within the packet; the dictionaries hold typed values.          *)
(***************************************************************************)
LEMMA FreshPosition ==
  ASSUME NEW bytes \in Seq(Token), NEW rest \in {"none", "torn", "outside"}
  PROVE  /\ [Nowhere EXCEPT !.bytes = bytes, !.rest = rest] \in DissectPosition
         /\ [Nowhere EXCEPT !.bytes = bytes, !.rest = rest].rest = rest
<1> DEFINE none == << >>
           p == [bytes |-> bytes, rest |-> rest, offset |-> 0, pmap |-> none, pmap_idx |-> 0]
<1>1. none \in Seq(BOOLEAN) /\ Len(none) = 0 /\ Len(bytes) \in Nat
  OBVIOUS
<1>2. [Nowhere EXCEPT !.bytes = bytes, !.rest = rest] = p
  <2> DEFINE q == [bytes |-> bytes, rest |-> "none", offset |-> 0, pmap |-> none,
                   pmap_idx |-> 0]
  <2>1. [Nowhere EXCEPT !.bytes = bytes] = q
    BY DEF Nowhere
  <2>2. [q EXCEPT !.rest = rest] = p
    OBVIOUS
  <2> HIDE DEF p, q
  <2> QED
    BY <2>1, <2>2
<1> HIDE DEF none
<1>3. p \in [bytes : Seq(Token), rest : {"none", "torn", "outside", "fault"},
            offset : Nat, pmap : Seq(BOOLEAN), pmap_idx : Nat]
  BY <1>1
<1>4. p.offset <= Len(p.bytes) /\ p.pmap_idx <= Len(p.pmap) /\ p.rest = rest
  BY <1>1
<1> HIDE DEF p
<1> QED
  BY <1>2, <1>3, <1>4 DEF DissectPosition

(* A packet, or the memory behind one that is too short, is a position.    *)
LEMMA ReceiveType ==
  ASSUME TypeOK, NEW c \in Pairs, NEW bytes \in Seq(Token),
         NEW rest \in {"none", "torn", "outside"}, rest = "outside" => c \in ResetPairs,
         Receive(c, bytes, rest)
  PROVE  TypeOK'
<1>1. c \in Conversation
  BY PairsAssumption
<1>2. pos' \in DissectPosition /\ pos'.rest = rest
  BY FreshPosition DEF Receive
<1>3. shown' \in Seq(ShownField)
  BY DEF Receive
<1> QED
  BY <1>1, <1>2, <1>3 DEF TypeOK, Receive

(* The initial states are well typed. *)
LEMMA InitType == Init => TypeOK
<1> SUFFICES ASSUME Init PROVE TypeOK
  OBVIOUS
<1>1. Nowhere \in DissectPosition
  BY DEF Nowhere, DissectPosition
<1>2. pair \in Conversation
  BY PairsAssumption DEF Init
<1>3. EmptyTables \in ConversationTables
  BY DEF EmptyTables, ConversationTables
<1>4. shown \in Seq(ShownField)
  BY DEF Init
<1>5. Nowhere.rest = "none"
  BY DEF Nowhere
<1> QED
  BY <1>1, <1>2, <1>3, <1>4, <1>5 DEF Init, TypeOK

(* Every step keeps the types: one case for each action of Next. *)
LEMMA NextType ==
  ASSUME TypeOK, [Next]_vars
  PROVE  TypeOK'
<1>1. CASE ReceivePacket
  <2> PICK c \in Pairs, p \in Packet : Receive(c, p.bytes, p.rest)
    BY <1>1 DEF ReceivePacket
  <2>1. p.bytes \in Seq(Token) /\ p.rest \in {"none", "torn"}
    BY PacketAssumption
  <2> QED
    BY <2>1, ReceiveType
<1>8. CASE ReceiveShort
  <2> PICK c \in ResetPairs, p \in Packet : Receive(c, p.bytes, "outside")
    BY <1>8 DEF ReceiveShort
  <2>1. p.bytes \in Seq(Token) /\ c \in Pairs
    BY PacketAssumption, PairsAssumption
  <2> QED
    BY <2>1, ReceiveType
<1>2. CASE BeginMessage
  <2>1. pos \in DissectPosition
    BY DEF TypeOK
  <2>2. /\ pos' \in DissectPosition /\ pos'.rest # "fault"
        /\ pos'.rest = "outside" => pos.rest = "outside"
    BY <1>2, <2>1, HeadType DEF BeginMessage, HasHead
  <2>3. template_id' \in Tid /\ template_id' \in Nat
    BY <1>2, NameAssumption DEF BeginMessage
  <2>4. Template[template_id'] \in Seq(Field)
    BY <2>3, TemplateAssumption
  <2>5. 1 <= Len(Template[template_id']) + 1
    BY <2>4
  <2>6. shown' \in Seq(ShownField)
    BY <1>2 DEF BeginMessage
  <2> QED
    BY <1>2, <2>2, <2>3, <2>5, <2>6 DEF TypeOK, BeginMessage
<1>3. CASE UnknownTemplate
  <2> DEFINE q == HeadPosition(MessageHead(pos))
  <2>1. pos \in DissectPosition
    BY DEF TypeOK
  <2>2. q \in DissectPosition /\ q.bytes = pos.bytes
    BY <2>1, HeadType
  <2>3. pos' = [q EXCEPT !.offset = Len(pos.bytes), !.rest = "none"]
    BY <1>3 DEF UnknownTemplate
  <2> HIDE DEF q
  <2> DEFINE u == [q EXCEPT !.offset = Len(pos.bytes)]
  <2>7. u \in DissectPosition
    BY <2>2 DEF DissectPosition
  <2>8. pos' = [u EXCEPT !.rest = "none"]
    BY <2>3
  <2> HIDE DEF u
  <2>4. pos' \in DissectPosition /\ pos'.rest = "none"
    BY <2>7, <2>8 DEF DissectPosition
  <2>5. template_id' \in Nat
    BY <1>3, <2>1, HeadIdType DEF UnknownTemplate, TypeOK
  <2>6. shown' \in Seq(ShownField)
    BY <1>3 DEF UnknownTemplate
  <2> QED
    BY <1>3, <2>4, <2>5, <2>6 DEF TypeOK, UnknownTemplate
<1>4. CASE DissectField
  <2>1. /\ pos' \in DissectPosition /\ tables' \in [Conversation -> ConversationTables]
        /\ pos'.rest = pos.rest \/ (pos.rest = "outside" /\ pos'.rest = "fault")
    BY <1>4, DissectFieldStep
  <2>2. shown' \in Seq(ShownField)
    <3> PICK last \in ShownField : shown' = Append(shown, last)
      BY <1>4, DissectFieldStep
    <3> QED
      BY DEF TypeOK
  <2>3. template_id' \in Tid /\ next' \in Nat \ {0}
        /\ next' <= Len(Template[template_id']) + 1
    <3>1. template_id \in Tid /\ Len(Template[template_id]) \in Nat
      BY <1>4, TemplateAssumption DEF TypeOK, DissectField
    <3> QED
      BY <1>4, <3>1 DEF TypeOK, DissectField
  <2>4. due' \in Nat
    BY <1>4 DEF TypeOK, DissectField
  <2> QED
    BY <1>4, <2>1, <2>2, <2>3, <2>4 DEF TypeOK, DissectField
<1>5. CASE EndMessage
  BY <1>5 DEF TypeOK, EndMessage
<1>6. CASE EndPacket
  <2>1. tables' \in [Conversation -> ConversationTables]
    <3>1. CASE pair \in ResetPairs
      <4>1. pair \in Address \X Address
        BY DEF TypeOK, Conversation
      <4>2. clear_dictionaries(tables, pair[1], pair[2])
              \in [Conversation -> ConversationTables]
        BY <4>1, ClearType DEF TypeOK
      <4> QED
        BY <1>6, <3>1, <4>2 DEF EndPacket
    <3>2. CASE pair \notin ResetPairs
      BY <1>6, <3>2 DEF EndPacket, TypeOK
    <3> QED
      BY <3>1, <3>2
  <2> QED
    BY <1>6, <2>1 DEF TypeOK, EndPacket
<1>9. CASE Crash
  BY <1>9 DEF TypeOK, Crash
<1>7. CASE UNCHANGED vars
  BY <1>7 DEF TypeOK, vars
<1> QED
  BY <1>1, <1>2, <1>3, <1>4, <1>5, <1>6, <1>7, <1>8, <1>9 DEF Next

(***************************************************************************)
(* For any templates and packets, wherever they are cut, dissection stays  *)
(* in the presence map and in the template, keeps typed dictionaries, and  *)
(* stays in the packet unless this is shorter than the header that its     *)
(* flavor has, which dissect_fast skips without looking.                   *)
(***************************************************************************)
THEOREM DissectTypeCorrect == Spec => []TypeOK
BY InitType, NextType, PTL DEF Spec

NoTail(template, n) == \A i \in 1..(n - 1) : template[i].op # "Tail"

(***************************************************************************)
(* Up to the first tail field of a message, dissect.c takes for every      *)
(* field the presence map bit that requires_pmap_bit of template.c grants  *)
(* it, and no other: the two files agree for every template and packet.    *)
(***************************************************************************)
THEOREM PmapAgrees == Spec => []PmapAgreement
<1>1. Init => PmapAgreement
  BY DEF Init, PmapAgreement, BitsConsumed
<1>2. ASSUME TypeOK, PmapAgreement, [Next]_vars
      PROVE  PmapAgreement'
  <2>1. CASE BeginMessage
    <3>1. pos \in DissectPosition
      BY <1>2 DEF TypeOK
    <3>2. pos'.pmap_idx = MinOf(1, Len(pos'.pmap))
      BY <2>1, <3>1, HeadType DEF BeginMessage, MinOf
    <3> QED
      BY <2>1, <3>2 DEF BeginMessage, PmapAgreement, BitsConsumed
  <2>2. CASE DissectField
    <3> DEFINE n == Bits(CurrentField)
               template == Template[template_id]
    <3> SUFFICES ASSUME NoTail(template', next')
                 PROVE  BitsConsumed'
      BY DEF PmapAgreement, NoTail
    <3>1. next \in Nat \ {0} /\ next' = next + 1 /\ template' = template
      BY <1>2, <2>2 DEF TypeOK, DissectField
    <3>2. NoTail(template, next) /\ CurrentField.op # "Tail"
      <4>1. CurrentField = template[next]
        BY DEF CurrentField
      <4> HIDE DEF template
      <4> QED
        BY <3>1, <4>1 DEF NoTail
    <3>3. Took(pos, pos', n)
      BY <1>2, <2>2, <3>2, DissectFieldStep
    <3>4. pos.pmap_idx = MinOf(due, Len(pos.pmap))
      BY <1>2, <2>2, <3>2 DEF PmapAgreement, BitsConsumed, DissectField, NoTail
    <3>5. n \in {0, 1} /\ due' = due + n
      BY <2>2 DEF DissectField, Bits
    <3>6. due \in Nat /\ Len(pos.pmap) \in Nat
      BY <1>2 DEF TypeOK, DissectPosition
    <3> HIDE DEF n
    <3>7. pos'.pmap_idx = MinOf(due', Len(pos'.pmap))
      BY <3>3, <3>4, <3>5, <3>6 DEF Took, MinOf
    <3> QED
      BY <3>7 DEF BitsConsumed
  <2>3. CASE ReceivePacket \/ ReceiveShort \/ UnknownTemplate \/ EndMessage
             \/ EndPacket \/ Crash
    BY <1>2, <2>3 DEF PmapAgreement, BitsConsumed, Receive, ReceivePacket, ReceiveShort,
                      UnknownTemplate, EndMessage, EndPacket, Crash
  <2>4. CASE UNCHANGED vars
    BY <1>2, <2>4 DEF PmapAgreement, BitsConsumed, vars
  <2> QED
    BY <1>2, <2>1, <2>2, <2>3, <2>4 DEF Next
<1> QED
  BY <1>1, <1>2, DissectTypeCorrect, PTL DEF Spec

(***************************************************************************)
(* What is in a cell of the dictionary and what the history remembers of   *)
(* it agree: PreviousIsLatest for one cell.                                *)
(***************************************************************************)
Agrees(entry, shew) ==
  /\ shew = NoEntry => entry = NoEntry
  /\ shew # NoEntry =>
       /\ shew.fdata.status = "Exists" =>
            \/ entry = NoEntry /\ InitialCopied(shew)
            \/ /\ entry # NoEntry
               /\ entry.type = shew.ftype.type
               /\ ~entry.empty /\ entry.value = shew.fdata.value
       /\ shew.fdata.status = "Empty" => entry # NoEntry /\ entry.empty

Shew(ftype, fdata) == [ftype |-> ftype, fdata |-> fdata]

(* What is stored is what is shown. *)
LEMMA SetAgrees ==
  ASSUME NEW tab \in ConversationTables, NEW ftype \in Field, ftype \in FieldTypes,
         ftype.key # NoKey, NEW fdata \in FieldData
  PROVE  Agrees(set_dictionary_value(tab, ftype, fdata)[Cell(ftype)], Shew(ftype, fdata))
<1> DEFINE entry == [type  |-> ftype.type,
                     empty |-> fdata.status = "Empty",
                     value |-> IF fdata.status = "Empty"
                               THEN init_field_value ELSE fdata.value]
<1>1. set_dictionary_value(tab, ftype, fdata)[Cell(ftype)] = entry
  BY CellType DEF set_dictionary_value, ConversationTables
<1>2. entry \in TypedValue
  BY DEF TypedValue, FieldTypes, FieldData, init_field_value, FieldValue
<1>3. entry # NoEntry
  <2> HIDE DEF entry
  <2> QED
    BY <1>2, NoEntryAssumption
<1>4. Shew(ftype, fdata) # NoEntry
  BY LatestAssumption DEF Shew
<1>5. /\ entry.type = ftype.type
      /\ entry.empty <=> fdata.status = "Empty"
      /\ fdata.status # "Empty" => entry.value = fdata.value
  OBVIOUS
<1>6. Shew(ftype, fdata).ftype = ftype /\ Shew(ftype, fdata).fdata = fdata
  BY DEF Shew
<1> HIDE DEF entry
<1> QED
  BY <1>1, <1>3, <1>4, <1>5, <1>6 DEF Agrees

(* What a copy field looks up is in the dictionary, or its initial value. *)
LEMMA GetAgrees ==
  ASSUME NEW tab \in ConversationTables, NEW ftype \in Field, ftype \in FieldTypes,
         ftype.key # NoKey, ftype.op = "Copy", NEW fdata \in FieldData
  PROVE  Agrees(tab[Cell(ftype)],
                Shew(ftype, get_dictionary_value(tab, ftype, fdata).fdata))
<1> DEFINE found == get_dictionary_value(tab, ftype, fdata).fdata
           prev  == tab[Cell(ftype)]
           shew  == Shew(ftype, found)
<1> SUFFICES Agrees(prev, shew)
  OBVIOUS
<1>1. shew # NoEntry
  BY GetType, LatestAssumption DEF Shew
<1>2. shew.ftype = ftype /\ shew.fdata = found
  BY DEF Shew
<1> HIDE DEF shew, prev
<1>3. CASE prev # NoEntry /\ prev.type # ftype.type
  <2>1. found.status = "Error"
    BY <1>3 DEF get_dictionary_value, err_d, prev
  <2> HIDE DEF found
  <2> QED
    BY <1>1, <1>2, <2>1 DEF Agrees
<1>4. CASE prev # NoEntry /\ prev.type = ftype.type /\ prev.empty
  <2>1. found.status = "Empty"
    BY <1>4 DEF get_dictionary_value, FieldData, prev
  <2> HIDE DEF found
  <2> QED
    BY <1>1, <1>2, <1>4, <2>1 DEF Agrees
<1>5. CASE prev # NoEntry /\ prev.type = ftype.type /\ ~prev.empty
  <2>1. found.status = "Exists" /\ found.value = prev.value
    BY <1>5 DEF get_dictionary_value, prev
  <2> HIDE DEF found
  <2> QED
    BY <1>1, <1>2, <1>5, <2>1 DEF Agrees
<1>6. CASE prev = NoEntry /\ ftype.hasDefault
  <2>1. found.status = "Exists" /\ found.value = ftype.value
    BY <1>6 DEF get_dictionary_value, prev
  <2> HIDE DEF found
  <2> QED
    BY <1>1, <1>2, <1>6, <2>1 DEF Agrees, InitialCopied
<1>7. CASE prev = NoEntry /\ ~ftype.hasDefault
  <2>1. found.status = "Undefined"
    BY <1>7 DEF get_dictionary_value, FieldData, prev
  <2> HIDE DEF found
  <2> QED
    BY <1>1, <1>2, <2>1 DEF Agrees
<1> QED
  BY <1>3, <1>4, <1>5, <1>6, <1>7

(* Storing a field changes no other cell. *)
LEMMA SetOthers ==
  ASSUME NEW tab \in ConversationTables, NEW ftype \in FieldTypes, NEW fdata,
         NEW cell \in CellId, ftype.key = NoKey \/ cell # Cell(ftype)
  PROVE  set_dictionary_value(tab, ftype, fdata)[cell] = tab[cell]
BY DEF set_dictionary_value, ConversationTables

(* The history is typed: a cell has the field shown last and its data. *)
LatestType ==
  latest \in [Conversation -> [CellId -> [ftype : Field, fdata : FieldData] \cup {NoEntry}]]

(* What a step of DissectField does to the cells of the conversation. *)
LEMMA FieldStepValue ==
  ASSUME TypeOK, DissectField
  PROVE  /\ CurrentField \in Field /\ CurrentField \in FieldTypes
         /\ check_valid_operator(CurrentField)
         /\ pair \in Conversation /\ tables[pair] \in ConversationTables
         /\ \E uninit \in Uninitialised :
              LET r == dissect_value(CurrentField, pos, tables[pair], uninit) IN
              /\ r \in Stack
              /\ tables' = [tables EXCEPT ![pair] = r.tab]
              /\ latest' = Remember(CurrentField, r.fdata)
              /\ shown'[Len(shown')].fdata = r.fdata
<1> DEFINE c == get_conversation_table(pair[1], pair[2])
<1>1. CurrentField \in Field
  BY TemplateAssumption DEF TypeOK, DissectField, CurrentField
<1>2. CurrentField \in FieldTypes /\ check_valid_operator(CurrentField)
      /\ CurrentField.type # "Group"
  BY <1>1, FieldAssumption DEF ScalarType, IntegerType, UnsignedType, SignedType
<1>3. pair \in Conversation /\ c = pair /\ tables[pair] \in ConversationTables
      /\ pos \in DissectPosition
  BY DEF TypeOK, Conversation, get_conversation_table
<1>4. PICK uninit \in Uninit :
        LET s == dissect_value(CurrentField, pos, tables[c], uninit) IN
        /\ tables' = [tables EXCEPT ![c] = s.tab]
        /\ shown' = Append(shown, [ftype |-> CurrentField, fdata |-> s.fdata,
                                   absent |-> LeftToOperator(CurrentField)])
        /\ latest' = Remember(CurrentField, s.fdata)
  BY DEF DissectField
<1> HIDE DEF c
<1>5. uninit \in Uninitialised
  BY UninitAssumption
<1> DEFINE r == dissect_value(CurrentField, pos, tables[pair], uninit)
<1>6. r \in Stack
  BY <1>2, <1>3, <1>5, ValueResult
<1> HIDE DEF r
<1>7. shown'[Len(shown')].fdata = r.fdata
  <2> DEFINE last == [ftype |-> CurrentField, fdata |-> r.fdata,
                      absent |-> LeftToOperator(CurrentField)]
  <2>1. shown' = Append(shown, last)
    BY <1>3, <1>4 DEF r
  <2>2. last.fdata = r.fdata
    OBVIOUS
  <2> HIDE DEF last
  <2>3. shown'[Len(shown')] = last
    BY <2>1 DEF TypeOK
  <2> QED
    BY <2>2, <2>3
<1> QED
  BY <1>1, <1>2, <1>3, <1>4, <1>5, <1>6, <1>7 DEF r

(***************************************************************************)
(* A step of DissectField keeps dictionary and history in agreement: the   *)
(* cell of the field follows what was shown, the others stay.              *)
(***************************************************************************)
LEMMA FieldKeepsLatest ==
  ASSUME TypeOK, LatestType, PreviousIsLatest, DissectField
  PROVE  LatestType' /\ PreviousIsLatest'
<1> DEFINE ftype == CurrentField
           tab   == tables[pair]
           cell  == Cell(ftype)
<1>1. /\ ftype \in Field /\ ftype \in FieldTypes /\ check_valid_operator(ftype)
      /\ pair \in Conversation /\ tab \in ConversationTables
  BY FieldStepValue
<1> DEFINE V(u) == dissect_value(ftype, pos, tab, u)
<1>2. PICK uninit \in Uninitialised :
        /\ V(uninit) \in Stack
        /\ tables' = [tables EXCEPT ![pair] = V(uninit).tab]
        /\ latest' = Remember(ftype, V(uninit).fdata)
  BY FieldStepValue
<1> DEFINE r == V(uninit)
           shew == Shew(ftype, r.fdata)
<1>3. /\ LeavesAlone(ftype, pos) => r.tab = tab
      /\ ~LeavesAlone(ftype, pos) =>
              \/ r.tab = set_dictionary_value(tab, ftype, r.fdata)
              \/ /\ ftype.op = "Copy" /\ r.tab = tab
                 /\ \E fdata \in FieldData :
                      r.fdata = get_dictionary_value(tab, ftype, fdata).fdata
  BY <1>1, ValueStored DEF TypeOK
<1> HIDE DEF V, tab, ftype
<1>4. r.fdata \in FieldData
  BY <1>2 DEF Stack
<1>5. shew \in [ftype : Field, fdata : FieldData]
  BY <1>1, <1>4 DEF Shew
<1>6. latest' = IF ftype.key = NoKey \/ LeavesAlone(ftype, pos) THEN latest
                ELSE [latest EXCEPT ![pair] = [latest[pair] EXCEPT ![cell] = shew]]
  BY <1>2 DEF Remember, LeavesAlone, Shew
<1> HIDE DEF r, shew
<1>7. tables' = [tables EXCEPT ![pair] = r.tab]
  BY <1>2 DEF r
<1>8. CASE ftype.key = NoKey \/ LeavesAlone(ftype, pos)
  <2>1. r.tab = tab
    BY <1>3, <1>8 DEF set_dictionary_value
  <2>2. tables' = tables
    BY <1>7, <2>1 DEF TypeOK, tab
  <2> QED
    BY <1>6, <1>8, <2>2 DEF LatestType, PreviousIsLatest
<1>9. CASE ftype.key # NoKey /\ ~LeavesAlone(ftype, pos)
  <2>1. cell \in CellId
    BY <1>1, <1>9, CellType
  <2>2. Agrees(r.tab[cell], shew)
    <3>1. CASE r.tab = set_dictionary_value(tab, ftype, r.fdata)
      BY <1>1, <1>4, <1>9, <3>1, SetAgrees DEF shew
    <3>2. CASE /\ ftype.op = "Copy" /\ r.tab = tab
               /\ \E fdata \in FieldData :
                    r.fdata = get_dictionary_value(tab, ftype, fdata).fdata
      BY <1>1, <1>9, <3>2, GetAgrees DEF shew
    <3> QED
      BY <1>3, <1>9, <3>1, <3>2
  <2>3. \A k \in CellId : k # cell => r.tab[k] = tab[k]
    BY <1>1, <1>3, <1>9, SetOthers
  <2> HIDE DEF cell
  <2>4. latest' = [latest EXCEPT ![pair] = [latest[pair] EXCEPT ![cell] = shew]]
    BY <1>6, <1>9
  <2>5. LatestType'
    BY <1>5, <2>4 DEF LatestType
  <2>6. ASSUME NEW c \in Conversation, NEW k \in CellId
        PROVE  Agrees(tables'[c][k], latest'[c][k])
    <3>1. Agrees(tables[c][k], latest[c][k])
      BY DEF PreviousIsLatest, Agrees
    <3>2. CASE c # pair \/ k # cell
      <4>1. tables'[c][k] = tables[c][k]
        BY <1>7, <2>3, <3>2 DEF TypeOK, tab
      <4>2. latest'[c][k] = latest[c][k]
        BY <2>4, <3>2 DEF LatestType
      <4> QED
        BY <3>1, <4>1, <4>2
    <3>3. CASE c = pair /\ k = cell
      <4>1. tables'[c][k] = r.tab[cell]
        BY <1>1, <1>7, <3>3 DEF TypeOK
      <4>2. latest'[c][k] = shew
        BY <1>1, <2>1, <2>4, <3>3 DEF LatestType
      <4> QED
        BY <2>2, <4>1, <4>2
    <3> QED
      BY <3>2, <3>3
  <2>7. PreviousIsLatest'
    BY <2>6 DEF PreviousIsLatest, Agrees
  <2> QED
    BY <2>5, <2>7
<1> QED
  BY <1>8, <1>9

(* The invariant of the history: types, and agreement cell by cell. *)
Remembered == TypeOK /\ LatestType /\ PreviousIsLatest

LEMMA RememberedInit == Init => Remembered
<1> SUFFICES ASSUME Init PROVE LatestType /\ PreviousIsLatest
  BY InitType DEF Remembered
<1>1. LatestType
  BY DEF Init, LatestType
<1>2. PreviousIsLatest
  BY DEF Init, PreviousIsLatest, EmptyTables
<1> QED
  BY <1>1, <1>2

(* Every step keeps it; only fields and the end of a packet touch it. *)
LEMMA RememberedNext ==
  ASSUME Remembered, [Next]_vars
  PROVE  Remembered'
<1>1. TypeOK /\ LatestType /\ PreviousIsLatest
  BY DEF Remembered
<1>2. TypeOK'
  BY <1>1, NextType
<1>3. LatestType' /\ PreviousIsLatest'
  <2>1. CASE DissectField
    BY <1>1, <2>1, FieldKeepsLatest
  <2>2. CASE EndPacket /\ pair \in ResetPairs
    <3> DEFINE none == [cell \in CellId |-> NoEntry]
    <3>1. pair \in Conversation /\ get_conversation_table(pair[1], pair[2]) = pair
      BY <1>1 DEF TypeOK, Conversation, get_conversation_table
    <3>2. tables' = [tables EXCEPT ![pair] = EmptyTables]
      BY <2>2, <3>1 DEF EndPacket, clear_dictionaries
    <3>3. latest' = [latest EXCEPT ![pair] = none]
      BY <2>2 DEF EndPacket
    <3>4. LatestType'
      <4>1. none \in [CellId -> [ftype : Field, fdata : FieldData] \cup {NoEntry}]
        OBVIOUS
      <4> HIDE DEF none
      <4> QED
        BY <1>1, <3>3, <4>1 DEF LatestType
    <3>5. ASSUME NEW c \in Conversation, NEW cell \in CellId
          PROVE  Agrees(tables'[c][cell], latest'[c][cell])
      <4>1. CASE c = pair
        <5>1. tables'[c][cell] = NoEntry
          BY <1>1, <3>2, <4>1 DEF TypeOK, EmptyTables
        <5>2. latest'[c][cell] = NoEntry
          BY <1>1, <3>3, <4>1 DEF LatestType
        <5> QED
          BY <5>1, <5>2 DEF Agrees
      <4>2. CASE c # pair
        <5>1. tables'[c] = tables[c] /\ latest'[c] = latest[c]
          BY <1>1, <3>2, <3>3, <4>2 DEF TypeOK, LatestType
        <5> QED
          BY <1>1, <5>1 DEF PreviousIsLatest, Agrees
      <4> QED
        BY <4>1, <4>2
    <3> QED
      BY <3>4, <3>5 DEF PreviousIsLatest, Agrees
  <2>3. CASE \/ ReceivePacket \/ ReceiveShort \/ BeginMessage \/ UnknownTemplate
             \/ EndMessage \/ (EndPacket /\ pair \notin ResetPairs) \/ Crash
    <3>1. UNCHANGED <<tables, latest>>
      BY <2>3 DEF Receive, ReceivePacket, ReceiveShort, BeginMessage, UnknownTemplate,
                  EndMessage, EndPacket, Crash
    <3> QED
      BY <1>1, <3>1 DEF LatestType, PreviousIsLatest
  <2>4. CASE UNCHANGED vars
    BY <1>1, <2>4 DEF LatestType, PreviousIsLatest, vars
  <2> QED
    BY <2>1, <2>2, <2>3, <2>4 DEF Next
<1> QED
  BY <1>1, <1>2, <1>3 DEF Remembered

(***************************************************************************)
(* For any templates and packets the previous value that a field will be   *)
(* given is the one its cell showed last, in every conversation: no        *)
(* operator leaves the dictionary behind the display or ahead of it.       *)
(***************************************************************************)
THEOREM DictionaryFollowsDisplay == Spec => []PreviousIsLatest
<1>1. Remembered => PreviousIsLatest
  BY DEF Remembered
<1> QED
  BY <1>1, RememberedInit, RememberedNext, PTL DEF Spec

(***************************************************************************)
(* What dissect_value makes of a mandatory copy or increment field that    *)
(* the stream leaves out: an error when there is no previous value or an   *)
(* empty one, else what was looked up, or its successor.                   *)
(***************************************************************************)
LEMMA AbsentMandatory ==
  ASSUME NEW p \in DissectPosition, NEW tab \in ConversationTables,
         NEW ftype \in FieldTypes, check_valid_operator(ftype),
         NEW uninit \in Uninitialised,
         ftype.mandatory, ftype.op \in {"Copy", "Increment"}, ~dissect_peek_pmap(p)
  PROVE  LET found == get_dictionary_value(tab, ftype, BlankField("Exists")).fdata
             r     == dissect_value(ftype, p, tab, uninit).fdata
         IN  /\ found.status \in {"Undefined", "Empty"} => r.status = "Error"
             /\ found.status \notin {"Undefined", "Empty"} =>
                  /\ r.status = found.status /\ r.err = found.err
                  /\ r.value = Successor(ftype, found.value)
<1> DEFINE begin == [pos |-> p, tab |-> tab, fdata |-> BlankField("Exists")]
           found == LookUp(ftype, begin).fdata
           err   == AbsentError(ftype, found)
           after == dissect_shift_pmap(begin.pos)
           op    == ApplyOperator(ftype, begin)
           r     == dissect_value(ftype, p, tab, uninit)
<1>1. begin \in Stack /\ begin.pos = p /\ begin.fdata.status = "Exists"
  BY BeginType DEF FieldStatus, BlankField
<1>2. r = IF op.operator_used THEN op.s ELSE dissect_fn(ftype, op.s, uninit)
  BY <1>1 DEF dissect_value
<1>3. found = get_dictionary_value(tab, ftype, BlankField("Exists")).fdata
  BY DEF LookUp
<1>4. found \in FieldData
  BY <1>1, LookUpType
<1>5. err = 0 <=> found.status \notin {"Undefined", "Empty"}
  BY DEF AbsentError
<1> HIDE DEF begin, r, found
<1>6. CASE ftype.op = "Copy"
  <2>1. err = 0 => op = [operator_used |-> TRUE, s |-> To(begin, after, found)]
    BY <1>1, <1>6 DEF ApplyOperator, dissect_copy, found
  <2>2. err # 0 => op = [operator_used |-> FALSE, s |-> To(begin, after, err_d(err, found))]
    BY <1>1, <1>6 DEF ApplyOperator, dissect_copy, found
  <2> HIDE DEF op
  <2>3. CASE err = 0
    <3>1. r.fdata = found
      BY <1>2, <2>1, <2>3 DEF To
    <3> QED
      BY <1>3, <1>5, <1>6, <2>3, <3>1 DEF Successor, r
  <2>4. CASE err # 0
    <3> DEFINE t == To(begin, after, err_d(err, found))
    <3>1. r = dissect_fn(ftype, t, uninit) /\ t.fdata.status = "Error"
      BY <1>2, <2>2, <2>4 DEF To, err_d
    <3>2. t \in Stack
      <4>1. after \in DissectPosition
        BY <1>1, ShiftPmapTook
      <4>2. err_d(err, found) \in FieldData
        BY <1>4, AbsentErrorType, ErrType
      <4> HIDE DEF after, err
      <4> QED
        BY <1>1, <4>1, <4>2 DEF To, Stack
    <3> HIDE DEF t
    <3>3. r.fdata.status = "Error"
      BY <1>6, <3>1, <3>2, ErrorStays
    <3> QED
      BY <1>3, <1>5, <2>4, <3>3 DEF r
  <2> QED
    BY <2>3, <2>4
<1>7. CASE ftype.op = "Increment"
  <2>1. op = [operator_used |-> FALSE, s |-> begin]
    BY <1>7 DEF ApplyOperator
  <2>2. r = dissect_int(ftype, begin)
    BY <1>2, <1>7, <2>1 DEF dissect_fn, check_valid_operator
  <2> DEFINE shown1 == IF err # 0 THEN err_d(err, found) ELSE found
             delta1 == IF err # 0 THEN 0 ELSE 1
             num    == Wrap(ftype.type, shown1.value.num + delta1)
  <2>3. dissect_int_op(ftype, begin) =
          [dissect_it |-> FALSE, delta |-> delta1, s |-> To(begin, after, shown1)]
    BY <1>1, <1>7 DEF dissect_int_op, IntIncrement, found
  <2>4. shown1 \in FieldData
    BY <1>4, AbsentErrorType, ErrType
  <2>5. after \in DissectPosition
    BY <1>1, ShiftPmapTook
  <2>6. r = Store(ftype, [To(begin, after, shown1) EXCEPT !.fdata.value.num = num])
    <3> HIDE DEF shown1, delta1, after
    <3> QED
      BY <2>2, <2>3 DEF dissect_int, To
  <2>7. num \in Int
    <3>1. shown1.value.num \in Int
      BY <2>4 DEF FieldData, FieldValue
    <3>2. delta1 \in Int
      OBVIOUS
    <3> HIDE DEF shown1, delta1
    <3> QED
      BY <3>1, <3>2, WrapType
  <2>8. r.fdata = [shown1 EXCEPT !.value.num = num]
    <3> HIDE DEF shown1, num, after
    <3>1. [shown1 EXCEPT !.value.num = num] \in FieldData
      BY <2>4, <2>7, NumType
    <3>2. [To(begin, after, shown1) EXCEPT !.fdata.value.num = num]
            = To(begin, after, [shown1 EXCEPT !.value.num = num])
      BY DEF To
    <3>3. To(begin, after, [shown1 EXCEPT !.value.num = num]) \in Stack
      BY <1>1, <2>5, <3>1 DEF To, Stack
    <3>4. r.fdata = To(begin, after, [shown1 EXCEPT !.value.num = num]).fdata
      BY <2>6, <3>2, <3>3, StoreLeaves
    <3> QED
      BY <3>4 DEF To
  <2>9. CASE err # 0
    <3>1. shown1.status = "Error"
      BY <2>9 DEF err_d
    <3> HIDE DEF shown1
    <3>2. r.fdata.status = "Error"
      BY <2>4, <2>8, <3>1 DEF FieldData
    <3> QED
      BY <1>3, <1>5, <2>9, <3>2 DEF r
  <2>10. CASE err = 0
    <3>1. num = Wrap(ftype.type, found.value.num + 1) /\ shown1 = found
      BY <2>10
    <3>2. found.value \in FieldValue
      BY <1>4 DEF FieldData
    <3> HIDE DEF shown1, num
    <3>3. r.fdata.status = found.status /\ r.fdata.err = found.err
      BY <1>4, <2>8, <3>1 DEF FieldData
    <3>4. r.fdata.value = [found.value EXCEPT !.num = num]
      BY <1>4, <2>8, <3>1 DEF FieldData
    <3>5. Successor(ftype, found.value)
            = [found.value EXCEPT !.num = Wrap(ftype.type, found.value.num + 1)]
      BY <1>7 DEF Successor
    <3> QED
      BY <1>3, <1>5, <2>10, <3>1, <3>3, <3>4, <3>5 DEF r
  <2> QED
    BY <2>9, <2>10
<1> QED
  BY <1>6, <1>7

(* What the lookup for a field with a key finds, told by the history. *)
LEMMA LookupTold ==
  ASSUME NEW tab \in ConversationTables, NEW ftype \in FieldTypes, ftype.key # NoKey,
         NEW fdata \in FieldData, NEW shew, Agrees(tab[Cell(ftype)], shew)
  PROVE  LET found   == get_dictionary_value(tab, ftype, fdata).fdata
             initial == IF ftype.hasDefault
                        THEN found.status = "Exists" /\ found.value = ftype.value
                        ELSE found.status = "Undefined"
         IN  /\ shew = NoEntry => initial
             /\ (shew # NoEntry /\ shew.fdata.status = "Exists") =>
                  \/ IF shew.ftype.type = ftype.type
                     THEN found.status = "Exists" /\ found.value = shew.fdata.value
                     ELSE found.status = "Error" /\ found.err = 4
                  \/ InitialCopied(shew) /\ initial
             /\ (shew # NoEntry /\ shew.fdata.status = "Empty") =>
                  found.status \in {"Empty", "Error"}
<1> DEFINE found   == get_dictionary_value(tab, ftype, fdata).fdata
           prev    == tab[Cell(ftype)]
           initial == IF ftype.hasDefault
                      THEN found.status = "Exists" /\ found.value = ftype.value
                      ELSE found.status = "Undefined"
<1>1. CASE prev = NoEntry
  <2>1. initial
    BY <1>1 DEF get_dictionary_value, FieldData
  <2> HIDE DEF initial
  <2> QED
    BY <1>1, <2>1 DEF Agrees, initial
<1>2. CASE prev # NoEntry /\ prev.type # ftype.type
  <2>1. found.status = "Error" /\ found.err = 4
    BY <1>2 DEF get_dictionary_value, err_d
  <2> QED
    BY <1>2, <2>1 DEF Agrees
<1>3. CASE prev # NoEntry /\ prev.type = ftype.type /\ prev.empty
  <2>1. found.status = "Empty"
    BY <1>3 DEF get_dictionary_value, FieldData
  <2> QED
    BY <1>3, <2>1 DEF Agrees
<1>4. CASE prev # NoEntry /\ prev.type = ftype.type /\ ~prev.empty
  <2>1. found.status = "Exists" /\ found.value = prev.value
    BY <1>4 DEF get_dictionary_value
  <2> QED
    BY <1>4, <2>1 DEF Agrees
<1> QED
  BY <1>1, <1>2, <1>3, <1>4

(* Only a step of DissectField moves to the next field. *)
LEMMA FieldStepOnly ==
  ASSUME TypeOK, [Next]_vars, FieldStep
  PROVE  DissectField
BY DEF TypeOK, Next, FieldStep, vars, Receive, ReceivePacket, ReceiveShort, BeginMessage,
       UnknownTemplate, EndMessage, EndPacket, Crash

(***************************************************************************)
(* For any templates and packets, what a mandatory copy or increment field *)
(* shows when the stream leaves it out follows from what its cell showed   *)
(* last in the conversation, across messages, packets and templates.       *)
(***************************************************************************)
THEOREM AbsentFieldsFollow == Spec => AbsentMandatoryContract
<1>1. ASSUME Remembered, [Next]_vars, AbsentStep
      PROVE  FollowsBefore
  <2> DEFINE ftype == CurrentField
             tab   == tables[pair]
             found == get_dictionary_value(tab, ftype, BlankField("Exists")).fdata
  <2>1. TypeOK /\ PreviousIsLatest /\ DissectField
    BY <1>1, FieldStepOnly DEF Remembered, AbsentStep
  <2>2. /\ ftype \in FieldTypes /\ check_valid_operator(ftype)
        /\ pair \in Conversation /\ tab \in ConversationTables
    BY <2>1, FieldStepValue
  <2>3. PICK uninit \in Uninitialised :
          Now = dissect_value(ftype, pos, tab, uninit).fdata
    BY <2>1, FieldStepValue DEF Now
  <2>4. pos \in DissectPosition /\ ~dissect_peek_pmap(pos)
    BY <1>1, <2>1 DEF AbsentStep, TypeOK, LeftToOperator
  <2> HIDE DEF tab, ftype, found
  <2>5. /\ found.status \in {"Undefined", "Empty"} => Now.status = "Error"
        /\ found.status \notin {"Undefined", "Empty"} =>
             /\ Now.status = found.status /\ Now.err = found.err
             /\ Now.value = Successor(ftype, found.value)
    BY <1>1, <2>2, <2>3, <2>4, AbsentMandatory DEF AbsentStep, ftype, found
  <2>6. Agrees(tab[Cell(ftype)], Before)
    <3>1. Cell(ftype) \in CellId
      BY <1>1, <2>2, CellType DEF AbsentStep, ftype
    <3> QED
      BY <2>1, <2>2, <3>1 DEF PreviousIsLatest, Agrees, Before, tab, ftype
  <2>7. BlankField("Exists") \in FieldData
    BY DEF BlankField, FieldData, FieldStatus, FieldValue, init_field_value
  <2> DEFINE initial == IF ftype.hasDefault
                        THEN found.status = "Exists" /\ found.value = ftype.value
                        ELSE found.status = "Undefined"
  <2>8. /\ Before = NoEntry => initial
        /\ (Before # NoEntry /\ Before.fdata.status = "Exists") =>
             \/ IF Before.ftype.type = ftype.type
                THEN found.status = "Exists" /\ found.value = Before.fdata.value
                ELSE found.status = "Error" /\ found.err = 4
             \/ InitialCopied(Before) /\ initial
        /\ (Before # NoEntry /\ Before.fdata.status = "Empty") =>
             found.status \in {"Empty", "Error"}
    BY <1>1, <2>2, <2>6, <2>7, LookupTold DEF AbsentStep, ftype, found
  <2>9. initial => FollowsInitial
    BY <2>5 DEF FollowsInitial, Follows, ftype
  <2> HIDE DEF initial
  <2> QED
    BY <2>5, <2>8, <2>9 DEF FollowsBefore, Follows, ftype
<1> QED
  BY <1>1, RememberedInit, RememberedNext, PTL DEF Spec, AbsentMandatoryContract

-----------------------------------------------------------------------------
(***************************************************************************)
(* Two dissectors, one of which sees the packets of one conversation only. *)
(***************************************************************************)


(***************************************************************************)
(* The instance's operators on positions, values and dictionaries, which   *)
(* speak of no variable, are those of DissectFields itself.                *)
(***************************************************************************)
LEMMA SamePosition ==
  ASSUME NEW p
  PROVE  /\ Second!NoEntity(p) = NoEntity(p)
         /\ Second!AtEnd(p) = AtEnd(p)
         /\ Second!NextToken(p) = NextToken(p)
         /\ Second!ShiftBytes(p) = ShiftBytes(p)
         /\ Second!dissect_peek_pmap(p) = dissect_peek_pmap(p)
         /\ Second!dissect_shift_pmap(p) = dissect_shift_pmap(p)
         /\ Second!dissect_shift_null(p) = dissect_shift_null(p)
         /\ Second!basic_dissect_pmap(p) = basic_dissect_pmap(p)
<1>1. /\ Second!NoEntity(p) = NoEntity(p) /\ Second!AtEnd(p) = AtEnd(p)
      /\ Second!NextToken(p) = NextToken(p)
  BY DEF NoEntity, AtEnd, NextToken, Second!NoEntity, Second!AtEnd, Second!NextToken
<1>2. Second!ShiftBytes(p) = ShiftBytes(p)
  BY <1>1 DEF ShiftBytes, Second!ShiftBytes
<1>3. /\ Second!dissect_peek_pmap(p) = dissect_peek_pmap(p)
      /\ Second!dissect_shift_pmap(p) = dissect_shift_pmap(p)
  BY DEF dissect_peek_pmap, dissect_shift_pmap, Second!dissect_peek_pmap,
         Second!dissect_shift_pmap
<1>4. Second!dissect_shift_null(p) = dissect_shift_null(p)
  BY <1>1 DEF dissect_shift_null, Second!dissect_shift_null
<1>5. Second!basic_dissect_pmap(p) = basic_dissect_pmap(p)
  BY <1>1, <1>2 DEF basic_dissect_pmap, Second!basic_dissect_pmap
<1> QED
  BY <1>1, <1>2, <1>3, <1>4, <1>5

LEMMA SameReading ==
  ASSUME NEW type, NEW n, NEW p
  PROVE  /\ Second!Wrap(type, n) = Wrap(type, n)
         /\ Second!InRange(type, n) = InRange(type, n)
         /\ Second!Reading(type, p) = Reading(type, p)
         /\ Second!ReadingText(p) = ReadingText(p)
         /\ Second!Bytes(p) = Bytes(p)
         /\ Second!Fits(type, p) = Fits(type, p)
<1>1. Second!UnsignedType = UnsignedType /\ Second!Width(type) = Width(type)
  BY DEF UnsignedType, Second!UnsignedType, Width, Second!Width
<1>2. /\ Second!InRange(type, n) = InRange(type, n)
      /\ Second!Reading(type, p) = Reading(type, p)
      /\ Second!Bytes(p) = Bytes(p)
  BY <1>1, SamePosition
  DEF InRange, Second!InRange, Reading, Second!Reading, Read, Second!Read,
      Bytes, Second!Bytes
<1>3. Second!Fits(type, p) = Fits(type, p)
  <2>1. ASSUME NEW k PROVE Second!InRange(type, k) = InRange(type, k)
    BY <1>1 DEF InRange, Second!InRange
  <2> QED
    BY <1>2, <2>1 DEF Fits, Second!Fits, MaxBytes, Second!MaxBytes
<1> QED
  BY <1>1, <1>2, <1>3, SamePosition
  DEF Wrap, Second!Wrap, ReadingText, Second!ReadingText

(* The head of a message and its template id. *)
LEMMA SameHead ==
  ASSUME NEW p, NEW h, NEW id
  PROVE  /\ Second!MessageHead(p) = MessageHead(p)
         /\ Second!HeadId(h, id) = HeadId(h, id)
         /\ Second!HeadPosition(h) = HeadPosition(h)
         /\ (pos2 = pos => Second!HasHead = HasHead)
<1>1. Second!MessageHead(p) = MessageHead(p)
  BY SamePosition DEF MessageHead, Second!MessageHead
<1>2. Second!HeadId(h, id) = HeadId(h, id)
  BY SameReading DEF HeadId, Second!HeadId
<1>3. Second!HeadPosition(h) = HeadPosition(h)
  BY SamePosition DEF HeadPosition, Second!HeadPosition
<1>4. ASSUME NEW q, NEW g
      PROVE  /\ Second!MessageHead(q) = MessageHead(q)
             /\ Second!HeadPosition(g) = HeadPosition(g)
  BY SamePosition DEF MessageHead, Second!MessageHead, HeadPosition, Second!HeadPosition
<1>5. pos2 = pos => Second!HasHead = HasHead
  BY <1>4, SamePosition DEF HasHead, Second!HasHead
<1> QED
  BY <1>1, <1>2, <1>3, <1>5

(* The dictionaries. *)
LEMMA SameDictionaries ==
  ASSUME NEW ftype, NEW tab, NEW fdata, NEW s
  PROVE  /\ Second!get_dictionary_value(tab, ftype, fdata)
              = get_dictionary_value(tab, ftype, fdata)
         /\ Second!set_dictionary_value(tab, ftype, fdata)
              = set_dictionary_value(tab, ftype, fdata)
         /\ Second!LookUp(ftype, s) = LookUp(ftype, s)
         /\ Second!Store(ftype, s) = Store(ftype, s)
<1>1. ASSUME NEW t, NEW f
      PROVE  Second!get_dictionary_value(t, ftype, f) = get_dictionary_value(t, ftype, f)
  BY DEF get_dictionary_value, Second!get_dictionary_value, Cell, Second!Cell,
         get_dictionary, Second!get_dictionary, TEMPLATE_DICTIONARY,
         Second!TEMPLATE_DICTIONARY, err_d, Second!err_d
<1>2. ASSUME NEW t, NEW f
      PROVE  Second!set_dictionary_value(t, ftype, f) = set_dictionary_value(t, ftype, f)
  BY DEF set_dictionary_value, Second!set_dictionary_value, Cell, Second!Cell,
         get_dictionary, Second!get_dictionary, TEMPLATE_DICTIONARY,
         Second!TEMPLATE_DICTIONARY, init_field_value, Second!init_field_value
<1> QED
  BY <1>1, <1>2 DEF LookUp, Second!LookUp, Store, Second!Store

(* Integers. *)
LEMMA SameInt ==
  ASSUME NEW ftype, NEW s
  PROVE  Second!dissect_int(ftype, s) = dissect_int(ftype, s)
<1>1. Second!UnsignedType = UnsignedType
  BY DEF UnsignedType, Second!UnsignedType
<1>2. ASSUME NEW n, NEW fdata
      PROVE  /\ Second!err_d(n, fdata) = err_d(n, fdata)
             /\ Second!AbsentError(ftype, fdata) = AbsentError(ftype, fdata)
             /\ Second!NullableDelta(ftype, n) = NullableDelta(ftype, n)
  BY <1>1 DEF err_d, Second!err_d, AbsentError, Second!AbsentError,
              NullableDelta, Second!NullableDelta
<1>3. ASSUME NEW t, NEW p, NEW fdata
      PROVE  Second!To(t, p, fdata) = To(t, p, fdata)
  BY DEF To, Second!To
<1>4. Second!IntDelta(ftype, s) = IntDelta(ftype, s)
  BY <1>2, <1>3, SameDictionaries, SamePosition, SameReading
  DEF IntDelta, Second!IntDelta, init_field_value, Second!init_field_value
<1>5. Second!IntIncrement(ftype, s) = IntIncrement(ftype, s)
  <2>1. /\ Second!dissect_peek_pmap(s.pos) = dissect_peek_pmap(s.pos)
        /\ Second!dissect_shift_pmap(s.pos) = dissect_shift_pmap(s.pos)
        /\ Second!LookUp(ftype, s) = LookUp(ftype, s)
    BY SameDictionaries, SamePosition
  <2> QED
    BY <1>2, <1>3, <2>1 DEF IntIncrement, Second!IntIncrement
<1>6. Second!dissect_int_op(ftype, s) = dissect_int_op(ftype, s)
  BY <1>4, <1>5 DEF dissect_int_op, Second!dissect_int_op
<1>7. ASSUME NEW type, NEW t
      PROVE  Second!basic_dissect_int(type, t) = basic_dissect_int(type, t)
  BY <1>2, <1>3, SamePosition, SameReading
  DEF basic_dissect_int, Second!basic_dissect_int
<1> QED
  BY <1>2, <1>6, <1>7, SameDictionaries, SameReading DEF dissect_int, Second!dissect_int

(* Strings. *)
LEMMA SameText ==
  ASSUME NEW ftype, NEW s, NEW uninit
  PROVE  Second!dissect_ascii_string(ftype, s, uninit) = dissect_ascii_string(ftype, s, uninit)
<1>1. ASSUME NEW t, NEW p, NEW fdata
      PROVE  Second!To(t, p, fdata) = To(t, p, fdata)
  BY DEF To, Second!To
<1>2. ASSUME NEW n, NEW fdata, NEW previous, NEW input
      PROVE  /\ Second!err_d(n, fdata) = err_d(n, fdata)
             /\ Second!CutLength(n) = CutLength(n)
             /\ Second!CutAndAppend(previous, n, input) = CutAndAppend(previous, n, input)
  BY DEF err_d, Second!err_d, CutLength, Second!CutLength,
         CutAndAppend, Second!CutAndAppend
<1>3. ASSUME NEW t
      PROVE  Second!basic_dissect_ascii_string(t) = basic_dissect_ascii_string(t)
  BY <1>1, SamePosition, SameReading
  DEF basic_dissect_ascii_string, Second!basic_dissect_ascii_string
<1>5. ASSUME NEW p, NEW previous, NEW failed
      PROVE  Second!InvalidSubtraction(p, previous, failed)
               = InvalidSubtraction(p, previous, failed)
  BY <1>2, SameReading DEF InvalidSubtraction, Second!InvalidSubtraction
<1>4. Second!dissect_ascii_delta(ftype, s, uninit) = dissect_ascii_delta(ftype, s, uninit)
  BY <1>1, <1>2, <1>3, <1>5, SameDictionaries, SamePosition, SameReading
  DEF dissect_ascii_delta, Second!dissect_ascii_delta
<1> QED
  BY <1>3, <1>4, SameDictionaries DEF dissect_ascii_string, Second!dissect_ascii_string

(* A whole field. *)
LEMMA SameValue ==
  ASSUME NEW ftype, NEW p, NEW tab, NEW uninit
  PROVE  Second!dissect_value(ftype, p, tab, uninit) = dissect_value(ftype, p, tab, uninit)
<1>1. ASSUME NEW t, NEW q, NEW fdata
      PROVE  Second!To(t, q, fdata) = To(t, q, fdata)
  BY DEF To, Second!To
<1>2. ASSUME NEW n, NEW fdata
      PROVE  /\ Second!err_d(n, fdata) = err_d(n, fdata)
             /\ Second!AbsentError(ftype, fdata) = AbsentError(ftype, fdata)
  BY DEF err_d, Second!err_d, AbsentError, Second!AbsentError
<1>3. ASSUME NEW s
      PROVE  Second!dissect_optional(ftype, s) = dissect_optional(ftype, s)
  BY <1>1, SameDictionaries, SamePosition
  DEF dissect_optional, Second!dissect_optional, ChecksPmap, Second!ChecksPmap,
      ChecksNull, Second!ChecksNull, SetsEmpty, Second!SetsEmpty
<1>4. ASSUME NEW s
      PROVE  Second!ApplyOperator(ftype, s) = ApplyOperator(ftype, s)
  <2>1. /\ Second!dissect_peek_pmap(s.pos) = dissect_peek_pmap(s.pos)
        /\ Second!dissect_shift_pmap(s.pos) = dissect_shift_pmap(s.pos)
        /\ Second!LookUp(ftype, s) = LookUp(ftype, s)
    BY SameDictionaries, SamePosition
  <2>2. ASSUME NEW t
        PROVE  Second!Store(ftype, t) = Store(ftype, t)
    BY SameDictionaries
  <2>3. Second!dissect_copy(ftype, s) = dissect_copy(ftype, s)
    BY <1>1, <1>2, <2>1 DEF dissect_copy, Second!dissect_copy
  <2>4. Second!dissect_default(ftype, s) = dissect_default(ftype, s)
    BY <1>1, <2>1, <2>2 DEF dissect_default, Second!dissect_default
  <2> QED
    BY <2>3, <2>4 DEF ApplyOperator, Second!ApplyOperator
<1>5. ASSUME NEW s
      PROVE  Second!dissect_fn(ftype, s, uninit) = dissect_fn(ftype, s, uninit)
  BY SameInt, SameText
  DEF dissect_fn, Second!dissect_fn, IntegerType, Second!IntegerType, UnsignedType,
      Second!UnsignedType, SignedType, Second!SignedType
<1>6. ASSUME NEW status
      PROVE  Second!BlankField(status) = BlankField(status)
  BY DEF BlankField, Second!BlankField, init_field_value, Second!init_field_value
<1> QED
  BY <1>3, <1>4, <1>5, <1>6 DEF dissect_value, Second!dissect_value

(***************************************************************************)
(* A conversation is its own key.                                          *)
(***************************************************************************)
LEMMA OwnTable ==
  ASSUME NEW c \in Conversation
  PROVE  /\ get_conversation_table(c[1], c[2]) = c
         /\ Second!get_conversation_table(c[1], c[2]) = c
BY DEF Conversation, get_conversation_table, Second!get_conversation_table

--------------------------------------------------------------------------------
(***************************************************************************)
(* Either of the twins is a dissector, so what is proved of DissectFast    *)
(* holds of both.                                                          *)
(***************************************************************************)
THEOREM TwinsAreDissectors == TwinSpec => Spec /\ Second!Spec
<1>1. TwinInit => Init /\ Second!Init
  BY DEF TwinInit
<1>2. ASSUME [TwinNext]_<<vars, vars2, watched, joined>>
      PROVE  [Next]_vars /\ [Second!Next]_(Second!vars)
  <2>1. CASE TwinNext
    <3>1. Work1 => Next
      BY DEF Work1, Next
    <3>2. Work2 => Second!Next
      BY DEF Work2, Second!Next
    <3>3. ReceivePacket => Next
      BY DEF Next
    <3>4. Second!ReceivePacket => Second!Next
      BY DEF Second!Next
    <3> QED
      BY <2>1, <3>1, <3>2, <3>3, <3>4
      DEF TwinNext, Join, ReceiveAlone, WorkAlone, ReceiveTogether, WorkTogether,
          vars2, Second!vars
  <2>2. CASE UNCHANGED <<vars, vars2, watched, joined>>
    BY <2>2 DEF vars2, Second!vars
  <2> QED
    BY <1>2, <2>1, <2>2
<1> QED
  BY <1>1, <1>2, PTL DEF TwinSpec, Spec, Second!Spec

--------------------------------------------------------------------------------
(***************************************************************************)
(* The inductive invariant.  The second dissector works exactly when the   *)
(* first works on a packet that both have (Paired); a conversation of a    *)
(* flavor that resets has empty dictionaries whenever no packet of its own *)
(* is in work (Cleared), which is why the second may join late; and once   *)
(* it has joined the two agree on the dictionaries of the conversation at  *)
(* any moment, and within a packet on where they are (Alike).              *)
(***************************************************************************)
Paired ==
  /\ watched \in Pairs /\ joined \in BOOLEAN
  /\ DOMAIN tables2 = Conversation
  /\ pair2 = watched
  /\ phase2 = IF Together THEN phase ELSE "idle"
  /\ ~joined => watched \in ResetPairs /\ tables2[watched] = EmptyTables

Cleared ==
  watched \in ResetPairs /\ (phase = "idle" \/ pair # watched)
    => tables[watched] = EmptyTables

Alike ==
  /\ joined => tables2[watched] = tables[watched]
  /\ Together /\ phase # "idle" =>
       /\ pos2 = pos /\ shown2 = shown
       /\ phase = "fields" => next2 = next /\ template_id2 = template_id

Twins == TypeOK /\ Paired /\ Cleared /\ Alike

(***************************************************************************)
(* The one thing that a dissector may make of a packet in two ways is what *)
(* dissect_ascii_delta finds in its uninitialised local.  Two dissectors   *)
(* can only agree if no field gets there or the local is the same in both. *)
(***************************************************************************)
Determinate ==
  \/ \A f \in Field : f.type \in IntegerType \/ f.op \notin {"Delta", "Tail"}
  \/ \A a, b \in Uninit : a = b

(* What a field shows is then determined by packet and dictionaries. *)
LEMMA ValueDetermined ==
  ASSUME Determinate, NEW ftype \in Field, NEW p, NEW tab,
         NEW a \in Uninit, NEW b \in Uninit
  PROVE  dissect_value(ftype, p, tab, a) = dissect_value(ftype, p, tab, b)
<1>1. CASE a = b
  BY <1>1
<1>2. CASE ftype.type \in IntegerType \/ ftype.op \notin {"Delta", "Tail"}
  <2>1. ASSUME NEW s PROVE dissect_fn(ftype, s, a) = dissect_fn(ftype, s, b)
    BY <1>2 DEF dissect_fn, dissect_ascii_string
  <2> QED
    BY <2>1 DEF dissect_value
<1> QED
  BY <1>1, <1>2 DEF Determinate

(* Working on a packet touches the dictionaries of its own conversation    *)
(* only, and leaves them empty at its end if the flavor resets them.       *)
LEMMA WorkStaysInside ==
  ASSUME TypeOK, Work1
  PROVE  /\ phase # "idle" /\ pair' = pair /\ pair \in Conversation
         /\ \A c \in Conversation \ {pair} : tables'[c] = tables[c]
         /\ phase' = "idle" /\ pair \in ResetPairs => tables'[pair] = EmptyTables
<1>1. /\ pair \in Conversation /\ get_conversation_table(pair[1], pair[2]) = pair
      /\ tables \in [Conversation -> ConversationTables]
  BY OwnTable DEF TypeOK
<1>2. CASE BeginMessage \/ UnknownTemplate \/ EndMessage \/ Crash
  BY <1>1, <1>2 DEF BeginMessage, UnknownTemplate, EndMessage, Crash
<1>3. CASE DissectField
  <2>1. PICK tab : tables' = [tables EXCEPT ![pair] = tab]
    BY <1>1, <1>3 DEF DissectField
  <2>2. phase = "fields" /\ phase' = phase /\ pair' = pair
    BY <1>3 DEF DissectField
  <2> QED
    BY <1>1, <2>1, <2>2
<1>4. CASE EndPacket
  BY <1>1, <1>4 DEF EndPacket, clear_dictionaries
<1> QED
  BY <1>2, <1>3, <1>4 DEF Work1

(***************************************************************************)
(* Working together, the second dissector takes the same step as the first,*)
(* to the same place and with the same effect on the dictionaries.         *)
(***************************************************************************)
LEMMA WorkAgrees ==
  ASSUME Determinate, Twins, WorkTogether
  PROVE  Paired' /\ Alike'
<1>1. /\ joined /\ pair = watched /\ joined' = joined /\ watched' = watched
      /\ phase2 = phase /\ phase # "idle" /\ pair2 = watched
      /\ pos2 = pos /\ shown2 = shown /\ tables2[watched] = tables[watched]
      /\ phase = "fields" => next2 = next /\ template_id2 = template_id
      /\ Work1 /\ Work2
      /\ watched \in Pairs /\ watched \in Conversation
      /\ get_conversation_table(watched[1], watched[2]) = watched
      /\ Second!get_conversation_table(watched[1], watched[2]) = watched
      /\ DOMAIN tables2 = Conversation /\ DOMAIN tables = Conversation
      /\ pair' = pair
  <2>1. watched \in Pairs /\ watched \in Conversation
    BY PairsAssumption DEF Twins, Paired
  <2>2. pair' = pair
    BY WorkStaysInside DEF Twins, WorkTogether
  <2> QED
    BY <2>1, <2>2, OwnTable DEF Twins, TypeOK, Paired, Alike, Together, WorkTogether
<1>2. SUFFICES /\ DOMAIN tables2' = Conversation /\ pair2' = watched
               /\ phase2' = phase' /\ tables2'[watched] = tables'[watched]
               /\ phase' # "idle" =>
                    /\ pos2' = pos' /\ shown2' = shown'
                    /\ phase' = "fields" => next2' = next' /\ template_id2' = template_id'
  BY <1>1 DEF Twins, Paired, Alike, Together
<1>3. CASE BeginMessage /\ HasId
  <2>1. HeadId(MessageHead(pos), template_id2) = HeadId(MessageHead(pos), template_id)
    BY <1>3 DEF HasId, HeadId
  <2>2. ~Second!DissectField /\ ~Second!EndMessage /\ ~Second!EndPacket /\ ~Second!Crash
    BY <1>1, <1>3, SameHead, SamePosition
    DEF BeginMessage, HasHead, AtEnd, Second!DissectField, Second!EndMessage,
        Second!EndPacket, Second!Crash
  <2>4. ~Second!UnknownTemplate
    <3>1. HeadId(MessageHead(pos), template_id) \in Tid
      BY <1>3 DEF BeginMessage
    <3> QED
      BY <1>1, <2>1, <3>1, SameHead DEF Second!UnknownTemplate
  <2>3. Second!BeginMessage
    BY <1>1, <2>2, <2>4 DEF Work2
  <2> QED
    BY <1>1, <1>3, <2>1, <2>3, SameHead DEF BeginMessage, Second!BeginMessage
<1>4. CASE UnknownTemplate /\ HasId
  <2>1. HeadId(MessageHead(pos), template_id2) = HeadId(MessageHead(pos), template_id)
    BY <1>4 DEF HasId, HeadId
  <2>2. ~Second!BeginMessage /\ ~Second!DissectField /\ ~Second!EndMessage
        /\ ~Second!EndPacket /\ ~Second!Crash
    BY <1>1, <1>4, <2>1, SameHead, SamePosition
    DEF UnknownTemplate, HasHead, AtEnd, Second!BeginMessage, Second!DissectField,
        Second!EndMessage, Second!EndPacket, Second!Crash
  <2>3. Second!UnknownTemplate
    BY <1>1, <2>2 DEF Work2
  <2> QED
    BY <1>1, <1>4, <2>1, <2>3, SameHead DEF UnknownTemplate, Second!UnknownTemplate
<1>5. CASE DissectField
  <2>1. ~Second!BeginMessage /\ ~Second!UnknownTemplate /\ ~Second!EndMessage
        /\ ~Second!EndPacket /\ ~Second!Crash
    BY <1>1, <1>5
    DEF TypeOK, Twins, DissectField, Second!BeginMessage, Second!UnknownTemplate,
        Second!EndMessage, Second!EndPacket, Second!Crash
  <2>2. Second!DissectField
    BY <1>1, <2>1 DEF Work2
  <2>3. next2 = next /\ template_id2 = template_id /\ phase = "fields"
    BY <1>1, <1>5 DEF DissectField
  <2>4. Second!CurrentField = CurrentField /\ CurrentField \in Field
    BY <1>5, <2>3, FieldStepValue DEF Twins, CurrentField, Second!CurrentField
  <2>5. Second!LeftToOperator(CurrentField) = LeftToOperator(CurrentField)
    BY <1>1, SamePosition DEF LeftToOperator, Second!LeftToOperator
  <2> DEFINE Value(u) == dissect_value(CurrentField, pos, tables[watched], u)
             Entry(s) == [ftype |-> CurrentField, fdata |-> s.fdata,
                          absent |-> LeftToOperator(CurrentField)]
  <2>6. PICK a \in Uninit :
          /\ pos' = Value(a).pos
          /\ tables' = [tables EXCEPT ![watched] = Value(a).tab]
          /\ shown' = Append(shown, Entry(Value(a)))
    BY <1>1, <1>5 DEF DissectField
  <2>7. PICK b \in Uninit :
          /\ pos2' = Value(b).pos
          /\ tables2' = [tables2 EXCEPT ![watched] = Value(b).tab]
          /\ shown2' = Append(shown, Entry(Value(b)))
    <3>1. PICK b \in Uninit :
            LET s == Second!dissect_value(CurrentField, pos, tables[watched], b) IN
            /\ pos2' = s.pos
            /\ tables2' = [tables2 EXCEPT ![watched] = s.tab]
            /\ shown2' = Append(shown, Entry(s))
      <4>1. Second!get_conversation_table(pair2[1], pair2[2]) = watched
        BY <1>1
      <4>2. PICK b \in Uninit :
              LET s == Second!dissect_value(Second!CurrentField, pos2, tables2[watched], b) IN
              /\ pos2' = s.pos
              /\ tables2' = [tables2 EXCEPT ![watched] = s.tab]
              /\ shown2' = Append(shown2, [ftype  |-> Second!CurrentField, fdata |-> s.fdata,
                                           absent |-> Second!LeftToOperator(Second!CurrentField)])
        BY <2>2, <4>1, Zenon DEF Second!DissectField
      <4> QED
        BY <1>1, <2>4, <2>5, <4>2
    <3>2. Second!dissect_value(CurrentField, pos, tables[watched], b) = Value(b)
      BY SameValue
    <3> QED
      BY <3>1, <3>2
  <2>8. Value(a) = Value(b)
    BY <2>4, ValueDetermined
  <2>9. /\ next' = next + 1 /\ next2' = next + 1 /\ phase' = phase /\ phase2' = phase
        /\ template_id' = template_id /\ template_id2' = template_id /\ pair2' = pair2
    BY <1>1, <1>5, <2>2, <2>3 DEF DissectField, Second!DissectField
  <2> HIDE DEF Value, Shew
  <2> QED
    BY <1>1, <2>6, <2>7, <2>8, <2>9
<1>6. CASE EndMessage
  <2>1. next2 = next /\ template_id2 = template_id /\ phase = "fields"
    BY <1>1, <1>6 DEF EndMessage
  <2>2. /\ ~Second!BeginMessage /\ ~Second!UnknownTemplate /\ ~Second!EndPacket
        /\ ~Second!Crash
    BY <1>1, <1>6, <2>1
    DEF EndMessage, Second!BeginMessage, Second!UnknownTemplate, Second!EndPacket,
        Second!Crash
  <2>3. ~Second!DissectField
    <3>1. Len(Template[template_id]) \in Nat /\ next \in Nat
      BY <2>1, TemplateAssumption DEF Twins, TypeOK
    <3> QED
      BY <1>6, <2>1, <3>1 DEF EndMessage, Second!DissectField
  <2>4. Second!EndMessage
    BY <1>1, <2>2, <2>3 DEF Work2
  <2> QED
    BY <1>1, <1>6, <2>4 DEF EndMessage, Second!EndMessage
<1>7. CASE EndPacket
  <2>1. ~Second!BeginMessage /\ ~Second!UnknownTemplate /\ ~Second!EndMessage
        /\ ~Second!DissectField /\ ~Second!Crash
    BY <1>1, <1>7, SameHead, SamePosition
    DEF EndPacket, AtEnd, HasHead, Second!BeginMessage, Second!UnknownTemplate,
        Second!DissectField, Second!EndMessage, Second!Crash
  <2>2. Second!EndPacket
    BY <1>1, <2>1 DEF Work2
  <2>3. CASE watched \in ResetPairs
    <3>1. tables' = [tables EXCEPT ![watched] = EmptyTables]
      BY <1>1, <1>7, <2>3 DEF EndPacket, clear_dictionaries
    <3>2. tables2' = [tables2 EXCEPT ![watched] = EmptyTables]
      BY <1>1, <2>2, <2>3
      DEF Second!EndPacket, Second!clear_dictionaries, EmptyTables, Second!EmptyTables,
          CellId, Second!CellId, DictionaryId, Second!DictionaryId
    <3> QED
      BY <1>1, <1>7, <2>2, <3>1, <3>2 DEF EndPacket, Second!EndPacket
  <2>4. CASE watched \notin ResetPairs
    BY <1>1, <1>7, <2>2, <2>4 DEF EndPacket, Second!EndPacket
  <2> QED
    BY <2>3, <2>4
<1>8. CASE Crash
  <2>1. CASE phase = "packet"
    <3>1. ~AtEnd(pos) /\ ~HasHead
      BY <1>8, <2>1 DEF Crash
    <3>2. /\ ~Second!BeginMessage /\ ~Second!UnknownTemplate /\ ~Second!EndPacket
          /\ ~Second!DissectField /\ ~Second!EndMessage
      BY <1>1, <2>1, <3>1, SameHead, SamePosition
      DEF Second!BeginMessage, Second!UnknownTemplate, Second!EndPacket,
          Second!DissectField, Second!EndMessage
    <3>3. Second!Crash
      BY <1>1, <3>2 DEF Work2
    <3> QED
      BY <1>1, <1>8, <3>3 DEF Crash, Second!Crash
  <2>2. CASE phase = "fields"
    <3>1. pos.rest = "fault"
      BY <1>8, <2>2 DEF Crash
    <3>2. /\ ~Second!BeginMessage /\ ~Second!UnknownTemplate /\ ~Second!EndPacket
          /\ ~Second!DissectField /\ ~Second!EndMessage
      BY <1>1, <2>2, <3>1
      DEF Second!BeginMessage, Second!UnknownTemplate, Second!EndPacket,
          Second!DissectField, Second!EndMessage
    <3>3. Second!Crash
      BY <1>1, <3>2 DEF Work2
    <3> QED
      BY <1>1, <1>8, <3>3 DEF Crash, Second!Crash
  <2> QED
    BY <1>8, <2>1, <2>2 DEF Crash
<1> QED
  BY <1>1, <1>3, <1>4, <1>5, <1>6, <1>7, <1>8 DEF Work1

--------------------------------------------------------------------------------
(* At the start the dictionaries of both are empty and nobody works. *)
LEMMA TwinsInit == TwinInit => Twins
<1> SUFFICES ASSUME TwinInit PROVE Twins
  OBVIOUS
<1>1. watched \in Pairs /\ watched \in Conversation
  BY PairsAssumption DEF TwinInit
<1>2. TypeOK
  BY InitType DEF TwinInit
<1>3. tables[watched] = EmptyTables /\ tables2[watched] = EmptyTables
      /\ DOMAIN tables2 = Conversation
  BY <1>1 DEF TwinInit, Init, Second!Init, Conversation, Second!Conversation,
              EmptyTables, Second!EmptyTables, CellId, Second!CellId,
              DictionaryId, Second!DictionaryId
<1>4. phase = "idle" /\ phase2 = "idle" /\ pair2 = watched
      /\ joined = (watched \notin ResetPairs)
  BY DEF TwinInit, Init, Second!Init
<1> QED
  BY <1>1, <1>2, <1>3, <1>4 DEF Twins, Paired, Cleared, Alike

(* Each step keeps the twins alike. *)
LEMMA TwinsNext ==
  ASSUME Determinate, Twins, [TwinNext]_<<vars, vars2, watched, joined>>
  PROVE  Twins'
<1>1. [Next]_vars
  BY DEF TwinNext, Join, ReceiveAlone, WorkAlone, ReceiveTogether, WorkTogether,
         Work1, Next
<1>2. TypeOK'
  BY <1>1, NextType DEF Twins
<1>3. TypeOK /\ Paired /\ Cleared /\ Alike
  BY DEF Twins
<1>4. watched \in Conversation /\ DOMAIN tables2 = Conversation
      /\ DOMAIN tables = Conversation
  BY <1>3, PairsAssumption DEF Paired, TypeOK
<1>5. CASE Join
  BY <1>2, <1>3, <1>5
  DEF Twins, Join, Paired, Cleared, Alike, Together, vars, vars2
<1>6. CASE ReceiveAlone
  <2>1. /\ phase = "idle" /\ phase' = "packet" /\ tables' = tables
        /\ ~(joined /\ pair' = watched)
        /\ UNCHANGED <<watched, joined, tables2, phase2, pair2>>
    BY <1>6 DEF ReceiveAlone, ReceivePacket, Receive, vars2
  <2> QED
    BY <1>2, <1>3, <2>1 DEF Twins, Paired, Cleared, Alike, Together
<1>7. CASE WorkAlone
  <2>1. /\ phase # "idle" /\ pair' = pair
        /\ \A c \in Conversation \ {pair} : tables'[c] = tables[c]
        /\ phase' = "idle" /\ pair \in ResetPairs => tables'[pair] = EmptyTables
    BY <1>3, <1>7, WorkStaysInside DEF WorkAlone
  <2>2. ~Together
    BY <1>3, <1>7, <2>1 DEF WorkAlone, Paired
  <2>3. UNCHANGED <<watched, joined, tables2, phase2, pair2>>
    BY <1>7 DEF WorkAlone, vars2
  <2>4. CASE pair = watched
    BY <1>2, <1>3, <2>1, <2>2, <2>3, <2>4
    DEF Twins, Paired, Cleared, Alike, Together
  <2>5. CASE pair # watched
    <3>1. tables'[watched] = tables[watched]
      BY <1>4, <2>1, <2>5
    <3> QED
      BY <1>2, <1>3, <2>1, <2>2, <2>3, <2>5, <3>1
      DEF Twins, Paired, Cleared, Alike, Together
  <2> QED
    BY <2>4, <2>5
<1>8. CASE ReceiveTogether
  <2>1. /\ joined /\ phase = "idle" /\ phase' = "packet" /\ phase2' = "packet"
        /\ tables' = tables /\ tables2' = tables2
        /\ pair' = watched /\ pair2' = watched /\ pos2' = pos'
        /\ shown' = << >> /\ shown2' = << >>
        /\ UNCHANGED <<watched, joined>>
    BY <1>8 DEF ReceiveTogether, ReceivePacket, Receive, Second!ReceivePacket,
                Second!Receive
  <2> QED
    BY <1>2, <1>3, <2>1 DEF Twins, Paired, Cleared, Alike, Together
<1>9. CASE WorkTogether
  <2>1. Paired' /\ Alike'
    BY <1>9, WorkAgrees
  <2>2. /\ pair = watched /\ pair' = pair /\ watched' = watched
        /\ phase' = "idle" /\ pair \in ResetPairs => tables'[pair] = EmptyTables
    BY <1>3, <1>9, WorkStaysInside DEF WorkTogether, Together
  <2> QED
    BY <1>2, <2>1, <2>2 DEF Twins, Cleared
<1>10. CASE UNCHANGED <<vars, vars2, watched, joined>>
  BY <1>2, <1>3, <1>10
  DEF Twins, Paired, Cleared, Alike, Together, vars, vars2
<1> QED
  BY <1>5, <1>6, <1>7, <1>8, <1>9, <1>10 DEF TwinNext

(***************************************************************************)
(* What is shown of a conversation does not depend on the packets of       *)
(* others nor, where its flavor resets, on which of its own were dissected *)
(* before: for any templates, conversations and order, and packets that    *)
(* hold their header (TwinSpec), unless what dissect_ascii_delta leaves    *)
(* uninitialised may differ.                                               *)
(***************************************************************************)
THEOREM TwinsShowTheSame ==
  ASSUME Determinate
  PROVE  TwinSpec => []ShownIndependently
<1>1. ASSUME Twins PROVE ShownIndependently
  BY <1>1 DEF Twins, Paired, Alike, Together, ShownIndependently
<1>2. ASSUME Twins, [TwinNext]_<<vars, vars2, watched, joined>> PROVE Twins'
  BY <1>2, TwinsNext
<1> QED
  BY <1>1, <1>2, TwinsInit, PTL DEF TwinSpec

(***************************************************************************)
(* And between packets both hold the same previous values for it, so no    *)
(* later packet can tell them apart either (get_conversation_table and     *)
(* clear_dictionaries), under the same condition.                          *)
(***************************************************************************)
THEOREM TwinsRememberTheSame ==
  ASSUME Determinate
  PROVE  TwinSpec => []DictionariesIndependent
<1>1. ASSUME Twins PROVE DictionariesIndependent
  <2>1. watched \in Conversation
    BY <1>1, PairsAssumption DEF Twins, Paired
  <2> QED
    BY <1>1, <2>1, OwnTable DEF Twins, Alike, DictionariesIndependent
<1>2. ASSUME Twins, [TwinNext]_<<vars, vars2, watched, joined>> PROVE Twins'
  BY <1>2, TwinsNext
<1> QED
  BY <1>1, <1>2, TwinsInit, PTL DEF TwinSpec
================================================================================
