----------------------------- MODULE DissectTree ------------------------------
(***************************************************************************)
(* The dissection of nested templates: dissector_walk, dissect_descend,    *)
(* dissect_group, dissect_sequence and dissect_decimal of dissect.c, driven*)
(* by the message loop of dissect_fast, for one conversation.              *)
(*                                                                         *)
(* The C functions call each other; here their activations are the frames  *)
(* of a stack, the innermost first.                                        *)
(***************************************************************************)
EXTENDS Templates, FiniteSets

CONSTANTS
  Packet,      \* the payloads that may be captured, without any header
  Uninit,      \* what the uninitialised locals of a string delta may hold
  UninitValue, \* what an uninitialised FieldValue may hold
  MaxPackets   \* bound on the number of packets

ASSUME PacketAssumption == Packet \subseteq [bytes : Seq(Token), rest : {"none", "torn"}]
ASSUME UninitAssumption ==
  Uninit \subseteq Uninitialised /\ UninitValue \subseteq FieldValue
ASSUME MaxAssumption    == MaxPackets \in Nat

VARIABLES
  flavored,     \* the conversation is of flavor CME, UMDF or MOEX
  tab,          \* its dictionaries
  template_id,  \* the static variable of dissect_fast_bytes
  phase,        \* "idle", "packet" at a message boundary, "fields" within one,
                \* "crashed" when a bad pointer has ended the program
  outer,        \* the DissectPosition of dissect_fast, between messages
  stack,        \* the activations of dissector_walk and dissect_sequence
  dtree,        \* the data tree of the current message, in preorder
  packets       \* number of packets captured

vars == <<flavored, tab, template_id, phase, outer, stack, dtree, packets>>

(***************************************************************************)
(* An activation: the nodes still to walk, the position it works on and    *)
(* the data node it fills, 0 for the message.  own says that the position  *)
(* is not shared with the caller's, loop that it is dissect_sequence.  due *)
(* is history: the presence map bits the fields so far are entitled to.    *)
(***************************************************************************)
Frame ==
  [todo : Seq(Node), pos : DissectPosition, at : Nat, own : BOOLEAN,
   loop : BOOLEAN, due : Nat]

(* A data node; its window is what nbytes measures from start.             *)
DataNode ==
  [node : Node, depth : Nat, start : Nat, end : Nat, fdata : FieldData]

(* Every activation stays in its presence map and in the packet: only with *)
(* the flavors that have a header can it be outside, and none goes on in   *)
(* memory that may not be read.  There are some exactly within a message.  *)
TypeOK ==
  /\ flavored \in BOOLEAN
  /\ tab \in ConversationTables
  /\ template_id \in Nat
  /\ phase \in {"idle", "packet", "fields", "crashed"}
  /\ outer \in DissectPosition
  /\ stack \in Seq(Frame)
  /\ dtree \in Seq(DataNode)
  /\ packets \in Nat
  /\ phase = "fields" <=> stack # << >>
  /\ outer.rest # "fault" /\ (outer.rest = "outside" => flavored)
  /\ \A i \in DOMAIN stack :
       /\ stack[i].pos.rest \in {"outside", "fault"} => flavored
       /\ stack[i].pos.rest = "fault" => Head(stack).pos.rest = "fault"

Nowhere ==
  [bytes |-> << >>, rest |-> "none", offset |-> 0, pmap |-> << >>, pmap_idx |-> 0]

Init ==
  /\ flavored \in BOOLEAN
  /\ tab = EmptyTables
  /\ template_id = 0
  /\ phase = "idle"
  /\ outer = Nowhere
  /\ stack = << >>
  /\ dtree = << >>
  /\ packets = 0

top  == Head(stack)
node == Head(top.todo)

(* dissect_fast sets up the position for a packet not dissected before. *)
Receive(bytes, rest) ==
  /\ phase = "idle" /\ packets < MaxPackets
  /\ outer' = [Nowhere EXCEPT !.bytes = bytes, !.rest = rest]
  /\ phase' = "packet"
  /\ packets' = packets + 1
  /\ dtree' = << >>
  /\ UNCHANGED <<flavored, tab, template_id, stack>>

(* Behind the header, if the flavor has one. *)
ReceivePacket == \E p \in Packet : Receive(p.bytes, p.rest)

(* A packet shorter than its header: what follows it in memory. *)
ReceiveShort == flavored /\ \E p \in Packet : Receive(p.bytes, "outside")

(* The head of dissect_fast_bytes can be read. *)
HasHead == ~NoEntity(outer) /\ HeadPosition(MessageHead(outer)).rest # "fault"

(* It gives an id that has a template. *)
BeginMessage ==
  /\ phase = "packet" /\ HasHead
  /\ LET h == MessageHead(outer) IN
       /\ template_id' = HeadId(h, template_id)
       /\ template_id' \in Tid
       /\ stack' = << [todo |-> Template[template_id'], pos |-> HeadPosition(h),
                       at |-> 0, own |-> TRUE, loop |-> FALSE, due |-> 1] >>
  /\ phase' = "fields"
  /\ dtree' = << >>
  /\ UNCHANGED <<flavored, tab, outer, packets>>

(* Error D9: the template id is kept and the rest of the packet dropped. *)
UnknownTemplate ==
  /\ phase = "packet" /\ HasHead
  /\ LET h == MessageHead(outer) IN
       /\ template_id' = HeadId(h, template_id)
       /\ template_id' \notin Tid
       /\ outer' = [HeadPosition(h) EXCEPT !.offset = Len(outer.bytes), !.rest = "none"]
  /\ dtree' = << >>
  /\ UNCHANGED <<flavored, tab, phase, stack, packets>>

(* A message that begins with a presence map without a stop bit has no     *)
(* data node, but is asked for it; or memory was read that may not be.     *)
Crash ==
  /\ \/ phase = "packet" /\ ~AtEnd(outer) /\ ~HasHead
     \/ phase = "fields" /\ top.pos.rest = "fault"
  /\ phase' = "crashed"
  /\ stack' = << >>
  /\ UNCHANGED <<flavored, tab, template_id, outer, dtree, packets>>

--------------------------------------------------------------------------------
(* Decimals.                                                               *)

(***************************************************************************)
(* With delta, dissect_int_op is called on the decimal itself, twice, each *)
(* time with a FieldData of its own that nothing initialises; what it      *)
(* reports as status is dropped.                                           *)
(***************************************************************************)
DecimalDelta(ftype, s, value) ==
  LET local == BlankField("Exists")
      blank == [local EXCEPT !.value = value]
      expt  == IntDelta(ftype, To(s, s.pos, blank))
      mant  == IntDelta(ftype, To(s, expt.s.pos, blank))
  IN  To(s, mant.s.pos,
         [s.fdata EXCEPT
            !.value.expt = Wrap("Int32", expt.delta + expt.s.fdata.value.expt),
            !.value.num  = Wrap("Int64", mant.delta + mant.s.fdata.value.num)])

(***************************************************************************)
(* Otherwise both children are dissected on the decimal's data node, each  *)
(* from scratch, so that the status is the mantissa's.  The exponent then  *)
(* overwrites the pointer to an error message.                             *)
(***************************************************************************)
Joined(expt, mant) ==
  [mant EXCEPT !.fdata =
     [status |-> @.status, err |-> 0,
      value |-> [@.value EXCEPT !.expt = expt.fdata.value.num]]]

WithMantissa(n, expt, uninit) ==
  Joined(expt, dissect_value(mantissa(n), expt.pos, expt.tab, uninit))

DecimalChildren(n, s, uninit) ==
  WithMantissa(n, dissect_value(exponent(n), s.pos, s.tab, uninit), uninit)

dissect_decimal(n, s, uninit, value) ==
  Store(FType[n], IF FType[n].op = "Delta"
                  THEN DecimalDelta(FType[n], s, value)
                  ELSE DecimalChildren(n, s, uninit))

(* dissect_optional asks the first child of a node without operator. *)
Optional(n, s) ==
  dissect_optional(IF FType[n].op = "None" /\ n \notin ScalarNode
                   THEN FType[Children[n][1]] ELSE FType[n], s)

(* The beginning of dissect_value: whether the field is there at all. *)
Presence(n, pos) ==
  LET begin == [pos |-> pos, tab |-> tab,
                fdata |-> BlankField(IF FType[n].mandatory THEN "Exists" ELSE "Empty")]
  IN  IF FType[n].mandatory THEN begin ELSE Optional(n, begin)

(* The rest of it for a decimal. *)
AfterOperator(n, op, uninit, value) ==
  IF op.operator_used THEN op.s ELSE dissect_decimal(n, op.s, uninit, value)

DecimalValue(n, s, uninit, value) ==
  IF s.fdata.status = "Exists"
  THEN AfterOperator(n, ApplyOperator(FType[n], s), uninit, value)
  ELSE s

(* The bits template.c grants a scalar or decimal at pos: for a decimal    *)
(* without operator those of its children, as far as they are dissected.   *)
bits(ftype) == IF requires_pmap_bit(ftype) THEN 1 ELSE 0

Entitled(n, pos) ==
  IF n \in DecimalNode /\ FType[n].op = "None"
  THEN bits(exponent(n)) + IF Presence(n, pos).fdata.status = "Exists"
                           THEN bits(mantissa(n)) ELSE 0
  ELSE bits(FType[n])

--------------------------------------------------------------------------------
(* The walk.                                                               *)

AddNode(start, end, fdata) ==
  dtree' = Append(dtree, [node |-> node, depth |-> Len(stack),
                          start |-> start, end |-> end, fdata |-> fdata])

(* The innermost activation goes on with its next node. *)
Advance(pos, due) ==
  stack' = << [top EXCEPT !.todo = Tail(@), !.pos = pos, !.due = due] >> \o Tail(stack)

(* It calls another one, which fills the node that AddNode adds. *)
Call(frame, pos, due) ==
  stack' = << frame, [top EXCEPT !.todo = Tail(@), !.pos = pos, !.due = due] >>
           \o Tail(stack)

Walking == phase = "fields" /\ top.pos.rest # "fault" /\ top.todo # << >>

(* dissect_sequence leaves its loop when bytes or presence map run out. *)
Exhausted == AtEnd(top.pos) \/ top.pos.pmap_idx = Len(top.pos.pmap)

Descending == Walking /\ ~(top.loop /\ Exhausted)

(* A node without an activation of its own has been dissected. *)
Dissected(s) ==
  /\ tab' = s.tab
  /\ Advance(s.pos, top.due + Entitled(node, top.pos))
  /\ AddNode(top.pos.offset, s.pos.offset, s.fdata)

DissectScalar ==
  /\ Descending /\ node \in ScalarNode
  /\ \E uninit \in Uninit :
       Dissected(dissect_value(FType[node], top.pos, tab, uninit))
  /\ UNCHANGED <<flavored, template_id, phase, outer, packets>>

DissectDecimal ==
  /\ Descending /\ node \in DecimalNode
  /\ \E uninit \in Uninit, value \in UninitValue :
       Dissected(DecimalValue(node, Presence(node, top.pos), uninit, value))
  /\ UNCHANGED <<flavored, template_id, phase, outer, packets>>

(* The presence map bit of an optional group. *)
GroupExists == FType[node].mandatory \/ dissect_peek_pmap(top.pos)

AfterGroupBit ==
  IF FType[node].mandatory THEN top.pos ELSE dissect_shift_pmap(top.pos)

(* dissect_group, up to its walk, on a presence map of its own or not. *)
EnterGroup ==
  /\ Descending /\ node \in GroupNode /\ GroupExists
  /\ LET own    == pmap_exists(node)
         nested == IF own THEN basic_dissect_pmap(AfterGroupBit) ELSE AfterGroupBit
         due    == top.due + bits(FType[node])
     IN  Call([todo |-> Children[node], pos |-> nested, at |-> Len(dtree) + 1,
               own |-> own, loop |-> FALSE, due |-> IF own THEN 0 ELSE due],
              AfterGroupBit, due)
  /\ AddNode(top.pos.offset, top.pos.offset, BlankField("Exists"))
  /\ UNCHANGED <<flavored, tab, template_id, phase, outer, packets>>

SkipGroup ==
  /\ Descending /\ node \in GroupNode /\ ~GroupExists
  /\ Advance(AfterGroupBit, top.due + bits(FType[node]))
  /\ AddNode(top.pos.offset, top.pos.offset, BlankField("Empty"))
  /\ UNCHANGED <<flavored, tab, template_id, phase, outer, packets>>

(* dissect_sequence up to its loop, if the sequence is there.              *)
SequenceLength(s, uninit) ==
  IF s.fdata.status = "Exists"
  THEN dissect_value(FType[length_tnode(node)], s.pos, s.tab, uninit)
  ELSE s

(* Mutant: the last element is left out. *)
ElementsButOne(n, length) == [i \in 1..(length - 1) |-> group_tnode(n)]

(* The loop over the elements. *)
Elements(n, length) == [i \in 1..length |-> group_tnode(n)]

EnterLoop(s, exists) ==
  LET due == top.due + bits(FType[length_tnode(node)])
      elements == IF exists THEN Elements(node, s.fdata.value.num) ELSE << >>
  IN  /\ tab' = s.tab
      /\ AddNode(top.pos.offset, s.pos.offset, s.fdata)
      /\ Call([todo |-> elements, pos |-> s.pos, at |-> Len(dtree) + 1,
               own |-> FALSE, loop |-> TRUE, due |-> due],
              s.pos, due)

DissectSequence ==
  /\ Descending /\ node \in SequenceNode
  /\ \E uninit \in Uninit :
       LET begin == Presence(node, top.pos)
       IN  EnterLoop(SequenceLength(begin, uninit), begin.fdata.status = "Exists")
  /\ UNCHANGED <<flavored, template_id, phase, outer, packets>>

Bail ==
  /\ Walking /\ top.loop /\ Exhausted
  /\ stack' = << [top EXCEPT !.todo = << >>] >> \o Tail(stack)
  /\ UNCHANGED <<flavored, tab, template_id, phase, outer, dtree, packets>>

--------------------------------------------------------------------------------
caller == Head(Tail(stack))

(* Mutant: the offset of a nested position is not given back. *)
ReturnedShort ==
  IF top.own
  THEN caller
  ELSE [caller EXCEPT !.pos = top.pos, !.due = top.due]

(* A position of its own gives back its offset, a shared one is the same. *)
Returned ==
  IF top.own
  THEN [caller EXCEPT !.pos.offset = top.pos.offset]
  ELSE [caller EXCEPT !.pos = top.pos, !.due = top.due]

(* The end of a group or sequence; dissect_value then sets its window. *)
Return ==
  /\ phase = "fields" /\ top.pos.rest # "fault" /\ top.todo = << >> /\ Len(stack) > 1
  /\ stack' = << Returned >> \o Tail(Tail(stack))
  /\ dtree' = [dtree EXCEPT ![top.at].end = top.pos.offset]
  /\ UNCHANGED <<flavored, tab, template_id, phase, outer, packets>>

EndMessage ==
  /\ phase = "fields" /\ top.pos.rest # "fault" /\ top.todo = << >> /\ Len(stack) = 1
  /\ outer' = top.pos
  /\ stack' = << >>
  /\ phase' = "packet"
  /\ UNCHANGED <<flavored, tab, template_id, dtree, packets>>

(* The end of the loop; the exchange flavors reset their dictionaries. *)
EndPacket ==
  /\ phase = "packet" /\ AtEnd(outer)
  /\ phase' = "idle"
  /\ tab' = IF flavored THEN EmptyTables ELSE tab
  /\ UNCHANGED <<flavored, template_id, outer, stack, dtree, packets>>

Dissect ==
  \/ BeginMessage \/ UnknownTemplate
  \/ DissectScalar \/ DissectDecimal \/ DissectSequence
  \/ EnterGroup \/ SkipGroup \/ Bail \/ Return
  \/ EndMessage \/ EndPacket \/ Crash

(* The capture ends, or the program has. *)
Stop ==
  /\ (phase = "idle" /\ packets = MaxPackets) \/ phase = "crashed"
  /\ UNCHANGED vars

Next == ReceivePacket \/ ReceiveShort \/ Dissect \/ Stop

Spec == Init /\ [][Next]_vars

(* Wireshark calls the dissector and waits until it returns: no step of    *)
(* another part comes in between, so it keeps taking steps until it does   *)
(* return or the program has ended.                                        *)
Done == phase \in {"idle", "crashed"}

FairSpec == Spec /\ ([]<>Done \/ []<><<TRUE>>_vars)

--------------------------------------------------------------------------------
MinOf(a, b) == IF a <= b THEN a ELSE b

(* Nodes at which dissect.c and template.c are known to disagree: tail, an *)
(* optional node asked twice about its constant first child, a decimal     *)
(* with an operator of its own next to those of its children, and one with *)
(* an operator for integers or strings, which parse_decimal lets pass.     *)
OutOfStep(n) ==
  \/ FType[n].op = "Tail"
  \/ n \in DecimalNode /\ ~check_valid_operator(FType[n])
  \/ /\ n \in DecimalNode \cup SequenceNode
     /\ ~FType[n].mandatory /\ FType[n].op = "None"
     /\ FType[Children[n][1]].op = "Constant"
  \/ /\ n \in DecimalNode /\ FType[n].op # "None"
     /\ exponent(n).op # "None" \/ mantissa(n).op # "None"

(***************************************************************************)
(* Every presence map of a message, nested ones included, is in step with  *)
(* template.c: where an activation stands, it has consumed one bit for     *)
(* each field so far that requires_pmap_bit grants one, whatever groups    *)
(* and sequences were walked in between.                                   *)
(***************************************************************************)
NestedPmapAgreement ==
  (\A i \in DOMAIN dtree : ~OutOfStep(dtree[i].node)) =>
    \A i \in DOMAIN stack :
      (i = 1 \/ stack[i - 1].own) =>
        stack[i].pos.pmap_idx = MinOf(stack[i].due, Len(stack[i].pos.pmap))

(***************************************************************************)
(* A group for which fixup_walk_template found no need of a presence map   *)
(* takes no bit of its caller's: dissect_group may share the position.     *)
(***************************************************************************)
SharedMapUntouched ==
  \A i \in 1..(Len(stack) - 1) :
    (~stack[i].own /\ ~stack[i].loop) =>
      stack[i].pos.pmap_idx = stack[i + 1].pos.pmap_idx

(* Data node j is somewhere below i: dtree is in preorder. *)
Below(i, j) ==
  i < j /\ \A k \in (i + 1)..j : dtree[i].depth < dtree[k].depth

(***************************************************************************)
(* The windows that generate the highlighting of a message: a node's lies  *)
(* within that of the node it belongs to, and begins no earlier than the   *)
(* end of any node before it: no byte belongs to two fields.               *)
(***************************************************************************)
WindowsNest ==
  phase \in {"idle", "packet"} =>
    \A i, j \in DOMAIN dtree :
      i < j => IF Below(i, j)
               THEN dtree[i].start <= dtree[j].start /\ dtree[j].end <= dtree[i].end
               ELSE dtree[i].end <= dtree[j].start

(* The data nodes that activation i has added itself, and the place of one *)
(* among them.                                                             *)
Added(i) ==
  {j \in (stack[i].at + 1)..Len(dtree) : dtree[j].depth = Len(stack) - i + 1}

Place(i, j) == Cardinality({k \in Added(i) : k <= j})

(* They are in order what the nodes ask for. *)
Mirrors(nodes) ==
  /\ Cardinality(Added(1)) = Len(nodes)
  /\ \A j \in Added(1) : dtree[j].node = nodes[Place(1, j)]

(***************************************************************************)
(* display_fields walks a template's nodes and the data nodes side by side:*)
(* when an activation ends, it has added exactly one data node for each of *)
(* its template's nodes, or for a sequence as many as the number shown for *)
(* it says unless bytes or presence map have run out.                      *)
(***************************************************************************)
TreeMirrorsTemplate ==
  (phase = "fields" /\ top.todo = << >>) =>
    LET n      == dtree[top.at].node
        length == dtree[top.at].fdata.value.num
    IN  IF top.at = 0 THEN Mirrors(Template[template_id])
        ELSE IF n \in GroupNode THEN Mirrors(Children[n])
        ELSE /\ \A j \in Added(1) : dtree[j].node = group_tnode(n)
             /\ Cardinality(Added(1)) <= length
             /\ Cardinality(Added(1)) = length \/ Exhausted

(***************************************************************************)
(* The loops end for every packet, wherever it is cut and whatever it says *)
(* of itself: a message, however deep or unknown, takes some of its bytes, *)
(* and the elements of a sequence come to an end where only the announced  *)
(* length bounds them, because what is left holds no stop bit.  So         *)
(* the dissector returns, or has met what it does not survive:             *)
(* ~Done ~> Done, in the form that TLC checks without a tableau.           *)
(***************************************************************************)
PacketCompletes == []<>Done
================================================================================
