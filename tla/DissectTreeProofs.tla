--------------------------- MODULE DissectTreeProofs ---------------------------
(***************************************************************************)
(* Proofs about DissectTree, for any templates, packets and depth of       *)
(* nesting.                                                                *)
(***************************************************************************)
EXTENDS DissectTree, DissectFieldsProofs, FiniteSetTheorems

(***************************************************************************)
(* The stack after its innermost frame was replaced, another one was put   *)
(* before it, or two were replaced by one.                                 *)
(***************************************************************************)
LEMMA Replaced ==
  ASSUME NEW S, NEW s \in Seq(S), s # << >>, NEW f \in S
  PROVE  LET r == <<f>> \o Tail(s) IN
         /\ r \in Seq(S) /\ r # << >> /\ Len(r) = Len(s)
         /\ r[1] = f /\ \A i \in 2..Len(s) : r[i] = s[i]
OBVIOUS

LEMMA Pushed ==
  ASSUME NEW S, NEW s \in Seq(S), s # << >>, NEW f \in S, NEW g \in S
  PROVE  LET r == <<f, g>> \o Tail(s) IN
         /\ r \in Seq(S) /\ r # << >> /\ Len(r) = Len(s) + 1
         /\ r[1] = f /\ r[2] = g /\ \A i \in 3..(Len(s) + 1) : r[i] = s[i - 1]
OBVIOUS

LEMMA Popped ==
  ASSUME NEW S, NEW s \in Seq(S), Len(s) > 1, NEW f \in S
  PROVE  LET r == <<f>> \o Tail(Tail(s)) IN
         /\ r \in Seq(S) /\ r # << >> /\ Len(r) = Len(s) - 1
         /\ r[1] = f /\ \A i \in 2..(Len(s) - 1) : r[i] = s[i + 1]
<1> DEFINE t == Tail(s)
<1>1. t \in Seq(S) /\ Len(t) = Len(s) - 1 /\ \A i \in 1..Len(t) : t[i] = s[i + 1]
  OBVIOUS
<1> HIDE DEF t
<1>2. t # << >>
  BY <1>1
<1>3. LET r == <<f>> \o Tail(t) IN
      /\ r \in Seq(S) /\ r # << >> /\ Len(r) = Len(t)
      /\ r[1] = f /\ \A i \in 2..Len(t) : r[i] = t[i]
  BY <1>1, <1>2, Replaced
<1> QED
  BY <1>1, <1>3 DEF t

(* A sequence with one element replaced. *)
LEMMA Updated ==
  ASSUME NEW S, NEW s \in Seq(S), NEW k, NEW f, k \in DOMAIN s => f \in S
  PROVE  LET r == [s EXCEPT ![k] = f] IN
         /\ r \in Seq(S) /\ Len(r) = Len(s)
         /\ \A i \in 1..Len(s) : r[i] = IF i = k THEN f ELSE s[i]
<1> DEFINE r == [s EXCEPT ![k] = f]
<1>1. DOMAIN s = 1..Len(s) /\ Len(s) \in Nat /\ DOMAIN r = DOMAIN s
  OBVIOUS
<1>2. \A i \in 1..Len(s) : r[i] = IF i = k THEN f ELSE s[i]
  BY <1>1
<1>3. \A i \in 1..Len(s) : r[i] \in S
  BY <1>1, <1>2
<1>4. r = [i \in 1..Len(s) |-> r[i]]
  BY <1>1
<1> HIDE DEF r
<1>5. r \in Seq(S) /\ Len(r) = Len(s)
  BY <1>1, <1>3, <1>4
<1> QED
  BY <1>2, <1>5 DEF r

(***************************************************************************)
(* q is p moved forward, and in Takes with n bits of the presence map      *)
(* taken, as far as there are any.                                         *)
(***************************************************************************)
Forward(p, q) ==
  /\ q \in DissectPosition
  /\ q.bytes = p.bytes /\ p.offset <= q.offset /\ q.pmap = p.pmap
  /\ q.rest = p.rest \/ (p.rest = "outside" /\ q.rest = "fault")

Takes(p, q, n) ==
  Forward(p, q) /\ q.pmap_idx = MinOf(p.pmap_idx + n, Len(p.pmap))

LEMMA TookTakes ==
  ASSUME NEW p \in DissectPosition, NEW q \in DissectPosition, NEW n \in {0, 1},
         Took(p, q, n)
  PROVE  Takes(p, q, n)
BY DEF Takes, Forward, Took, MinOf, DissectPosition

(* Bits taken one after the other add up. *)
LEMMA TakesMore ==
  ASSUME NEW p \in DissectPosition, NEW q, NEW r, NEW a \in Nat, NEW b \in Nat,
         Takes(p, q, a), Takes(q, r, b)
  PROVE  Takes(p, r, a + b)
BY DEF Takes, Forward, MinOf, DissectPosition

LEMMA TakesNothing ==
  ASSUME NEW p \in DissectPosition
  PROVE  /\ Takes(p, p, 0)
         /\ \A q : Takes(p, q, 0) => q.pmap_idx = p.pmap_idx
BY DEF Takes, Forward, MinOf, DissectPosition

(* A position is in step when it has taken the bits that are due. *)
InStep(p, due) == p.pmap_idx = MinOf(due, Len(p.pmap))

LEMMA TakesInStep ==
  ASSUME NEW p \in DissectPosition, NEW q, NEW n \in Nat, NEW due \in Nat,
         Takes(p, q, n), InStep(p, due)
  PROVE  InStep(q, due + n)
BY DEF Takes, Forward, InStep, MinOf, DissectPosition

(***************************************************************************)
(* fixup_walk_template is defined by recursion over the tree.  As what it  *)
(* asks for is monotone in the answers for the children, its equation has  *)
(* a solution, whatever the tree: the least set of nodes closed under it.  *)
(***************************************************************************)
LEMMA FixupEquation ==
  ASSUME NEW n \in Node
  PROVE  /\ fixup_walk_template[n] \in BOOLEAN
         /\ fixup_walk_template[n] <=>
              \E c \in NodesOf(Children[n]) :
                requires_pmap_bit(FType[c]) \/ (c \notin GroupNode /\ fixup_walk_template[c])
<1> DEFINE Asks(X) == {k \in Node : \E c \in NodesOf(Children[k]) :
                         requires_pmap_bit(FType[c]) \/ (c \notin GroupNode /\ c \in X)}
           Least == {k \in Node : \A X \in SUBSET Node : Asks(X) \subseteq X => k \in X}
           Solution == [k \in Node |-> k \in Least]
<1>1. ASSUME NEW k \in Node PROVE NodesOf(Children[k]) \subseteq Node
  BY NodeAssumption DEF NodesOf
<1>2. ASSUME NEW X \in SUBSET Node, NEW Y \in SUBSET Node, X \subseteq Y
      PROVE  Asks(X) \subseteq Asks(Y)
  BY <1>2
<1>3. Asks(Least) \subseteq Least
  <2> SUFFICES ASSUME NEW k \in Asks(Least), NEW X \in SUBSET Node, Asks(X) \subseteq X
               PROVE  k \in X
    OBVIOUS
  <2>1. Least \subseteq X /\ Least \in SUBSET Node
    OBVIOUS
  <2> HIDE DEF Least
  <2>2. k \in Asks(X)
    BY <1>2, <2>1
  <2> HIDE DEF Asks
  <2> QED
    BY <2>2
<1>4. Least \subseteq Asks(Least)
  <2>1. Asks(Least) \in SUBSET Node /\ Least \in SUBSET Node
    OBVIOUS
  <2>2. Asks(Asks(Least)) \subseteq Asks(Least)
    <3> HIDE DEF Least
    <3> QED
      BY <1>2, <1>3, <2>1
  <2> DEFINE Z == Asks(Least)
  <2>3. Asks(Z) \subseteq Z /\ Z \in SUBSET Node
    BY <2>1, <2>2
  <2> HIDE DEF Z
  <2>4. Least \subseteq Z
    BY <2>3
  <2> QED
    BY <2>4 DEF Z
<1>5. \A k \in Node : k \in Least <=> k \in Asks(Least)
  <2> HIDE DEF Least, Asks
  <2> QED
    BY <1>3, <1>4
<1> DEFINE Solves(f) ==
      f = [k \in Node |->
             \E c \in NodesOf(Children[k]) :
               requires_pmap_bit(FType[c]) \/ (c \notin GroupNode /\ f[c])]
<1>6. Solves(Solution)
  <2>1. ASSUME NEW k \in Node
        PROVE  (k \in Least) =
                 \E c \in NodesOf(Children[k]) :
                   requires_pmap_bit(FType[c]) \/ (c \notin GroupNode /\ Solution[c])
    <3>1. \A c \in NodesOf(Children[k]) : Solution[c] = (c \in Least)
      <4> HIDE DEF Least
      <4> QED
        BY <1>1
    <3> HIDE DEF Solution
    <3>2. k \in Asks(Least) <=>
            \E c \in NodesOf(Children[k]) :
              requires_pmap_bit(FType[c]) \/ (c \notin GroupNode /\ Solution[c])
      <4> HIDE DEF Least
      <4> QED
        BY <3>1
    <3> DEFINE B == \E c \in NodesOf(Children[k]) :
                      requires_pmap_bit(FType[c]) \/ (c \notin GroupNode /\ Solution[c])
    <3>3. k \in Least <=> B
      <4> HIDE DEF Least, Asks, B
      <4>1. k \in Asks(Least) <=> B
        BY <3>2 DEF B
      <4> QED
        BY <1>5, <4>1
    <3>4. B \in BOOLEAN
      OBVIOUS
    <3>5. (k \in Least) = B
      <4> HIDE DEF Least, B
      <4> QED
        BY <3>3, <3>4
    <3> QED
      BY <3>5
  <2> HIDE DEF Least
  <2> QED
    BY <2>1, Zenon
<1> HIDE DEF Solution
<1>7. Solves(CHOOSE f : Solves(f))
  <2> HIDE DEF Solves
  <2> QED
    BY <1>6
<1>8. fixup_walk_template = CHOOSE f : Solves(f)
  BY DEF fixup_walk_template
<1>9. Solves(fixup_walk_template)
  <2> HIDE DEF Solves
  <2> QED
    BY <1>7, <1>8
<1> DEFINE B == \E c \in NodesOf(Children[n]) :
                  requires_pmap_bit(FType[c]) \/ (c \notin GroupNode /\ fixup_walk_template[c])
<1>10. fixup_walk_template[n] = B
  BY <1>9, Zenon
<1>11. B \in BOOLEAN
  OBVIOUS
<1>12. fixup_walk_template[n] \in BOOLEAN /\ (fixup_walk_template[n] <=> B)
  <2> HIDE DEF B
  <2> QED
    BY <1>10, <1>11
<1> QED
  BY <1>12

--------------------------------------------------------------------------------
(* What every node and its children are.                                   *)

LEMMA NodeTypes ==
  ASSUME NEW n \in Node
  PROVE  /\ FType[n] \in FieldTypes
         /\ n \in ScalarNode \cup DecimalNode \cup GroupNode \cup SequenceNode
         /\ Children[n] \in Seq(Node)
BY NodeAssumption DEF NodeType, ScalarNode, DecimalNode, GroupNode, SequenceNode

(* A scalar is dissected by dissect_value as it stands.                    *)
LEMMA ScalarTypes ==
  ASSUME NEW n \in ScalarNode
  PROVE  /\ n \in Node /\ FType[n] \in FieldTypes /\ FType[n].type # "Group"
         /\ check_valid_operator(FType[n])
         /\ n \notin DecimalNode \cup GroupNode \cup SequenceNode
BY NodeAssumption DEF ScalarNode, DecimalNode, GroupNode, SequenceNode, ScalarType,
   IntegerType, UnsignedType, SignedType

(* The first child of a decimal or sequence is an integer, and so is the   *)
(* second of a decimal.                                                    *)
LEMMA ChildTypes ==
  ASSUME NEW n \in DecimalNode \cup SequenceNode
  PROVE  /\ n \in Node /\ n \notin ScalarNode \cup GroupNode
         /\ Children[n][1] \in ScalarNode
         /\ FType[Children[n][1]].mandatory = FType[n].mandatory
         /\ FType[Children[n][1]].op # "Tail"
         /\ n \in DecimalNode => Children[n][2] \in ScalarNode /\ mantissa(n).op # "Tail"
         /\ n \in SequenceNode => n \notin DecimalNode /\ FType[n].op = "None"
         /\ Children[n][1] \in NodesOf(Children[n]) /\ Children[n][2] \in NodesOf(Children[n])
<1>1. n \in Node /\ n \notin ScalarNode \cup GroupNode
  BY DEF DecimalNode, SequenceNode, ScalarNode, GroupNode, ScalarType, IntegerType,
         UnsignedType, SignedType
<1>2. CASE n \in DecimalNode
  <2>1. /\ Children[n] \in ScalarNode \X ScalarNode
        /\ FType[Children[n][1]].type = "Int32"
        /\ FType[Children[n][1]].mandatory = FType[n].mandatory
        /\ mantissa(n).type = "Int64"
    BY <1>2, NodeAssumption DEF DecimalAssumption, exponent, mantissa
  <2>2. Children[n][1] \in ScalarNode /\ Children[n][2] \in ScalarNode
    BY <2>1
  <2>3. FType[Children[n][1]].op # "Tail" /\ mantissa(n).op # "Tail"
    BY <2>1, <2>2, ScalarTypes
       DEF check_valid_operator, mantissa, IntegerType, SignedType
  <2>4. n \notin SequenceNode
    BY <1>2 DEF DecimalNode, SequenceNode
  <2>5. DOMAIN Children[n] = 1..2
    BY <2>1
  <2> QED
    BY <1>1, <2>1, <2>2, <2>3, <2>4, <2>5 DEF NodesOf
<1>3. CASE n \in SequenceNode
  <2>1. /\ Children[n] \in ScalarNode \X GroupNode
        /\ FType[Children[n][1]].type = "UInt32"
        /\ FType[Children[n][1]].mandatory = FType[n].mandatory
        /\ FType[n].op = "None"
    BY <1>3, NodeAssumption DEF SequenceAssumption, length_tnode
  <2>2. Children[n][1] \in ScalarNode
    BY <2>1
  <2>3. FType[Children[n][1]].op # "Tail"
    BY <2>1, <2>2, ScalarTypes DEF check_valid_operator, IntegerType, UnsignedType
  <2>4. n \notin DecimalNode
    BY <1>3 DEF DecimalNode, SequenceNode
  <2>5. DOMAIN Children[n] = 1..2
    BY <2>1
  <2> QED
    BY <1>1, <2>1, <2>2, <2>3, <2>4, <2>5 DEF NodesOf
<1> QED
  BY <1>2, <1>3

(***************************************************************************)
(* No bit of the presence map belongs to n or to anything below it that    *)
(* would be walked on the same map: what fixup_walk_template asks for when *)
(* it grants the group of n no map of its own.                             *)
(***************************************************************************)
NeedsNoBit(n) ==
  /\ ~requires_pmap_bit(FType[n])
  /\ n \in GroupNode \/ ~fixup_walk_template[n]

LEMMA NeedsNoBitBelow ==
  ASSUME NEW n \in Node, ~fixup_walk_template[n], NEW c \in NodesOf(Children[n])
  PROVE  NeedsNoBit(c)
BY FixupEquation DEF NeedsNoBit

(***************************************************************************)
(* A stack t that a function called on s leaves, n bits later.             *)
(***************************************************************************)
Moves(s, t, n) == t \in Stack /\ Takes(s.pos, t.pos, n)

LEMMA ResultMoves ==
  ASSUME NEW s \in Stack, NEW t, NEW n \in {0, 1}, Result(s, t, n)
  PROVE  Moves(s, t, n)
<1>1. t \in Stack /\ s.pos \in DissectPosition /\ t.pos \in DissectPosition
  BY DEF Result, Stack
<1> QED
  BY <1>1, TookTakes DEF Moves, Result

LEMMA MovesMore ==
  ASSUME NEW s \in Stack, NEW t, NEW r, NEW a \in Nat, NEW b \in Nat,
         Moves(s, t, a), Moves(t, r, b)
  PROVE  Moves(s, r, a + b)
<1>1. s.pos \in DissectPosition
  BY DEF Stack
<1> QED
  BY <1>1, TakesMore DEF Moves

(* Storing a value takes no bit.                                           *)
LEMMA StoreMoves ==
  ASSUME NEW s \in Stack, NEW t, NEW ftype \in FieldTypes, NEW n \in Nat, Moves(s, t, n)
  PROVE  Moves(s, Store(ftype, t), n)
<1>1. t \in Stack /\ Result(t, t, 0)
  BY TookNothing DEF Moves, Result, Stack
<1>2. Moves(t, Store(ftype, t), 0)
  BY <1>1, StoreResult, ResultMoves
<1> QED
  BY <1>2, MovesMore

--------------------------------------------------------------------------------
(* Decimals and sequences.                                                 *)

(* Two deltas read from the packet take no bit.                            *)
LEMMA DecimalDeltaMoves ==
  ASSUME NEW ftype \in FieldTypes, NEW s \in Stack, NEW value \in FieldValue
  PROVE  Moves(s, DecimalDelta(ftype, s, value), 0)
<1> DEFINE local == BlankField("Exists")
           blank == [local EXCEPT !.value = value]
           s1    == To(s, s.pos, blank)
           expt  == IntDelta(ftype, s1)
           s2    == To(s, expt.s.pos, blank)
           mant  == IntDelta(ftype, s2)
           fdata == [s.fdata EXCEPT
                       !.value.expt = Wrap("Int32", expt.delta + expt.s.fdata.value.expt),
                       !.value.num  = Wrap("Int64", mant.delta + mant.s.fdata.value.num)]
<1>1. s.pos \in DissectPosition /\ s.fdata \in FieldData
  BY DEF Stack
<1>2. blank \in FieldData
  BY DEF BlankField, FieldData, FieldStatus
<1> HIDE DEF blank
<1>3. Result(s, s1, 0) /\ s1 \in Stack
  BY <1>1, <1>2, TookNothing, ToResult DEF Result
<1>4. Result(s1, expt.s, 0) /\ expt.delta \in Int
  <2> HIDE DEF s1
  <2> QED
    BY <1>3, IntDeltaResult
<1>5. Result(s, expt.s, 0) /\ expt.s \in Stack
  <2> HIDE DEF s1, expt
  <2> QED
    BY <1>3, <1>4, ResultThenRead DEF Result
<1>6. Result(s, s2, 0) /\ s2 \in Stack
  <2> HIDE DEF expt
  <2> QED
    BY <1>1, <1>2, <1>5, ToResult DEF Result, Stack
<1>7. Result(s2, mant.s, 0) /\ mant.delta \in Int
  <2> HIDE DEF s2
  <2> QED
    BY <1>6, IntDeltaResult
<1>8. Result(s, mant.s, 0) /\ mant.s \in Stack
  <2> HIDE DEF s2, mant
  <2> QED
    BY <1>6, <1>7, ResultThenRead DEF Result
<1>9. expt.s.fdata.value.expt \in Int /\ mant.s.fdata.value.num \in Int
  <2> HIDE DEF expt, mant
  <2> QED
    BY <1>5, <1>8 DEF Stack, FieldData, FieldValue
<1>10. fdata \in FieldData
  <2> DEFINE a == expt.delta + expt.s.fdata.value.expt
             b == mant.delta + mant.s.fdata.value.num
  <2>1. a \in Int /\ b \in Int
    <3> HIDE DEF expt, mant
    <3> QED
      BY <1>4, <1>7, <1>9
  <2> HIDE DEF a, b
  <2>2. Wrap("Int32", a) \in Int /\ Wrap("Int64", b) \in Int
    BY <2>1, WrapType
  <2>3. [s.fdata EXCEPT !.value.expt = Wrap("Int32", a), !.value.num = Wrap("Int64", b)]
          \in FieldData
    BY <1>1, <2>2 DEF FieldData, FieldValue
  <2> QED
    BY <2>3 DEF a, b
<1>11. DecimalDelta(ftype, s, value) = To(s, mant.s.pos, fdata)
  BY DEF DecimalDelta, blank
<1> HIDE DEF fdata, mant
<1>12. Result(s, To(s, mant.s.pos, fdata), 0)
  BY <1>8, <1>10, ToResult DEF Result, Stack
<1> QED
  BY <1>11, <1>12, ResultMoves

(* A scalar that is not a tail takes the bits that template.c grants it.   *)
LEMMA ScalarMoves ==
  ASSUME NEW n \in ScalarNode, NEW s \in Stack, NEW uninit \in Uninitialised
  PROVE  LET r == dissect_value(FType[n], s.pos, s.tab, uninit) IN
         /\ r \in Stack /\ Forward(s.pos, r.pos)
         /\ FType[n].op # "Tail" => Moves(s, r, bits(FType[n]))
<1> DEFINE r == dissect_value(FType[n], s.pos, s.tab, uninit)
<1>1. s.pos \in DissectPosition /\ s.tab \in ConversationTables
  BY DEF Stack
<1>2. /\ r \in Stack
      /\ FType[n].op # "Tail" => Took(s.pos, r.pos, Bits(FType[n]))
      /\ r.pos.bytes = s.pos.bytes /\ s.pos.offset <= r.pos.offset
      /\ r.pos.pmap = s.pos.pmap
      /\ r.pos.rest = s.pos.rest \/ (s.pos.rest = "outside" /\ r.pos.rest = "fault")
  BY <1>1, ScalarTypes, ValueResult
<1> HIDE DEF r
<1>3. r.pos \in DissectPosition
  BY <1>2 DEF Stack
<1>4. Bits(FType[n]) = bits(FType[n]) /\ Bits(FType[n]) \in {0, 1}
  BY DEF bits, Bits
<1>5. FType[n].op # "Tail" => Takes(s.pos, r.pos, bits(FType[n]))
  BY <1>1, <1>2, <1>3, <1>4, TookTakes
<1> QED
  BY <1>2, <1>3, <1>5 DEF Forward, Moves, r

(* The children of a decimal take their bits one after the other.          *)
LEMMA DecimalChildrenMoves ==
  ASSUME NEW n \in DecimalNode, NEW s \in Stack, NEW uninit \in Uninitialised
  PROVE  Moves(s, DecimalChildren(n, s, uninit), bits(exponent(n)) + bits(mantissa(n)))
<1> DEFINE e == dissect_value(exponent(n), s.pos, s.tab, uninit)
           m == dissect_value(mantissa(n), e.pos, e.tab, uninit)
<1>1. /\ Children[n][1] \in ScalarNode /\ Children[n][2] \in ScalarNode
      /\ exponent(n).op # "Tail" /\ mantissa(n).op # "Tail"
  BY ChildTypes DEF exponent
<1>2. Moves(s, e, bits(exponent(n)))
  BY <1>1, ScalarMoves DEF exponent
<1>3. e \in Stack
  BY <1>2 DEF Moves
<1> HIDE DEF e
<1>4. Moves(e, m, bits(mantissa(n)))
  BY <1>1, <1>3, ScalarMoves DEF mantissa
<1>5. Moves(s, m, bits(exponent(n)) + bits(mantissa(n)))
  <2> HIDE DEF m
  <2> QED
    BY <1>2, <1>4, MovesMore DEF bits
<1>6. DecimalChildren(n, s, uninit) = Joined(e, m)
  BY DEF DecimalChildren, WithMantissa, e
<1> HIDE DEF m
<1>7. Joined(e, m).pos = m.pos /\ Joined(e, m) \in Stack
  <2> DEFINE value == [m.fdata.value EXCEPT !.expt = e.fdata.value.num]
             fdata == [status |-> m.fdata.status, err |-> 0, value |-> value]
  <2>1. m \in Stack
    BY <1>5 DEF Moves
  <2>2. m.fdata \in FieldData /\ e.fdata \in FieldData
    BY <1>3, <2>1 DEF Stack
  <2>3. value \in FieldValue
    BY <2>2 DEF FieldData, FieldValue
  <2> HIDE DEF value
  <2>4. fdata \in FieldData
    BY <2>2, <2>3 DEF FieldData
  <2>5. Joined(e, m) = [m EXCEPT !.fdata = fdata]
    BY <2>1 DEF Joined, Stack, value
  <2> HIDE DEF fdata
  <2> QED
    BY <2>1, <2>4, <2>5 DEF Stack
<1> QED
  BY <1>5, <1>6, <1>7 DEF Moves

(* So does dissect_decimal, but for a delta.                               *)
LEMMA DecimalReadMoves ==
  ASSUME NEW n \in DecimalNode, NEW s \in Stack, NEW uninit \in Uninitialised,
         NEW value \in FieldValue
  PROVE  Moves(s, dissect_decimal(n, s, uninit, value),
               IF FType[n].op = "Delta" THEN 0 ELSE bits(exponent(n)) + bits(mantissa(n)))
<1>1. FType[n] \in FieldTypes
  BY ChildTypes, NodeTypes
<1>2. CASE FType[n].op = "Delta"
  <2>1. Moves(s, DecimalDelta(FType[n], s, value), 0)
    BY <1>1, DecimalDeltaMoves
  <2> QED
    BY <1>1, <1>2, <2>1, StoreMoves DEF dissect_decimal
<1>3. CASE FType[n].op # "Delta"
  <2>1. bits(exponent(n)) + bits(mantissa(n)) \in Nat
    BY DEF bits
  <2>2. dissect_decimal(n, s, uninit, value) = Store(FType[n], DecimalChildren(n, s, uninit))
    BY <1>3 DEF dissect_decimal
  <2> QED
    BY <1>1, <1>3, <2>1, <2>2, DecimalChildrenMoves, StoreMoves
<1> QED
  BY <1>2, <1>3

(***************************************************************************)
(* Presence: nothing is taken for a mandatory field; for an optional one   *)
(* dissect_optional asks the field itself, or its first child if the field *)
(* has no operator.                                                        *)
(***************************************************************************)
Asked(n) == IF FType[n].op = "None" THEN FType[Children[n][1]] ELSE FType[n]

LEMMA PresenceMoves ==
  ASSUME NEW n \in DecimalNode \cup SequenceNode, NEW pos \in DissectPosition,
         tab \in ConversationTables
  PROVE  LET s == Presence(n, pos) IN
         /\ s \in Stack
         /\ Takes(pos, s.pos, IF FType[n].mandatory THEN 0 ELSE OptionalBits(Asked(n), s))
         /\ FType[n].mandatory => s.fdata.status = "Exists"
<1> DEFINE begin == [pos |-> pos, tab |-> tab,
                     fdata |-> BlankField(IF FType[n].mandatory THEN "Exists" ELSE "Empty")]
           s == Presence(n, pos)
<1>1. begin \in Stack /\ begin.pos = pos
  BY BeginType DEF FieldStatus
<1>2. CASE FType[n].mandatory
  <2>1. s = begin /\ s.fdata.status = "Exists"
    BY <1>2 DEF Presence, BlankField
  <2> HIDE DEF begin, s
  <2> QED
    BY <1>1, <1>2, <2>1, TakesNothing DEF s
<1>3. CASE ~FType[n].mandatory
  <2>1. Asked(n) \in FieldTypes
    BY ChildTypes, NodeTypes, ScalarTypes DEF Asked
  <2>2. s = dissect_optional(Asked(n), begin)
    BY <1>3, ChildTypes DEF Presence, Optional, Asked
  <2> HIDE DEF begin, s
  <2>3. Result(begin, s, OptionalBits(Asked(n), s))
    BY <1>1, <2>1, <2>2, OptionalResult
  <2>4. OptionalBits(Asked(n), s) \in {0, 1}
    BY DEF OptionalBits
  <2>5. Moves(begin, s, OptionalBits(Asked(n), s))
    BY <1>1, <2>3, <2>4, ResultMoves
  <2> QED
    BY <1>1, <1>3, <2>5 DEF Moves, s
<1> QED
  BY <1>2, <1>3

(***************************************************************************)
(* Without an operator the bit of the first child is taken here if it is   *)
(* empty, and left to the child if it is not, unless the child is an       *)
(* optional constant, which is asked a second time.                        *)
(***************************************************************************)
AskedTwice(n) ==
  ~FType[n].mandatory /\ FType[n].op = "None" /\ FType[Children[n][1]].op = "Constant"

LEMMA FirstChildAsked ==
  ASSUME NEW n \in DecimalNode \cup SequenceNode, NEW pos \in DissectPosition,
         tab \in ConversationTables, FType[n].op = "None", ~AskedTwice(n)
  PROVE  LET s == Presence(n, pos) IN
         Takes(pos, s.pos, IF s.fdata.status = "Exists"
                           THEN 0 ELSE bits(FType[Children[n][1]]))
<1> DEFINE s == Presence(n, pos)
           first == FType[Children[n][1]]
<1>1. /\ Takes(pos, s.pos, IF FType[n].mandatory THEN 0 ELSE OptionalBits(Asked(n), s))
      /\ FType[n].mandatory => s.fdata.status = "Exists"
  BY PresenceMoves
<1>2. Asked(n) = first
  BY DEF Asked
<1>3. first \in FieldTypes /\ first.type # "Group" /\ first.op # "Tail"
  BY ChildTypes, ScalarTypes
<1> HIDE DEF s
<1>4. CASE FType[n].mandatory
  BY <1>1, <1>4 DEF s
<1>5. CASE ~FType[n].mandatory
  <2>1. first.op # "Constant"
    BY <1>5 DEF AskedTwice
  <2>2. OptionalBits(first, s) = IF s.fdata.status = "Exists" THEN 0 ELSE bits(first)
    BY <1>3, <2>1 DEF OptionalBits, ChecksPmap, ChecksNull, bits, requires_pmap_bit
  <2> QED
    BY <1>1, <1>2, <1>5, <2>2 DEF s
<1> QED
  BY <1>4, <1>5

(***************************************************************************)
(* From p the walk over n goes to q: it takes no bit if n needs none, and  *)
(* unless n is one of the nodes known to disagree, the k bits it may.      *)
(***************************************************************************)
StepsOver(n, p, q, k) ==
  /\ Forward(p, q)
  /\ NeedsNoBit(n) => q.pmap_idx = p.pmap_idx
  /\ ~OutOfStep(n) => Takes(p, q, k)

(* How a decimal whose presence is known goes on.                          *)
LEMMA DecimalValueMoves ==
  ASSUME NEW n \in DecimalNode, NEW s \in Stack, NEW uninit \in Uninitialised,
         NEW value \in FieldValue, s.fdata.status = "Exists"
  PROVE  \/ Moves(s, DecimalValue(n, s, uninit, value),
                  IF FType[n].op \in {"Copy", "Default"} THEN 1 ELSE 0)
            /\ FType[n].op \in {"Copy", "Default", "Constant"}
         \/ Moves(s, DecimalValue(n, s, uninit, value),
                  (IF FType[n].op \in {"Copy", "Default"} THEN 1 ELSE 0)
                  + (IF FType[n].op = "Delta" THEN 0
                     ELSE bits(exponent(n)) + bits(mantissa(n))))
            /\ FType[n].op # "Constant"
<1> DEFINE op == ApplyOperator(FType[n], s)
           a == IF FType[n].op \in {"Copy", "Default"} THEN 1 ELSE 0
           b == IF FType[n].op = "Delta" THEN 0 ELSE bits(exponent(n)) + bits(mantissa(n))
           r == DecimalValue(n, s, uninit, value)
<1>1. FType[n] \in FieldTypes
  BY ChildTypes, NodeTypes
<1>2. Moves(s, op.s, a)
  <2>1. Result(s, op.s, a)
    BY <1>1, OperatorResult
  <2> QED
    BY <2>1, ResultMoves
<1>3. op.operator_used => FType[n].op \in {"Copy", "Default", "Constant"}
  BY DEF ApplyOperator
<1>4. FType[n].op = "Constant" => op.operator_used
  BY DEF ApplyOperator
<1>5. r = IF op.operator_used THEN op.s ELSE dissect_decimal(n, op.s, uninit, value)
  BY DEF DecimalValue, AfterOperator
<1>6. a \in Nat /\ b \in Nat
  BY DEF bits
<1> HIDE DEF op, r
<1>7. CASE op.operator_used
  BY <1>2, <1>3, <1>5, <1>7 DEF r
<1>8. CASE ~op.operator_used
  <2>1. op.s \in Stack
    BY <1>2 DEF Moves
  <2>2. Moves(op.s, r, b)
    BY <1>5, <1>8, <2>1, DecimalReadMoves
  <2> HIDE DEF a, b
  <2>3. Moves(s, r, a + b)
    BY <1>2, <1>6, <2>2, MovesMore
  <2> QED
    BY <1>4, <1>8, <2>3 DEF a, b, r
<1> QED
  BY <1>7, <1>8

(* What a node without need of a bit is like inside.                       *)
LEMMA NeedsNoBitInside ==
  ASSUME NEW n \in DecimalNode \cup SequenceNode, NeedsNoBit(n)
  PROVE  /\ bits(FType[n]) = 0 /\ bits(FType[Children[n][1]]) = 0
         /\ n \in DecimalNode => bits(mantissa(n)) = 0
         /\ ~AskedTwice(n)
         /\ FType[n].op \notin {"Copy", "Default"}
         /\ FType[n].op = "Constant" => FType[n].mandatory
<1>1. n \in Node /\ ~fixup_walk_template[n]
  BY ChildTypes DEF NeedsNoBit
<1>2. /\ ~requires_pmap_bit(FType[Children[n][1]])
      /\ ~requires_pmap_bit(FType[Children[n][2]])
  BY <1>1, ChildTypes, NeedsNoBitBelow DEF NeedsNoBit
<1>3. ~AskedTwice(n)
  BY <1>2, ChildTypes DEF AskedTwice, requires_pmap_bit
<1> QED
  BY <1>2, <1>3 DEF NeedsNoBit, bits, requires_pmap_bit, mantissa

(* A decimal: absent, with the value of its operator, or read.             *)
LEMMA DecimalOver ==
  ASSUME NEW n \in DecimalNode, NEW pos \in DissectPosition, tab \in ConversationTables,
         NEW uninit \in Uninitialised, NEW value \in FieldValue
  PROVE  LET r == DecimalValue(n, Presence(n, pos), uninit, value) IN
         r \in Stack /\ StepsOver(n, pos, r.pos, Entitled(n, pos))
<1> DEFINE s == Presence(n, pos)
           r == DecimalValue(n, s, uninit, value)
           e == bits(exponent(n))
           m == bits(mantissa(n))
           none == FType[n].op = "None"
           k0 == IF FType[n].mandatory THEN 0 ELSE OptionalBits(Asked(n), s)
           k1 == IF FType[n].op \in {"Copy", "Default"} THEN 1 ELSE 0
           k2 == IF FType[n].op = "Delta" THEN 0 ELSE e + m
           exists == s.fdata.status = "Exists"
           due == Entitled(n, pos)
<1>1. s \in Stack /\ Takes(pos, s.pos, k0) /\ (FType[n].mandatory => exists)
  BY PresenceMoves
<1>2. none /\ ~AskedTwice(n) => Takes(pos, s.pos, IF exists THEN 0 ELSE e)
  BY FirstChildAsked DEF exponent
<1>3. exists => \/ Moves(s, r, k1) /\ FType[n].op \in {"Copy", "Default", "Constant"}
                \/ Moves(s, r, k1 + k2) /\ FType[n].op # "Constant"
  BY <1>1, DecimalValueMoves
<1>4. ~exists => r = s
  BY DEF DecimalValue
<1>5. /\ none => due = e + IF exists THEN m ELSE 0
      /\ ~none => due = bits(FType[n])
  BY DEF Entitled
<1>6. k0 \in Nat /\ k1 \in Nat /\ k2 \in Nat /\ e \in Nat /\ m \in Nat /\ due \in Nat
  BY DEF OptionalBits, bits, Entitled
<1>7. NeedsNoBit(n) =>
        /\ bits(FType[n]) = 0 /\ e = 0 /\ m = 0 /\ ~AskedTwice(n)
        /\ FType[n].op \notin {"Copy", "Default"}
        /\ FType[n].op = "Constant" => FType[n].mandatory
  BY NeedsNoBitInside DEF exponent
<1>8. ~OutOfStep(n) =>
        /\ check_valid_operator(FType[n])
        /\ ~AskedTwice(n)
        /\ ~none => e = 0 /\ m = 0
  <2>1. ~OutOfStep(n) => check_valid_operator(FType[n]) /\ ~AskedTwice(n)
    BY DEF OutOfStep, AskedTwice
  <2>2. ~OutOfStep(n) /\ ~none => exponent(n).op = "None" /\ mantissa(n).op = "None"
    BY DEF OutOfStep
  <2>3. /\ Children[n][1] \in ScalarNode /\ exponent(n).type # "Group"
        /\ Children[n][2] \in ScalarNode /\ mantissa(n).type # "Group"
    BY ChildTypes, ScalarTypes DEF exponent, mantissa
  <2> QED
    BY <2>1, <2>2, <2>3 DEF bits, requires_pmap_bit
<1>9. n \in Node /\ FType[n] \in FieldTypes /\ FType[n].type = "Decimal"
  BY ChildTypes, NodeTypes DEF DecimalNode
<1> HIDE DEF s, r, e, m, due
<1>10. ~none => k0 = IF FType[n].mandatory \/ ~ChecksPmap(FType[n])
                        \/ (exists /\ FType[n].op # "Constant") THEN 0 ELSE 1
  BY DEF Asked, OptionalBits, ChecksNull
<1>11. check_valid_operator(FType[n]) =>
         FType[n].op \in {"None", "Constant", "Default", "Copy", "Delta"}
  BY <1>9 DEF check_valid_operator, FieldTypes, FieldOperatorIdentifier, IntegerType,
     UnsignedType, SignedType
<1>12. \E k \in Nat : /\ Takes(pos, r.pos, k) /\ r \in Stack
                      /\ NeedsNoBit(n) => k = 0
                      /\ ~OutOfStep(n) => k = due
  <2>1. CASE ~exists
    <3>1. CASE none /\ ~AskedTwice(n)
      BY <1>1, <1>2, <1>4, <1>5, <1>6, <1>7, <2>1, <3>1
    <3>2. CASE none /\ AskedTwice(n)
      <4> HIDE DEF k0
      <4> QED
        BY <1>1, <1>4, <1>6, <1>7, <1>8, <2>1, <3>2
    <3>3. CASE ~none
      <4>1. ~OutOfStep(n) => k0 = due
        BY <1>1, <1>5, <1>8, <1>9, <1>10, <1>11, <2>1, <3>3
           DEF bits, requires_pmap_bit, ChecksPmap
      <4>2. NeedsNoBit(n) => k0 = 0
        BY <1>1, <1>9, <1>10, <2>1, <3>3 DEF NeedsNoBit, requires_pmap_bit, ChecksPmap
      <4> HIDE DEF k0
      <4> QED
        BY <1>1, <1>4, <1>6, <2>1, <4>1, <4>2
    <3> QED
      BY <3>1, <3>2, <3>3
  <2>2. CASE exists
    <3>1. CASE Moves(s, r, k1) /\ FType[n].op \in {"Copy", "Default", "Constant"}
      <4>1. Takes(pos, r.pos, k0 + k1) /\ r \in Stack
        BY <1>1, <1>6, <3>1, TakesMore DEF Moves
      <4>2. ~OutOfStep(n) => k0 + k1 = due
        BY <1>5, <1>9, <1>10, <2>2, <3>1 DEF bits, requires_pmap_bit, ChecksPmap
      <4>3. NeedsNoBit(n) => k0 + k1 = 0
        BY <1>7, <1>10, <2>2, <3>1
      <4>4. k0 + k1 \in Nat
        BY <1>6
      <4> HIDE DEF k0, k1
      <4> QED
        BY <4>1, <4>2, <4>3, <4>4
    <3>2. CASE Moves(s, r, k1 + k2) /\ FType[n].op # "Constant"
      <4>1. \A k \in Nat : Takes(pos, s.pos, k) =>
              Takes(pos, r.pos, k + (k1 + k2)) /\ r \in Stack
        BY <1>6, <3>2, TakesMore DEF Moves
      <4>2. CASE none /\ ~AskedTwice(n)
        <5>1. k1 = 0 /\ k2 = e + m
          BY <4>2
        <5>2. Takes(pos, r.pos, e + m) /\ r \in Stack
          BY <1>2, <1>6, <2>2, <4>1, <4>2, <5>1
        <5> QED
          BY <1>5, <1>6, <1>7, <2>2, <4>2, <5>2
      <4>3. CASE none /\ AskedTwice(n)
        <5>1. Takes(pos, r.pos, k0 + (k1 + k2)) /\ r \in Stack
          BY <1>1, <1>6, <4>1
        <5>2. k0 + (k1 + k2) \in Nat
          BY <1>6
        <5> HIDE DEF k0, k1, k2
        <5> QED
          BY <1>7, <1>8, <4>3, <5>1, <5>2
      <4>4. CASE ~none
        <5>1. Takes(pos, r.pos, k0 + (k1 + k2)) /\ r \in Stack
          BY <1>1, <1>6, <4>1
        <5>2. k0 = 0
          BY <1>10, <2>2, <3>2, <4>4
        <5>3. ~OutOfStep(n) => k1 + k2 = due
          BY <1>5, <1>8, <1>9, <1>11, <3>2, <4>4 DEF bits, requires_pmap_bit
        <5>4. NeedsNoBit(n) => k1 + k2 = 0
          BY <1>7
        <5>5. k1 + k2 \in Nat
          BY <1>6
        <5> HIDE DEF k0, k1, k2
        <5> QED
          BY <5>1, <5>2, <5>3, <5>4, <5>5
      <4> QED
        BY <4>2, <4>3, <4>4
    <3> QED
      BY <1>3, <2>2, <3>1, <3>2
  <2> QED
    BY <2>1, <2>2
<1> HIDE DEF k0, k1, k2, exists, none
<1>13. StepsOver(n, pos, r.pos, due) /\ r \in Stack
  <2>1. PICK k \in Nat : /\ Takes(pos, r.pos, k) /\ r \in Stack
                         /\ NeedsNoBit(n) => k = 0
                         /\ ~OutOfStep(n) => k = due
    BY <1>12
  <2> QED
    BY <2>1, TakesNothing DEF StepsOver, Takes
<1> QED
  BY <1>13 DEF r, s, due

LEMMA ScalarOver ==
  ASSUME NEW n \in ScalarNode, NEW pos \in DissectPosition, tab \in ConversationTables,
         NEW uninit \in Uninitialised
  PROVE  LET r == dissect_value(FType[n], pos, tab, uninit) IN
         r \in Stack /\ StepsOver(n, pos, r.pos, Entitled(n, pos))
<1> DEFINE s == [pos |-> pos, tab |-> tab, fdata |-> BlankField("Exists")]
           r == dissect_value(FType[n], s.pos, s.tab, uninit)
<1>1. s \in Stack /\ s.pos = pos /\ s.tab = tab
  BY BeginType DEF FieldStatus
<1>2. /\ r \in Stack /\ Forward(pos, r.pos)
      /\ FType[n].op # "Tail" => Takes(pos, r.pos, bits(FType[n]))
  <2> HIDE DEF s
  <2> QED
    BY <1>1, ScalarMoves DEF Moves
<1>3. Entitled(n, pos) = bits(FType[n])
  BY ScalarTypes DEF Entitled
<1>4. NeedsNoBit(n) => FType[n].op # "Tail" /\ bits(FType[n]) = 0
  BY DEF NeedsNoBit, requires_pmap_bit, bits
<1>5. ~OutOfStep(n) => FType[n].op # "Tail"
  BY DEF OutOfStep
<1>6. r = dissect_value(FType[n], pos, tab, uninit)
  OBVIOUS
<1> HIDE DEF r, s
<1> QED
  BY <1>2, <1>3, <1>4, <1>5, <1>6, TakesNothing DEF StepsOver

(* A sequence up to its elements: only its length may take a bit.          *)
LEMMA SequenceOver ==
  ASSUME node \in SequenceNode, top.pos \in DissectPosition, tab \in ConversationTables,
         NEW uninit \in Uninitialised
  PROVE  LET s == SequenceLength(Presence(node, top.pos), uninit) IN
         s \in Stack /\ StepsOver(node, top.pos, s.pos, bits(FType[length_tnode(node)]))
<1> DEFINE pos == top.pos
           s == Presence(node, pos)
           l == length_tnode(node)
           exists == s.fdata.status = "Exists"
           k0 == IF FType[node].mandatory THEN 0 ELSE OptionalBits(Asked(node), s)
           r == SequenceLength(s, uninit)
<1>1. s \in Stack /\ Takes(pos, s.pos, k0) /\ k0 \in Nat
  BY PresenceMoves DEF OptionalBits
<1>2. l \in ScalarNode /\ FType[l].op # "Tail" /\ FType[node].op = "None"
  BY ChildTypes DEF length_tnode
<1>3. bits(FType[l]) \in Nat
  BY DEF bits
<1>4. ~AskedTwice(node) => Takes(pos, s.pos, IF exists THEN 0 ELSE bits(FType[l]))
  BY <1>2, FirstChildAsked DEF length_tnode
<1>5. ~exists => r = s
  BY DEF SequenceLength
<1>6. exists => Moves(s, r, bits(FType[l]))
  <2>1. exists => r = dissect_value(FType[l], s.pos, s.tab, uninit)
    BY DEF SequenceLength
  <2> HIDE DEF s, r, l
  <2> QED
    BY <1>1, <1>2, <2>1, ScalarMoves
<1>7. NeedsNoBit(node) => bits(FType[l]) = 0 /\ ~AskedTwice(node)
  BY NeedsNoBitInside DEF length_tnode
<1>8. ~OutOfStep(node) => ~AskedTwice(node)
  BY DEF OutOfStep, AskedTwice
<1> HIDE DEF s, l, r, k0, pos
<1>9. pos \in DissectPosition
  BY DEF pos
<1>10. \E k \in Nat : Takes(pos, r.pos, k) /\ r \in Stack
  <2>1. CASE exists
    <3>1. Takes(pos, r.pos, k0 + bits(FType[l])) /\ k0 + bits(FType[l]) \in Nat
      BY <1>1, <1>3, <1>6, <1>9, <2>1, TakesMore DEF Moves
    <3> QED
      BY <1>6, <2>1, <3>1 DEF Moves
  <2>2. CASE ~exists
    BY <1>1, <1>5, <2>2
  <2> QED
    BY <2>1, <2>2
<1>11. ~AskedTwice(node) => Takes(pos, r.pos, bits(FType[l]))
  <2>1. CASE exists
    <3>1. ~AskedTwice(node) => Takes(pos, r.pos, 0 + bits(FType[l]))
      BY <1>1, <1>3, <1>4, <1>6, <1>9, <2>1, TakesMore DEF Moves
    <3> QED
      BY <1>3, <3>1
  <2>2. CASE ~exists
    BY <1>4, <1>5, <2>2
  <2> QED
    BY <2>1, <2>2
<1>12. r \in Stack /\ Forward(pos, r.pos)
  BY <1>10 DEF Takes
<1>13. StepsOver(node, pos, r.pos, bits(FType[l]))
  BY <1>7, <1>8, <1>9, <1>11, <1>12, TakesNothing DEF StepsOver
<1> QED
  BY <1>12, <1>13 DEF r, s, l, pos

(* The presence map bit of a group.                                        *)
LEMMA GroupOver ==
  ASSUME node \in GroupNode, top.pos \in DissectPosition
  PROVE  /\ AfterGroupBit \in DissectPosition
         /\ AfterGroupBit.offset = top.pos.offset
         /\ StepsOver(node, top.pos, AfterGroupBit, bits(FType[node]))
<1>1. FType[node].type = "Group" /\ FType[node].op = "None"
  BY NodeAssumption DEF GroupNode
<1>2. bits(FType[node]) = IF FType[node].mandatory THEN 0 ELSE 1
  BY <1>1 DEF bits, requires_pmap_bit
<1>3. CASE FType[node].mandatory
  <2>1. AfterGroupBit = top.pos
    BY <1>3 DEF AfterGroupBit
  <2> QED
    BY <1>2, <1>3, <2>1, TakesNothing DEF StepsOver, Takes
<1>4. CASE ~FType[node].mandatory
  <2>1. AfterGroupBit = dissect_shift_pmap(top.pos)
    BY <1>4 DEF AfterGroupBit
  <2>2. Takes(top.pos, AfterGroupBit, 1) /\ AfterGroupBit \in DissectPosition
    BY <2>1, ShiftPmapTook, TookTakes
  <2>3. AfterGroupBit.offset = top.pos.offset
    BY <2>1 DEF dissect_shift_pmap, DissectPosition
  <2>4. ~NeedsNoBit(node)
    BY <1>1, <1>4 DEF NeedsNoBit, requires_pmap_bit
  <2> QED
    BY <1>2, <1>4, <2>2, <2>3, <2>4 DEF StepsOver, Takes
<1> QED
  BY <1>3, <1>4

(* A repeated group needs no bit of the map that its sequence is on.       *)
LEMMA ElementsTypes ==
  ASSUME NEW n \in SequenceNode, NEW length \in Int
  PROVE  /\ Elements(n, length) \in Seq(Node)
         /\ \A m \in NodesOf(Elements(n, length)) : NeedsNoBit(m)
<1>1. group_tnode(n) \in GroupNode /\ FType[group_tnode(n)].mandatory
  BY NodeAssumption DEF SequenceAssumption, group_tnode
<1>2. FType[group_tnode(n)].op = "None" /\ group_tnode(n) \in Node
  BY <1>1, NodeAssumption DEF GroupNode
<1>3. NeedsNoBit(group_tnode(n))
  BY <1>1, <1>2 DEF NeedsNoBit, requires_pmap_bit
<1>4. 1..length = 1..(IF length >= 0 THEN length ELSE 0)
  OBVIOUS
<1>5. Elements(n, length) \in Seq(Node)
  BY <1>2, <1>4 DEF Elements
<1>6. NodesOf(Elements(n, length)) \subseteq {group_tnode(n)}
  BY DEF Elements, NodesOf
<1> QED
  BY <1>3, <1>5, <1>6

--------------------------------------------------------------------------------
(* Type correctness.                                                       *)

(***************************************************************************)
(* Every activation works on the same packet: a group with a position of   *)
(* its own gives back nothing but its offset, so TypeOK alone would not    *)
(* keep the caller within the packet.                                      *)
(***************************************************************************)
SameBytes == \A i \in DOMAIN stack : stack[i].pos.bytes = outer.bytes

Typed == TypeOK /\ SameBytes

(* Where an activation may stand, and that none goes on after a fault.     *)
Placed(p) ==
  p.bytes = outer.bytes /\ (p.rest \in {"outside", "fault"} => flavored)

NoneGoesOn(s) ==
  \A i \in DOMAIN s : s[i].pos.rest = "fault" => s[1].pos.rest = "fault"

LEMMA InitTyped ==
  ASSUME Init
  PROVE  Typed
<1>1. Nowhere \in DissectPosition /\ Nowhere.rest = "none"
  BY DEF Nowhere, DissectPosition
<1>2. EmptyTables \in ConversationTables
  BY DEF EmptyTables, ConversationTables
<1> QED
  BY <1>1, <1>2 DEF Init, Typed, TypeOK, SameBytes

(* While there is an activation, its node and its position are typed.      *)
LEMMA TopTypes ==
  ASSUME Typed, phase = "fields"
  PROVE  /\ stack \in Seq(Frame) /\ stack # << >> /\ Len(stack) \in Nat /\ Len(stack) >= 1
         /\ top = stack[1] /\ top \in Frame /\ top.pos \in DissectPosition
         /\ top.pos.bytes = outer.bytes
         /\ (\A i \in DOMAIN stack : Placed(stack[i].pos)) /\ NoneGoesOn(stack)
         /\ tab \in ConversationTables /\ dtree \in Seq(DataNode)
         /\ top.todo # << >> => /\ node \in Node /\ node \in NodesOf(top.todo)
                                /\ Tail(top.todo) \in Seq(Node)
                                /\ NodesOf(Tail(top.todo)) \subseteq NodesOf(top.todo)
<1>1. /\ stack \in Seq(Frame) /\ stack # << >> /\ Len(stack) \in Nat /\ Len(stack) >= 1
      /\ top = stack[1] /\ top \in Frame /\ top.pos \in DissectPosition
      /\ tab \in ConversationTables /\ dtree \in Seq(DataNode)
  <2>1. /\ stack \in Seq(Frame) /\ stack # << >>
        /\ tab \in ConversationTables /\ dtree \in Seq(DataNode)
    BY DEF Typed, TypeOK
  <2>2. Len(stack) \in Nat /\ Len(stack) >= 1 /\ stack[1] \in Frame /\ top = stack[1]
    BY <2>1 DEF top
  <2> QED
    BY <2>1, <2>2 DEF Frame
<1>2. top.pos.bytes = outer.bytes
  BY <1>1 DEF Typed, SameBytes
<1>5. \A i \in DOMAIN stack : Placed(stack[i].pos)
  BY DEF Typed, TypeOK, SameBytes, Placed
<1>6. NoneGoesOn(stack)
  BY <1>1 DEF Typed, TypeOK, NoneGoesOn, top
<1>3. top.todo \in Seq(Node)
  BY <1>1 DEF Frame
<1>4. ASSUME top.todo # << >>
      PROVE  /\ node \in Node /\ node \in NodesOf(top.todo)
             /\ Tail(top.todo) \in Seq(Node)
             /\ NodesOf(Tail(top.todo)) \subseteq NodesOf(top.todo)
  <2> DEFINE t == top.todo
  <2>1. t \in Seq(Node) /\ t # << >> /\ node = t[1] /\ 1 \in DOMAIN t
    BY <1>3, <1>4 DEF node
  <2> HIDE DEF t
  <2>2. Tail(t) \in Seq(Node) /\ \A i \in DOMAIN Tail(t) : Tail(t)[i] = t[i + 1] /\ i + 1 \in DOMAIN t
    BY <2>1
  <2> QED
    BY <2>1, <2>2 DEF NodesOf, t
<1> QED
  BY <1>1, <1>2, <1>4, <1>5, <1>6

(* The innermost frame gone on to position p, k bits later.                *)
Onward(p, k) == [top EXCEPT !.todo = Tail(@), !.pos = p, !.due = top.due + k]

(* A node is dissected without an activation of its own.                   *)
StepsOn(p, k, fdata) ==
  /\ p \in DissectPosition /\ k \in Nat /\ fdata \in FieldData
  /\ Walking /\ node \in Node
  /\ StepsOver(node, top.pos, p, k)
  /\ stack' = << Onward(p, k) >> \o Tail(stack)
  /\ AddNode(top.pos.offset, p.offset, fdata)

(* Or another activation is called for it, on the same position or on one  *)
(* whose presence map has just been read.                                  *)
CallsFor(frame, p, k, fdata, till) ==
  /\ frame \in Frame
  /\ p \in DissectPosition /\ k \in Nat /\ fdata \in FieldData /\ till \in Nat
  /\ Walking /\ node \in Node
  /\ StepsOver(node, top.pos, p, k)
  /\ stack' = << frame, Onward(p, k) >> \o Tail(stack)
  /\ AddNode(top.pos.offset, till, fdata)
  /\ frame.at = Len(dtree) + 1
  /\ frame.pos.bytes = p.bytes /\ p.offset <= frame.pos.offset
  /\ frame.pos.rest = p.rest \/ (p.rest = "outside" /\ frame.pos.rest = "fault")
  /\ ~frame.own => /\ frame.pos = p /\ frame.due = top.due + k
                   /\ \A m \in NodesOf(frame.todo) : NeedsNoBit(m)
  /\ frame.own => InStep(frame.pos, frame.due)

(* What both leave alone. *)
Within ==
  /\ tab' \in ConversationTables
  /\ UNCHANGED <<flavored, template_id, phase, outer, packets>>

LEMMA DissectScalarSteps ==
  ASSUME Typed, DissectScalar
  PROVE  Within /\ \E p, k, fdata : StepsOn(p, k, fdata)
<1>1. PICK uninit \in Uninit :
        Dissected(dissect_value(FType[node], top.pos, tab, uninit))
  BY DEF DissectScalar
<1> DEFINE s == dissect_value(FType[node], top.pos, tab, uninit)
<1>2. Walking /\ node \in ScalarNode /\ UNCHANGED <<flavored, template_id, phase, outer, packets>>
  BY DEF DissectScalar, Descending
<1>3. /\ top.pos \in DissectPosition /\ tab \in ConversationTables
      /\ node \in Node /\ uninit \in Uninitialised
  BY <1>2, TopTypes, UninitAssumption DEF Walking
<1>4. s \in Stack /\ StepsOver(node, top.pos, s.pos, Entitled(node, top.pos))
  BY <1>2, <1>3, ScalarOver
<1>5. Dissected(s)
  BY <1>1
<1>6. Entitled(node, top.pos) \in Nat
  BY DEF Entitled, bits
<1> HIDE DEF s
<1>7. StepsOn(s.pos, Entitled(node, top.pos), s.fdata)
  BY <1>2, <1>3, <1>4, <1>5, <1>6 DEF StepsOn, Dissected, Advance, Onward, Stack
<1> QED
  BY <1>2, <1>4, <1>5, <1>7 DEF Within, Dissected, Stack

LEMMA DissectDecimalSteps ==
  ASSUME Typed, DissectDecimal
  PROVE  Within /\ \E p, k, fdata : StepsOn(p, k, fdata)
<1>1. PICK uninit \in Uninit, value \in UninitValue :
        Dissected(DecimalValue(node, Presence(node, top.pos), uninit, value))
  BY DEF DissectDecimal
<1> DEFINE s == DecimalValue(node, Presence(node, top.pos), uninit, value)
<1>2. Walking /\ node \in DecimalNode /\ UNCHANGED <<flavored, template_id, phase, outer, packets>>
  BY DEF DissectDecimal, Descending
<1>3. /\ top.pos \in DissectPosition /\ tab \in ConversationTables
      /\ node \in Node /\ uninit \in Uninitialised /\ value \in FieldValue
  BY <1>2, TopTypes, UninitAssumption DEF Walking
<1>4. s \in Stack /\ StepsOver(node, top.pos, s.pos, Entitled(node, top.pos))
  BY <1>2, <1>3, DecimalOver
<1>5. Dissected(s)
  BY <1>1
<1>6. Entitled(node, top.pos) \in Nat
  BY DEF Entitled, bits
<1> HIDE DEF s
<1>7. StepsOn(s.pos, Entitled(node, top.pos), s.fdata)
  BY <1>2, <1>3, <1>4, <1>5, <1>6 DEF StepsOn, Dissected, Advance, Onward, Stack
<1> QED
  BY <1>2, <1>4, <1>5, <1>7 DEF Within, Dissected, Stack

LEMMA SkipGroupSteps ==
  ASSUME Typed, SkipGroup
  PROVE  Within /\ \E p, k, fdata : StepsOn(p, k, fdata)
<1>1. /\ Walking /\ node \in GroupNode
      /\ Advance(AfterGroupBit, top.due + bits(FType[node]))
      /\ AddNode(top.pos.offset, top.pos.offset, BlankField("Empty"))
      /\ UNCHANGED <<flavored, tab, template_id, phase, outer, packets>>
  BY DEF SkipGroup, Descending
<1>2. top.pos \in DissectPosition /\ tab \in ConversationTables /\ node \in Node
  BY <1>1, TopTypes DEF Walking
<1>3. /\ AfterGroupBit \in DissectPosition
      /\ AfterGroupBit.offset = top.pos.offset
      /\ StepsOver(node, top.pos, AfterGroupBit, bits(FType[node]))
  BY <1>1, <1>2, GroupOver
<1>4. BlankField("Empty") \in FieldData /\ bits(FType[node]) \in Nat
  BY DEF BlankField, FieldData, FieldStatus, FieldValue, init_field_value, bits
<1>5. StepsOn(AfterGroupBit, bits(FType[node]), BlankField("Empty"))
  BY <1>1, <1>2, <1>3, <1>4 DEF StepsOn, Advance, Onward
<1> QED
  BY <1>1, <1>2, <1>5 DEF Within

LEMMA EnterGroupCalls ==
  ASSUME Typed, EnterGroup
  PROVE  Within /\ \E frame, p, k, fdata, till : CallsFor(frame, p, k, fdata, till)
<1> DEFINE own    == pmap_exists(node)
           p      == AfterGroupBit
           nested == IF own THEN basic_dissect_pmap(p) ELSE p
           k      == bits(FType[node])
           frame  == [todo |-> Children[node], pos |-> nested, at |-> Len(dtree) + 1,
                      own |-> own, loop |-> FALSE,
                      due |-> IF own THEN 0 ELSE top.due + k]
<1>1. /\ Walking /\ node \in GroupNode
      /\ Call(frame, p, top.due + k)
      /\ AddNode(top.pos.offset, top.pos.offset, BlankField("Exists"))
      /\ UNCHANGED <<flavored, tab, template_id, phase, outer, packets>>
  BY DEF EnterGroup, Descending
<1>2. /\ top.pos \in DissectPosition /\ tab \in ConversationTables /\ node \in Node
      /\ top \in Frame /\ dtree \in Seq(DataNode)
  BY <1>1, TopTypes DEF Walking
<1>3. p \in DissectPosition /\ StepsOver(node, top.pos, p, k)
  BY <1>1, <1>2, GroupOver
<1>4. BlankField("Exists") \in FieldData /\ k \in Nat
  BY DEF BlankField, FieldData, FieldStatus, FieldValue, init_field_value, bits
<1>5. own = fixup_walk_template[node] /\ own \in BOOLEAN
  BY <1>2, FixupEquation DEF pmap_exists
<1> HIDE DEF k, p
<1>6. /\ nested \in DissectPosition /\ nested.bytes = p.bytes /\ p.offset <= nested.offset
      /\ nested.rest = p.rest \/ (p.rest = "outside" /\ nested.rest = "fault")
      /\ own => nested.pmap_idx = 0
  <2>1. /\ basic_dissect_pmap(p) \in DissectPosition
        /\ basic_dissect_pmap(p).bytes = p.bytes
        /\ basic_dissect_pmap(p).pmap_idx = 0
        /\ p.offset <= basic_dissect_pmap(p).offset
        /\ \/ basic_dissect_pmap(p).rest = p.rest
           \/ p.rest = "outside" /\ basic_dissect_pmap(p).rest = "fault"
    BY <1>3, PmapType
  <2>2. p.offset <= p.offset
    BY <1>3 DEF DissectPosition
  <2> QED
    BY <1>3, <2>1, <2>2
<1>7. ~own => nested = p /\ \A m \in NodesOf(Children[node]) : NeedsNoBit(m)
  BY <1>2, <1>5, NeedsNoBitBelow
<1> HIDE DEF own, nested
<1>8. top.due + k \in Nat /\ Len(dtree) + 1 \in Nat /\ Children[node] \in Seq(Node)
  BY <1>2, <1>4, NodeTypes DEF Frame
<1>9. frame \in Frame
  BY <1>5, <1>6, <1>8 DEF Frame
<1>10. own => InStep(frame.pos, frame.due)
  BY <1>6 DEF InStep, MinOf, DissectPosition
<1>11. stack' = << frame, Onward(p, k) >> \o Tail(stack)
  BY <1>1 DEF Call, Onward
<1>12. top.pos.offset \in Nat
  BY <1>2 DEF DissectPosition
<1>13. CallsFor(frame, p, k, BlankField("Exists"), top.pos.offset)
  BY <1>1, <1>2, <1>3, <1>4, <1>6, <1>7, <1>9, <1>10, <1>11, <1>12 DEF CallsFor
<1> QED
  BY <1>1, <1>2, <1>13 DEF Within

LEMMA DissectSequenceCalls ==
  ASSUME Typed, DissectSequence
  PROVE  Within /\ \E frame, p, k, fdata, till : CallsFor(frame, p, k, fdata, till)
<1>1. PICK uninit \in Uninit :
        LET begin == Presence(node, top.pos)
        IN  EnterLoop(SequenceLength(begin, uninit), begin.fdata.status = "Exists")
  BY DEF DissectSequence
<1> DEFINE s        == SequenceLength(Presence(node, top.pos), uninit)
           exists   == Presence(node, top.pos).fdata.status = "Exists"
           k        == bits(FType[length_tnode(node)])
           elements == IF exists THEN Elements(node, s.fdata.value.num) ELSE << >>
           frame    == [todo |-> elements, pos |-> s.pos, at |-> Len(dtree) + 1,
                        own |-> FALSE, loop |-> TRUE, due |-> top.due + k]
<1>2. Walking /\ node \in SequenceNode /\ UNCHANGED <<flavored, template_id, phase, outer, packets>>
  BY DEF DissectSequence, Descending
<1>3. /\ tab' = s.tab
      /\ AddNode(top.pos.offset, s.pos.offset, s.fdata)
      /\ Call(frame, s.pos, top.due + k)
  BY <1>1 DEF EnterLoop
<1>4. /\ top.pos \in DissectPosition /\ tab \in ConversationTables /\ node \in Node
      /\ top \in Frame /\ dtree \in Seq(DataNode) /\ uninit \in Uninitialised
  BY <1>2, TopTypes, UninitAssumption DEF Walking
<1>5. s \in Stack /\ StepsOver(node, top.pos, s.pos, k)
  BY <1>2, <1>4, SequenceOver
<1> HIDE DEF s
<1>6. k \in Nat
  BY DEF bits
<1>7. elements \in Seq(Node) /\ \A m \in NodesOf(elements) : NeedsNoBit(m)
  <2>1. s.fdata.value.num \in Int
    BY <1>5 DEF Stack, FieldData, FieldValue
  <2>2. << >> \in Seq(Node) /\ NodesOf(<< >>) = {}
    BY DEF NodesOf
  <2> QED
    BY <1>2, <2>1, <2>2, ElementsTypes
<1> HIDE DEF elements, k
<1>8. /\ top.due + k \in Nat /\ Len(dtree) + 1 \in Nat
      /\ s.pos \in DissectPosition /\ s.fdata \in FieldData /\ s.tab \in ConversationTables
  BY <1>4, <1>5, <1>6 DEF Frame, Stack
<1>9. frame \in Frame
  BY <1>7, <1>8 DEF Frame
<1>10. stack' = << frame, Onward(s.pos, k) >> \o Tail(stack)
  BY <1>3 DEF Call, Onward
<1>11. s.pos.offset \in Nat /\ s.pos.offset <= s.pos.offset
  BY <1>8 DEF DissectPosition
<1>12. CallsFor(frame, s.pos, k, s.fdata, s.pos.offset)
  BY <1>2, <1>3, <1>4, <1>5, <1>6, <1>7, <1>8, <1>9, <1>10, <1>11 DEF CallsFor
<1> QED
  BY <1>2, <1>3, <1>8, <1>12 DEF Within

(* The five actions that walk over a node. *)
Walk == DissectScalar \/ DissectDecimal \/ SkipGroup
Descend == EnterGroup \/ DissectSequence

LEMMA WalkSteps ==
  ASSUME Typed, Walk
  PROVE  Within /\ \E p, k, fdata : StepsOn(p, k, fdata)
BY DissectScalarSteps, DissectDecimalSteps, SkipGroupSteps DEF Walk

LEMMA DescendCalls ==
  ASSUME Typed, Descend
  PROVE  Within /\ \E frame, p, k, fdata, till : CallsFor(frame, p, k, fdata, till)
BY EnterGroupCalls, DissectSequenceCalls DEF Descend

(* The frame that goes on keeps everything but its position.               *)
GoneOn(f, p, k) ==
  /\ f.pos = p /\ Placed(p) /\ f.due = top.due + k
  /\ f.pos.bytes = outer.bytes
  /\ f.own = top.own /\ f.loop = top.loop /\ f.at = top.at
  /\ f.todo = Tail(top.todo)

LEMMA OnwardType ==
  ASSUME Typed, Walking, NEW p \in DissectPosition, NEW k \in Nat,
         StepsOver(node, top.pos, p, k)
  PROVE  Onward(p, k) \in Frame /\ GoneOn(Onward(p, k), p, k)
<1> DEFINE f == Onward(p, k)
<1>1. /\ top \in Frame /\ Tail(top.todo) \in Seq(Node)
      /\ Placed(top.pos)
  BY TopTypes DEF Walking
<1>2. f = [top EXCEPT !.todo = Tail(top.todo), !.pos = p, !.due = top.due + k]
  BY DEF Onward
<1>3. Placed(p)
  BY <1>1 DEF StepsOver, Forward, Placed
<1>4. top.due + k \in Nat
  BY <1>1 DEF Frame
<1> HIDE DEF f
<1>5. /\ f.pos = p /\ f.due = top.due + k
      /\ f.own = top.own /\ f.loop = top.loop /\ f.at = top.at
      /\ f.todo = Tail(top.todo)
  BY <1>1, <1>2 DEF Frame
<1>6. f \in Frame
  BY <1>1, <1>2, <1>4 DEF Frame
<1> QED
  BY <1>3, <1>5, <1>6 DEF f, GoneOn, Placed

(* The tree with its new last node.                                        *)
IsNewNode(d, till) ==
  /\ d.node = node /\ d.depth = Len(stack)
  /\ d.start = top.pos.offset /\ d.end = till

LEMMA NodeAdded ==
  ASSUME Typed, Walking, NEW fdata \in FieldData, NEW till \in Nat,
         AddNode(top.pos.offset, till, fdata)
  PROVE  /\ dtree' \in Seq(DataNode) /\ Len(dtree') = Len(dtree) + 1
         /\ IsNewNode(dtree'[Len(dtree) + 1], till)
         /\ \A i \in 1..Len(dtree) : dtree'[i] = dtree[i]
<1> DEFINE d == [node |-> node, depth |-> Len(stack), start |-> top.pos.offset,
                 end |-> till, fdata |-> fdata]
<1>1. /\ dtree \in Seq(DataNode) /\ node \in Node /\ Len(stack) \in Nat
      /\ top.pos.offset \in Nat
  BY TopTypes DEF Walking, DissectPosition
<1>2. d \in DataNode /\ IsNewNode(d, till)
  BY <1>1 DEF DataNode, IsNewNode
<1>3. dtree' = Append(dtree, d)
  BY DEF AddNode
<1> HIDE DEF d
<1>4. /\ dtree' \in Seq(DataNode) /\ Len(dtree') = Len(dtree) + 1
      /\ dtree'[Len(dtree) + 1] = d
      /\ \A i \in 1..Len(dtree) : dtree'[i] = dtree[i]
  BY <1>1, <1>2, <1>3
<1> QED
  BY <1>2, <1>4

(* What the two shapes of a step do to the stack and to the tree.          *)
LEMMA StepsOnShape ==
  ASSUME Typed, NEW p, NEW k, NEW fdata, StepsOn(p, k, fdata)
  PROVE  /\ stack' \in Seq(Frame) /\ stack' # << >> /\ Len(stack') = Len(stack)
         /\ GoneOn(stack'[1], p, k)
         /\ \A i \in 2..Len(stack) : stack'[i] = stack[i]
         /\ dtree' \in Seq(DataNode) /\ Len(dtree') = Len(dtree) + 1
         /\ IsNewNode(dtree'[Len(dtree) + 1], p.offset)
         /\ \A i \in 1..Len(dtree) : dtree'[i] = dtree[i]
<1>1. /\ p \in DissectPosition /\ k \in Nat /\ fdata \in FieldData /\ Walking
      /\ StepsOver(node, top.pos, p, k)
      /\ stack' = << Onward(p, k) >> \o Tail(stack)
      /\ AddNode(top.pos.offset, p.offset, fdata)
  BY DEF StepsOn
<1>2. Onward(p, k) \in Frame /\ GoneOn(Onward(p, k), p, k)
  BY <1>1, OnwardType
<1>3. stack \in Seq(Frame) /\ stack # << >>
  BY <1>1, TopTypes DEF Walking
<1>4. p.offset \in Nat
  BY <1>1 DEF DissectPosition
<1>5. /\ stack' \in Seq(Frame) /\ stack' # << >> /\ Len(stack') = Len(stack)
      /\ stack'[1] = Onward(p, k)
      /\ \A i \in 2..Len(stack) : stack'[i] = stack[i]
  BY <1>1, <1>2, <1>3, Replaced
<1> QED
  BY <1>1, <1>2, <1>4, <1>5, NodeAdded

LEMMA CallsForShape ==
  ASSUME Typed, NEW frame, NEW p, NEW k, NEW fdata, NEW till,
         CallsFor(frame, p, k, fdata, till)
  PROVE  /\ stack' \in Seq(Frame) /\ stack' # << >> /\ Len(stack') = Len(stack) + 1
         /\ stack'[1] = frame /\ GoneOn(stack'[2], p, k)
         /\ \A i \in 3..(Len(stack) + 1) : stack'[i] = stack[i - 1]
         /\ dtree' \in Seq(DataNode) /\ Len(dtree') = Len(dtree) + 1
         /\ IsNewNode(dtree'[Len(dtree) + 1], till)
         /\ \A i \in 1..Len(dtree) : dtree'[i] = dtree[i]
<1>1. /\ frame \in Frame /\ p \in DissectPosition /\ k \in Nat /\ fdata \in FieldData
      /\ till \in Nat /\ Walking
      /\ StepsOver(node, top.pos, p, k)
      /\ stack' = << frame, Onward(p, k) >> \o Tail(stack)
      /\ AddNode(top.pos.offset, till, fdata)
  BY DEF CallsFor
<1>2. Onward(p, k) \in Frame /\ GoneOn(Onward(p, k), p, k)
  BY <1>1, OnwardType
<1>3. stack \in Seq(Frame) /\ stack # << >>
  BY <1>1, TopTypes DEF Walking
<1>4. /\ stack' \in Seq(Frame) /\ stack' # << >> /\ Len(stack') = Len(stack) + 1
      /\ stack'[1] = frame /\ stack'[2] = Onward(p, k)
      /\ \A i \in 3..(Len(stack) + 1) : stack'[i] = stack[i - 1]
  BY <1>1, <1>2, <1>3, Pushed
<1> QED
  BY <1>1, <1>2, <1>4, NodeAdded

(* A return: the caller's frame, moved, and the node's window closed.      *)
LEMMA ReturnShape ==
  ASSUME Typed, Return
  PROVE  /\ phase = "fields" /\ Len(stack) > 1 /\ stack \in Seq(Frame)
         /\ stack' \in Seq(Frame) /\ stack' # << >> /\ Len(stack') = Len(stack) - 1
         /\ stack'[1].todo = stack[2].todo /\ stack'[1].own = stack[2].own
         /\ stack'[1].at = stack[2].at /\ stack'[1].loop = stack[2].loop
         /\ stack'[1].pos.offset = stack[1].pos.offset
         /\ stack'[1].pos.bytes = outer.bytes
         /\ stack[1].pos.rest # "fault"
         /\ stack'[1].pos.rest \in {stack[1].pos.rest, stack[2].pos.rest}
         /\ stack[1].own => /\ stack'[1].pos.pmap = stack[2].pos.pmap
                            /\ stack'[1].pos.pmap_idx = stack[2].pos.pmap_idx
                            /\ stack'[1].due = stack[2].due
         /\ ~stack[1].own => /\ stack'[1].pos = stack[1].pos
                             /\ stack'[1].due = stack[1].due
         /\ \A i \in 2..(Len(stack) - 1) : stack'[i] = stack[i + 1]
         /\ dtree \in Seq(DataNode) /\ dtree' \in Seq(DataNode) /\ Len(dtree') = Len(dtree)
         /\ \A i \in 1..Len(dtree) :
              dtree'[i] = IF i = stack[1].at
                          THEN [dtree[i] EXCEPT !.end = stack[1].pos.offset] ELSE dtree[i]
<1>1. /\ phase = "fields" /\ Len(stack) > 1 /\ top.pos.rest # "fault"
      /\ stack' = << Returned >> \o Tail(Tail(stack))
      /\ dtree' = [dtree EXCEPT ![top.at].end = top.pos.offset]
  BY DEF Return
<1>2. stack \in Seq(Frame) /\ top = stack[1] /\ dtree \in Seq(DataNode)
  BY <1>1, TopTypes
<1>3. caller = stack[2]
  BY <1>1, <1>2 DEF caller
<1>4. stack[1] \in Frame /\ stack[2] \in Frame
  BY <1>1, <1>2
<1>5. stack[1].pos.bytes = outer.bytes /\ stack[2].pos.bytes = outer.bytes
  BY <1>1, <1>2 DEF Typed, SameBytes
<1> DEFINE r == Returned
<1>6. /\ r \in Frame
      /\ r.todo = stack[2].todo /\ r.own = stack[2].own
      /\ r.at = stack[2].at /\ r.loop = stack[2].loop
      /\ r.pos.offset = stack[1].pos.offset /\ r.pos.bytes = outer.bytes
      /\ r.pos.rest \in {stack[1].pos.rest, stack[2].pos.rest}
      /\ stack[1].own => /\ r.pos.pmap = stack[2].pos.pmap
                         /\ r.pos.pmap_idx = stack[2].pos.pmap_idx
                         /\ r.due = stack[2].due
      /\ ~stack[1].own => r.pos = stack[1].pos /\ r.due = stack[1].due
  <2>1. CASE stack[1].own
    <3>1. r = [stack[2] EXCEPT !.pos.offset = stack[1].pos.offset]
      BY <1>2, <1>3, <2>1 DEF Returned
    <3>2. stack[1].pos.offset \in Nat /\ stack[1].pos.offset <= Len(stack[2].pos.bytes)
      BY <1>4, <1>5 DEF Frame, DissectPosition
    <3>3. [stack[2].pos EXCEPT !.offset = stack[1].pos.offset] \in DissectPosition
      BY <1>4, <3>2 DEF Frame, DissectPosition
    <3> HIDE DEF r
    <3>4. r.pos = [stack[2].pos EXCEPT !.offset = stack[1].pos.offset]
      BY <1>4, <3>1 DEF Frame
    <3>5. /\ r.pos.offset = stack[1].pos.offset /\ r.pos.bytes = stack[2].pos.bytes
          /\ r.pos.pmap = stack[2].pos.pmap /\ r.pos.pmap_idx = stack[2].pos.pmap_idx
          /\ r.pos.rest = stack[2].pos.rest
      BY <1>4, <3>4 DEF Frame, DissectPosition
    <3>6. /\ r.todo = stack[2].todo /\ r.own = stack[2].own
          /\ r.at = stack[2].at /\ r.loop = stack[2].loop /\ r.due = stack[2].due
      BY <1>4, <3>1 DEF Frame
    <3>7. r \in Frame
      BY <1>4, <3>1, <3>3 DEF Frame
    <3> QED
      BY <1>5, <2>1, <3>5, <3>6, <3>7
  <2>2. CASE ~stack[1].own
    <3>1. r = [stack[2] EXCEPT !.pos = stack[1].pos, !.due = stack[1].due]
      BY <1>2, <1>3, <2>2 DEF Returned
    <3> HIDE DEF r
    <3> QED
      BY <1>4, <1>5, <2>2, <3>1 DEF Frame
  <2> QED
    BY <2>1, <2>2
<1>7. /\ stack' \in Seq(Frame) /\ stack' # << >> /\ Len(stack') = Len(stack) - 1
      /\ stack'[1] = r /\ \A i \in 2..(Len(stack) - 1) : stack'[i] = stack[i + 1]
  <2>1. stack' = <<r>> \o Tail(Tail(stack))
    BY <1>1
  <2>2. r \in Frame /\ stack \in Seq(Frame) /\ Len(stack) > 1
    BY <1>1, <1>2, <1>6
  <2> DEFINE after == <<r>> \o Tail(Tail(stack))
  <2> HIDE DEF r
  <2>3. /\ after \in Seq(Frame) /\ after # << >> /\ Len(after) = Len(stack) - 1
        /\ after[1] = r /\ \A i \in 2..(Len(stack) - 1) : after[i] = stack[i + 1]
    BY <2>2, Popped
  <2> QED
    BY <2>1, <2>3
<1>8. /\ dtree' \in Seq(DataNode) /\ Len(dtree') = Len(dtree)
      /\ \A i \in 1..Len(dtree) :
           dtree'[i] = IF i = stack[1].at
                       THEN [dtree[i] EXCEPT !.end = stack[1].pos.offset] ELSE dtree[i]
  <2>1. stack[1].pos.offset \in Nat
    BY <1>4 DEF Frame, DissectPosition
  <2>2. dtree' = [dtree EXCEPT ![stack[1].at] =
                    [dtree[stack[1].at] EXCEPT !.end = stack[1].pos.offset]]
    BY <1>1, <1>2
  <2> DEFINE closed(i) == [dtree[i] EXCEPT !.end = stack[1].pos.offset]
  <2>3. ASSUME NEW i \in DOMAIN dtree PROVE closed(i) \in DataNode
    <3>1. dtree[i] \in DataNode
      BY <1>2
    <3> QED
      BY <2>1, <3>1 DEF DataNode
  <2> DEFINE k == stack[1].at
             c == closed(k)
  <2>4. dtree' = [dtree EXCEPT ![k] = c]
    BY <2>2
  <2>5. k \in DOMAIN dtree => c \in DataNode
    BY <2>3
  <2> HIDE DEF c
  <2>6. /\ dtree' \in Seq(DataNode) /\ Len(dtree') = Len(dtree)
        /\ \A i \in 1..Len(dtree) : dtree'[i] = IF i = k THEN c ELSE dtree[i]
    <3> HIDE DEF k
    <3> QED
      BY <1>2, <2>4, <2>5, Updated
  <2> QED
    BY <2>6 DEF c
<1> HIDE DEF r
<1> QED
  BY <1>1, <1>2, <1>6, <1>7, <1>8

(* A message begins with one activation of its own.                        *)
LEMMA BeginShape ==
  ASSUME Typed, BeginMessage
  PROVE  /\ phase' = "fields" /\ dtree' = << >> /\ template_id' \in Tid
         /\ stack' \in Seq(Frame) /\ stack' # << >> /\ Len(stack') = 1
         /\ DOMAIN stack' = {1}
         /\ stack'[1].own /\ stack'[1].at = 0 /\ stack'[1].pos.bytes = outer.bytes
         /\ InStep(stack'[1].pos, stack'[1].due)
         /\ Placed(stack'[1].pos) /\ stack'[1].pos.rest # "fault"
         /\ UNCHANGED <<flavored, tab, outer, packets>>
<1> DEFINE h == MessageHead(outer)
           q == HeadPosition(h)
           f == [todo |-> Template[template_id'], pos |-> q, at |-> 0, own |-> TRUE,
                 loop |-> FALSE, due |-> 1]
<1>1. /\ template_id' \in Tid /\ stack' = << f >>
      /\ phase' = "fields" /\ dtree' = << >> /\ UNCHANGED <<flavored, tab, outer, packets>>
  BY DEF BeginMessage
<1>2. /\ q \in DissectPosition /\ q.bytes = outer.bytes
      /\ q.pmap_idx = IF 1 <= Len(q.pmap) THEN 1 ELSE 0
      /\ q.rest # "fault" /\ Placed(q)
  BY HeadType DEF Typed, TypeOK, BeginMessage, HasHead, Placed
<1> HIDE DEF q
<1>3. f \in Frame
  BY <1>1, <1>2, NodeAssumption DEF Frame
<1>4. InStep(q, 1)
  BY <1>2 DEF InStep, MinOf, DissectPosition
<1>5. f.pos = q /\ f.own /\ f.at = 0 /\ f.due = 1
  OBVIOUS
<1> HIDE DEF f
<1>6. /\ stack' \in Seq(Frame) /\ stack' # << >> /\ Len(stack') = 1
      /\ DOMAIN stack' = {1} /\ stack'[1] = f
  BY <1>1, <1>3
<1> QED
  BY <1>1, <1>2, <1>4, <1>5, <1>6

(* An unknown template id leaves the packet used up. *)
LEMMA UnknownTyped ==
  ASSUME Typed, UnknownTemplate
  PROVE  Typed'
<1> DEFINE h == MessageHead(outer)
           q == HeadPosition(h)
<1>1. /\ phase = "packet" /\ template_id' = HeadId(h, template_id)
      /\ outer' = [q EXCEPT !.offset = Len(outer.bytes), !.rest = "none"]
      /\ dtree' = << >> /\ UNCHANGED <<flavored, tab, phase, stack, packets>>
  BY DEF UnknownTemplate
<1>2. q \in DissectPosition /\ q.bytes = outer.bytes /\ template_id' \in Nat
  BY <1>1, HeadType, HeadIdType DEF Typed, TypeOK
<1> HIDE DEF q
<1> DEFINE u == [q EXCEPT !.offset = Len(outer.bytes)]
<1>5. u \in DissectPosition
  BY <1>2 DEF DissectPosition
<1>6. outer' = [u EXCEPT !.rest = "none"]
  BY <1>1
<1> HIDE DEF u
<1>3. outer' \in DissectPosition /\ outer'.rest = "none"
  BY <1>5, <1>6 DEF DissectPosition
<1>4. stack' = << >>
  BY <1>1 DEF Typed, TypeOK
<1> QED
  BY <1>1, <1>2, <1>3, <1>4 DEF Typed, TypeOK, SameBytes

(* A step within a message leaves TypeOK to the stack and the tree.        *)
LEMMA WithinTyped ==
  ASSUME Typed, phase = "fields", Within,
         stack' \in Seq(Frame), stack' # << >>, dtree' \in Seq(DataNode),
         \A i \in DOMAIN stack' : Placed(stack'[i].pos), NoneGoesOn(stack')
  PROVE  Typed'
<1>1. Head(stack') = stack'[1]
  OBVIOUS
<1>2. \A i \in DOMAIN stack' :
        stack'[i].pos.rest = "fault" => Head(stack').pos.rest = "fault"
  BY <1>1 DEF NoneGoesOn
<1> QED
  BY <1>2 DEF Typed, TypeOK, SameBytes, Within, Placed

LEMMA StepsOnTyped ==
  ASSUME Typed, Within, NEW p, NEW k, NEW fdata, StepsOn(p, k, fdata)
  PROVE  Typed'
<1>1. /\ stack' \in Seq(Frame) /\ stack' # << >> /\ Len(stack') = Len(stack)
      /\ GoneOn(stack'[1], p, k)
      /\ \A i \in 2..Len(stack) : stack'[i] = stack[i]
      /\ dtree' \in Seq(DataNode)
  BY StepsOnShape
<1>2. phase = "fields" /\ top.pos.rest # "fault"
  BY DEF StepsOn, Walking
<1>3. /\ stack \in Seq(Frame) /\ Len(stack) \in Nat /\ top = stack[1]
      /\ Len(stack) >= 1 /\ NoneGoesOn(stack)
      /\ \A i \in DOMAIN stack : Placed(stack[i].pos)
  BY <1>2, TopTypes
<1>4. ASSUME NEW i \in DOMAIN stack'
      PROVE  i = 1 \/ (i \in 2..Len(stack) /\ i \in DOMAIN stack /\ stack'[i] = stack[i])
  BY <1>1, <1>3
<1>5. \A i \in DOMAIN stack' : Placed(stack'[i].pos)
  BY <1>1, <1>3, <1>4 DEF GoneOn
<1>6. NoneGoesOn(stack')
  BY <1>2, <1>3, <1>4 DEF NoneGoesOn
<1> QED
  BY <1>1, <1>2, <1>5, <1>6, WithinTyped

LEMMA CallsForTyped ==
  ASSUME Typed, Within, NEW frame, NEW p, NEW k, NEW fdata, NEW till,
         CallsFor(frame, p, k, fdata, till)
  PROVE  Typed'
<1>1. /\ stack' \in Seq(Frame) /\ stack' # << >> /\ Len(stack') = Len(stack) + 1
      /\ stack'[1] = frame /\ GoneOn(stack'[2], p, k)
      /\ \A i \in 3..(Len(stack) + 1) : stack'[i] = stack[i - 1]
      /\ dtree' \in Seq(DataNode)
  BY CallsForShape
<1>2. phase = "fields" /\ top.pos.rest # "fault"
  BY DEF CallsFor, Walking
<1>3. stack'[2].pos.rest = "fault" => frame.pos.rest = "fault"
  BY <1>1 DEF CallsFor, GoneOn
<1>4. /\ stack \in Seq(Frame) /\ Len(stack) \in Nat /\ top = stack[1]
      /\ NoneGoesOn(stack) /\ Len(stack) >= 1
      /\ \A i \in 1..Len(stack) : Placed(stack[i].pos)
  BY <1>2, TopTypes
<1>5. ASSUME NEW i \in DOMAIN stack'
      PROVE  \/ i = 1 \/ i = 2
             \/ i - 1 \in DOMAIN stack /\ stack'[i] = stack[i - 1]
  <2>1. i = 1 \/ i = 2 \/ (i \in 3..(Len(stack) + 1) /\ i - 1 \in 1..Len(stack))
    BY <1>1, <1>4
  <2> QED
    BY <1>1, <1>4, <2>1
<1>6. Placed(frame.pos)
  BY <1>1 DEF CallsFor, GoneOn, Placed
<1>9. Placed(stack'[2].pos)
  BY <1>1 DEF GoneOn
<1>7. ASSUME NEW i \in DOMAIN stack' PROVE Placed(stack'[i].pos)
  <2>1. CASE i \in {1, 2}
    BY <1>1, <1>6, <1>9, <2>1
  <2>2. CASE i \notin {1, 2}
    <3>1. i - 1 \in DOMAIN stack /\ stack'[i] = stack[i - 1]
      BY <1>5, <2>2
    <3> QED
      BY <1>4, <3>1
  <2> QED
    BY <2>1, <2>2
<1>8. NoneGoesOn(stack')
  BY <1>1, <1>2, <1>3, <1>4, <1>5 DEF NoneGoesOn
<1> QED
  BY <1>1, <1>2, <1>7, <1>8, WithinTyped

LEMMA ReturnTyped ==
  ASSUME Typed, Return
  PROVE  Typed'
<1>1. /\ phase = "fields" /\ Len(stack) > 1 /\ stack \in Seq(Frame)
      /\ stack' \in Seq(Frame) /\ stack' # << >> /\ Len(stack') = Len(stack) - 1
      /\ stack'[1].pos.bytes = outer.bytes /\ stack[1].pos.rest # "fault"
      /\ stack'[1].pos.rest \in {stack[1].pos.rest, stack[2].pos.rest}
      /\ \A i \in 2..(Len(stack) - 1) : stack'[i] = stack[i + 1]
      /\ dtree' \in Seq(DataNode)
  BY ReturnShape
<1>2. Within
  BY DEF Return, Within, Typed, TypeOK
<1>3. NoneGoesOn(stack) /\ \A i \in DOMAIN stack : Placed(stack[i].pos)
  BY <1>1, TopTypes
<1>4. ASSUME NEW i \in DOMAIN stack'
      PROVE  i = 1 \/ (i + 1 \in DOMAIN stack /\ stack'[i] = stack[i + 1])
  <2>1. i = 1 \/ (i \in 2..(Len(stack) - 1) /\ i + 1 \in DOMAIN stack)
    BY <1>1
  <2> QED
    BY <1>1, <2>1
<1>5. 1 \in DOMAIN stack /\ 2 \in DOMAIN stack
  BY <1>1
<1>6. Placed(stack'[1].pos) /\ stack'[1].pos.rest # "fault"
  BY <1>1, <1>3, <1>5 DEF Placed, NoneGoesOn
<1>7. \A i \in DOMAIN stack' : Placed(stack'[i].pos)
  BY <1>3, <1>4, <1>6
<1>8. NoneGoesOn(stack')
  BY <1>1, <1>3, <1>4, <1>6 DEF NoneGoesOn
<1> QED
  BY <1>1, <1>2, <1>7, <1>8, WithinTyped

(* Leaving the loop drops the elements still to come. *)
LEMMA BailShape ==
  ASSUME Typed, Bail
  PROVE  /\ phase = "fields" /\ Within /\ dtree' = dtree
         /\ stack' \in Seq(Frame) /\ stack' # << >> /\ Len(stack') = Len(stack)
         /\ stack'[1] = [stack[1] EXCEPT !.todo = << >>]
         /\ \A i \in 2..Len(stack) : stack'[i] = stack[i]
<1>1. /\ phase = "fields" /\ stack' = << [top EXCEPT !.todo = << >>] >> \o Tail(stack)
      /\ UNCHANGED <<flavored, tab, template_id, phase, outer, dtree, packets>>
  BY DEF Bail, Walking
<1>2. stack \in Seq(Frame) /\ stack # << >> /\ top = stack[1] /\ stack[1] \in Frame
  BY <1>1, TopTypes
<1> DEFINE f == [stack[1] EXCEPT !.todo = << >>]
<1>3. f \in Frame
  <2>1. << >> \in Seq(Node)
    OBVIOUS
  <2> QED
    BY <1>2, <2>1 DEF Frame
<1>4. stack' = << f >> \o Tail(stack)
  BY <1>1, <1>2
<1> HIDE DEF f
<1>5. /\ stack' \in Seq(Frame) /\ stack' # << >> /\ Len(stack') = Len(stack)
      /\ stack'[1] = f
      /\ \A i \in 2..Len(stack) : stack'[i] = stack[i]
  BY <1>2, <1>3, <1>4, Replaced
<1>6. Within
  BY <1>1 DEF Within, Typed, TypeOK
<1> QED
  BY <1>1, <1>5, <1>6 DEF f

LEMMA BailTyped ==
  ASSUME Typed, Bail
  PROVE  Typed'
<1>1. /\ phase = "fields" /\ Within /\ dtree' = dtree
      /\ stack' \in Seq(Frame) /\ stack' # << >> /\ Len(stack') = Len(stack)
      /\ stack'[1] = [stack[1] EXCEPT !.todo = << >>]
      /\ \A i \in 2..Len(stack) : stack'[i] = stack[i]
  BY BailShape
<1>2. /\ dtree \in Seq(DataNode) /\ stack[1] \in Frame
      /\ Len(stack) \in Nat /\ Len(stack) >= 1 /\ stack \in Seq(Frame)
      /\ NoneGoesOn(stack) /\ \A i \in DOMAIN stack : Placed(stack[i].pos)
  BY <1>1, TopTypes
<1>3. stack'[1].pos = stack[1].pos
  BY <1>1, <1>2 DEF Frame
<1>4. ASSUME NEW i \in DOMAIN stack'
      PROVE  i \in DOMAIN stack /\ stack'[i].pos = stack[i].pos
  <2>1. i \in DOMAIN stack /\ (i = 1 \/ i \in 2..Len(stack))
    BY <1>1, <1>2
  <2> QED
    BY <1>1, <1>3, <2>1
<1>5. \A i \in DOMAIN stack' : Placed(stack'[i].pos)
  BY <1>2, <1>4
<1>6. NoneGoesOn(stack')
  BY <1>2, <1>3, <1>4 DEF NoneGoesOn
<1> QED
  BY <1>1, <1>2, <1>5, <1>6, WithinTyped

(***************************************************************************)
(* The actions by their shape: every proof about a step splits on these.   *)
(***************************************************************************)
Between == EndMessage \/ EndPacket \/ ReceivePacket \/ ReceiveShort \/ Crash

LEMMA NextShapes ==
  ASSUME [Next]_vars
  PROVE  \/ BeginMessage \/ UnknownTemplate \/ Walk \/ Descend \/ Bail \/ Return
         \/ Between \/ UNCHANGED vars
BY DEF Next, Dissect, Stop, Between, Walk, Descend

(* Between messages there is no activation.                                *)
LEMMA BetweenShape ==
  ASSUME Typed, Between
  PROVE  stack' = << >> /\ phase' # "fields" /\ (dtree' = dtree \/ dtree' = << >>)
BY DEF Between, EndMessage, EndPacket, Receive, ReceivePacket, ReceiveShort, Crash,
   Typed, TypeOK

(* A packet, or the memory behind one that is too short, is a position.    *)
LEMMA ReceiveTyped ==
  ASSUME Typed, NEW bytes \in Seq(Token), NEW rest \in {"none", "torn", "outside"},
         rest = "outside" => flavored, Receive(bytes, rest)
  PROVE  Typed'
<1> DEFINE none == << >>
           q == [bytes |-> bytes, rest |-> "none", offset |-> 0, pmap |-> none,
                 pmap_idx |-> 0]
           p == [bytes |-> bytes, rest |-> rest, offset |-> 0, pmap |-> none,
                 pmap_idx |-> 0]
<1>1. none \in Seq(BOOLEAN) /\ Len(none) = 0 /\ Len(bytes) \in Nat
  OBVIOUS
<1>2. outer' = p
  <2>1. [Nowhere EXCEPT !.bytes = bytes] = q
    BY DEF Nowhere
  <2>2. [q EXCEPT !.rest = rest] = p
    OBVIOUS
  <2> HIDE DEF p, q
  <2> QED
    BY <2>1, <2>2 DEF Receive
<1> HIDE DEF none
<1>3. p \in DissectPosition /\ p.rest = rest
  BY <1>1 DEF DissectPosition
<1> HIDE DEF p
<1>4. stack = << >> /\ dtree' \in Seq(DataNode)
  BY DEF Receive, Typed, TypeOK
<1> QED
  BY <1>2, <1>3, <1>4 DEF Receive, Typed, TypeOK, SameBytes

LEMMA TypedNext ==
  ASSUME Typed, [Next]_vars
  PROVE  Typed'
<1>1. CASE ReceivePacket \/ ReceiveShort
  <2>1. PICK p \in Packet : \/ Receive(p.bytes, p.rest)
                            \/ flavored /\ Receive(p.bytes, "outside")
    BY <1>1 DEF ReceivePacket, ReceiveShort
  <2>2. p.bytes \in Seq(Token) /\ p.rest \in {"none", "torn"}
    BY PacketAssumption
  <2> QED
    BY <2>1, <2>2, ReceiveTyped
<1>2. CASE BeginMessage
  <2>1. /\ phase' = "fields" /\ dtree' = << >> /\ template_id' \in Tid
        /\ stack' \in Seq(Frame) /\ stack' # << >> /\ DOMAIN stack' = {1}
        /\ Placed(stack'[1].pos) /\ stack'[1].pos.rest # "fault"
        /\ UNCHANGED <<flavored, tab, outer, packets>>
    BY <1>2, BeginShape
  <2>2. << >> \in Seq(DataNode) /\ template_id' \in Nat
    BY <2>1, NameAssumption
  <2> QED
    BY <2>1, <2>2 DEF Typed, TypeOK, SameBytes, Placed
<1>3. CASE EndMessage
  <2>1. top.pos \in DissectPosition /\ Placed(top.pos) /\ top.pos.rest # "fault"
    BY <1>3, TopTypes DEF EndMessage
  <2> QED
    BY <1>3, <2>1 DEF EndMessage, Typed, TypeOK, SameBytes, Placed
<1>4. CASE EndPacket
  <2>1. EmptyTables \in ConversationTables
    BY DEF EmptyTables, ConversationTables
  <2> QED
    BY <1>4, <2>1 DEF EndPacket, Typed, TypeOK, SameBytes
<1>6. CASE Crash
  BY <1>6 DEF Crash, Typed, TypeOK, SameBytes
<1>5. CASE UNCHANGED vars
  BY <1>5 DEF vars, Typed, TypeOK, SameBytes
<1> QED
  BY <1>1, <1>2, <1>3, <1>4, <1>5, <1>6, NextShapes, UnknownTyped, WalkSteps, StepsOnTyped,
     DescendCalls, CallsForTyped, ReturnTyped, BailTyped DEF Between

(***************************************************************************)
(* However deep the nesting and wherever the packet is cut, the dissection *)
(* never leaves a presence map, and it leaves the packet only if this is   *)
(* shorter than the header of its flavor, which dissect_fast skips without *)
(* looking.  dissector_walk, dissect_group, dissect_sequence and           *)
(* dissect_decimal hand one another no other positions, and no activation  *)
(* goes on behind one that has read memory that may not be read.           *)
(***************************************************************************)
THEOREM NestingTypeCorrect == Spec => []TypeOK
<1>1. Init => Typed
  BY InitTyped
<1>2. Typed /\ [Next]_vars => Typed'
  BY TypedNext
<1>3. Typed => TypeOK
  BY DEF Typed
<1> QED
  BY <1>1, <1>2, <1>3, PTL DEF Spec

--------------------------------------------------------------------------------
(* Shared presence maps.                                                   *)

(***************************************************************************)
(* Whatever an activation without a presence map of its own has left to    *)
(* walk needs no bit, and it stands in its caller's map where its caller   *)
(* does; so do the loops over the elements of a sequence.                  *)
(***************************************************************************)
Modest ==
  \A i \in DOMAIN stack :
    ~stack[i].own => \A m \in NodesOf(stack[i].todo) : NeedsNoBit(m)

SameMap ==
  \A i \in 1..(Len(stack) - 1) :
    ~stack[i].own => stack[i].pos.pmap_idx = stack[i + 1].pos.pmap_idx

Sharing == Modest /\ SameMap

LEMMA StepsOnSharing ==
  ASSUME Typed, Sharing, NEW p, NEW k, NEW fdata, StepsOn(p, k, fdata)
  PROVE  Sharing'
<1>1. /\ stack' \in Seq(Frame) /\ Len(stack') = Len(stack)
      /\ GoneOn(stack'[1], p, k)
      /\ \A i \in 2..Len(stack) : stack'[i] = stack[i]
  BY StepsOnShape
<1>2. phase = "fields" /\ top.todo # << >> /\ StepsOver(node, top.pos, p, k)
  BY DEF StepsOn, Walking
<1>3. /\ stack \in Seq(Frame) /\ Len(stack) \in Nat /\ Len(stack) >= 1 /\ top = stack[1]
      /\ node \in NodesOf(top.todo)
      /\ NodesOf(Tail(top.todo)) \subseteq NodesOf(top.todo)
  BY <1>2, TopTypes
<1>4. ~top.own => NeedsNoBit(node) /\ p.pmap_idx = top.pos.pmap_idx
  BY <1>2, <1>3 DEF Sharing, Modest, StepsOver
<1>5. ASSUME NEW i \in DOMAIN stack', ~stack'[i].own, NEW m \in NodesOf(stack'[i].todo)
      PROVE  NeedsNoBit(m)
  <2>1. CASE i = 1
    BY <1>1, <1>3, <1>5, <2>1 DEF Sharing, Modest, GoneOn
  <2>2. CASE i \in 2..Len(stack)
    BY <1>1, <1>3, <1>5, <2>2 DEF Sharing, Modest
  <2> QED
    BY <1>1, <2>1, <2>2
<1>6. ASSUME NEW i \in 1..(Len(stack') - 1), ~stack'[i].own
      PROVE  stack'[i].pos.pmap_idx = stack'[i + 1].pos.pmap_idx
  <2>1. stack'[i + 1] = stack[i + 1]
    BY <1>1, <1>3, <1>6
  <2>2. CASE i = 1
    BY <1>1, <1>3, <1>4, <1>6, <2>1, <2>2 DEF Sharing, SameMap, GoneOn
  <2>3. CASE i \in 2..Len(stack)
    BY <1>1, <1>3, <1>6, <2>1, <2>3 DEF Sharing, SameMap
  <2> QED
    BY <1>1, <1>3, <2>2, <2>3
<1> QED
  BY <1>5, <1>6 DEF Sharing, Modest, SameMap

LEMMA CallsForSharing ==
  ASSUME Typed, Sharing, NEW frame, NEW p, NEW k, NEW fdata, NEW till,
         CallsFor(frame, p, k, fdata, till)
  PROVE  Sharing'
<1>1. /\ stack' \in Seq(Frame) /\ Len(stack') = Len(stack) + 1
      /\ stack'[1] = frame /\ GoneOn(stack'[2], p, k)
      /\ \A i \in 3..(Len(stack) + 1) : stack'[i] = stack[i - 1]
  BY CallsForShape
<1>2. /\ phase = "fields" /\ top.todo # << >> /\ StepsOver(node, top.pos, p, k)
      /\ ~frame.own => frame.pos = p /\ \A m \in NodesOf(frame.todo) : NeedsNoBit(m)
  BY DEF CallsFor, Walking
<1>3. /\ stack \in Seq(Frame) /\ Len(stack) \in Nat /\ Len(stack) >= 1 /\ top = stack[1]
      /\ node \in NodesOf(top.todo)
      /\ NodesOf(Tail(top.todo)) \subseteq NodesOf(top.todo)
  BY <1>2, TopTypes
<1>4. ~top.own => NeedsNoBit(node) /\ p.pmap_idx = top.pos.pmap_idx
  BY <1>2, <1>3 DEF Sharing, Modest, StepsOver
<1>5. ASSUME NEW i \in DOMAIN stack', ~stack'[i].own, NEW m \in NodesOf(stack'[i].todo)
      PROVE  NeedsNoBit(m)
  <2>1. CASE i = 1
    BY <1>1, <1>2, <1>5, <2>1
  <2>2. CASE i = 2
    BY <1>1, <1>3, <1>5, <2>2 DEF Sharing, Modest, GoneOn
  <2>3. CASE i \in 3..(Len(stack) + 1)
    <3>1. i - 1 \in DOMAIN stack /\ stack'[i] = stack[i - 1]
      BY <1>1, <1>3, <2>3
    <3> QED
      BY <1>5, <3>1 DEF Sharing, Modest
  <2> QED
    BY <1>1, <1>3, <2>1, <2>2, <2>3
<1>6. ASSUME NEW i \in 1..(Len(stack') - 1), ~stack'[i].own
      PROVE  stack'[i].pos.pmap_idx = stack'[i + 1].pos.pmap_idx
  <2>1. CASE i = 1
    BY <1>1, <1>2, <1>6, <2>1 DEF GoneOn
  <2>2. CASE i = 2
    <3>1. stack'[3] = stack[2] /\ 1 \in 1..(Len(stack) - 1)
      BY <1>1, <1>3, <2>2
    <3> QED
      BY <1>1, <1>3, <1>4, <1>6, <2>2, <3>1 DEF Sharing, SameMap, GoneOn
  <2>3. CASE i \in 3..Len(stack)
    <3>1. /\ stack'[i] = stack[i - 1] /\ stack'[i + 1] = stack[(i - 1) + 1]
          /\ i - 1 \in 1..(Len(stack) - 1)
      BY <1>1, <1>3, <2>3
    <3> QED
      BY <1>6, <3>1 DEF Sharing, SameMap
  <2> QED
    BY <1>1, <1>3, <2>1, <2>2, <2>3
<1> QED
  BY <1>5, <1>6 DEF Sharing, Modest, SameMap

LEMMA ReturnSharing ==
  ASSUME Typed, Sharing, Return
  PROVE  Sharing'
<1>1. /\ Len(stack) > 1 /\ stack \in Seq(Frame)
      /\ stack' \in Seq(Frame) /\ Len(stack') = Len(stack) - 1
      /\ stack'[1].todo = stack[2].todo /\ stack'[1].own = stack[2].own
      /\ stack[1].own => stack'[1].pos.pmap_idx = stack[2].pos.pmap_idx
      /\ ~stack[1].own => stack'[1].pos = stack[1].pos
      /\ \A i \in 2..(Len(stack) - 1) : stack'[i] = stack[i + 1]
  BY ReturnShape
<1>2. stack'[1].pos.pmap_idx = stack[2].pos.pmap_idx
  BY <1>1 DEF Sharing, SameMap
<1>3. ASSUME NEW i \in DOMAIN stack', ~stack'[i].own, NEW m \in NodesOf(stack'[i].todo)
      PROVE  NeedsNoBit(m)
  <2>1. /\ i + 1 \in DOMAIN stack
        /\ stack'[i].own = stack[i + 1].own /\ stack'[i].todo = stack[i + 1].todo
    BY <1>1
  <2> QED
    BY <1>3, <2>1 DEF Sharing, Modest
<1>4. ASSUME NEW i \in 1..(Len(stack') - 1), ~stack'[i].own
      PROVE  stack'[i].pos.pmap_idx = stack'[i + 1].pos.pmap_idx
  <2>1. /\ i + 1 \in 1..(Len(stack) - 1)
        /\ stack'[i].own = stack[i + 1].own
        /\ stack'[i].pos.pmap_idx = stack[i + 1].pos.pmap_idx
        /\ stack'[i + 1] = stack[(i + 1) + 1]
    BY <1>1, <1>2, SMTT(30)
  <2> QED
    BY <1>4, <2>1 DEF Sharing, SameMap
<1> QED
  BY <1>3, <1>4 DEF Sharing, Modest, SameMap

LEMMA SharingNext ==
  ASSUME Typed, Sharing, [Next]_vars
  PROVE  Sharing'
<1>1. CASE BeginMessage
  <2>1. Len(stack') = 1 /\ DOMAIN stack' = {1} /\ stack'[1].own
    BY <1>1, BeginShape
  <2>2. Modest'
    BY <2>1 DEF Modest
  <2>3. SameMap'
    BY <2>1 DEF SameMap
  <2> QED
    BY <2>2, <2>3 DEF Sharing
<1>2. CASE UnknownTemplate
  BY <1>2 DEF UnknownTemplate, Sharing, Modest, SameMap
<1>3. CASE Between
  BY <1>3, BetweenShape DEF Sharing, Modest, SameMap
<1>4. CASE Bail
  <2>1. /\ phase = "fields" /\ stack' \in Seq(Frame) /\ Len(stack') = Len(stack)
        /\ stack'[1] = [stack[1] EXCEPT !.todo = << >>]
        /\ \A i \in 2..Len(stack) : stack'[i] = stack[i]
    BY <1>4, BailShape
  <2>2. stack[1] \in Frame /\ Len(stack) \in Nat /\ stack \in Seq(Frame)
    BY <2>1, TopTypes
  <2>3. /\ stack'[1].todo = << >> /\ stack'[1].own = stack[1].own
        /\ stack'[1].pos = stack[1].pos
    BY <2>1, <2>2 DEF Frame
  <2>4. NodesOf(<< >>) = {}
    BY DEF NodesOf
  <2>5. ASSUME NEW i \in DOMAIN stack'
        PROVE  /\ i \in DOMAIN stack /\ stack'[i].own = stack[i].own
               /\ stack'[i].pos = stack[i].pos
               /\ NodesOf(stack'[i].todo) \subseteq NodesOf(stack[i].todo)
    <3>1. i \in DOMAIN stack /\ (i = 1 \/ i \in 2..Len(stack))
      BY <2>1, <2>2
    <3>2. CASE i = 1
      BY <2>3, <2>4, <3>1, <3>2
    <3>3. CASE i \in 2..Len(stack)
      BY <2>1, <3>1, <3>3
    <3> QED
      BY <3>1, <3>2, <3>3
  <2>6. Modest'
    BY <2>5 DEF Sharing, Modest
  <2>7. SameMap'
    <3> SUFFICES ASSUME NEW i \in 1..(Len(stack') - 1), ~stack'[i].own
                 PROVE  stack'[i].pos.pmap_idx = stack'[i + 1].pos.pmap_idx
      BY DEF SameMap
    <3>1. i \in DOMAIN stack' /\ i + 1 \in DOMAIN stack' /\ i \in 1..(Len(stack) - 1)
      BY <2>1, <2>2
    <3> QED
      BY <2>5, <3>1 DEF Sharing, SameMap
  <2> QED
    BY <2>6, <2>7 DEF Sharing
<1>5. CASE UNCHANGED vars
  BY <1>5 DEF vars, Sharing, Modest, SameMap
<1> QED
  BY <1>1, <1>2, <1>3, <1>4, <1>5, NextShapes, WalkSteps, StepsOnSharing,
     DescendCalls, CallsForSharing, ReturnSharing

(***************************************************************************)
(* dissect_group may share its caller's position with a group for which    *)
(* fixup_walk_template found no need of a presence map: at every depth and *)
(* at every moment such a group stands in the map where its caller does.   *)
(***************************************************************************)
THEOREM NoBitForSharedMap == Spec => []SharedMapUntouched
<1>1. Init => Typed /\ Sharing
  BY InitTyped DEF Init, Sharing, Modest, SameMap
<1>2. (Typed /\ Sharing) /\ [Next]_vars => (Typed /\ Sharing)'
  BY TypedNext, SharingNext
<1>3. Typed /\ Sharing => SharedMapUntouched
  BY DEF Sharing, SameMap, SharedMapUntouched
<1> QED
  BY <1>1, <1>2, <1>3, PTL DEF Spec

--------------------------------------------------------------------------------
(* Presence maps in step with the template.                                *)

(* Every frame whose map no other frame shares stands where it should.     *)
StandsInStep(i) ==
  (i = 1 \/ stack[i - 1].own) => InStep(stack[i].pos, stack[i].due)

LEMMA AgreementIs ==
  NestedPmapAgreement <=>
    ((\A i \in DOMAIN dtree : ~OutOfStep(dtree[i].node)) =>
       \A i \in DOMAIN stack : StandsInStep(i))
BY DEF NestedPmapAgreement, StandsInStep, InStep

LEMMA StepsOnAgrees ==
  ASSUME Typed, NestedPmapAgreement, NEW p, NEW k, NEW fdata, StepsOn(p, k, fdata)
  PROVE  NestedPmapAgreement'
<1>1. /\ stack' \in Seq(Frame) /\ Len(stack') = Len(stack)
      /\ GoneOn(stack'[1], p, k)
      /\ \A i \in 2..Len(stack) : stack'[i] = stack[i]
      /\ dtree' \in Seq(DataNode) /\ Len(dtree') = Len(dtree) + 1
      /\ IsNewNode(dtree'[Len(dtree) + 1], p.offset)
      /\ \A i \in 1..Len(dtree) : dtree'[i] = dtree[i]
  BY StepsOnShape
<1>2. /\ phase = "fields" /\ top.todo # << >> /\ StepsOver(node, top.pos, p, k)
      /\ k \in Nat
  BY DEF StepsOn, Walking
<1>3. /\ stack \in Seq(Frame) /\ Len(stack) \in Nat /\ Len(stack) >= 1 /\ top = stack[1]
      /\ top \in Frame /\ top.pos \in DissectPosition /\ top.due \in Nat
      /\ dtree \in Seq(DataNode)
  BY <1>2, TopTypes DEF Frame
<1> SUFFICES ASSUME \A i \in DOMAIN dtree' : ~OutOfStep(dtree'[i].node),
                    NEW i \in DOMAIN stack', i = 1 \/ stack'[i - 1].own
             PROVE  InStep(stack'[i].pos, stack'[i].due)
  BY DEF NestedPmapAgreement, InStep
<1>4. ~OutOfStep(node) /\ \A j \in DOMAIN dtree : ~OutOfStep(dtree[j].node)
  <2>1. dtree'[Len(dtree) + 1].node = node
    BY <1>1 DEF IsNewNode
  <2>2. Len(dtree) + 1 \in DOMAIN dtree' /\ DOMAIN dtree \subseteq DOMAIN dtree'
    BY <1>1, <1>3
  <2>3. ASSUME NEW j \in DOMAIN dtree PROVE dtree'[j] = dtree[j]
    <3>1. j \in 1..Len(dtree)
      BY <1>3
    <3> QED
      BY <1>1, <3>1
  <2> QED
    BY <2>1, <2>2, <2>3
<1>5. \A j \in DOMAIN stack : StandsInStep(j)
  BY <1>4, AgreementIs
<1>6. CASE i = 1
  <2>1. InStep(top.pos, top.due)
    BY <1>3, <1>5 DEF StandsInStep
  <2>2. InStep(p, top.due + k)
    BY <1>2, <1>3, <1>4, <2>1, TakesInStep DEF StepsOver
  <2> QED
    BY <1>1, <1>6, <2>2 DEF GoneOn
<1>7. CASE i \in 2..Len(stack)
  <2>1. i \in DOMAIN stack /\ stack'[i] = stack[i]
    BY <1>1, <1>3, <1>7
  <2>2. stack'[i - 1].own = stack[i - 1].own
    BY <1>1, <1>3, <1>7 DEF GoneOn
  <2> QED
    BY <1>5, <2>1, <2>2 DEF StandsInStep
<1> QED
  BY <1>1, <1>6, <1>7

LEMMA CallsForAgrees ==
  ASSUME Typed, NestedPmapAgreement, NEW frame, NEW p, NEW k, NEW fdata, NEW till,
         CallsFor(frame, p, k, fdata, till)
  PROVE  NestedPmapAgreement'
<1>1. /\ stack' \in Seq(Frame) /\ Len(stack') = Len(stack) + 1
      /\ stack'[1] = frame /\ GoneOn(stack'[2], p, k)
      /\ \A i \in 3..(Len(stack) + 1) : stack'[i] = stack[i - 1]
      /\ dtree' \in Seq(DataNode) /\ Len(dtree') = Len(dtree) + 1
      /\ IsNewNode(dtree'[Len(dtree) + 1], till)
      /\ \A i \in 1..Len(dtree) : dtree'[i] = dtree[i]
  BY CallsForShape
<1>2. /\ phase = "fields" /\ top.todo # << >> /\ StepsOver(node, top.pos, p, k)
      /\ k \in Nat
      /\ ~frame.own => frame.pos = p /\ frame.due = top.due + k
      /\ frame.own => InStep(frame.pos, frame.due)
  BY DEF CallsFor, Walking
<1>3. /\ stack \in Seq(Frame) /\ Len(stack) \in Nat /\ Len(stack) >= 1 /\ top = stack[1]
      /\ top \in Frame /\ top.pos \in DissectPosition /\ top.due \in Nat
      /\ dtree \in Seq(DataNode)
  BY <1>2, TopTypes DEF Frame
<1> SUFFICES ASSUME \A i \in DOMAIN dtree' : ~OutOfStep(dtree'[i].node),
                    NEW i \in DOMAIN stack', i = 1 \/ stack'[i - 1].own
             PROVE  InStep(stack'[i].pos, stack'[i].due)
  BY DEF NestedPmapAgreement, InStep
<1>4. ~OutOfStep(node) /\ \A j \in DOMAIN dtree : ~OutOfStep(dtree[j].node)
  <2>1. dtree'[Len(dtree) + 1].node = node
    BY <1>1 DEF IsNewNode
  <2>2. Len(dtree) + 1 \in DOMAIN dtree' /\ DOMAIN dtree \subseteq DOMAIN dtree'
    BY <1>1, <1>3
  <2>3. ASSUME NEW j \in DOMAIN dtree PROVE dtree'[j] = dtree[j]
    <3>1. j \in 1..Len(dtree)
      BY <1>3
    <3> QED
      BY <1>1, <3>1
  <2> QED
    BY <2>1, <2>2, <2>3
<1>5. \A j \in DOMAIN stack : StandsInStep(j)
  BY <1>4, AgreementIs
<1>6. InStep(p, top.due + k)
  <2>1. InStep(top.pos, top.due)
    BY <1>3, <1>5 DEF StandsInStep
  <2> QED
    BY <1>2, <1>3, <1>4, <2>1, TakesInStep DEF StepsOver
<1>7. CASE i = 1
  BY <1>1, <1>2, <1>6, <1>7
<1>8. CASE i = 2
  BY <1>1, <1>6, <1>8 DEF GoneOn
<1>9. CASE i \in 3..(Len(stack) + 1)
  <2>1. i - 1 \in DOMAIN stack /\ stack'[i] = stack[i - 1] /\ i - 1 >= 2
    BY <1>1, <1>3, <1>9
  <2>2. stack'[i - 1].own = stack[(i - 1) - 1].own
    <3>1. CASE i = 3
      BY <1>1, <1>3, <3>1 DEF GoneOn
    <3>2. CASE i # 3
      <4>1. i - 1 \in 3..(Len(stack) + 1)
        BY <1>3, <1>9, <3>2
      <4> QED
        BY <1>1, <4>1
    <3> QED
      BY <3>1, <3>2
  <2>3. stack[(i - 1) - 1].own
    BY <1>9, <2>2
  <2> QED
    BY <1>5, <2>1, <2>3 DEF StandsInStep
<1> QED
  BY <1>1, <1>3, <1>7, <1>8, <1>9

LEMMA ReturnAgrees ==
  ASSUME Typed, NestedPmapAgreement, Return
  PROVE  NestedPmapAgreement'
<1>1. /\ Len(stack) > 1 /\ stack \in Seq(Frame)
      /\ stack' \in Seq(Frame) /\ Len(stack') = Len(stack) - 1
      /\ stack'[1].own = stack[2].own
      /\ stack[1].own => /\ stack'[1].pos.pmap = stack[2].pos.pmap
                         /\ stack'[1].pos.pmap_idx = stack[2].pos.pmap_idx
                         /\ stack'[1].due = stack[2].due
      /\ ~stack[1].own => stack'[1].pos = stack[1].pos /\ stack'[1].due = stack[1].due
      /\ \A i \in 2..(Len(stack) - 1) : stack'[i] = stack[i + 1]
      /\ dtree \in Seq(DataNode) /\ dtree' \in Seq(DataNode) /\ Len(dtree') = Len(dtree)
      /\ \A i \in 1..Len(dtree) :
           dtree'[i] = IF i = stack[1].at
                       THEN [dtree[i] EXCEPT !.end = stack[1].pos.offset] ELSE dtree[i]
  BY ReturnShape
<1> SUFFICES ASSUME \A i \in DOMAIN dtree' : ~OutOfStep(dtree'[i].node),
                    NEW i \in DOMAIN stack', i = 1 \/ stack'[i - 1].own
             PROVE  InStep(stack'[i].pos, stack'[i].due)
  BY DEF NestedPmapAgreement, InStep
<1>2. \A j \in DOMAIN dtree : ~OutOfStep(dtree[j].node)
  <2>1. ASSUME NEW j \in DOMAIN dtree PROVE dtree'[j].node = dtree[j].node
    <3>1. dtree[j] \in DataNode /\ j \in 1..Len(dtree)
      BY <1>1
    <3> QED
      BY <1>1, <3>1 DEF DataNode
  <2> QED
    BY <1>1, <2>1
<1>3. \A j \in DOMAIN stack : StandsInStep(j)
  BY <1>2, AgreementIs
<1>4. CASE i = 1
  <2>1. stack[1].own => InStep(stack[2].pos, stack[2].due)
    BY <1>1, <1>3 DEF StandsInStep
  <2>2. InStep(stack[1].pos, stack[1].due)
    BY <1>1, <1>3 DEF StandsInStep
  <2> QED
    BY <1>1, <1>4, <2>1, <2>2 DEF InStep
<1>5. CASE i \in 2..(Len(stack) - 1)
  <2>1. /\ i + 1 \in DOMAIN stack /\ stack'[i] = stack[i + 1]
        /\ stack'[i - 1].own = stack[(i + 1) - 1].own
    <3>1. i + 1 \in DOMAIN stack /\ stack'[i] = stack[i + 1] /\ (i + 1) - 1 = i
      BY <1>1, <1>5
    <3>2. CASE i = 2
      BY <1>1, <3>1, <3>2
    <3>3. CASE i - 1 \in 2..(Len(stack) - 1)
      <4>1. stack'[i - 1] = stack[(i - 1) + 1] /\ (i - 1) + 1 = i
        BY <1>1, <1>5, <3>3
      <4> QED
        BY <3>1, <4>1
    <3> QED
      BY <1>1, <1>5, <3>2, <3>3
  <2> QED
    BY <1>3, <1>5, <2>1 DEF StandsInStep
<1> QED
  BY <1>1, <1>4, <1>5

LEMMA AgreementNext ==
  ASSUME Typed, NestedPmapAgreement, [Next]_vars
  PROVE  NestedPmapAgreement'
<1>1. CASE BeginMessage
  <2>1. DOMAIN stack' = {1} /\ InStep(stack'[1].pos, stack'[1].due)
    BY <1>1, BeginShape
  <2> QED
    BY <2>1 DEF NestedPmapAgreement, InStep
<1>2. CASE UnknownTemplate
  BY <1>2 DEF UnknownTemplate, NestedPmapAgreement, Typed, TypeOK
<1>3. CASE Between
  BY <1>3, BetweenShape DEF NestedPmapAgreement
<1>4. CASE Bail
  <2>1. /\ phase = "fields" /\ stack' \in Seq(Frame) /\ Len(stack') = Len(stack)
        /\ stack'[1] = [stack[1] EXCEPT !.todo = << >>]
        /\ \A i \in 2..Len(stack) : stack'[i] = stack[i]
        /\ dtree' = dtree
    BY <1>4, BailShape
  <2>2. stack[1] \in Frame /\ Len(stack) \in Nat /\ stack \in Seq(Frame)
    BY <2>1, TopTypes
  <2>3. /\ stack'[1].own = stack[1].own /\ stack'[1].due = stack[1].due
        /\ stack'[1].pos = stack[1].pos
    BY <2>1, <2>2 DEF Frame
  <2>4. ASSUME NEW i \in DOMAIN stack'
        PROVE  /\ i \in DOMAIN stack /\ stack'[i].own = stack[i].own
               /\ stack'[i].pos = stack[i].pos /\ stack'[i].due = stack[i].due
    <3>1. i \in DOMAIN stack /\ (i = 1 \/ i \in 2..Len(stack))
      BY <2>1, <2>2
    <3>2. CASE i = 1
      BY <2>3, <3>1, <3>2
    <3>3. CASE i \in 2..Len(stack)
      BY <2>1, <3>1, <3>3
    <3> QED
      BY <3>1, <3>2, <3>3
  <2> SUFFICES ASSUME \A i \in DOMAIN dtree' : ~OutOfStep(dtree'[i].node),
                      NEW i \in DOMAIN stack', i = 1 \/ stack'[i - 1].own
               PROVE  InStep(stack'[i].pos, stack'[i].due)
    BY DEF NestedPmapAgreement, InStep
  <2>5. \A j \in DOMAIN stack : StandsInStep(j)
    BY <2>1, AgreementIs
  <2>6. i # 1 => i - 1 \in DOMAIN stack'
    BY <2>1, <2>2
  <2> QED
    BY <2>4, <2>5, <2>6 DEF StandsInStep
<1>5. CASE UNCHANGED vars
  BY <1>5 DEF vars, NestedPmapAgreement
<1> QED
  BY <1>1, <1>2, <1>3, <1>4, <1>5, NextShapes, WalkSteps, StepsOnAgrees,
     DescendCalls, CallsForAgrees, ReturnAgrees

(***************************************************************************)
(* dissect.c and template.c agree on the presence map for every nesting of *)
(* fields, decimals, groups and sequences, for maps that run out early and *)
(* for packets cut off anywhere, as long as the message holds no node of   *)
(* the kinds that OutOfStep lists.                                         *)
(***************************************************************************)
THEOREM MapsInStep == Spec => []NestedPmapAgreement
<1>1. Init => Typed /\ NestedPmapAgreement
  BY InitTyped DEF Init, NestedPmapAgreement
<1>2. (Typed /\ NestedPmapAgreement) /\ [Next]_vars => (Typed /\ NestedPmapAgreement)'
  BY TypedNext, AgreementNext
<1> QED
  BY <1>1, <1>2, PTL DEF Spec

--------------------------------------------------------------------------------
(* Windows.                                                                *)

(* A data node is open while an activation fills it.                       *)
IsOpen(j) == \E i \in 1..(Len(stack) - 1) : stack[i].at = j

(* The open nodes are one below the other, with everything added since     *)
(* below them.                                                             *)
OpenNodes ==
  \A i \in 1..(Len(stack) - 1) :
    /\ stack[i].at \in DOMAIN dtree
    /\ dtree[stack[i].at].depth = Len(stack) - i
    /\ \A j \in DOMAIN dtree : stack[i].at < j => Len(stack) - i < dtree[j].depth

Deep == \A j \in DOMAIN dtree : dtree[j].depth >= 1

(* Windows begin in the order of the nodes, none beyond the walk.          *)
Starts ==
  /\ \A j \in DOMAIN dtree : dtree[j].start <= stack[1].pos.offset
  /\ \A i, j \in DOMAIN dtree : i < j => dtree[i].start <= dtree[j].start

(* The window of a closed node ends where the walk has been.               *)
Ends == \A j \in DOMAIN dtree : IsOpen(j) \/ dtree[j].end <= stack[1].pos.offset

(* A closed node's window holds those of the nodes below it and ends       *)
(* before those of the nodes after it.                                     *)
Apart ==
  \A i, j \in DOMAIN dtree :
    (i < j /\ ~IsOpen(i)) =>
      /\ Below(i, j) => IsOpen(j) \/ dtree[j].end <= dtree[i].end
      /\ ~Below(i, j) => dtree[i].end <= dtree[j].start

Windows == OpenNodes /\ Deep /\ Starts /\ Ends /\ Apart

LEMMA DataNodeTypes ==
  ASSUME NEW t \in Seq(DataNode), NEW i \in DOMAIN t
  PROVE  /\ i \in Nat /\ i \in 1..Len(t)
         /\ t[i].depth \in Nat /\ t[i].start \in Nat /\ t[i].end \in Nat
<1>1. i \in 1..Len(t) /\ Len(t) \in Nat /\ t[i] \in DataNode
  OBVIOUS
<1> QED
  BY <1>1 DEF DataNode

(***************************************************************************)
(* Only an open node has the open nodes below it, and the next node to be  *)
(* added: the node of frame k, or what comes next for k = 0.               *)
(***************************************************************************)
LEMMA AboveIsOpen ==
  ASSUME Typed, phase = "fields", OpenNodes, Deep,
         NEW i \in DOMAIN dtree, NEW k \in 0..(Len(stack) - 1),
         dtree[i].depth < Len(stack) - k,
         \A x \in DOMAIN dtree :
           (i < x /\ (k = 0 \/ x <= stack[k].at)) => dtree[i].depth < dtree[x].depth
  PROVE  IsOpen(i)
<1>1. /\ Len(stack) \in Nat /\ dtree \in Seq(DataNode) /\ stack \in Seq(Frame)
  BY TopTypes
<1>2. dtree[i].depth \in Nat /\ dtree[i].depth >= 1 /\ i \in Nat
  BY <1>1, DataNodeTypes DEF Deep
<1> DEFINE f == Len(stack) - dtree[i].depth
           a == stack[f].at
<1>3. f \in 1..(Len(stack) - 1) /\ k < f
  BY <1>1, <1>2
<1>4. /\ a \in DOMAIN dtree /\ dtree[a].depth = dtree[i].depth
      /\ \A j \in DOMAIN dtree : a < j => dtree[i].depth < dtree[j].depth
  <2>1. Len(stack) - f = dtree[i].depth
    BY <1>1, <1>2
  <2> HIDE DEF f
  <2> QED
    BY <1>3, <2>1 DEF OpenNodes
<1>5. a \in Nat
  BY <1>1, <1>4
<1>6. k = 0 \/ a <= stack[k].at
  <2> SUFFICES ASSUME k \in 1..(Len(stack) - 1), ~(a <= stack[k].at)
               PROVE  FALSE
    BY <1>1
  <2>1. /\ stack[k].at \in DOMAIN dtree
        /\ \A j \in DOMAIN dtree : stack[k].at < j => Len(stack) - k < dtree[j].depth
    BY DEF OpenNodes
  <2>2. stack[k].at < a
    BY <1>1, <1>5, <2>1
  <2> HIDE DEF a
  <2>3. Len(stack) - k < dtree[a].depth
    BY <1>4, <2>1, <2>2
  <2> QED
    BY <1>1, <1>2, <1>4, <2>3
<1> HIDE DEF a
<1>7. ~(i < a)
  BY <1>2, <1>4, <1>6
<1>8. ~(a < i)
  BY <1>2, <1>4
<1>9. i = a
  BY <1>2, <1>5, <1>7, <1>8
<1> QED
  BY <1>3, <1>9 DEF IsOpen, a

(* So a closed node has no open node below it. *)
LEMMA ClosedNotAbove ==
  ASSUME Typed, phase = "fields", OpenNodes, Deep,
         NEW i \in DOMAIN dtree, NEW j \in DOMAIN dtree, ~IsOpen(i), IsOpen(j), i < j
  PROVE  ~Below(i, j)
<1> SUFFICES ASSUME Below(i, j) PROVE FALSE
  OBVIOUS
<1>1. /\ Len(stack) \in Nat /\ dtree \in Seq(DataNode)
  BY TopTypes
<1>2. PICK k \in 1..(Len(stack) - 1) : stack[k].at = j
  BY DEF IsOpen
<1>3. i \in Nat /\ j \in Nat /\ DOMAIN dtree \subseteq Nat
  BY <1>1
<1>4. \A x \in DOMAIN dtree : (i < x /\ x <= j) => dtree[i].depth < dtree[x].depth
  BY <1>3 DEF Below
<1>5. dtree[i].depth < Len(stack) - k
  <2>1. dtree[j].depth = Len(stack) - k
    BY <1>2 DEF OpenNodes
  <2> QED
    BY <1>3, <1>4, <2>1
<1> QED
  BY <1>1, <1>2, <1>4, <1>5, AboveIsOpen

(***************************************************************************)
(* A node is added: it begins where the walk stands, after every closed    *)
(* window, and is below no closed node.                                    *)
(***************************************************************************)
LEMMA GrownWindows ==
  ASSUME Typed, phase = "fields", Windows, NEW till, NEW n, n = Len(dtree) + 1,
         dtree' \in Seq(DataNode), Len(dtree') = n, IsNewNode(dtree'[n], till),
         \A i \in 1..Len(dtree) : dtree'[i] = dtree[i],
         \A i \in 1..Len(dtree) : IsOpen(i)' <=> IsOpen(i),
         stack'[1].pos.offset \in Nat, top.pos.offset <= stack'[1].pos.offset,
         IsOpen(n)' \/ till <= stack'[1].pos.offset
  PROVE  (Deep /\ Starts /\ Ends /\ Apart)'
<1>1. /\ Len(stack) \in Nat /\ Len(stack) >= 1 /\ dtree \in Seq(DataNode)
      /\ top = stack[1] /\ top.pos.offset \in Nat
  BY TopTypes DEF DissectPosition
<1>2. DOMAIN dtree' = DOMAIN dtree \cup {n} /\ DOMAIN dtree = 1..Len(dtree) /\ n \in Nat
  BY <1>1
<1>3. /\ \A i \in DOMAIN dtree : /\ dtree[i].depth \in Nat /\ dtree[i].start \in Nat
                                 /\ dtree[i].end \in Nat /\ i \in Nat /\ i < n
      /\ \A i \in DOMAIN dtree' : dtree'[i].end \in Nat
  <2>1. \A i \in DOMAIN dtree : i < n
    BY <1>1, <1>2
  <2> QED
    BY <1>1, <2>1, DataNodeTypes
<1>4. /\ dtree'[n].depth = Len(stack) /\ dtree'[n].start = top.pos.offset
      /\ dtree'[n].end = till
  BY DEF IsNewNode
<1>5. /\ \A i \in DOMAIN dtree : dtree'[i] = dtree[i]
      /\ \A i \in DOMAIN dtree : IsOpen(i)' <=> IsOpen(i)
  BY <1>2
<1>6. ASSUME NEW i \in DOMAIN dtree, ~IsOpen(i)
      PROVE  ~Below(i, n)'
  <2> SUFFICES ASSUME \A k \in (i + 1)..n : dtree'[i].depth < dtree'[k].depth
               PROVE  FALSE
    BY DEF Below
  <2>1. dtree[i].depth < Len(stack)
    BY <1>2, <1>3, <1>4, <1>5
  <2>2. ASSUME NEW x \in DOMAIN dtree, i < x PROVE dtree[i].depth < dtree[x].depth
    <3>1. i \in Nat /\ x \in Nat /\ x < n
      BY <1>3
    <3>2. x \in (i + 1)..n
      BY <1>2, <2>2, <3>1
    <3>3. dtree'[i] = dtree[i] /\ dtree'[x] = dtree[x]
      BY <1>5
    <3> QED
      BY <3>2, <3>3
  <2> QED
    BY <1>1, <1>6, <2>1, <2>2, AboveIsOpen DEF Windows
<1>7. ASSUME NEW i \in DOMAIN dtree, NEW j \in DOMAIN dtree
      PROVE  Below(i, j)' <=> Below(i, j)
  <2>1. i \in 1..Len(dtree) /\ j \in 1..Len(dtree)
    BY <1>2
  <2>2. (i + 1)..j \subseteq DOMAIN dtree
    BY <1>1, <1>2, <2>1
  <2> QED
    BY <1>5, <2>2 DEF Below
<1>8. Deep'
  BY <1>1, <1>2, <1>4, <1>5 DEF Windows, Deep
<1>9. Starts'
  BY <1>1, <1>2, <1>3, <1>4, <1>5 DEF Windows, Starts
<1>10. Ends'
  <2> SUFFICES ASSUME NEW j \in DOMAIN dtree', ~IsOpen(j)'
               PROVE  dtree'[j].end <= stack'[1].pos.offset
    BY DEF Ends
  <2>1. CASE j \in DOMAIN dtree
    <3>1. ~IsOpen(j)
      BY <1>5, <2>1
    <3>2. dtree[j].end <= top.pos.offset
      BY <1>1, <2>1, <3>1 DEF Windows, Ends
    <3>3. dtree'[j] = dtree[j] /\ dtree[j].end \in Nat
      BY <1>3, <1>5, <2>1
    <3> QED
      BY <1>1, <3>2, <3>3
  <2>2. CASE j = n
    <3>1. till <= stack'[1].pos.offset
      BY <2>2
    <3> QED
      BY <1>4, <2>2, <3>1
  <2> QED
    BY <1>2, <2>1, <2>2
<1>11. Apart'
  <2> SUFFICES ASSUME NEW i \in DOMAIN dtree', NEW j \in DOMAIN dtree',
                      i < j, ~IsOpen(i)'
               PROVE  /\ Below(i, j)' => IsOpen(j)' \/ dtree'[j].end <= dtree'[i].end
                      /\ ~Below(i, j)' => dtree'[i].end <= dtree'[j].start
    BY DEF Apart
  <2>1. i \in DOMAIN dtree
    BY <1>2, <1>3
  <2>2. ~IsOpen(i)
    BY <1>5, <2>1
  <2>3. CASE j \in DOMAIN dtree
    <3>1. /\ Below(i, j) => IsOpen(j) \/ dtree[j].end <= dtree[i].end
          /\ ~Below(i, j) => dtree[i].end <= dtree[j].start
      BY <2>1, <2>2, <2>3 DEF Windows, Apart
    <3>2. dtree'[i] = dtree[i] /\ dtree'[j] = dtree[j]
      BY <1>5, <2>1, <2>3
    <3>3. (IsOpen(j)' <=> IsOpen(j)) /\ (Below(i, j)' <=> Below(i, j))
      BY <1>5, <1>7, <2>1, <2>3
    <3> QED
      BY <3>1, <3>2, <3>3
  <2>4. CASE j = n
    <3>1. dtree[i].end <= top.pos.offset
      BY <1>1, <2>1, <2>2 DEF Windows, Ends
    <3> QED
      BY <1>4, <1>5, <1>6, <2>1, <2>2, <2>4, <3>1
  <2> QED
    BY <1>2, <2>3, <2>4
<1> QED
  BY <1>8, <1>9, <1>10, <1>11

LEMMA StepsOnWindows ==
  ASSUME Typed, Windows, NEW p, NEW k, NEW fdata, StepsOn(p, k, fdata)
  PROVE  Windows'
<1> DEFINE n == Len(dtree) + 1
<1>1. /\ stack' \in Seq(Frame) /\ Len(stack') = Len(stack)
      /\ GoneOn(stack'[1], p, k)
      /\ \A i \in 2..Len(stack) : stack'[i] = stack[i]
      /\ dtree' \in Seq(DataNode) /\ Len(dtree') = n
      /\ IsNewNode(dtree'[n], p.offset)
      /\ \A i \in 1..Len(dtree) : dtree'[i] = dtree[i]
  BY StepsOnShape
<1>2. /\ phase = "fields" /\ p \in DissectPosition /\ top.pos.offset <= p.offset
  BY DEF StepsOn, Walking, StepsOver, Forward
<1>3. /\ stack \in Seq(Frame) /\ Len(stack) \in Nat /\ Len(stack) >= 1 /\ top = stack[1]
      /\ dtree \in Seq(DataNode) /\ Len(dtree) \in Nat /\ DOMAIN dtree = 1..Len(dtree)
  BY <1>2, TopTypes
<1>4. ASSUME NEW i \in 1..(Len(stack) - 1) PROVE stack'[i].at = stack[i].at
  <2>1. CASE i = 1
    BY <1>1, <1>3, <2>1 DEF GoneOn
  <2>2. CASE i \in 2..Len(stack)
    BY <1>1, <2>2
  <2> QED
    BY <1>3, <2>1, <2>2
<1>5. ASSUME NEW j PROVE IsOpen(j)' <=> IsOpen(j)
  BY <1>1, <1>4 DEF IsOpen
<1>6. OpenNodes'
  <2> SUFFICES ASSUME NEW i \in 1..(Len(stack') - 1)
               PROVE  /\ stack'[i].at \in DOMAIN dtree'
                      /\ dtree'[stack'[i].at].depth = Len(stack') - i
                      /\ \A j \in DOMAIN dtree' :
                           stack'[i].at < j => Len(stack') - i < dtree'[j].depth
    BY DEF OpenNodes
  <2>1. i \in 1..(Len(stack) - 1) /\ stack'[i].at = stack[i].at
    BY <1>1, <1>4
  <2>2. /\ stack[i].at \in DOMAIN dtree
        /\ dtree[stack[i].at].depth = Len(stack) - i
        /\ \A j \in DOMAIN dtree : stack[i].at < j => Len(stack) - i < dtree[j].depth
    BY <2>1 DEF Windows, OpenNodes
  <2>3. ASSUME NEW j \in DOMAIN dtree', stack[i].at < j
        PROVE  Len(stack) - i < dtree'[j].depth
    <3>1. CASE j \in DOMAIN dtree
      BY <1>1, <1>3, <2>2, <2>3, <3>1
    <3>2. CASE j = n
      BY <1>1, <1>3, <2>1, <3>2 DEF IsNewNode
    <3> QED
      BY <1>1, <1>3, <3>1, <3>2
  <2>4. dtree'[stack[i].at] = dtree[stack[i].at] /\ stack[i].at \in DOMAIN dtree'
    BY <1>1, <1>3, <2>2
  <2> QED
    BY <1>1, <2>1, <2>2, <2>3, <2>4
<1>7. stack'[1].pos.offset = p.offset /\ p.offset \in Nat
  BY <1>1, <1>2 DEF GoneOn, DissectPosition
<1>8. p.offset <= stack'[1].pos.offset
  BY <1>7
<1>9. (Deep /\ Starts /\ Ends /\ Apart)'
  BY <1>1, <1>2, <1>5, <1>7, <1>8, GrownWindows
<1> QED
  BY <1>6, <1>9 DEF Windows

LEMMA CallsForWindows ==
  ASSUME Typed, Windows, NEW frame, NEW p, NEW k, NEW fdata, NEW till,
         CallsFor(frame, p, k, fdata, till)
  PROVE  Windows'
<1>0. PICK n : n = Len(dtree) + 1
  OBVIOUS
<1>1. /\ stack' \in Seq(Frame) /\ Len(stack') = Len(stack) + 1
      /\ stack'[1] = frame /\ GoneOn(stack'[2], p, k)
      /\ \A i \in 3..(Len(stack) + 1) : stack'[i] = stack[i - 1]
      /\ dtree' \in Seq(DataNode) /\ Len(dtree') = n
      /\ IsNewNode(dtree'[n], till)
      /\ \A i \in 1..Len(dtree) : dtree'[i] = dtree[i]
  BY <1>0, CallsForShape
<1>2. /\ phase = "fields" /\ p \in DissectPosition /\ top.pos.offset <= p.offset
      /\ frame \in Frame /\ frame.at = n /\ p.offset <= frame.pos.offset
  BY <1>0 DEF CallsFor, Walking, StepsOver, Forward
<1>3. /\ stack \in Seq(Frame) /\ Len(stack) \in Nat /\ Len(stack) >= 1 /\ top = stack[1]
      /\ dtree \in Seq(DataNode) /\ Len(dtree) \in Nat /\ DOMAIN dtree = 1..Len(dtree)
      /\ top.pos.offset \in Nat
  BY <1>2, TopTypes DEF DissectPosition
<1>4. stack'[1].at = n /\ 1 \in 1..(Len(stack') - 1)
  BY <1>1, <1>2, <1>3
<1>5. ASSUME NEW i \in 1..(Len(stack) - 1) PROVE stack'[i + 1].at = stack[i].at
  <2>1. CASE i = 1
    BY <1>1, <1>3, <2>1 DEF GoneOn
  <2>2. CASE i \in 2..Len(stack)
    <3>1. i + 1 \in 3..(Len(stack) + 1) /\ (i + 1) - 1 = i
      BY <1>3, <2>2
    <3> QED
      BY <1>1, <3>1
  <2> QED
    BY <1>3, <2>1, <2>2
<1>6. ASSUME NEW i \in 1..(Len(stack') - 1), i # 1
      PROVE  i - 1 \in 1..(Len(stack) - 1) /\ stack'[i].at = stack[i - 1].at
  <2>1. i - 1 \in 1..(Len(stack) - 1) /\ (i - 1) + 1 = i
    BY <1>1, <1>3, <1>6
  <2>2. stack'[(i - 1) + 1].at = stack[i - 1].at
    BY <1>5, <2>1
  <2> QED
    BY <2>1, <2>2
<1>7. ASSUME NEW j \in 1..Len(dtree) PROVE IsOpen(j)' <=> IsOpen(j)
  <2>1. j # n
    BY <1>0, <1>3
  <2>2. ASSUME NEW i \in 1..(Len(stack) - 1), stack[i].at = j PROVE IsOpen(j)'
    <3>1. i + 1 \in 1..(Len(stack') - 1) /\ stack'[i + 1].at = j
      BY <1>1, <1>3, <1>5, <2>2
    <3> QED
      BY <3>1 DEF IsOpen
  <2>3. ASSUME NEW i \in 1..(Len(stack') - 1), stack'[i].at = j PROVE IsOpen(j)
    <3>1. i # 1
      BY <1>4, <2>1, <2>3
    <3> QED
      BY <1>6, <2>3, <3>1 DEF IsOpen
  <2> QED
    BY <2>2, <2>3 DEF IsOpen
<1>8. IsOpen(n)'
  BY <1>4 DEF IsOpen
<1>9. OpenNodes'
  <2> SUFFICES ASSUME NEW i \in 1..(Len(stack') - 1)
               PROVE  /\ stack'[i].at \in DOMAIN dtree'
                      /\ dtree'[stack'[i].at].depth = Len(stack') - i
                      /\ \A j \in DOMAIN dtree' :
                           stack'[i].at < j => Len(stack') - i < dtree'[j].depth
    BY DEF OpenNodes
  <2>0. DOMAIN dtree' = DOMAIN dtree \cup {n} /\ dtree'[n].depth = Len(stack)
    BY <1>0, <1>1, <1>3 DEF IsNewNode
  <2>1. CASE i = 1
    <3>1. \A j \in DOMAIN dtree' : ~(n < j)
      BY <1>0, <1>1, <1>3
    <3> QED
      BY <1>1, <1>3, <1>4, <2>0, <2>1, <3>1
  <2>2. CASE i # 1
    <3> DEFINE h == i - 1
    <3>1. h \in 1..(Len(stack) - 1) /\ stack'[i].at = stack[h].at
      BY <1>6, <2>2
    <3>2. /\ stack[h].at \in DOMAIN dtree
          /\ dtree[stack[h].at].depth = Len(stack) - h
          /\ \A j \in DOMAIN dtree : stack[h].at < j => Len(stack) - h < dtree[j].depth
      BY <3>1 DEF Windows, OpenNodes
    <3>3. Len(stack') - i = Len(stack) - h /\ Len(stack) - h < Len(stack)
      BY <1>1, <1>3, <3>1
    <3> HIDE DEF h
    <3>4. dtree'[stack[h].at] = dtree[stack[h].at]
      BY <1>1, <1>3, <3>2
    <3>5. ASSUME NEW j \in DOMAIN dtree', stack[h].at < j
          PROVE  Len(stack) - h < dtree'[j].depth
      <4>1. CASE j \in DOMAIN dtree
        BY <1>1, <1>3, <3>2, <3>5, <4>1
      <4>2. CASE j = n
        BY <2>0, <3>3, <4>2
      <4> QED
        BY <2>0, <4>1, <4>2
    <3> QED
      BY <2>0, <3>1, <3>2, <3>3, <3>4, <3>5
  <2> QED
    BY <2>1, <2>2
<1>10. stack'[1].pos.offset \in Nat /\ top.pos.offset <= stack'[1].pos.offset
  <2>1. frame.pos \in DissectPosition
    BY <1>2 DEF Frame
  <2>2. frame.pos.offset \in Nat /\ p.offset \in Nat
    BY <1>2, <2>1 DEF DissectPosition
  <2> QED
    BY <1>1, <1>2, <1>3, <2>2
<1>11. (Deep /\ Starts /\ Ends /\ Apart)'
  BY <1>0, <1>1, <1>2, <1>7, <1>8, <1>10, GrownWindows
<1> QED
  BY <1>9, <1>11 DEF Windows

(* The node that an activation filled is closed when it returns: its       *)
(* window then ends where the walk has got to, after those of all the      *)
(* nodes added since, which are all below it.                              *)
LEMMA ReturnWindows ==
  ASSUME Typed, Windows, Return
  PROVE  Windows'
<1>0. PICK a : a = stack[1].at
  OBVIOUS
<1>1. /\ phase = "fields" /\ Len(stack) > 1 /\ stack \in Seq(Frame)
      /\ stack' \in Seq(Frame) /\ Len(stack') = Len(stack) - 1
      /\ stack'[1].at = stack[2].at
      /\ stack'[1].pos.offset = stack[1].pos.offset
      /\ \A i \in 2..(Len(stack) - 1) : stack'[i] = stack[i + 1]
      /\ dtree \in Seq(DataNode) /\ dtree' \in Seq(DataNode) /\ Len(dtree') = Len(dtree)
      /\ \A i \in 1..Len(dtree) :
           dtree'[i] = IF i = a
                       THEN [dtree[i] EXCEPT !.end = stack[1].pos.offset] ELSE dtree[i]
  BY <1>0, ReturnShape
<1>2. DOMAIN dtree' = DOMAIN dtree /\ DOMAIN dtree = 1..Len(dtree) /\ Len(dtree) \in Nat
  BY <1>1
<1>3. ASSUME NEW i \in DOMAIN dtree
      PROVE  /\ dtree'[i].depth = dtree[i].depth /\ dtree'[i].start = dtree[i].start
             /\ dtree'[i].end = IF i = a THEN stack[1].pos.offset ELSE dtree[i].end
             /\ dtree[i].depth \in Nat /\ dtree[i].start \in Nat /\ dtree[i].end \in Nat
             /\ i \in Nat
  <2>1. dtree[i] \in DataNode /\ i \in 1..Len(dtree)
    BY <1>1
  <2>2. /\ dtree[i].depth \in Nat /\ dtree[i].start \in Nat /\ dtree[i].end \in Nat
        /\ i \in Nat
    BY <1>1, <2>1, DataNodeTypes
  <2>3. CASE i = a
    <3>1. dtree'[i] = [dtree[i] EXCEPT !.end = stack[1].pos.offset]
      BY <1>1, <2>1, <2>3
    <3>2. /\ dtree'[i].depth = dtree[i].depth /\ dtree'[i].start = dtree[i].start
          /\ dtree'[i].end = stack[1].pos.offset
      BY <2>1, <3>1 DEF DataNode
    <3> QED
      BY <2>2, <2>3, <3>2
  <2>4. CASE i # a
    <3>1. dtree'[i] = dtree[i]
      BY <1>1, <2>1, <2>4
    <3> QED
      BY <2>2, <2>4, <3>1
  <2> QED
    BY <2>3, <2>4
<1>4. ASSUME NEW i \in 1..(Len(stack') - 1)
      PROVE  i + 1 \in 1..(Len(stack) - 1) /\ stack'[i].at = stack[i + 1].at
  <2>1. i = 1 \/ i \in 2..(Len(stack) - 1)
    BY <1>1
  <2> QED
    BY <1>1, <2>1
<1>5. /\ a \in DOMAIN dtree /\ IsOpen(a)
      /\ dtree[a].depth = Len(stack) - 1
      /\ \A j \in DOMAIN dtree : a < j => Len(stack) - 1 < dtree[j].depth
  <2>1. 1 \in 1..(Len(stack) - 1)
    BY <1>1
  <2> QED
    BY <1>0, <2>1 DEF Windows, OpenNodes, IsOpen
<1>6. ASSUME NEW j, IsOpen(j)' PROVE IsOpen(j)
  BY <1>4, <1>6 DEF IsOpen
<1>7. ASSUME NEW j, IsOpen(j), j # a PROVE IsOpen(j)'
  <2>1. PICK i \in 1..(Len(stack) - 1) : stack[i].at = j
    BY <1>7 DEF IsOpen
  <2>2. i # 1
    BY <1>0, <1>7, <2>1
  <2>3. i - 1 \in 1..(Len(stack') - 1) /\ (i - 1) + 1 = i
    BY <1>1, <2>1, <2>2
  <2>4. stack'[i - 1].at = j
    BY <1>4, <2>1, <2>3
  <2> QED
    BY <2>3, <2>4 DEF IsOpen
<1>8. ASSUME NEW i \in DOMAIN dtree, NEW j \in DOMAIN dtree
      PROVE  Below(i, j)' <=> Below(i, j)
  <2>1. (i + 1)..j \subseteq DOMAIN dtree
    BY <1>2
  <2> QED
    BY <1>3, <2>1 DEF Below
<1>9. OpenNodes'
  <2> SUFFICES ASSUME NEW i \in 1..(Len(stack') - 1)
               PROVE  /\ stack'[i].at \in DOMAIN dtree'
                      /\ dtree'[stack'[i].at].depth = Len(stack') - i
                      /\ \A j \in DOMAIN dtree' :
                           stack'[i].at < j => Len(stack') - i < dtree'[j].depth
    BY DEF OpenNodes
  <2>1. i + 1 \in 1..(Len(stack) - 1) /\ stack'[i].at = stack[i + 1].at
    BY <1>4
  <2>2. Len(stack') - i = Len(stack) - (i + 1)
    BY <1>1
  <2>3. /\ stack[i + 1].at \in DOMAIN dtree
        /\ dtree[stack[i + 1].at].depth = Len(stack) - (i + 1)
        /\ \A j \in DOMAIN dtree :
             stack[i + 1].at < j => Len(stack) - (i + 1) < dtree[j].depth
    BY <2>1 DEF Windows, OpenNodes
  <2> QED
    BY <1>2, <1>3, <2>1, <2>2, <2>3
<1>10. Deep'
  BY <1>2, <1>3 DEF Windows, Deep
<1>11. Starts'
  BY <1>1, <1>2, <1>3 DEF Windows, Starts
<1>12. stack[1].pos.offset \in Nat
  BY <1>1, TopTypes DEF DissectPosition
<1>13. Ends'
  <2> SUFFICES ASSUME NEW j \in DOMAIN dtree, ~IsOpen(j)'
               PROVE  dtree'[j].end <= stack'[1].pos.offset
    BY <1>2 DEF Ends
  <2>1. CASE j = a
    BY <1>1, <1>3, <1>12, <2>1
  <2>2. CASE j # a
    <3>1. ~IsOpen(j)
      BY <1>7, <2>2
    <3> QED
      BY <1>1, <1>3, <2>2, <3>1 DEF Windows, Ends
  <2> QED
    BY <2>1, <2>2
<1>14. Apart'
  <2> SUFFICES ASSUME NEW i \in DOMAIN dtree, NEW j \in DOMAIN dtree,
                      i < j, ~IsOpen(i)'
               PROVE  /\ Below(i, j)' => IsOpen(j)' \/ dtree'[j].end <= dtree'[i].end
                      /\ ~Below(i, j)' => dtree'[i].end <= dtree'[j].start
    BY <1>2 DEF Apart
  <2>1. CASE i = a
    <3>1. Below(a, j)
      <4>1. (a + 1)..j \subseteq DOMAIN dtree /\ \A k \in (a + 1)..j : a < k
        BY <1>2, <1>5
      <4> QED
        BY <1>5, <2>1, <4>1 DEF Below
    <3>2. ASSUME ~IsOpen(j)' PROVE dtree'[j].end <= dtree'[a].end
      <4>1. j # a /\ ~IsOpen(j)
        BY <1>3, <1>7, <2>1, <3>2
      <4>2. dtree[j].end <= stack[1].pos.offset
        BY <4>1 DEF Windows, Ends
      <4> QED
        BY <1>3, <1>5, <4>1, <4>2
    <3> QED
      BY <1>8, <2>1, <3>1, <3>2
  <2>2. CASE i # a
    <3>1. ~IsOpen(i)
      BY <1>7, <2>2
    <3>2. /\ Below(i, j) => IsOpen(j) \/ dtree[j].end <= dtree[i].end
          /\ ~Below(i, j) => dtree[i].end <= dtree[j].start
      BY <3>1 DEF Windows, Apart
    <3>3. IsOpen(j) => ~Below(i, j)
      BY <1>1, <3>1, ClosedNotAbove DEF Windows
    <3>4. j = a => IsOpen(j)
      BY <1>5
    <3>5. /\ dtree'[i].end = dtree[i].end /\ dtree'[j].start = dtree[j].start
          /\ j # a => dtree'[j].end = dtree[j].end
      BY <1>3, <2>2
    <3>6. Below(i, j)' <=> Below(i, j)
      BY <1>8
    <3> QED
      BY <3>2, <3>3, <3>4, <3>5, <3>6
  <2> QED
    BY <2>1, <2>2
<1> QED
  BY <1>9, <1>10, <1>11, <1>13, <1>14 DEF Windows

LEMMA BailWindows ==
  ASSUME Typed, Windows, Bail
  PROVE  Windows'
<1>1. /\ phase = "fields" /\ dtree' = dtree
      /\ stack' \in Seq(Frame) /\ Len(stack') = Len(stack)
      /\ stack'[1] = [stack[1] EXCEPT !.todo = << >>]
      /\ \A i \in 2..Len(stack) : stack'[i] = stack[i]
  BY BailShape
<1>2. stack[1] \in Frame /\ Len(stack) \in Nat
  BY <1>1, TopTypes
<1>3. stack'[1].at = stack[1].at /\ stack'[1].pos = stack[1].pos
  BY <1>1, <1>2 DEF Frame
<1>4. ASSUME NEW i \in 1..(Len(stack) - 1) PROVE stack'[i].at = stack[i].at
  <2>1. i = 1 \/ i \in 2..Len(stack)
    BY <1>2
  <2> QED
    BY <1>1, <1>3, <2>1
<1>5. ASSUME NEW j PROVE IsOpen(j)' <=> IsOpen(j)
  BY <1>1, <1>4 DEF IsOpen
<1>6. OpenNodes'
  BY <1>1, <1>4 DEF Windows, OpenNodes
<1>7. Deep' /\ Starts'
  BY <1>1, <1>3 DEF Windows, Deep, Starts
<1>8. Ends'
  BY <1>1, <1>3, <1>5 DEF Windows, Ends
<1>9. ASSUME NEW i, NEW j PROVE Below(i, j)' <=> Below(i, j)
  BY <1>1 DEF Below
<1>10. Apart'
  BY <1>1, <1>5, <1>9 DEF Windows, Apart
<1> QED
  BY <1>6, <1>7, <1>8, <1>10 DEF Windows

(* At the end of the message every node is closed. *)
LEMMA EndWindows ==
  ASSUME Typed, Windows, EndMessage
  PROVE  WindowsNest'
<1>1. /\ phase = "fields" /\ Len(stack) = 1 /\ dtree' = dtree
  BY DEF EndMessage
<1>2. \A j : ~IsOpen(j)
  BY <1>1 DEF IsOpen
<1>3. ASSUME NEW i, NEW j PROVE Below(i, j)' <=> Below(i, j)
  BY <1>1 DEF Below
<1> SUFFICES ASSUME NEW i \in DOMAIN dtree, NEW j \in DOMAIN dtree, i < j
             PROVE  IF Below(i, j)
                    THEN dtree[i].start <= dtree[j].start /\ dtree[j].end <= dtree[i].end
                    ELSE dtree[i].end <= dtree[j].start
  BY <1>1, <1>3 DEF WindowsNest
<1> QED
  BY <1>2 DEF Windows, Starts, Apart

(* Within a message the windows so far, between messages those of the last *)
(* one.                                                                    *)
WindowsSoFar == (phase = "fields" => Windows) /\ WindowsNest

LEMMA WindowsNext ==
  ASSUME Typed, WindowsSoFar, [Next]_vars
  PROVE  WindowsSoFar'
<1>1. CASE BeginMessage
  <2>1. /\ phase' = "fields" /\ dtree' = << >> /\ Len(stack') = 1
    BY <1>1, BeginShape
  <2>2. DOMAIN dtree' = {}
    BY <2>1
  <2>3. OpenNodes'
    BY <2>1 DEF OpenNodes
  <2>4. (Deep /\ Starts /\ Ends /\ Apart)'
    BY <2>2 DEF Deep, Starts, Ends, Apart
  <2> QED
    BY <2>1, <2>3, <2>4 DEF WindowsSoFar, Windows, WindowsNest
<1>2. CASE UnknownTemplate
  <2>1. phase' # "fields" /\ dtree' = << >>
    BY <1>2 DEF UnknownTemplate
  <2> QED
    BY <2>1 DEF WindowsSoFar, WindowsNest
<1>3. CASE Walk \/ Descend \/ Bail \/ Return
  <2>1. phase = "fields" /\ phase' = phase
    <3>1. CASE Walk
      BY <3>1, WalkSteps DEF Within, StepsOn, Walking
    <3>2. CASE Descend
      BY <3>2, DescendCalls DEF Within, CallsFor, Walking
    <3> QED
      BY <1>3, <3>1, <3>2 DEF Bail, Return, Walking
  <2>2. Windows
    BY <2>1 DEF WindowsSoFar
  <2>3. Windows'
    BY <1>3, <2>2, WalkSteps, DescendCalls, StepsOnWindows, CallsForWindows,
       BailWindows, ReturnWindows
  <2> QED
    BY <2>1, <2>3 DEF WindowsSoFar, WindowsNest
<1>4. CASE EndMessage
  <2>1. phase = "fields" /\ phase' # "fields"
    BY <1>4 DEF EndMessage
  <2> QED
    BY <1>4, <2>1, EndWindows DEF WindowsSoFar
<1>5. CASE EndPacket
  <2>1. phase = "packet" /\ phase' = "idle" /\ dtree' = dtree
    BY <1>5 DEF EndPacket
  <2>2. ASSUME NEW i, NEW j PROVE Below(i, j)' <=> Below(i, j)
    BY <2>1 DEF Below
  <2> QED
    BY <2>1, <2>2 DEF WindowsSoFar, WindowsNest
<1>6. CASE ReceivePacket \/ ReceiveShort
  <2>1. phase' # "fields" /\ dtree' = << >>
    BY <1>6 DEF Receive, ReceivePacket, ReceiveShort
  <2> QED
    BY <2>1 DEF WindowsSoFar, WindowsNest
<1>8. CASE Crash
  BY <1>8 DEF Crash, WindowsSoFar, WindowsNest
<1>7. CASE UNCHANGED vars
  BY <1>7 DEF vars, WindowsSoFar, WindowsNest, Windows, OpenNodes, Deep, Starts, Ends,
     Apart, IsOpen, Below
<1> QED
  BY <1>1, <1>2, <1>3, <1>4, <1>5, <1>6, <1>7, <1>8, NextShapes DEF Between

(***************************************************************************)
(* Highlighting: the windows of a message's nodes nest as the nodes do,    *)
(* and no byte belongs to two fields next to each other, whatever mixture  *)
(* of fields, groups, sequences and cut off packets the message is.  If    *)
(* the dissection does not end, there is nothing to highlight.             *)
(***************************************************************************)
THEOREM WindowsNestAlways == Spec => []WindowsNest
<1>1. Init => Typed /\ WindowsSoFar
  BY InitTyped DEF Init, WindowsSoFar, WindowsNest
<1>2. (Typed /\ WindowsSoFar) /\ [Next]_vars => (Typed /\ WindowsSoFar)'
  BY TypedNext, WindowsNext
<1>3. Typed /\ WindowsSoFar => WindowsNest
  BY DEF WindowsSoFar
<1> QED
  BY <1>1, <1>2, <1>3, PTL DEF Spec

--------------------------------------------------------------------------------
(* The tree mirrors the template.                                          *)

(***************************************************************************)
(* Dictionaries hold no negative number for an unsigned field: a sequence  *)
(* takes the number of its elements from there.                            *)
(***************************************************************************)
Unsigned(ftype, value) == ftype.type = "UInt32" => value.num \in Nat

Counts(t) ==
  \A cell \in CellId : t[cell] # NoEntry => Unsigned(t[cell], t[cell].value)

LEMMA SetCounts ==
  ASSUME NEW t \in ConversationTables, Counts(t), NEW ftype \in FieldTypes,
         NEW fdata \in FieldData, Unsigned(ftype, fdata.value)
  PROVE  Counts(set_dictionary_value(t, ftype, fdata))
<1>1. CASE ftype.key = NoKey
  BY <1>1 DEF set_dictionary_value
<1>2. CASE ftype.key # NoKey
  <2> DEFINE entry == [type  |-> ftype.type,
                       empty |-> fdata.status = "Empty",
                       value |-> IF fdata.status = "Empty"
                                 THEN init_field_value ELSE fdata.value]
  <2>1. set_dictionary_value(t, ftype, fdata) = [t EXCEPT ![Cell(ftype)] = entry]
    BY <1>2 DEF set_dictionary_value
  <2>2. Unsigned(entry, entry.value)
    BY DEF Unsigned, init_field_value
  <2> HIDE DEF entry
  <2>3. DOMAIN t = CellId
    BY DEF ConversationTables
  <2> QED
    BY <2>1, <2>2, <2>3 DEF Counts
<1> QED
  BY <1>1, <1>2

(* What is looked up for an unsigned field is not negative.                *)
LEMMA GetCounts ==
  ASSUME NEW t \in ConversationTables, Counts(t), NEW ftype \in FieldTypes,
         ftype.type = "UInt32", ftype.value.num \in Nat,
         NEW fdata \in FieldData, fdata.value.num \in Nat
  PROVE  get_dictionary_value(t, ftype, fdata).fdata.value.num \in Nat
<1> DEFINE prev == t[Cell(ftype)]
<1>1. ASSUME ftype.key # NoKey, prev # NoEntry, prev.type = ftype.type
      PROVE  prev.value.num \in Nat
  BY <1>1, CellType DEF Counts, Unsigned
<1>2. /\ err_d(4, fdata).value = fdata.value
      /\ \A status : [fdata EXCEPT !.status = status].value = fdata.value
  BY DEF err_d, FieldData
<1>3. ASSUME NEW v PROVE [status |-> "Exists", value |-> v, err |-> 0].value = v
  OBVIOUS
<1> QED
  BY <1>1, <1>2, <1>3 DEF get_dictionary_value

(* dissect_optional does not touch the value, and stores an empty one.     *)
LEMMA OptionalCounts ==
  ASSUME NEW s \in Stack, Counts(s.tab), NEW ftype \in FieldTypes,
         Unsigned(ftype, s.fdata.value)
  PROVE  LET r == dissect_optional(ftype, s) IN
         r.fdata.value = s.fdata.value /\ Counts(r.tab)
<1> DEFINE r == dissect_optional(ftype, s)
<1>1. r \in Stack
  BY OptionalResult DEF Result
<1>2. r.fdata.value = s.fdata.value
  <2>1. ASSUME NEW p, NEW status
        PROVE  LET t == To(s, p, [s.fdata EXCEPT !.status = status]) IN
               /\ t.fdata.value = s.fdata.value
               /\ Store(ftype, t).fdata = t.fdata
    BY DEF To, Store, Stack, FieldData
  <2> QED
    BY <2>1, SMTT(30) DEF dissect_optional
<1>3. r.tab = s.tab \/ r.tab = set_dictionary_value(s.tab, ftype, r.fdata)
  BY OptionalStored
<1> HIDE DEF r
<1>4. r.fdata \in FieldData /\ s.tab \in ConversationTables
  BY <1>1 DEF Stack
<1> QED
  BY <1>2, <1>3, <1>4, SetCounts DEF r

(* An operator that replaces dissection shows the number of the template   *)
(* or of the dictionary.                                                   *)
LEMMA OperatorCounts ==
  ASSUME NEW s \in Stack, Counts(s.tab), NEW ftype \in FieldTypes,
         ftype.type = "UInt32", ftype.value.num \in Nat, s.fdata.value.num \in Nat,
         ApplyOperator(ftype, s).operator_used
  PROVE  ApplyOperator(ftype, s).s.fdata.value.num \in Nat
<1>1. s.tab \in ConversationTables /\ s.fdata \in FieldData
  BY DEF Stack
<1>2. CASE ftype.op = "Copy"
  <2>1. ApplyOperator(ftype, s).s.fdata = LookUp(ftype, s).fdata
    BY <1>2, OperatorStored
  <2> QED
    BY <1>1, <2>1, GetCounts DEF LookUp
<1>3. CASE ftype.op = "Default"
  <2> DEFINE t == To(s, dissect_shift_pmap(s.pos), [s.fdata EXCEPT !.value = ftype.value])
  <2>1. ApplyOperator(ftype, s).s = Store(ftype, t)
    BY <1>3 DEF ApplyOperator, dissect_default
  <2>2. Store(ftype, t).fdata = t.fdata /\ t.fdata.value = ftype.value
    BY <1>1 DEF Store, To, FieldData
  <2> QED
    BY <2>1, <2>2
<1>4. CASE ftype.op = "Constant"
  <2>1. ApplyOperator(ftype, s).s = [s EXCEPT !.fdata.value = ftype.value]
    BY <1>4 DEF ApplyOperator
  <2>2. ApplyOperator(ftype, s).s.fdata.value = ftype.value
    BY <1>1, <2>1 DEF Stack, FieldData
  <2> QED
    BY <2>2
<1>5. CASE ftype.op \notin {"Copy", "Default", "Constant"}
  BY <1>5 DEF ApplyOperator
<1> QED
  BY <1>2, <1>3, <1>4, <1>5

(* dissect_uint32 converts whatever it has added up.                       *)
LEMMA IntCounts ==
  ASSUME NEW s \in Stack, NEW ftype \in FieldTypes, ftype.type = "UInt32"
  PROVE  dissect_int(ftype, s).fdata.value.num \in Nat
<1> DEFINE op    == dissect_int_op(ftype, s)
           read  == IF op.dissect_it THEN basic_dissect_int(ftype.type, op.s) ELSE op.s
           delta == IF op.dissect_it
                    THEN NullableDelta(ftype, read.fdata.value.num) ELSE op.delta
           num   == Wrap(ftype.type, read.fdata.value.num + delta)
           final == [read EXCEPT !.fdata.value.num = num]
<1>1. op.s \in Stack /\ op.delta \in Int
  BY IntOpResult DEF Result
<1>2. basic_dissect_int(ftype.type, op.s) \in Stack
  BY <1>1, BasicIntResult DEF Result
<1> HIDE DEF op
<1>3. read \in Stack
  BY <1>1, <1>2
<1>4. num \in Nat
  <2>1. read.fdata.value.num \in Int
    BY <1>3 DEF Stack, FieldData, FieldValue
  <2>2. delta \in Int
    BY <1>1 DEF NullableDelta
  <2> HIDE DEF read, delta
  <2>3. read.fdata.value.num + delta \in Int
    BY <2>1, <2>2
  <2> QED
    BY <2>3, WrapType DEF UnsignedType
<1>5. dissect_int(ftype, s) = Store(ftype, final)
  BY DEF dissect_int, op
<1> HIDE DEF num, read
<1>6. final.fdata.value.num = num
  BY <1>3 DEF Stack, FieldData, FieldValue
<1>7. Store(ftype, final).fdata = final.fdata
  <2>1. "fdata" \in DOMAIN final
    BY <1>3 DEF Stack
  <2> HIDE DEF final
  <2> QED
    BY <2>1 DEF Store
<1> QED
  BY <1>4, <1>5, <1>6, <1>7

(* So a field of any type leaves no negative number where an unsigned one  *)
(* is expected.                                                            *)
LEMMA ValueCounts ==
  ASSUME NEW n \in ScalarNode, NEW s \in Stack, Counts(s.tab), NEW uninit \in Uninitialised
  PROVE  LET r == dissect_value(FType[n], s.pos, s.tab, uninit) IN
         Unsigned(FType[n], r.fdata.value) /\ Counts(r.tab)
<1> DEFINE ftype == FType[n]
           r == dissect_value(ftype, s.pos, s.tab, uninit)
           begin == [pos |-> s.pos, tab |-> s.tab,
                     fdata |-> BlankField(IF ftype.mandatory THEN "Exists" ELSE "Empty")]
           t == IF ftype.mandatory THEN begin ELSE dissect_optional(ftype, begin)
           op == ApplyOperator(ftype, t)
<1>1. /\ s.pos \in DissectPosition /\ s.tab \in ConversationTables
      /\ ftype \in FieldTypes /\ check_valid_operator(ftype)
  BY ScalarTypes DEF Stack
<1>2. ftype.type = "UInt32" => ftype.value.num \in Nat
  BY InitialAssumption DEF ScalarNode
<1> HIDE DEF ftype
<1>3. r \in Stack /\ r.fdata \in FieldData
  <2>1. ftype.type # "Group"
    BY ScalarTypes DEF ftype
  <2> QED
    BY <1>1, <2>1, ValueResult DEF Stack
<1>4. begin \in Stack /\ begin.tab = s.tab
  BY <1>1, BeginType DEF FieldStatus
<1>5. begin.fdata.value.num = 0
  BY DEF BlankField, init_field_value
<1> HIDE DEF begin
<1>6. t \in Stack /\ t.fdata.value.num = 0 /\ Counts(t.tab)
  <2>1. Unsigned(ftype, begin.fdata.value)
    BY <1>5 DEF Unsigned
  <2>2. /\ dissect_optional(ftype, begin) \in Stack
        /\ dissect_optional(ftype, begin).fdata.value = begin.fdata.value
        /\ Counts(dissect_optional(ftype, begin).tab)
    BY <1>1, <1>4, <2>1, OptionalCounts, OptionalResult DEF Result
  <2> QED
    BY <1>4, <1>5, <2>2
<1>7. r = CASE t.fdata.status # "Exists" -> t
            [] t.fdata.status = "Exists" /\ op.operator_used -> op.s
            [] OTHER -> dissect_fn(ftype, op.s, uninit)
  BY DEF dissect_value, begin
<1> HIDE DEF t, r
<1>8. Unsigned(ftype, r.fdata.value)
  <2> SUFFICES ASSUME ftype.type = "UInt32" PROVE r.fdata.value.num \in Nat
    BY DEF Unsigned
  <2>1. CASE t.fdata.status # "Exists"
    BY <1>6, <1>7, <2>1
  <2>2. CASE t.fdata.status = "Exists" /\ op.operator_used
    <3>1. r = op.s
      BY <1>7, <2>2
    <3> QED
      BY <1>1, <1>2, <1>6, <2>2, <3>1, OperatorCounts
  <2>3. CASE t.fdata.status = "Exists" /\ ~op.operator_used
    <3>1. r = dissect_fn(ftype, op.s, uninit)
      BY <1>7, <2>3
    <3>2. op.s \in Stack
      BY <1>1, <1>6, OperatorResult DEF Result
    <3>3. r = dissect_int(ftype, op.s)
      BY <3>1 DEF dissect_fn, IntegerType, UnsignedType
    <3> QED
      BY <1>1, <3>2, <3>3, IntCounts
  <2> QED
    BY <2>1, <2>2, <2>3
<1>9. r.tab = s.tab \/ r.tab = set_dictionary_value(s.tab, ftype, r.fdata)
  BY <1>1, ValueStored DEF r
<1>10. Counts(r.tab)
  BY <1>1, <1>3, <1>8, <1>9, SetCounts
<1> QED
  BY <1>8, <1>10 DEF r, ftype

(* The same for whether a decimal or sequence is there,                    *)
LEMMA PresenceCounts ==
  ASSUME NEW n \in DecimalNode \cup SequenceNode, NEW pos \in DissectPosition,
         tab \in ConversationTables, Counts(tab)
  PROVE  LET s == Presence(n, pos) IN
         s \in Stack /\ Counts(s.tab) /\ s.fdata.value.num = 0
<1> DEFINE begin == [pos |-> pos, tab |-> tab,
                     fdata |-> BlankField(IF FType[n].mandatory THEN "Exists" ELSE "Empty")]
<1>1. begin \in Stack /\ begin.tab = tab
  BY BeginType DEF FieldStatus
<1>2. begin.fdata.value.num = 0
  BY DEF BlankField, init_field_value
<1>3. Asked(n) \in FieldTypes
  BY ChildTypes, NodeTypes, ScalarTypes DEF Asked
<1>4. Presence(n, pos) = IF FType[n].mandatory THEN begin
                         ELSE dissect_optional(Asked(n), begin)
  BY ChildTypes DEF Presence, Optional, Asked
<1> HIDE DEF begin
<1>5. /\ dissect_optional(Asked(n), begin).fdata.value = begin.fdata.value
      /\ Counts(dissect_optional(Asked(n), begin).tab)
  BY <1>1, <1>2, <1>3, OptionalCounts DEF Unsigned
<1> QED
  BY <1>1, <1>2, <1>4, <1>5, PresenceMoves

(* for the children of a decimal, which are signed,                        *)
LEMMA ChildrenCount ==
  ASSUME NEW n \in DecimalNode, NEW s \in Stack, Counts(s.tab), NEW uninit \in Uninitialised
  PROVE  Counts(DecimalChildren(n, s, uninit).tab)
<1> DEFINE e == dissect_value(exponent(n), s.pos, s.tab, uninit)
           m == dissect_value(mantissa(n), e.pos, e.tab, uninit)
<1>1. Children[n][1] \in ScalarNode /\ Children[n][2] \in ScalarNode
  BY ChildTypes
<1>2. e \in Stack /\ Counts(e.tab)
  BY <1>1, ScalarMoves, ValueCounts DEF exponent
<1> HIDE DEF e
<1>3. Counts(m.tab)
  BY <1>1, <1>2, ValueCounts DEF mantissa
<1>4. DecimalChildren(n, s, uninit) = Joined(e, m)
  BY DEF DecimalChildren, WithMantissa, e
<1>5. Joined(e, m).tab = m.tab
  <2>1. m \in Stack
    BY <1>1, <1>2, ScalarMoves DEF mantissa
  <2> HIDE DEF m
  <2> QED
    BY <2>1 DEF Joined, Stack
<1> HIDE DEF m
<1> QED
  BY <1>3, <1>4, <1>5

(* for a decimal,                                                          *)
LEMMA DecimalCounts ==
  ASSUME NEW n \in DecimalNode, NEW s \in Stack, Counts(s.tab),
         NEW uninit \in Uninitialised, NEW value \in FieldValue
  PROVE  Counts(DecimalValue(n, s, uninit, value).tab)
<1> DEFINE op == ApplyOperator(FType[n], s)
           inner == IF FType[n].op = "Delta" THEN DecimalDelta(FType[n], op.s, value)
                                             ELSE DecimalChildren(n, op.s, uninit)
<1>1. FType[n] \in FieldTypes /\ FType[n].type # "UInt32"
  BY ChildTypes, NodeTypes DEF DecimalNode
<1>2. ASSUME NEW t \in Stack, Counts(t.tab) PROVE Counts(Store(FType[n], t).tab)
  <2>1. Store(FType[n], t).tab = set_dictionary_value(t.tab, FType[n], t.fdata)
    BY DEF Store, Stack
  <2> QED
    BY <1>1, <1>2, <2>1, SetCounts DEF Stack, Unsigned
<1>3. op.s \in Stack /\ Counts(op.s.tab)
  <2>1. op.s \in Stack
    BY <1>1, OperatorResult DEF Result
  <2>2. op.s.tab = s.tab \/ op.s.tab = set_dictionary_value(s.tab, FType[n], op.s.fdata)
    BY <1>1, OperatorStored
  <2> HIDE DEF op
  <2>3. op.s.fdata \in FieldData /\ s.tab \in ConversationTables
    BY <2>1 DEF Stack
  <2> QED
    BY <1>1, <2>1, <2>2, <2>3, SetCounts DEF Unsigned
<1>4. DecimalValue(n, s, uninit, value) =
        IF s.fdata.status # "Exists" THEN s
        ELSE IF op.operator_used THEN op.s ELSE Store(FType[n], inner)
  BY DEF DecimalValue, AfterOperator, dissect_decimal
<1> HIDE DEF op
<1>5. inner \in Stack /\ Counts(inner.tab)
  <2>1. CASE FType[n].op = "Delta"
    <3>1. DecimalDelta(FType[n], op.s, value) \in Stack
      BY <1>1, <1>3, DecimalDeltaMoves DEF Moves
    <3>2. DecimalDelta(FType[n], op.s, value).tab = op.s.tab
      BY DEF DecimalDelta, To
    <3> QED
      BY <1>3, <2>1, <3>1, <3>2
  <2>2. CASE FType[n].op # "Delta"
    BY <1>3, <2>2, DecimalChildrenMoves, ChildrenCount DEF Moves
  <2> QED
    BY <2>1, <2>2
<1> HIDE DEF inner
<1> QED
  BY <1>2, <1>3, <1>4, <1>5

(* and for the length of a sequence, which is 0 if there is none.          *)
LEMMA LengthCounts ==
  ASSUME NEW s \in Stack, Counts(s.tab), s.fdata.value.num = 0,
         node \in SequenceNode, NEW uninit \in Uninitialised
  PROVE  LET r == SequenceLength(s, uninit) IN
         /\ Counts(r.tab) /\ r.fdata.value.num \in Nat
         /\ s.fdata.status # "Exists" => r.fdata.value.num = 0
<1> DEFINE l == length_tnode(node)
<1>1. l \in ScalarNode /\ FType[l].type = "UInt32"
  BY ChildTypes, NodeAssumption DEF SequenceAssumption, length_tnode
<1> HIDE DEF l
<1>2. /\ Counts(dissect_value(FType[l], s.pos, s.tab, uninit).tab)
      /\ dissect_value(FType[l], s.pos, s.tab, uninit).fdata.value.num \in Nat
  BY <1>1, ValueCounts DEF Unsigned
<1> QED
  BY <1>2 DEF SequenceLength, l

LEMMA CountsNext ==
  ASSUME Typed, Counts(tab), [Next]_vars
  PROVE  Counts(tab')
<1>1. CASE DissectScalar
  <2>1. PICK uninit \in Uninit :
          Dissected(dissect_value(FType[node], top.pos, tab, uninit))
    BY <1>1 DEF DissectScalar
  <2> DEFINE s == [pos |-> top.pos, tab |-> tab, fdata |-> BlankField("Exists")]
  <2>2. Walking /\ node \in ScalarNode
    BY <1>1 DEF DissectScalar, Descending
  <2>3. top.pos \in DissectPosition /\ tab \in ConversationTables /\ uninit \in Uninitialised
    BY <2>2, TopTypes, UninitAssumption DEF Walking
  <2>4. s \in Stack /\ s.pos = top.pos /\ s.tab = tab
    BY <2>3, BeginType DEF FieldStatus
  <2> HIDE DEF s
  <2>5. Counts(dissect_value(FType[node], top.pos, tab, uninit).tab)
    BY <2>2, <2>3, <2>4, ValueCounts
  <2> QED
    BY <2>1, <2>5 DEF Dissected
<1>2. CASE DissectDecimal
  <2>1. PICK uninit \in Uninit, value \in UninitValue :
          Dissected(DecimalValue(node, Presence(node, top.pos), uninit, value))
    BY <1>2 DEF DissectDecimal
  <2>2. Walking /\ node \in DecimalNode
    BY <1>2 DEF DissectDecimal, Descending
  <2>3. /\ top.pos \in DissectPosition /\ tab \in ConversationTables
        /\ uninit \in Uninitialised /\ value \in FieldValue
    BY <2>2, TopTypes, UninitAssumption DEF Walking
  <2>4. Presence(node, top.pos) \in Stack /\ Counts(Presence(node, top.pos).tab)
    BY <2>2, <2>3, PresenceCounts
  <2>5. Counts(DecimalValue(node, Presence(node, top.pos), uninit, value).tab)
    BY <2>2, <2>3, <2>4, DecimalCounts
  <2> QED
    BY <2>1, <2>5 DEF Dissected
<1>3. CASE DissectSequence
  <2>1. PICK uninit \in Uninit :
          LET begin == Presence(node, top.pos)
          IN  EnterLoop(SequenceLength(begin, uninit), begin.fdata.status = "Exists")
    BY <1>3 DEF DissectSequence
  <2>2. Walking /\ node \in SequenceNode
    BY <1>3 DEF DissectSequence, Descending
  <2>3. top.pos \in DissectPosition /\ tab \in ConversationTables /\ uninit \in Uninitialised
    BY <2>2, TopTypes, UninitAssumption DEF Walking
  <2> DEFINE begin == Presence(node, top.pos)
  <2>4. begin \in Stack /\ Counts(begin.tab) /\ begin.fdata.value.num = 0
    BY <2>2, <2>3, PresenceCounts
  <2> HIDE DEF begin
  <2>5. Counts(SequenceLength(begin, uninit).tab)
    BY <2>2, <2>3, <2>4, LengthCounts
  <2> QED
    BY <2>1, <2>5 DEF EnterLoop, begin
<1>4. CASE ~DissectScalar /\ ~DissectDecimal /\ ~DissectSequence
  <2>1. tab' \in {tab, EmptyTables}
    BY <1>4 DEF Next, Dissect, Stop, vars, Receive, ReceivePacket, ReceiveShort,
       BeginMessage, UnknownTemplate, EnterGroup, SkipGroup, Bail, Return, EndMessage,
       EndPacket, Crash
  <2>2. Counts(EmptyTables)
    BY DEF Counts, EmptyTables
  <2> QED
    BY <2>1, <2>2
<1> QED
  BY <1>1, <1>2, <1>3, <1>4

(***************************************************************************)
(* The nodes that the activation which fills data node at has to walk, and *)
(* the data nodes that it has added at its depth d.                        *)
(***************************************************************************)
Wanted(t, id, at) ==
  IF at = 0 THEN Template[id]
  ELSE IF t[at].node \in GroupNode THEN Children[t[at].node]
  ELSE Elements(t[at].node, t[at].fdata.value.num)

AddedBelow(t, at, d) == {j \in (at + 1)..Len(t) : t[j].depth = d}

Rank(A, j) == Cardinality({k \in A : k <= j})

(* What a frame fills, and that its loop is that of a sequence.            *)
Belongs(f, t) ==
  /\ f.at \in 0..Len(t)
  /\ f.at # 0 => \/ t[f.at].node \in GroupNode
                 \/ t[f.at].node \in SequenceNode /\ t[f.at].fdata.value.num \in Nat
  /\ f.loop => f.at # 0 /\ t[f.at].node \in SequenceNode

(* What was added is the beginning of what was wanted, and what is still   *)
(* to walk the rest of it, unless the loop was left.                       *)
InOrder(t, A, wanted) ==
  \A j \in A : Rank(A, j) \in DOMAIN wanted /\ t[j].node = wanted[Rank(A, j)]

IsRest(todo, A, wanted) ==
  /\ Cardinality(A) + Len(todo) = Len(wanted)
  /\ \A i \in DOMAIN todo : todo[i] = wanted[Cardinality(A) + i]

LeftLoop(f, A, wanted) ==
  /\ f.loop /\ f.todo = << >>
  /\ AtEnd(f.pos) \/ f.pos.pmap_idx = Len(f.pos.pmap)
  /\ Cardinality(A) <= Len(wanted)

Fills(f, d, t, id) ==
  LET wanted == Wanted(t, id, f.at)
      A      == AddedBelow(t, f.at, d)
  IN  Belongs(f, t) /\ InOrder(t, A, wanted) /\ IsRest(f.todo, A, wanted)

Filled(f, d, t, id) ==
  LET wanted == Wanted(t, id, f.at)
      A      == AddedBelow(t, f.at, d)
  IN  Belongs(f, t) /\ InOrder(t, A, wanted) /\ LeftLoop(f, A, wanted)

(* A data node keeps its node, its depth and its value.                    *)
Keeps(t, u) ==
  \A i \in 1..Len(t) : u[i].node = t[i].node /\ u[i].depth = t[i].depth
                       /\ u[i].fdata = t[i].fdata

LEMMA AddedFinite ==
  ASSUME NEW t \in Seq(DataNode), NEW at \in Nat, NEW d
  PROVE  /\ IsFiniteSet(AddedBelow(t, at, d))
         /\ Cardinality(AddedBelow(t, at, d)) \in Nat
         /\ AddedBelow(t, at, d) \subseteq (at + 1)..Len(t)
<1>1. at + 1 \in Int /\ Len(t) \in Int
  OBVIOUS
<1>2. IsFiniteSet((at + 1)..Len(t))
  BY <1>1, FS_Interval
<1>3. AddedBelow(t, at, d) \subseteq (at + 1)..Len(t)
  BY DEF AddedBelow
<1> HIDE DEF AddedBelow
<1>4. IsFiniteSet(AddedBelow(t, at, d))
  BY <1>2, <1>3, FS_Subset
<1> QED
  BY <1>3, <1>4, FS_CardinalityType

(* A data node at the depth of a frame comes after all that it has added,  *)
(* one at another depth is none of its own.                                *)
GrewBy(A, B, n) ==
  /\ B = A \cup {n} /\ Cardinality(B) = Cardinality(A) + 1
  /\ \A j \in A : Rank(B, j) = Rank(A, j)
  /\ Rank(B, n) = Cardinality(A) + 1

LEMMA AddedGrows ==
  ASSUME NEW t \in Seq(DataNode), NEW u \in Seq(DataNode), Len(u) = Len(t) + 1,
         Keeps(t, u), NEW at \in 0..Len(t), NEW d
  PROVE  LET A == AddedBelow(t, at, d)
             B == AddedBelow(u, at, d)
             n == Len(t) + 1
         IN  IF u[n].depth = d THEN GrewBy(A, B, n) ELSE B = A
<1> DEFINE A == AddedBelow(t, at, d)
           B == AddedBelow(u, at, d)
           n == Len(t) + 1
<1>1. at \in Nat /\ Len(t) \in Nat
  OBVIOUS
<1>2. IsFiniteSet(A) /\ Cardinality(A) \in Nat /\ A \subseteq (at + 1)..Len(t)
  BY <1>1, AddedFinite
<1>3. u[n].depth # d => B = A
  BY <1>1 DEF AddedBelow, Keeps
<1>4. ASSUME u[n].depth = d PROVE GrewBy(A, B, n)
  <2>1. B = A \cup {n}
    BY <1>1, <1>4 DEF AddedBelow, Keeps
  <2> HIDE DEF A, B
  <2>2. n \notin A /\ \A j \in A : j \in Nat /\ j < n
    BY <1>1, <1>2
  <2>3. Cardinality(B) = Cardinality(A) + 1
    BY <1>2, <2>1, <2>2, FS_AddElement
  <2>4. ASSUME NEW j \in A PROVE Rank(B, j) = Rank(A, j)
    <3>1. {k \in B : k <= j} = {k \in A : k <= j}
      BY <1>1, <2>1, <2>2
    <3> QED
      BY <3>1 DEF Rank
  <2>5. {k \in B : k <= n} = B
    BY <1>1, <2>1, <2>2
  <2> QED
    BY <2>1, <2>3, <2>4, <2>5 DEF GrewBy, Rank
<1> QED
  BY <1>3, <1>4 DEF A, B

(* What a frame fills is a message, a group or a sequence: so it wants a   *)
(* sequence of nodes.                                                      *)
LEMMA WantedType ==
  ASSUME NEW t \in Seq(DataNode), NEW id \in Tid, NEW f \in Frame, Belongs(f, t)
  PROVE  Wanted(t, id, f.at) \in Seq(Node)
<1>1. CASE f.at = 0
  BY <1>1, NodeAssumption DEF Wanted
<1>2. CASE f.at # 0
  <2> DEFINE n == t[f.at].node
             length == t[f.at].fdata.value.num
  <2>1. n \in GroupNode \/ (n \in SequenceNode /\ length \in Nat)
    BY <1>2 DEF Belongs
  <2>2. Wanted(t, id, f.at) = IF n \in GroupNode THEN Children[n] ELSE Elements(n, length)
    BY <1>2 DEF Wanted
  <2> HIDE DEF n, length
  <2>3. n \in GroupNode => Children[n] \in Seq(Node)
    BY NodeTypes DEF GroupNode
  <2>4. n \in SequenceNode /\ length \in Nat => Elements(n, length) \in Seq(Node)
    BY ElementsTypes
  <2> QED
    BY <2>1, <2>2, <2>3, <2>4
<1> QED
  BY <1>1, <1>2

(* Where the tree keeps its nodes and values, a frame wants the same.      *)
LEMMA StillWants ==
  ASSUME NEW t \in Seq(DataNode), NEW u \in Seq(DataNode), Len(t) <= Len(u), Keeps(t, u),
         NEW id, NEW f, NEW g, g.at = f.at, g.loop = f.loop, Belongs(f, t)
  PROVE  Belongs(g, u) /\ Wanted(u, id, g.at) = Wanted(t, id, f.at)
<1>1. f.at \in 0..Len(t) /\ Len(t) \in Nat /\ Len(u) \in Nat
  BY DEF Belongs
<1>2. f.at # 0 => u[f.at].node = t[f.at].node /\ u[f.at].fdata = t[f.at].fdata
  BY <1>1 DEF Keeps
<1> QED
  BY <1>1, <1>2 DEF Belongs, Wanted

(* The node at the head of what a frame has still to walk is added.        *)
LEMMA FillsNext ==
  ASSUME NEW t \in Seq(DataNode), NEW u \in Seq(DataNode), Len(u) = Len(t) + 1, Keeps(t, u),
         NEW id \in Tid, NEW f \in Frame, NEW g \in Frame, g.at = f.at, g.loop = f.loop,
         f.todo # << >>, g.todo = Tail(f.todo),
         NEW d, u[Len(t) + 1].depth = d, u[Len(t) + 1].node = Head(f.todo),
         Fills(f, d, t, id)
  PROVE  Fills(g, d, u, id)
<1> DEFINE A == AddedBelow(t, f.at, d)
           B == AddedBelow(u, f.at, d)
           n == Len(t) + 1
           wanted == Wanted(t, id, f.at)
           c == Cardinality(A)
<1>1. Belongs(f, t) /\ InOrder(t, A, wanted) /\ IsRest(f.todo, A, wanted)
  BY DEF Fills
<1>2. Belongs(g, u) /\ Wanted(u, id, g.at) = wanted
  BY <1>1, StillWants
<1>3. wanted \in Seq(Node)
  BY <1>1, WantedType
<1>4. f.at \in 0..Len(t) /\ Len(t) \in Nat
  BY <1>1 DEF Belongs
<1>5. c \in Nat /\ A \subseteq 1..Len(t)
  BY <1>4, AddedFinite
<1>6. /\ B = A \cup {n} /\ Cardinality(B) = c + 1
      /\ \A j \in A : Rank(B, j) = Rank(A, j)
      /\ Rank(B, n) = c + 1
  <2>1. GrewBy(A, B, n)
    BY <1>4, AddedGrows
  <2> QED
    BY <2>1 DEF GrewBy
<1>7. /\ f.todo \in Seq(Node) /\ Len(f.todo) \in Nat /\ Len(f.todo) >= 1
      /\ Head(f.todo) = f.todo[1]
      /\ Len(g.todo) = Len(f.todo) - 1 /\ DOMAIN g.todo = 1..(Len(f.todo) - 1)
      /\ \A i \in 1..(Len(f.todo) - 1) : g.todo[i] = f.todo[i + 1]
  BY DEF Frame
<1> HIDE DEF A, B, wanted
<1>8. c + Len(f.todo) = Len(wanted) /\ \A i \in 1..Len(f.todo) : f.todo[i] = wanted[c + i]
  BY <1>1, <1>7 DEF IsRest
<1>9. InOrder(u, B, wanted)
  <2> SUFFICES ASSUME NEW j \in B
               PROVE  Rank(B, j) \in DOMAIN wanted /\ u[j].node = wanted[Rank(B, j)]
    BY DEF InOrder
  <2>1. CASE j \in A
    <3>1. Rank(A, j) \in DOMAIN wanted /\ t[j].node = wanted[Rank(A, j)]
      BY <1>1, <2>1 DEF InOrder
    <3> QED
      BY <1>5, <1>6, <2>1, <3>1 DEF Keeps
  <2>2. CASE j = n
    <3>1. c + 1 \in DOMAIN wanted
      BY <1>3, <1>5, <1>7, <1>8
    <3>2. f.todo[1] = wanted[c + 1]
      BY <1>7, <1>8
    <3> QED
      BY <1>6, <1>7, <2>2, <3>1, <3>2
  <2> QED
    BY <1>6, <2>1, <2>2
<1>10. IsRest(g.todo, B, wanted)
  <2>1. Cardinality(B) + Len(g.todo) = Len(wanted)
    BY <1>5, <1>6, <1>7, <1>8
  <2>2. ASSUME NEW i \in DOMAIN g.todo PROVE g.todo[i] = wanted[Cardinality(B) + i]
    <3>1. i \in 1..(Len(f.todo) - 1) /\ i + 1 \in 1..Len(f.todo)
      BY <1>7
    <3>2. g.todo[i] = wanted[c + (i + 1)]
      BY <1>7, <1>8, <3>1
    <3>3. c + (i + 1) = Cardinality(B) + i
      BY <1>5, <1>6, <3>1
    <3> QED
      BY <3>2, <3>3
  <2> QED
    BY <2>1, <2>2 DEF IsRest
<1> QED
  BY <1>2, <1>9, <1>10 DEF Fills, B

(* The tree has not grown, or at another depth than d.                     *)
Elsewhere(t, u, d) ==
  Len(u) = Len(t) \/ (Len(u) = Len(t) + 1 /\ u[Len(t) + 1].depth # d)

LEMMA AddedStill ==
  ASSUME NEW t \in Seq(DataNode), NEW u \in Seq(DataNode), Keeps(t, u),
         NEW d, Elsewhere(t, u, d), NEW at \in 0..Len(t)
  PROVE  AddedBelow(u, at, d) = AddedBelow(t, at, d)
<1>1. Len(t) \in Nat
  OBVIOUS
<1>2. CASE Len(u) = Len(t)
  BY <1>1, <1>2 DEF AddedBelow, Keeps
<1>3. CASE Len(u) = Len(t) + 1 /\ u[Len(t) + 1].depth # d
  BY <1>1, <1>3, AddedGrows
<1> QED
  BY <1>2, <1>3 DEF Elsewhere

(* A frame then fills what it filled.                                      *)
LEMMA FillsStill ==
  ASSUME NEW t \in Seq(DataNode), NEW u \in Seq(DataNode), Keeps(t, u),
         NEW d, Elsewhere(t, u, d),
         NEW id, NEW f, NEW g, g.at = f.at, g.loop = f.loop, g.todo = f.todo,
         Fills(f, d, t, id)
  PROVE  Fills(g, d, u, id)
<1> DEFINE A == AddedBelow(t, f.at, d)
           wanted == Wanted(t, id, f.at)
<1>1. Belongs(f, t) /\ InOrder(t, A, wanted) /\ IsRest(f.todo, A, wanted)
  BY DEF Fills
<1>2. f.at \in 0..Len(t) /\ f.at \in Nat /\ Belongs(f, t)
  BY <1>1 DEF Belongs
<1>3. Len(t) <= Len(u)
  BY DEF Elsewhere
<1>4. Belongs(g, u) /\ Wanted(u, id, g.at) = wanted
  <2>1. f.at \in 0..Len(u)
    BY <1>2, <1>3
  <2>2. f.at # 0 => u[f.at].node = t[f.at].node /\ u[f.at].fdata = t[f.at].fdata
    BY <1>2 DEF Keeps
  <2> QED
    BY <1>2, <2>1, <2>2 DEF Belongs, Wanted
<1>5. AddedBelow(u, g.at, d) = A
  BY <1>2, AddedStill
<1>6. A \subseteq 1..Len(t)
  BY <1>2, AddedFinite
<1> HIDE DEF A, wanted
<1>7. InOrder(u, A, wanted)
  BY <1>1, <1>6 DEF InOrder, Keeps
<1> QED
  BY <1>1, <1>4, <1>5, <1>7 DEF Fills

(* An activation that has just begun has its nodes to walk.                *)
LEMMA NewFills ==
  ASSUME NEW t \in Seq(DataNode), NEW id \in Tid, NEW f \in Frame, NEW d,
         Belongs(f, t), f.at = Len(t), f.todo = Wanted(t, id, f.at)
  PROVE  Fills(f, d, t, id)
<1> DEFINE A == AddedBelow(t, f.at, d)
           wanted == Wanted(t, id, f.at)
<1>1. A = {}
  BY DEF AddedBelow
<1>2. Cardinality(A) = 0
  BY <1>1, FS_EmptySet
<1>3. InOrder(t, A, wanted)
  BY <1>1 DEF InOrder
<1> HIDE DEF A
<1>4. IsRest(f.todo, A, wanted)
  <2>1. f.todo \in Seq(Node) /\ f.todo = wanted
    BY DEF Frame
  <2> HIDE DEF wanted
  <2> QED
    BY <1>2, <2>1 DEF IsRest
<1> QED
  BY <1>3, <1>4 DEF Fills, A

LEMMA FirstOf ==
  ASSUME NEW S, NEW s \in Seq(S), NEW a, NEW b
  PROVE  (<<a, b>> \o s)[1] = a
OBVIOUS

LEMMA LastOf ==
  ASSUME NEW S, NEW s \in Seq(S), NEW a
  PROVE  Append(s, a)[Len(s) + 1] = a /\ Len(Append(s, a)) = Len(s) + 1
OBVIOUS

LEMMA NoElements ==
  ASSUME NEW n
  PROVE  Elements(n, 0) = << >>
<1>1. 1..0 = {}
  OBVIOUS
<1> QED
  BY <1>1 DEF Elements

(* dissect_group walks the children of its node, dissect_sequence as many  *)
(* elements as the number shown for it says.                               *)
LEMMA EnterGroupFills ==
  ASSUME Typed, EnterGroup
  PROVE  /\ stack'[1].at = Len(dtree') /\ Belongs(stack'[1], dtree')
         /\ \A id : stack'[1].todo = Wanted(dtree', id, stack'[1].at)
<1> DEFINE own    == pmap_exists(node)
           nested == IF own THEN basic_dissect_pmap(AfterGroupBit) ELSE AfterGroupBit
           due    == top.due + bits(FType[node])
           f      == [todo |-> Children[node], pos |-> nested, at |-> Len(dtree) + 1,
                      own |-> own, loop |-> FALSE, due |-> IF own THEN 0 ELSE due]
           onward == [top EXCEPT !.todo = Tail(@), !.pos = AfterGroupBit, !.due = due]
           d      == [node |-> node, depth |-> Len(stack), start |-> top.pos.offset,
                      end |-> top.pos.offset, fdata |-> BlankField("Exists")]
<1>1. /\ Walking /\ node \in GroupNode
      /\ stack' = << f, onward >> \o Tail(stack) /\ dtree' = Append(dtree, d)
  BY DEF EnterGroup, Descending, Call, AddNode
<1>2. f.todo = Children[node] /\ f.at = Len(dtree) + 1 /\ ~f.loop /\ d.node = node
  OBVIOUS
<1> HIDE DEF f, onward, d
<1>3. Tail(stack) \in Seq(Frame) /\ dtree \in Seq(DataNode) /\ Len(dtree) \in Nat
  BY <1>1, TopTypes DEF Walking
<1>4. stack'[1] = f
  BY <1>1, <1>3, FirstOf
<1>5. Len(dtree') = Len(dtree) + 1 /\ dtree'[Len(dtree) + 1] = d
  BY <1>1, <1>3, LastOf
<1> QED
  BY <1>1, <1>2, <1>3, <1>4, <1>5 DEF Belongs, Wanted

LEMMA DissectSequenceFills ==
  ASSUME Typed, Counts(tab), DissectSequence
  PROVE  /\ stack'[1].at = Len(dtree') /\ Belongs(stack'[1], dtree')
         /\ \A id : stack'[1].todo = Wanted(dtree', id, stack'[1].at)
<1>1. PICK uninit \in Uninit :
        LET begin == Presence(node, top.pos)
        IN  EnterLoop(SequenceLength(begin, uninit), begin.fdata.status = "Exists")
  BY DEF DissectSequence
<1> DEFINE begin    == Presence(node, top.pos)
           s        == SequenceLength(begin, uninit)
           exists   == begin.fdata.status = "Exists"
           due      == top.due + bits(FType[length_tnode(node)])
           elements == IF exists THEN Elements(node, s.fdata.value.num) ELSE << >>
           f        == [todo |-> elements, pos |-> s.pos, at |-> Len(dtree) + 1,
                        own |-> FALSE, loop |-> TRUE, due |-> due]
           onward   == [top EXCEPT !.todo = Tail(@), !.pos = s.pos, !.due = due]
           d        == [node |-> node, depth |-> Len(stack), start |-> top.pos.offset,
                        end |-> s.pos.offset, fdata |-> s.fdata]
<1>2. Walking /\ node \in SequenceNode
  BY DEF DissectSequence, Descending
<1>3. stack' = << f, onward >> \o Tail(stack) /\ dtree' = Append(dtree, d)
  BY <1>1 DEF EnterLoop, Call, AddNode
<1>4. top.pos \in DissectPosition /\ tab \in ConversationTables /\ uninit \in Uninitialised
  BY <1>2, TopTypes, UninitAssumption DEF Walking
<1>5. begin \in Stack /\ Counts(begin.tab) /\ begin.fdata.value.num = 0
  BY <1>2, <1>4, PresenceCounts
<1> HIDE DEF begin
<1>6. s.fdata.value.num \in Nat /\ (~exists => s.fdata.value.num = 0)
  BY <1>2, <1>4, <1>5, LengthCounts
<1> HIDE DEF s
<1>7. elements = Elements(node, s.fdata.value.num)
  BY <1>6, NoElements
<1>8. f.todo = elements /\ f.at = Len(dtree) + 1 /\ d.node = node /\ d.fdata = s.fdata
  OBVIOUS
<1> HIDE DEF f, onward, d, elements
<1>9. Tail(stack) \in Seq(Frame) /\ dtree \in Seq(DataNode) /\ Len(dtree) \in Nat
  BY <1>2, TopTypes DEF Walking
<1>10. stack'[1] = f
  BY <1>3, <1>9, FirstOf
<1>11. Len(dtree') = Len(dtree) + 1 /\ dtree'[Len(dtree) + 1] = d
  BY <1>3, <1>9, LastOf
<1>12. node \notin GroupNode
  BY <1>2, ChildTypes
<1> QED
  BY <1>2, <1>6, <1>7, <1>8, <1>9, <1>10, <1>11, <1>12 DEF Belongs, Wanted

(* The innermost activation fills its data node, or has left its loop; the *)
(* others, in the middle of a call, fill theirs.                           *)
Mirror ==
  /\ template_id \in Tid
  /\ \/ Fills(stack[1], Len(stack), dtree, template_id)
     \/ Filled(stack[1], Len(stack), dtree, template_id)
  /\ \A i \in 2..Len(stack) : Fills(stack[i], Len(stack) - i + 1, dtree, template_id)

Mirrored == Counts(tab) /\ (phase = "fields" => Mirror)

(* The two shapes of a step, for the frames that are there before it.      *)
LEMMA StepsOnMirrors ==
  ASSUME Typed, Mirror, Within, NEW p, NEW k, NEW fdata, StepsOn(p, k, fdata)
  PROVE  Mirror'
<1>1. /\ stack' \in Seq(Frame) /\ stack' # << >> /\ Len(stack') = Len(stack)
      /\ GoneOn(stack'[1], p, k)
      /\ \A i \in 2..Len(stack) : stack'[i] = stack[i]
      /\ dtree' \in Seq(DataNode) /\ Len(dtree') = Len(dtree) + 1
      /\ IsNewNode(dtree'[Len(dtree) + 1], p.offset)
      /\ \A i \in 1..Len(dtree) : dtree'[i] = dtree[i]
  BY StepsOnShape
<1>2. Walking /\ phase = "fields" /\ template_id' = template_id /\ template_id \in Tid
  BY DEF StepsOn, Walking, Within, Mirror
<1>3. /\ stack \in Seq(Frame) /\ Len(stack) \in Nat /\ Len(stack) >= 1 /\ top = stack[1]
      /\ top \in Frame /\ dtree \in Seq(DataNode) /\ top.todo # << >>
  BY <1>2, TopTypes DEF Walking
<1>4. Keeps(dtree, dtree')
  BY <1>1 DEF Keeps
<1>5. Fills(top, Len(stack), dtree, template_id)
  BY <1>3 DEF Mirror, Filled, LeftLoop
<1>6. Fills(stack'[1], Len(stack), dtree', template_id)
  <2>1. stack'[1] \in Frame
    BY <1>1, <1>3
  <2>2. /\ stack'[1].at = top.at /\ stack'[1].loop = top.loop
        /\ stack'[1].todo = Tail(top.todo)
    BY <1>1 DEF GoneOn
  <2>3. /\ dtree'[Len(dtree) + 1].depth = Len(stack)
        /\ dtree'[Len(dtree) + 1].node = Head(top.todo)
    BY <1>1 DEF IsNewNode, node
  <2> QED
    BY <1>1, <1>2, <1>3, <1>4, <1>5, <2>1, <2>2, <2>3, FillsNext
<1>7. ASSUME NEW i \in 2..Len(stack)
      PROVE  Fills(stack'[i], Len(stack) - i + 1, dtree', template_id)
  <2>1. Fills(stack[i], Len(stack) - i + 1, dtree, template_id) /\ stack'[i] = stack[i]
    BY <1>1 DEF Mirror
  <2>2. dtree'[Len(dtree) + 1].depth # Len(stack) - i + 1
    BY <1>1, <1>3 DEF IsNewNode
  <2> QED
    BY <1>1, <1>3, <1>4, <2>1, <2>2, FillsStill DEF Elsewhere
<1> QED
  BY <1>1, <1>2, <1>6, <1>7 DEF Mirror

LEMMA CallsForMirrors ==
  ASSUME Typed, Mirror, Within, NEW frame, NEW p, NEW k, NEW fdata, NEW till,
         CallsFor(frame, p, k, fdata, till),
         stack'[1].at = Len(dtree'), Belongs(stack'[1], dtree'),
         \A id : stack'[1].todo = Wanted(dtree', id, stack'[1].at)
  PROVE  Mirror'
<1>1. /\ stack' \in Seq(Frame) /\ stack' # << >> /\ Len(stack') = Len(stack) + 1
      /\ GoneOn(stack'[2], p, k)
      /\ \A i \in 3..(Len(stack) + 1) : stack'[i] = stack[i - 1]
      /\ dtree' \in Seq(DataNode) /\ Len(dtree') = Len(dtree) + 1
      /\ IsNewNode(dtree'[Len(dtree) + 1], till)
      /\ \A i \in 1..Len(dtree) : dtree'[i] = dtree[i]
  BY CallsForShape
<1>2. Walking /\ phase = "fields" /\ template_id' = template_id /\ template_id \in Tid
  BY DEF CallsFor, Walking, Within, Mirror
<1>3. /\ stack \in Seq(Frame) /\ Len(stack) \in Nat /\ Len(stack) >= 1 /\ top = stack[1]
      /\ top \in Frame /\ dtree \in Seq(DataNode) /\ top.todo # << >>
  BY <1>2, TopTypes DEF Walking
<1>4. Keeps(dtree, dtree')
  BY <1>1 DEF Keeps
<1>5. Fills(top, Len(stack), dtree, template_id)
  BY <1>3 DEF Mirror, Filled, LeftLoop
<1>6. Fills(stack'[2], Len(stack), dtree', template_id)
  <2>1. stack'[2] \in Frame
    BY <1>1, <1>3
  <2>2. /\ stack'[2].at = top.at /\ stack'[2].loop = top.loop
        /\ stack'[2].todo = Tail(top.todo)
    BY <1>1 DEF GoneOn
  <2>3. /\ dtree'[Len(dtree) + 1].depth = Len(stack)
        /\ dtree'[Len(dtree) + 1].node = Head(top.todo)
    BY <1>1 DEF IsNewNode, node
  <2> QED
    BY <1>1, <1>2, <1>3, <1>4, <1>5, <2>1, <2>2, <2>3, FillsNext
<1>7. ASSUME NEW i \in 3..(Len(stack) + 1)
      PROVE  Fills(stack'[i], Len(stack) + 1 - i + 1, dtree', template_id)
  <2>1. i - 1 \in 2..Len(stack) /\ Len(stack) - (i - 1) + 1 = Len(stack) + 1 - i + 1
    BY <1>3
  <2>2. /\ Fills(stack[i - 1], Len(stack) + 1 - i + 1, dtree, template_id)
        /\ stack'[i] = stack[i - 1]
    BY <1>1, <2>1 DEF Mirror
  <2>3. dtree'[Len(dtree) + 1].depth # Len(stack) + 1 - i + 1
    BY <1>1, <1>3 DEF IsNewNode
  <2> QED
    BY <1>1, <1>3, <1>4, <2>2, <2>3, FillsStill DEF Elsewhere
<1>8. Fills(stack'[1], Len(stack) + 1, dtree', template_id)
  <2>1. stack'[1] \in Frame
    BY <1>1
  <2> QED
    BY <1>1, <1>2, <2>1, NewFills
<1>9. ASSUME NEW i \in 2..(Len(stack) + 1)
      PROVE  Fills(stack'[i], Len(stack) + 1 - i + 1, dtree', template_id)
  <2>1. i = 2 \/ i \in 3..(Len(stack) + 1)
    BY <1>3
  <2>2. Len(stack) + 1 - 2 + 1 = Len(stack)
    BY <1>3
  <2> QED
    BY <1>6, <1>7, <2>1, <2>2
<1> QED
  BY <1>1, <1>2, <1>8, <1>9 DEF Mirror

(* A return changes no data node but for its window.                       *)
LEMMA ReturnMirrors ==
  ASSUME Typed, Mirror, Return
  PROVE  Mirror'
<1>1. /\ phase = "fields" /\ Len(stack) > 1 /\ stack \in Seq(Frame)
      /\ stack' \in Seq(Frame) /\ stack' # << >> /\ Len(stack') = Len(stack) - 1
      /\ stack'[1].todo = stack[2].todo
      /\ stack'[1].at = stack[2].at /\ stack'[1].loop = stack[2].loop
      /\ \A i \in 2..(Len(stack) - 1) : stack'[i] = stack[i + 1]
      /\ dtree \in Seq(DataNode) /\ dtree' \in Seq(DataNode) /\ Len(dtree') = Len(dtree)
      /\ \A i \in 1..Len(dtree) :
           dtree'[i] = IF i = stack[1].at
                       THEN [dtree[i] EXCEPT !.end = stack[1].pos.offset] ELSE dtree[i]
  BY ReturnShape
<1>2. template_id' = template_id /\ template_id \in Tid
  BY DEF Return, Mirror
<1>3. Keeps(dtree, dtree')
  <2> SUFFICES ASSUME NEW i \in 1..Len(dtree)
               PROVE  /\ dtree'[i].node = dtree[i].node /\ dtree'[i].depth = dtree[i].depth
                      /\ dtree'[i].fdata = dtree[i].fdata
    BY DEF Keeps
  <2>1. dtree[i] \in DataNode
    BY <1>1
  <2> QED
    BY <1>1, <2>1 DEF DataNode
<1>4. ASSUME NEW i \in 1..(Len(stack) - 1)
      PROVE  Fills(stack'[i], Len(stack) - 1 - i + 1, dtree', template_id)
  <2>1. i + 1 \in 2..Len(stack) /\ Len(stack) - (i + 1) + 1 = Len(stack) - 1 - i + 1
    BY <1>1
  <2>2. Fills(stack[i + 1], Len(stack) - 1 - i + 1, dtree, template_id)
    BY <2>1 DEF Mirror
  <2>3. /\ stack'[i].todo = stack[i + 1].todo
        /\ stack'[i].at = stack[i + 1].at /\ stack'[i].loop = stack[i + 1].loop
    <3>1. i = 1 \/ i \in 2..(Len(stack) - 1)
      BY <1>1
    <3> QED
      BY <1>1, <3>1
  <2> DEFINE f == stack[i + 1]
             g == stack'[i]
             d == Len(stack) - 1 - i + 1
  <2>4. g.at = f.at /\ g.loop = f.loop /\ g.todo = f.todo /\ Fills(f, d, dtree, template_id)
    BY <2>2, <2>3
  <2>5. dtree \in Seq(DataNode) /\ dtree' \in Seq(DataNode) /\ Len(dtree') = Len(dtree)
    BY <1>1
  <2> HIDE DEF f, g, d
  <2>6. Fills(g, d, dtree', template_id)
    BY <1>3, <2>4, <2>5, FillsStill DEF Elsewhere
  <2> QED
    BY <2>6 DEF g, d
<1>5. 1 \in 1..(Len(stack) - 1) /\ Len(stack) - 1 - 1 + 1 = Len(stack) - 1
  BY <1>1
<1>6. Fills(stack'[1], Len(stack) - 1, dtree', template_id)
  BY <1>4, <1>5
<1>7. 2..(Len(stack) - 1) \subseteq 1..(Len(stack) - 1)
  BY <1>1
<1> QED
  BY <1>1, <1>2, <1>4, <1>6, <1>7 DEF Mirror

(* The loop is left with some of the elements added and none to come.      *)
LEMMA BailMirrors ==
  ASSUME Typed, Mirror, Bail
  PROVE  Mirror'
<1>1. /\ phase = "fields" /\ dtree' = dtree
      /\ stack' \in Seq(Frame) /\ Len(stack') = Len(stack)
      /\ stack'[1] = [stack[1] EXCEPT !.todo = << >>]
      /\ \A i \in 2..Len(stack) : stack'[i] = stack[i]
  BY BailShape
<1>2. /\ top.loop /\ Exhausted /\ top.todo # << >> /\ template_id' = template_id
      /\ template_id \in Tid
  BY DEF Bail, Walking, Mirror
<1>3. /\ stack[1] \in Frame /\ top = stack[1] /\ Len(stack) \in Nat
      /\ dtree \in Seq(DataNode)
  BY <1>1, TopTypes
<1> DEFINE f == stack[1]
           g == stack'[1]
           wanted == Wanted(dtree, template_id, f.at)
           A == AddedBelow(dtree, f.at, Len(stack))
<1>4. Belongs(f, dtree) /\ InOrder(dtree, A, wanted) /\ IsRest(f.todo, A, wanted)
  BY <1>2, <1>3 DEF Mirror, Fills, Filled, LeftLoop
<1>5. g.at = f.at /\ g.loop = f.loop /\ g.pos = f.pos /\ g.todo = << >>
  BY <1>1, <1>3 DEF Frame
<1>6. Belongs(g, dtree)
  BY <1>4, <1>5 DEF Belongs
<1>7. LeftLoop(g, A, wanted)
  <2>1. f.at \in Nat
    BY <1>3 DEF Frame
  <2>2. Cardinality(A) \in Nat
    BY <1>3, <2>1, AddedFinite
  <2>3. f.todo \in Seq(Node)
    BY <1>3 DEF Frame
  <2> HIDE DEF A, wanted
  <2>4. Cardinality(A) <= Len(wanted)
    BY <1>4, <2>2, <2>3 DEF IsRest
  <2> QED
    BY <1>2, <1>3, <1>5, <2>4 DEF LeftLoop, Exhausted
<1>8. Filled(g, Len(stack), dtree, template_id)
  BY <1>4, <1>5, <1>6, <1>7 DEF Filled
<1>9. ASSUME NEW i \in 2..Len(stack)
      PROVE  Fills(stack'[i], Len(stack) - i + 1, dtree, template_id)
  BY <1>1 DEF Mirror
<1> HIDE DEF g
<1> QED
  BY <1>1, <1>2, <1>8, <1>9 DEF Mirror, g

(* A message begins with the nodes of its template.                        *)
LEMMA BeginMirrors ==
  ASSUME Typed, BeginMessage
  PROVE  Mirror'
<1> DEFINE f == [todo |-> Template[template_id'], pos |-> HeadPosition(MessageHead(outer)),
                 at |-> 0, own |-> TRUE, loop |-> FALSE, due |-> 1]
<1>1. stack' = << f >>
  BY DEF BeginMessage
<1>2. f.todo = Template[template_id'] /\ f.at = 0 /\ ~f.loop
  OBVIOUS
<1> HIDE DEF f
<1>3. /\ dtree' = << >> /\ template_id' \in Tid /\ Len(stack') = 1
      /\ stack' \in Seq(Frame)
  BY BeginShape
<1>4. stack'[1] = f /\ stack'[1] \in Frame
  BY <1>1, <1>3
<1>5. Belongs(f, dtree') /\ Wanted(dtree', template_id', f.at) = f.todo
  BY <1>2, <1>3 DEF Belongs, Wanted
<1>6. dtree' \in Seq(DataNode) /\ Len(dtree') = 0
  BY <1>3
<1>7. Fills(f, 1, dtree', template_id')
  BY <1>2, <1>3, <1>4, <1>5, <1>6, NewFills
<1> QED
  BY <1>3, <1>4, <1>7 DEF Mirror

LEMMA MirroredNext ==
  ASSUME Typed, Mirrored, [Next]_vars
  PROVE  Mirrored'
<1>1. Counts(tab')
  BY CountsNext DEF Mirrored
<1>2. Counts(tab)' <=> Counts(tab')
  BY DEF Counts
<1> SUFFICES ASSUME phase' = "fields" PROVE Mirror'
  BY <1>1, <1>2 DEF Mirrored
<1>3. CASE BeginMessage
  BY <1>3, BeginMirrors
<1>4. CASE UnknownTemplate \/ Between
  BY <1>4, BetweenShape DEF UnknownTemplate
<1>5. CASE Walk \/ Descend \/ Bail \/ Return
  <2>1. phase = "fields"
    BY <1>5 DEF Walk, Descend, Bail, Return, DissectScalar, DissectDecimal, SkipGroup,
       EnterGroup, DissectSequence, Descending, Walking
  <2>2. Mirror
    BY <2>1 DEF Mirrored
  <2>3. CASE Walk
    BY <2>2, <2>3, WalkSteps, StepsOnMirrors
  <2>4. CASE Descend
    <3>1. /\ stack'[1].at = Len(dtree') /\ Belongs(stack'[1], dtree')
          /\ \A id : stack'[1].todo = Wanted(dtree', id, stack'[1].at)
      BY <2>4, EnterGroupFills, DissectSequenceFills DEF Descend, Mirrored
    <3> QED
      BY <2>2, <2>4, <3>1, DescendCalls, CallsForMirrors
  <2> QED
    BY <1>5, <2>2, <2>3, <2>4, BailMirrors, ReturnMirrors
<1>6. CASE UNCHANGED vars
  BY <1>6 DEF vars, Mirrored, Mirror
<1> QED
  BY <1>3, <1>4, <1>5, <1>6, NextShapes

(* What is left of the nodes when an activation ends is nothing.           *)
LEMMA MirrorAtEnd ==
  ASSUME Typed, Mirror, phase = "fields", top.todo = << >>
  PROVE  TreeMirrorsTemplate
<1> DEFINE n      == dtree[top.at].node
           length == dtree[top.at].fdata.value.num
           wanted == Wanted(dtree, template_id, top.at)
           A      == AddedBelow(dtree, top.at, Len(stack))
<1>1. /\ stack \in Seq(Frame) /\ Len(stack) \in Nat /\ Len(stack) >= 1 /\ top = stack[1]
      /\ top \in Frame /\ dtree \in Seq(DataNode) /\ top.at \in Nat
  BY TopTypes DEF Frame
<1>2. Added(1) = A
  <2>1. Len(stack) - 1 + 1 = Len(stack)
    BY <1>1
  <2> QED
    BY <1>1, <2>1 DEF Added, AddedBelow
<1>3. \A j : Place(1, j) = Rank(A, j)
  BY <1>2 DEF Place, Rank
<1>4. /\ Belongs(top, dtree) /\ InOrder(dtree, A, wanted)
      /\ \/ Cardinality(A) = Len(wanted)
         \/ top.loop /\ Exhausted /\ Cardinality(A) <= Len(wanted)
  <2>1. Belongs(top, dtree) /\ InOrder(dtree, A, wanted)
    BY <1>1 DEF Mirror, Fills, Filled
  <2>2. IsRest(top.todo, A, wanted) \/ LeftLoop(top, A, wanted)
    BY <1>1 DEF Mirror, Fills, Filled
  <2>3. Cardinality(A) \in Nat
    BY <1>1, AddedFinite
  <2> HIDE DEF A, wanted
  <2>4. IsRest(top.todo, A, wanted) => Cardinality(A) = Len(wanted)
    BY <2>3 DEF IsRest
  <2> QED
    BY <2>1, <2>2, <2>4 DEF LeftLoop, Exhausted
<1>5. ASSUME ~top.loop PROVE Mirrors(wanted)
  <2>1. Cardinality(A) = Len(wanted)
    BY <1>4, <1>5
  <2>2. \A j \in A : dtree[j].node = wanted[Rank(A, j)]
    BY <1>4 DEF InOrder
  <2> HIDE DEF A, wanted
  <2> QED
    BY <1>2, <1>3, <2>1, <2>2 DEF Mirrors
<1>6. CASE top.at = 0
  <2>1. ~top.loop /\ wanted = Template[template_id]
    BY <1>4, <1>6 DEF Belongs, Wanted
  <2> QED
    BY <1>5, <1>6, <2>1 DEF TreeMirrorsTemplate
<1>7. CASE top.at # 0 /\ n \in GroupNode
  <2>1. ~top.loop /\ wanted = Children[n]
    BY <1>4, <1>7, ChildTypes DEF Belongs, Wanted
  <2> QED
    BY <1>5, <1>7, <2>1 DEF TreeMirrorsTemplate
<1>8. CASE top.at # 0 /\ n \notin GroupNode
  <2>1. n \in SequenceNode /\ length \in Nat
    BY <1>4, <1>8 DEF Belongs
  <2>2. wanted = Elements(n, length)
    BY <1>8 DEF Wanted
  <2> HIDE DEF n, length, wanted, A
  <2>3. Len(wanted) = length /\ \A i \in DOMAIN wanted : wanted[i] = group_tnode(n)
    BY <2>1, <2>2 DEF Elements
  <2>4. Cardinality(A) = length \/ Exhausted
    BY <1>4, <2>3
  <2>5. Cardinality(A) <= length
    BY <1>4, <2>1, <2>3
  <2>6. \A j \in A : dtree[j].node = group_tnode(n)
    BY <1>4, <2>3 DEF InOrder
  <2> QED
    BY <1>2, <1>8, <2>4, <2>5, <2>6 DEF TreeMirrorsTemplate, n, length
<1> QED
  BY <1>6, <1>7, <1>8

(***************************************************************************)
(* display_fields may walk the nodes of a template and the data nodes side *)
(* by side: whatever was nested, absent, in error or cut short, an ended   *)
(* activation has added one data node for each node it was to walk, in     *)
(* their order, and a loop of dissect_sequence that ended early ended      *)
(* because the bytes or the presence map have run out.                     *)
(***************************************************************************)
THEOREM TreeMirrored == Spec => []TreeMirrorsTemplate
<1>1. Init => Typed /\ Mirrored
  <2> SUFFICES ASSUME Init PROVE Mirrored
    BY InitTyped
  <2>1. tab = EmptyTables /\ phase = "idle"
    BY DEF Init
  <2> QED
    BY <2>1 DEF Mirrored, Counts, EmptyTables
<1>2. (Typed /\ Mirrored) /\ [Next]_vars => (Typed /\ Mirrored)'
  BY TypedNext, MirroredNext
<1>3. Typed /\ Mirrored => TreeMirrorsTemplate
  <2>1. ~(phase = "fields" /\ top.todo = << >>) => TreeMirrorsTemplate
    BY DEF TreeMirrorsTemplate
  <2> QED
    BY <2>1, MirrorAtEnd DEF Mirrored
<1> QED
  BY <1>1, <1>2, <1>3, PTL DEF Spec
================================================================================
