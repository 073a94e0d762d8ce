-------------------------- MODULE ParseTemplateProofs --------------------------
(***************************************************************************)
(* Proofs about ParseTemplate: what the parser derives for a field, from   *)
(* any template file and however deep its elements are nested, follows     *)
(* from the field and from what encloses it.                               *)
(***************************************************************************)
EXTENDS ParseTemplate, SequenceTheorems, WellFoundedInduction, TLAPS

--------------------------------------------------------------------------------
(* Lemmas about fields and operators.                                      *)

(* What the parsing of an operator leaves alone. *)
LikeField(g, f) ==
  /\ g.type = f.type /\ g.tid = f.tid /\ g.key = f.key
  /\ g.dictionary = f.dictionary /\ g.mandatory = f.mandatory

LEMMA OperatorFields ==
  ASSUME NEW f \in ParsedField, NEW op \in FieldOperatorIdentifier, NEW has \in BOOLEAN
  PROVE  /\ [f EXCEPT !.op = op] \in ParsedField
         /\ [f EXCEPT !.op = op].op = op /\ LikeField([f EXCEPT !.op = op], f)
         /\ [f EXCEPT !.hasDefault = has] \in ParsedField
         /\ [f EXCEPT !.hasDefault = has].op = f.op
         /\ LikeField([f EXCEPT !.hasDefault = has], f)
BY DEF ParsedField, LikeField

LEMMA ValidAlike ==
  ASSUME NEW f, NEW g, LikeField(g, f), g.op = f.op
  PROVE  check_valid_operator(g) <=> check_valid_operator(f)
BY DEF LikeField, check_valid_operator

(* What the value of an operator adds to a field. *)
LEMMA ValueResult ==
  ASSUME NEW x, NEW f \in ParsedField
  PROVE  LET r == OperatorValue(x, f)
         IN  /\ r.ok = TRUE /\ r.field \in ParsedField /\ r.errs \subseteq {3, 4, 5}
             /\ LikeField(r.field, f) /\ r.field.op = f.op
<1> DEFINE Fits(g, errs) ==
             /\ g \in ParsedField /\ errs \subseteq {3, 4, 5} /\ LikeField(g, f) /\ g.op = f.op
<1>1. LikeField(f, f)
  BY DEF LikeField
<1>2. ASSUME NEW has \in BOOLEAN
      PROVE  /\ [f EXCEPT !.hasDefault = has] \in ParsedField
             /\ [f EXCEPT !.hasDefault = has].op = f.op
             /\ LikeField([f EXCEPT !.hasDefault = has], f)
  BY DEF ParsedField, LikeField
<1>3. \E g, errs : OperatorValue(x, f) = ParsedOperator(TRUE, g, errs) /\ Fits(g, errs)
  <2>1. CASE x.value # Absent
    <3>1. OperatorValue(x, f) = ParsedOperator(TRUE, [f EXCEPT !.hasDefault = TRUE],
                                               IF x.value = "bad" THEN {3} ELSE {})
      BY <2>1 DEF OperatorValue
    <3>2. Fits([f EXCEPT !.hasDefault = TRUE], {3}) /\ Fits([f EXCEPT !.hasDefault = TRUE], {})
      BY <1>2
    <3> HIDE DEF Fits
    <3> QED
      BY <3>1, <3>2
  <2>2. CASE x.value = Absent
    <3>1. \/ OperatorValue(x, f) = ParsedOperator(TRUE, f, {4})
          \/ OperatorValue(x, f) = ParsedOperator(TRUE, f, {5})
          \/ OperatorValue(x, f) = ParsedOperator(TRUE, [f EXCEPT !.hasDefault = FALSE], {})
      BY <2>2 DEF OperatorValue
    <3>2. Fits(f, {4}) /\ Fits(f, {5}) /\ Fits([f EXCEPT !.hasDefault = FALSE], {})
      BY <1>1, <1>2
    <3> HIDE DEF Fits
    <3> QED
      BY <3>1, <3>2
  <2> QED
    BY <2>1, <2>2
<1>4. PICK g, errs : OperatorValue(x, f) = ParsedOperator(TRUE, g, errs) /\ Fits(g, errs)
  BY <1>3
<1> QED
  BY <1>4 DEF ParsedOperator

(* A refused operator is reported; one that is not known is not set.       *)
OperatorFrom(r, f) ==
  /\ r.ok \in BOOLEAN /\ r.field \in ParsedField /\ LikeField(r.field, f)
  /\ r.errs \subseteq 1..5
  /\ r.ok => r.field = f \/ check_valid_operator(r.field)
  /\ ~r.ok => r.field = f \/ 2 \in r.errs

LEMMA OperatorResult ==
  ASSUME NEW x, NEW f \in ParsedField
  PROVE  OperatorFrom(parse_operator(x, f), f)
<1> DEFINE set == [f EXCEPT !.op = x.tag]
<1>1. LikeField(f, f)
  BY DEF LikeField
<1>3. CASE ~IsOperator(x)
  <2>1. parse_operator(x, f) = ParsedOperator(FALSE, f, {1})
    BY <1>3 DEF parse_operator
  <2> QED
    BY <2>1, <1>1 DEF OperatorFrom, ParsedOperator
<1>4. CASE IsOperator(x)
  <2>1. x.tag \in FieldOperatorIdentifier
    BY <1>4 DEF IsOperator
  <2>2. set \in ParsedField /\ LikeField(set, f)
    BY <2>1, OperatorFields
  <2>3. CASE ~check_valid_operator(set)
    <3>1. parse_operator(x, f) = ParsedOperator(FALSE, set, {2})
      BY <1>4, <2>3 DEF parse_operator
    <3> HIDE DEF set
    <3> QED
      BY <3>1, <2>2 DEF OperatorFrom, ParsedOperator
  <2>4. CASE check_valid_operator(set)
    <3>1. parse_operator(x, f) = OperatorValue(x, set)
      BY <1>4, <2>4 DEF parse_operator
    <3> HIDE DEF set
    <3> DEFINE r == OperatorValue(x, set)
    <3>2. /\ r.ok = TRUE /\ r.field \in ParsedField /\ r.errs \subseteq {3, 4, 5}
          /\ LikeField(r.field, set) /\ r.field.op = set.op
      BY <2>2, ValueResult
    <3> HIDE DEF r
    <3>3. check_valid_operator(r.field)
      BY <3>2, <2>4, ValidAlike
    <3>4. LikeField(r.field, f)
      BY <3>2, <2>2 DEF LikeField
    <3>5. r.errs \subseteq 1..5
      BY <3>2
    <3>6. OperatorFrom(r, f)
      BY <3>2, <3>3, <3>4, <3>5 DEF OperatorFrom
    <3> QED
      BY <3>1, <3>6 DEF r
  <2> QED
    BY <2>3, <2>4
<1> QED
  BY <1>3, <1>4

LEMMA FieldOperatorResult ==
  ASSUME NEW x, NEW f \in ParsedField
  PROVE  OperatorFrom(parse_field_operator(x, f), f)
<1> DEFINE elements == {i \in DOMAIN x.children : ~ignore_xml_node(x.children[i])}
<1>1. CASE elements = {}
  <2>1. parse_field_operator(x, f) = ParsedOperator(TRUE, f, {})
    BY <1>1 DEF parse_field_operator
  <2> QED
    BY <2>1 DEF ParsedOperator, OperatorFrom, LikeField
<1>2. CASE elements # {}
  <2>1. \E y : parse_field_operator(x, f) = parse_operator(y, f)
    BY <1>2 DEF parse_field_operator
  <2> QED
    BY <2>1, OperatorResult
<1> QED
  BY <1>1, <1>2

LEMMA CreateType ==
  ASSUME NEW ftype \in FieldTypeIdentifier, NEW op \in FieldOperatorIdentifier
  PROVE  /\ create_field(ftype, op) \in ParsedField
         /\ create_field(ftype, op).type = ftype /\ create_field(ftype, op).op = op
         /\ create_field(ftype, op).key = NoKey
         /\ create_field(ftype, op).dictionary = Absent
<1>1. Absent \in AnyDictionary /\ NoKey \in NodeKey
  BY DEF AnyDictionary, NodeKey
<1> QED
  BY <1>1 DEF create_field, ParsedField

(* The key that an element gives. *)
GivenBy(key, x) == key \in {x.key, x.name} \ {Absent}

(* The key that is derived from an element's. *)
DerivedFrom(key, x, suffix) ==
  \/ key[1] = PrintedNull
  \/ \E text \in {x.key, x.name} \ {Absent} : key = Append(text, suffix)

LEMMA AttributesResult ==
  ASSUME NEW x \in Element, NEW f \in ParsedField, NEW tid \in Int
  PROVE  LET g == set_field_attributes(x, f, tid)
         IN  /\ g \in ParsedField
             /\ g.type = f.type /\ g.op = f.op /\ g.tid = tid
             /\ g.dictionary = IF x.dictionary # Absent THEN x.dictionary ELSE f.dictionary
             /\ IF Names(x) THEN g.key # NoKey /\ GivenBy(g.key, x) ELSE g.key = f.key
<1> DEFINE name == IF x.key # Absent THEN x.key ELSE x.name
           key  == IF Names(x) THEN name ELSE f.key
           mandatory == IF x.presence \in {"mandatory", "optional"}
                        THEN x.presence = "mandatory" ELSE f.mandatory
           dictionary == IF x.dictionary # Absent THEN x.dictionary ELSE f.dictionary
           g == set_field_attributes(x, f, tid)
<1>1. ASSUME Names(x)
      PROVE  name \in Text /\ key = name /\ name \in {x.key, x.name} \ {Absent}
  BY <1>1, ElementAssumption DEF Names
<1>2. key \in NodeKey /\ mandatory \in BOOLEAN /\ dictionary \in AnyDictionary
  BY <1>1, ElementAssumption DEF NodeKey, ParsedField
<1>3. g = [f EXCEPT !.tid = tid, !.key = key, !.mandatory = mandatory, !.dictionary = dictionary]
  BY DEF set_field_attributes, ParsedField
<1>4. Names(x) => key # NoKey /\ GivenBy(key, x)
  BY <1>1, UnsetAssumption DEF GivenBy
<1>5. ~Names(x) => key = f.key
  OBVIOUS
<1> HIDE DEF key, mandatory, dictionary, g
<1>6. /\ g \in ParsedField
      /\ g.type = f.type /\ g.op = f.op /\ g.tid = tid
      /\ g.dictionary = dictionary /\ g.key = key
  BY <1>2, <1>3 DEF ParsedField
<1> QED
  BY <1>4, <1>5, <1>6 DEF g, dictionary

LEMMA InheritResult ==
  ASSUME NEW f \in ParsedField, NEW d \in AnyDictionary
  PROVE  LET g == Inherit(f, d)
         IN  /\ g \in ParsedField
             /\ g.type = f.type /\ g.op = f.op /\ g.tid = f.tid /\ g.key = f.key
             /\ g.dictionary = IF f.dictionary = Absent THEN d ELSE f.dictionary
BY DEF Inherit, ParsedField

--------------------------------------------------------------------------------
(* The dictionary that is nearest.                                         *)

LEMMA HasLast ==
  ASSUME NEW n \in Nat, NEW S \in SUBSET (1..n), S # {}
  PROVE  \E i \in S : \A j \in S : j <= i
<1> DEFINE T == {n - i : i \in S}
<1>1. T # {} /\ T \subseteq Nat
  <2>1. PICK i \in S : TRUE
    OBVIOUS
  <2>2. n - i \in T
    BY <2>1
  <2>3. \A j \in S : n - j \in Nat
    OBVIOUS
  <2> QED
    BY <2>2, <2>3
<1>2. \E k \in T : \A m \in T : ~(<<m, k>> \in OpToRel(<, Nat))
  BY <1>1, NatLessThanWellFounded, WFMin
<1>3. PICK i \in S : \A m \in T : ~(<<m, n - i>> \in OpToRel(<, Nat))
  BY <1>2
<1>4. ASSUME NEW j \in S, ~(j <= i)
      PROVE  FALSE
  <2>1. n - j \in T /\ n - j \in Nat /\ n - i \in Nat /\ n - j < n - i
    BY <1>4
  <2> QED
    BY <1>3, <2>1 DEF OpToRel
<1> QED
  BY <1>4

LEMMA NearestAppend ==
  ASSUME NEW around \in Seq(AnyDictionary), NEW d \in AnyDictionary
  PROVE  NearestDictionary(Append(around, d)) =
           IF d = Absent THEN NearestDictionary(around) ELSE d
<1> DEFINE given(s) == {i \in DOMAIN s : s[i] # Absent}
           last(S)  == CHOOSE i \in S : \A j \in S : j <= i
           longer   == Append(around, d)
<1>1. /\ Len(around) \in Nat /\ DOMAIN around = 1..Len(around)
      /\ DOMAIN longer = 1..(Len(around) + 1) /\ longer[Len(around) + 1] = d
      /\ \A i \in 1..Len(around) : longer[i] = around[i]
  OBVIOUS
<1>2. /\ NearestDictionary(longer) =
           IF given(longer) = {} THEN GLOBAL_DICTIONARY ELSE longer[last(given(longer))]
      /\ NearestDictionary(around) =
           IF given(around) = {} THEN GLOBAL_DICTIONARY ELSE around[last(given(around))]
  BY DEF NearestDictionary
<1> HIDE DEF longer
<1>3. CASE d = Absent
  <2>1. given(longer) = given(around)
    BY <1>1, <1>3
  <2>2. ASSUME given(around) # {}
        PROVE  last(given(around)) \in 1..Len(around)
    <3>1. given(around) \in SUBSET (1..Len(around))
      BY <1>1
    <3>2. \E i \in given(around) : \A j \in given(around) : j <= i
      BY <3>1, <2>2, <1>1, HasLast
    <3> HIDE DEF given
    <3>3. last(given(around)) \in given(around)
      BY <3>2
    <3> QED
      BY <3>1, <3>3
  <2> HIDE DEF given, last
  <2> QED
    BY <1>1, <1>2, <1>3, <2>1, <2>2 DEF longer
<1>4. CASE d # Absent
  <2>1. Len(around) + 1 \in given(longer) /\ \A j \in given(longer) : j <= Len(around) + 1
    BY <1>1, <1>4
  <2>2. given(longer) \subseteq Nat
    BY <1>1
  <2>3. last(given(longer)) = Len(around) + 1
    <3> HIDE DEF given
    <3>1. /\ last(given(longer)) \in given(longer)
          /\ \A j \in given(longer) : j <= last(given(longer))
      BY <2>1
    <3>2. Len(around) + 1 <= last(given(longer)) /\ last(given(longer)) <= Len(around) + 1
      BY <2>1, <3>1
    <3> HIDE DEF last
    <3> QED
      BY <1>1, <2>2, <3>1, <3>2
  <2>4. given(longer) # {}
    BY <2>1
  <2> HIDE DEF given, last
  <2> QED
    BY <1>1, <1>2, <1>4, <2>3, <2>4 DEF longer
<1> QED
  BY <1>3, <1>4

LEMMA NearestOne ==
  ASSUME NEW d \in AnyDictionary
  PROVE  NearestDictionary(<< d >>) = IF d = Absent THEN GLOBAL_DICTIONARY ELSE d
<1>1. << >> \in Seq(AnyDictionary) /\ Append(<< >>, d) = << d >>
  OBVIOUS
<1>2. NearestDictionary(<< >>) = GLOBAL_DICTIONARY
  BY DEF NearestDictionary
<1> QED
  BY <1>1, <1>2, NearestAppend

--------------------------------------------------------------------------------
(* The inductive invariant.                                                *)

(* The tree is typed, and so is the rest of the state.                     *)
Typed ==
  /\ file \in Seq(Element) /\ cur \in Seq(Element) /\ templateID \in Int
  /\ stack \in Seq(Frame) /\ tree \in Seq(Node)
  /\ templates \in Seq(Seq(Node))
  /\ errors \in SUBSET (1..5)

(* A walk adds nodes below a template and below groups; what is walked are *)
(* the children of templates, groups and sequences.                        *)
Takes(node)  == node.parent = 0 \/ node.field.type = "Group"
Walked(node) ==
  \/ node.parent = 0
  \/ node.field.type = "Sequence"
  \/ node.field.type = "Group" /\ node.idx # 0

BelowIn(t, at) == IF t[at].field.type = "Sequence" THEN at + 1 ELSE at

(* The nodes that elements are still to describe. *)
Open(t, s) ==
  IF s = << >> \/ s[1].fn = "walk" THEN {}
  ELSE IF s[1].fn = "decimal" THEN {s[1].at + 1, s[1].at + 2} ELSE {Len(t)}

Settled(node, id) ==
  node.field.tid = id /\ node.field.dictionary = NearestDictionary(node.around)

(* A node with an element of its own. *)
Own(node, parent, id) ==
  /\ node.idx \in DOMAIN parent.x.children /\ node.x = parent.x.children[node.idx]
  /\ ~ignore_xml_node(node.x) /\ node.field.type = TypeOfTag(node.x.tag)
  /\ Settled(node, id)
  /\ node.field.key # NoKey => GivenBy(node.field.key, node.x)

(* The group of a sequence. *)
Inner(node, parent) ==
  node.idx = 0 /\ node.field.type = "Group" /\ node.x = parent.x

(* A length, exponent or mantissa, whose key an element gave it.           *)
Named(node, parent, suffix) ==
  /\ node.idx \in DOMAIN parent.x.children
  /\ parent.x.children[node.idx].tag = suffix
  /\ node.field.key # NoKey /\ GivenBy(node.field.key, parent.x.children[node.idx])

(* One that is still described, and one that is not.                       *)
OpenPart(node, parent, suffix) ==
  /\ IF node.idx = 0 THEN node.field.key = NoKey ELSE Named(node, parent, suffix)
  /\ NearestDictionary(node.around) =
       IF node.field.dictionary = Absent THEN parent.field.dictionary
                                         ELSE node.field.dictionary

SettledPart(node, parent, suffix, id) ==
  /\ Settled(node, id)
  /\ IF node.idx = 0
     THEN node.field.key # NoKey =>
            DerivedFrom(node.field.key, parent.x, suffix)
     ELSE Named(node, parent, suffix)

Part(node, parent, suffix, open, id) ==
  /\ node.field.type \in IntegerType /\ node.x = parent.x
  /\ IF open THEN OpenPart(node, parent, suffix) ELSE SettledPart(node, parent, suffix, id)

(* What a node is follows from its parent.                                 *)
Child(node, parent, n, open, id) ==
  LET p    == node.parent
      type == parent.field.type
  IN  \/ Takes(parent) /\ Own(node, parent, id)
      \/ /\ ~Takes(parent)
         /\ \/ type = "Decimal" /\ n = p + 1 /\ Part(node, parent, "exponent", open, id)
            \/ type = "Decimal" /\ n = p + 2 /\ Part(node, parent, "mantissa", open, id)
            \/ type \in SizedType /\ n = p + 1 /\ Part(node, parent, "length", open, id)
            \/ type = "Sequence" /\ n = p + 1 /\ Inner(node, parent)
            \/ type = "Sequence" /\ n > p + 1 /\ Part(node, parent, "length", open, id)

Root(node, id) ==
  /\ node.parent = 0 /\ node.idx = 0 /\ node.x.id = id /\ node.field.type = "UInt32"
  /\ Settled(node, id)

NodeOK(t, n, open, id) ==
  IF n = 1 THEN Root(t[1], id)
  ELSE t[n].parent \in 1..(n - 1) /\ Child(t[n], t[t[n].parent], n, n \in open, id)

Nodes(t, open, id) == \A n \in 1..Len(t) : NodeOK(t, n, open, id)

Valid(t, errs) ==
  \A n \in 1..Len(t) :
    check_valid_operator(t[n].field) \/ (t[n].field.type = "Decimal" /\ 2 \in errs)

(* A sequence has its group and one length, and elements are found in      *)
(* their order.                                                            *)
Groups(t) ==
  \A n \in 1..Len(t) :
    t[n].field.type = "Sequence" => n + 1 \in 1..Len(t) /\ t[n + 1].parent = n

Lengths(t) ==
  \A n, m \in 2..Len(t) :
    n < m /\ t[n].parent = t[m].parent /\ t[t[n].parent].field.type = "Sequence"
      => n = t[n].parent + 1

Ordered(t) ==
  \A n, m \in 2..Len(t) :
    n < m /\ t[n].parent = t[m].parent /\ Takes(t[t[n].parent]) => t[n].idx < t[m].idx

TreeOK(t, open, id, errs) ==
  Nodes(t, open, id) /\ Valid(t, errs) /\ Groups(t) /\ Lengths(t) /\ Ordered(t)

(* An activation and the nodes of its children so far.                     *)
Walks(t, f) ==
  /\ Walked(t[f.at])
  /\ \A n \in 2..Len(t) : t[n].parent = BelowIn(t, f.at) => t[n].idx < f.i
  /\ t[f.at].field.type = "Sequence" =>
       \A n \in 2..Len(t) : t[n].parent = f.at => n = f.at + 1

Describes(t, f) ==
  \/ /\ f.fn = "decimal" /\ t[f.at].field.type = "Decimal" /\ Len(t) = f.at + 2
     /\ t[f.at + 1].parent = f.at /\ t[f.at + 2].parent = f.at
  \/ /\ f.fn = "length" /\ f.at < Len(t) /\ t[Len(t)].parent = f.at
     /\ \/ t[f.at].field.type \in SizedType
        \/ t[f.at].field.type = "Sequence" /\ f.at + 1 < Len(t)

FrameOK(t, s, k) ==
  /\ s[k].at \in 1..Len(t) /\ s[k].i \in 1..(Len(t[s[k].at].x.children) + 1)
  /\ IF s[k].fn = "walk" THEN Walks(t, s[k]) ELSE k = 1 /\ Describes(t, s[k])
  /\ s[k].at = 1 <=> k = Len(s)
  /\ \A j \in 1..(k - 1) : BelowIn(t, s[k].at) < s[j].at

Frames(t, s) == (s = << >> <=> t = << >>) /\ \A k \in 1..Len(s) : FrameOK(t, s, k)

(* The first i - 1 elements of a walked node have their nodes.             *)
Found(t, n, i) ==
  LET x == t[n].x
  IN  \A j \in DOMAIN x.children :
        j < i /\ ~ignore_xml_node(x.children[j]) =>
          \E m \in 2..Len(t) : t[m].parent = BelowIn(t, n) /\ t[m].idx = j

AllFound(t) ==
  \A n \in 1..Len(t) : Walked(t[n]) => Found(t, n, Len(t[n].x.children) + 1)

Reported(t, s, errs) ==
  errs \subseteq {3, 4, 5} =>
    \A n \in 1..Len(t) :
      Walked(t[n]) => \/ \E k \in 1..Len(s) : s[k].at = n /\ s[k].fn = "walk"
                                              /\ Found(t, n, s[k].i)
                      \/ Found(t, n, Len(t[n].x.children) + 1)

Parsed(t, errs) ==
  /\ t # << >> /\ TreeOK(t, {}, t[1].x.id, errs)
  /\ errs \subseteq {3, 4, 5} => AllFound(t)

InTree(t, s, id, errs) ==
  TreeOK(t, Open(t, s), id, errs) /\ Frames(t, s) /\ Reported(t, s, errs)

IInv ==
  /\ Typed /\ InTree(tree, stack, templateID, errors)
  /\ \A k \in 1..Len(templates) : Parsed(templates[k], errors)

--------------------------------------------------------------------------------
(* What is where, while a template is parsed.                              *)

(* A node that is changed in nothing but its operator.                     *)
Same(a, b) ==
  /\ a.parent = b.parent /\ a.idx = b.idx /\ a.x = b.x /\ a.around = b.around
  /\ a.field.type = b.field.type /\ a.field.tid = b.field.tid
  /\ a.field.key = b.field.key /\ a.field.dictionary = b.field.dictionary

LEMMA NodeStays ==
  ASSUME NEW t, NEW u, NEW n, NEW open, NEW still, NEW id,
         NodeOK(t, n, open, id), Same(u[n], t[n]),
         n # 1 => Same(u[t[n].parent], t[t[n].parent]),
         n \in open <=> n \in still
  PROVE  NodeOK(u, n, still, id)
<1>1. CASE n = 1
  BY <1>1 DEF NodeOK, Root, Settled, Same
<1>2. CASE n # 1
  <2> DEFINE a == t[n]
             b == u[n]
             p == t[t[n].parent]
             q == u[t[n].parent]
  <2>1. Same(b, a) /\ Same(q, p) /\ u[n].parent = t[n].parent
    BY <1>2 DEF Same
  <2>2. a.parent \in 1..(n - 1) /\ Child(a, p, n, n \in open, id)
    BY <1>2 DEF NodeOK
  <2> HIDE DEF a, b, p, q
  <2>3. Takes(q) <=> Takes(p)
    BY <2>1 DEF Takes, Same
  <2>4. Own(a, p, id) => Own(b, q, id)
    BY <2>1 DEF Own, Settled, GivenBy, Same
  <2>5. Inner(a, p) => Inner(b, q)
    BY <2>1 DEF Inner, Same
  <2>6. ASSUME NEW suffix
        PROVE  Named(a, p, suffix) => Named(b, q, suffix)
    BY <2>1 DEF Named, Same
  <2>7. ASSUME NEW suffix
        PROVE  OpenPart(a, p, suffix) => OpenPart(b, q, suffix)
    BY <2>1, <2>6 DEF OpenPart, Same
  <2>8. ASSUME NEW suffix
        PROVE  SettledPart(a, p, suffix, id) => SettledPart(b, q, suffix, id)
    BY <2>1, <2>6 DEF SettledPart, Settled, Same
  <2>9. ASSUME NEW suffix
        PROVE  Part(a, p, suffix, n \in open, id) => Part(b, q, suffix, n \in still, id)
    <3>1. /\ a.field.type \in IntegerType /\ a.x = p.x => b.field.type \in IntegerType /\ b.x = q.x
      BY <2>1 DEF Same
    <3> QED
      BY <3>1, <2>7, <2>8 DEF Part
  <2>10. b.parent = a.parent /\ q.field.type = p.field.type
    BY <2>1 DEF Same
  <2>11. Child(b, q, n, n \in still, id)
    BY <2>2, <2>3, <2>4, <2>5, <2>9, <2>10 DEF Child
  <2> QED
    BY <1>2, <2>1, <2>2, <2>11 DEF NodeOK, a, b, p, q
<1> QED
  BY <1>1, <1>2

(* A node that is walked has an element of its own. *)
LEMMA WalkedSettled ==
  ASSUME NEW t, NEW n, NEW open, NEW id, NodeOK(t, n, open, id), Walked(t[n])
  PROVE  Settled(t[n], id)
<1>1. CASE n = 1
  BY <1>1 DEF NodeOK, Root
<1>2. CASE n # 1
  <2>1. t[n].parent \in 1..(n - 1) /\ Child(t[n], t[t[n].parent], n, n \in open, id)
    BY <1>2 DEF NodeOK
  <2>2. t[n].parent # 0
    BY <2>1
  <2>3. ASSUME NEW suffix
        PROVE  ~Part(t[n], t[t[n].parent], suffix, n \in open, id)
    BY <2>2 DEF Part, Walked, IntegerType, UnsignedType, SignedType
  <2>4. ~Inner(t[n], t[t[n].parent])
    BY <2>2 DEF Inner, Walked
  <2> QED
    BY <2>1, <2>3, <2>4 DEF Child, Own
<1> QED
  BY <1>1, <1>2

(* A node that only describes its parent has no children. *)
LEMMA PartChildless ==
  ASSUME NEW node, NEW parent, NEW n, NEW open, NEW id,
         Child(node, parent, n, open, id)
  PROVE  Takes(parent) \/ parent.field.type \in {"Decimal", "Sequence"} \cup SizedType
BY DEF Child

LEMMA InnerGroup ==
  ASSUME NEW t \in Seq(Node), NEW open, NEW id, NEW errs, TreeOK(t, open, id, errs),
         NEW n \in 1..Len(t),
         t[n].field.type = "Sequence"
  PROVE  /\ n + 1 \in 1..Len(t) /\ n # 1
         /\ Inner(t[n + 1], t[n]) /\ Takes(t[n + 1])
<1>1. n + 1 \in 1..Len(t) /\ t[n + 1].parent = n
  BY DEF TreeOK, Groups
<1>2. NodeOK(t, n + 1, open, id) /\ NodeOK(t, n, open, id)
  BY <1>1 DEF TreeOK, Nodes
<1>3. n # 1
  BY <1>2 DEF NodeOK, Root
<1>4. Child(t[n + 1], t[n], n + 1, n + 1 \in open, id)
  BY <1>1, <1>2 DEF NodeOK
<1>5. t[n].parent # 0
  BY <1>2, <1>3 DEF NodeOK
<1>6. ~Takes(t[n])
  BY <1>5 DEF Takes
<1>7. Inner(t[n + 1], t[n])
  BY <1>1, <1>4, <1>6 DEF Child, SizedType
<1> QED
  BY <1>1, <1>3, <1>7 DEF Inner, Takes

(* Where a walk stands. *)
LEMMA WalkFacts ==
  ASSUME IInv, stack # << >>, top.fn = "walk"
  PROVE  /\ Len(stack) \in Nat \ {0} /\ top \in Frame /\ top.at \in 1..Len(tree)
         /\ Here \in Node /\ Open(tree, stack) = {}
         /\ Below(top.at) = BelowIn(tree, top.at) /\ Below(top.at) \in 1..Len(tree)
         /\ Takes(tree[Below(top.at)]) /\ tree[Below(top.at)].x = Here.x
         /\ Settled(Here, templateID) /\ Walks(tree, top)
         /\ top.i \in 1..(Len(Here.x.children) + 1) /\ Here.x \in Element
<1>1. Len(stack) \in Nat \ {0} /\ top \in Frame /\ 1 \in 1..Len(stack)
  BY DEF IInv, Typed, top
<1>2. FrameOK(tree, stack, 1)
  BY <1>1 DEF IInv, InTree, Frames
<1>3. /\ top.at \in 1..Len(tree) /\ Walks(tree, top)
      /\ top.i \in 1..(Len(Here.x.children) + 1)
  BY <1>2 DEF FrameOK, top, Here
<1>4. Here \in Node /\ Here.x \in Element
  <2>1. tree \in Seq(Node)
    BY DEF IInv, Typed
  <2>2. Here \in Node
    BY <1>3, <2>1 DEF Here
  <2> QED
    BY <2>2 DEF Node
<1>5. Open(tree, stack) = {}
  BY DEF Open, top
<1>6. NodeOK(tree, top.at, {}, templateID)
  BY <1>3, <1>5 DEF IInv, InTree, TreeOK, Nodes
<1>7. Settled(Here, templateID)
  BY <1>3, <1>6, WalkedSettled DEF Walks, Here
<1>8. Below(top.at) = BelowIn(tree, top.at)
  BY DEF Below, BelowIn
<1>9. CASE Here.field.type = "Sequence"
  <2>1. Below(top.at) = top.at + 1
    BY <1>9 DEF Below, Here
  <2>2. /\ top.at + 1 \in 1..Len(tree) /\ Inner(tree[top.at + 1], tree[top.at])
        /\ Takes(tree[top.at + 1])
    BY <1>3, <1>5, <1>9, InnerGroup DEF IInv, InTree, Typed, Here
  <2> QED
    BY <1>1, <1>3, <1>4, <1>5, <1>7, <1>8, <2>1, <2>2 DEF Inner, Here
<1>10. CASE Here.field.type # "Sequence"
  <2>1. Below(top.at) = top.at
    BY <1>10 DEF Below, Here
  <2>2. Takes(Here)
    BY <1>3, <1>10 DEF Walks, Walked, Takes, Here
  <2> QED
    BY <1>1, <1>3, <1>4, <1>5, <1>7, <1>8, <2>1, <2>2 DEF Here
<1> QED
  BY <1>9, <1>10

(* The node of the element that a walk has come to. *)
LEMMA FieldResult ==
  ASSUME IInv, Walking(FieldTypeIdentifier)
  PROVE  /\ Field \in ParsedField /\ Field.type = Type /\ Field.op = "None"
         /\ \A f \in ParsedField :
              LikeField(f, Field) =>
                /\ NewNode(f) \in Node
                /\ Own(NewNode(f), tree[Below(top.at)], templateID)
                /\ NewNode(f).parent = Below(top.at) /\ NewNode(f).idx = top.i
                /\ NewNode(f).field = f /\ NewNode(f).x = element
<1>1. /\ stack # << >> /\ top.fn = "walk" /\ top.i <= Len(Here.x.children)
      /\ ~ignore_xml_node(element) /\ Type \in FieldTypeIdentifier
  BY DEF Walking, More
<1>2. /\ top \in Frame /\ Here \in Node /\ Here.x \in Element
      /\ Below(top.at) \in 1..Len(tree) /\ tree[Below(top.at)].x = Here.x
      /\ Settled(Here, templateID) /\ top.i \in 1..(Len(Here.x.children) + 1)
  BY <1>1, WalkFacts
<1>3. Here.x.children \in Seq(Element)
  BY <1>2, ElementAssumption
<1>4. top.i \in DOMAIN Here.x.children /\ element \in Element
  BY <1>1, <1>2, <1>3 DEF element
<1>5. /\ Inherited = NearestDictionary(Here.around) /\ Inherited \in AnyDictionary
      /\ Here.around \in Seq(AnyDictionary)
  BY <1>2 DEF Settled, Inherited, Node, ParsedField
<1>6. templateID \in Int
  BY DEF IInv, Typed
<1> DEFINE c == create_field(Type, "None")
           g == set_field_attributes(element, c, templateID)
<1>7. /\ c \in ParsedField /\ c.type = Type /\ c.op = "None"
      /\ c.key = NoKey /\ c.dictionary = Absent
  <2>1. "None" \in FieldOperatorIdentifier
    BY DEF FieldOperatorIdentifier
  <2> QED
    BY <1>1, <2>1, CreateType
<1> HIDE DEF c
<1>8. /\ g \in ParsedField /\ g.type = Type /\ g.op = "None" /\ g.tid = templateID
      /\ g.dictionary = IF element.dictionary # Absent THEN element.dictionary ELSE Absent
      /\ IF Names(element) THEN g.key # NoKey /\ GivenBy(g.key, element) ELSE g.key = NoKey
  BY <1>4, <1>6, <1>7, AttributesResult
<1> HIDE DEF g
<1>9. Field = Inherit(g, Inherited)
  BY DEF Field, g, c
<1>10. /\ Field \in ParsedField /\ Field.type = Type /\ Field.op = "None"
       /\ Field.tid = templateID /\ Field.key = g.key
       /\ Field.dictionary = IF g.dictionary = Absent THEN Inherited ELSE g.dictionary
  BY <1>5, <1>8, <1>9, InheritResult
<1>11. Field.dictionary = NearestDictionary(Append(Here.around, element.dictionary))
  <2>1. element.dictionary \in AnyDictionary
    BY <1>4, ElementAssumption
  <2> QED
    BY <1>5, <1>8, <1>10, <2>1, NearestAppend
<1>12. Field.key # NoKey => GivenBy(Field.key, element)
  BY <1>8, <1>10
<1>13. ASSUME NEW f \in ParsedField, LikeField(f, Field)
       PROVE  /\ NewNode(f) \in Node
              /\ Own(NewNode(f), tree[Below(top.at)], templateID)
              /\ NewNode(f).parent = Below(top.at) /\ NewNode(f).idx = top.i
              /\ NewNode(f).field = f /\ NewNode(f).x = element
  <2> DEFINE node == NewNode(f)
  <2>1. /\ node.field = f /\ node.parent = Below(top.at) /\ node.idx = top.i
        /\ node.x = element /\ node.around = Append(Here.around, element.dictionary)
    BY DEF NewNode
  <2>2. node \in Node
    <3>1. Append(Here.around, element.dictionary) \in Seq(AnyDictionary)
      BY <1>4, <1>5, ElementAssumption
    <3>2. Below(top.at) \in Nat /\ top.i \in Nat
      BY <1>2
    <3> QED
      BY <1>4, <1>13, <3>1, <3>2 DEF NewNode, Node
  <2> HIDE DEF node
  <2>3. Settled(node, templateID)
    BY <1>10, <1>11, <1>13, <2>1 DEF Settled, LikeField
  <2>4. node.field.key # NoKey => GivenBy(node.field.key, node.x)
    BY <1>12, <1>13, <2>1 DEF LikeField
  <2>5. node.idx \in DOMAIN tree[Below(top.at)].x.children
        /\ node.x = tree[Below(top.at)].x.children[node.idx]
    BY <1>2, <1>4, <2>1 DEF element
  <2>6. node.field.type = TypeOfTag(node.x.tag)
    BY <1>10, <1>13, <2>1 DEF LikeField, Type
  <2>7. Own(node, tree[Below(top.at)], templateID)
    BY <1>1, <2>1, <2>3, <2>4, <2>5, <2>6 DEF Own
  <2> QED
    BY <2>1, <2>2, <2>7 DEF node
<1> QED
  BY <1>10, <1>13

--------------------------------------------------------------------------------
(* How the trees before and after a step are related.                      *)

(* Where the nodes of the children of a walked node are. *)
LEMMA WalkedTakes ==
  ASSUME NEW t \in Seq(Node), NEW open, NEW id, NEW errs, TreeOK(t, open, id, errs),
         NEW n \in 1..Len(t),
         Walked(t[n])
  PROVE  /\ BelowIn(t, n) \in 1..Len(t) /\ Takes(t[BelowIn(t, n)])
         /\ n <= BelowIn(t, n) /\ t[BelowIn(t, n)].x = t[n].x
<1>1. CASE t[n].field.type = "Sequence"
  <2>1. /\ n + 1 \in 1..Len(t) /\ Inner(t[n + 1], t[n]) /\ Takes(t[n + 1])
    BY <1>1, InnerGroup
  <2> QED
    BY <1>1, <2>1 DEF BelowIn, Inner
<1>2. CASE t[n].field.type # "Sequence"
  BY <1>2 DEF BelowIn, Walked, Takes
<1> QED
  BY <1>1, <1>2

(* The nodes outside those below the node at. *)
Outside(t, u, at) ==
  /\ \A n \in 1..(at - 1) : n \in 1..Len(u) /\ Same(u[n], t[n])
  /\ \A n \in 2..Len(u) : u[n].parent < at => n \in 1..Len(t) /\ Same(u[n], t[n])

(* The activations that the innermost one returns to. *)
LEMMA OuterFrame ==
  ASSUME Typed, NEW t \in Seq(Node), NEW u \in Seq(Node), NEW s \in Seq(Frame), NEW r \in Seq(Frame),
         NEW k \in 2..Len(s), NEW l \in 1..Len(r),
         FrameOK(t, s, k), s[1].at \in 1..Len(t), Outside(t, u, s[1].at),
         r[l] = s[k], l = Len(r) <=> k = Len(s),
         \A j \in 1..(l - 1) : BelowIn(t, s[k].at) < r[j].at
  PROVE  FrameOK(u, r, l)
<1> DEFINE f  == s[k]
           at == s[1].at
<1>1. /\ f.at \in 1..Len(t) /\ f.i \in 1..(Len(t[f.at].x.children) + 1)
      /\ f.fn = "walk" /\ Walks(t, f) /\ (f.at = 1 <=> k = Len(s))
      /\ BelowIn(t, f.at) < at
  BY DEF FrameOK
<1>2. /\ f.at < at /\ f.at \in 1..(at - 1) /\ f.at \in 1..Len(u) /\ BelowIn(t, f.at) \in Nat
      /\ f.at <= BelowIn(t, f.at)
  BY <1>1, SMTT(30) DEF BelowIn, Outside
<1>3. Same(u[f.at], t[f.at])
  BY <1>2 DEF Outside
<1>4. BelowIn(u, f.at) = BelowIn(t, f.at)
  BY <1>3 DEF BelowIn, Same
<1>5. \A n \in 2..Len(u) : u[n].parent < at => n \in 2..Len(t) /\ Same(u[n], t[n])
  BY DEF Outside
<1> HIDE DEF at
<1>6. Walks(u, f)
  <2> HIDE DEF f
  <2>1. Walked(u[f.at])
    BY <1>1, <1>3 DEF Walks, Walked, Same
  <2>2. ASSUME NEW n \in 2..Len(u), u[n].parent = BelowIn(u, f.at)
        PROVE  u[n].idx < f.i
    BY <1>1, <1>4, <1>5, <2>2 DEF Walks, Same
  <2>3. ASSUME u[f.at].field.type = "Sequence", NEW n \in 2..Len(u), u[n].parent = f.at
        PROVE  n = f.at + 1
    BY <1>1, <1>2, <1>3, <1>5, <2>3 DEF Walks, Same
  <2> QED
    BY <2>1, <2>2, <2>3 DEF Walks
<1>7. f.i \in 1..(Len(u[f.at].x.children) + 1)
  BY <1>1, <1>3 DEF Same
<1>8. \A j \in 1..(l - 1) : BelowIn(u, r[l].at) < r[j].at
  BY <1>4
<1> QED
  BY <1>1, <1>2, <1>6, <1>7, <1>8 DEF FrameOK

(* The nodes of the elements of a walked node. *)
LEMMA FoundStays ==
  ASSUME NEW t \in Seq(Node), NEW u \in Seq(Node), NEW n \in 1..Len(t), NEW i,
         u[n].x = t[n].x, BelowIn(u, n) = BelowIn(t, n),
         \A m \in 2..Len(t) : t[m].parent = BelowIn(t, n) => m \in 2..Len(u) /\ Same(u[m], t[m]),
         Found(t, n, i)
  PROVE  Found(u, n, i)
<1> SUFFICES ASSUME NEW j \in DOMAIN t[n].x.children, j < i,
                    ~ignore_xml_node(t[n].x.children[j])
             PROVE  \E m \in 2..Len(u) : u[m].parent = BelowIn(u, n) /\ u[m].idx = j
  BY DEF Found
<1>1. PICK m \in 2..Len(t) : t[m].parent = BelowIn(t, n) /\ t[m].idx = j
  BY DEF Found
<1>2. m \in 2..Len(u) /\ Same(u[m], t[m])
  BY <1>1
<1> QED
  BY <1>1, <1>2 DEF Same

(* More errors say less. *)
LEMMA ErrorsGrow ==
  ASSUME NEW t, NEW s, NEW more, NEW errs, errs \subseteq more
  PROVE  /\ Valid(t, errs) => Valid(t, more)
         /\ Reported(t, s, errs) => Reported(t, s, more)
         /\ Parsed(t, errs) => Parsed(t, more)
<1>1. Valid(t, errs) => Valid(t, more)
  BY DEF Valid
<1>2. more \subseteq {3, 4, 5} => errs \subseteq {3, 4, 5}
  OBVIOUS
<1>3. Reported(t, s, errs) => Reported(t, s, more)
  BY <1>2 DEF Reported
<1>4. Parsed(t, errs) => Parsed(t, more)
  BY <1>1, <1>2 DEF Parsed, TreeOK
<1> QED
  BY <1>1, <1>3, <1>4

(* The innermost activation goes on to the next element. *)
LEMMA MovedFacts ==
  ASSUME Typed, stack # << >>
  PROVE  /\ Moved \in Seq(Frame) /\ Len(Moved) = Len(stack) /\ Moved # << >>
         /\ Moved[1] \in Frame /\ Moved[1].fn = top.fn /\ Moved[1].at = top.at
         /\ Moved[1].i = top.i + 1
         /\ \A k \in 2..Len(stack) : Moved[k] = stack[k]
<1>1. stack \in Seq(Frame) /\ Len(stack) \in Nat \ {0} /\ top \in Frame
  BY DEF Typed, top
<1> DEFINE next == [top EXCEPT !.i = @ + 1]
<1>2. next \in Frame /\ next.fn = top.fn /\ next.at = top.at /\ next.i = top.i + 1
  BY <1>1 DEF Frame
<1>3. Moved = << next >> \o Tail(stack)
  BY DEF Moved
<1> HIDE DEF next
<1>4. Tail(stack) \in Seq(Frame) /\ Len(Tail(stack)) = Len(stack) - 1
      /\ \A k \in 1..(Len(stack) - 1) : Tail(stack)[k] = stack[k + 1]
  BY <1>1
<1>5. /\ << next >> \o Tail(stack) \in Seq(Frame)
      /\ Len(<< next >> \o Tail(stack)) = Len(stack)
      /\ (<< next >> \o Tail(stack))[1] = next
      /\ \A k \in 2..Len(stack) : (<< next >> \o Tail(stack))[k] = Tail(stack)[k - 1]
  BY <1>1, <1>2, <1>4
<1> QED
  BY <1>1, <1>2, <1>3, <1>4, <1>5

LEMMA ReturnFacts ==
  ASSUME Typed, stack # << >>
  PROVE  /\ Return \in Seq(Frame) /\ Len(Return) = Len(stack) - 1
         /\ \A k \in 1..(Len(stack) - 1) : Return[k] = stack[k + 1]
<1>1. stack \in Seq(Frame) /\ Len(stack) \in Nat \ {0}
  BY DEF Typed
<1> QED
  BY <1>1 DEF Return

LEMMA NodeParts ==
  ASSUME NEW t \in Seq(Node), NEW n \in 1..Len(t)
  PROVE  /\ t[n] \in Node /\ t[n].parent \in Nat /\ t[n].idx \in Nat /\ t[n].x \in Element
         /\ t[n].field \in ParsedField /\ t[n].around \in Seq(AnyDictionary)
         /\ t[n].x.children \in Seq(Element)
<1>1. t[n] \in Node
  OBVIOUS
<1> QED
  BY <1>1, ElementAssumption DEF Node

(* An element is passed over. *)
LEMMA SkipShape ==
  ASSUME IInv, More, NEW errs \in SUBSET (1..5), errors \subseteq errs,
         top.fn # "walk" \/ ignore_xml_node(element) \/ 1 \in errs
  PROVE  Moved \in Seq(Frame) /\ InTree(tree, Moved, templateID, errs)
<1>1. Typed /\ stack # << >> /\ top.i <= Len(Here.x.children)
  BY DEF IInv, More
<1>2. /\ tree \in Seq(Node) /\ stack \in Seq(Frame) /\ Len(stack) \in Nat \ {0} /\ top = stack[1]
      /\ 1 \in 1..Len(stack) /\ top \in Frame
  BY <1>1 DEF Typed, top
<1>3. /\ Moved \in Seq(Frame) /\ Len(Moved) = Len(stack) /\ Moved # << >>
      /\ Moved[1] \in Frame /\ Moved[1].fn = top.fn /\ Moved[1].at = top.at
      /\ Moved[1].i = top.i + 1
      /\ \A k \in 2..Len(stack) : Moved[k] = stack[k]
  BY <1>1, MovedFacts
<1>4. /\ TreeOK(tree, Open(tree, stack), templateID, errors)
      /\ \A k \in 1..Len(stack) : FrameOK(tree, stack, k)
      /\ Reported(tree, stack, errors) /\ tree # << >>
  BY <1>1 DEF IInv, InTree, Frames
<1> HIDE DEF Moved
<1>5. Open(tree, Moved) = Open(tree, stack)
  BY <1>1, <1>2, <1>3 DEF Open
<1>6. TreeOK(tree, Open(tree, Moved), templateID, errs)
  BY <1>4, <1>5, ErrorsGrow DEF TreeOK
<1>7. /\ top.at \in 1..Len(tree) /\ top.i \in 1..(Len(Here.x.children) + 1)
      /\ IF top.fn = "walk" THEN Walks(tree, top) ELSE Describes(tree, top)
      /\ top.at = 1 <=> 1 = Len(stack)
  BY <1>2, <1>4 DEF FrameOK, Here
<1>8. FrameOK(tree, Moved, 1)
  <2>1. Moved[1].i \in 1..(Len(Here.x.children) + 1)
    BY <1>1, <1>3, <1>7
  <2>2. top.fn = "walk" => Walks(tree, Moved[1])
    <3>1. \A n \in 2..Len(tree) : n \in 1..Len(tree) /\ tree[n].idx \in Nat
      BY <1>2, NodeParts
    <3>2. ASSUME top.fn = "walk", NEW n \in 2..Len(tree), tree[n].parent = BelowIn(tree, top.at)
          PROVE  tree[n].idx < top.i + 1
      <4>1. tree[n].idx < top.i
        BY <1>7, <3>2 DEF Walks
      <4>2. tree[n].idx \in Nat /\ top.i \in Nat
        BY <1>2, <3>1 DEF Frame
      <4> QED
        BY <4>1, <4>2
    <3> QED
      BY <1>3, <1>7, <3>2 DEF Walks
  <2>3. top.fn # "walk" => Describes(tree, Moved[1])
    BY <1>3, <1>7 DEF Describes
  <2> QED
    BY <1>3, <1>7, <2>1, <2>2, <2>3 DEF FrameOK, Here
<1>9. Outside(tree, tree, top.at)
  BY <1>2, <1>7 DEF Outside, Same
<1>10. ASSUME NEW k \in 2..Len(Moved)
       PROVE  FrameOK(tree, Moved, k)
  <2>1. k \in 1..Len(Moved) /\ k \in 2..Len(stack) /\ k \in 1..Len(stack)
        /\ (k = Len(Moved) <=> k = Len(stack))
    BY <1>3, <1>2
  <2>2. \A j \in 1..(k - 1) : BelowIn(tree, stack[k].at) < Moved[j].at
    BY <1>2, <1>3, <1>4, <2>1 DEF FrameOK
  <2> QED
    BY <1>1, <1>2, <1>3, <1>4, <1>7, <1>9, <2>1, <2>2, OuterFrame
<1>11. Frames(tree, Moved)
  BY <1>2, <1>3, <1>4, <1>8, <1>10 DEF Frames
<1>12. Reported(tree, Moved, errs)
  <2> SUFFICES ASSUME errs \subseteq {3, 4, 5}, NEW n \in 1..Len(tree), Walked(tree[n])
               PROVE  \/ \E k \in 1..Len(Moved) : Moved[k].at = n /\ Moved[k].fn = "walk"
                                                  /\ Found(tree, n, Moved[k].i)
                      \/ Found(tree, n, Len(tree[n].x.children) + 1)
    BY DEF Reported
  <2>1. CASE Found(tree, n, Len(tree[n].x.children) + 1)
    BY <2>1
  <2>2. ASSUME NEW k \in 1..Len(stack), stack[k].at = n, stack[k].fn = "walk",
               Found(tree, n, stack[k].i)
        PROVE  Moved[k].at = n /\ Moved[k].fn = "walk" /\ Found(tree, n, Moved[k].i)
    <3>1. CASE k # 1
      BY <1>2, <1>3, <2>2, <3>1
    <3>2. CASE k = 1
      <4>1. ignore_xml_node(Here.x.children[top.i]) /\ tree[n] = Here
        BY <1>2, <2>2, <3>2 DEF element, Here
      <4>2. ASSUME NEW j \in DOMAIN Here.x.children, j < top.i + 1, j # top.i
            PROVE  j < top.i
        <5>1. Here.x.children \in Seq(Element)
          <6>1. Here \in Node
            BY <1>2, <1>7 DEF Here
          <6> QED
            BY <6>1, ElementAssumption DEF Node
        <5>2. j \in Nat /\ top.i \in Nat
          BY <1>7, <4>2, <5>1
        <5> QED
          BY <4>2, <5>2
      <4>3. Found(tree, n, top.i + 1)
        BY <1>2, <2>2, <3>2, <4>1, <4>2 DEF Found
      <4> QED
        BY <1>2, <1>3, <2>2, <3>2, <4>3
    <3> QED
      BY <3>1, <3>2
  <2>3. errors \subseteq {3, 4, 5}
    OBVIOUS
  <2> QED
    BY <1>3, <1>4, <2>1, <2>2, <2>3 DEF Reported
<1> QED
  BY <1>3, <1>6, <1>11, <1>12 DEF InTree

(* The innermost activation is over. *)
LEMMA ReturnFrames ==
  ASSUME IInv, stack # << >>, top.at # 1, NEW u \in Seq(Node), u # << >>,
         Outside(tree, u, top.at)
  PROVE  Return \in Seq(Frame) /\ Frames(u, Return) /\ Open(u, Return) = {}
<1>1. Typed
  BY DEF IInv
<1>2. /\ tree \in Seq(Node) /\ stack \in Seq(Frame) /\ Len(stack) \in Nat \ {0} /\ top = stack[1]
      /\ 1 \in 1..Len(stack)
  BY <1>1 DEF Typed, top
<1>3. /\ Return \in Seq(Frame) /\ Len(Return) = Len(stack) - 1
      /\ \A k \in 1..(Len(stack) - 1) : Return[k] = stack[k + 1]
  BY <1>1, ReturnFacts
<1>4. \A k \in 1..Len(stack) : FrameOK(tree, stack, k)
  BY DEF IInv, InTree, Frames
<1>5. top.at \in 1..Len(tree) /\ 1 # Len(stack)
  BY <1>2, <1>4 DEF FrameOK
<1> HIDE DEF Return
<1>6. ASSUME NEW k \in 1..Len(Return)
      PROVE  FrameOK(u, Return, k) /\ Return[k].fn = "walk"
  <2>1. /\ k + 1 \in 2..Len(stack) /\ k + 1 \in 1..Len(stack) /\ Return[k] = stack[k + 1]
        /\ (k = Len(Return) <=> k + 1 = Len(stack))
    BY <1>2, <1>3
  <2>2. FrameOK(tree, stack, k + 1)
    BY <1>4, <2>1
  <2>3. \A j \in 1..(k - 1) : BelowIn(tree, stack[k + 1].at) < Return[j].at
    <3> TAKE j \in 1..(k - 1)
    <3>1. j + 1 \in 1..((k + 1) - 1) /\ Return[j] = stack[j + 1]
      BY <1>2, <1>3
    <3> QED
      BY <2>2, <3>1 DEF FrameOK
  <2>4. FrameOK(u, Return, k)
    BY <1>1, <1>2, <1>3, <1>5, <2>1, <2>2, <2>3, OuterFrame
  <2>5. stack[k + 1].fn = "walk"
    BY <2>1, <2>2 DEF FrameOK
  <2> QED
    BY <2>1, <2>4, <2>5
<1>7. Return # << >> /\ 1 \in 1..Len(Return)
  BY <1>2, <1>3, <1>5
<1>8. Open(u, Return) = {}
  BY <1>6, <1>7 DEF Open
<1> QED
  BY <1>3, <1>6, <1>7, <1>8 DEF Frames

(* What is reported of the nodes while an activation returns. *)
LEMMA ReturnReports ==
  ASSUME IInv, stack # << >>, NEW n \in 1..Len(tree), Walked(tree[n]),
         NEW errs, errors \subseteq errs, errs \subseteq {3, 4, 5}
  PROVE  \/ top.fn = "walk" /\ n = top.at /\ Found(tree, n, top.i)
         \/ \E k \in 1..Len(Return) : Return[k].at = n /\ Return[k].fn = "walk"
                                      /\ Found(tree, n, Return[k].i)
         \/ Found(tree, n, Len(tree[n].x.children) + 1)
<1>1. /\ stack \in Seq(Frame) /\ Len(stack) \in Nat \ {0} /\ top = stack[1]
      /\ Reported(tree, stack, errors)
  BY DEF IInv, Typed, InTree, top
<1>2. /\ Len(Return) = Len(stack) - 1
      /\ \A k \in 1..(Len(stack) - 1) : Return[k] = stack[k + 1]
  BY ReturnFacts DEF IInv
<1> HIDE DEF Return
<1>3. ASSUME NEW k \in 1..Len(stack), stack[k].at = n, stack[k].fn = "walk",
             Found(tree, n, stack[k].i), k # 1
      PROVE  \E l \in 1..Len(Return) : Return[l].at = n /\ Return[l].fn = "walk"
                                       /\ Found(tree, n, Return[l].i)
  <2>1. k - 1 \in 1..Len(Return) /\ Return[k - 1] = stack[k]
    BY <1>1, <1>2, <1>3
  <2> QED
    BY <1>3, <2>1
<1>4. errors \subseteq {3, 4, 5}
  OBVIOUS
<1> QED
  BY <1>1, <1>3, <1>4 DEF Reported

(* The children of a group are walked. *)
LEMMA GroupShape ==
  ASSUME IInv, AtEnd, top.fn = "walk", Here.parent # 0, Here.field.type # "Sequence"
  PROVE  Return \in Seq(Frame) /\ InTree(tree, Return, templateID, errors)
<1>1. Typed /\ stack # << >> /\ top.i > Len(Here.x.children)
  BY DEF IInv, AtEnd
<1>2. /\ top.at \in 1..Len(tree) /\ Open(tree, stack) = {}
      /\ top.i \in 1..(Len(Here.x.children) + 1) /\ Here.x \in Element
  BY <1>1, WalkFacts
<1>3. /\ tree \in Seq(Node) /\ tree # << >> /\ errors \subseteq errors
  BY <1>1, <1>2 DEF Typed
<1>4. TreeOK(tree, {}, templateID, errors)
  BY <1>2 DEF IInv, InTree
<1>5. top.at # 1
  BY <1>4, <1>2 DEF TreeOK, Nodes, NodeOK, Root, Here
<1>6. Outside(tree, tree, top.at)
  BY <1>2, <1>3 DEF Outside, Same
<1>7. Return \in Seq(Frame) /\ Frames(tree, Return) /\ Open(tree, Return) = {}
  BY <1>1, <1>3, <1>5, <1>6, ReturnFrames
<1> HIDE DEF Return
<1>8. top.i = Len(Here.x.children) + 1
  BY <1>1, <1>2, ElementAssumption
<1>9. Reported(tree, Return, errors)
  <2> SUFFICES ASSUME errors \subseteq {3, 4, 5}, NEW n \in 1..Len(tree), Walked(tree[n])
               PROVE  \/ \E k \in 1..Len(Return) : Return[k].at = n /\ Return[k].fn = "walk"
                                                   /\ Found(tree, n, Return[k].i)
                      \/ Found(tree, n, Len(tree[n].x.children) + 1)
    BY DEF Reported
  <2> QED
    BY <1>1, <1>3, <1>8, ReturnReports DEF Here
<1> QED
  BY <1>4, <1>7, <1>9 DEF InTree

LEMMA Extended ==
  ASSUME NEW t \in Seq(Node), NEW w \in Seq(Node)
  PROVE  /\ t \o w \in Seq(Node) /\ Len(t \o w) = Len(t) + Len(w)
         /\ \A n \in 1..Len(t) : (t \o w)[n] = t[n]
         /\ \A n \in 1..Len(w) : (t \o w)[Len(t) + n] = w[n]
OBVIOUS

(* The length of a sequence is created after what is below the sequence.   *)
LEMMA LengthShape ==
  ASSUME IInv, AtEnd, top.fn = "walk", Here.field.type = "Sequence",
         NEW node \in Node, node.parent = top.at,
         Part(node, Here, "length", TRUE, templateID), check_valid_operator(node.field)
  PROVE  LET r == << Activation("length", top.at) >> \o Return
         IN  r \in Seq(Frame) /\ InTree(Append(tree, node), r, templateID, errors)
<1> DEFINE u == Append(tree, node)
           N == Len(tree) + 1
           r == << Activation("length", top.at) >> \o Return
<1>1. Typed /\ stack # << >> /\ top.i > Len(Here.x.children)
  BY DEF IInv, AtEnd
<1>2. /\ top.at \in 1..Len(tree) /\ Open(tree, stack) = {}
      /\ top.i \in 1..(Len(Here.x.children) + 1) /\ Here.x \in Element
      /\ Walks(tree, top)
  BY <1>1, WalkFacts
<1>3. tree \in Seq(Node) /\ u \in Seq(Node) /\ Len(u) = N /\ u[N] = node
      /\ (\A n \in 1..Len(tree) : u[n] = tree[n]) /\ Len(tree) \in Nat /\ u # << >>
  <2>1. tree \in Seq(Node)
    BY <1>1 DEF Typed
  <2>2. /\ u \in Seq(Node) /\ Len(u) = N /\ u[N] = node
        /\ \A n \in 1..Len(tree) : u[n] = tree[n]
    BY <2>1
  <2>3. Len(tree) \in Nat /\ Len(u) # 0
    BY <2>1, <2>2
  <2> HIDE DEF u
  <2> QED
    BY <2>1, <2>2, <2>3
<1>4. TreeOK(tree, {}, templateID, errors)
  BY <1>2 DEF IInv, InTree
<1>5. /\ top.at + 1 \in 1..Len(tree) /\ top.at # 1 /\ Inner(tree[top.at + 1], Here)
  BY <1>1, <1>2, <1>4, InnerGroup DEF Here, IInv, Typed
<1>6. /\ ~Takes(Here) /\ Here = tree[top.at] /\ top.at \in 2..Len(tree)
  <2>1. tree[top.at].parent # 0
    BY <1>2, <1>4, <1>5 DEF TreeOK, Nodes, NodeOK
  <2> QED
    BY <1>2, <1>5, <2>1 DEF Takes, Here
<1> HIDE DEF u
<1>7. Outside(tree, u, top.at)
  BY <1>2, <1>3, SMTT(30) DEF Outside, Same
<1>8. Return \in Seq(Frame) /\ Frames(u, Return) /\ Open(u, Return) = {} /\ Return # << >>
  BY <1>1, <1>3, <1>5, <1>7, ReturnFrames DEF Frames
<1>9. /\ r \in Seq(Frame) /\ Len(r) = Len(Return) + 1 /\ r[1] = Activation("length", top.at)
      /\ \A k \in 2..Len(r) : k - 1 \in 1..Len(Return) /\ r[k] = Return[k - 1]
  <2>1. Activation("length", top.at) \in Frame
    BY <1>2 DEF Activation, Frame
  <2> HIDE DEF Return
  <2> QED
    BY <1>8, <2>1
<1>10. Open(u, r) = {N} /\ r # << >> /\ Len(r) \in Nat /\ 1 # Len(r)
  <2>1. r[1].fn = "length" /\ r # << >> /\ Len(r) \in Nat /\ 1 # Len(r)
    <3> HIDE DEF r, Return
    <3> QED
      BY <1>8, <1>9 DEF Activation
  <2> HIDE DEF r
  <2> QED
    BY <2>1, <1>3 DEF Open
<1> HIDE DEF r
<1>11. Nodes(u, {N}, templateID)
  <2>1. ASSUME NEW n \in 1..Len(tree)
        PROVE  NodeOK(u, n, {N}, templateID)
    <3>1. NodeOK(tree, n, {}, templateID)
      BY <1>4 DEF TreeOK, Nodes
    <3>2. n # 1 => tree[n].parent \in 1..Len(tree)
      BY <3>1, <1>3 DEF NodeOK
    <3>3. Same(u[n], tree[n]) /\ (n # 1 => Same(u[tree[n].parent], tree[tree[n].parent]))
      BY <1>3, <3>2 DEF Same
    <3>4. n \in {} <=> n \in {N}
      BY <1>3
    <3> QED
      BY <3>1, <3>3, <3>4, NodeStays
  <2>2. NodeOK(u, N, {N}, templateID)
    <3>1. u[N].parent = top.at /\ u[top.at] = Here /\ N # 1 /\ top.at \in 1..(N - 1)
          /\ N > top.at + 1
      BY <1>2, <1>3, <1>5, <1>6
    <3>2. Child(node, Here, N, N \in {N}, templateID)
      BY <1>6, <3>1, <1>3 DEF Child
    <3> QED
      BY <1>3, <3>1, <3>2 DEF NodeOK
  <2>3. \A n \in 1..Len(u) : n \in 1..Len(tree) \/ n = N
    BY <1>3
  <2> QED
    BY <2>1, <2>2, <2>3 DEF Nodes
<1>12. Valid(u, errors)
  <2>1. \A n \in 1..Len(u) : n \in 1..Len(tree) \/ n = N
    BY <1>3
  <2> QED
    BY <1>3, <1>4, <2>1 DEF TreeOK, Valid
<1>13. Groups(u) /\ Lengths(u) /\ Ordered(u)
  <2>1. \A n \in 1..Len(u) : n \in 1..Len(tree) \/ n = N
    BY <1>3
  <2>2. node.field.type # "Sequence"
    BY DEF Part, IntegerType, UnsignedType, SignedType
  <2>3. Groups(u)
    <3> SUFFICES ASSUME NEW n \in 1..Len(u), u[n].field.type = "Sequence"
                 PROVE  n + 1 \in 1..Len(u) /\ u[n + 1].parent = n
      BY DEF Groups
    <3>1. n \in 1..Len(tree) /\ n + 1 \in 1..Len(tree) /\ tree[n + 1].parent = n
      BY <1>3, <1>4, <2>1, <2>2 DEF TreeOK, Groups
    <3> QED
      BY <1>3, <3>1
  <2>4. \A n \in 2..Len(tree) : tree[n].parent \in 1..Len(tree) /\ u[tree[n].parent] = tree[tree[n].parent]
    BY <1>3, <1>4 DEF TreeOK, Nodes, NodeOK
  <2>5. \A n, m \in 2..Len(u) : n < m => n \in 2..Len(tree) /\ (m \in 2..Len(tree) \/ m = N)
    BY <1>3
  <2>6. Lengths(u)
    <3> SUFFICES ASSUME NEW n \in 2..Len(u), NEW m \in 2..Len(u), n < m,
                        u[n].parent = u[m].parent, u[u[n].parent].field.type = "Sequence"
                 PROVE  n = u[n].parent + 1
      BY DEF Lengths
    <3>1. n \in 2..Len(tree) /\ u[n] = tree[n]
      BY <1>3, <2>5
    <3>2. CASE m \in 2..Len(tree)
      BY <1>3, <1>4, <2>4, <3>1, <3>2 DEF TreeOK, Lengths
    <3>3. CASE m = N
      <4>1. tree[n].parent = top.at
        BY <1>3, <3>1, <3>3
      <4> QED
        BY <1>2, <3>1, <4>1 DEF Walks, Here
    <3> QED
      BY <2>5, <3>2, <3>3
  <2>7. Ordered(u)
    <3> SUFFICES ASSUME NEW n \in 2..Len(u), NEW m \in 2..Len(u), n < m,
                        u[n].parent = u[m].parent, Takes(u[u[n].parent])
                 PROVE  u[n].idx < u[m].idx
      BY DEF Ordered
    <3>1. n \in 2..Len(tree) /\ u[n] = tree[n]
      BY <1>3, <2>5
    <3>2. CASE m \in 2..Len(tree)
      BY <1>3, <1>4, <2>4, <3>1, <3>2 DEF TreeOK, Ordered
    <3>3. m # N
      <4>1. ASSUME m = N PROVE u[n].parent = top.at /\ u[top.at] = Here
        BY <1>2, <1>3, <1>6, <4>1
      <4> QED
        BY <1>6, <4>1
    <3> QED
      BY <2>5, <3>2, <3>3
  <2> QED
    BY <2>3, <2>6, <2>7
<1>14. FrameOK(u, r, 1)
  <2>1. r[1].fn = "length" /\ r[1].at = top.at /\ r[1].i = 1
    BY <1>9 DEF Activation
  <2>2. top.at \in 1..Len(u) /\ u[top.at] = Here /\ 1 \in 1..(Len(Here.x.children) + 1)
    BY <1>2, <1>3, <1>6
  <2>3. Describes(u, r[1])
    <3>1. top.at < Len(u) /\ u[Len(u)].parent = top.at /\ top.at + 1 < Len(u)
      BY <1>2, <1>3, <1>5
    <3> QED
      BY <2>1, <2>2, <3>1 DEF Describes
  <2> QED
    BY <1>5, <1>10, <2>1, <2>2, <2>3 DEF FrameOK
<1>15. ASSUME NEW k \in 2..Len(r)
       PROVE  FrameOK(u, r, k)
  <2>1. stack \in Seq(Frame) /\ Len(stack) \in Nat \ {0} /\ top = stack[1]
    BY <1>1 DEF Typed, top
  <2>2. /\ Len(Return) = Len(stack) - 1
        /\ \A l \in 1..(Len(stack) - 1) : Return[l] = stack[l + 1]
    BY <1>1, ReturnFacts
  <2>3. /\ Len(r) = Len(stack) /\ k \in 2..Len(stack) /\ k \in 1..Len(r)
        /\ \A l \in 2..Len(stack) : r[l] = stack[l]
    <3> HIDE DEF Return
    <3> QED
      BY <1>9, <2>1, <2>2
  <2>4. FrameOK(tree, stack, k)
    BY <2>1, <2>3 DEF IInv, InTree, Frames
  <2>5. \A j \in 1..(k - 1) : BelowIn(tree, stack[k].at) < r[j].at
    <3>1. \A j \in 1..(k - 1) : r[j].at = stack[j].at
      BY <1>9, <2>1, <2>3 DEF Activation
    <3> QED
      BY <2>4, <3>1 DEF FrameOK
  <2> QED
    BY <1>1, <1>2, <1>3, <1>7, <1>9, <2>1, <2>3, <2>4, <2>5, OuterFrame
<1>16. Frames(u, r)
  <2>1. \A k \in 1..Len(r) : k = 1 \/ k \in 2..Len(r)
    BY <1>10
  <2> QED
    BY <1>3, <1>10, <1>14, <1>15, <2>1 DEF Frames
<1>17. Reported(u, r, errors)
  <2> SUFFICES ASSUME errors \subseteq {3, 4, 5}, NEW n \in 1..Len(u), Walked(u[n])
               PROVE  \/ \E k \in 1..Len(r) : r[k].at = n /\ r[k].fn = "walk"
                                              /\ Found(u, n, r[k].i)
                      \/ Found(u, n, Len(u[n].x.children) + 1)
    BY DEF Reported
  <2>1. ~Walked(node)
    BY <1>2 DEF Part, Walked, IntegerType, UnsignedType, SignedType
  <2>2. n \in 1..Len(tree) /\ u[n] = tree[n] /\ Walked(tree[n])
    BY <1>3, <2>1
  <2>3. ASSUME NEW i, Found(tree, n, i)
        PROVE  Found(u, n, i)
    <3>1. BelowIn(u, n) = BelowIn(tree, n)
      BY <2>2 DEF BelowIn
    <3>2. \A m \in 2..Len(tree) : m \in 2..Len(u) /\ Same(u[m], tree[m])
      BY <1>3 DEF Same
    <3> QED
      BY <1>3, <2>2, <2>3, <3>1, <3>2, FoundStays
  <2>4. top.i = Len(Here.x.children) + 1
    BY <1>1, <1>2, ElementAssumption, SMTT(30)
  <2>5. errors \subseteq errors
    OBVIOUS
  <2>6. \/ top.fn = "walk" /\ n = top.at /\ Found(tree, n, top.i)
        \/ \E k \in 1..Len(Return) : Return[k].at = n /\ Return[k].fn = "walk"
                                      /\ Found(tree, n, Return[k].i)
        \/ Found(tree, n, Len(tree[n].x.children) + 1)
    BY <1>1, <2>2, <2>5, ReturnReports
  <2>7. ASSUME NEW k \in 1..Len(Return), Return[k].at = n, Return[k].fn = "walk",
               Found(tree, n, Return[k].i)
        PROVE  \E l \in 1..Len(r) : r[l].at = n /\ r[l].fn = "walk" /\ Found(u, n, r[l].i)
    <3> HIDE DEF Return
    <3>1. k + 1 \in 1..Len(r) /\ r[k + 1] = Return[k]
      BY <1>8, <1>9
    <3> QED
      BY <2>3, <2>7, <3>1
  <2> HIDE DEF Return
  <2> QED
    BY <1>6, <2>2, <2>3, <2>4, <2>6, <2>7
<1>18. InTree(u, r, templateID, errors)
  BY <1>10, <1>11, <1>12, <1>13, <1>16, <1>17 DEF InTree, TreeOK
<1> QED
  BY <1>9, <1>18 DEF r, u

(* The nodes that the element a walk has come to adds, those in open still *)
(* to be described.                                                        *)
Adds(new, open) ==
  /\ new \in Seq(Node) /\ new # << >>
  /\ Own(new[1], tree[Below(top.at)], templateID)
  /\ new[1].parent = Below(top.at) /\ new[1].idx = top.i
  /\ \A n \in 1..Len(new) : check_valid_operator(new[n].field)
  /\ \A n \in 2..Len(new) :
       /\ new[n].parent = Len(tree) + 1
       /\ Child(new[n], new[1], Len(tree) + n, Len(tree) + n \in open, templateID)
  /\ new[1].field.type = "Sequence" => Len(new) = 2
  /\ Takes(new[1]) => Len(new) = 1
  /\ \A n \in 1..(Len(tree) + 1) : n \notin open

LEMMA AddedFacts ==
  ASSUME IInv, Walking(FieldTypeIdentifier), NEW new, NEW open, Adds(new, open)
  PROVE  /\ tree \in Seq(Node) /\ Len(tree) \in Nat /\ tree \o new \in Seq(Node)
         /\ new \in Seq(Node) /\ Len(new) \in Nat \ {0}
         /\ Len(tree \o new) = Len(tree) + Len(new)
         /\ \A n \in 1..Len(tree) : (tree \o new)[n] = tree[n]
         /\ \A n \in 1..Len(new) : (tree \o new)[Len(tree) + n] = new[n]
         /\ \A n \in 1..Len(tree \o new) :
              \/ n \in 1..Len(tree)
              \/ n = Len(tree) + 1
              \/ n - Len(tree) \in 2..Len(new) /\ (tree \o new)[n] = new[n - Len(tree)]
         /\ (tree \o new)[Len(tree) + 1] = new[1]
         /\ Below(top.at) \in 1..Len(tree) /\ Takes(tree[Below(top.at)])
         /\ tree[Below(top.at)].field.type # "Sequence"
         /\ TreeOK(tree, {}, templateID, errors)
<1>1. tree \in Seq(Node) /\ new \in Seq(Node) /\ new # << >> /\ Len(tree) \in Nat
  BY DEF IInv, Typed, Adds
<1>2. Len(new) \in Nat \ {0}
  BY <1>1
<1> DEFINE u == tree \o new
<1>3. /\ u \in Seq(Node) /\ Len(u) = Len(tree) + Len(new)
      /\ \A n \in 1..Len(tree) : u[n] = tree[n]
      /\ \A n \in 1..Len(new) : u[Len(tree) + n] = new[n]
  BY <1>1, Extended
<1> HIDE DEF u
<1>4. \A n \in 1..Len(u) :
        \/ n \in 1..Len(tree)
        \/ n = Len(tree) + 1
        \/ n - Len(tree) \in 2..Len(new) /\ u[n] = new[n - Len(tree)]
  <2> TAKE n \in 1..Len(u)
  <2>1. CASE n > Len(tree) + 1
    <3>1. n - Len(tree) \in 2..Len(new) /\ n - Len(tree) \in 1..Len(new)
          /\ Len(tree) + (n - Len(tree)) = n
      BY <1>1, <1>2, <1>3, <2>1
    <3>2. u[Len(tree) + (n - Len(tree))] = new[n - Len(tree)]
      BY <1>3, <3>1
    <3> QED
      BY <3>1, <3>2
  <2> QED
    BY <1>1, <1>2, <1>3, <2>1
<1>5. u[Len(tree) + 1] = new[1]
  BY <1>2, <1>3
<1>6. stack # << >> /\ top.fn = "walk"
  BY DEF Walking, More
<1>7. /\ Below(top.at) \in 1..Len(tree) /\ Takes(tree[Below(top.at)])
      /\ Open(tree, stack) = {}
  BY <1>6, WalkFacts
<1>8. TreeOK(tree, {}, templateID, errors)
  BY <1>7 DEF IInv, InTree
<1>9. tree[Below(top.at)].field.type # "Sequence"
  <2>1. NodeOK(tree, Below(top.at), {}, templateID)
    BY <1>7, <1>8 DEF TreeOK, Nodes
  <2>2. Below(top.at) = 1 \/ tree[Below(top.at)].parent # 0
    BY <2>1, <1>7 DEF NodeOK
  <2> QED
    BY <1>7, <2>1, <2>2 DEF NodeOK, Root, Takes
<1> QED
  BY <1>1, <1>2, <1>3, <1>4, <1>5, <1>7, <1>8, <1>9 DEF u

LEMMA AddedTree ==
  ASSUME IInv, Walking(FieldTypeIdentifier), NEW new, NEW open, Adds(new, open),
         NEW errs, errors \subseteq errs
  PROVE  TreeOK(tree \o new, open, templateID, errs)
<1> DEFINE u == tree \o new
           N == Len(tree) + 1
           b == Below(top.at)
<1>1. /\ tree \in Seq(Node) /\ Len(tree) \in Nat /\ u \in Seq(Node)
      /\ new \in Seq(Node) /\ Len(new) \in Nat \ {0} /\ Len(u) = Len(tree) + Len(new)
      /\ \A n \in 1..Len(tree) : u[n] = tree[n]
      /\ \A n \in 1..Len(new) : u[Len(tree) + n] = new[n]
      /\ \A n \in 1..Len(u) :
           \/ n \in 1..Len(tree)
           \/ n = N
           \/ n - Len(tree) \in 2..Len(new) /\ u[n] = new[n - Len(tree)]
      /\ u[N] = new[1]
      /\ b \in 1..Len(tree) /\ Takes(tree[b]) /\ tree[b].field.type # "Sequence"
      /\ TreeOK(tree, {}, templateID, errors)
  BY AddedFacts
<1> HIDE DEF u
<1>2. /\ Own(new[1], tree[b], templateID) /\ new[1].parent = b /\ new[1].idx = top.i
      /\ \A n \in 1..Len(new) : check_valid_operator(new[n].field)
      /\ \A n \in 2..Len(new) :
           /\ new[n].parent = N
           /\ Child(new[n], new[1], Len(tree) + n, Len(tree) + n \in open, templateID)
      /\ new[1].field.type = "Sequence" => Len(new) = 2
      /\ Takes(new[1]) => Len(new) = 1
      /\ \A n \in 1..N : n \notin open
  BY DEF Adds
<1>3. \A n \in 2..Len(tree) : tree[n].parent \in 1..Len(tree) /\ tree[n].parent \in 1..(n - 1)
                              /\ u[n] = tree[n] /\ u[tree[n].parent] = tree[tree[n].parent]
  BY <1>1 DEF TreeOK, Nodes, NodeOK
<1>9. ASSUME NEW n \in 2..Len(u)
      PROVE  \/ n \in 1..Len(tree)
             \/ n = N
             \/ n - Len(tree) \in 2..Len(new) /\ u[n] = new[n - Len(tree)]
  <2>1. n \in 1..Len(u)
    OBVIOUS
  <2> QED
    BY <1>1, <2>1
<1> HIDE DEF b
<1>4. Nodes(u, open, templateID)
  <2> SUFFICES ASSUME NEW n \in 1..Len(u) PROVE NodeOK(u, n, open, templateID)
    BY DEF Nodes
  <2>1. CASE n \in 1..Len(tree)
    <3>1. NodeOK(tree, n, {}, templateID)
      BY <1>1, <2>1 DEF TreeOK, Nodes
    <3>2. n # 1 => tree[n].parent \in 1..Len(tree) /\ u[tree[n].parent] = tree[tree[n].parent]
      BY <1>3, <2>1
    <3>3. Same(u[n], tree[n]) /\ (n # 1 => Same(u[tree[n].parent], tree[tree[n].parent]))
      BY <1>1, <2>1, <3>2 DEF Same
    <3>4. n \in {} <=> n \in open
      BY <1>1, <1>2, <2>1
    <3> QED
      BY <3>1, <3>3, <3>4, NodeStays
  <2>2. CASE n = N
    <3>1. /\ N # 1 /\ u[N].parent = b /\ b \in 1..(N - 1) /\ u[b] = tree[b]
      BY <1>1, <1>2
    <3>2. Child(u[N], u[b], N, N \in open, templateID)
      BY <1>1, <1>2, <3>1 DEF Child
    <3> QED
      BY <2>2, <3>1, <3>2 DEF NodeOK
  <2>3. CASE n - Len(tree) \in 2..Len(new) /\ u[n] = new[n - Len(tree)]
    <3>1. /\ n # 1 /\ N \in 1..(n - 1) /\ Len(tree) + (n - Len(tree)) = n
      BY <1>1, <2>3
    <3>2. u[n].parent = N /\ Child(u[n], u[N], n, n \in open, templateID)
      BY <1>1, <1>2, <2>3, <3>1
    <3> QED
      BY <3>1, <3>2 DEF NodeOK
  <2> QED
    BY <1>1, <2>1, <2>2, <2>3
<1>5. Valid(u, errs)
  <2>1. Valid(tree, errs)
    BY <1>1, ErrorsGrow DEF TreeOK
  <2> SUFFICES ASSUME NEW n \in 1..Len(u)
               PROVE  \/ check_valid_operator(u[n].field)
                      \/ u[n].field.type = "Decimal" /\ 2 \in errs
    BY DEF Valid
  <2>2. CASE n \in 1..Len(tree)
    BY <1>1, <2>1, <2>2 DEF Valid
  <2>3. CASE n = N
    <3>1. 1 \in 1..Len(new)
      BY <1>1
    <3> QED
      BY <1>1, <1>2, <2>3, <3>1
  <2>4. CASE n - Len(tree) \in 2..Len(new) /\ u[n] = new[n - Len(tree)]
    <3>1. n - Len(tree) \in 1..Len(new)
      BY <1>1, <2>4
    <3> QED
      BY <1>2, <2>4, <3>1
  <2> QED
    BY <1>1, <2>2, <2>3, <2>4
<1>6. Groups(u)
  <2> SUFFICES ASSUME NEW n \in 1..Len(u), u[n].field.type = "Sequence"
               PROVE  n + 1 \in 1..Len(u) /\ u[n + 1].parent = n
    BY DEF Groups
  <2>1. CASE n \in 1..Len(tree)
    <3>1. n + 1 \in 1..Len(tree) /\ tree[n + 1].parent = n
      BY <1>1, <2>1 DEF TreeOK, Groups
    <3> QED
      BY <1>1, <3>1
  <2>2. CASE n = N
    <3>1. Len(new) = 2
      BY <1>1, <1>2, <2>2
    <3>2. N + 1 \in 1..Len(u) /\ u[N + 1] = new[2] /\ 2 \in 2..Len(new)
      <4>1. N + 1 = Len(tree) + 2 /\ 2 \in 1..Len(new)
        BY <1>1, <3>1
      <4> QED
        BY <1>1, <3>1, <4>1
    <3> QED
      BY <1>2, <2>2, <3>2
  <2>3. CASE n - Len(tree) \in 2..Len(new) /\ u[n] = new[n - Len(tree)]
    <3>1. Child(u[n], new[1], Len(tree) + (n - Len(tree)), Len(tree) + (n - Len(tree)) \in open, templateID)
      BY <1>2, <2>3
    <3>2. ~Takes(new[1])
      BY <1>1, <1>2, <2>3
    <3> QED
      BY <2>3, <3>1, <3>2 DEF Child, Part, Inner, IntegerType, UnsignedType, SignedType
  <2> QED
    BY <1>1, <2>1, <2>2, <2>3
<1>7. Lengths(u)
  <2> SUFFICES ASSUME NEW n \in 2..Len(u), NEW m \in 2..Len(u), n < m,
                      u[n].parent = u[m].parent, u[u[n].parent].field.type = "Sequence"
               PROVE  n = u[n].parent + 1
    BY DEF Lengths
  <2>1. CASE m \in 1..Len(tree)
    <3>1. n \in 2..Len(tree) /\ m \in 2..Len(tree)
      BY <2>1
    <3>2. Lengths(tree)
      BY <1>1 DEF TreeOK
    <3>3. /\ u[n] = tree[n] /\ u[m] = tree[m]
          /\ u[tree[n].parent] = tree[tree[n].parent]
      BY <1>3, <3>1
    <3> QED
      BY <3>1, <3>2, <3>3 DEF Lengths
  <2>2. CASE m = N
    BY <1>1, <1>2, <2>2
  <2>3. CASE m - Len(tree) \in 2..Len(new) /\ u[m] = new[m - Len(tree)]
    <3>1. u[n].parent = N /\ Len(new) = 2 /\ m = N + 1
      <4>1. u[m].parent = N
        BY <1>2, <2>3
      <4>2. Len(new) = 2
        BY <1>1, <1>2, <4>1
      <4> QED
        BY <1>1, <2>3, <4>1, <4>2
    <3>2. n \notin 1..Len(tree)
      BY <1>1, <1>3, <3>1
    <3>3. n # N
      BY <1>1, <1>2, <3>1
    <3> QED
      BY <1>1, <3>1, <3>2, <3>3
  <2> QED
    BY <1>9, <2>1, <2>2, <2>3
<1>8. Ordered(u)
  <2> SUFFICES ASSUME NEW n \in 2..Len(u), NEW m \in 2..Len(u), n < m,
                      u[n].parent = u[m].parent, Takes(u[u[n].parent])
               PROVE  u[n].idx < u[m].idx
    BY DEF Ordered
  <2>1. CASE m \in 1..Len(tree)
    <3>1. n \in 2..Len(tree) /\ m \in 2..Len(tree)
      BY <2>1
    <3>2. Ordered(tree)
      BY <1>1 DEF TreeOK
    <3>3. /\ tree[n].parent = tree[m].parent /\ Takes(tree[tree[n].parent])
          /\ u[n] = tree[n] /\ u[m] = tree[m]
      BY <1>3, <3>1
    <3> QED
      BY <3>1, <3>2, <3>3 DEF Ordered
  <2>2. CASE m = N
    <3>1. n \in 2..Len(tree) /\ u[n] = tree[n] /\ tree[n].parent = b
      BY <1>1, <1>2, <2>2
    <3>2. Walks(tree, top) /\ b = BelowIn(tree, top.at)
      BY WalkFacts DEF b, Walking, More
    <3> QED
      BY <1>1, <1>2, <2>2, <3>1, <3>2 DEF Walks
  <2>3. CASE m - Len(tree) \in 2..Len(new) /\ u[m] = new[m - Len(tree)]
    BY <1>1, <1>2, <2>3
  <2> QED
    BY <1>9, <2>1, <2>2, <2>3
<1> QED
  BY <1>4, <1>5, <1>6, <1>7, <1>8 DEF TreeOK, u

(* The activations around the nodes that are added, in a stack r whose     *)
(* first l frames are new.                                                 *)
LEMMA AddedFrames ==
  ASSUME IInv, Walking(FieldTypeIdentifier), NEW new, NEW open, Adds(new, open),
         NEW r \in Seq(Frame), NEW l \in {0, 1}, Len(r) = Len(stack) + l,
         \A k \in 1..Len(stack) : r[k + l] = Moved[k],
         l = 1 => r[1].at = Len(tree) + 1,
         NEW k \in 1..Len(stack)
  PROVE  FrameOK(tree \o new, r, k + l)
<1> DEFINE u == tree \o new
           N == Len(tree) + 1
           b == Below(top.at)
<1>1. /\ tree \in Seq(Node) /\ Len(tree) \in Nat /\ u \in Seq(Node)
      /\ new \in Seq(Node) /\ Len(new) \in Nat \ {0} /\ Len(u) = Len(tree) + Len(new)
      /\ \A n \in 1..Len(tree) : u[n] = tree[n]
      /\ \A n \in 1..Len(u) :
           \/ n \in 1..Len(tree)
           \/ n = N
           \/ n - Len(tree) \in 2..Len(new) /\ u[n] = new[n - Len(tree)]
      /\ u[N] = new[1]
      /\ b \in 1..Len(tree) /\ TreeOK(tree, {}, templateID, errors)
  BY AddedFacts
<1>2. Typed /\ stack # << >> /\ top.fn = "walk" /\ More
  BY DEF IInv, Walking, More
<1>3. /\ top.at \in 1..Len(tree) /\ b = BelowIn(tree, top.at) /\ Walks(tree, top)
      /\ top \in Frame /\ top.i \in 1..(Len(Here.x.children) + 1) /\ Here.x \in Element
  BY <1>2, WalkFacts
<1>4. top.i + 1 \in 1..(Len(Here.x.children) + 1) /\ top.i \in Nat
  BY <1>2, <1>3, ElementAssumption, SMTT(30) DEF More
<1>5. /\ stack \in Seq(Frame) /\ Len(stack) \in Nat \ {0} /\ top = stack[1]
      /\ \A j \in 1..Len(stack) : FrameOK(tree, stack, j)
  BY <1>2 DEF Typed, top, IInv, InTree, Frames
<1>6. /\ Moved[1].fn = top.fn /\ Moved[1].at = top.at /\ Moved[1].i = top.i + 1
      /\ \A j \in 2..Len(stack) : Moved[j] = stack[j]
  BY <1>2, MovedFacts
<1>7. new[1].parent = b /\ new[1].idx = top.i /\ \A n \in 2..Len(new) : new[n].parent = N
  BY DEF Adds
<1> HIDE DEF u, b, Moved
<1>8. ASSUME NEW j \in 1..Len(stack)
      PROVE  BelowIn(tree, stack[j].at) \in Nat /\ BelowIn(tree, stack[j].at) <= Len(tree)
  <2>1. stack[j].at \in 1..Len(tree)
    BY <1>5 DEF FrameOK
  <2>2. Groups(tree)
    BY <1>1 DEF TreeOK
  <2>3. tree[stack[j].at].field.type = "Sequence" => stack[j].at + 1 \in 1..Len(tree)
    BY <2>1, <2>2 DEF Groups
  <2> QED
    BY <1>1, <2>1, <2>3, SMTT(30) DEF BelowIn
<1>14. ASSUME NEW n \in 1..Len(u)
       PROVE  n \in 1..Len(tree) \/ n = N \/ u[n].parent = N
  <2>1. ASSUME n - Len(tree) \in 2..Len(new), u[n] = new[n - Len(tree)]
        PROVE  u[n].parent = N
    BY <1>7, <2>1
  <2> QED
    BY <1>1, <2>1
<1>15. N > Len(tree) /\ top.at # N /\ b # N /\ top.at <= b /\ ~(N < top.at) /\ top.at \in Nat
  <2>1. /\ top.at \in Nat /\ top.at <= Len(tree) /\ b \in Nat /\ b <= Len(tree)
    BY <1>1, <1>3
  <2>2. top.at <= b
    BY <1>3, <2>1 DEF BelowIn
  <2> QED
    BY <1>1, <2>1, <2>2
<1>9. \A j \in 1..(k + l - 1) : BelowIn(tree, stack[k].at) < r[j].at
  <2> TAKE j \in 1..(k + l - 1)
  <2>1. CASE l = 1 /\ j = 1
    BY <1>1, <1>8, <2>1
  <2>2. CASE ~(l = 1 /\ j = 1)
    <3>1. j - l \in 1..(k - 1) /\ j - l \in 1..Len(stack) /\ r[(j - l) + l] = Moved[j - l]
      BY <2>2, <1>5, SMTT(30)
    <3>2. Moved[j - l].at = stack[j - l].at
      <4>1. j - l = 1 \/ j - l \in 2..Len(stack)
        BY <3>1, <1>5
      <4> QED
        BY <1>5, <1>6, <4>1
    <3>3. r[j].at = stack[j - l].at
      BY <3>1, <3>2
    <3> QED
      BY <1>5, <3>1, <3>3 DEF FrameOK
  <2> QED
    BY <2>1, <2>2
<1>10. k + l \in 1..Len(r) /\ (k + l = Len(r) <=> k = Len(stack)) /\ r[k + l] = Moved[k]
  BY <1>5
<1>11. Outside(tree, u, top.at)
  <2>1. ASSUME NEW n \in 1..Len(tree)
        PROVE  n \in 1..Len(u) /\ Same(u[n], tree[n])
    BY <1>1 DEF Same
  <2>2. \A n \in 1..(top.at - 1) : n \in 1..Len(tree)
    BY <1>1, <1>3
  <2>3. ASSUME NEW n \in 2..Len(u), u[n].parent < top.at
        PROVE  n \in 1..Len(tree)
    <3>1. n # N
      BY <1>1, <1>7, <1>15, <2>3
    <3>2. u[n].parent # N /\ n \in 1..Len(u)
      BY <1>15, <2>3
    <3> QED
      BY <1>14, <3>1, <3>2
  <2> QED
    BY <2>1, <2>2, <2>3 DEF Outside
<1>12. CASE k # 1
  <2>1. k \in 2..Len(stack) /\ r[k + l] = stack[k]
    BY <1>5, <1>6, <1>10, <1>12
  <2>2. /\ FrameOK(tree, stack, k) /\ stack[1].at \in 1..Len(tree)
        /\ Outside(tree, u, stack[1].at)
    BY <1>3, <1>5, <1>11
  <2> DEFINE m == k + l
  <2>3. /\ m \in 1..Len(r) /\ r[m] = stack[k] /\ (m = Len(r) <=> k = Len(stack))
        /\ \A j \in 1..(m - 1) : BelowIn(tree, stack[k].at) < r[j].at
    BY <1>9, <1>10, <2>1
  <2> HIDE DEF m
  <2>4. FrameOK(u, r, m)
    BY <1>1, <1>2, <1>5, <2>1, <2>2, <2>3, OuterFrame
  <2> QED
    BY <2>4 DEF u, m
<1>13. CASE k = 1
  <2> DEFINE f == r[k + l]
  <2>1. f.fn = "walk" /\ f.at = top.at /\ f.i = top.i + 1
    BY <1>2, <1>6, <1>10, <1>13
  <2>2. BelowIn(u, top.at) = b /\ u[top.at] = tree[top.at] /\ top.at \in 1..Len(u)
    <3>1. top.at \in 1..Len(u) /\ u[top.at] = tree[top.at]
      BY <1>1, <1>3
    <3> QED
      BY <1>3, <3>1 DEF BelowIn
  <2> HIDE DEF f
  <2>3. ASSUME NEW n \in 2..Len(u), u[n].parent = b
        PROVE  u[n].idx < top.i + 1
    <3>1. CASE n \in 1..Len(tree)
      <4>4. u[n] = tree[n]
        BY <1>1, <3>1
      <4>1. n \in 2..Len(tree) /\ tree[n].parent = b /\ u[n] = tree[n]
        BY <1>1, <2>3, <3>1, <4>4
      <4>3. n \in 1..Len(tree)
        BY <3>1
      <4>2. u[n].idx < top.i /\ u[n].idx \in Nat
        BY <1>1, <1>3, <4>1, <4>3, NodeParts DEF Walks
      <4> QED
        BY <1>4, <4>2
    <3>2. CASE n = N
      BY <1>1, <1>4, <1>7, <3>2, SMTT(30)
    <3> QED
      BY <1>14, <1>15, <2>3, <3>1, <3>2
  <2>4. ASSUME Here.field.type = "Sequence", NEW n \in 2..Len(u), u[n].parent = top.at
        PROVE  n = top.at + 1
    <3>1. b = top.at + 1
      BY <1>3, <2>4 DEF BelowIn, Here
    <3>2. n \in 2..Len(tree) /\ tree[n].parent = top.at
      <4>1. n # N
        BY <1>1, <1>3, <1>7, <2>4, <3>1, SMTT(30)
      <4>3. n \in 1..Len(tree)
        BY <1>14, <1>15, <2>4, <4>1
      <4> QED
        BY <1>1, <2>4, <4>3
    <3> QED
      BY <1>3, <2>4, <3>2 DEF Walks, Here
  <2>5. Walks(u, f)
    BY <1>3, <2>1, <2>2, <2>3, <2>4 DEF Walks, Here
  <2>6. top.at = 1 <=> 1 = Len(stack)
    <3>1. FrameOK(tree, stack, 1)
      BY <1>5
    <3> QED
      BY <1>5, <3>1 DEF FrameOK
  <2>7. \A j \in 1..(k + l - 1) : BelowIn(u, top.at) < r[j].at
    BY <1>3, <1>5, <1>9, <1>13, <2>2
  <2> DEFINE m == k + l
  <2>9. /\ r[m] = f /\ (m = Len(r) <=> 1 = Len(stack))
        /\ \A j \in 1..(m - 1) : BelowIn(u, top.at) < r[j].at
    BY <1>10, <1>13, <2>7 DEF f
  <2> HIDE DEF m
  <2>8. FrameOK(u, r, m)
    BY <1>4, <2>1, <2>2, <2>5, <2>6, <2>9 DEF FrameOK, Here
  <2> QED
    BY <2>8 DEF u, m
<1> QED
  BY <1>12, <1>13

(* What is reported of the nodes once there is one for the element. *)
LEMMA AddedReported ==
  ASSUME IInv, Walking(FieldTypeIdentifier), NEW new, NEW open, Adds(new, open),
         NEW r \in Seq(Frame), NEW l \in {0, 1}, Len(r) = Len(stack) + l,
         \A k \in 1..Len(stack) : r[k + l] = Moved[k],
         Walked(new[1]) => l = 1 /\ r[1] = Activation("walk", Len(tree) + 1),
         NEW errs, errors \subseteq errs
  PROVE  Reported(tree \o new, r, errs)
<1> DEFINE u == tree \o new
           N == Len(tree) + 1
           b == Below(top.at)
<1>1. /\ tree \in Seq(Node) /\ Len(tree) \in Nat /\ u \in Seq(Node)
      /\ new \in Seq(Node) /\ Len(new) \in Nat \ {0} /\ Len(u) = Len(tree) + Len(new)
      /\ \A n \in 1..Len(tree) : u[n] = tree[n]
      /\ \A n \in 1..Len(u) :
           \/ n \in 1..Len(tree)
           \/ n = N
           \/ n - Len(tree) \in 2..Len(new) /\ u[n] = new[n - Len(tree)]
      /\ u[N] = new[1]
      /\ b \in 1..Len(tree)
  BY AddedFacts
<1>2. Typed /\ stack # << >> /\ top.fn = "walk" /\ More
  BY DEF IInv, Walking, More
<1>3. /\ top.at \in 1..Len(tree) /\ b = BelowIn(tree, top.at)
      /\ top \in Frame /\ top.i \in 1..(Len(Here.x.children) + 1) /\ Here.x \in Element
  BY <1>2, WalkFacts
<1>4. /\ stack \in Seq(Frame) /\ Len(stack) \in Nat \ {0} /\ top = stack[1]
      /\ Reported(tree, stack, errors)
  BY <1>2 DEF Typed, top, IInv, InTree
<1>5. /\ Moved[1].fn = top.fn /\ Moved[1].at = top.at /\ Moved[1].i = top.i + 1
      /\ \A j \in 2..Len(stack) : Moved[j] = stack[j]
  BY <1>2, MovedFacts
<1>6. new[1].parent = b /\ new[1].idx = top.i /\ \A n \in 2..Len(new) : new[n].parent = N
  BY DEF Adds
<1> HIDE DEF Moved, u, b
<1> SUFFICES ASSUME errs \subseteq {3, 4, 5}, NEW n \in 1..Len(u), Walked(u[n])
             PROVE  \/ \E k \in 1..Len(r) : r[k].at = n /\ r[k].fn = "walk"
                                            /\ Found(u, n, r[k].i)
                    \/ Found(u, n, Len(u[n].x.children) + 1)
  BY DEF Reported, u
<1>7. CASE n \in 1..Len(tree)
  <2>1. u[n] = tree[n] /\ BelowIn(u, n) = BelowIn(tree, n)
    BY <1>1, <1>7 DEF BelowIn
  <2>2. ASSUME NEW i, Found(tree, n, i)
        PROVE  Found(u, n, i)
    <3>1. \A m \in 2..Len(tree) : m \in 2..Len(u) /\ Same(u[m], tree[m])
      BY <1>1 DEF Same
    <3> QED
      BY <1>1, <1>7, <2>1, <2>2, <3>1, FoundStays
  <2>3. ASSUME NEW k \in 1..Len(stack), stack[k].at = n, stack[k].fn = "walk",
               Found(tree, n, stack[k].i)
        PROVE  k + l \in 1..Len(r) /\ r[k + l].at = n /\ r[k + l].fn = "walk"
               /\ Found(u, n, r[k + l].i)
    <3>1. k + l \in 1..Len(r) /\ r[k + l] = Moved[k]
      BY <1>4
    <3>2. CASE k # 1
      BY <1>4, <1>5, <2>2, <2>3, <3>1, <3>2
    <3>3. CASE k = 1
      <4>1. n = top.at /\ Found(u, n, top.i) /\ r[k + l].at = n /\ r[k + l].fn = "walk"
            /\ r[k + l].i = top.i + 1
        BY <1>2, <1>4, <1>5, <2>2, <2>3, <3>1, <3>3
      <4>2. N \in 2..Len(u) /\ u[N].parent = BelowIn(u, n) /\ u[N].idx = top.i
        <5>1. N \in 2..Len(u)
          BY <1>1, <1>3
        <5>2. BelowIn(u, n) = b
          BY <1>3, <2>1, <4>1
        <5>3. u[N].parent = b /\ u[N].idx = top.i
          BY <1>1, <1>6
        <5> QED
          BY <5>1, <5>2, <5>3
      <4>3. ASSUME NEW j \in DOMAIN u[n].x.children, j < top.i + 1, j # top.i
            PROVE  j < top.i
        <5>1. u[n].x.children \in Seq(Element) /\ top.i \in Nat
          BY <1>3, <2>1, <4>1, ElementAssumption DEF Here
        <5> QED
          BY <4>3, <5>1, SMTT(30)
      <4>4. Found(u, n, top.i + 1)
        BY <4>1, <4>2, <4>3 DEF Found
      <4> QED
        BY <3>1, <4>1, <4>4
    <3> QED
      BY <3>2, <3>3
  <2>4. errors \subseteq {3, 4, 5}
    OBVIOUS
  <2> QED
    BY <1>4, <1>7, <2>1, <2>2, <2>3, <2>4 DEF Reported
<1>8. CASE n = N
  <2>1. 1 \in 1..Len(r) /\ r[1].at = N /\ r[1].fn = "walk" /\ r[1].i = 1
    BY <1>1, <1>4, <1>8 DEF Activation
  <2>2. u[N].x.children \in Seq(Element)
    BY <1>1, <1>8, NodeParts
  <2>3. Found(u, N, 1)
    BY <2>2 DEF Found
  <2> QED
    BY <1>8, <2>1, <2>3
<1>9. CASE n - Len(tree) \in 2..Len(new) /\ u[n] = new[n - Len(tree)]
  <2>1. /\ Child(u[n], new[1], Len(tree) + (n - Len(tree)), Len(tree) + (n - Len(tree)) \in open,
                 templateID)
        /\ ~Takes(new[1]) /\ u[n].parent # 0
    BY <1>1, <1>9 DEF Adds
  <2> QED
    BY <2>1 DEF Child, Part, Inner, Walked, IntegerType, UnsignedType, SignedType
<1> QED
  BY <1>1, <1>7, <1>8, <1>9

(* A field without children is added. *)
LEMMA PlainShape ==
  ASSUME IInv, Walking(FieldTypeIdentifier), NEW new, Adds(new, {}), ~Walked(new[1]),
         NEW errs, errors \subseteq errs
  PROVE  Moved \in Seq(Frame) /\ InTree(tree \o new, Moved, templateID, errs)
<1>1. Typed /\ stack # << >> /\ top.fn = "walk" /\ Len(stack) \in Nat \ {0}
  BY DEF IInv, Typed, Walking, More
<1>2. /\ Moved \in Seq(Frame) /\ Len(Moved) = Len(stack) /\ Moved # << >>
      /\ Moved[1].fn = "walk"
  BY <1>1, MovedFacts
<1> DEFINE u == tree \o new
<1>3. TreeOK(u, {}, templateID, errs)
  BY AddedTree
<1> HIDE DEF Moved, u
<1>4. Open(u, Moved) = {}
  BY <1>2 DEF Open
<1>5. Len(Moved) = Len(stack) + 0 /\ \A k \in 1..Len(stack) : Moved[k + 0] = Moved[k] /\ k + 0 = k
  BY <1>1, <1>2
<1>6. ASSUME NEW k \in 1..Len(stack)
      PROVE  FrameOK(u, Moved, k)
  <2>1. FrameOK(u, Moved, k + 0)
    BY <1>2, <1>5, AddedFrames DEF u
  <2> QED
    BY <1>5, <2>1
<1>7. Reported(u, Moved, errs)
  BY <1>2, <1>5, AddedReported DEF u
<1>8. u # << >>
  <2>1. Len(u) # 0
    BY AddedFacts DEF u
  <2> QED
    BY <2>1
<1>9. Frames(u, Moved)
  BY <1>2, <1>6, <1>8 DEF Frames
<1> QED
  BY <1>2, <1>3, <1>4, <1>7, <1>9 DEF InTree, u

OpenIn(fn, new) ==
  IF fn = "walk" THEN {}
  ELSE IF fn = "decimal" THEN {Len(tree) + 2, Len(tree) + 3} ELSE {Len(tree) + Len(new)}

(* A field is added, and the parser turns to what is below its element. *)
LEMMA CallShape ==
  ASSUME IInv, Walking(FieldTypeIdentifier), NEW fn \in {"walk", "decimal", "length"},
         NEW new, Adds(new, OpenIn(fn, new)), fn = "walk" <=> Walked(new[1]),
         fn = "decimal" => new[1].field.type = "Decimal" /\ Len(new) = 3,
         fn = "length" => new[1].field.type \in SizedType /\ Len(new) = 2,
         NEW errs, errors \subseteq errs
  PROVE  Call(fn) \in Seq(Frame) /\ InTree(tree \o new, Call(fn), templateID, errs)
<1> DEFINE u == tree \o new
           N == Len(tree) + 1
           r == Call(fn)
           b == Below(top.at)
           open == OpenIn(fn, new)
<1>1. Typed /\ stack # << >> /\ top.fn = "walk" /\ Len(stack) \in Nat \ {0}
  BY DEF IInv, Typed, Walking, More
<1>2. Moved \in Seq(Frame) /\ Len(Moved) = Len(stack) /\ Moved # << >>
  BY <1>1, MovedFacts
<1> HIDE DEF Moved
<1>3. /\ tree \in Seq(Node) /\ Len(tree) \in Nat /\ u \in Seq(Node)
      /\ new \in Seq(Node) /\ Len(new) \in Nat \ {0} /\ Len(u) = Len(tree) + Len(new)
      /\ \A n \in 1..Len(tree) : u[n] = tree[n]
      /\ \A n \in 1..Len(new) : u[Len(tree) + n] = new[n]
      /\ \A n \in 1..Len(u) :
           \/ n \in 1..Len(tree)
           \/ n = N
           \/ n - Len(tree) \in 2..Len(new) /\ u[n] = new[n - Len(tree)]
      /\ u[N] = new[1]
      /\ b \in 1..Len(tree) /\ TreeOK(tree, {}, templateID, errors)
  BY AddedFacts
<1>16. /\ Len(tree) \in Nat /\ Len(new) \in Nat \ {0} /\ Len(u) = Len(tree) + Len(new)
       /\ \A n \in 1..Len(new) : u[Len(tree) + n] = new[n]
  BY <1>3
<1>4. /\ r \in Seq(Frame) /\ Len(r) = Len(stack) + 1 /\ r[1] = Activation(fn, N)
      /\ \A k \in 1..Len(stack) : r[k + 1] = Moved[k]
  <2>1. Activation(fn, N) \in Frame
    BY <1>3 DEF Activation, Frame
  <2> DEFINE a == Activation(fn, N)
  <2> HIDE DEF a
  <2>2. r = << a >> \o Moved
    BY DEF Call, a
  <2>3. /\ << a >> \in Seq(Frame) /\ << a >> \o Moved \in Seq(Frame)
        /\ Len(<< a >> \o Moved) = Len(Moved) + 1 /\ (<< a >> \o Moved)[1] = a
        /\ \A k \in 1..Len(Moved) : (<< a >> \o Moved)[k + 1] = Moved[k]
    BY <1>2, <2>1 DEF a
  <2> HIDE DEF r
  <2> QED
    BY <1>2, <2>2, <2>3 DEF a
<1> HIDE DEF r, u, b
<1>5. /\ r[1].fn = fn /\ r[1].at = N /\ r[1].i = 1 /\ r # << >>
      /\ Len(r) \in Nat /\ 1 # Len(r)
  BY <1>1, <1>4 DEF Activation
<1>6. Open(u, r) = open
  BY <1>3, <1>5 DEF Open, OpenIn
<1>7. TreeOK(u, open, templateID, errs)
  BY AddedTree DEF u
<1>8. ASSUME NEW k \in 1..Len(stack)
      PROVE  FrameOK(u, r, k + 1)
  BY <1>4, <1>5, AddedFrames DEF u
<1>9. Reported(u, r, errs)
  <2>1. Walked(new[1]) => r[1] = Activation("walk", Len(tree) + 1)
    BY <1>4
  <2> QED
    BY <1>4, <2>1, AddedReported DEF u
<1>10. /\ new[1].parent = b /\ b # N /\ b \in 1..Len(tree)
       /\ \A n \in 2..Len(new) : new[n].parent = N
       /\ new[1].field.type = "Sequence" => Len(new) = 2
       /\ Takes(new[1]) => Len(new) = 1
  <2>1. b # N
    BY <1>3
  <2> QED
    BY <1>3, <2>1 DEF Adds, b
<1>11. ASSUME NEW n \in 2..Len(u)
       PROVE  /\ n # N => \/ u[n].parent \in 1..Len(tree)
                          \/ (u[n].parent = N /\ n - Len(tree) \in 2..Len(new))
              /\ n = N => u[n].parent \in 1..Len(tree)
  <2>1. CASE n \in 1..Len(tree)
    <3>1. NodeOK(tree, n, {}, templateID)
      BY <1>3, <2>1 DEF TreeOK, Nodes
    <3> QED
      BY <1>3, <2>1, <3>1 DEF NodeOK
  <2>2. CASE n = N
    BY <1>3, <1>10, <2>2
  <2>3. CASE n - Len(tree) \in 2..Len(new) /\ u[n] = new[n - Len(tree)]
    <3>1. u[n].parent = N
      BY <1>10, <2>3
    <3>2. n # N
      BY <1>3, <2>3
    <3> QED
      BY <2>3, <3>1, <3>2
  <2> QED
    BY <1>3, <2>1, <2>2, <2>3
<1>12. ASSUME fn = "walk"
       PROVE  Walks(u, r[1])
  <2>1. BelowIn(u, N) = IF new[1].field.type = "Sequence" THEN N + 1 ELSE N
    BY <1>3 DEF BelowIn
  <2>2. \A n \in 2..Len(u) : u[n].parent # N + 1
    <3>1. N + 1 # N /\ N + 1 \notin 1..Len(tree)
      BY <1>16
    <3> QED
      BY <1>11, <3>1
  <2>3. new[1].field.type # "Sequence" => Len(new) = 1
    BY <1>3, <1>10, <1>12 DEF Walked, Takes
  <2>4. new[1].field.type # "Sequence" => \A n \in 2..Len(u) : u[n].parent # N
    BY <1>3, <1>11, <2>3, SMTT(30)
  <2>5. new[1].field.type = "Sequence" =>
          \A n \in 2..Len(u) : u[n].parent = N => n = N + 1
    <3> SUFFICES ASSUME new[1].field.type = "Sequence", NEW n \in 2..Len(u), u[n].parent = N
                 PROVE  n = N + 1
      OBVIOUS
    <3>1. N \notin 1..Len(tree)
      BY <1>3
    <3>2. n # N /\ n - Len(tree) \in 2..Len(new)
      BY <1>11, <3>1
    <3>3. Len(new) = 2
      BY <1>10
    <3> QED
      BY <1>16, <3>2, <3>3
  <2>6. Walked(u[N])
    BY <1>3, <1>12
  <2> QED
    BY <1>3, <1>5, <2>1, <2>2, <2>4, <2>5, <2>6 DEF Walks
<1>17. fn \in {"decimal", "length"} => Len(new) = IF fn = "decimal" THEN 3 ELSE 2
  OBVIOUS
<1>13. ASSUME fn # "walk"
       PROVE  Describes(u, r[1])
  <2>1. CASE fn = "decimal"
    <3>1. /\ Len(u) = N + 2 /\ u[N + 1] = new[2] /\ u[N + 2] = new[3]
          /\ 2 \in 2..Len(new) /\ 3 \in 2..Len(new)
      <4>1. N + 1 = Len(tree) + 2 /\ N + 2 = Len(tree) + 3 /\ 2 \in 1..Len(new) /\ 3 \in 1..Len(new)
              /\ 2 \in 2..Len(new) /\ 3 \in 2..Len(new)
        <5>1. Len(new) = 3
          BY <2>1
        <5>2. 2 \in 1..3 /\ 3 \in 1..3 /\ 2 \in 2..3 /\ 3 \in 2..3
          OBVIOUS
        <5>3. N + 1 = Len(tree) + 2 /\ N + 2 = Len(tree) + 3
          BY <1>16
        <5> QED
          BY <5>1, <5>2, <5>3
      <4> QED
        BY <1>16, <1>17, <2>1, <4>1
    <3> QED
      BY <1>3, <1>5, <1>10, <2>1, <3>1 DEF Describes
  <2>2. CASE fn = "length"
    <3>1. Len(u) = N + 1 /\ u[N + 1] = new[2] /\ 2 \in 2..Len(new)
      <4>1. N + 1 = Len(tree) + 2 /\ 2 \in 1..Len(new) /\ 2 \in 2..Len(new)
        <5>1. Len(new) = 2
          BY <2>2
        <5>2. 2 \in 1..2 /\ 2 \in 2..2
          OBVIOUS
        <5>3. N + 1 = Len(tree) + 2
          BY <1>16
        <5> QED
          BY <5>1, <5>2, <5>3
      <4> QED
        BY <1>16, <1>17, <2>2, <4>1
    <3> QED
      BY <1>3, <1>5, <1>10, <2>2, <3>1 DEF Describes
  <2> QED
    BY <1>13, <2>1, <2>2
<1>14. FrameOK(u, r, 1)
  <2>1. N \in 1..Len(u) /\ N # 1
    BY <1>3
  <2>2. 1 \in 1..(Len(u[N].x.children) + 1)
    BY <1>3, <2>1, NodeParts
  <2> QED
    BY <1>5, <1>12, <1>13, <2>1, <2>2 DEF FrameOK
<1>15. Frames(u, r)
  <2>1. \A k \in 1..Len(r) : k = 1 \/ (k - 1 \in 1..Len(stack) /\ (k - 1) + 1 = k)
    BY <1>1, <1>4
  <2>2. u # << >>
    <3>1. Len(u) # 0
      BY <1>3
    <3> QED
      BY <3>1
  <2>3. \A k \in 1..Len(r) : FrameOK(u, r, k)
    <3> TAKE k \in 1..Len(r)
    <3>1. CASE k = 1
      BY <1>14, <3>1
    <3>2. CASE k # 1
      <4>1. k - 1 \in 1..Len(stack) /\ (k - 1) + 1 = k
        BY <2>1, <3>2
      <4>2. FrameOK(u, r, (k - 1) + 1)
        BY <1>8, <4>1
      <4> QED
        BY <4>1, <4>2
    <3> QED
      BY <3>1, <3>2
  <2> QED
    BY <1>5, <2>2, <2>3 DEF Frames
<1> QED
  BY <1>4, <1>6, <1>7, <1>9, <1>15 DEF InTree, u, r

(* Where the loops of parse_decimal and prepend_length stand. *)
LEMMA DescribeFacts ==
  ASSUME IInv, stack # << >>, top.fn # "walk"
  PROVE  /\ top \in Frame /\ tree \in Seq(Node) /\ Len(tree) \in Nat
         /\ stack \in Seq(Frame) /\ Len(stack) \in Nat \ {0} /\ top = stack[1]
         /\ top.at \in 2..Len(tree) /\ Here = tree[top.at] /\ Here \in Node
         /\ Here.x \in Element /\ Here.x.children \in Seq(Element)
         /\ top.i \in 1..(Len(Here.x.children) + 1)
         /\ Describes(tree, top) /\ ~Takes(Here)
         /\ Here.field.type \in {"Decimal", "Sequence"} \cup SizedType
         /\ TreeOK(tree, Open(tree, stack), templateID, errors)
         /\ Settled(Here, templateID)
         /\ Here.field.key # NoKey => GivenBy(Here.field.key, Here.x)
<1>1. /\ stack \in Seq(Frame) /\ Len(stack) \in Nat \ {0} /\ top = stack[1] /\ top \in Frame
      /\ tree \in Seq(Node) /\ Len(tree) \in Nat /\ 1 \in 1..Len(stack)
  BY DEF IInv, Typed, top
<1>2. /\ FrameOK(tree, stack, 1) /\ TreeOK(tree, Open(tree, stack), templateID, errors)
  BY <1>1 DEF IInv, InTree, Frames
<1>3. /\ top.at \in 1..Len(tree) /\ top.i \in 1..(Len(Here.x.children) + 1)
      /\ Describes(tree, top) /\ Here = tree[top.at]
  BY <1>1, <1>2 DEF FrameOK, Here
<1>4. Here.field.type \in {"Decimal", "Sequence"} \cup SizedType
  BY <1>3 DEF Describes
<1>5. NodeOK(tree, top.at, Open(tree, stack), templateID)
  BY <1>2, <1>3 DEF TreeOK, Nodes
<1>6. top.at # 1
  BY <1>3, <1>4, <1>5 DEF NodeOK, Root, SizedType
<1>7. Here \in Node /\ Here.x \in Element /\ Here.x.children \in Seq(Element)
  BY <1>1, <1>3, NodeParts
<1>8. /\ Here.parent # 0
      /\ Child(Here, tree[Here.parent], top.at, top.at \in Open(tree, stack), templateID)
  BY <1>3, <1>5, <1>6 DEF NodeOK
<1>9. ~Takes(Here)
  BY <1>4, <1>8 DEF Takes, SizedType
<1>10. Own(Here, tree[Here.parent], templateID)
  BY <1>4, <1>8 DEF Child, Part, Inner, SizedType, IntegerType, UnsignedType, SignedType
<1>11. top.at \in 2..Len(tree)
  BY <1>1, <1>3, <1>6
<1>12. /\ Settled(Here, templateID)
       /\ Here.field.key # NoKey => GivenBy(Here.field.key, Here.x)
  BY <1>10 DEF Own
<1> QED
  BY <1>1, <1>2, <1>3, <1>4, <1>7, <1>9, <1>11, <1>12

(* A step that changes nothing but what it describes, the nodes below the  *)
(* innermost activation's, some of which it leaves in still.               *)
Changes(u, still) ==
  /\ u \in Seq(Node) /\ Len(u) = Len(tree)
  /\ \A n \in 1..Len(tree) :
       \/ Same(u[n], tree[n]) /\ (n \in Open(tree, stack) <=> n \in still)
       \/ /\ n # 1 /\ tree[n].parent = top.at /\ u[n].parent = top.at /\ u[n].x = tree[n].x
          /\ u[n].field.type = tree[n].field.type /\ u[n].field.type \in IntegerType
          /\ NodeOK(u, n, still, templateID)

LEMMA ChangedTree ==
  ASSUME IInv, stack # << >>, top.fn # "walk", NEW u, NEW still, Changes(u, still),
         NEW errs, Valid(u, errs)
  PROVE  /\ TreeOK(u, still, templateID, errs) /\ Outside(tree, u, top.at) /\ u # << >>
         /\ \A n \in 1..Len(u) :
              /\ u[n].parent = tree[n].parent /\ u[n].x = tree[n].x
              /\ u[n].field.type = tree[n].field.type /\ (Walked(u[n]) <=> Walked(tree[n]))
              /\ Walked(u[n]) => \A i : Found(tree, n, i) => Found(u, n, i)
<1>1. /\ tree \in Seq(Node) /\ Len(tree) \in Nat /\ top.at \in 2..Len(tree) /\ Here = tree[top.at]
      /\ ~Takes(Here) /\ Here.field.type \in {"Decimal", "Sequence"} \cup SizedType
      /\ TreeOK(tree, Open(tree, stack), templateID, errors)
  BY DescribeFacts
<1>2. u \in Seq(Node) /\ Len(u) = Len(tree)
  BY DEF Changes
<1>3. \A n \in 1..Len(tree) :
        \/ Same(u[n], tree[n]) /\ (n \in Open(tree, stack) <=> n \in still)
        \/ /\ n # 1 /\ tree[n].parent = top.at /\ u[n].parent = top.at /\ u[n].x = tree[n].x
           /\ u[n].field.type = tree[n].field.type /\ u[n].field.type \in IntegerType
           /\ NodeOK(u, n, still, templateID)
  BY DEF Changes
<1>4. \A n \in 1..Len(tree) :
        /\ u[n].parent = tree[n].parent /\ u[n].x = tree[n].x
        /\ u[n].field.type = tree[n].field.type
        /\ Same(u[n], tree[n]) \/ tree[n].parent = top.at
        /\ Same(u[n], tree[n]) \/ u[n].field.type \in IntegerType
  BY <1>3 DEF Same
<1>5. \A n \in 2..Len(tree) : /\ tree[n].parent \in 1..(n - 1) /\ tree[n].parent \in 1..Len(tree)
                              /\ NodeOK(tree, n, Open(tree, stack), templateID)
  BY <1>1 DEF TreeOK, Nodes, NodeOK
<1>6. ASSUME NEW n \in 2..Len(tree)
      PROVE  Same(u[tree[n].parent], tree[tree[n].parent])
  <2> DEFINE p == tree[n].parent
  <2>1. p \in 1..Len(tree)
    BY <1>5
  <2>2. tree[p].field.type \notin IntegerType \/ p = 1
    <3>1. Child(tree[n], tree[p], n, n \in Open(tree, stack), templateID)
      BY <1>5, <1>1 DEF NodeOK
    <3>2. Takes(tree[p]) \/ tree[p].field.type \in {"Decimal", "Sequence"} \cup SizedType
      BY <3>1, PartChildless
    <3>3. p # 1 => tree[p].parent # 0
      BY <1>5, <2>1
    <3> QED
      BY <3>2, <3>3 DEF Takes, SizedType, IntegerType, UnsignedType, SignedType
  <2> HIDE DEF p
  <2>3. Same(u[p], tree[p])
    BY <1>3, <1>4, <2>1, <2>2
  <2> QED
    BY <2>3 DEF p
<1>7. Nodes(u, still, templateID)
  <2> SUFFICES ASSUME NEW n \in 1..Len(u) PROVE NodeOK(u, n, still, templateID)
    BY DEF Nodes
  <2>1. n \in 1..Len(tree)
    BY <1>2
  <2>2. CASE Same(u[n], tree[n]) /\ (n \in Open(tree, stack) <=> n \in still)
    <3>1. NodeOK(tree, n, Open(tree, stack), templateID)
      BY <1>1, <2>1 DEF TreeOK, Nodes
    <3>2. n # 1 => Same(u[tree[n].parent], tree[tree[n].parent])
      BY <1>6, <2>1
    <3> QED
      BY <2>2, <3>1, <3>2, NodeStays
  <2> QED
    BY <1>3, <2>1, <2>2
<1>8. Groups(u)
  <2>1. Groups(tree)
    BY <1>1 DEF TreeOK
  <2> QED
    BY <1>2, <1>4, <2>1 DEF Groups
<1>9. Lengths(u)
  <2>1. Lengths(tree)
    BY <1>1 DEF TreeOK
  <2>2. \A n \in 2..Len(tree) : n \in 1..Len(tree) /\ tree[n].parent \in 1..Len(tree)
    BY <1>1, <1>5
  <2> QED
    BY <1>2, <1>4, <2>1, <2>2 DEF Lengths
<1>10. \A n \in 1..Len(tree) : Takes(u[n]) <=> Takes(tree[n])
  BY <1>4 DEF Takes
<1>11. Ordered(u)
  <2> SUFFICES ASSUME NEW n \in 2..Len(u), NEW m \in 2..Len(u), n < m,
                      u[n].parent = u[m].parent, Takes(u[u[n].parent])
               PROVE  u[n].idx < u[m].idx
    BY DEF Ordered
  <2>1. /\ n \in 2..Len(tree) /\ m \in 2..Len(tree) /\ n \in 1..Len(tree) /\ m \in 1..Len(tree)
    BY <1>1, <1>2
  <2>2. /\ tree[n].parent = tree[m].parent /\ u[n].parent = tree[n].parent
        /\ tree[n].parent \in 1..Len(tree)
    BY <1>4, <1>5, <2>1
  <2>3. Takes(tree[tree[n].parent])
    BY <1>10, <2>2
  <2>4. tree[n].parent # top.at
    BY <1>1, <2>3
  <2>5. Same(u[n], tree[n]) /\ Same(u[m], tree[m])
    BY <1>4, <2>1, <2>2, <2>4
  <2>6. Ordered(tree)
    BY <1>1 DEF TreeOK
  <2>7. tree[n].idx < tree[m].idx
    BY <2>1, <2>2, <2>3, <2>6 DEF Ordered
  <2> QED
    BY <2>5, <2>7 DEF Same
<1>12. Outside(tree, u, top.at)
  <2>1. ASSUME NEW n \in 1..(top.at - 1)
        PROVE  n \in 1..Len(u) /\ Same(u[n], tree[n])
    <3>1. n \in 1..Len(tree) /\ (n = 1 \/ n \in 2..Len(tree))
      BY <1>1, <2>1
    <3>2. n # 1 => tree[n].parent \in 1..(n - 1)
      BY <1>5, <3>1
    <3>3. n # 1 => tree[n].parent # top.at
      BY <1>1, <3>2
    <3> QED
      BY <1>2, <1>3, <3>1, <3>3
  <2>2. ASSUME NEW n \in 2..Len(u), u[n].parent < top.at
        PROVE  n \in 1..Len(tree) /\ Same(u[n], tree[n])
    <3>1. n \in 1..Len(tree)
      BY <1>1, <1>2
    <3>2. u[n].parent # top.at
      BY <1>1, <2>2
    <3> QED
      BY <1>4, <3>1, <3>2
  <2> QED
    BY <2>1, <2>2 DEF Outside
<1>13. ASSUME NEW n \in 1..Len(u)
       PROVE  /\ Walked(u[n]) <=> Walked(tree[n])
              /\ Walked(u[n]) => \A i : Found(tree, n, i) => Found(u, n, i)
  <2>1. n \in 1..Len(tree)
    BY <1>2
  <2>2. Walked(u[n]) <=> Walked(tree[n])
    <3>1. u[n].parent = tree[n].parent /\ u[n].field.type = tree[n].field.type
      BY <1>4, <2>1
    <3>2. Same(u[n], tree[n]) \/ u[n].field.type \in IntegerType
      BY <1>4, <2>1
    <3> QED
      BY <3>1, <3>2 DEF Walked, Same, IntegerType, UnsignedType, SignedType
  <2>3. ASSUME Walked(u[n]), NEW i, Found(tree, n, i)
        PROVE  Found(u, n, i)
    <3>1. Takes(tree[BelowIn(tree, n)])
      BY <1>1, <2>1, <2>2, <2>3, WalkedTakes DEF IInv
    <3>2. BelowIn(tree, n) # top.at
      BY <1>1, <3>1
    <3>3. ASSUME NEW m \in 2..Len(tree), tree[m].parent = BelowIn(tree, n)
          PROVE  m \in 2..Len(u) /\ Same(u[m], tree[m])
      <4>1. m \in 1..Len(tree)
        BY <1>1
      <4> QED
        BY <1>2, <1>4, <3>2, <3>3, <4>1
    <3>4. u[n].x = tree[n].x /\ BelowIn(u, n) = BelowIn(tree, n)
      BY <1>4, <2>1 DEF BelowIn
    <3> QED
      BY <1>1, <1>2, <2>1, <2>3, <3>3, <3>4, FoundStays
  <2> QED
    BY <2>2, <2>3
<1>14. u # << >>
  <2>1. Len(u) # 0
    BY <1>1, <1>2
  <2> QED
    BY <2>1
<1>15. TreeOK(u, still, templateID, errs)
  BY <1>7, <1>8, <1>9, <1>11 DEF TreeOK
<1> QED
  BY <1>2, <1>4, <1>12, <1>13, <1>14, <1>15

LEMMA ChangeMoves ==
  ASSUME IInv, More, top.fn # "walk", NEW u, Changes(u, Open(tree, stack)),
         NEW errs, errors \subseteq errs, Valid(u, errs)
  PROVE  Moved \in Seq(Frame) /\ InTree(u, Moved, templateID, errs)
<1>1. Typed /\ stack # << >> /\ top.i <= Len(Here.x.children)
  BY DEF IInv, More
<1>2. /\ tree \in Seq(Node) /\ Len(tree) \in Nat /\ stack \in Seq(Frame)
      /\ Len(stack) \in Nat \ {0} /\ top = stack[1]
      /\ top.at \in 2..Len(tree) /\ Here = tree[top.at] /\ Here.x.children \in Seq(Element)
      /\ top.i \in 1..(Len(Here.x.children) + 1) /\ Describes(tree, top)
  BY <1>1, DescribeFacts
<1>3. u \in Seq(Node) /\ Len(u) = Len(tree)
  BY DEF Changes
<1>4. /\ TreeOK(u, Open(tree, stack), templateID, errs) /\ Outside(tree, u, top.at) /\ u # << >>
      /\ \A n \in 1..Len(u) :
           /\ u[n].parent = tree[n].parent /\ u[n].x = tree[n].x
           /\ u[n].field.type = tree[n].field.type /\ (Walked(u[n]) <=> Walked(tree[n]))
           /\ Walked(u[n]) => \A i : Found(tree, n, i) => Found(u, n, i)
  BY <1>1, ChangedTree
<1>5. /\ Moved \in Seq(Frame) /\ Len(Moved) = Len(stack) /\ Moved # << >>
      /\ Moved[1].fn = top.fn /\ Moved[1].at = top.at /\ Moved[1].i = top.i + 1
      /\ \A k \in 2..Len(stack) : Moved[k] = stack[k]
  BY <1>1, MovedFacts
<1> HIDE DEF Moved
<1>6. Open(u, Moved) = Open(tree, stack)
  BY <1>1, <1>2, <1>3, <1>5 DEF Open
<1>7. \A k \in 1..Len(stack) : FrameOK(tree, stack, k)
  BY DEF IInv, InTree, Frames
<1>8. FrameOK(u, Moved, 1)
  <2>1. FrameOK(tree, stack, 1)
    BY <1>2, <1>7
  <2>2. top.at \in 1..Len(u) /\ 1 # Len(Moved) /\ top.at # 1
    BY <1>2, <1>3, <1>5, <2>1 DEF FrameOK
  <2>3. Moved[1].i \in 1..(Len(u[top.at].x.children) + 1)
    <3>1. u[top.at].x = Here.x
      BY <1>2, <1>4, <2>2
    <3>2. top.i + 1 \in 1..(Len(Here.x.children) + 1)
      BY <1>1, <1>2
    <3> QED
      BY <1>5, <3>1, <3>2
  <2>4. Describes(u, Moved[1])
    <3>1. CASE top.fn = "decimal" /\ tree[top.at].field.type = "Decimal" /\ Len(tree) = top.at + 2
               /\ tree[top.at + 1].parent = top.at /\ tree[top.at + 2].parent = top.at
      <4>2. top.at \in Nat /\ Len(u) = top.at + 2
        BY <1>2, <1>3, <3>1
      <4>1. top.at + 1 \in 1..Len(u) /\ top.at + 2 \in 1..Len(u)
        BY <4>2
      <4> QED
        BY <1>3, <1>4, <1>5, <2>2, <3>1, <4>1 DEF Describes
    <3>2. CASE /\ top.fn = "length" /\ top.at < Len(tree) /\ tree[Len(tree)].parent = top.at
               /\ \/ tree[top.at].field.type \in SizedType
                  \/ tree[top.at].field.type = "Sequence" /\ top.at + 1 < Len(tree)
      <4>1. Len(u) \in 1..Len(u)
        BY <1>2, <1>3
      <4> QED
        BY <1>3, <1>4, <1>5, <2>2, <3>2, <4>1 DEF Describes
    <3> QED
      BY <1>2, <3>1, <3>2 DEF Describes
  <2> QED
    BY <1>5, <2>2, <2>3, <2>4 DEF FrameOK
<1>9. ASSUME NEW k \in 2..Len(Moved)
      PROVE  FrameOK(u, Moved, k)
  <2>1. k \in 1..Len(Moved) /\ k \in 2..Len(stack) /\ (k = Len(Moved) <=> k = Len(stack))
        /\ Moved[k] = stack[k] /\ FrameOK(tree, stack, k)
    BY <1>2, <1>5, <1>7
  <2>2. \A j \in 1..(k - 1) : BelowIn(tree, stack[k].at) < Moved[j].at
    <3>1. \A j \in 1..(k - 1) : Moved[j].at = stack[j].at
      BY <1>2, <1>5, <2>1
    <3> QED
      BY <2>1, <3>1 DEF FrameOK
  <2>3. stack[1].at \in 1..Len(tree) /\ Outside(tree, u, stack[1].at)
    BY <1>2, <1>4
  <2> QED
    BY <1>1, <1>2, <1>3, <1>5, <2>1, <2>2, <2>3, OuterFrame
<1>10. Frames(u, Moved)
  <2>1. \A k \in 1..Len(Moved) : k = 1 \/ k \in 2..Len(Moved)
    BY <1>2, <1>5
  <2> QED
    BY <1>4, <1>5, <1>8, <1>9, <2>1 DEF Frames
<1>11. Reported(u, Moved, errs)
  <2> SUFFICES ASSUME errs \subseteq {3, 4, 5}, NEW n \in 1..Len(u), Walked(u[n])
               PROVE  \/ \E k \in 1..Len(Moved) : Moved[k].at = n /\ Moved[k].fn = "walk"
                                                  /\ Found(u, n, Moved[k].i)
                      \/ Found(u, n, Len(u[n].x.children) + 1)
    BY DEF Reported
  <2>1. n \in 1..Len(tree) /\ Walked(tree[n]) /\ u[n].x = tree[n].x
        /\ \A i : Found(tree, n, i) => Found(u, n, i)
    BY <1>3, <1>4
  <2>2. ASSUME NEW k \in 1..Len(stack), stack[k].at = n, stack[k].fn = "walk",
               Found(tree, n, stack[k].i)
        PROVE  k \in 1..Len(Moved) /\ Moved[k] = stack[k] /\ Found(u, n, Moved[k].i)
    <3>1. k # 1
      BY <1>2, <2>2
    <3> QED
      BY <1>2, <1>5, <2>1, <2>2, <3>1
  <2>3. errors \subseteq {3, 4, 5} /\ Reported(tree, stack, errors)
    BY DEF IInv, InTree
  <2> QED
    BY <2>1, <2>2, <2>3 DEF Reported
<1> QED
  BY <1>4, <1>5, <1>6, <1>10, <1>11 DEF InTree

LEMMA ChangeReturns ==
  ASSUME IInv, stack # << >>, top.fn # "walk", NEW u, Changes(u, {}),
         NEW errs, errors \subseteq errs, Valid(u, errs)
  PROVE  Return \in Seq(Frame) /\ InTree(u, Return, templateID, errs)
<1>1. top.at \in 2..Len(tree) /\ top.at # 1
  <2>1. top.at \in 2..Len(tree)
    BY DescribeFacts
  <2> QED
    BY <2>1
<1>2. u \in Seq(Node) /\ Len(u) = Len(tree)
  BY DEF Changes
<1>3. /\ TreeOK(u, {}, templateID, errs) /\ Outside(tree, u, top.at) /\ u # << >>
      /\ \A n \in 1..Len(u) :
           /\ u[n].parent = tree[n].parent /\ u[n].x = tree[n].x
           /\ u[n].field.type = tree[n].field.type /\ (Walked(u[n]) <=> Walked(tree[n]))
           /\ Walked(u[n]) => \A i : Found(tree, n, i) => Found(u, n, i)
  BY ChangedTree
<1>4. Return \in Seq(Frame) /\ Frames(u, Return) /\ Open(u, Return) = {}
  BY <1>1, <1>2, <1>3, ReturnFrames
<1> HIDE DEF Return
<1>5. Reported(u, Return, errs)
  <2> SUFFICES ASSUME errs \subseteq {3, 4, 5}, NEW n \in 1..Len(u), Walked(u[n])
               PROVE  \/ \E k \in 1..Len(Return) : Return[k].at = n /\ Return[k].fn = "walk"
                                                   /\ Found(u, n, Return[k].i)
                      \/ Found(u, n, Len(u[n].x.children) + 1)
    BY DEF Reported
  <2>1. n \in 1..Len(tree) /\ Walked(tree[n]) /\ u[n].x = tree[n].x
        /\ \A i : Found(tree, n, i) => Found(u, n, i)
    BY <1>2, <1>3
  <2>2. \/ \E k \in 1..Len(Return) : Return[k].at = n /\ Return[k].fn = "walk"
                                      /\ Found(tree, n, Return[k].i)
        \/ Found(tree, n, Len(tree[n].x.children) + 1)
    BY <2>1, ReturnReports
  <2> QED
    BY <2>1, <2>2
<1> QED
  BY <1>3, <1>4, <1>5 DEF InTree

(* A field that does not parse takes along what was parsed below it. *)
LEMMA DropShape ==
  ASSUME IInv, stack # << >>, top.fn # "walk", NEW errs, errors \subseteq errs, 1 \in errs
  PROVE  LET u == SubSeq(tree, 1, top.at - 1)
         IN  /\ u \in Seq(Node) /\ Return \in Seq(Frame)
             /\ InTree(u, Return, templateID, errs)
<1> DEFINE u == SubSeq(tree, 1, top.at - 1)
           last == top.at - 1
<1>1. /\ tree \in Seq(Node) /\ Len(tree) \in Nat /\ top.at \in 2..Len(tree)
      /\ Here = tree[top.at] /\ Describes(tree, top)
      /\ Here.field.type \in {"Decimal", "Sequence"} \cup SizedType
      /\ TreeOK(tree, Open(tree, stack), templateID, errors)
  BY DescribeFacts
<1>2. /\ last \in Nat \ {0} /\ last < Len(tree) /\ top.at = last + 1
  BY <1>1
<1> HIDE DEF last
<1>3. u \in Seq(Node) /\ Len(u) = last /\ \A n \in 1..last : u[n] = tree[n]
  BY <1>1, <1>2
<1> HIDE DEF u
<1>4. \A n \in 1..last : n \in 1..Len(tree) /\ n \notin Open(tree, stack)
  <2>1. \A n \in Open(tree, stack) : n > last
    BY <1>1, <1>2 DEF Open, top
  <2> QED
    BY <1>1, <1>2, <2>1
<1>5. \A n \in 2..last : /\ n \in 1..last /\ n \in 2..Len(tree) /\ tree[n].parent \in 1..(n - 1)
                         /\ tree[n].parent \in 1..last
  BY <1>1, <1>2, <1>4 DEF TreeOK, Nodes, NodeOK
<1>6. Nodes(u, {}, templateID)
  <2> SUFFICES ASSUME NEW n \in 1..Len(u) PROVE NodeOK(u, n, {}, templateID)
    BY DEF Nodes
  <2>1. n \in 1..last /\ n \in 1..Len(tree) /\ (n = 1 \/ n \in 2..last)
    BY <1>2, <1>3, <1>4
  <2>2. NodeOK(tree, n, Open(tree, stack), templateID)
    BY <1>1, <2>1 DEF TreeOK, Nodes
  <2>3. Same(u[n], tree[n]) /\ (n # 1 => Same(u[tree[n].parent], tree[tree[n].parent]))
    BY <1>3, <1>5, <2>1 DEF Same
  <2>4. n \in Open(tree, stack) <=> n \in {}
    BY <1>4, <2>1
  <2> QED
    BY <2>2, <2>3, <2>4, NodeStays
<1>7. Valid(u, errs)
  <2>1. Valid(tree, errs)
    BY <1>1, ErrorsGrow DEF TreeOK
  <2> QED
    BY <1>3, <1>4, <2>1 DEF Valid
<1>8. Groups(u)
  <2> SUFFICES ASSUME NEW n \in 1..Len(u), u[n].field.type = "Sequence"
               PROVE  n + 1 \in 1..Len(u) /\ u[n + 1].parent = n
    BY DEF Groups
  <2>1. n \in 1..last /\ n \in 1..Len(tree) /\ tree[n].field.type = "Sequence"
    BY <1>3, <1>4
  <2>2. /\ n + 1 \in 1..Len(tree) /\ Inner(tree[n + 1], tree[n])
    BY <1>1, <2>1, InnerGroup DEF IInv
  <2>3. n + 1 # top.at
    BY <1>1, <2>2 DEF Inner, SizedType
  <2>4. n + 1 \in 1..last
    BY <1>2, <2>1, <2>3
  <2>5. Groups(tree)
    BY <1>1 DEF TreeOK
  <2>6. tree[n + 1].parent = n
    BY <2>1, <2>5 DEF Groups
  <2> QED
    BY <1>3, <2>4, <2>6
<1>9. Lengths(u) /\ Ordered(u)
  <2>1. Lengths(tree) /\ Ordered(tree)
    BY <1>1 DEF TreeOK
  <2>2. \A n \in 2..Len(u) : /\ n \in 2..Len(tree) /\ u[n] = tree[n]
                             /\ u[u[n].parent] = tree[tree[n].parent]
    BY <1>3, <1>5
  <2>3. Lengths(u)
    <3> SUFFICES ASSUME NEW n \in 2..Len(u), NEW m \in 2..Len(u), n < m,
                        u[n].parent = u[m].parent, u[u[n].parent].field.type = "Sequence"
                 PROVE  n = u[n].parent + 1
      BY DEF Lengths
    <3>1. /\ n \in 2..Len(tree) /\ u[n] = tree[n] /\ m \in 2..Len(tree) /\ u[m] = tree[m]
          /\ u[u[n].parent] = tree[tree[n].parent]
      BY <2>2
    <3> QED
      BY <2>1, <3>1 DEF Lengths
  <2>4. Ordered(u)
    <3> SUFFICES ASSUME NEW n \in 2..Len(u), NEW m \in 2..Len(u), n < m,
                        u[n].parent = u[m].parent, Takes(u[u[n].parent])
                 PROVE  u[n].idx < u[m].idx
      BY DEF Ordered
    <3>1. /\ n \in 2..Len(tree) /\ u[n] = tree[n] /\ m \in 2..Len(tree) /\ u[m] = tree[m]
          /\ u[u[n].parent] = tree[tree[n].parent]
      BY <2>2
    <3> QED
      BY <2>1, <3>1 DEF Ordered
  <2> QED
    BY <2>3, <2>4
<1>10. Outside(tree, u, top.at)
  <2>1. \A n \in 1..last : Same(u[n], tree[n])
    BY <1>3 DEF Same
  <2>2. \A n \in 1..(top.at - 1) : n \in 1..last
    BY <1>2
  <2>3. \A n \in 2..Len(u) : n \in 1..last
    BY <1>3
  <2> QED
    BY <1>3, <1>4, <2>1, <2>2, <2>3 DEF Outside
<1>11. u # << >> /\ top.at # 1
  <2>1. Len(u) # 0
    BY <1>2, <1>3
  <2> QED
    BY <1>1, <2>1
<1>12. Return \in Seq(Frame) /\ Frames(u, Return) /\ Open(u, Return) = {}
  BY <1>3, <1>10, <1>11, ReturnFrames
<1>13. Reported(u, Return, errs)
  BY DEF Reported
<1> QED
  BY <1>3, <1>6, <1>7, <1>8, <1>9, <1>12, <1>13 DEF InTree, TreeOK, u

--------------------------------------------------------------------------------
(* The children that are not elements of their own.                        *)

(* One that no element has described yet. *)
Fresh(node, parent, at, type, id) ==
  /\ node \in Node /\ node.parent = at /\ check_valid_operator(node.field)
  /\ node.field.type = type
  /\ type = "Group" => Inner(node, parent)
  /\ type # "Group" => \A suffix : Part(node, parent, suffix, TRUE, id)

LEMMA NewChild ==
  ASSUME NEW parent \in Node, NEW id, Settled(parent, id), NEW at \in Nat,
         NEW type \in IntegerType \cup {"Group"}
  PROVE  Fresh(ChildNode(parent, at, create_field(type, "None")), parent, at, type, id)
<1> DEFINE field == create_field(type, "None")
           node  == ChildNode(parent, at, field)
<1>1. type \in FieldTypeIdentifier /\ "None" \in FieldOperatorIdentifier
  BY DEF FieldTypeIdentifier, FieldOperatorIdentifier, ScalarType
<1>2. /\ field \in ParsedField /\ field.type = type /\ field.op = "None"
      /\ field.key = NoKey /\ field.dictionary = Absent
  BY <1>1, CreateType
<1> HIDE DEF field
<1>3. /\ node \in Node /\ node.field = field /\ node.parent = at /\ node.idx = 0
      /\ node.x = parent.x /\ node.around = parent.around
  BY <1>2 DEF ChildNode, Node
<1> HIDE DEF node
<1>4. check_valid_operator(node.field)
  BY <1>2, <1>3 DEF check_valid_operator
<1>5. parent.field.dictionary = NearestDictionary(parent.around)
  BY DEF Settled
<1>6. \A suffix : OpenPart(node, parent, suffix)
  BY <1>2, <1>3, <1>5 DEF OpenPart
<1>7. type # "Group" => \A suffix : Part(node, parent, suffix, TRUE, id)
  BY <1>2, <1>3, <1>6 DEF Part
<1>8. type = "Group" => Inner(node, parent)
  BY <1>2, <1>3 DEF Inner
<1> QED
  BY <1>2, <1>3, <1>4, <1>7, <1>8 DEF Fresh, node, field

(* What an element that describes a child makes of it. *)
StaysPart(new, node, parent, suffix, open, id) ==
  /\ new \in Node /\ new.parent = node.parent /\ new.x = node.x
  /\ new.field.type = node.field.type /\ check_valid_operator(new.field)
  /\ Part(new, parent, suffix, open, id)

Describing(node, parent, suffix, id, i, f, new) ==
  /\ node \in Node /\ parent \in Node /\ id \in Int
  /\ Part(node, parent, suffix, TRUE, id) /\ check_valid_operator(node.field)
  /\ i \in DOMAIN parent.x.children /\ parent.x.children[i].tag = suffix
  /\ OperatorFrom(f, set_field_attributes(parent.x.children[i], node.field, id)) /\ f.ok
  /\ new = Described(node, parent.x.children[i], i, f.field)

LEMMA DescribedPart ==
  ASSUME NEW node, NEW parent, NEW suffix, NEW id, NEW i, NEW f, NEW new,
         Describing(node, parent, suffix, id, i, f, new)
  PROVE  StaysPart(new, node, parent, suffix, TRUE, id)
<1>0. /\ node \in Node /\ parent \in Node /\ id \in Int
      /\ Part(node, parent, suffix, TRUE, id) /\ check_valid_operator(node.field)
      /\ i \in DOMAIN parent.x.children /\ parent.x.children[i].tag = suffix
      /\ OperatorFrom(f, set_field_attributes(parent.x.children[i], node.field, id)) /\ f.ok
      /\ new = Described(node, parent.x.children[i], i, f.field)
  BY DEF Describing
<1> DEFINE x   == parent.x.children[i]
           g   == set_field_attributes(x, node.field, id)
<1>1. /\ parent.x.children \in Seq(Element) /\ x \in Element /\ node.field \in ParsedField
      /\ node.around \in Seq(AnyDictionary) /\ i \in Nat \ {0}
      /\ x.dictionary \in AnyDictionary
  <2>1. parent.x \in Element /\ node.field \in ParsedField /\ node.around \in Seq(AnyDictionary)
    BY <1>0 DEF Node
  <2>2. parent.x.children \in Seq(Element)
    BY <1>0, <2>1, ElementAssumption
  <2>3. x \in Element /\ i \in Nat \ {0}
    BY <1>0, <2>2
  <2> QED
    BY <1>0, <2>1, <2>2, <2>3, ElementAssumption
<1> HIDE DEF x
<1>2. /\ g \in ParsedField /\ g.type = node.field.type /\ g.op = node.field.op
      /\ g.dictionary = IF x.dictionary # Absent THEN x.dictionary ELSE node.field.dictionary
      /\ IF Names(x) THEN g.key # NoKey /\ GivenBy(g.key, x) ELSE g.key = node.field.key
  <2> DEFINE f0 == node.field
  <2>1. x \in Element /\ f0 \in ParsedField /\ id \in Int
    BY <1>0, <1>1
  <2> HIDE DEF f0
  <2>2. LET h == set_field_attributes(x, f0, id)
        IN  /\ h \in ParsedField /\ h.type = f0.type /\ h.op = f0.op
            /\ h.dictionary = IF x.dictionary # Absent THEN x.dictionary ELSE f0.dictionary
            /\ IF Names(x) THEN h.key # NoKey /\ GivenBy(h.key, x) ELSE h.key = f0.key
    BY <2>1, AttributesResult, Zenon
  <2> QED
    BY <2>2 DEF f0
<1> HIDE DEF g
<1>3. /\ f.field \in ParsedField /\ LikeField(f.field, g)
      /\ f.field = g \/ check_valid_operator(f.field)
  BY <1>0 DEF OperatorFrom, g, x
<1>4. /\ f.field.type = node.field.type /\ f.field.dictionary = g.dictionary
      /\ f.field.key = g.key
  BY <1>0, <1>2, <1>3 DEF LikeField
<1>5. check_valid_operator(f.field)
  <2>1. check_valid_operator(g)
    BY <1>0, <1>2 DEF check_valid_operator
  <2> QED
    BY <1>0, <1>3, <2>1
<1>6. /\ new.field = f.field /\ new.parent = node.parent /\ new.x = node.x
      /\ new.idx = (IF Names(x) THEN i ELSE node.idx)
      /\ new.around = Append(node.around, x.dictionary) /\ new \in Node
  <2>1. Append(node.around, x.dictionary) \in Seq(AnyDictionary)
    BY <1>0, <1>1
  <2>2. (IF Names(x) THEN i ELSE node.idx) \in Nat
    BY <1>0, <1>1 DEF Node
  <2> QED
    <3>1. new = Described(node, x, i, f.field)
      BY <1>0 DEF x
    <3> QED
      BY <1>0, <1>3, <2>1, <2>2, <3>1 DEF Described, Node
<1>7. NearestDictionary(new.around) =
        IF x.dictionary = Absent THEN NearestDictionary(node.around) ELSE x.dictionary
  BY <1>0, <1>1, <1>6, NearestAppend
<1>8. OpenPart(node, parent, suffix) /\ node.field.type \in IntegerType /\ node.x = parent.x
  BY <1>0 DEF Part
<1>9. NearestDictionary(new.around) =
        IF new.field.dictionary = Absent THEN parent.field.dictionary ELSE new.field.dictionary
  BY <1>0, <1>2, <1>4, <1>6, <1>7, <1>8 DEF OpenPart
<1>10. IF new.idx = 0 THEN new.field.key = NoKey ELSE Named(new, parent, suffix)
  <2>1. CASE Names(x)
    <3>1. new.idx = i /\ new.field.key # NoKey /\ GivenBy(new.field.key, x)
      BY <1>0, <1>2, <1>4, <1>6, <2>1
    <3> QED
      BY <1>0, <1>1, <3>1 DEF Named, x
  <2>2. CASE ~Names(x)
    <3>1. new.idx = node.idx /\ new.field.key = node.field.key
      BY <1>0, <1>2, <1>4, <1>6, <2>2
    <3> QED
      BY <1>0, <1>8, <3>1 DEF OpenPart, Named
  <2> QED
    BY <1>0, <2>1, <2>2
<1>11. Part(new, parent, suffix, TRUE, id)
  BY <1>0, <1>4, <1>6, <1>8, <1>9, <1>10 DEF Part, OpenPart
<1> QED
  BY <1>4, <1>5, <1>6, <1>11 DEF StaysPart

(* A part is given its final field. *)
Settles(field, node, parent, suffix, id) ==
  /\ node \in Node /\ parent \in Node /\ check_valid_operator(node.field)
  /\ Part(node, parent, suffix, TRUE, id)
  /\ field \in ParsedField /\ field.type = node.field.type /\ field.op = node.field.op
  /\ field.tid = id
  /\ field.dictionary = (IF node.field.dictionary = Absent THEN parent.field.dictionary
                                                           ELSE node.field.dictionary)
  /\ node.field.key # NoKey => field.key = node.field.key
  /\ node.field.key = NoKey /\ field.key # NoKey =>
       DerivedFrom(field.key, parent.x, suffix)

LEMMA SettledPartIntro ==
  ASSUME NEW field, NEW node, NEW parent, NEW suffix, NEW id,
         Settles(field, node, parent, suffix, id)
  PROVE  StaysPart([node EXCEPT !.field = field], node, parent, suffix, FALSE, id)
<1> DEFINE new == [node EXCEPT !.field = field]
<1>0. /\ node \in Node /\ check_valid_operator(node.field)
      /\ Part(node, parent, suffix, TRUE, id)
      /\ field \in ParsedField /\ field.type = node.field.type /\ field.op = node.field.op
      /\ field.tid = id
      /\ field.dictionary = (IF node.field.dictionary = Absent THEN parent.field.dictionary
                                                               ELSE node.field.dictionary)
      /\ node.field.key # NoKey => field.key = node.field.key
      /\ node.field.key = NoKey /\ field.key # NoKey =>
           DerivedFrom(field.key, parent.x, suffix)
  BY DEF Settles
<1>1. /\ new \in Node /\ new.parent = node.parent /\ new.x = node.x /\ new.idx = node.idx
      /\ new.field = field /\ new.around = node.around
  BY <1>0 DEF Node
<1> HIDE DEF new
<1>2. OpenPart(node, parent, suffix) /\ node.field.type \in IntegerType /\ node.x = parent.x
  BY <1>0 DEF Part
<1>3. Settled(new, id)
  BY <1>0, <1>1, <1>2 DEF Settled, OpenPart
<1>4. IF new.idx = 0
      THEN new.field.key # NoKey =>
             DerivedFrom(new.field.key, parent.x, suffix)
      ELSE Named(new, parent, suffix)
  <2>1. CASE node.idx = 0
    BY <1>0, <1>1, <1>2, <2>1 DEF OpenPart
  <2>2. CASE node.idx # 0
    <3>1. Named(node, parent, suffix)
      BY <1>2, <2>2 DEF OpenPart
    <3>2. Named(new, parent, suffix)
      BY <1>0, <1>1, <3>1 DEF Named
    <3> QED
      BY <1>1, <2>2, <3>2
  <2> QED
    BY <2>1, <2>2
<1>5. Part(new, parent, suffix, FALSE, id)
  BY <1>0, <1>1, <1>2, <1>3, <1>4 DEF Part, SettledPart
<1>6. check_valid_operator(new.field)
  BY <1>0, <1>1 DEF check_valid_operator
<1> QED
  BY <1>0, <1>1, <1>5, <1>6 DEF StaysPart, new

--------------------------------------------------------------------------------
(* The steps within a template.                                            *)

Progress ==
  /\ stack' \in Seq(Frame) /\ tree' \in Seq(Node) /\ errors' \in SUBSET (1..5)
  /\ errors \subseteq errors' /\ UNCHANGED unchanged_file
  /\ InTree(tree', stack', templateID, errors')

LEMMA WalkingAny ==
  ASSUME NEW types \in SUBSET FieldTypeIdentifier, Walking(types)
  PROVE  Walking(FieldTypeIdentifier) /\ More /\ stack # << >> /\ Type \in types
BY DEF Walking, More

LEMMA SomeTypes ==
  /\ PlainType \subseteq FieldTypeIdentifier /\ SizedType \subseteq FieldTypeIdentifier
  /\ PlainType \cup SizedType \subseteq FieldTypeIdentifier
  /\ {"Decimal"} \subseteq FieldTypeIdentifier /\ {"Group"} \subseteq FieldTypeIdentifier
  /\ {"Sequence"} \subseteq FieldTypeIdentifier
BY DEF PlainType, SizedType, FieldTypeIdentifier, ScalarType

LEMMA IgnoreStep ==
  ASSUME IInv, Ignore
  PROVE  Progress
<1>1. /\ More /\ stack' = Moved /\ UNCHANGED <<tree, errors, unchanged_file>>
      /\ top.fn # "walk" \/ ignore_xml_node(element)
  BY DEF Ignore
<1>2. tree \in Seq(Node) /\ errors \in SUBSET (1..5) /\ errors \subseteq errors
  BY DEF IInv, Typed
<1>3. Moved \in Seq(Frame) /\ InTree(tree, Moved, templateID, errors)
  BY <1>1, <1>2, SkipShape
<1> QED
  BY <1>1, <1>2, <1>3 DEF Progress

LEMMA ErrorsLogged ==
  ASSUME IInv, NEW x, NEW errs, errs \subseteq 1..5
  PROVE  /\ errors \cup PresenceErrors(x) \in SUBSET (1..5)
         /\ errors \cup errs \in SUBSET (1..5)
         /\ errors \cup PresenceErrors(x) \cup errs \in SUBSET (1..5)
         /\ errors \cup PresenceErrors(x) \cup errs \cup Unparsed \in SUBSET (1..5)
         /\ 1 \in errors \cup PresenceErrors(x) \cup errs \cup Unparsed
<1>1. PresenceErrors(x) \subseteq 1..5 /\ Unparsed \subseteq 1..5 /\ 1 \in Unparsed
  BY DEF PresenceErrors, Unparsed
<1>2. errors \in SUBSET (1..5)
  BY DEF IInv, Typed
<1> QED
  BY <1>1, <1>2

(* A field that parses, but for its children. *)
LEMMA ParsedNode ==
  ASSUME IInv, Walking(FieldTypeIdentifier), NEW f, OperatorFrom(f, Field)
  PROVE  /\ f.errs \subseteq 1..5
         /\ f.ok =>
              LET node == NewNode(f.field)
              IN  /\ node \in Node /\ Own(node, tree[Below(top.at)], templateID)
                  /\ node.parent = Below(top.at) /\ node.idx = top.i
                  /\ node.field = f.field /\ node.field.type = Type
                  /\ check_valid_operator(node.field) /\ node.parent # 0
                  /\ Settled(node, templateID)
<1>1. /\ Field.type = Type /\ Field.op = "None"
      /\ \A g \in ParsedField :
           LikeField(g, Field) =>
             /\ NewNode(g) \in Node
             /\ Own(NewNode(g), tree[Below(top.at)], templateID)
             /\ NewNode(g).parent = Below(top.at) /\ NewNode(g).idx = top.i
             /\ NewNode(g).field = g /\ NewNode(g).x = element
  BY FieldResult
<1>2. /\ f.field \in ParsedField /\ LikeField(f.field, Field)
      /\ f.errs \subseteq 1..5
      /\ f.ok => f.field = Field \/ check_valid_operator(f.field)
  BY DEF OperatorFrom
<1>3. check_valid_operator(Field)
  BY <1>1 DEF check_valid_operator
<1>4. f.field.type = Type
  BY <1>1, <1>2 DEF LikeField
<1>5. Below(top.at) # 0
  BY WalkFacts DEF Walking, More
<1> DEFINE node == NewNode(f.field)
<1>6. /\ node \in Node /\ Own(node, tree[Below(top.at)], templateID)
      /\ node.parent = Below(top.at) /\ node.idx = top.i /\ node.field = f.field
  BY <1>1, <1>2
<1> HIDE DEF node
<1>7. Settled(node, templateID)
  BY <1>6 DEF Own
<1> QED
  BY <1>2, <1>3, <1>4, <1>5, <1>6, <1>7 DEF node

LEMMA PassedOver ==
  ASSUME IInv, More, stack' = Moved, UNCHANGED <<tree, unchanged_file>>,
         errors' \in SUBSET (1..5), errors \subseteq errors', 1 \in errors'
  PROVE  Progress
<1>1. Moved \in Seq(Frame) /\ InTree(tree, Moved, templateID, errors')
  BY SkipShape
<1>2. tree \in Seq(Node)
  BY DEF IInv, Typed
<1> QED
  BY <1>1, <1>2 DEF Progress

LEMMA UnknownFieldStep ==
  ASSUME IInv, UnknownField
  PROVE  Progress
<1>1. /\ More /\ stack' = Moved /\ UNCHANGED <<tree, unchanged_file>>
      /\ errors' = errors \cup PresenceErrors(element) \cup Unparsed
  BY DEF UnknownField
<1>2. errors' \in SUBSET (1..5) /\ errors \subseteq errors' /\ 1 \in errors'
  BY <1>1 DEF PresenceErrors, Unparsed, IInv, Typed
<1> QED
  BY <1>1, <1>2, PassedOver

LEMMA RefuseFieldStep ==
  ASSUME IInv, RefuseField
  PROVE  Progress
<1> DEFINE f == parse_field_operator(element, Field)
<1>1. /\ Walking(PlainType \cup SizedType) /\ stack' = Moved
      /\ UNCHANGED <<tree, unchanged_file>>
      /\ errors' = errors \cup PresenceErrors(element) \cup f.errs \cup Unparsed
  BY DEF RefuseField
<1>2. Walking(FieldTypeIdentifier) /\ More
  BY <1>1, SomeTypes, WalkingAny
<1>3. OperatorFrom(f, Field)
  BY <1>2, FieldResult, FieldOperatorResult
<1> HIDE DEF f
<1>4. f.errs \subseteq 1..5
  BY <1>3 DEF OperatorFrom
<1>5. errors' \in SUBSET (1..5) /\ errors \subseteq errors' /\ 1 \in errors'
  BY <1>1, <1>4, ErrorsLogged
<1> QED
  BY <1>1, <1>2, <1>5, PassedOver

LEMMA PlainFieldStep ==
  ASSUME IInv, PlainField
  PROVE  Progress
<1> DEFINE f    == parse_field_operator(element, Field)
           node == NewNode(f.field)
           new  == << node >>
<1>1. /\ Walking(PlainType) /\ stack' = Moved /\ UNCHANGED unchanged_file
      /\ f.ok /\ tree' = Append(tree, node)
      /\ errors' = errors \cup PresenceErrors(element) \cup f.errs
  BY DEF PlainField
<1>2. Walking(FieldTypeIdentifier) /\ Type \in PlainType
  BY <1>1, SomeTypes, WalkingAny
<1>3. OperatorFrom(f, Field)
  BY <1>2, FieldResult, FieldOperatorResult
<1> HIDE DEF f
<1>4. /\ f.errs \subseteq 1..5
      /\ node \in Node /\ Own(node, tree[Below(top.at)], templateID)
      /\ node.parent = Below(top.at) /\ node.idx = top.i /\ node.field.type = Type
      /\ check_valid_operator(node.field) /\ node.parent # 0
  BY <1>1, <1>2, <1>3, ParsedNode
<1> HIDE DEF node
<1>5. errors' \in SUBSET (1..5) /\ errors \subseteq errors'
  BY <1>1, <1>4, ErrorsLogged
<1>6. tree \in Seq(Node) /\ new \in Seq(Node) /\ Len(new) = 1 /\ new[1] = node /\ new # << >>
      /\ tree \o new = Append(tree, node)
  BY <1>4 DEF IInv, Typed
<1> HIDE DEF new
<1>7. ~Walked(new[1]) /\ new[1].field.type # "Sequence"
  BY <1>2, <1>4, <1>6 DEF Walked, PlainType, IntegerType, UnsignedType, SignedType
<1>8. Adds(new, {})
  BY <1>4, <1>6, <1>7 DEF Adds
<1>9. Moved \in Seq(Frame) /\ InTree(tree \o new, Moved, templateID, errors')
  BY <1>2, <1>5, <1>7, <1>8, PlainShape
<1>10. tree \o new \in Seq(Node)
  BY <1>4, <1>6
<1> QED
  BY <1>1, <1>5, <1>6, <1>9, <1>10 DEF Progress

LEMMA SizedFieldStep ==
  ASSUME IInv, SizedField
  PROVE  Progress
<1> DEFINE f      == parse_field_operator(element, Field)
           node   == NewNode(f.field)
           N      == Len(tree) + 1
           length == NewLength(node, N)
           new    == << node, length >>
<1>1. /\ Walking(SizedType) /\ stack' = Call("length") /\ UNCHANGED unchanged_file
      /\ f.ok /\ tree' = tree \o new
      /\ errors' = errors \cup PresenceErrors(element) \cup f.errs
  BY DEF SizedField
<1>2. Walking(FieldTypeIdentifier) /\ Type \in SizedType
  BY <1>1, SomeTypes, WalkingAny
<1>3. OperatorFrom(f, Field)
  BY <1>2, FieldResult, FieldOperatorResult
<1> HIDE DEF f
<1>4. /\ f.errs \subseteq 1..5
      /\ node \in Node /\ Own(node, tree[Below(top.at)], templateID)
      /\ node.parent = Below(top.at) /\ node.idx = top.i /\ node.field.type = Type
      /\ check_valid_operator(node.field) /\ node.parent # 0 /\ Settled(node, templateID)
  BY <1>1, <1>2, <1>3, ParsedNode
<1> HIDE DEF node
<1>5. errors' \in SUBSET (1..5) /\ errors \subseteq errors'
  <2>1. errors' = errors \cup PresenceErrors(element) \cup f.errs
    BY <1>1
  <2>2. errors \cup PresenceErrors(element) \cup f.errs \in SUBSET (1..5)
    BY <1>4, ErrorsLogged
  <2> QED
    BY <2>1, <2>2
<1>6. tree \in Seq(Node) /\ Len(tree) \in Nat /\ N \in Nat
  BY DEF IInv, Typed
<1>7. /\ length \in Node /\ length.parent = N /\ check_valid_operator(length.field)
      /\ Part(length, node, "length", TRUE, templateID)
  <2>1. "UInt32" \in IntegerType /\ "UInt32" # "Group"
    BY DEF IntegerType, UnsignedType
  <2> DEFINE type == "UInt32"
  <2>2. type \in IntegerType \cup {"Group"} /\ type # "Group"
    BY <2>1
  <2>3. length = ChildNode(node, N, create_field(type, "None"))
    BY DEF NewLength
  <2>4. node \in Node /\ Settled(node, templateID) /\ N \in Nat
    BY <1>4, <1>6
  <2> HIDE DEF type, length, N
  <2>5. Fresh(length, node, N, type, templateID)
    BY <2>2, <2>3, <2>4, NewChild
  <2> QED
    BY <2>2, <2>5 DEF Fresh
<1> HIDE DEF length, N
<1>8. /\ new \in Seq(Node) /\ Len(new) = 2 /\ new[1] = node /\ new[2] = length /\ new # << >>
      /\ \A n \in 1..Len(new) : n \in {1, 2}
      /\ \A n \in 2..Len(new) : n = 2
  BY <1>4, <1>7
<1> HIDE DEF new
<1>9. ~Walked(new[1]) /\ ~Takes(new[1]) /\ new[1].field.type \in SizedType
      /\ new[1].field.type # "Sequence"
  BY <1>2, <1>4, <1>8 DEF Walked, Takes, SizedType
<1>10. OpenIn("length", new) = {Len(tree) + 2}
  BY <1>8 DEF OpenIn
<1>11. Child(length, node, Len(tree) + 2, TRUE, templateID)
  <2>1. Len(tree) + 2 = length.parent + 1
    BY <1>6, <1>7 DEF N
  <2> QED
    BY <1>7, <1>8, <1>9, <2>1 DEF Child
<1>12. Adds(new, {Len(tree) + 2})
  <2>1. \A n \in 1..(Len(tree) + 1) : n \notin {Len(tree) + 2}
    BY <1>6
  <2>2. \A n \in 2..Len(new) :
          /\ new[n].parent = Len(tree) + 1
          /\ Child(new[n], new[1], Len(tree) + n, Len(tree) + n \in {Len(tree) + 2}, templateID)
    BY <1>7, <1>8, <1>11 DEF N
  <2>3. \A n \in 1..Len(new) : check_valid_operator(new[n].field)
    BY <1>4, <1>7, <1>8
  <2> QED
    BY <1>4, <1>8, <1>9, <2>1, <2>2, <2>3 DEF Adds
<1>13. Call("length") \in Seq(Frame) /\ InTree(tree \o new, Call("length"), templateID, errors')
  BY <1>2, <1>5, <1>8, <1>9, <1>10, <1>12, CallShape
<1>14. tree \o new \in Seq(Node)
  BY <1>6, <1>8
<1> QED
  BY <1>1, <1>5, <1>13, <1>14 DEF Progress

(* A field without an operator. *)
LEMMA BareNode ==
  ASSUME IInv, Walking(FieldTypeIdentifier)
  PROVE  LET node == NewNode(Field)
         IN  /\ node \in Node /\ Own(node, tree[Below(top.at)], templateID)
             /\ node.parent = Below(top.at) /\ node.idx = top.i /\ node.field.type = Type
             /\ check_valid_operator(node.field) /\ node.parent # 0
             /\ Settled(node, templateID)
<1> DEFINE f == ParsedOperator(TRUE, Field, {})
<1>1. f.ok /\ f.field = Field /\ f.errs = {} /\ f.ok \in BOOLEAN
  BY DEF ParsedOperator
<1> HIDE DEF f
<1>2. Field \in ParsedField
  BY FieldResult
<1>3. OperatorFrom(f, Field)
  BY <1>1, <1>2 DEF OperatorFrom, LikeField
<1> QED
  BY <1>1, <1>3, ParsedNode

LEMMA GroupFieldStep ==
  ASSUME IInv, GroupField
  PROVE  Progress
<1> DEFINE node == NewNode(Field)
           new  == << node >>
<1>1. /\ Walking({"Group"}) /\ stack' = Call("walk") /\ UNCHANGED unchanged_file
      /\ tree' = Append(tree, node)
      /\ errors' = errors \cup PresenceErrors(element)
  BY DEF GroupField
<1>2. Walking(FieldTypeIdentifier) /\ Type = "Group"
  BY <1>1, SomeTypes, WalkingAny
<1>3. /\ node \in Node /\ Own(node, tree[Below(top.at)], templateID)
      /\ node.parent = Below(top.at) /\ node.idx = top.i /\ node.field.type = Type
      /\ check_valid_operator(node.field) /\ node.parent # 0
  BY <1>2, BareNode
<1> HIDE DEF node
<1>4. errors' \in SUBSET (1..5) /\ errors \subseteq errors'
  BY <1>1, ErrorsLogged
<1>5. tree \in Seq(Node) /\ new \in Seq(Node) /\ Len(new) = 1 /\ new[1] = node /\ new # << >>
      /\ tree \o new = Append(tree, node)
  BY <1>3 DEF IInv, Typed
<1> HIDE DEF new
<1>6. Walked(new[1])
  <2>1. top.i # 0
    BY <1>2, WalkFacts DEF Walking, More
  <2> QED
    BY <1>2, <1>3, <1>5, <2>1 DEF Walked
<1>7. OpenIn("walk", new) = {}
  BY DEF OpenIn
<1>8. Adds(new, {})
  BY <1>2, <1>3, <1>5 DEF Adds
<1>9. Call("walk") \in Seq(Frame) /\ InTree(tree \o new, Call("walk"), templateID, errors')
  BY <1>2, <1>4, <1>6, <1>7, <1>8, CallShape
<1>10. tree \o new \in Seq(Node)
  BY <1>3, <1>5
<1> QED
  BY <1>1, <1>4, <1>5, <1>9, <1>10 DEF Progress

LEMMA SequenceFieldStep ==
  ASSUME IInv, SequenceField
  PROVE  Progress
<1> DEFINE node  == NewNode(Field)
           N     == Len(tree) + 1
           group == ChildNode(node, N, create_field("Group", "None"))
           new   == << node, group >>
<1>1. /\ Walking({"Sequence"}) /\ stack' = Call("walk") /\ UNCHANGED unchanged_file
      /\ tree' = tree \o new /\ errors' = errors \cup PresenceErrors(element)
  BY DEF SequenceField
<1>2. Walking(FieldTypeIdentifier) /\ Type = "Sequence"
  BY <1>1, SomeTypes, WalkingAny
<1>3. /\ node \in Node /\ Own(node, tree[Below(top.at)], templateID)
      /\ node.parent = Below(top.at) /\ node.idx = top.i /\ node.field.type = Type
      /\ check_valid_operator(node.field) /\ node.parent # 0 /\ Settled(node, templateID)
  BY <1>2, BareNode
<1> HIDE DEF node
<1>4. errors' \in SUBSET (1..5) /\ errors \subseteq errors'
  <2>1. errors' = errors \cup PresenceErrors(element)
    BY <1>1
  <2>2. errors \cup PresenceErrors(element) \in SUBSET (1..5)
    BY ErrorsLogged
  <2> QED
    BY <2>1, <2>2
<1>5. tree \in Seq(Node) /\ Len(tree) \in Nat /\ N \in Nat
  BY DEF IInv, Typed
<1>6. /\ group \in Node /\ group.parent = N /\ check_valid_operator(group.field)
      /\ Inner(group, node)
  <2> DEFINE type == "Group"
  <2>1. type \in IntegerType \cup {"Group"} /\ type = "Group"
        /\ group = ChildNode(node, N, create_field(type, "None"))
    OBVIOUS
  <2> HIDE DEF type, group, N
  <2>2. Fresh(group, node, N, type, templateID)
    BY <1>3, <1>5, <2>1, NewChild
  <2> QED
    BY <2>1, <2>2 DEF Fresh
<1> HIDE DEF group, N
<1>7. /\ new \in Seq(Node) /\ Len(new) = 2 /\ new[1] = node /\ new[2] = group /\ new # << >>
      /\ \A n \in 1..Len(new) : n \in {1, 2}
      /\ \A n \in 2..Len(new) : n = 2
  BY <1>3, <1>6
<1> HIDE DEF new
<1>8. Walked(new[1]) /\ ~Takes(new[1]) /\ new[1].field.type = "Sequence"
  BY <1>2, <1>3, <1>7 DEF Walked, Takes
<1>9. OpenIn("walk", new) = {}
  BY DEF OpenIn
<1>10. Child(group, node, Len(tree) + 2, Len(tree) + 2 \in {}, templateID)
  <2>1. Len(tree) + 2 = group.parent + 1
    BY <1>5, <1>6 DEF N
  <2> QED
    BY <1>6, <1>7, <1>8, <2>1 DEF Child
<1>11. Adds(new, {})
  <2>1. \A n \in 2..Len(new) :
          /\ new[n].parent = Len(tree) + 1
          /\ Child(new[n], new[1], Len(tree) + n, Len(tree) + n \in {}, templateID)
    BY <1>6, <1>7, <1>10 DEF N
  <2>2. \A n \in 1..Len(new) : check_valid_operator(new[n].field)
    BY <1>3, <1>6, <1>7
  <2> QED
    BY <1>3, <1>7, <1>8, <2>1, <2>2 DEF Adds
<1>12. Call("walk") \in Seq(Frame) /\ InTree(tree \o new, Call("walk"), templateID, errors')
  BY <1>2, <1>4, <1>8, <1>9, <1>11, CallShape
<1>13. tree \o new \in Seq(Node)
  BY <1>5, <1>7
<1> QED
  BY <1>1, <1>4, <1>12, <1>13 DEF Progress

LEMMA DecimalFieldStep ==
  ASSUME IInv, DecimalField
  PROVE  Progress
<1> DEFINE node     == NewNode(Field)
           N        == Len(tree) + 1
           exponent == ChildNode(node, N, create_field("Int32", "None"))
           mantissa == ChildNode(node, N, create_field("Int64", "None"))
           new      == << node, exponent, mantissa >>
           open     == {Len(tree) + 2, Len(tree) + 3}
<1>1. /\ Walking({"Decimal"}) /\ stack' = Call("decimal") /\ UNCHANGED unchanged_file
      /\ tree' = tree \o new /\ errors' = errors \cup PresenceErrors(element)
  BY DEF DecimalField
<1>2. Walking(FieldTypeIdentifier) /\ Type = "Decimal"
  BY <1>1, SomeTypes, WalkingAny
<1>3. /\ node \in Node /\ Own(node, tree[Below(top.at)], templateID)
      /\ node.parent = Below(top.at) /\ node.idx = top.i /\ node.field.type = Type
      /\ check_valid_operator(node.field) /\ node.parent # 0 /\ Settled(node, templateID)
  BY <1>2, BareNode
<1> HIDE DEF node
<1>4. errors' \in SUBSET (1..5) /\ errors \subseteq errors'
  <2>1. errors' = errors \cup PresenceErrors(element)
    BY <1>1
  <2>2. errors \cup PresenceErrors(element) \in SUBSET (1..5)
    BY ErrorsLogged
  <2> QED
    BY <2>1, <2>2
<1>5. tree \in Seq(Node) /\ Len(tree) \in Nat /\ N \in Nat
  BY DEF IInv, Typed
<1>6. ASSUME NEW type \in SignedType
      PROVE  LET child == ChildNode(node, N, create_field(type, "None"))
             IN  /\ child \in Node /\ child.parent = N /\ check_valid_operator(child.field)
                 /\ \A suffix : Part(child, node, suffix, TRUE, templateID)
  <2>1. type \in IntegerType \cup {"Group"} /\ type # "Group"
    BY DEF IntegerType, SignedType
  <2>2. /\ node \in Node /\ Settled(node, templateID) /\ N \in Nat
        /\ type \in IntegerType \cup {"Group"}
    BY <1>3, <1>5, <2>1
  <2> HIDE DEF N
  <2>3. Fresh(ChildNode(node, N, create_field(type, "None")), node, N, type, templateID)
    BY <2>2, NewChild
  <2> QED
    BY <2>1, <2>3 DEF Fresh
<1>7. /\ exponent \in Node /\ exponent.parent = N /\ check_valid_operator(exponent.field)
      /\ Part(exponent, node, "exponent", TRUE, templateID)
      /\ mantissa \in Node /\ mantissa.parent = N /\ check_valid_operator(mantissa.field)
      /\ Part(mantissa, node, "mantissa", TRUE, templateID)
  <2>1. "Int32" \in SignedType /\ "Int64" \in SignedType
    BY DEF SignedType
  <2> HIDE DEF N
  <2> QED
    BY <1>6, <2>1
<1> HIDE DEF exponent, mantissa, N
<1>8. /\ new \in Seq(Node) /\ Len(new) = 3 /\ new # << >>
      /\ new[1] = node /\ new[2] = exponent /\ new[3] = mantissa
      /\ \A n \in 1..Len(new) : n \in {1, 2, 3}
      /\ \A n \in 2..Len(new) : n \in {2, 3}
  BY <1>3, <1>7
<1> HIDE DEF new
<1>9. ~Walked(new[1]) /\ ~Takes(new[1]) /\ new[1].field.type = "Decimal"
  BY <1>2, <1>3, <1>8 DEF Walked, Takes
<1>10. OpenIn("decimal", new) = open
  BY DEF OpenIn
<1>11. /\ Child(exponent, node, Len(tree) + 2, TRUE, templateID)
       /\ Child(mantissa, node, Len(tree) + 3, TRUE, templateID)
  <2>1. Len(tree) + 2 = exponent.parent + 1 /\ Len(tree) + 3 = mantissa.parent + 2
    BY <1>5, <1>7 DEF N
  <2> QED
    BY <1>7, <1>8, <1>9, <2>1 DEF Child
<1>12. Adds(new, open)
  <2>1. \A n \in 1..(Len(tree) + 1) : n \notin open
    BY <1>5
  <2>2. \A n \in 2..Len(new) :
          /\ new[n].parent = Len(tree) + 1
          /\ Child(new[n], new[1], Len(tree) + n, Len(tree) + n \in open, templateID)
    BY <1>7, <1>8, <1>11 DEF N
  <2>3. \A n \in 1..Len(new) : check_valid_operator(new[n].field)
    BY <1>3, <1>7, <1>8
  <2> HIDE DEF open
  <2> QED
    BY <1>3, <1>8, <1>9, <2>1, <2>2, <2>3 DEF Adds
<1> HIDE DEF open
<1>13. Call("decimal") \in Seq(Frame) /\ InTree(tree \o new, Call("decimal"), templateID, errors')
  BY <1>2, <1>4, <1>8, <1>9, <1>10, <1>12, CallShape
<1>14. tree \o new \in Seq(Node)
  BY <1>5, <1>8
<1> QED
  BY <1>1, <1>4, <1>13, <1>14 DEF Progress

LEMMA WalkReturnsStep ==
  ASSUME IInv, WalkReturns
  PROVE  Progress
<1>1. /\ AtEnd /\ top.fn = "walk" /\ Here.parent # 0 /\ stack # << >>
      /\ UNCHANGED <<errors, unchanged_file>>
  BY DEF WalkReturns, AtEnd
<1>2. tree \in Seq(Node) /\ errors \in SUBSET (1..5) /\ errors \subseteq errors
  BY DEF IInv, Typed
<1>3. CASE Here.field.type # "Sequence"
  <2>1. stack' = Return /\ tree' = tree
    BY <1>3 DEF WalkReturns
  <2>2. Return \in Seq(Frame) /\ InTree(tree, Return, templateID, errors)
    BY <1>1, <1>3, GroupShape
  <2> QED
    BY <1>1, <1>2, <2>1, <2>2 DEF Progress
<1>4. CASE Here.field.type = "Sequence"
  <2> DEFINE node == NewLength(Here, top.at)
  <2>1. /\ tree' = Append(tree, node)
        /\ stack' = << Activation("length", top.at) >> \o Return
    BY <1>4 DEF WalkReturns
  <2>2. Here \in Node /\ Settled(Here, templateID) /\ top.at \in Nat
    BY <1>1, WalkFacts
  <2> DEFINE type == "UInt32"
  <2>3. type \in IntegerType \cup {"Group"} /\ type # "Group"
    BY DEF IntegerType, UnsignedType
  <2>4. node = ChildNode(Here, top.at, create_field(type, "None"))
    BY DEF NewLength
  <2> HIDE DEF node, type
  <2>9. Fresh(node, Here, top.at, type, templateID)
    BY <2>2, <2>3, <2>4, NewChild
  <2>5. /\ node \in Node /\ node.parent = top.at /\ check_valid_operator(node.field)
        /\ Part(node, Here, "length", TRUE, templateID)
    BY <2>3, <2>9 DEF Fresh
  <2>6. /\ << Activation("length", top.at) >> \o Return \in Seq(Frame)
        /\ InTree(Append(tree, node), << Activation("length", top.at) >> \o Return,
                  templateID, errors)
    BY <1>1, <1>4, <2>5, LengthShape
  <2>7. Append(tree, node) \in Seq(Node)
    BY <1>2, <2>5
  <2> QED
    BY <1>1, <1>2, <2>1, <2>6, <2>7 DEF Progress
<1> QED
  BY <1>3, <1>4

LEMMA OpenChild ==
  ASSUME NEW node, NEW parent, NEW n, NEW open, NEW id, open
  PROVE  Child(node, parent, n, open, id) <=> Child(node, parent, n, TRUE, id)
<1>1. \A suffix : Part(node, parent, suffix, open, id) <=> Part(node, parent, suffix, TRUE, id)
  BY DEF Part
<1> QED
  BY <1>1 DEF Child

(* The children that elements are still to describe. *)
LEMMA OpenChildren ==
  ASSUME IInv, stack # << >>, top.fn # "walk"
  PROVE  /\ \A k \in Open(tree, stack) :
              /\ k \in 2..Len(tree) /\ tree[k] \in Node /\ tree[k].parent = top.at
              /\ top.at \in 1..(k - 1) /\ check_valid_operator(tree[k].field)
              /\ tree[k].field.type \in IntegerType
         /\ top.fn = "decimal" =>
              /\ Here.field.type = "Decimal" /\ Open(tree, stack) = {top.at + 1, top.at + 2}
              /\ Part(tree[top.at + 1], Here, "exponent", TRUE, templateID)
              /\ Part(tree[top.at + 2], Here, "mantissa", TRUE, templateID)
         /\ top.fn = "length" =>
              /\ Open(tree, stack) = {Len(tree)}
              /\ Part(tree[Len(tree)], Here, "length", TRUE, templateID)
              /\ \/ Here.field.type \in SizedType /\ Len(tree) = top.at + 1
                 \/ Here.field.type = "Sequence" /\ Len(tree) > top.at + 1
<1>1. /\ top \in Frame /\ tree \in Seq(Node) /\ Len(tree) \in Nat /\ top = stack[1]
      /\ top.at \in 2..Len(tree) /\ Here = tree[top.at] /\ Describes(tree, top) /\ ~Takes(Here)
      /\ TreeOK(tree, Open(tree, stack), templateID, errors)
  BY DescribeFacts
<1>2. ASSUME NEW k \in Open(tree, stack), k \in 2..Len(tree), tree[k].parent = top.at
      PROVE  /\ tree[k] \in Node /\ top.at \in 1..(k - 1) /\ Child(tree[k], Here, k, TRUE, templateID)
             /\ k \in 1..Len(tree)
  <2>1. k \in 1..Len(tree) /\ k # 1
    BY <1>1, <1>2
  <2>2. NodeOK(tree, k, Open(tree, stack), templateID)
    BY <1>1, <2>1 DEF TreeOK, Nodes
  <2>3. tree[k].parent \in 1..(k - 1) /\ Child(tree[k], tree[tree[k].parent], k, k \in Open(tree, stack), templateID)
    BY <2>1, <2>2 DEF NodeOK
  <2>4. Child(tree[k], Here, k, k \in Open(tree, stack), templateID)
    BY <1>1, <1>2, <2>3
  <2>5. Child(tree[k], Here, k, TRUE, templateID)
    BY <1>2, <2>4, OpenChild
  <2>6. tree[k] \in Node
    BY <1>1, <2>1
  <2>7. top.at \in 1..(k - 1)
    BY <1>2, <2>3
  <2> QED
    BY <2>1, <2>5, <2>6, <2>7
<1>3. ASSUME NEW k \in 1..Len(tree), tree[k].field.type \in IntegerType
      PROVE  check_valid_operator(tree[k].field)
  BY <1>1, <1>3 DEF TreeOK, Valid, IntegerType, UnsignedType, SignedType
<1>4. CASE top.fn = "decimal"
  <2>1. /\ Here.field.type = "Decimal" /\ Len(tree) = top.at + 2
        /\ tree[top.at + 1].parent = top.at /\ tree[top.at + 2].parent = top.at
    BY <1>1, <1>4 DEF Describes
  <2>2. Open(tree, stack) = {top.at + 1, top.at + 2}
    BY <1>1, <1>4 DEF Open
  <2>3. top.at + 1 \in 2..Len(tree) /\ top.at + 2 \in 2..Len(tree) /\ top.at + 1 # top.at + 2
    BY <1>1, <2>1
  <2>4. Child(tree[top.at + 1], Here, top.at + 1, TRUE, templateID)
        /\ Child(tree[top.at + 2], Here, top.at + 2, TRUE, templateID)
        /\ top.at + 1 \in 1..Len(tree) /\ top.at + 2 \in 1..Len(tree)
    BY <1>2, <2>1, <2>2, <2>3
  <2>5. Part(tree[top.at + 1], Here, "exponent", TRUE, templateID)
    BY <1>1, <2>1, <2>3, <2>4 DEF Child, SizedType
  <2>6. Part(tree[top.at + 2], Here, "mantissa", TRUE, templateID)
    BY <1>1, <2>1, <2>3, <2>4 DEF Child, SizedType
  <2>7. tree[top.at + 1].field.type \in IntegerType /\ tree[top.at + 2].field.type \in IntegerType
    BY <2>5, <2>6 DEF Part
  <2>8. ASSUME NEW k \in Open(tree, stack)
        PROVE  /\ k \in 2..Len(tree) /\ tree[k] \in Node /\ tree[k].parent = top.at
               /\ top.at \in 1..(k - 1) /\ check_valid_operator(tree[k].field)
               /\ tree[k].field.type \in IntegerType
    <3>1. /\ k \in 2..Len(tree) /\ tree[k].parent = top.at /\ tree[k].field.type \in IntegerType
      BY <2>1, <2>2, <2>3, <2>7
    <3> QED
      BY <1>2, <1>3, <3>1
  <2> QED
    BY <1>4, <2>1, <2>2, <2>5, <2>6, <2>8
<1>5. CASE top.fn = "length"
  <2>1. /\ top.at < Len(tree) /\ tree[Len(tree)].parent = top.at
        /\ \/ Here.field.type \in SizedType
           \/ Here.field.type = "Sequence" /\ top.at + 1 < Len(tree)
    BY <1>1, <1>5 DEF Describes
  <2> DEFINE L == Len(tree)
  <2>2. Open(tree, stack) = {L}
    BY <1>1, <1>5 DEF Open
  <2>3. L \in 2..Len(tree)
    BY <1>1
  <2>4. Child(tree[L], Here, L, TRUE, templateID) /\ L \in 1..Len(tree) /\ tree[L] \in Node
        /\ top.at \in 1..(L - 1)
    BY <1>2, <2>1, <2>2, <2>3
  <2>5. L # top.at + 1 => L > top.at + 1
    BY <1>1, <2>1
  <2>6. /\ Part(tree[L], Here, "length", TRUE, templateID)
        /\ \/ Here.field.type \in SizedType /\ L = top.at + 1
           \/ Here.field.type = "Sequence" /\ L > top.at + 1
    <3>1. CASE Here.field.type \in SizedType
      BY <1>1, <2>1, <2>4, <3>1 DEF Child, SizedType
    <3>2. CASE Here.field.type = "Sequence" /\ top.at + 1 < L
      <4>1. L # top.at + 1 /\ L > top.at + 1
        BY <1>1, <3>2
      <4> QED
        BY <1>1, <2>1, <2>4, <3>2, <4>1 DEF Child, SizedType
    <3> QED
      BY <2>1, <3>1, <3>2
  <2>7. tree[L].field.type \in IntegerType
    BY <2>6 DEF Part
  <2> QED
    BY <1>3, <1>5, <2>1, <2>2, <2>3, <2>4, <2>6, <2>7
<1> QED
  BY <1>1, <1>4, <1>5 DEF Frame

LEMMA Updated ==
  ASSUME NEW t \in Seq(Node), NEW k \in 1..Len(t), NEW node \in Node
  PROVE  LET u == [t EXCEPT ![k] = node]
         IN  /\ u \in Seq(Node) /\ Len(u) = Len(t) /\ u[k] = node
             /\ \A n \in 1..Len(t) : n # k => u[n] = t[n]
OBVIOUS

LEMMA SameSelf ==
  ASSUME NEW a
  PROVE  Same(a, a)
BY DEF Same

(* What a part of the node that is worked on is, at k.                     *)
IsPart(suffix, k) ==
  \A node : node.parent = top.at /\ Part(node, Here, suffix, TRUE, templateID)
              => Child(node, Here, k, TRUE, templateID)

(* An element that describes a child. *)
LEMMA DescribeStep ==
  ASSUME IInv, More, top.fn # "walk", NEW suffix, NEW k \in Open(tree, stack),
         Part(tree[k], Here, suffix, TRUE, templateID), element.tag = suffix,
         IsPart(suffix, k),
         DescribeChild(k)
  PROVE  Progress
<1> DEFINE g   == set_field_attributes(element, tree[k].field, templateID)
           f   == parse_field_operator(element, g)
           new == Described(tree[k], element, top.i, f.field)
           u   == [tree EXCEPT ![k] = Described(@, element, top.i, f.field)]
<1>1. /\ stack # << >> /\ top.i <= Len(Here.x.children)
  BY DEF More
<1>2. /\ top \in Frame /\ tree \in Seq(Node) /\ Len(tree) \in Nat /\ top = stack[1]
      /\ top.at \in 2..Len(tree) /\ Here = tree[top.at] /\ Here \in Node
      /\ Here.x.children \in Seq(Element) /\ top.i \in 1..(Len(Here.x.children) + 1)
      /\ TreeOK(tree, Open(tree, stack), templateID, errors) /\ ~Takes(Here)
  BY <1>1, DescribeFacts
<1>3. /\ k \in 2..Len(tree) /\ tree[k] \in Node /\ tree[k].parent = top.at
      /\ top.at \in 1..(k - 1) /\ check_valid_operator(tree[k].field)
      /\ tree[k].field.type \in IntegerType /\ k \in 1..Len(tree) /\ k # 1 /\ top.at # k
  <2>1. /\ k \in 2..Len(tree) /\ tree[k] \in Node /\ tree[k].parent = top.at
        /\ top.at \in 1..(k - 1) /\ check_valid_operator(tree[k].field)
        /\ tree[k].field.type \in IntegerType
    BY <1>1, OpenChildren
  <2> QED
    BY <1>2, <2>1
<1>4. /\ errors' = errors \cup PresenceErrors(element) \cup f.errs \cup IF f.ok THEN {} ELSE Unparsed
      /\ f.ok => tree' = u /\ stack' = Moved
      /\ ~f.ok => tree' = SubSeq(tree, 1, top.at - 1) /\ stack' = Return
      /\ UNCHANGED unchanged_file
  BY DEF DescribeChild
<1>5. top.i \in DOMAIN Here.x.children /\ element = Here.x.children[top.i] /\ element \in Element
  BY <1>1, <1>2 DEF element
<1>6. templateID \in Int
  BY DEF IInv, Typed
<1>7. g \in ParsedField
  <2>1. tree[k].field \in ParsedField
    BY <1>3 DEF Node
  <2> QED
    BY <1>5, <1>6, <2>1, AttributesResult
<1> HIDE DEF g
<1>8. OperatorFrom(f, g)
  BY <1>7, FieldOperatorResult
<1> HIDE DEF f
<1>9. f.errs \subseteq 1..5
  BY <1>8 DEF OperatorFrom
<1>10. errors' \in SUBSET (1..5) /\ errors \subseteq errors' /\ (~f.ok => 1 \in errors')
  <2>1. /\ errors \cup PresenceErrors(element) \cup f.errs \in SUBSET (1..5)
        /\ errors \cup PresenceErrors(element) \cup f.errs \cup Unparsed \in SUBSET (1..5)
        /\ 1 \in errors \cup PresenceErrors(element) \cup f.errs \cup Unparsed
    BY <1>9, ErrorsLogged
  <2>2. errors' = errors \cup PresenceErrors(element) \cup f.errs \cup IF f.ok THEN {} ELSE Unparsed
    BY <1>4
  <2> HIDE DEF new, u
  <2> QED
    BY <2>1, <2>2
<1>11. CASE ~f.ok
  <2>1. /\ SubSeq(tree, 1, top.at - 1) \in Seq(Node) /\ Return \in Seq(Frame)
        /\ InTree(SubSeq(tree, 1, top.at - 1), Return, templateID, errors')
    BY <1>1, <1>10, <1>11, DropShape
  <2> QED
    BY <1>4, <1>10, <1>11, <2>1 DEF Progress
<1>12. CASE f.ok
  <2>2. u = [tree EXCEPT ![k] = new]
    BY <1>2, <1>3
  <2>8. /\ new = Described(tree[k], Here.x.children[top.i], top.i, f.field)
        /\ g = set_field_attributes(Here.x.children[top.i], tree[k].field, templateID)
    BY <1>5 DEF g
  <2> HIDE DEF new, u
  <2>9. OperatorFrom(f, set_field_attributes(Here.x.children[top.i], tree[k].field, templateID))
    BY <1>8, <2>8
  <2>10. Here.x.children[top.i].tag = suffix
    BY <1>5
  <2>1. /\ new \in Node /\ new.parent = top.at /\ new.x = tree[k].x
        /\ new.field.type = tree[k].field.type /\ check_valid_operator(new.field)
        /\ Part(new, Here, suffix, TRUE, templateID)
    <3>1. /\ tree[k] \in Node /\ Here \in Node /\ templateID \in Int /\ tree[k].parent = top.at
          /\ check_valid_operator(tree[k].field) /\ top.i \in DOMAIN Here.x.children /\ f.ok
      BY <1>2, <1>3, <1>5, <1>6, <1>12
    <3>2. Describing(tree[k], Here, suffix, templateID, top.i, f, new)
      BY <2>8, <2>9, <2>10, <3>1 DEF Describing
    <3>3. StaysPart(new, tree[k], Here, suffix, TRUE, templateID)
      BY <3>2, DescribedPart
    <3> QED
      BY <3>1, <3>3 DEF StaysPart
  <2>3. /\ u \in Seq(Node) /\ Len(u) = Len(tree) /\ u[k] = new
        /\ \A n \in 1..Len(tree) : n # k => u[n] = tree[n]
    BY <1>2, <1>3, <2>1, <2>2, Updated
  <2>4. NodeOK(u, k, Open(tree, stack), templateID)
    <3>1. u[k].parent = top.at /\ u[top.at] = Here /\ top.at \in 1..(k - 1)
      BY <1>2, <1>3, <2>1, <2>3
    <3>2. Child(u[k], Here, k, TRUE, templateID)
      BY <2>1, <2>3 DEF IsPart
    <3>3. (k \in Open(tree, stack)) = TRUE
      OBVIOUS
    <3> QED
      BY <1>3, <3>1, <3>2, <3>3 DEF NodeOK
  <2>5. Changes(u, Open(tree, stack))
    BY <1>3, <2>1, <2>3, <2>4, SameSelf DEF Changes
  <2>6. Valid(u, errors')
    <3>1. Valid(tree, errors')
      BY <1>2, <1>10, ErrorsGrow DEF TreeOK
    <3> QED
      BY <2>1, <2>3, <3>1 DEF Valid
  <2>7. Moved \in Seq(Frame) /\ InTree(u, Moved, templateID, errors')
    BY <1>10, <2>5, <2>6, ChangeMoves
  <2> QED
    BY <1>4, <1>10, <1>12, <2>3, <2>7 DEF Progress
<1> QED
  BY <1>11, <1>12

LEMMA DecimalPartStep ==
  ASSUME IInv, DecimalPart
  PROVE  Progress
<1>1. More /\ stack # << >> /\ top.fn = "decimal"
  BY DEF DecimalPart, More
<1>2. /\ Here.field.type = "Decimal" /\ Open(tree, stack) = {top.at + 1, top.at + 2}
      /\ Part(tree[top.at + 1], Here, "exponent", TRUE, templateID)
      /\ Part(tree[top.at + 2], Here, "mantissa", TRUE, templateID)
  BY <1>1, OpenChildren
<1>3. ~Takes(Here)
  BY <1>1, DescribeFacts
<1>4. CASE element.tag = "exponent" /\ DescribeChild(top.at + 1)
  <2>1. IsPart("exponent", top.at + 1)
    BY <1>2, <1>3 DEF IsPart, Child
  <2> QED
    BY <1>1, <1>2, <1>4, <2>1, DescribeStep
<1>5. CASE element.tag = "mantissa" /\ DescribeChild(top.at + 2)
  <2>1. IsPart("mantissa", top.at + 2)
    BY <1>2, <1>3 DEF IsPart, Child
  <2> QED
    BY <1>1, <1>2, <1>5, <2>1, DescribeStep
<1> QED
  BY <1>4, <1>5 DEF DecimalPart

LEMMA LengthPartStep ==
  ASSUME IInv, LengthPart
  PROVE  Progress
<1>1. More /\ stack # << >> /\ top.fn = "length" /\ element.tag = "length"
      /\ DescribeChild(Len(tree))
  BY DEF LengthPart, More
<1>2. /\ Open(tree, stack) = {Len(tree)}
      /\ Part(tree[Len(tree)], Here, "length", TRUE, templateID)
      /\ \/ Here.field.type \in SizedType /\ Len(tree) = top.at + 1
         \/ Here.field.type = "Sequence" /\ Len(tree) > top.at + 1
  BY <1>1, OpenChildren
<1>3. ~Takes(Here)
  BY <1>1, DescribeFacts
<1>4. IsPart("length", Len(tree))
  BY <1>2, <1>3 DEF IsPart, Child
<1> QED
  BY <1>1, <1>2, <1>4, DescribeStep

LEMMA DecimalOperatorStep ==
  ASSUME IInv, DecimalOperator
  PROVE  Progress
<1> DEFINE f   == parse_operator(element, Here.field)
           new == [Here EXCEPT !.field = f.field]
           u   == [tree EXCEPT ![top.at].field = f.field]
<1>1. /\ More /\ stack # << >> /\ top.fn = "decimal" /\ stack' = Moved
      /\ tree' = u /\ errors' = errors \cup f.errs /\ UNCHANGED unchanged_file
  BY DEF DecimalOperator, More
<1>2. /\ tree \in Seq(Node) /\ Len(tree) \in Nat /\ Here = tree[top.at] /\ Here \in Node
      /\ top.at \in 2..Len(tree) /\ top.at \in 1..Len(tree)
      /\ TreeOK(tree, Open(tree, stack), templateID, errors)
  <2>1. /\ tree \in Seq(Node) /\ Len(tree) \in Nat /\ Here = tree[top.at] /\ Here \in Node
        /\ top.at \in 2..Len(tree)
        /\ TreeOK(tree, Open(tree, stack), templateID, errors)
    BY <1>1, DescribeFacts
  <2> QED
    BY <2>1
<1>3. Here.field.type = "Decimal"
  BY <1>1, OpenChildren
<1>4. Here.field \in ParsedField
  BY <1>2 DEF Node
<1>5. OperatorFrom(f, Here.field)
  BY <1>4, OperatorResult
<1> HIDE DEF f
<1>6. /\ f.field \in ParsedField /\ LikeField(f.field, Here.field) /\ f.errs \subseteq 1..5
      /\ f.ok \in BOOLEAN
      /\ f.ok => f.field = Here.field \/ check_valid_operator(f.field)
      /\ ~f.ok => f.field = Here.field \/ 2 \in f.errs
  BY <1>5 DEF OperatorFrom
<1>7. new \in Node /\ new.field = f.field /\ Same(new, Here)
  BY <1>2, <1>6 DEF Node, Same, LikeField
<1>8. u = [tree EXCEPT ![top.at] = new]
  BY <1>2
<1> HIDE DEF new, u
<1>9. /\ u \in Seq(Node) /\ Len(u) = Len(tree) /\ u[top.at] = new
      /\ \A n \in 1..Len(tree) : n # top.at => u[n] = tree[n]
  BY <1>2, <1>7, <1>8, Updated
<1>10. Changes(u, Open(tree, stack))
  <2>1. \A n \in 1..Len(tree) : Same(u[n], tree[n])
    BY <1>2, <1>7, <1>9, SameSelf
  <2> QED
    BY <1>9, <2>1 DEF Changes
<1>11. errors' \in SUBSET (1..5) /\ errors \subseteq errors'
  BY <1>1, <1>6, ErrorsLogged
<1>12. Valid(u, errors')
  <2> SUFFICES ASSUME NEW n \in 1..Len(u)
               PROVE  \/ check_valid_operator(u[n].field)
                      \/ u[n].field.type = "Decimal" /\ 2 \in errors'
    BY DEF Valid
  <2>1. \/ check_valid_operator(tree[n].field)
        \/ tree[n].field.type = "Decimal" /\ 2 \in errors
    BY <1>2, <1>9 DEF TreeOK, Valid
  <2>2. CASE n # top.at
    BY <1>9, <1>11, <2>1, <2>2
  <2>3. CASE n = top.at
    <3>1. u[n].field = f.field /\ u[n].field.type = "Decimal" /\ tree[n] = Here
      BY <1>2, <1>3, <1>6, <1>7, <1>9, <2>3 DEF LikeField
    <3> QED
      BY <1>1, <1>6, <2>1, <3>1
  <2> QED
    BY <2>2, <2>3
<1>13. Moved \in Seq(Frame) /\ InTree(u, Moved, templateID, errors')
  BY <1>1, <1>10, <1>11, <1>12, ChangeMoves
<1> QED
  BY <1>1, <1>9, <1>11, <1>13 DEF Progress

(* What the length of a sequence, vector or unicode string ends up with.   *)
LEMMA LengthDefaultsSettle ==
  ASSUME IInv, stack # << >>, top.fn = "length", NEW node \in Node,
         check_valid_operator(node.field), Part(node, Here, "length", TRUE, templateID)
  PROVE  Settles(LengthDefaults(node.field), node, Here, "length", templateID)
<1> DEFINE field == node.field
           key   == IF field.key = NoKey THEN LengthKey(Here.x) ELSE field.key
           g == [field EXCEPT !.key = key, !.tid = templateID, !.mandatory = Here.field.mandatory]
<1>1. /\ Here \in Node /\ Here.x \in Element
  BY DescribeFacts
<1>2. /\ field \in ParsedField /\ Here.field \in ParsedField /\ templateID \in Int
      /\ Here.field.mandatory \in BOOLEAN /\ Inherited \in AnyDictionary
      /\ field.key \in NodeKey
  BY <1>1 DEF Node, ParsedField, IInv, Typed, Inherited
<1>3. LengthKey(Here.x) \in NodeKey /\ DerivedFrom(LengthKey(Here.x), Here.x, "length")
  <2> DEFINE name == IF Here.x.name = Absent THEN << PrintedNull >> ELSE Here.x.name
  <2>1. << PrintedNull >> \in Text /\ "length" \in Key \cup Suffix \cup {PrintedNull}
    BY DEF Text, Suffix
  <2>2. name \in Text
    BY <1>1, <2>1, ElementAssumption
  <2>3. LengthKey(Here.x) = Append(name, "length")
    BY DEF LengthKey
  <2>4. Here.x.name # Absent => name \in {Here.x.key, Here.x.name} \ {Absent}
    OBVIOUS
  <2>5. Here.x.name = Absent => name[1] = PrintedNull /\ Len(name) = 1
    OBVIOUS
  <2> HIDE DEF name
  <2>6. Append(name, "length") \in Text
    BY <2>1, <2>2 DEF Text
  <2>7. Here.x.name = Absent => Append(name, "length")[1] = PrintedNull
    BY <2>1, <2>2, <2>5, AppendProperties DEF Text
  <2> QED
    BY <2>3, <2>4, <2>6, <2>7 DEF NodeKey, DerivedFrom
<1>4. key \in NodeKey
  BY <1>2, <1>3
<1>5. LengthDefaults(field) = Inherit(g, Inherited)
  BY <1>2 DEF LengthDefaults, ParsedField
<1> HIDE DEF key
<1>6. /\ g \in ParsedField /\ g.type = field.type /\ g.op = field.op /\ g.tid = templateID
      /\ g.key = key /\ g.dictionary = field.dictionary
  BY <1>2, <1>4 DEF ParsedField
<1> HIDE DEF g
<1> DEFINE h == LengthDefaults(field)
<1>7. /\ h \in ParsedField
      /\ h.type = field.type /\ h.op = field.op /\ h.tid = templateID /\ h.key = key
      /\ h.dictionary = IF field.dictionary = Absent THEN Inherited ELSE field.dictionary
  BY <1>2, <1>5, <1>6, InheritResult
<1> HIDE DEF h
<1>8. /\ field.key # NoKey => h.key = field.key
      /\ field.key = NoKey /\ h.key # NoKey =>
           DerivedFrom(h.key, Here.x, "length")
  BY <1>3, <1>7 DEF key
<1> QED
  BY <1>1, <1>7, <1>8 DEF Settles, Inherited, h

LEMMA LengthReturnsStep ==
  ASSUME IInv, LengthReturns
  PROVE  Progress
<1> DEFINE L     == Len(tree)
           field == LengthDefaults(tree[L].field)
           new   == [tree[L] EXCEPT !.field = field]
           u     == [tree EXCEPT ![L].field = LengthDefaults(@)]
<1>1. /\ stack # << >> /\ top.fn = "length" /\ stack' = Return
      /\ tree' = u /\ UNCHANGED <<errors, unchanged_file>>
  BY DEF LengthReturns, AtEnd
<1>2. /\ tree \in Seq(Node) /\ Len(tree) \in Nat /\ Here = tree[top.at] /\ ~Takes(Here)
      /\ TreeOK(tree, Open(tree, stack), templateID, errors)
  BY <1>1, DescribeFacts
<1>3. /\ L \in 2..Len(tree) /\ tree[L] \in Node /\ tree[L].parent = top.at
      /\ top.at \in 1..(L - 1) /\ check_valid_operator(tree[L].field)
      /\ tree[L].field.type \in IntegerType /\ Open(tree, stack) = {L}
      /\ Part(tree[L], Here, "length", TRUE, templateID)
      /\ \/ Here.field.type \in SizedType /\ L = top.at + 1
         \/ Here.field.type = "Sequence" /\ L > top.at + 1
  BY <1>1, OpenChildren
<1>4. Settles(field, tree[L], Here, "length", templateID)
  BY <1>1, <1>3, LengthDefaultsSettle
<1>5. u = [tree EXCEPT ![L] = new]
  BY <1>2, <1>3
<1>6. StaysPart(new, tree[L], Here, "length", FALSE, templateID)
  BY <1>4, SettledPartIntro
<1> HIDE DEF field, new, u
<1>7. /\ new \in Node /\ new.parent = top.at /\ new.x = tree[L].x
      /\ new.field.type = tree[L].field.type /\ check_valid_operator(new.field)
      /\ Part(new, Here, "length", FALSE, templateID)
  BY <1>3, <1>6 DEF StaysPart
<1> HIDE DEF L
<1>8. L \in 1..Len(tree) /\ L # 1 /\ top.at # L
  BY <1>2, <1>3 DEF L
<1>9. /\ u \in Seq(Node) /\ Len(u) = Len(tree) /\ u[L] = new
      /\ \A n \in 1..Len(tree) : n # L => u[n] = tree[n]
  BY <1>2, <1>5, <1>7, <1>8, Updated
<1>10. NodeOK(u, L, {}, templateID)
  <2>1. u[L].parent = top.at /\ u[top.at] = Here /\ top.at \in 1..(L - 1)
    BY <1>2, <1>3, <1>7, <1>8, <1>9 DEF L
  <2>2. Part(new, Here, "length", L \in {}, templateID)
    BY <1>7 DEF Part
  <2>3. Child(u[L], Here, L, L \in {}, templateID)
    BY <1>2, <1>3, <1>7, <1>9, <2>2 DEF Child
  <2> QED
    BY <1>8, <2>1, <2>3 DEF NodeOK
<1>11. Changes(u, {})
  BY <1>3, <1>7, <1>8, <1>9, <1>10, SameSelf DEF Changes
<1>12. Valid(u, errors)
  <2>1. Valid(tree, errors)
    BY <1>2 DEF TreeOK
  <2> QED
    BY <1>7, <1>9, <2>1 DEF Valid
<1>13. errors \in SUBSET (1..5) /\ errors \subseteq errors
  BY DEF IInv, Typed
<1>14. Return \in Seq(Frame) /\ InTree(u, Return, templateID, errors)
  BY <1>1, <1>11, <1>12, <1>13, ChangeReturns
<1> QED
  BY <1>1, <1>9, <1>13, <1>14 DEF Progress

(* The last symbol tells what a key was derived for. *)
LEMMA AppendLast ==
  ASSUME NEW S, NEW r \in Seq(S), NEW s \in Seq(S), NEW a \in S, NEW b \in S,
         Append(r, a) = Append(s, b)
  PROVE  a = b
<1>1. /\ Len(Append(r, a)) = Len(r) + 1 /\ Len(Append(s, b)) = Len(s) + 1
      /\ Len(r) \in Nat /\ Len(s) \in Nat
  OBVIOUS
<1>2. Append(r, a)[Len(r) + 1] = a /\ Append(s, b)[Len(s) + 1] = b
  BY AppendProperties
<1>3. Len(r) = Len(s)
  BY <1>1
<1> QED
  BY <1>2, <1>3

(* What the exponent and the mantissa of a decimal end up with.            *)
LEMMA DecimalChildSettles ==
  ASSUME IInv, stack # << >>, top.fn = "decimal", NEW suffix \in Suffix, NEW node \in Node,
         check_valid_operator(node.field), Part(node, Here, suffix, TRUE, templateID),
         NEW field \in ParsedField, LikeField([field EXCEPT !.mandatory = node.field.mandatory], node.field),
         field.op = node.field.op
  PROVE  Settles(DecimalChild(field, suffix), node, Here, suffix, templateID)
<1> DEFINE g == [field EXCEPT !.tid = templateID]
           h == Inherit(g, Inherited)
           d == DecimalChild(field, suffix)
<1>1. /\ Here \in Node /\ (Here.field.key # NoKey => GivenBy(Here.field.key, Here.x))
  BY DescribeFacts
<1>2. /\ Here.field \in ParsedField /\ Here.field.key \in NodeKey /\ templateID \in Int
      /\ Inherited \in AnyDictionary /\ Inherited = Here.field.dictionary
  BY <1>1 DEF Node, ParsedField, IInv, Typed, Inherited
<1>3. /\ field.type = node.field.type /\ field.key = node.field.key
      /\ field.dictionary = node.field.dictionary
  BY DEF LikeField, ParsedField
<1>4. /\ g \in ParsedField /\ g.type = field.type /\ g.op = field.op /\ g.tid = templateID
      /\ g.key = field.key /\ g.dictionary = field.dictionary
  BY <1>2 DEF ParsedField
<1> HIDE DEF g
<1>5. /\ h \in ParsedField /\ h.type = field.type /\ h.op = field.op /\ h.tid = templateID
      /\ h.key = field.key
      /\ h.dictionary = IF field.dictionary = Absent THEN Inherited ELSE field.dictionary
  BY <1>2, <1>4, InheritResult
<1>6. d = DerivedKey(h, Here.field, suffix)
  BY DEF DecimalChild, g
<1> HIDE DEF h, d
<1>7. ASSUME Here.field.key # NoKey
      PROVE  LET key == Append(Here.field.key, suffix)
             IN  key \in NodeKey /\ DerivedFrom(key, Here.x, suffix)
  <2>1. Here.field.key \in Text /\ Here.field.key \in {Here.x.key, Here.x.name} \ {Absent}
    BY <1>1, <1>2, <1>7 DEF NodeKey, GivenBy
  <2>2. suffix \in Key \cup Suffix \cup {PrintedNull}
    OBVIOUS
  <2>3. Append(Here.field.key, suffix) \in Text
    BY <2>1, <2>2 DEF Text
  <2> QED
    BY <2>1, <2>3 DEF NodeKey, DerivedFrom
<1>8. /\ d \in ParsedField /\ d.type = h.type /\ d.op = h.op /\ d.tid = h.tid
      /\ d.dictionary = h.dictionary
      /\ h.key # NoKey => d.key = h.key
      /\ h.key = NoKey /\ d.key # NoKey =>
           DerivedFrom(d.key, Here.x, suffix)
  <2>1. CASE Here.field.key # NoKey /\ h.key = NoKey
    <3> DEFINE key == Append(Here.field.key, suffix)
    <3>1. d = [h EXCEPT !.key = key]
      BY <1>6, <2>1 DEF DerivedKey
    <3>2. key \in NodeKey /\ DerivedFrom(key, Here.x, suffix)
      BY <1>7, <2>1
    <3> HIDE DEF key
    <3>3. /\ d \in ParsedField /\ d.type = h.type /\ d.op = h.op /\ d.tid = h.tid
          /\ d.dictionary = h.dictionary /\ d.key = key
      BY <1>5, <3>1, <3>2 DEF ParsedField
    <3> QED
      BY <2>1, <3>2, <3>3
  <2>2. CASE ~(Here.field.key # NoKey /\ h.key = NoKey)
    <3>1. d = h
      BY <1>6, <2>2 DEF DerivedKey
    <3> QED
      BY <1>5, <2>2, <3>1
  <2> QED
    BY <2>1, <2>2
<1>9. Settles(d, node, Here, suffix, templateID)
  BY <1>1, <1>2, <1>3, <1>5, <1>8 DEF Settles
<1> QED
  BY <1>9 DEF d

LEMMA DecimalReturnsStep ==
  ASSUME IInv, DecimalReturns
  PROVE  Progress
<1> DEFINE e     == top.at + 1
           m     == top.at + 2
           first == [tree[e].field EXCEPT !.mandatory = Here.field.mandatory]
           newE  == [tree[e] EXCEPT !.field = DecimalChild(first, "exponent")]
           newM  == [tree[m] EXCEPT !.field = DecimalChild(tree[m].field, "mantissa")]
           v     == [tree EXCEPT ![e] = newE]
           u     == [v EXCEPT ![m] = newM]
<1>1. /\ stack # << >> /\ top.fn = "decimal" /\ stack' = Return
      /\ UNCHANGED <<errors, unchanged_file>>
      /\ tree' = [tree EXCEPT
           ![top.at + 1].field = DecimalChild([@ EXCEPT !.mandatory = Here.field.mandatory], "exponent"),
           ![top.at + 2].field = DecimalChild(@, "mantissa")]
  BY DEF DecimalReturns, AtEnd
<1>2. /\ tree \in Seq(Node) /\ Len(tree) \in Nat /\ Here = tree[top.at] /\ Here \in Node
      /\ top.at \in 2..Len(tree)
      /\ TreeOK(tree, Open(tree, stack), templateID, errors) /\ ~Takes(Here)
  BY <1>1, DescribeFacts
<1>3. /\ Here.field.type = "Decimal" /\ Open(tree, stack) = {e, m}
      /\ Part(tree[e], Here, "exponent", TRUE, templateID)
      /\ Part(tree[m], Here, "mantissa", TRUE, templateID)
  BY <1>1, OpenChildren
<1>4. \A k \in {e, m} :
        /\ k \in 2..Len(tree) /\ tree[k] \in Node /\ tree[k].parent = top.at
        /\ top.at \in 1..(k - 1) /\ check_valid_operator(tree[k].field)
        /\ tree[k].field.type \in IntegerType
  <2>1. \A k \in Open(tree, stack) :
        /\ k \in 2..Len(tree) /\ tree[k] \in Node /\ tree[k].parent = top.at
        /\ top.at \in 1..(k - 1) /\ check_valid_operator(tree[k].field)
        /\ tree[k].field.type \in IntegerType
    BY <1>1, OpenChildren
  <2> QED
    BY <1>3, <2>1
<1>5. tree[e].field \in ParsedField /\ tree[m].field \in ParsedField /\ Here.field.mandatory \in BOOLEAN
  BY <1>2, <1>4 DEF Node, ParsedField
<1>6. /\ first \in ParsedField /\ first.op = tree[e].field.op
      /\ LikeField([first EXCEPT !.mandatory = tree[e].field.mandatory], tree[e].field)
  BY <1>5 DEF ParsedField, LikeField
<1>7. LikeField([tree[m].field EXCEPT !.mandatory = tree[m].field.mandatory], tree[m].field)
  BY <1>5 DEF ParsedField, LikeField
<1>8. "exponent" \in Suffix /\ "mantissa" \in Suffix
  BY DEF Suffix
<1>9. tree' = u
  <2>1. e \in DOMAIN tree /\ m \in DOMAIN tree /\ e # m
    BY <1>2, <1>4
  <2>2. v[m] = tree[m]
    BY <1>2, <2>1
  <2> QED
    BY <1>1, <1>2, <2>1, <2>2
<1> HIDE DEF first
<1>10. Settles(DecimalChild(first, "exponent"), tree[e], Here, "exponent", templateID)
  BY <1>1, <1>3, <1>4, <1>6, <1>8, DecimalChildSettles
<1>11. Settles(DecimalChild(tree[m].field, "mantissa"), tree[m], Here, "mantissa", templateID)
  BY <1>1, <1>3, <1>4, <1>5, <1>7, <1>8, DecimalChildSettles
<1>12. StaysPart(newE, tree[e], Here, "exponent", FALSE, templateID)
  BY <1>10, SettledPartIntro
<1>13. StaysPart(newM, tree[m], Here, "mantissa", FALSE, templateID)
  BY <1>11, SettledPartIntro
<1>14. /\ e \in 1..Len(tree) /\ m \in 1..Len(tree) /\ e # 1 /\ m # 1 /\ e # m
       /\ top.at # e /\ top.at # m /\ top.at \in 1..Len(tree)
  BY <1>2, <1>4
<1> HIDE DEF newE, newM, u, v
<1>15. /\ newE \in Node /\ newE.parent = top.at /\ newE.x = tree[e].x
       /\ newE.field.type = tree[e].field.type /\ check_valid_operator(newE.field)
       /\ Part(newE, Here, "exponent", FALSE, templateID)
  BY <1>4, <1>12 DEF StaysPart
<1>16. /\ newM \in Node /\ newM.parent = top.at /\ newM.x = tree[m].x
       /\ newM.field.type = tree[m].field.type /\ check_valid_operator(newM.field)
       /\ Part(newM, Here, "mantissa", FALSE, templateID)
  BY <1>4, <1>13 DEF StaysPart
<1>17. /\ v \in Seq(Node) /\ Len(v) = Len(tree) /\ v[e] = newE
       /\ \A n \in 1..Len(tree) : n # e => v[n] = tree[n]
  BY <1>2, <1>14, <1>15, Updated DEF v
<1>18. /\ u \in Seq(Node) /\ Len(u) = Len(v) /\ u[m] = newM
       /\ \A n \in 1..Len(v) : n # m => u[n] = v[n]
  BY <1>14, <1>16, <1>17, Updated DEF u
<1>19. /\ Len(u) = Len(tree) /\ u[e] = newE /\ u[m] = newM /\ u[top.at] = Here
       /\ \A n \in 1..Len(tree) : n # e /\ n # m => u[n] = tree[n]
  BY <1>2, <1>14, <1>17, <1>18
<1>20. NodeOK(u, e, {}, templateID)
  <2>1. u[e].parent = top.at /\ top.at \in 1..(e - 1)
    BY <1>4, <1>15, <1>19
  <2>2. Part(u[e], Here, "exponent", e \in {}, templateID)
    BY <1>15, <1>19 DEF Part
  <2>3. Child(u[e], Here, e, e \in {}, templateID)
    BY <1>2, <1>3, <2>1, <2>2 DEF Child
  <2> QED
    BY <1>14, <1>19, <2>1, <2>3 DEF NodeOK
<1>21. NodeOK(u, m, {}, templateID)
  <2>1. u[m].parent = top.at /\ top.at \in 1..(m - 1)
    BY <1>4, <1>16, <1>19
  <2>2. Part(u[m], Here, "mantissa", m \in {}, templateID)
    BY <1>16, <1>19 DEF Part
  <2>3. Child(u[m], Here, m, m \in {}, templateID)
    BY <1>2, <1>3, <2>1, <2>2 DEF Child
  <2> QED
    BY <1>14, <1>19, <2>1, <2>3 DEF NodeOK
<1> HIDE DEF e, m
<1>22. Changes(u, {})
  <2> SUFFICES ASSUME NEW n \in 1..Len(tree)
               PROVE  \/ Same(u[n], tree[n]) /\ (n \in Open(tree, stack) <=> n \in {})
                      \/ /\ n # 1 /\ tree[n].parent = top.at /\ u[n].parent = top.at
                         /\ u[n].x = tree[n].x /\ u[n].field.type = tree[n].field.type
                         /\ u[n].field.type \in IntegerType
                         /\ NodeOK(u, n, {}, templateID)
    BY <1>18, <1>19 DEF Changes
  <2>1. CASE n = e
    BY <1>4, <1>14, <1>15, <1>19, <1>20, <2>1
  <2>2. CASE n = m
    BY <1>4, <1>14, <1>16, <1>19, <1>21, <2>2
  <2>3. CASE n # e /\ n # m
    BY <1>3, <1>19, <2>3, SameSelf
  <2> QED
    BY <2>1, <2>2, <2>3
<1>23. Valid(u, errors)
  <2>1. Valid(tree, errors)
    BY <1>2 DEF TreeOK
  <2> SUFFICES ASSUME NEW n \in 1..Len(tree)
               PROVE  \/ check_valid_operator(u[n].field)
                      \/ u[n].field.type = "Decimal" /\ 2 \in errors
    BY <1>19 DEF Valid
  <2>2. CASE n # e /\ n # m
    BY <1>19, <2>1, <2>2 DEF Valid
  <2> QED
    BY <1>15, <1>16, <1>19, <2>2
<1>24. errors \in SUBSET (1..5) /\ errors \subseteq errors
  BY DEF IInv, Typed
<1>25. Return \in Seq(Frame) /\ InTree(u, Return, templateID, errors)
  BY <1>1, <1>22, <1>23, <1>24, ChangeReturns
<1> QED
  BY <1>1, <1>9, <1>18, <1>24, <1>25 DEF Progress

--------------------------------------------------------------------------------
(* The steps outside a template, and those that end it.                    *)

LEMMA RootFacts ==
  ASSUME NEW x \in Element
  PROVE  LET root == Inherit(set_field_attributes(x, create_field("UInt32", "Copy"), x.id),
                             GLOBAL_DICTIONARY)
             node == [field |-> root, parent |-> 0, idx |-> 0, x |-> x,
                      around |-> << x.dictionary >>]
         IN  node \in Node /\ Root(node, x.id) /\ check_valid_operator(node.field)
<1> DEFINE c    == create_field("UInt32", "Copy")
           g    == set_field_attributes(x, c, x.id)
           root == Inherit(g, GLOBAL_DICTIONARY)
           node == [field |-> root, parent |-> 0, idx |-> 0, x |-> x,
                    around |-> << x.dictionary >>]
<1>1. /\ "UInt32" \in FieldTypeIdentifier /\ "Copy" \in FieldOperatorIdentifier
  BY DEF FieldTypeIdentifier, FieldOperatorIdentifier, ScalarType, IntegerType, UnsignedType
<1>2. c \in ParsedField /\ c.type = "UInt32" /\ c.op = "Copy" /\ c.dictionary = Absent
  BY <1>1, CreateType
<1> HIDE DEF c
<1>3. x.id \in Int /\ x.dictionary \in AnyDictionary /\ GLOBAL_DICTIONARY \in AnyDictionary
  BY ElementAssumption DEF AnyDictionary
<1>4. /\ g \in ParsedField /\ g.type = "UInt32" /\ g.op = "Copy" /\ g.tid = x.id
      /\ g.dictionary = IF x.dictionary # Absent THEN x.dictionary ELSE Absent
  BY <1>2, <1>3, AttributesResult
<1> HIDE DEF g
<1>5. /\ root \in ParsedField /\ root.type = "UInt32" /\ root.op = "Copy" /\ root.tid = x.id
      /\ root.dictionary = IF g.dictionary = Absent THEN GLOBAL_DICTIONARY ELSE g.dictionary
  BY <1>3, <1>4, InheritResult
<1> HIDE DEF root
<1>6. << x.dictionary >> \in Seq(AnyDictionary)
  BY <1>3
<1>7. /\ node \in Node /\ node.field = root /\ node.parent = 0 /\ node.idx = 0 /\ node.x = x
      /\ node.around = << x.dictionary >>
  BY <1>5, <1>6 DEF Node
<1>8. root.dictionary = NearestDictionary(<< x.dictionary >>)
  BY <1>3, <1>4, <1>5, NearestOne
<1>9. check_valid_operator(root)
  BY <1>5 DEF check_valid_operator
<1> HIDE DEF node
<1>10. Root(node, x.id)
  BY <1>5, <1>7, <1>8 DEF Root, Settled
<1> QED
  BY <1>7, <1>9, <1>10 DEF node, root, g, c

(* A template that is begun. *)
LEMMA RootTree ==
  ASSUME NEW node \in Node, NEW id, Root(node, id), check_valid_operator(node.field), NEW errs
  PROVE  /\ << node >> \in Seq(Node) /\ << Activation("walk", 1) >> \in Seq(Frame)
         /\ InTree(<< node >>, << Activation("walk", 1) >>, id, errs)
<1> DEFINE t == << node >>
           f == Activation("walk", 1)
           s == << f >>
<1>1. t \in Seq(Node) /\ Len(t) = 1 /\ t[1] = node /\ t # << >> /\ \A n \in 1..Len(t) : n = 1
  OBVIOUS
<1>2. f \in Frame /\ f.fn = "walk" /\ f.at = 1 /\ f.i = 1
  BY DEF Activation, Frame
<1>3. node.x.children \in Seq(Element) /\ Len(node.x.children) \in Nat
  BY ElementAssumption DEF Node
<1> HIDE DEF f
<1>4. s \in Seq(Frame) /\ Len(s) = 1 /\ s[1] = f /\ s # << >> /\ \A k \in 1..Len(s) : k = 1
  BY <1>2
<1>5. \A n \in 2..Len(t) : FALSE
  BY <1>1
<1> HIDE DEF t, s
<1>6. Open(t, s) = {}
  BY <1>2, <1>4 DEF Open
<1>7. Nodes(t, {}, id)
  BY <1>1 DEF Nodes, NodeOK
<1>8. Valid(t, errs)
  BY <1>1 DEF Valid
<1>9. Groups(t)
  BY <1>1 DEF Groups, Root
<1>10. Lengths(t) /\ Ordered(t)
  BY <1>5 DEF Lengths, Ordered
<1>11. FrameOK(t, s, 1)
  <2>1. Walks(t, s[1])
    BY <1>1, <1>2, <1>4, <1>5 DEF Walks, Walked, Root
  <2>2. s[1].at \in 1..Len(t) /\ s[1].i \in 1..(Len(t[s[1].at].x.children) + 1)
    BY <1>1, <1>2, <1>3, <1>4
  <2>3. \A j \in 1..(1 - 1) : FALSE
    OBVIOUS
  <2> QED
    BY <1>2, <1>4, <2>1, <2>2, <2>3 DEF FrameOK
<1>12. Frames(t, s)
  BY <1>1, <1>4, <1>11 DEF Frames
<1>13. Reported(t, s, errs)
  <2>1. Found(t, 1, 1)
    <3>1. \A j \in DOMAIN t[1].x.children : ~(j < 1)
      BY <1>1, <1>3
    <3> QED
      BY <3>1 DEF Found
  <2>2. \A n \in 1..Len(t) : 1 \in 1..Len(s) /\ s[1].at = n /\ s[1].fn = "walk"
                             /\ Found(t, n, s[1].i)
    BY <1>1, <1>2, <1>4, <2>1
  <2> QED
    BY <2>2 DEF Reported
<1> QED
  BY <1>1, <1>4, <1>6, <1>7, <1>8, <1>9, <1>10, <1>12, <1>13 DEF InTree, TreeOK, t, s, f

LEMMA NoTree ==
  ASSUME NEW id, NEW errs
  PROVE  InTree(<< >>, << >>, id, errs)
<1>1. \A n \in 1..Len(<< >>) : FALSE
  OBVIOUS
<1>2. \A n \in 2..Len(<< >>) : FALSE
  OBVIOUS
<1>3. TreeOK(<< >>, Open(<< >>, << >>), id, errs)
  BY <1>1, <1>2 DEF TreeOK, Nodes, Valid, Groups, Lengths, Ordered
<1>4. Frames(<< >>, << >>) /\ Reported(<< >>, << >>, errs)
  BY <1>1 DEF Frames, Reported
<1> QED
  BY <1>3, <1>4 DEF InTree

LEMMA ParseTemplateStep ==
  ASSUME IInv, parse_template
  PROVE  IInv'
<1> DEFINE x    == Head(cur)
           root == Inherit(set_field_attributes(x, create_field("UInt32", "Copy"), x.id),
                           GLOBAL_DICTIONARY)
           node == [field |-> root, parent |-> 0, idx |-> 0, x |-> x,
                    around |-> << x.dictionary >>]
<1>1. /\ cur # << >> /\ tree' = << node >> /\ errors' = errors \cup PresenceErrors(x)
      /\ templateID' = x.id /\ stack' = << Activation("walk", 1) >> /\ cur' = Tail(cur)
      /\ UNCHANGED <<file, templates, table>>
  BY DEF parse_template
<1>2. cur \in Seq(Element) /\ x \in Element /\ Tail(cur) \in Seq(Element) /\ x.id \in Int
  <2>1. cur \in Seq(Element)
    BY DEF IInv, Typed
  <2> QED
    BY <1>1, <2>1, ElementAssumption
<1> HIDE DEF x
<1>3. node \in Node /\ Root(node, x.id) /\ check_valid_operator(node.field)
  BY <1>2, RootFacts
<1> HIDE DEF node
<1>4. errors' \in SUBSET (1..5) /\ errors \subseteq errors'
  BY <1>1, ErrorsLogged
<1>5. /\ tree' \in Seq(Node) /\ stack' \in Seq(Frame)
      /\ InTree(tree', stack', templateID', errors')
  BY <1>1, <1>3, RootTree
<1>6. \A k \in 1..Len(templates') : Parsed(templates'[k], errors')
  BY <1>1, <1>4, ErrorsGrow DEF IInv
<1>7. Typed'
  BY <1>1, <1>2, <1>4, <1>5 DEF IInv, Typed
<1> QED
  BY <1>5, <1>6, <1>7 DEF IInv

(* The template is complete once its own walk is over. *)
LEMMA TemplateReturnsStep ==
  ASSUME IInv, TemplateReturns
  PROVE  IInv'
<1>1. /\ stack # << >> /\ top.fn = "walk" /\ top.i > Len(Here.x.children) /\ Here.parent = 0
      /\ templates' = Append(templates, tree) /\ stack' = << >> /\ tree' = << >>
      /\ UNCHANGED <<file, cur, templateID, errors, table>>
  BY DEF TemplateReturns, AtEnd
<1>2. /\ tree \in Seq(Node) /\ templates \in Seq(Seq(Node)) /\ Len(stack) \in Nat \ {0}
      /\ errors \in SUBSET (1..5) /\ Typed
  BY <1>1, WalkFacts DEF IInv, Typed
<1>3. /\ top.at \in 1..Len(tree) /\ Open(tree, stack) = {}
      /\ top.i \in 1..(Len(Here.x.children) + 1) /\ Here.x \in Element /\ Here = tree[top.at]
  BY <1>1, WalkFacts DEF Here
<1>4. /\ TreeOK(tree, {}, templateID, errors) /\ Frames(tree, stack)
      /\ Reported(tree, stack, errors)
  BY <1>3 DEF IInv, InTree
<1>5. top.at = 1
  <2>1. NodeOK(tree, top.at, {}, templateID)
    BY <1>3, <1>4 DEF TreeOK, Nodes
  <2> QED
    BY <1>1, <1>3, <2>1 DEF NodeOK
<1>6. Len(stack) = 1
  <2>1. 1 \in 1..Len(stack)
    BY <1>2
  <2>2. FrameOK(tree, stack, 1)
    BY <1>4, <2>1 DEF Frames
  <2> QED
    BY <1>5, <2>2 DEF FrameOK, top
<1>7. tree[1].x.id = templateID /\ tree # << >>
  <2>1. NodeOK(tree, 1, {}, templateID)
    BY <1>3, <1>4, <1>5 DEF TreeOK, Nodes
  <2>2. tree # << >>
    BY <1>1, <1>4 DEF Frames
  <2> QED
    BY <2>1, <2>2 DEF NodeOK, Root
<1>8. ASSUME errors \subseteq {3, 4, 5}
      PROVE  AllFound(tree)
  <2> SUFFICES ASSUME NEW n \in 1..Len(tree), Walked(tree[n])
               PROVE  Found(tree, n, Len(tree[n].x.children) + 1)
    BY DEF AllFound
  <2>1. \/ \E k \in 1..Len(stack) : stack[k].at = n /\ stack[k].fn = "walk"
                                     /\ Found(tree, n, stack[k].i)
        \/ Found(tree, n, Len(tree[n].x.children) + 1)
    BY <1>4, <1>8 DEF Reported
  <2>2. ASSUME NEW k \in 1..Len(stack), stack[k].at = n, Found(tree, n, stack[k].i)
        PROVE  Found(tree, n, Len(tree[n].x.children) + 1)
    <3>1. k = 1
      BY <1>6
    <3>2. stack[k] = top
      BY <3>1 DEF top
    <3>3. n = 1 /\ n = top.at /\ tree[n] = Here
      BY <1>3, <1>5, <2>2, <3>2
    <3>4. Len(Here.x.children) \in Nat
      <4>1. Here.x.children \in Seq(Element)
        BY <1>3, ElementAssumption
      <4> QED
        BY <4>1
    <3>5. top.i = Len(Here.x.children) + 1
      <4> DEFINE i    == top.i
                 last == Len(Here.x.children)
      <4>1. i > last /\ i \in 1..(last + 1) /\ last \in Nat
        BY <1>1, <1>3, <3>4
      <4> HIDE DEF i, last
      <4>2. i = last + 1
        BY <4>1
      <4> QED
        BY <4>2 DEF i, last
    <3>6. Found(tree, n, top.i)
      BY <2>2, <3>2
    <3> QED
      BY <3>3, <3>5, <3>6
  <2> QED
    BY <2>1, <2>2
<1>9. Parsed(tree, errors)
  BY <1>4, <1>7, <1>8 DEF Parsed
<1>10. \A k \in 1..Len(templates') : Parsed(templates'[k], errors')
  <2> SUFFICES ASSUME NEW k \in 1..Len(templates')
               PROVE  Parsed(templates'[k], errors)
    BY <1>1
  <2>1. /\ Len(templates') = Len(templates) + 1 /\ Len(templates) \in Nat
        /\ templates'[Len(templates) + 1] = tree
        /\ \A j \in 1..Len(templates) : templates'[j] = templates[j]
    <3>1. Len(templates) \in Nat
      BY <1>2
    <3> QED
      BY <1>1, <1>2, <3>1, AppendProperties
  <2>2. k \in 1..Len(templates) \/ k = Len(templates) + 1
    BY <2>1
  <2> QED
    BY <1>9, <2>1, <2>2 DEF IInv
<1>11. Typed'
  <2>1. Append(templates, tree) \in Seq(Seq(Node))
    BY <1>2, AppendProperties
  <2>2. << >> \in Seq(Node) /\ << >> \in Seq(Frame)
    OBVIOUS
  <2> QED
    BY <1>1, <1>2, <2>1, <2>2 DEF Typed
<1>12. InTree(tree', stack', templateID', errors')
  BY <1>1, NoTree
<1> QED
  BY <1>10, <1>11, <1>12 DEF IInv

LEMMA SkipElementStep ==
  ASSUME IInv, SkipElement
  PROVE  IInv'
<1>1. /\ cur # << >> /\ stack = << >> /\ cur' = Tail(cur)
      /\ UNCHANGED <<file, templateID, stack, tree, templates, table>>
      /\ errors' = errors \/ errors' = errors \cup {1}
  BY DEF SkipElement
<1>2. errors' \in SUBSET (1..5) /\ errors \subseteq errors' /\ Typed
  <2>1. errors \in SUBSET (1..5) /\ Typed
    BY DEF IInv, Typed
  <2>2. errors \cup {1} \in SUBSET (1..5)
    BY <2>1
  <2> QED
    BY <1>1, <2>1, <2>2
<1>3. Typed'
  <2>1. cur \in Seq(Element) /\ Tail(cur) \in Seq(Element)
    <3>1. cur \in Seq(Element)
      BY DEF IInv, Typed
    <3> QED
      BY <1>1, <3>1
  <2> QED
    BY <1>1, <1>2, <2>1 DEF Typed
<1>4. \A k \in 1..Len(templates') : Parsed(templates'[k], errors')
  BY <1>1, <1>2, ErrorsGrow DEF IInv
<1>5. tree = << >>
  BY <1>1 DEF IInv, InTree, Frames
<1>6. InTree(tree', stack', templateID', errors')
  BY <1>1, <1>5, NoTree
<1> QED
  BY <1>3, <1>4, <1>6 DEF IInv

LEMMA ProgressSafe ==
  ASSUME IInv, Progress
  PROVE  IInv'
<1>1. /\ stack' \in Seq(Frame) /\ tree' \in Seq(Node) /\ errors' \in SUBSET (1..5)
      /\ errors \subseteq errors' /\ UNCHANGED <<file, cur, templateID, templates, table>>
      /\ InTree(tree', stack', templateID, errors')
  BY DEF Progress, unchanged_file
<1>2. Typed'
  BY <1>1 DEF IInv, Typed
<1>3. \A k \in 1..Len(templates') : Parsed(templates'[k], errors')
  BY <1>1, ErrorsGrow DEF IInv
<1> QED
  BY <1>1, <1>2, <1>3 DEF IInv

(* What the parser keeps to in every state, whatever the template file. *)
THEOREM Invariance == Spec => []IInv
<1>1. Init => IInv
  <2> SUFFICES ASSUME Init PROVE IInv
    OBVIOUS
  <2>1. /\ file \in Seq(Element) /\ cur = file /\ templateID = -1 /\ stack = << >>
        /\ tree = << >> /\ templates = << >> /\ errors = {}
    BY DocumentAssumption DEF Init
  <2>2. Typed
    BY <2>1 DEF Typed
  <2>3. InTree(tree, stack, templateID, errors)
    BY <2>1, NoTree
  <2>4. \A k \in 1..Len(templates) : FALSE
    BY <2>1
  <2> QED
    BY <2>2, <2>3, <2>4 DEF IInv
<1>2. IInv /\ [Next]_vars => IInv'
  <2> SUFFICES ASSUME IInv, [Next]_vars PROVE IInv'
    OBVIOUS
  <2>1. CASE UNCHANGED vars
    BY <2>1 DEF vars, IInv, Typed
  <2>2. CASE create_templates_table
    BY <2>2 DEF create_templates_table, IInv, Typed
  <2>3. CASE Done
    BY <2>1, <2>3 DEF Done, vars, IInv, Typed
  <2>4. CASE parse_template \/ TemplateReturns \/ SkipElement
    BY <2>4, ParseTemplateStep, TemplateReturnsStep, SkipElementStep
  <2>5. CASE \/ Ignore \/ UnknownField \/ RefuseField \/ PlainField \/ SizedField
             \/ DecimalField \/ GroupField \/ SequenceField \/ WalkReturns
             \/ DecimalPart \/ DecimalOperator \/ DecimalReturns \/ LengthPart \/ LengthReturns
    <3>1. Progress
      BY <2>5, IgnoreStep, UnknownFieldStep, RefuseFieldStep, PlainFieldStep, SizedFieldStep,
         DecimalFieldStep, GroupFieldStep, SequenceFieldStep, WalkReturnsStep, DecimalPartStep,
         DecimalOperatorStep, DecimalReturnsStep, LengthPartStep, LengthReturnsStep
    <3> QED
      BY <3>1, ProgressSafe
  <2> QED
    BY <2>1, <2>2, <2>3, <2>4, <2>5 DEF Next
<1> QED
  BY <1>1, <1>2, PTL DEF Spec

--------------------------------------------------------------------------------
(* The templates that were parsed.                                         *)

LEMMA ChildFacts ==
  ASSUME NEW t \in Seq(Node), NEW id, NEW errs, TreeOK(t, {}, id, errs), NEW n \in 2..Len(t)
  PROVE  /\ n \in 1..Len(t) /\ t[n] \in Node
         /\ t[n].parent \in 1..(n - 1) /\ t[n].parent \in 1..Len(t)
         /\ Child(t[n], t[t[n].parent], n, FALSE, id)
<1>1. n \in 1..Len(t) /\ n # 1 /\ Len(t) \in Nat
  OBVIOUS
<1>2. NodeOK(t, n, {}, id)
  BY <1>1 DEF TreeOK, Nodes
<1>3. t[n].parent \in 1..(n - 1) /\ Child(t[n], t[t[n].parent], n, n \in {}, id)
  BY <1>1, <1>2 DEF NodeOK
<1>4. (n \in {}) = FALSE
  OBVIOUS
<1>5. t[n].parent \in 1..Len(t)
  BY <1>1, <1>3
<1>6. Child(t[n], t[t[n].parent], n, FALSE, id)
  BY <1>3, <1>4
<1>7. t[n] \in Node
  BY <1>1
<1> QED
  BY <1>1, <1>3, <1>5, <1>6, <1>7

LEMMA TemplateFacts ==
  ASSUME IInv, NEW k \in DOMAIN templates
  PROVE  LET t  == templates[k]
             id == t[1].x.id
         IN  /\ t \in Seq(Node) /\ Len(t) \in Nat \ {0} /\ DOMAIN t = 1..Len(t)
             /\ TreeOK(t, {}, id, errors) /\ Root(t[1], id)
             /\ errors \subseteq {3, 4, 5} => AllFound(t)
<1> DEFINE t  == templates[k]
           id == t[1].x.id
<1>1. templates \in Seq(Seq(Node)) /\ k \in 1..Len(templates) /\ t \in Seq(Node)
  BY DEF IInv, Typed
<1>2. Parsed(t, errors)
  BY <1>1 DEF IInv
<1> HIDE DEF t
<1>3. /\ t # << >> /\ TreeOK(t, {}, id, errors)
      /\ errors \subseteq {3, 4, 5} => AllFound(t)
  BY <1>2 DEF Parsed
<1>4. Len(t) \in Nat \ {0} /\ DOMAIN t = 1..Len(t) /\ 1 \in 1..Len(t)
  BY <1>1, <1>3
<1>5. NodeOK(t, 1, {}, id)
  BY <1>3, <1>4 DEF TreeOK, Nodes
<1> QED
  BY <1>1, <1>3, <1>4, <1>5 DEF NodeOK, t

(* Which of its parent's children a part is.                               *)
Place(n, p, type, suffix) ==
  \/ type = "Decimal" /\ n = p + 1 /\ suffix = "exponent"
  \/ type = "Decimal" /\ n = p + 2 /\ suffix = "mantissa"
  \/ type \in SizedType /\ n = p + 1 /\ suffix = "length"
  \/ type = "Sequence" /\ n > p + 1 /\ suffix = "length"

LEMMA ChildKinds ==
  ASSUME NEW node, NEW parent, NEW n, NEW id, Child(node, parent, n, FALSE, id),
         node.field.type # "Group"
  PROVE  \/ Takes(parent) /\ Own(node, parent, id)
         \/ ~Takes(parent) /\ \E suffix : /\ Place(n, node.parent, parent.field.type, suffix)
                                          /\ SettledPart(node, parent, suffix, id)
<1>1. ASSUME NEW suffix
      PROVE  Part(node, parent, suffix, FALSE, id) => SettledPart(node, parent, suffix, id)
  BY DEF Part
<1>2. ~Inner(node, parent)
  BY DEF Inner
<1> QED
  BY <1>1, <1>2 DEF Child, Place

LEMMA KeyedSettled ==
  ASSUME IInv, NEW k \in DOMAIN templates, NEW n \in Keyed(templates[k])
  PROVE  Settled(templates[k][n], templates[k][1].x.id)
<1> DEFINE t  == templates[k]
           id == t[1].x.id
<1>1. t \in Seq(Node) /\ TreeOK(t, {}, id, errors)
  BY TemplateFacts
<1>2. n \in 2..Len(t) /\ t[n].field.type # "Group"
  BY DEF Keyed
<1> HIDE DEF t
<1>3. Child(t[n], t[t[n].parent], n, FALSE, id)
  BY <1>1, <1>2, ChildFacts
<1>4. Settled(t[n], id)
  BY <1>2, <1>3, ChildKinds DEF Own, SettledPart
<1> QED
  BY <1>4 DEF t

(* A field with a previous value carries the id of the template it is in,  *)
(* however many templates the file has and however deep they nest.         *)
THEOREM TemplateIdIsOwn == Spec => []OwnTemplateId
<1>1. IInv => OwnTemplateId
  BY KeyedSettled DEF OwnTemplateId, Settled
<1> QED
  BY <1>1, Invariance, PTL

(* A field lives in the dictionary of the innermost element around it that *)
(* names one, whatever the nesting, lengths and decimal parts included.    *)
THEOREM Dictionaries == Spec => []DictionaryIsNearest
<1>1. IInv => DictionaryIsNearest
  BY KeyedSettled DEF DictionaryIsNearest, Settled
<1> QED
  BY <1>1, Invariance, PTL

(* No field of a parsed template has an operator that its type does not    *)
(* allow, but a decimal whose refusal was reported.                        *)
THEOREM Operators == Spec => []OperatorsValid
<1>1. ASSUME IInv, NEW k \in DOMAIN templates, NEW n \in DOMAIN templates[k]
      PROVE  \/ check_valid_operator(templates[k][n].field)
             \/ templates[k][n].field.type = "Decimal" /\ 2 \in errors
  <2>1. /\ DOMAIN templates[k] = 1..Len(templates[k])
        /\ TreeOK(templates[k], {}, templates[k][1].x.id, errors)
    BY <1>1, TemplateFacts
  <2> QED
    BY <1>1, <2>1 DEF TreeOK, Valid
<1>2. IInv => OperatorsValid
  BY <1>1 DEF OperatorsValid
<1> QED
  BY <1>2, Invariance, PTL

--------------------------------------------------------------------------------
(* What is parsed and what is left out.                                    *)

LEMMA WalkedCorresponds ==
  ASSUME NEW t \in Seq(Node), NEW id, NEW errs, TreeOK(t, {}, id, errs), AllFound(t),
         NEW n \in 1..Len(t), Walked(t[n]), DOMAIN t = 1..Len(t), t[1].parent = 0
  PROVE  Corresponds(t[n].x, t, BelowIn(t, n))
<1> DEFINE p == BelowIn(t, n)
           below == {m \in DOMAIN t : t[m].parent = p}
<1>1. p \in 1..Len(t) /\ Takes(t[p]) /\ t[p].x = t[n].x
  BY WalkedTakes
<1> HIDE DEF p
<1>2. \A m \in below : m \in 2..Len(t) /\ t[m].parent = p
  <2> SUFFICES ASSUME NEW m \in 1..Len(t), t[m].parent = p
               PROVE  m \in 2..Len(t)
    OBVIOUS
  <2>1. m # 1
    BY <1>1
  <2> QED
    BY <2>1
<1>3. ASSUME NEW m \in 2..Len(t), t[m].parent = p
      PROVE  m \in below /\ Own(t[m], t[p], id)
  <2>1. m \in 1..Len(t) /\ Child(t[m], t[t[m].parent], m, FALSE, id)
    BY ChildFacts
  <2> QED
    BY <1>1, <1>3, <2>1 DEF Child
<1>4. ASSUME NEW i \in DOMAIN t[n].x.children, ~ignore_xml_node(t[n].x.children[i])
      PROVE  \E m \in below :
               /\ t[m].idx = i /\ t[m].x = t[n].x.children[i]
               /\ t[m].field.type = TypeOfTag(t[n].x.children[i].tag)
  <2>1. Found(t, n, Len(t[n].x.children) + 1)
    BY DEF AllFound
  <2>2. i < Len(t[n].x.children) + 1
    <3>1. t[n].x.children \in Seq(Element)
      BY NodeParts
    <3> HIDE DEF below
    <3> QED
      BY <1>4, <3>1
  <2>3. PICK m \in 2..Len(t) : t[m].parent = p /\ t[m].idx = i
    BY <1>4, <2>1, <2>2 DEF Found, p
  <2>4. m \in below /\ Own(t[m], t[p], id)
    BY <1>3, <2>3
  <2>5. t[m].x = t[n].x.children[i] /\ t[m].field.type = TypeOfTag(t[m].x.tag)
    BY <1>1, <2>3, <2>4 DEF Own
  <2> QED
    BY <2>3, <2>4, <2>5
<1>5. ASSUME NEW l \in below, NEW m \in below, l < m
      PROVE  t[l].idx < t[m].idx
  <2>1. Ordered(t)
    BY DEF TreeOK
  <2>2. l \in 2..Len(t) /\ m \in 2..Len(t) /\ t[l].parent = p /\ t[m].parent = p
    BY <1>2
  <2> QED
    BY <1>1, <1>5, <2>1, <2>2 DEF Ordered
<1> HIDE DEF below
<1>6. Corresponds(t[n].x, t, p)
  BY <1>4, <1>5 DEF Corresponds, below
<1> QED
  BY <1>6 DEF p

(* Unless an error was reported, every element of a template that is not   *)
(* ignored has its node, of its own type and in its place.                 *)
THEOREM NothingDropped == Spec => []NeverDroppedSilently
<1>1. ASSUME IInv, errors \subseteq {3, 4, 5}, NEW k \in DOMAIN templates
      PROVE  LET t == templates[k]
             IN  /\ Corresponds(t[1].x, t, 1)
                 /\ \A n \in 2..Len(t) :
                      /\ t[n].field.type = "Sequence" => Corresponds(t[n].x, t, n + 1)
                      /\ t[n].field.type = "Group" /\ t[n].idx # 0 => Corresponds(t[n].x, t, n)
  <2> DEFINE t  == templates[k]
             id == t[1].x.id
  <2>1. /\ t \in Seq(Node) /\ Len(t) \in Nat \ {0} /\ DOMAIN t = 1..Len(t)
        /\ TreeOK(t, {}, id, errors) /\ Root(t[1], id) /\ AllFound(t)
    BY <1>1, TemplateFacts
  <2> HIDE DEF t
  <2>2. \A n \in 1..Len(t) : Walked(t[n]) => Corresponds(t[n].x, t, BelowIn(t, n))
    <3>1. t[1].parent = 0
      BY <2>1 DEF Root
    <3> QED
      BY <2>1, <3>1, WalkedCorresponds
  <2>3. Corresponds(t[1].x, t, 1)
    <3>1. 1 \in 1..Len(t) /\ Walked(t[1]) /\ BelowIn(t, 1) = 1
      BY <2>1 DEF Root, Walked, BelowIn
    <3>2. Corresponds(t[1].x, t, BelowIn(t, 1))
      BY <2>2, <3>1
    <3> QED
      BY <3>1, <3>2
  <2>4. ASSUME NEW n \in 2..Len(t)
        PROVE  /\ t[n].field.type = "Sequence" => Corresponds(t[n].x, t, n + 1)
               /\ t[n].field.type = "Group" /\ t[n].idx # 0 => Corresponds(t[n].x, t, n)
    <3>1. n \in 1..Len(t)
      BY <2>1
    <3>2. Walked(t[n]) => Corresponds(t[n].x, t, BelowIn(t, n))
      BY <2>2, <3>1
    <3> QED
      BY <3>2 DEF Walked, BelowIn
  <2> QED
    BY <2>3, <2>4 DEF t
<1>2. IInv => NeverDroppedSilently
  BY <1>1 DEF NeverDroppedSilently
<1> QED
  BY <1>2, Invariance, PTL

--------------------------------------------------------------------------------
(* Keys.                                                                   *)

(* The key of a field is its element's, or that of the element that        *)
(* describes it, or is derived from its parent's element.                  *)
KeyOwn(t, n) ==
  LET parent == t[t[n].parent]
  IN  /\ Takes(parent) /\ t[n].idx # 0
      /\ GivenBy(t[n].field.key, parent.x.children[t[n].idx])

KeyNamed(t, n, suffix) ==
  LET parent == t[t[n].parent]
  IN  /\ ~Takes(parent) /\ Place(n, t[n].parent, parent.field.type, suffix) /\ t[n].idx # 0
      /\ parent.x.children[t[n].idx].tag = suffix
      /\ GivenBy(t[n].field.key, parent.x.children[t[n].idx])

KeyDerived(t, n, suffix) ==
  LET parent == t[t[n].parent]
  IN  /\ ~Takes(parent) /\ Place(n, t[n].parent, parent.field.type, suffix) /\ t[n].idx = 0
      /\ DerivedFrom(t[n].field.key, parent.x, suffix)

LEMMA KeyKinds ==
  ASSUME NEW t \in Seq(Node), NEW id, NEW errs, TreeOK(t, {}, id, errs),
         NEW n \in 2..Len(t), t[n].field.type # "Group", t[n].field.key # NoKey
  PROVE  KeyOwn(t, n) \/ \E suffix : KeyNamed(t, n, suffix) \/ KeyDerived(t, n, suffix)
<1> DEFINE node   == t[n]
           parent == t[t[n].parent]
<1>1. /\ node \in Node /\ t[n].parent \in 1..Len(t)
      /\ Child(node, parent, n, FALSE, id)
  BY ChildFacts
<1>2. parent.x.children \in Seq(Element)
  BY <1>1, NodeParts
<1>3. node.idx \in DOMAIN parent.x.children => node.idx # 0
  BY <1>2
<1>5. node.field.type # "Group" /\ node.field.key # NoKey /\ node.parent = t[n].parent
  OBVIOUS
<1> HIDE DEF node, parent
<1>6. CASE Takes(parent) /\ Own(node, parent, id)
  <2>1. /\ node.idx # 0 /\ GivenBy(node.field.key, parent.x.children[node.idx])
    BY <1>3, <1>5, <1>6 DEF Own
  <2>2. KeyOwn(t, n)
    BY <1>6, <2>1 DEF KeyOwn, node, parent
  <2> QED
    BY <2>2
<1>7. ASSUME ~Takes(parent), NEW suffix, Place(n, node.parent, parent.field.type, suffix),
             SettledPart(node, parent, suffix, id)
      PROVE  KeyNamed(t, n, suffix) \/ KeyDerived(t, n, suffix)
  <2>1. CASE node.idx = 0
    <3>1. DerivedFrom(node.field.key, parent.x, suffix)
      BY <1>5, <1>7, <2>1 DEF SettledPart
    <3>2. KeyDerived(t, n, suffix)
      BY <1>7, <2>1, <3>1 DEF KeyDerived, node, parent
    <3> QED
      BY <3>2
  <2>2. CASE node.idx # 0
    <3>1. /\ parent.x.children[node.idx].tag = suffix
          /\ GivenBy(node.field.key, parent.x.children[node.idx])
      BY <1>7, <2>2 DEF SettledPart, Named
    <3>2. KeyNamed(t, n, suffix)
      BY <1>7, <2>2, <3>1 DEF KeyNamed, node, parent
    <3> QED
      BY <3>2
  <2> QED
    BY <2>1, <2>2
<1>8. \/ Takes(parent) /\ Own(node, parent, id)
      \/ ~Takes(parent) /\ \E suffix : /\ Place(n, node.parent, parent.field.type, suffix)
                                       /\ SettledPart(node, parent, suffix, id)
  BY <1>1, <1>5, ChildKinds
<1> QED
  BY <1>6, <1>7, <1>8

(* A node has one part of a kind. *)
LEMMA OnePart ==
  ASSUME NEW t \in Seq(Node), NEW id, NEW errs, TreeOK(t, {}, id, errs),
         NEW n \in 2..Len(t), NEW m \in 2..Len(t), n < m, t[n].parent = t[m].parent,
         NEW suffix, Place(n, t[n].parent, t[t[n].parent].field.type, suffix),
         Place(m, t[m].parent, t[t[m].parent].field.type, suffix)
  PROVE  FALSE
<1> DEFINE p    == t[n].parent
           type == t[p].field.type
<1>1. p \in Int /\ n \in Int /\ m \in Int
  <2>1. p \in 1..(n - 1)
    BY ChildFacts
  <2> QED
    BY <2>1
<1>2. Place(n, p, type, suffix) /\ Place(m, p, type, suffix)
  OBVIOUS
<1>3. Lengths(t)
  BY DEF TreeOK
<1>4. type = "Sequence" => n = p + 1
  BY <1>3 DEF Lengths
<1> HIDE DEF p, type
<1>5. CASE suffix = "length"
  BY <1>1, <1>2, <1>4, <1>5 DEF Place, SizedType
<1>6. CASE suffix = "exponent"
  BY <1>1, <1>2, <1>6 DEF Place
<1>7. CASE suffix = "mantissa"
  BY <1>1, <1>2, <1>7 DEF Place
<1> QED
  BY <1>2, <1>5, <1>6, <1>7 DEF Place

(* The parent of a part has an element of its own, in its own place.       *)
LEMMA PartOfOwn ==
  ASSUME NEW t \in Seq(Node), NEW id, NEW errs, TreeOK(t, {}, id, errs),
         NEW n \in 2..Len(t), NEW suffix, ~Takes(t[t[n].parent]),
         Place(n, t[n].parent, t[t[n].parent].field.type, suffix), t[1].parent = 0
  PROVE  t[n].parent \in 2..Len(t) /\ Takes(t[t[t[n].parent].parent])
<1> DEFINE p == t[n].parent
<1>1. p \in 1..Len(t)
  BY ChildFacts
<1>2. t[p].field.type \in {"Decimal", "Sequence"} \cup SizedType
  BY DEF Place
<1>3. p # 1
  BY DEF Takes
<1> HIDE DEF p
<1>4. p \in 2..Len(t)
  BY <1>1, <1>3
<1>5. Child(t[p], t[t[p].parent], p, FALSE, id)
  BY <1>4, ChildFacts
<1>6. ASSUME NEW tag
      PROVE  ~Part(t[p], t[t[p].parent], tag, FALSE, id)
  BY <1>2 DEF Part, SizedType, IntegerType, UnsignedType, SignedType
<1>7. ~Inner(t[p], t[t[p].parent])
  BY <1>2 DEF Inner, SizedType
<1>8. Takes(t[t[p].parent])
  BY <1>5, <1>6, <1>7 DEF Child
<1> QED
  BY <1>4, <1>8 DEF p

(* A part's key is derived for what the part is. *)
LEMMA SuffixOfKey ==
  ASSUME NEW t \in Seq(Node), NEW n \in 2..Len(t), NEW m \in 2..Len(t),
         t[n].parent \in 1..Len(t), t[m].parent \in 1..Len(t),
         NEW a, KeyDerived(t, n, a), NEW b, KeyDerived(t, m, b),
         t[m].field.key = t[n].field.key, t[n].field.key[1] # PrintedNull
  PROVE  a = b
<1> DEFINE x == t[t[n].parent].x
           y == t[t[m].parent].x
<1>1. x \in Element /\ y \in Element
  BY NodeParts
<1>2. a \in Key \cup Suffix \cup {PrintedNull} /\ b \in Key \cup Suffix \cup {PrintedNull}
  BY DEF KeyDerived, Place, Suffix
<1>3. DerivedFrom(t[n].field.key, x, a) /\ DerivedFrom(t[m].field.key, y, b)
  BY DEF KeyDerived
<1> HIDE DEF x, y
<1>4. PICK r \in {x.key, x.name} \ {Absent} : t[n].field.key = Append(r, a)
  BY <1>3 DEF DerivedFrom
<1>5. PICK s \in {y.key, y.name} \ {Absent} : t[m].field.key = Append(s, b)
  BY <1>3 DEF DerivedFrom
<1>6. r \in Text /\ s \in Text
  BY <1>1, <1>4, <1>5, ElementAssumption
<1> QED
  BY <1>2, <1>4, <1>5, <1>6, AppendLast DEF Text

LEMMA KeysApart ==
  ASSUME NEW t \in Seq(Node), NEW id, NEW errs, TreeOK(t, {}, id, errs), t[1].parent = 0,
         NEW n \in Keyed(t), NEW m \in Keyed(t), n < m, t[m].field.key = t[n].field.key,
         t[n].field.key[1] # PrintedNull, t[n].idx = 0 <=> t[m].idx = 0
  PROVE  KeyedBy(t, n) # KeyedBy(t, m)
<1>1. /\ n \in 2..Len(t) /\ t[n].field.type # "Group" /\ t[n].field.key # NoKey
      /\ m \in 2..Len(t) /\ t[m].field.type # "Group" /\ t[m].field.key # NoKey
  BY DEF Keyed
<1>2. KeyOwn(t, n) \/ \E suffix : KeyNamed(t, n, suffix) \/ KeyDerived(t, n, suffix)
  BY <1>1, KeyKinds
<1>3. KeyOwn(t, m) \/ \E suffix : KeyNamed(t, m, suffix) \/ KeyDerived(t, m, suffix)
  BY <1>1, KeyKinds
<1>4. Ordered(t)
  BY DEF TreeOK
<1> DEFINE p == t[n].parent
           q == t[m].parent
<1>5. /\ t[n].idx # 0 => KeyedBy(t, n) = <<p, t[n].idx>>
      /\ t[m].idx # 0 => KeyedBy(t, m) = <<q, t[m].idx>>
      /\ t[n].idx = 0 => KeyedBy(t, n) = <<t[p].parent, t[p].idx>>
      /\ t[m].idx = 0 => KeyedBy(t, m) = <<t[q].parent, t[q].idx>>
  BY DEF KeyedBy
<1> SUFFICES ASSUME KeyedBy(t, n) = KeyedBy(t, m)
             PROVE  FALSE
  OBVIOUS
<1>6. CASE t[n].idx # 0
  <2>1. t[n].idx # 0 /\ t[m].idx # 0
    BY <1>6
  <2>2. p = q /\ t[n].idx = t[m].idx
    BY <1>5, <2>1
  <2>3. CASE Takes(t[p])
    <3>1. t[n].idx < t[m].idx
      BY <1>1, <1>4, <2>2, <2>3 DEF Ordered
    <3>2. t[n].idx \in Nat
      <4>1. n \in 1..Len(t)
        BY <1>1
      <4> QED
        BY <4>1, NodeParts
    <3> QED
      BY <2>2, <3>1, <3>2
  <2>4. CASE ~Takes(t[p])
    <3>1. PICK a : KeyNamed(t, n, a)
      BY <1>2, <2>1, <2>4 DEF KeyOwn, KeyDerived
    <3>2. PICK b : KeyNamed(t, m, b)
      BY <1>3, <2>1, <2>2, <2>4 DEF KeyOwn, KeyDerived
    <3>3. a = b
      BY <2>2, <3>1, <3>2 DEF KeyNamed
    <3>4. Place(n, p, t[p].field.type, a) /\ Place(m, q, t[q].field.type, a)
      BY <3>1, <3>2, <3>3 DEF KeyNamed
    <3> QED
      BY <1>1, <2>2, <3>4, OnePart
  <2> QED
    BY <2>3, <2>4
<1>7. CASE t[n].idx = 0
  <2>1. PICK a : KeyDerived(t, n, a)
    BY <1>2, <1>7 DEF KeyOwn, KeyNamed
  <2>2. PICK b : KeyDerived(t, m, b)
    BY <1>3, <1>7 DEF KeyOwn, KeyNamed
  <2>3. a = b
    <3>1. p \in 1..Len(t) /\ q \in 1..Len(t)
      BY <1>1, ChildFacts
    <3> QED
      BY <1>1, <2>1, <2>2, <3>1, SuffixOfKey
  <2>4. /\ Place(n, p, t[p].field.type, a) /\ Place(m, q, t[q].field.type, a)
        /\ ~Takes(t[p]) /\ ~Takes(t[q]) /\ t[n].idx = 0 /\ t[m].idx = 0
    BY <2>1, <2>2, <2>3 DEF KeyDerived
  <2>5. t[p].parent = t[q].parent /\ t[p].idx = t[q].idx
    BY <1>5, <2>4
  <2>6. CASE p = q
    BY <1>1, <2>4, <2>6, OnePart
  <2>7. CASE p # q
    <3>1. p \in 2..Len(t) /\ Takes(t[t[p].parent])
      BY <1>1, <2>4, PartOfOwn
    <3>2. q \in 2..Len(t) /\ Takes(t[t[q].parent])
      BY <1>1, <2>4, PartOfOwn
    <3>3. t[p].idx \in Nat /\ t[q].idx \in Nat
      <4>1. p \in 1..Len(t) /\ q \in 1..Len(t)
        BY <3>1, <3>2
      <4> HIDE DEF p, q
      <4> QED
        BY <4>1, NodeParts
    <3> HIDE DEF p, q
    <3>4. p < q \/ q < p
      BY <2>7, <3>1, <3>2
    <3>5. t[p].idx < t[q].idx \/ t[q].idx < t[p].idx
      BY <1>4, <2>5, <3>1, <3>2, <3>4 DEF Ordered
    <3> QED
      BY <2>5, <3>3, <3>5
  <2> QED
    BY <2>6, <2>7
<1> QED
  BY <1>6, <1>7

LEMMA KeyGiven ==
  ASSUME NEW t \in Seq(Node), NEW id, NEW errs, TreeOK(t, {}, id, errs), NEW n \in Keyed(t),
         t[n].field.key[1] # PrintedNull
  PROVE  IF t[n].idx # 0 THEN Spells(t, n) ELSE Derives(t, n)
<1>1. n \in 2..Len(t) /\ t[n].field.type # "Group" /\ t[n].field.key # NoKey
  BY DEF Keyed
<1>2. KeyOwn(t, n) \/ \E suffix : KeyNamed(t, n, suffix) \/ KeyDerived(t, n, suffix)
  BY <1>1, KeyKinds
<1> DEFINE parent == t[t[n].parent]
<1>3. CASE t[n].idx # 0
  <2>1. GivenBy(t[n].field.key, parent.x.children[t[n].idx])
    BY <1>2, <1>3 DEF KeyOwn, KeyNamed, KeyDerived
  <2>2. KeyGiver(t, n) = parent.x.children[t[n].idx]
    BY <1>3 DEF KeyGiver
  <2> QED
    BY <1>3, <2>1, <2>2 DEF GivenBy, Spells
<1>4. CASE t[n].idx = 0
  <2>1. PICK suffix : KeyDerived(t, n, suffix)
    BY <1>2, <1>4 DEF KeyOwn, KeyNamed
  <2>2. suffix \in Suffix /\ DerivedFrom(t[n].field.key, parent.x, suffix)
    BY <2>1 DEF KeyDerived, Place, Suffix
  <2>3. KeyGiver(t, n) = parent.x
    BY <1>4 DEF KeyGiver
  <2> QED
    BY <1>4, <2>2, <2>3 DEF DerivedFrom, Derives
<1> QED
  BY <1>3, <1>4

(* Two fields share a previous value only if two elements of the template  *)
(* have the same key or name, or if an element spells out a derived key:   *)
(* the derived keys of one element do not meet, whatever its texts.        *)
THEOREM KeysAreSeparate == Spec => []KeysSeparate
<1>1. ASSUME IInv, NEW k \in DOMAIN templates, NEW n \in Keyed(templates[k]),
             NEW m \in Keyed(templates[k]), n # m,
             templates[k][m].field.key = templates[k][n].field.key,
             templates[k][n].field.key[1] # PrintedNull
      PROVE  LET t == templates[k]
             IN  \/ /\ KeyedBy(t, n) # KeyedBy(t, m)
                    /\ \/ Spells(t, n) /\ Spells(t, m)
                       \/ Derives(t, n) /\ Derives(t, m)
                 \/ Spells(t, n) /\ Derives(t, m)
                 \/ Derives(t, n) /\ Spells(t, m)
  <2> DEFINE t  == templates[k]
             id == t[1].x.id
  <2>1. t \in Seq(Node) /\ TreeOK(t, {}, id, errors) /\ t[1].parent = 0
    BY <1>1, TemplateFacts DEF Root
  <2>2. /\ n \in Keyed(t) /\ m \in Keyed(t) /\ t[m].field.key = t[n].field.key
        /\ t[n].field.key[1] # PrintedNull
    BY <1>1
  <2>3. n < m \/ m < n
    BY <1>1 DEF Keyed
  <2> HIDE DEF t
  <2>4. ASSUME t[n].idx = 0 <=> t[m].idx = 0
        PROVE  KeyedBy(t, n) # KeyedBy(t, m)
    <3>1. CASE n < m
      BY <2>1, <2>2, <2>4, <3>1, KeysApart
    <3>2. CASE m < n
      BY <2>1, <2>2, <2>4, <3>2, KeysApart
    <3> QED
      BY <2>3, <3>1, <3>2
  <2>5. IF t[n].idx # 0 THEN Spells(t, n) ELSE Derives(t, n)
    BY <2>1, <2>2, KeyGiven
  <2>6. IF t[m].idx # 0 THEN Spells(t, m) ELSE Derives(t, m)
    BY <2>1, <2>2, KeyGiven
  <2> QED
    BY <2>4, <2>5, <2>6 DEF t
<1>2. IInv => KeysSeparate
  BY <1>1 DEF KeysSeparate
<1> QED
  BY <1>2, Invariance, PTL

(* The parser's state is typed: every node of its trees, its activations   *)
(* and the errors that it logs.                                            *)
THEOREM ParserTyped == Spec => []Typed
<1>1. IInv => Typed
  BY DEF IInv
<1> QED
  BY <1>1, Invariance, PTL
================================================================================
