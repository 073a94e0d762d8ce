----------------------------- MODULE ParseTemplate -----------------------------
(***************************************************************************)
(* parse-template.c and create_templates_table of template.c: from the XML *)
(* elements of a template file to the trees that dissect.c walks.  Which   *)
(* groups get a presence map is in module Templates.                       *)
(*                                                                         *)
(* An XML element is a record of its tag, its attributes, Absent where it  *)
(* has none, and its children.  The value of an operator is only told      *)
(* apart as to whether string_to_field_value accepts it.                   *)
(*                                                                         *)
(* A key or name is a text: what it begins with, then every "-length",     *)
(* "-exponent" or "-mantissa" that it ends in, as one symbol each.  Texts  *)
(* are the same string if they are the same sequence of symbols, whether   *)
(* the file spells them out or the parser derives them.                    *)
(***************************************************************************)
EXTENDS Fields

CONSTANTS
  Element,   \* the XML elements there are
  Document,  \* the template files, each the children of its root element
  Absent     \* no such attribute, or a member that create_field leaves unset

GLOBAL_DICTIONARY == "global"
AnyDictionary == DictName \cup {TEMPLATE_DICTIONARY, GLOBAL_DICTIONARY, Absent}

PrintedNull == "(null)"
Suffix      == {"length", "exponent", "mantissa"}
Text        == Seq(Key \cup Suffix \cup {PrintedNull})
NodeKey     == Text \cup {NoKey}

ASSUME ElementAssumption ==
  \A x \in Element :
    /\ x.children \in Seq(Element)
    /\ x.key \in Text \cup {Absent} /\ x.name \in Text \cup {Absent}
    /\ x.dictionary \in AnyDictionary
    /\ x.id \in Int
ASSUME DocumentAssumption == Document \subseteq Seq(Element)
ASSUME UnsetAssumption    == NoKey \notin Text

VARIABLES
  file,        \* the template file
  cur,         \* its children still to parse
  templateID,  \* the static variable of parse-template.c
  stack,       \* the activations within a template, the innermost first
  tree,        \* its nodes, in the order in which they are created
  templates,   \* the templates parsed so far
  errors,      \* the numbers of the static errors that were logged
  table        \* the templates by id, Absent until it is created

vars == <<file, cur, templateID, stack, tree, templates, errors, table>>

(***************************************************************************)
(* A node of the tree: its field, its parent (0 for the template), and the *)
(* element it was made of.  idx is the place of that element among its     *)
(* siblings, or of the element that gave a length, an exponent or a        *)
(* mantissa its key, 0 if none did; around has the dictionaries named by   *)
(* the elements it is in and by those it was made of.                      *)
(***************************************************************************)
ParsedField ==
  [type : FieldTypeIdentifier, op : FieldOperatorIdentifier, mandatory : BOOLEAN,
   dictionary : AnyDictionary, tid : Int \cup {Absent}, key : NodeKey,
   hasDefault : BOOLEAN]

Node == [field : ParsedField, parent : Nat, idx : Nat, x : Element, around : Seq(AnyDictionary)]

(* An activation works on the node at of the tree, and has come to the     *)
(* element i of those below the node's.                                    *)
Frame == [fn : {"walk", "decimal", "length"}, at : Nat, i : Nat]

create_field(type, op) ==
  [type |-> type, op |-> op, mandatory |-> TRUE, dictionary |-> Absent,
   tid |-> Absent, key |-> NoKey, hasDefault |-> FALSE]

ignore_xml_node(x) ==
  x.tag \in {"text", "comment", "typeRef", "templateRef", "length"}

--------------------------------------------------------------------------------
(* Attributes and operators.                                               *)

(* An element keys a field by its key, or else by its name.  The name of   *)
(* the field is not kept: of several elements that describe one child, a   *)
(* later one with neither leaves the key alone, while the code would take  *)
(* the name of an earlier one again if that had both.                      *)
Names(x) == x.key # Absent \/ x.name # Absent

set_field_attributes(x, field, tid) ==
  [field EXCEPT
     !.tid = tid,
     !.key = IF Names(x) THEN (IF x.key # Absent THEN x.key ELSE x.name) ELSE @,
     !.mandatory = IF x.presence \in {"mandatory", "optional"}
                   THEN x.presence = "mandatory" ELSE @,
     !.dictionary = IF x.dictionary # Absent THEN x.dictionary ELSE @]

PresenceErrors(x) ==
  IF x.presence \in {"mandatory", "optional", Absent} THEN {} ELSE {1}

Inherit(field, dictionary) ==
  IF field.dictionary = Absent THEN [field EXCEPT !.dictionary = dictionary]
                               ELSE field

ParsedOperator(ok, field, errs) == [ok |-> ok, field |-> field, errs |-> errs]

IsOperator(x) == x.tag \in FieldOperatorIdentifier \ {"None"}

(* What the value of a valid operator adds. *)
OperatorValue(x, set) ==
  CASE x.value # Absent ->
         ParsedOperator(TRUE, [set EXCEPT !.hasDefault = TRUE],
                        IF x.value = "bad" THEN {3} ELSE {})
    [] x.value = Absent /\ set.op = "Constant" ->
         ParsedOperator(TRUE, set, {4})
    [] x.value = Absent /\ set.op = "Default" /\ set.mandatory ->
         ParsedOperator(TRUE, set, {5})
    [] OTHER -> ParsedOperator(TRUE, [set EXCEPT !.hasDefault = FALSE], {})

(* Mutant: an operator with a value is not checked. *)
parse_operator_late(x, field) ==
  LET set == [field EXCEPT !.op = x.tag]
  IN  CASE ~IsOperator(x) -> ParsedOperator(FALSE, field, {1})
        [] IsOperator(x) /\ x.value = Absent /\ ~check_valid_operator(set) ->
             ParsedOperator(FALSE, set, {2})
        [] OTHER -> OperatorValue(x, set)

(* The operator is set before it is checked, and stays when it is refused. *)
parse_operator(x, field) ==
  LET set == [field EXCEPT !.op = x.tag]
  IN  CASE ~IsOperator(x) -> ParsedOperator(FALSE, field, {1})
        [] IsOperator(x) /\ ~check_valid_operator(set) -> ParsedOperator(FALSE, set, {2})
        [] OTHER -> OperatorValue(x, set)

(* Only the first element can be the operator of a field. *)
parse_field_operator(x, field) ==
  LET elements == {i \in DOMAIN x.children : ~ignore_xml_node(x.children[i])}
      first    == CHOOSE i \in elements : \A j \in elements : i <= j
  IN  IF elements = {} THEN ParsedOperator(TRUE, field, {})
                       ELSE parse_operator(x.children[first], field)

--------------------------------------------------------------------------------
(* The place in the file.                                                  *)

top     == stack[1]
Here    == tree[top.at]
More    == stack # << >> /\ top.i <= Len(Here.x.children)
AtEnd   == stack # << >> /\ top.i > Len(Here.x.children)
element == Here.x.children[top.i]

Activation(fn, at) == [fn |-> fn, at |-> at, i |-> 1]
Moved              == << [top EXCEPT !.i = @ + 1] >> \o Tail(stack)
Call(fn)           == << Activation(fn, Len(tree) + 1) >> \o Moved
Return             == Tail(stack)

(* The group of a sequence is created after it. *)
Below(at) == IF tree[at].field.type = "Sequence" THEN at + 1 ELSE at

(* Mutant: the fields of a group do not see the dictionary around it. *)
InheritedGlobal == GLOBAL_DICTIONARY

(* What new_parsed_field and prepend_length are given. *)
Inherited == Here.field.dictionary

TypeOfTag(tag) == IF tag = "String" THEN "AsciiString" ELSE tag
Type == TypeOfTag(element.tag)

Field ==
  Inherit(set_field_attributes(element, create_field(Type, "None"), templateID), Inherited)

NewNode(field) ==
  [field |-> field, parent |-> Below(top.at), idx |-> top.i, x |-> element,
   around |-> Append(Here.around, element.dictionary)]

(* A child that is not an element of its own, of the node number at. *)
ChildNode(parent, at, field) ==
  [field |-> field, parent |-> at, idx |-> 0, x |-> parent.x, around |-> parent.around]

(* An element that describes such a child changes it. *)
Described(node, x, i, field) ==
  [node EXCEPT !.field = field,
               !.idx = IF Names(x) THEN i ELSE @,
               !.around = Append(@, x.dictionary)]

NewLength(parent, at) == ChildNode(parent, at, create_field("UInt32", "None"))

unchanged_file == <<file, cur, templateID, templates, table>>

--------------------------------------------------------------------------------
(* parser_walk_children and new_parsed_field.                              *)

Walking(types) ==
  More /\ top.fn = "walk" /\ ~ignore_xml_node(element) /\ Type \in types

PlainType == IntegerType \cup {"AsciiString"}
SizedType == {"UnicodeString", "ByteVector"}

(* Mutant: nothing is logged about a field that is left out. *)
UnparsedSilent == {}

(* "Field could not be parsed", "Unknown field type". *)
Unparsed == {1}

(* A field that does not parse is left out of its parent. *)
UnknownField ==
  /\ More /\ top.fn = "walk" /\ ~ignore_xml_node(element)
  /\ Type \notin FieldTypeIdentifier
  /\ errors' = errors \cup PresenceErrors(element) \cup Unparsed
  /\ stack' = Moved
  /\ UNCHANGED <<tree, unchanged_file>>

RefuseField ==
  /\ Walking(PlainType \cup SizedType)
  /\ LET op == parse_field_operator(element, Field)
     IN  /\ ~op.ok
         /\ errors' = errors \cup PresenceErrors(element) \cup op.errs \cup Unparsed
  /\ stack' = Moved
  /\ UNCHANGED <<tree, unchanged_file>>

(* An integer or an ASCII string. *)
PlainField ==
  /\ Walking(PlainType)
  /\ LET op == parse_field_operator(element, Field)
     IN  /\ op.ok
         /\ tree' = Append(tree, NewNode(op.field))
         /\ errors' = errors \cup PresenceErrors(element) \cup op.errs
  /\ stack' = Moved
  /\ UNCHANGED unchanged_file

(* A unicode string or a byte vector, with its length as a child. *)
SizedField ==
  /\ Walking(SizedType)
  /\ LET op == parse_field_operator(element, Field)
     IN  /\ op.ok
         /\ tree' = tree \o << NewNode(op.field), NewLength(NewNode(op.field), Len(tree) + 1) >>
         /\ errors' = errors \cup PresenceErrors(element) \cup op.errs
  /\ stack' = Call("length")
  /\ UNCHANGED unchanged_file

DecimalField ==
  /\ Walking({"Decimal"})
  /\ tree' = tree \o
       << NewNode(Field),
          ChildNode(NewNode(Field), Len(tree) + 1, create_field("Int32", "None")),
          ChildNode(NewNode(Field), Len(tree) + 1, create_field("Int64", "None")) >>
  /\ errors' = errors \cup PresenceErrors(element)
  /\ stack' = Call("decimal")
  /\ UNCHANGED unchanged_file

GroupField ==
  /\ Walking({"Group"})
  /\ tree' = Append(tree, NewNode(Field))
  /\ errors' = errors \cup PresenceErrors(element)
  /\ stack' = Call("walk")
  /\ UNCHANGED unchanged_file

SequenceField ==
  /\ Walking({"Sequence"})
  /\ tree' = tree \o
       << NewNode(Field),
          ChildNode(NewNode(Field), Len(tree) + 1, create_field("Group", "None")) >>
  /\ errors' = errors \cup PresenceErrors(element)
  /\ stack' = Call("walk")
  /\ UNCHANGED unchanged_file

WalkReturns ==
  /\ AtEnd /\ top.fn = "walk" /\ Here.parent # 0
  /\ IF Here.field.type = "Sequence"
     THEN /\ tree' = Append(tree, NewLength(Here, top.at))
          /\ stack' = << Activation("length", top.at) >> \o Return
     ELSE /\ stack' = Return
          /\ UNCHANGED tree
  /\ UNCHANGED <<errors, unchanged_file>>

--------------------------------------------------------------------------------
(* The loops of parse_decimal and prepend_length.                          *)

(* prepend_length looks for lengths only, the other loops ignore them. *)
Ignore ==
  /\ More
  /\ IF top.fn = "length" THEN element.tag # "length" ELSE ignore_xml_node(element)
  /\ stack' = Moved
  /\ UNCHANGED <<tree, errors, unchanged_file>>

(* The element describes the child k, or the whole field is given up. *)
DescribeChild(k) ==
  LET op == parse_field_operator(element,
              set_field_attributes(element, tree[k].field, templateID))
  IN  /\ errors' = errors \cup PresenceErrors(element) \cup op.errs
                   \cup IF op.ok THEN {} ELSE Unparsed
      /\ IF op.ok
         THEN /\ tree' = [tree EXCEPT ![k] = Described(@, element, top.i, op.field)]
              /\ stack' = Moved
         ELSE /\ tree' = SubSeq(tree, 1, top.at - 1)
              /\ stack' = Return
      /\ UNCHANGED unchanged_file

DecimalPart ==
  /\ More /\ top.fn = "decimal"
  /\ \/ element.tag = "exponent" /\ DescribeChild(top.at + 1)
     \/ element.tag = "mantissa" /\ DescribeChild(top.at + 2)

(* Any other element is assumed to be the operator of the decimal, and     *)
(* whether parse_operator accepts it is not looked at.                     *)
DecimalOperator ==
  /\ More /\ top.fn = "decimal" /\ ~ignore_xml_node(element)
  /\ element.tag \notin {"exponent", "mantissa"}
  /\ LET op == parse_operator(element, Here.field)
     IN  /\ tree' = [tree EXCEPT ![top.at].field = op.field]
         /\ errors' = errors \cup op.errs
  /\ stack' = Moved
  /\ UNCHANGED unchanged_file

(* Mutant: the mantissa's key is derived as the exponent's. *)
DerivedKeySame(field, parent, suffix) ==
  IF parent.key # NoKey /\ field.key = NoKey
  THEN [field EXCEPT !.key = Append(parent.key, "exponent")] ELSE field

DerivedKey(field, parent, suffix) ==
  IF parent.key # NoKey /\ field.key = NoKey
  THEN [field EXCEPT !.key = Append(parent.key, suffix)] ELSE field

DecimalChild(field, suffix) ==
  DerivedKey(Inherit([field EXCEPT !.tid = templateID], Inherited), Here.field, suffix)

DecimalReturns ==
  /\ AtEnd /\ top.fn = "decimal"
  /\ tree' = [tree EXCEPT
       ![top.at + 1].field = DecimalChild([@ EXCEPT !.mandatory = Here.field.mandatory], "exponent"),
       ![top.at + 2].field = DecimalChild(@, "mantissa")]
  /\ stack' = Return
  /\ UNCHANGED <<errors, unchanged_file>>

LengthPart ==
  More /\ top.fn = "length" /\ element.tag = "length" /\ DescribeChild(Len(tree))

(* printf shows the name of a field without one as (null). *)
LengthKey(x) ==
  Append(IF x.name = Absent THEN << PrintedNull >> ELSE x.name, "length")

(* Mutant: the length is left with the template id of create_field. *)
LengthDefaultsNoTid(field) ==
  Inherit([field EXCEPT
             !.key = IF @ = NoKey THEN LengthKey(Here.x) ELSE @,
             !.mandatory = Here.field.mandatory], Inherited)

(* What the length of a sequence, vector or unicode string is given last.  *)
LengthDefaults(field) ==
  Inherit([field EXCEPT
             !.key = IF @ = NoKey THEN LengthKey(Here.x) ELSE @,
             !.tid = templateID,
             !.mandatory = Here.field.mandatory], Inherited)

LengthReturns ==
  /\ AtEnd /\ top.fn = "length"
  /\ tree' = [tree EXCEPT ![Len(tree)].field = LengthDefaults(@)]
  /\ stack' = Return
  /\ UNCHANGED <<errors, unchanged_file>>

--------------------------------------------------------------------------------
(* The elements of the file.                                               *)

Init ==
  /\ file \in Document
  /\ cur = file
  /\ templateID = -1
  /\ stack = << >> /\ tree = << >>
  /\ templates = << >>
  /\ errors = {}
  /\ table = Absent

parse_template ==
  /\ stack = << >> /\ cur # << >> /\ Head(cur).tag = "template"
  /\ LET x    == Head(cur)
         root == Inherit(set_field_attributes(x, create_field("UInt32", "Copy"), x.id),
                         GLOBAL_DICTIONARY)
     IN  /\ tree' = << [field |-> root, parent |-> 0, idx |-> 0, x |-> x,
                        around |-> << x.dictionary >>] >>
         /\ errors' = errors \cup PresenceErrors(x)
         /\ templateID' = x.id
  /\ stack' = << Activation("walk", 1) >>
  /\ cur' = Tail(cur)
  /\ UNCHANGED <<file, templates, table>>

(* The walk of a template's children is over. *)
TemplateReturns ==
  /\ AtEnd /\ top.fn = "walk" /\ Here.parent = 0
  /\ templates' = Append(templates, tree)
  /\ stack' = << >> /\ tree' = << >>
  /\ UNCHANGED <<file, cur, templateID, errors, table>>

(* Any other child of the root is reported unless it is ignored. *)
SkipElement ==
  /\ stack = << >> /\ cur # << >> /\ Head(cur).tag # "template"
  /\ errors' = errors \cup IF ignore_xml_node(Head(cur)) THEN {} ELSE {1}
  /\ cur' = Tail(cur)
  /\ UNCHANGED <<file, templateID, stack, tree, templates, table>>

TemplateIds == {templates[i][1].field.tid : i \in DOMAIN templates}

(* create_templates_table: of equal ids the last one is kept. *)
create_templates_table ==
  /\ stack = << >> /\ cur = << >> /\ table = Absent
  /\ table' = [id \in TemplateIds |->
                 templates[CHOOSE i \in DOMAIN templates :
                             /\ templates[i][1].field.tid = id
                             /\ \A j \in (i + 1)..Len(templates) :
                                  templates[j][1].field.tid # id]]
  /\ UNCHANGED <<file, cur, templateID, stack, tree, templates, errors>>

(* The parser is done. *)
Done == table # Absent /\ UNCHANGED vars

Next ==
  \/ parse_template \/ TemplateReturns \/ SkipElement \/ create_templates_table \/ Done
  \/ Ignore \/ UnknownField \/ RefuseField \/ PlainField \/ SizedField
  \/ DecimalField \/ GroupField \/ SequenceField \/ WalkReturns
  \/ DecimalPart \/ DecimalOperator \/ DecimalReturns \/ LengthPart \/ LengthReturns

Spec == Init /\ [][Next]_vars

--------------------------------------------------------------------------------
(* The nodes of a parsed template whose fields have previous values.       *)
Keyed(nodes) ==
  {n \in 2..Len(nodes) : nodes[n].field.type # "Group" /\ nodes[n].field.key # NoKey}

(***************************************************************************)
(* Every field with a previous value carries the id of the template it is  *)
(* in, whatever templates were parsed before: the id selects its template  *)
(* dictionary (get_dictionary).                                            *)
(***************************************************************************)
OwnTemplateId ==
  \A t \in DOMAIN templates :
    \A n \in Keyed(templates[t]) :
      templates[t][n].field.tid = templates[t][1].x.id

NearestDictionary(around) ==
  LET given == {i \in DOMAIN around : around[i] # Absent}
  IN  IF given = {} THEN GLOBAL_DICTIONARY
      ELSE around[CHOOSE i \in given : \A j \in given : j <= i]

(***************************************************************************)
(* A field lives in the dictionary named by the innermost element around   *)
(* it that names one, its derived children included, and in the global one *)
(* if there is none.                                                       *)
(***************************************************************************)
DictionaryIsNearest ==
  \A t \in DOMAIN templates :
    \A n \in Keyed(templates[t]) :
      templates[t][n].field.dictionary = NearestDictionary(templates[t][n].around)

(* The element that a field's key is from, its own or for a child that has *)
(* none that of its parent, and the place of that element.                 *)
KeyGiver(nodes, n) ==
  LET parent == nodes[nodes[n].parent]
  IN  IF nodes[n].idx # 0 THEN parent.x.children[nodes[n].idx] ELSE parent.x

KeyedBy(nodes, n) ==
  LET parent == nodes[nodes[n].parent]
  IN  IF nodes[n].idx # 0 THEN <<nodes[n].parent, nodes[n].idx>>
                          ELSE <<parent.parent, parent.idx>>

(* That element has the key as its own key or name, or as the derived one. *)
Spells(nodes, n) ==
  nodes[n].field.key \in {KeyGiver(nodes, n).key, KeyGiver(nodes, n).name}

Derives(nodes, n) ==
  \E text \in {KeyGiver(nodes, n).key, KeyGiver(nodes, n).name} \ {Absent}, suffix \in Suffix :
    nodes[n].field.key = Append(text, suffix)

(***************************************************************************)
(* Two fields share a previous value only if two elements of the template  *)
(* have the same key or name, or if an element spells out what is derived  *)
(* for the child of one: a field named "v-length" and the length of v, or  *)
(* a vector named v with the key "v-length" and its own length, which the  *)
(* parser does not keep apart.  No two derived keys of one element meet.   *)
(* The lengths of unnamed sequences, all keyed "(null)-length", are        *)
(* excepted.                                                               *)
(***************************************************************************)
KeysSeparate ==
  \A t \in DOMAIN templates :
    LET nodes == templates[t]
    IN  \A n, m \in Keyed(nodes) :
          /\ n # m /\ nodes[m].field.key = nodes[n].field.key
          /\ nodes[n].field.key[1] # PrintedNull
          => \/ /\ KeyedBy(nodes, n) # KeyedBy(nodes, m)
                /\ \/ Spells(nodes, n) /\ Spells(nodes, m)
                   \/ Derives(nodes, n) /\ Derives(nodes, m)
             \/ Spells(nodes, n) /\ Derives(nodes, m)
             \/ Derives(nodes, n) /\ Spells(nodes, m)

(* The elements of x were parsed, one by one and in order, to the nodes    *)
(* below a parent.                                                         *)
Corresponds(x, nodes, parent) ==
  LET below == {n \in DOMAIN nodes : nodes[n].parent = parent}
  IN  /\ \A i \in DOMAIN x.children :
           ~ignore_xml_node(x.children[i]) =>
             \E n \in below :
               /\ nodes[n].idx = i /\ nodes[n].x = x.children[i]
               /\ nodes[n].field.type = TypeOfTag(x.children[i].tag)
      /\ \A n, m \in below : n < m => nodes[n].idx < nodes[m].idx

(***************************************************************************)
(* A field that cannot be parsed is dropped and the rest of its template   *)
(* used, so that every later field of a message is read at the wrong       *)
(* place; at least this never happens without an error being reported.     *)
(***************************************************************************)
NeverDroppedSilently ==
  errors \subseteq {3, 4, 5} =>
    \A t \in DOMAIN templates :
      LET nodes == templates[t]
      IN  /\ Corresponds(nodes[1].x, nodes, 1)
          /\ \A n \in 2..Len(nodes) :
               /\ nodes[n].field.type = "Sequence" => Corresponds(nodes[n].x, nodes, n + 1)
               /\ nodes[n].field.type = "Group" /\ nodes[n].idx # 0 =>
                    Corresponds(nodes[n].x, nodes, n)

(***************************************************************************)
(* "Increment can only be used on integers.", "Tail can only be used on    *)
(* strings and bytevectors.": no field of a parsed template, and none of   *)
(* the lengths, exponents and mantissas made for it, has an operator that  *)
(* check_valid_operator refuses, but a decimal, which keeps the operator   *)
(* that parse_decimal was told is invalid; then an error was logged.       *)
(***************************************************************************)
OperatorsValid ==
  \A t \in DOMAIN templates :
    \A n \in DOMAIN templates[t] :
      LET field == templates[t][n].field
      IN  check_valid_operator(field) \/ (field.type = "Decimal" /\ 2 \in errors)
================================================================================
