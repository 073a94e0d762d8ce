------------------------------ MODULE Templates -------------------------------
(***************************************************************************)
(* The tree of a template as parse-template.c builds it and as             *)
(* create_templates_table of template.c completes it.                      *)
(*                                                                         *)
(* A decimal has its exponent and mantissa as children, a sequence its     *)
(* length and the group that it repeats, a group its fields.               *)
(***************************************************************************)
EXTENDS DissectFields

CONSTANTS
  Node,      \* the nodes of all templates' trees, the roots excluded
  FType,     \* the FieldType of each node
  Children,  \* its children, in order
  Template   \* the template table: the children of the root for each Tid

(* Byte vectors and unicode strings are not modelled. *)
NodeType == ScalarType \cup {"Decimal", "Group", "Sequence"}

ScalarNode   == {n \in Node : FType[n].type \in ScalarType}
DecimalNode  == {n \in Node : FType[n].type = "Decimal"}
GroupNode    == {n \in Node : FType[n].type = "Group"}
SequenceNode == {n \in Node : FType[n].type = "Sequence"}

exponent(n) == FType[Children[n][1]]
mantissa(n) == FType[Children[n][2]]
length_tnode(n) == Children[n][1]
group_tnode(n) == Children[n][2]

(* parse_decimal: an exponent as optional as the decimal, and a mantissa.  *)
DecimalAssumption ==
  \A n \in DecimalNode :
    /\ Children[n] \in ScalarNode \X ScalarNode
    /\ exponent(n).type = "Int32" /\ exponent(n).mandatory = FType[n].mandatory
    /\ mantissa(n).type = "Int64"

(* parse_sequence and prepend_length: a length as optional as the sequence *)
(* and a mandatory group.                                                  *)
SequenceAssumption ==
  \A n \in SequenceNode :
    /\ FType[n].op = "None"
    /\ Children[n] \in ScalarNode \X GroupNode
    /\ FType[length_tnode(n)].type = "UInt32"
    /\ FType[length_tnode(n)].mandatory = FType[n].mandatory
    /\ FType[group_tnode(n)].mandatory

ASSUME NodeAssumption ==
  /\ FType \in [Node -> {f \in FieldTypes : f.type \in NodeType}]
  /\ \A n \in ScalarNode : check_valid_operator(FType[n])
  /\ Children \in [Node -> Seq(Node)]
  /\ Template \in [Tid -> Seq(Node)]
  /\ DecimalAssumption
  /\ SequenceAssumption
  /\ \A n \in GroupNode : FType[n].op = "None"

(* An initial value is parsed into the member of the union that has the    *)
(* type of its field, so an unsigned one is not negative.                  *)
ASSUME InitialAssumption ==
  \A n \in Node : FType[n].type = "UInt32" => FType[n].value.num \in Nat

NodesOf(nodes) == {nodes[i] : i \in DOMAIN nodes}

(***************************************************************************)
(* fixup_walk_template: a group has a presence map of its own if a node    *)
(* below it, no other group in between, needs a bit.                       *)
(***************************************************************************)
fixup_walk_template[n \in Node] ==
  \E c \in NodesOf(Children[n]) :
    requires_pmap_bit(FType[c]) \/ (c \notin GroupNode /\ fixup_walk_template[c])

(* Mutant: nodes that are not groups do not pass on what they need. *)
pmap_exists_shallow(n) ==
  \E c \in NodesOf(Children[n]) : requires_pmap_bit(FType[c])

pmap_exists(n) == fixup_walk_template[n]
================================================================================
