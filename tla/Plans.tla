--------------------------------- MODULE Plans ----------------------------------
(***************************************************************************)
(* The forms a message takes in a regression test: the elements of a plan  *)
(* file, the values the plan runner fills a template with, the lines that  *)
(* display_message shows, and the elements rwcompare makes of those lines. *)
(*                                                                         *)
(* OpenFAST's encoder and the dissector are between the second and the     *)
(* third form.  The other modules are about the dissector; here a message  *)
(* is decoded to what was encoded.                                         *)
(*                                                                         *)
(* A text is a sequence of symbols, only the colon, blanks and zeros of    *)
(* which are told apart from the others.  An attribute or a result that    *)
(* may be missing is a set of at most one member.                          *)
(***************************************************************************)
EXTENDS Integers, Sequences, SequencesExt

CONSTANTS
  Templates, \* for each template id, a text, its [name, fields]
  Decoded    \* what the dissector makes of the bits of a byte message

Missing == {}
TheOnly(S) == CHOOSE x \in S : TRUE

Element(name, value, children) == [name |-> name, value |-> value, children |-> children]
DataNode(status, value, fields) == [status |-> status, value |-> value, fields |-> fields]

(* Both programs compare names without their case. *)
Lower(name) ==
  CASE name = "Plan" -> "plan" [] name = "Message" -> "message"
    [] name = "uInt32" -> "uint32" [] name = "ERROR" -> "error" [] OTHER -> name

NestedKind == {"group", "sequence"}
FieldKind  == {"int32", "uint32", "ascii"} \cup NestedKind

(* next_xml_node skips text between the tags, and comments. *)
next_xml_node(nodes) == SelectSeq(nodes, LAMBDA e : Lower(e.name) \notin {"text", "comment"})

--------------------------------------------------------------------------------
(* The plan runner, in Java.                                               *)

(* startElement takes the elements it knows and passes over others. *)
Values(e) == SelectSeq(next_xml_node(e.children), LAMBDA c : Lower(c.name) \in FieldKind)

(* A group or sequence without a value is absent and must be empty. *)
RECURSIVE AbsentWithFields(_)
AbsentWithFields(e) ==
  \/ /\ Lower(e.name) \in NestedKind /\ e.value = Missing
     /\ next_xml_node(e.children) # << >>
  \/ \E c \in ToSet(next_xml_node(e.children)) : AbsentWithFields(c)

(* XMLDataPlanLoader: a message without an id is of the template before it.*)
RECURSIVE TemplateId(_, _, _)
TemplateId(plan, i, loaded) ==
  IF i = 0 THEN Missing
  ELSE IF Lower(plan[i].name) = "message" /\ plan[i].value # Missing
       THEN plan[i].value \cap loaded
       ELSE TemplateId(plan, i - 1, loaded)

(* What keeps loadPlan from returning a plan: then nothing is sent. *)
LoadFails(plan, loaded) ==
  \E i \in DOMAIN plan :
    \/ Lower(plan[i].name) \notin {"message", "bytemessage"}
    \/ AbsentWithFields(plan[i])
    \/ /\ Lower(plan[i].name) = "message" /\ plan[i].value = Missing
       /\ TemplateId(plan, i, loaded) = Missing

(* Integer.valueOf and %d: leading zeros are not shown. *)
RECURSIVE Number(_)
Number(text) == IF Len(text) > 1 /\ text[1] = "0" THEN Number(Tail(text)) ELSE text

(* The classes of the Java objects that stand for values. *)
Class(kind) == CASE kind \in {"int32", "uint32"} -> "Integer"
                 [] kind \in NestedKind -> "List"
                 [] OTHER -> "String"

(* A list of results is a result if each of them is there. *)
All(results) ==
  IF \E i \in DOMAIN results : results[i] = Missing THEN Missing
  ELSE {[i \in DOMAIN results |-> TheOnly(results[i])]}

(***************************************************************************)
(* populateGroup gives the values to the fields by their position, whatever*)
(* their names.  A cast may fail, there may be too many values, and the    *)
(* encoder refuses a mandatory field that has none.                        *)
(***************************************************************************)
RECURSIVE populateGroup(_, _), setFieldValue(_, _)
setFieldValue(f, values) ==
  IF values = Missing \/ TheOnly(values).value = Missing
  THEN IF f.mandatory THEN Missing ELSE {DataNode("Empty", << >>, << >>)}
  ELSE LET e    == TheOnly(values)
           text == TheOnly(e.value)
           List(results) == {DataNode("Exists", << >>, nodes) : nodes \in results}
       IN
       IF Class(Lower(e.name)) # Class(f.type) THEN Missing
       ELSE CASE f.type = "group" -> List(populateGroup(f.fields, Values(e)))
              [] f.type = "sequence" ->
                   List(All([i \in DOMAIN Values(e) |->
                              setFieldValue(f.fields[1], {Values(e)[i]})]))
              [] f.type \in {"int32", "uint32"} -> {DataNode("Exists", Number(text), << >>)}
              [] OTHER -> {DataNode("Exists", text, << >>)}

populateGroup(fields, values) ==
  IF Len(values) > Len(fields) THEN Missing
  ELSE All([i \in DOMAIN fields |->
         setFieldValue(fields[i], IF i \in DOMAIN values THEN {values[i]} ELSE Missing)])

(* runMessagePlan and runByteMessagePlan: the messages of one packet. *)
Sent(plan, i, loaded) ==
  IF Lower(plan[i].name) = "bytemessage"
  THEN {Decoded[TheOnly(plan[i].children[1].value)]}
  ELSE {<<[tid |-> tid, fields |-> fields]>> :
          <<tid, fields>> \in UNION {
            {t} \X populateGroup(Templates[t].fields, Values(plan[i])) :
              t \in TemplateId(plan, i, loaded)}}

(* runDataPlan: the packets up to the first message that cannot be sent. *)
runDataPlan(root, loaded) ==
  LET plan == next_xml_node(root.children)
      sent == [i \in DOMAIN plan |-> Sent(plan, i, loaded)]
      n    == SelectInSeq(sent, LAMBDA p : p = Missing)
  IN  IF LoadFails(plan, loaded) THEN << >>
      ELSE [i \in 1..(IF n = 0 THEN Len(plan) ELSE n - 1) |-> TheOnly(sent[i])]

--------------------------------------------------------------------------------
(* The display of the plug-in.                                             *)

Line(type, showname, fields) == [type |-> type, showname |-> showname, fields |-> fields]

(***************************************************************************)
(* display_fields.  Template nodes and data nodes are walked side by side, *)
(* for a sequence the one group once per item.  A showname is what the     *)
(* format says, its type and id left out.                                  *)
(***************************************************************************)
RECURSIVE display_fields(_, _, _)
display_field(f, d, show_empty) ==
  CASE d.status = "Exists" /\ f.type = "group" ->
         <<Line("group", f.name \o <<":">>, display_fields(f.fields, d.fields, show_empty))>>
    [] d.status = "Exists" /\ f.type = "sequence" ->
         <<Line("sequence", f.name \o <<" ", "length", ":">>,
                FlattenSeq([i \in DOMAIN d.fields |->
                  display_fields(f.fields, <<d.fields[i]>>, show_empty)]))>>
    [] d.status = "Exists" /\ f.type \notin NestedKind ->
         <<Line(f.type, f.name \o <<":", " ">> \o d.value, << >>)>>
    [] d.status = "Empty" ->
         IF show_empty THEN <<Line(f.type, f.name \o <<" ", "empty">>, << >>)>> ELSE << >>
    [] OTHER -> <<Line("ERROR", f.name \o <<":", " ">> \o d.value, << >>)>>

display_fields(tnodes, dnodes, show_empty) ==
  FlattenSeq([i \in DOMAIN tnodes |-> display_field(tnodes[i], dnodes[i], show_empty)])

(* Error D9 is shown as a message of a template made for it. *)
ErrorTemplate ==
  [name |-> <<"Error", " ", "Template">>,
   fields |-> <<[type |-> "ascii", name |-> <<"Error", " ", "Message">>,
                 mandatory |-> TRUE, fields |-> << >>]>>]

TemplateOf(tid) == IF tid \in DOMAIN Templates THEN Templates[tid] ELSE ErrorTemplate

display_message(m, show_empty) ==
  LET tmpl == TemplateOf(m.tid) IN
  Line("tid", tmpl.name \o <<" ", "tid", ":", " ">> \o m.tid,
       display_fields(tmpl.fields, m.fields, show_empty))

(* The PDML of a capture: for each packet the lines of its FAST part. *)
Pdml(packets, show_empty) ==
  [i \in DOMAIN packets |->
     [j \in DOMAIN packets[i] |-> display_message(packets[i][j], show_empty)]]

--------------------------------------------------------------------------------
(* rwcompare.                                                              *)

(* parseField: the value is what follows the first colon and a character,  *)
(* if there is a colon.                                                    *)
ValueOf(showname) ==
  LET colon == SelectInSeq(showname, LAMBDA c : c = ":") IN
  IF colon = 0 THEN Missing ELSE {SubSeq(showname, colon + 2, Len(showname))}

(* Mutant: a sequence is written as a field without an inside. *)
RECURSIVE parseFieldFlat(_)
parseFieldFlat(line) ==
  LET inner == [i \in DOMAIN line.fields |-> parseFieldFlat(line.fields[i])] IN
  CASE line.type = "tid" -> Element("Message", ValueOf(line.showname), inner)
    [] line.type = "group" -> Element(line.type, ValueOf(line.showname), inner)
    [] OTHER -> Element(line.type, ValueOf(line.showname), << >>)

RECURSIVE parseField(_)
parseField(line) ==
  LET inner == [i \in DOMAIN line.fields |-> parseField(line.fields[i])] IN
  CASE line.type = "tid" -> Element("Message", ValueOf(line.showname), inner)
    [] line.type \in NestedKind -> Element(line.type, ValueOf(line.showname), inner)
    [] OTHER -> Element(line.type, ValueOf(line.showname), << >>)

(* parseDoc. *)
PlanFromPDML(doc) ==
  Element("Plan", Missing,
          FlattenSeq([i \in DOMAIN doc |->
            [j \in DOMAIN doc[i] |-> parseField(doc[i][j])]]))

(* Mutant: values are compared if both nodes have one. *)
RECURSIVE equiv_plan_lax(_, _)
equiv_plan_lax(cnodes, enodes) ==
  LET c == next_xml_node(cnodes)
      e == next_xml_node(enodes)
  IN  /\ Len(c) = Len(e)
      /\ \A i \in DOMAIN c :
           /\ Lower(c[i].name) = Lower(e[i].name)
           /\ c[i].value = e[i].value \/ Missing \in {c[i].value, e[i].value}
           /\ equiv_plan_lax(c[i].children, e[i].children)

RECURSIVE equiv_plan_xml(_, _)
equiv_plan_xml(cnodes, enodes) ==
  LET c == next_xml_node(cnodes)
      e == next_xml_node(enodes)
  IN  /\ Len(c) = Len(e)
      /\ \A i \in DOMAIN c : /\ Lower(c[i].name) = Lower(e[i].name)
                             /\ c[i].value = e[i].value
                             /\ equiv_plan_xml(c[i].children, e[i].children)

--------------------------------------------------------------------------------
(***************************************************************************)
(* What the test is to tell, in terms of messages and a plan alone: the    *)
(* plan has one message element per message, with its id and an element of *)
(* the type, presence and value of each field.                             *)
(***************************************************************************)
RECURSIVE FieldsAgree(_, _, _)
FieldAgrees(f, d, e) ==
  CASE d.status = "Empty" ->
         Lower(e.name) = f.type /\ e.value = Missing /\ next_xml_node(e.children) = << >>
    [] d.status = "Error" ->
         Lower(e.name) = "error" /\ e.value = {d.value} /\ next_xml_node(e.children) = << >>
    [] OTHER ->
         /\ Lower(e.name) = f.type /\ e.value = {d.value}
         /\ FieldsAgree(IF f.type = "sequence" THEN [i \in DOMAIN d.fields |-> f.fields[1]]
                        ELSE f.fields, d.fields, next_xml_node(e.children))

FieldsAgree(fields, nodes, elements) ==
  /\ Len(elements) = Len(fields)
  /\ \A i \in DOMAIN fields : FieldAgrees(fields[i], nodes[i], elements[i])

Agrees(packets, root) ==
  LET messages == FlattenSeq(packets)
      elements == next_xml_node(root.children)
  IN  /\ Lower(root.name) = "plan" /\ root.value = Missing
      /\ Len(elements) = Len(messages)
      /\ \A i \in DOMAIN messages :
           /\ Lower(elements[i].name) = "message" /\ elements[i].value = {messages[i].tid}
           /\ FieldsAgree(TemplateOf(messages[i].tid).fields, messages[i].fields,
                          next_xml_node(elements[i].children))

(* No name of a field that was decoded holds a colon.                      *)
RECURSIVE PlainNames(_)
PlainNames(fields) ==
  \A i \in DOMAIN fields : ":" \notin ToSet(fields[i].name) /\ PlainNames(fields[i].fields)

Plain(packets) ==
  \A m \in ToSet(FlattenSeq(packets)) : PlainNames(<<TemplateOf(m.tid)>>)
================================================================================
