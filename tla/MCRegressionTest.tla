--------------------------- MODULE MCRegressionTest ----------------------------
(* Plans for RegressionTest: nested groups and sequences, absent fields,   *)
(* numbers with leading zeros, comments, messages without an id, with too  *)
(* many values, with fields of an absent group, errors, names with colons; *)
(* and the ways in which rwcompare is called.                              *)
EXTENDS RegressionTest, Plans

TemplateIds == DOMAIN Templates

Field(type, name, mandatory, fields) ==
  [type |-> type, name |-> name, mandatory |-> mandatory, fields |-> fields]

MCTemplates ==
  <<"7">> :> [name |-> <<"one">>, fields |->
    <<Field("int32", <<"a">>, TRUE, << >>),
      Field("group", <<"g">>, FALSE, <<Field("int32", <<"b">>, TRUE, << >>)>>)>>]
  @@
  <<"8">> :> [name |-> <<"two">>, fields |->
    <<Field("sequence", <<"s">>, TRUE,
       <<Field("group", <<"s">>, TRUE, <<Field("uint32", <<"c">>, FALSE, << >>)>>)>>)>>]
  @@
  <<"9">> :> [name |-> <<"three">>, fields |->
    <<Field("ascii", <<"d", ":", "e">>, FALSE, << >>)>>]

MCDecoded ==
  <<"1", "0">> :>
    << [tid |-> <<"7">>, fields |-> <<DataNode("Error", <<"D", "5">>, << >>),
                                      DataNode("Empty", << >>, << >>)>>],
       [tid |-> <<"5">>, fields |-> <<DataNode("Error", <<"D", "9">>, << >>)>>] >>

Absent(name) == Element(name, {}, << >>)
Leaf(name, symbol) == Element(name, {<<symbol>>}, << >>)
Nest(name, children) == Element(name, {<< >>}, children)
message(tid, children) == Element("message", {<<tid>>}, children)
Root(messages) == Element("plan", {}, messages)

Sequence(last) ==
  message("8", <<Nest("sequence", <<Nest("group", <<Leaf("uInt32", "4")>>),
                                    Nest("group", <<last>>)>>)>>)

MCPlanFile ==
  "nested" :> Root(<<message("7", <<Leaf("int32", "4"), Nest("group", <<Leaf("int32", "5")>>)>>),
                     Sequence(Absent("uint32"))>>)
  @@
  "other" :> Root(<<message("7", <<Leaf("int32", "4"), Nest("group", <<Leaf("int32", "5")>>)>>),
                    Sequence(Leaf("uint32", "4"))>>)
  @@
  "zeros" :> Root(<<message("7", <<Element("int32", {<<"0", "4">>}, << >>),
                                   Element("comment", {}, << >>), Absent("group")>>)>>)
  @@
  "four" :> Root(<<Element("comment", {}, << >>),
                   message("7", <<Leaf("int32", "4"), Absent("group")>>)>>)
  @@
  "toomany" :> Root(<<message("7", <<Leaf("int32", "4"), Absent("group")>>),
                      Element("message", {}, <<Leaf("int32", "4"), Absent("group"),
                                               Leaf("int32", "4")>>)>>)
  @@
  "badgroup" :> Root(<<message("7", <<Leaf("int32", "4"),
                        Element("group", {}, <<Leaf("int32", "5")>>)>>)>>)
  @@
  "bytes" :> Root(<<Element("bytemessage", {},
                            <<Element("text", {<<"1", "0">>}, << >>)>>)>>)
  @@
  "errors" :> Root(<<message("7", <<Element("ERROR", {<<"D", "5">>}, << >>), Absent("group")>>),
                     message("5", <<Element("error", {<<"D", "9">>}, << >>)>>)>>)
  @@
  "colon" :> Root(<<message("9", <<Leaf("ascii", "4")>>)>>)

Call(flags, given, sending, expected) ==
  [runner |-> "runner" \in flags, network |-> "network" \in flags,
   bypass |-> "bypass" \in flags, tmpl |-> "tmpl" \in flags,
   pcap |-> "pcap" \in given, pdml |-> "pdml" \in given, plan |-> "plan" \in given,
   send |-> sending, expect |-> expected]

AllGiven == {"pcap", "pdml", "plan"}
Test == {"runner", "tmpl"}

(* As run.sh calls it, in all other ways with one plan. *)
MCInvocation ==
  {Call(Test, AllGiven, p[1], p[2]) :
     p \in {<<"nested", "nested">>, <<"nested", "other">>, <<"zeros", "four">>,
            <<"zeros", "zeros">>, <<"toomany", "four">>, <<"badgroup", "four">>,
            <<"bytes", "errors">>, <<"colon", "colon">>}}
  \cup
  {Call(Test, {}, "nested", "nested"),
   Call(Test \cup {"bypass"}, {"plan"}, "bytes", "errors"),
   Call(Test \cup {"bypass"}, {"pdml"}, "nested", "nested"),
   Call(Test \cup {"network"}, {}, "nested", "nested"),
   Call(Test \cup {"network"}, AllGiven, "nested", "other"),
   Call({"tmpl"}, AllGiven, "nested", "nested"),
   Call({}, {"pdml"}, "four", "four"),
   Call({}, {"plan"}, "nested", "nested"),
   Call(Test, {"pcap"}, NoFile, NoFile)}

(* The preferences of a plug-in as run_tshark expects it. *)
OldPreferences == ToSet(Preferences)

(* Those that proto_register_fast registers. *)
NewPreferences ==
  {"enabled", "port_list", "show_empty", "sci_notation", "show_field_dictionaries",
   "show_field_keys", "show_field_operators", "show_field_mandatoriness",
   "enable_dialogs", "enable_logging", "log_file_name"}
================================================================================
