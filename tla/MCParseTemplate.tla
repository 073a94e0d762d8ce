--------------------------- MODULE MCParseTemplate ----------------------------
(***************************************************************************)
(* Template files with a template of up to two fields, which comes second, *)
(* and one of a single field before it, so that what one template leaves   *)
(* behind would show in the next.  One field is named "v-length", and one  *)
(* vector named v has "v-length" for its key.                              *)
(***************************************************************************)
EXTENDS ParseTemplate

(* A name without a suffix is given as its one symbol. *)
XML(tag, name, children) ==
  [tag |-> tag, name |-> IF name = Absent THEN Absent ELSE << name >>, key |-> Absent, dictionary |-> Absent,
   presence |-> Absent, value |-> Absent, id |-> 0, children |-> children]

Operator(tag, value) == [XML(tag, Absent, << >>) EXCEPT !.value = value]

Optional(x) == [x EXCEPT !.presence = "optional"]
In(x, dictionary) == [x EXCEPT !.dictionary = dictionary]

(* Integers, strings and vectors, some of which do not parse. *)
Simple ==
  { XML("UInt32", "a", << >>),
    XML("UInt32", "a", << Operator("Copy", Absent) >>),
    XML("Int64", "b", << Operator("Constant", Absent) >>),
    In(XML("Int32", "b", << Operator("Tail", Absent) >>), "template"),
    XML("String", "c", << Operator("Default", "bad") >>),
    XML("String", "c", << Operator("Increment", "5") >>),
    [XML("String", "c", << Operator("Delta", "5") >>) EXCEPT !.key = << "a" >>],
    [XML("UInt32", "v", << >>) EXCEPT !.name = << "v", "length" >>],
    [XML("ByteVector", "v", << >>) EXCEPT !.key = << "v", "length" >>],
    [XML("UInt64", "a", << Operator("Default", Absent) >>) EXCEPT !.presence = "bad"],
    XML("ByteVector", "v", << XML("comment", Absent, << >>), Operator("Delta", Absent) >>),
    In(XML("ByteVector", "v", << In(XML("length", Absent, << >>), "local") >>), "template"),
    Optional(XML("UnicodeString", "v", << XML("length", "l", << Operator("Tail", Absent) >>) >>)),
    XML("ByteVector", "v", << In(XML("length", "l", << >>), "local"), XML("length", "a", << >>) >>),
    XML("unknown", "a", << >>), XML("text", Absent, << >>) }

Decimals ==
  { XML("Decimal", "d", << >>),
    In(XML("Decimal", "d", << In(XML("exponent", Absent, << Operator("Copy", "5") >>), "local"),
                                  XML("mantissa", "m", << Operator("Delta", Absent) >>) >>),
       "template"),
    Optional(XML("Decimal", "d", << Operator("Default", "5") >>)),
    XML("Decimal", Absent, << XML("mantissa", Absent, << Operator("unknown", Absent) >>) >>),
    XML("Decimal", "d", << Operator("Increment", Absent) >>),
    XML("Decimal", "d", << In(XML("exponent", "m", << >>), "local"),
                           XML("exponent", Absent, << >>), Operator("Tail", Absent) >>) }

Nested ==
  { In(XML("Group", "g", << f >>), "local") : f \in Simple \cup Decimals }
  \cup { Optional(XML("Sequence", "s", << XML("length", Absent, << Operator("Copy", Absent) >>), f >>)) :
           f \in Decimals }
  \cup { In(XML("Sequence", Absent, << XML("Group", "g", << f >>) >>), "template") : f \in Decimals }

FieldElement == Simple \cup Decimals \cup Nested

Template(id, dictionary, fields) ==
  [XML("template", Absent, fields) EXCEPT !.id = id, !.dictionary = dictionary]

Before == { XML("UInt32", "a", << >>),
            XML("ByteVector", "v", << Operator("Delta", Absent) >>),
            In(XML("Decimal", "d", << >>), "local") }

Between == { XML(tag, Absent, << >>) : tag \in {"text", "unknown"} }
First   == { Template(1, "template", << f >>) : f \in Before }
Second  == { Template(t[1], t[2], << g, h >>) :
               t \in { <<1, Absent>>, <<2, "local">> }, g \in FieldElement, h \in Nested }

MCDocument == First \X Between \X Second

(* The elements of these files, and all those below them. *)
RECURSIVE WithChildren(_)
WithChildren(x) == {x} \cup UNION {WithChildren(x.children[i]) : i \in DOMAIN x.children}

MCElement ==
  First \cup Between \cup Second \cup UNION {WithChildren(x) : x \in Before \cup FieldElement}
================================================================================
