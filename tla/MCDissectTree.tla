---------------------------- MODULE MCDissectTree -----------------------------
(* A small instance of DissectTree: every kind of nesting in five templates. *)
EXTENDS DissectTree, MCTemplates

Leaf(ftype) == [ftype |-> ftype, children |-> << >>]

Scalar(type, op, mandatory, key) ==
  Leaf(F(type, op, mandatory, "global", 0, key, FALSE, 0))

Constant(type, mandatory, n) ==
  Leaf(F(type, "Constant", mandatory, "global", 0, NoKey, TRUE, n))

Inner(type, mandatory, op, key, children) ==
  [ftype |-> F(type, op, mandatory, "global", 0, key, FALSE, 0),
   children |-> children]

Group(mandatory, fields) == Inner("Group", mandatory, "None", NoKey, fields)

Fraction(mandatory, op, key, expt, mant) ==
  Inner("Decimal", mandatory, op, key,
        << Scalar("Int32", expt, mandatory, "e"), mant >>)

Decimal(mandatory, op, key, exptOp, mantOp) ==
  Fraction(mandatory, op, key, exptOp, Scalar("Int64", mantOp, M, "m"))

Sequence(length, fields) ==
  Inner("Sequence", length.ftype.mandatory, "None", NoKey,
        << length, Group(M, fields) >>)

Length(op, mandatory) == Scalar("UInt32", op, mandatory, "l")

Trees ==
  (* A sequence whose elements have presence maps of their own. *)
  0 :> << Sequence(Length("None", M), << Scalar("UInt32", "Copy", M, "k") >>),
          Scalar("UInt32", "Copy", M, "k") >>
  @@
  (* An optional group without a map and a decimal with a bit. *)
  1 :> << Group(O, << Scalar("UInt32", "None", M, "k") >>),
          Decimal(O, "None", "d", "Copy", "Delta") >>
  @@
  (* A group that needs a map only for the optional mantissa of its decimal*)
  (* and an optional sequence of groups that share the map of the message. *)
  4 :> << Group(M, << Fraction(M, "None", "d", "None", Scalar("Int64", "Copy", O, "m")) >>),
          Sequence(Length("Copy", O), << Scalar("UInt32", "None", O, "k") >>) >>
  @@
  (* Decimals with an operator of their own on one cell. *)
  6 :> << Decimal(O, "Copy", "d", "None", "None"),
          Decimal(M, "Delta", "d", "None", "None") >>
  @@
  (* A group within a group within the element of a sequence, and an       *)
  (* optional sequence of constant length.                                 *)
  7 :> << Sequence(Length("None", M),
                   << Group(O, << Group(M, << Scalar("UInt32", "Increment", M, "k") >>) >>) >>),
          Sequence(Constant("UInt32", O, 1), << Scalar("UInt32", "None", M, "j") >>) >>

RECURSIVE SubTrees(_)
SubTrees(nodes) ==
  FlattenSeq([i \in DOMAIN nodes |-> <<nodes[i]>> \o SubTrees(nodes[i].children)])

(* A node is the number of the first of its like. *)
Numbered == FlattenSeq(<< SubTrees(Trees[0]), SubTrees(Trees[1]), SubTrees(Trees[4]),
                          SubTrees(Trees[6]), SubTrees(Trees[7]) >>)

Numbers(nodes) ==
  [i \in DOMAIN nodes |-> CHOOSE k \in DOMAIN Numbered : Numbered[k] = nodes[i]]

MCNode     == DOMAIN Numbered
MCFType    == [k \in MCNode |-> Numbered[k].ftype]
MCChildren == [k \in MCNode |-> Numbers(Numbered[k].children)]
MCTemplate == [t \in DOMAIN Trees |-> Numbers(Trees[t])]

WholePacket ==
  { Whole(<<map, id>> \o rest) :
      map \in { <<4>>, <<6>>, <<7>> },
      id \in { <<0>>, <<1>>, <<4>>, <<6>>, <<7>> },
      rest \in BoundedSeq({ <<0>>, <<6>>, <<1, 1>> }, 2) \cup BoundedSeq({ <<0>>, <<6>> }, 3) }
  \cup { Whole(<< <<4>>, <<2>>, <<6>> >>), Whole(<< <<0>>, <<6>>, <<1, 1>> >>) }

(* Cut within a group's map, a field or a sequence of up to six elements.  *)
TornPacket ==
  { Torn(<< <<7>>, id >> \o rest) :
      id \in { <<0>>, <<1>>, <<4>>, <<7>> },
      rest \in BoundedSeq({ <<2>>, <<6>> }, 2) }
  \cup { Torn(<< >>) }

MCPacket == WholePacket \cup TornPacket

MCUninitValue == { [num |-> n, expt |-> n, text |-> << >>] : n \in {0, 1} }
================================================================================
