---------------------------- MODULE MCDissectFast -----------------------------
(* Small instances of DissectFast over the tokens of MCTemplates. *)
EXTENDS DissectFast, MCTemplates

(* Packets of presence map, template id and up to two more tokens, and some *)
(* without an id: one message with all its fields, one cut short, or two.  *)
(* No template has the id 2.  <<0, 0>> is a 0 that is too long.            *)
WholePacket ==
  { Whole(<<map, id>> \o rest) :
      map \in { <<4>>, <<6>>, <<7>> },
      id \in { <<0>>, <<1>>, <<2>>, <<4>>, <<6>>, <<7>> },
      rest \in BoundedSeq({ <<0>>, <<6>>, <<1, 1>> }, 2) }
  \cup { Whole(<<map>> \o rest) :
           map \in { <<0>>, <<1>> }, rest \in BoundedSeq({ <<0>>, <<6>>, <<1, 1>> }, 2) }
  \cup { Whole(<< <<7>>, id, <<0, 0>>, <<0, 0>> >>) : id \in { <<0>>, <<1>>, <<4>> } }

(* The cut is within the first map, the id, a field or a second map.       *)
TornPacket ==
  { Torn(bytes) :
      bytes \in { << >>, << <<4>> >> }
              \cup { << <<map>>, id >> : map \in { 4, 7 }, id \in { <<0>>, <<1>>, <<4>>, <<6>> } }
              \cup { << <<7>>, <<1>>, <<6>> >>, << <<7>>, <<1>>, <<6>>, <<6>> >> } }

MCPacket == WholePacket \cup TornPacket

OnePair == { <<"a", "b">> }

(* A conversation and its other direction, one of them of flavor CME. *)
TwoPairs   == { <<"a", "b">>, <<"b", "a">> }
ResetPair  == { <<"b", "a">> }
================================================================================
