---------------------------- MODULE MCDissectTwin -----------------------------
(* Small instances of DissectTwin over the tokens of MCTemplates. *)
EXTENDS DissectTwin, MCTemplates

(* Packets of messages that carry their template id: presence map, id and  *)
(* up to two tokens, from which a second message may start, and two that   *)
(* are cut within a field.                                                 *)
TwinPacket ==
  { Whole(<<map, id>> \o rest) : map \in { <<4>>, <<6>> }, id \in { <<1>>, <<4>> },
                                 rest \in BoundedSeq({ <<0>>, <<6>> }, 2) }
  \cup { Torn(<< <<6>>, id >>) : id \in { <<1>>, <<4>> } }

(* Two conversations of one source.                                        *)
TwinPairs == { <<"a", "b">>, <<"a", "c">> }
TwinReset == { <<"a", "b">> }
================================================================================
