----------------------------- MODULE DissectTwin ------------------------------
(***************************************************************************)
(* Two dissectors watch the same capture.  The first, whose variables are  *)
(* those of DissectFast, dissects every packet.  The second dissects only  *)
(* the packets of the conversation watched, and of these, when the flavor  *)
(* of watched resets the dictionaries between packets, only those from     *)
(* some point on: Wireshark dissects a packet when it first has to show    *)
(* it, so which packets were dissected before is up to the user.           *)
(*                                                                         *)
(* Messages carry their template id here.  One that leaves it out takes    *)
(* the id of whatever message was dissected before it, in any              *)
(* conversation: template_id is static in dissect_fast_bytes.  And packets *)
(* are no shorter than the header of their flavor.                         *)
(***************************************************************************)
EXTENDS DissectFast

VARIABLES
  watched, \* the conversation the second dissector sees
  joined,  \* the second dissector has begun
  tables2, template_id2, phase2, pair2, pos2, next2, shown2, packets2,
  due2, latest2

vars2 == <<tables2, template_id2, phase2, pair2, pos2, next2, shown2, packets2,
           due2, latest2>>

Second == INSTANCE DissectFast
  WITH tables <- tables2, template_id <- template_id2, phase <- phase2,
       pair <- pair2, pos <- pos2, next <- next2, shown <- shown2,
       packets <- packets2, due <- due2, latest <- latest2

TwinInit ==
  /\ watched \in Pairs
  /\ Init /\ Second!Init
  /\ pair = watched /\ pair2 = watched
  /\ joined = (watched \notin ResetPairs)

(* The second dissector starts to watch, between two packets. *)
Join ==
  /\ ~joined /\ phase = "idle"
  /\ joined' = TRUE
  /\ UNCHANGED <<watched, vars, vars2>>

HasId == MessageHead(pos).hasId

(* The steps of one dissector on the packet it has. *)
Work1 == (BeginMessage /\ HasId) \/ (UnknownTemplate /\ HasId)
         \/ DissectField \/ EndMessage \/ EndPacket \/ Crash

Work2 == Second!BeginMessage \/ Second!UnknownTemplate
         \/ Second!DissectField \/ Second!EndMessage \/ Second!EndPacket
         \/ Second!Crash

Together == joined /\ pair = watched

(* A packet that only the first dissector dissects. *)
ReceiveAlone ==
  /\ ReceivePacket
  /\ ~(joined /\ pair' = watched)
  /\ UNCHANGED <<watched, joined, vars2>>

WorkAlone ==
  /\ ~(Together /\ phase2 # "idle")
  /\ Work1
  /\ UNCHANGED <<watched, joined, vars2>>

(* A packet that both do, step by step. *)
ReceiveTogether ==
  /\ joined
  /\ ReceivePacket /\ Second!ReceivePacket
  /\ pair' = watched /\ pair2' = watched
  /\ pos2' = pos'
  /\ UNCHANGED <<watched, joined>>

WorkTogether ==
  /\ Together /\ phase2 # "idle"
  /\ Work1 /\ Work2
  /\ UNCHANGED <<watched, joined>>

TwinNext ==
  Join \/ ReceiveAlone \/ WorkAlone \/ ReceiveTogether \/ WorkTogether

TwinSpec == TwinInit /\ [][TwinNext]_<<vars, vars2, watched, joined>>

--------------------------------------------------------------------------------
(***************************************************************************)
(* What is shown of the watched conversation does not depend on the        *)
(* packets of others, nor, where the dictionaries are reset, on which      *)
(* packets of its own were dissected before (get_conversation_table,       *)
(* clear_dictionaries and their use in dissect_fast).                      *)
(***************************************************************************)
ShownIndependently ==
  (Together /\ phase2 # "idle") =>
    /\ phase = phase2
    /\ pos = pos2
    /\ shown = shown2

(***************************************************************************)
(* Between packets both hold the same previous values for the watched      *)
(* conversation, so no later packet can tell them apart either.            *)
(***************************************************************************)
DictionariesIndependent ==
  (joined /\ (phase = "idle" \/ pair # watched)) =>
    LET c == get_conversation_table(watched[1], watched[2])
    IN  tables[c] = tables2[c]
================================================================================
