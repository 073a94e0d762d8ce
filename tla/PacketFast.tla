------------------------------ MODULE PacketFast ------------------------------
(***************************************************************************)
(* packet-fast.c as a Wireshark plug-in: what the preferences, the template*)
(* files and the packets a user looks at do to its tables, and with which  *)
(* templates and which flavor a packet is dissected in the end.            *)
(*                                                                         *)
(* Wireshark is external: it calls proto_reg_handoff_fast after every      *)
(* change of the preferences, dissect_fast for the packets on a registered *)
(* port, in any order and any number of times, and forgets conversations   *)
(* and packet data when it dissects a capture anew.                        *)
(***************************************************************************)
EXTENDS Integers, Sequences

CONSTANTS
  File,       \* names of template files
  Flavor,     \* the ProtocolImplem
  PortList,   \* the port lists the user may enter, sequences of UatItem
  Frame,      \* the captured packets: records of proto, src and dst port
  MaxChanges, \* bound on the changes of the preferences
  MaxEdits,   \* bound on the edits of template files
  None        \* no such entry

UatItem == [proto : {"udp.port", "tcp.port"}, port : Nat, file : File, flavor : Flavor]

ASSUME PortListAssumption == PortList \subseteq Seq(UatItem)
ASSUME FrameAssumption ==
  Frame \subseteq [proto : {"udp.port", "tcp.port"}, src : Nat, dst : Nat]
ASSUME BoundAssumption == MaxChanges \in Nat /\ MaxEdits \in Nat
ASSUME NoneAssumption  == None \notin Flavor \cup Nat

VARIABLES
  enabled,        \* the preference of that name
  fast_uats,      \* the port list
  disk,           \* per file, the number of its edits so far
  registered,     \* the <<proto, port>> for which Wireshark calls the dissector
  templates_map,  \* per file, the edit of it that is loaded, or None
  port_map,       \* per port, the file and edit of its templates, or None
  conversations,  \* per conversation, its fast_conversation_data_t, or None
  packet_data,    \* per frame, what it was dissected with, or None
  changes         \* number of changes of the preferences

vars == <<enabled, fast_uats, disk, registered, templates_map, port_map,
          conversations, packet_data, changes>>

ports(uats) == {uats[i].port : i \in DOMAIN uats}
files(uats) == {uats[i].file : i \in DOMAIN uats}
endpoints(uats) == {<<uats[i].proto, uats[i].port>> : i \in DOMAIN uats}

Port == (UNION {ports(uats) : uats \in PortList})
          \cup {frame.src : frame \in Frame} \cup {frame.dst : frame \in Frame}

(* The templates of a file as of an edit of it. *)
Storage == [file : File, edit : Nat]

(* The packets between the same ports are one conversation, whatever their *)
(* direction.                                                              *)
conversation(frame) == <<frame.proto, {frame.src, frame.dst}>>

Conversation == {conversation(frame) : frame \in Frame}

(* fast_conversation_data_t. *)
ConversationData == [templates : Storage, flavor : Flavor \cup {None}]

NoConversations == [c \in Conversation |-> None]
NothingShown    == [frame \in Frame |-> None]

(* The tables are typed: a port refers to templates that were loaded, and a*)
(* conversation to such templates.                                         *)
TypeOK ==
  /\ enabled \in BOOLEAN
  /\ fast_uats \in Seq(UatItem)
  /\ disk \in [File -> Nat]
  /\ registered \subseteq {"udp.port", "tcp.port"} \X Nat
  /\ templates_map \in [File -> Nat \cup {None}]
  /\ port_map \in [Port -> Storage \cup {None}]
  /\ conversations \in [Conversation -> ConversationData \cup {None}]
  /\ packet_data \in [Frame -> ConversationData \cup {None}]
  /\ changes \in Nat

Init ==
  /\ enabled = FALSE
  /\ fast_uats = << >>
  /\ disk = [f \in File |-> 0]
  /\ registered = {}
  /\ templates_map = [f \in File |-> None]
  /\ port_map = [p \in Port |-> None]
  /\ conversations = NoConversations
  /\ packet_data = NothingShown
  /\ changes = 0

--------------------------------------------------------------------------------
(* proto_reg_handoff_fast.                                                 *)

(* Mutant: templates that are no longer used stay loaded. *)
KeepUnused(map, uats) == map

(* fast_templates_find_unused and fast_templates_clean_unused. *)
RemoveUnused(map, uats) == [f \in File |-> IF f \in files(uats) THEN map[f] ELSE None]

(* A file is parsed unless templates of that name are loaded. *)
Load(map, uats) ==
  [f \in File |-> IF f \in files(uats) /\ map[f] = None THEN disk[f] ELSE map[f]]

(* A port that is listed twice belongs to the last item, in port_map as    *)
(* well as when the flavor is looked for.                                  *)
LastItem(uats, port) == uats[CHOOSE i \in DOMAIN uats :
  uats[i].port = port /\ \A j \in (i + 1)..Len(uats) : uats[j].port # port]

PortMap(map, uats) ==
  [p \in Port |-> IF p \in ports(uats)
                  THEN LET f == LastItem(uats, p).file IN [file |-> f, edit |-> map[f]]
                  ELSE None]

(* Mutant: a port is given its templates before they are loaded. *)
handoff_early(on, uats) ==
  IF on
  THEN LET loaded == Load(templates_map, uats) IN
       /\ registered' = endpoints(uats)
       /\ port_map' = PortMap(templates_map, uats)
       /\ templates_map' = RemoveUnused(loaded, uats)
  ELSE UNCHANGED <<registered, port_map, templates_map>>

(* Nothing at all happens while the plug-in is disabled. *)
proto_reg_handoff_fast(on, uats) ==
  IF on
  THEN LET loaded == Load(templates_map, uats) IN
       /\ registered' = endpoints(uats)
       /\ port_map' = PortMap(loaded, uats)
       /\ templates_map' = RemoveUnused(loaded, uats)
  ELSE UNCHANGED <<registered, port_map, templates_map>>

(* Wireshark dissects the capture anew after such a change. *)
Change(on, uats) ==
  /\ changes < MaxChanges
  /\ enabled' = on /\ fast_uats' = uats
  /\ proto_reg_handoff_fast(on, uats)
  /\ conversations' = NoConversations
  /\ packet_data' = NothingShown
  /\ changes' = changes + 1
  /\ UNCHANGED disk

SetEnabled == \E on \in BOOLEAN : Change(on, fast_uats)

SetPortList == \E uats \in PortList : Change(enabled, uats)

(* External: a template file is edited. *)
EditFile ==
  /\ \E f \in File : disk[f] < MaxEdits /\ disk' = [disk EXCEPT ![f] = @ + 1]
  /\ UNCHANGED <<enabled, fast_uats, registered, templates_map, port_map,
                 conversations, packet_data, changes>>

--------------------------------------------------------------------------------
(* dissect_fast.                                                           *)

Called(frame) ==
  <<frame.proto, frame.src>> \in registered \/ <<frame.proto, frame.dst>> \in registered

(* Mutant: the flavor is that of the first item for the port. *)
FirstFlavor(port) ==
  IF port \in ports(fast_uats)
  THEN fast_uats[CHOOSE i \in DOMAIN fast_uats :
         fast_uats[i].port = port /\ port \notin ports(SubSeq(fast_uats, 1, i - 1))].flavor
  ELSE None

(* The flavor is taken from the port list as it is now; without an item    *)
(* for the port it is what the allocation left there, here None.           *)
FlavorOf(port) ==
  IF port \in ports(fast_uats) THEN LastItem(fast_uats, port).flavor ELSE None

NewConversation(frame) ==
  [templates |-> port_map[frame.dst], flavor |-> FlavorOf(frame.dst)]

HasTemplates(frame) == port_map[frame.dst] # None

(* Mutant: the conversation is not asked whether it has data already. *)
DataAnew(frame) ==
  IF HasTemplates(frame) THEN NewConversation(frame)
  ELSE conversations[conversation(frame)]

Data(frame) ==
  IF conversations[conversation(frame)] # None
  THEN conversations[conversation(frame)] ELSE NewConversation(frame)

(* A frame that is looked at, in the packet list only or with its tree,    *)
(* which is kept.                                                          *)
dissect_fast(frame, tree) ==
  /\ Called(frame)
  /\ conversations[conversation(frame)] # None \/ HasTemplates(frame)
  /\ conversations' = [conversations EXCEPT ![conversation(frame)] = Data(frame)]
  /\ packet_data' = IF tree /\ packet_data[frame] = None
                    THEN [packet_data EXCEPT ![frame] = Data(frame)] ELSE packet_data
  /\ UNCHANGED <<enabled, fast_uats, disk, registered, templates_map, port_map, changes>>

Dissect == \E frame \in Frame, tree \in BOOLEAN : dissect_fast(frame, tree)

(* External: the user reloads the capture or opens it anew. *)
Reload ==
  /\ conversations' = NoConversations
  /\ packet_data' = NothingShown
  /\ UNCHANGED <<enabled, fast_uats, disk, registered, templates_map, port_map, changes>>

Next == SetEnabled \/ SetPortList \/ EditFile \/ Dissect \/ Reload

Spec == Init /\ [][Next]_vars

--------------------------------------------------------------------------------
(***************************************************************************)
(* While the plug-in is enabled its tables say what the port list says:    *)
(* it is called for exactly the listed ports, has exactly the listed files *)
(* loaded, and every port refers to templates that are loaded, however     *)
(* often lists were exchanged and files shared between them.               *)
(***************************************************************************)
TablesFollowPreferences ==
  enabled =>
    /\ registered = endpoints(fast_uats)
    /\ {f \in File : templates_map[f] # None} = files(fast_uats)
    /\ \A p \in Port :
         port_map[p] # None => templates_map[port_map[p].file] = port_map[p].edit

(***************************************************************************)
(* A packet is dissected with the file and the flavor of one and the same  *)
(* item of the port list, one for a port of the packet, though the file is *)
(* looked up in port_map, the flavor in the list, and a port may be listed *)
(* twice.                                                                  *)
(***************************************************************************)
ShownAsListed ==
  \A frame \in Frame :
    (enabled /\ packet_data[frame] # None) =>
      \E i \in DOMAIN fast_uats :
        /\ fast_uats[i].port \in {frame.src, frame.dst}
        /\ fast_uats[i].file = packet_data[frame].templates.file
        /\ fast_uats[i].flavor = packet_data[frame].flavor

(***************************************************************************)
(* Within a capture the two directions of a conversation are never shown   *)
(* with different templates or flavors, also when a file was edited or     *)
(* packets were first listed without their tree in between.                *)
(***************************************************************************)
ConversationUniform ==
  \A f, g \in Frame :
    (conversation(f) = conversation(g) /\ packet_data[f] # None /\ packet_data[g] # None)
      => packet_data[f] = packet_data[g]
================================================================================
