---------------------------- MODULE PacketFastProofs ---------------------------
(***************************************************************************)
(* Proofs about PacketFast, for any port lists, template files, packets and*)
(* numbers of changes and edits.                                           *)
(***************************************************************************)
EXTENDS PacketFast, WellFoundedInduction, TLAPS

(***************************************************************************)
(* What the dissection of a packet relies on when it puts the file of      *)
(* port_map next to the flavor of the port list: in an enabled plug-in a   *)
(* port with templates is listed, and its templates are those of the item  *)
(* that the flavor is taken from.                                          *)
(***************************************************************************)
PortMapListed ==
  enabled =>
    \A p \in Port :
      port_map[p] # None =>
        /\ p \in ports(fast_uats)
        /\ port_map[p].file = LastItem(fast_uats, p).file

(* The data of a conversation are those of an item for one of its ports.   *)
ConversationListed ==
  enabled =>
    \A c \in Conversation :
      conversations[c] # None =>
        \E i \in DOMAIN fast_uats :
          /\ fast_uats[i].port \in c[2]
          /\ fast_uats[i].file = conversations[c].templates.file
          /\ fast_uats[i].flavor = conversations[c].flavor

(* What a packet was dissected with is still what its conversation has.    *)
KeptWithConversation ==
  \A frame \in Frame :
    packet_data[frame] # None =>
      packet_data[frame] = conversations[conversation(frame)]

IInv ==
  /\ TypeOK
  /\ TablesFollowPreferences
  /\ PortMapListed
  /\ ConversationListed
  /\ KeptWithConversation

(***************************************************************************)
(* A port that is listed has a last item: LastItem finds one.              *)
(***************************************************************************)
LEMMA LastItemListed ==
  ASSUME NEW uats \in Seq(UatItem), NEW p \in ports(uats)
  PROVE  \E i \in DOMAIN uats : uats[i] = LastItem(uats, p) /\ uats[i].port = p
<1> DEFINE Last(i) ==
      uats[i].port = p /\ \A j \in (i + 1)..Len(uats) : uats[j].port # p
           T == {Len(uats) - i : i \in {k \in DOMAIN uats : uats[k].port = p}}
<1>1. Len(uats) \in Nat /\ DOMAIN uats = 1..Len(uats)
  OBVIOUS
<1>2. T # {} /\ T \subseteq Nat
  <2>1. \A k \in DOMAIN uats : Len(uats) - k \in Nat
    BY <1>1
  <2>2. \E k \in DOMAIN uats : uats[k].port = p
    BY DEF ports
  <2> QED
    BY <2>1, <2>2
<1>3. \E x \in T : \A y \in T : ~(<<y, x>> \in OpToRel(<, Nat))
  BY <1>2, NatLessThanWellFounded, WFMin
<1>4. PICK i \in DOMAIN uats :
        uats[i].port = p /\ \A y \in T : ~(<<y, Len(uats) - i>> \in OpToRel(<, Nat))
  BY <1>3
<1>5. Last(i)
  <2> SUFFICES ASSUME NEW j \in (i + 1)..Len(uats), uats[j].port = p
               PROVE  FALSE
    BY <1>4
  <2>1. i \in 1..Len(uats)
    BY <1>1
  <2>2. /\ j \in 1..Len(uats) /\ Len(uats) - j < Len(uats) - i
        /\ Len(uats) - j \in Nat /\ Len(uats) - i \in Nat
    BY <1>1, <2>1
  <2>3. Len(uats) - j \in T
    BY <1>1, <2>2
  <2> QED
    BY <1>4, <2>2, <2>3 DEF OpToRel
<1> DEFINE k == CHOOSE i_1 \in DOMAIN uats : Last(i_1)
<1>6. k \in DOMAIN uats /\ Last(k)
  BY <1>5
<1>7. LastItem(uats, p) = uats[k]
  BY DEF LastItem
<1> HIDE DEF k
<1> QED
  BY <1>6, <1>7

(* All files and ports of a list are declared ones. *)
LEMMA FilesType ==
  ASSUME NEW uats \in Seq(UatItem)
  PROVE  /\ files(uats) \subseteq File
         /\ \A p \in ports(uats) : LastItem(uats, p).file \in files(uats)
<1>1. \A i \in DOMAIN uats : uats[i] \in UatItem
  OBVIOUS
<1>2. files(uats) \subseteq File
  BY <1>1 DEF files, UatItem
<1>3. ASSUME NEW p \in ports(uats)
      PROVE  LastItem(uats, p).file \in files(uats)
  BY LastItemListed DEF files
<1> QED
  BY <1>2, <1>3

(***************************************************************************)
(* After a file list is loaded each of its files has templates, and after  *)
(* the unused ones are removed no other file has.                          *)
(***************************************************************************)
LEMMA LoadType ==
  ASSUME TypeOK, NEW uats \in Seq(UatItem)
  PROVE  /\ Load(templates_map, uats) \in [File -> Nat \cup {None}]
         /\ RemoveUnused(Load(templates_map, uats), uats) \in [File -> Nat \cup {None}]
         /\ \A f \in files(uats) :
              /\ Load(templates_map, uats)[f] \in Nat
              /\ RemoveUnused(Load(templates_map, uats), uats)[f]
                   = Load(templates_map, uats)[f]
<1> DEFINE loaded == Load(templates_map, uats)
<1>1. loaded \in [File -> Nat \cup {None}]
  BY DEF TypeOK, Load
<1>2. files(uats) \subseteq File
  BY FilesType
<1>3. \A f \in files(uats) : loaded[f] \in Nat
  BY <1>2 DEF TypeOK, Load
<1> HIDE DEF loaded
<1>4. RemoveUnused(loaded, uats) \in [File -> Nat \cup {None}]
  BY <1>1 DEF RemoveUnused
<1>5. \A f \in files(uats) : RemoveUnused(loaded, uats)[f] = loaded[f]
  BY <1>2 DEF RemoveUnused
<1> QED
  BY <1>1, <1>3, <1>4, <1>5 DEF loaded

(* The new port map refers to templates of the listed files. *)
LEMMA PortMapType ==
  ASSUME NEW uats \in Seq(UatItem), NEW map,
         \A f \in files(uats) : map[f] \in Nat
  PROVE  /\ PortMap(map, uats) \in [Port -> Storage \cup {None}]
         /\ \A p \in Port :
              PortMap(map, uats)[p] # None =>
                /\ p \in ports(uats)
                /\ PortMap(map, uats)[p].file = LastItem(uats, p).file
                /\ PortMap(map, uats)[p].file \in files(uats)
                /\ PortMap(map, uats)[p].edit = map[PortMap(map, uats)[p].file]
<1>1. ASSUME NEW p \in ports(uats)
      PROVE  /\ LastItem(uats, p).file \in files(uats)
             /\ LastItem(uats, p).file \in File
             /\ map[LastItem(uats, p).file] \in Nat
  BY FilesType
<1>2. PortMap(map, uats) \in [Port -> Storage \cup {None}]
  BY <1>1 DEF PortMap, Storage
<1>3. ASSUME NEW p \in Port, PortMap(map, uats)[p] # None
      PROVE  /\ p \in ports(uats)
             /\ PortMap(map, uats)[p]
                  = [file |-> LastItem(uats, p).file, edit |-> map[LastItem(uats, p).file]]
  BY <1>3 DEF PortMap
<1> QED
  BY <1>1, <1>2, <1>3

(* No packet is dissected and nothing is loaded at first. *)
LEMMA InitInv == Init => IInv
<1> SUFFICES ASSUME Init PROVE IInv
  OBVIOUS
<1>1. TypeOK
  <2>1. /\ templates_map \in [File -> Nat \cup {None}]
        /\ port_map \in [Port -> Storage \cup {None}]
        /\ disk \in [File -> Nat]
    BY DEF Init
  <2>2. /\ conversations \in [Conversation -> ConversationData \cup {None}]
        /\ packet_data \in [Frame -> ConversationData \cup {None}]
    BY DEF Init, NoConversations, NothingShown
  <2>3. fast_uats \in Seq(UatItem)
    BY DEF Init
  <2> QED
    BY <2>1, <2>2, <2>3 DEF Init, TypeOK
<1>2. TablesFollowPreferences /\ PortMapListed /\ ConversationListed
  BY DEF Init, TablesFollowPreferences, PortMapListed, ConversationListed
<1>3. KeptWithConversation
  BY DEF Init, NothingShown, KeptWithConversation
<1> QED
  BY <1>1, <1>2, <1>3 DEF IInv

(***************************************************************************)
(* A change of the preferences: the tables are rebuilt for an enabled      *)
(* plug-in, and whatever was dissected is forgotten.                       *)
(***************************************************************************)
LEMMA ChangeStep ==
  ASSUME IInv, NEW on \in BOOLEAN, NEW uats \in Seq(UatItem), Change(on, uats)
  PROVE  IInv'
<1> DEFINE loaded == Load(templates_map, uats)
<1>1. /\ enabled' = on /\ fast_uats' = uats /\ disk' = disk
      /\ conversations' = NoConversations /\ packet_data' = NothingShown
      /\ changes' = changes + 1
  BY DEF Change
<1>2. TypeOK
  BY DEF IInv
<1>3. /\ loaded \in [File -> Nat \cup {None}]
      /\ RemoveUnused(loaded, uats) \in [File -> Nat \cup {None}]
      /\ \A f \in files(uats) :
           loaded[f] \in Nat /\ RemoveUnused(loaded, uats)[f] = loaded[f]
  BY <1>2, LoadType
<1>4. /\ PortMap(loaded, uats) \in [Port -> Storage \cup {None}]
      /\ \A p \in Port :
           PortMap(loaded, uats)[p] # None =>
             /\ p \in ports(uats)
             /\ PortMap(loaded, uats)[p].file = LastItem(uats, p).file
             /\ PortMap(loaded, uats)[p].file \in files(uats)
             /\ PortMap(loaded, uats)[p].edit = loaded[PortMap(loaded, uats)[p].file]
  BY <1>3, PortMapType
<1>5. ASSUME on
      PROVE  /\ registered' = endpoints(uats)
             /\ port_map' = PortMap(loaded, uats)
             /\ templates_map' = RemoveUnused(loaded, uats)
  BY <1>5 DEF Change, proto_reg_handoff_fast
<1>6. ASSUME ~on
      PROVE  UNCHANGED <<registered, port_map, templates_map>>
  BY <1>6 DEF Change, proto_reg_handoff_fast
<1> HIDE DEF loaded
<1>7. TypeOK'
  <2>1. /\ conversations' \in [Conversation -> ConversationData \cup {None}]
        /\ packet_data' \in [Frame -> ConversationData \cup {None}]
    BY <1>1 DEF NoConversations, NothingShown
  <2>2. registered' \subseteq {"udp.port", "tcp.port"} \X Nat
    <3>1. \A i \in DOMAIN uats : uats[i] \in UatItem
      OBVIOUS
    <3>2. CASE on
      BY <1>5, <3>1, <3>2 DEF endpoints, UatItem
    <3>3. CASE ~on
      BY <1>2, <1>6, <3>3 DEF TypeOK
    <3> QED
      BY <3>2, <3>3
  <2>3. /\ templates_map' \in [File -> Nat \cup {None}]
        /\ port_map' \in [Port -> Storage \cup {None}]
    <3>1. CASE on
      BY <1>3, <1>4, <1>5, <3>1
    <3>2. CASE ~on
      BY <1>2, <1>6, <3>2 DEF TypeOK
    <3> QED
      BY <3>1, <3>2
  <2> QED
    BY <1>1, <1>2, <2>1, <2>2, <2>3 DEF TypeOK
<1>8. TablesFollowPreferences'
  <2> SUFFICES ASSUME on PROVE TablesFollowPreferences'
    BY <1>1 DEF TablesFollowPreferences
  <2>1. {f \in File : templates_map'[f] # None} = files(uats)
    <3>1. files(uats) \subseteq File
      BY FilesType
    <3>2. \A f \in files(uats) : templates_map'[f] \in Nat
      BY <1>3, <1>5
    <3>3. \A f \in File \ files(uats) : templates_map'[f] = None
      BY <1>5 DEF RemoveUnused
    <3> QED
      BY <3>1, <3>2, <3>3, NoneAssumption
  <2>2. \A p \in Port :
          port_map'[p] # None => templates_map'[port_map'[p].file] = port_map'[p].edit
    BY <1>3, <1>4, <1>5
  <2> QED
    BY <1>1, <1>5, <2>1, <2>2 DEF TablesFollowPreferences
<1>9. PortMapListed'
  BY <1>1, <1>4, <1>5 DEF PortMapListed, LastItem
<1>10. ConversationListed' /\ KeptWithConversation'
  BY <1>1 DEF ConversationListed, KeptWithConversation, NoConversations, NothingShown
<1> QED
  BY <1>7, <1>8, <1>9, <1>10 DEF IInv

(***************************************************************************)
(* A frame that is looked at: its conversation keeps its data or is given  *)
(* those of the frame's destination port.                                  *)
(***************************************************************************)
LEMMA FramePort ==
  ASSUME NEW frame \in Frame
  PROVE  frame.dst \in Port
BY DEF Port

LEMMA NewConversationType ==
  ASSUME TypeOK, NEW frame \in Frame, HasTemplates(frame)
  PROVE  NewConversation(frame) \in ConversationData
<1>1. frame.dst \in Port
  BY FramePort
<1>2. port_map[frame.dst] \in Storage
  BY <1>1 DEF TypeOK, HasTemplates
<1>3. FlavorOf(frame.dst) \in Flavor \cup {None}
  <2>1. CASE frame.dst \in ports(fast_uats)
    <3>1. PICK i \in DOMAIN fast_uats : fast_uats[i] = LastItem(fast_uats, frame.dst)
      BY <2>1, LastItemListed DEF TypeOK
    <3>2. fast_uats[i] \in UatItem
      BY DEF TypeOK
    <3> QED
      BY <2>1, <3>1, <3>2 DEF FlavorOf, UatItem
  <2>2. CASE frame.dst \notin ports(fast_uats)
    BY <2>2 DEF FlavorOf
  <2> QED
    BY <2>1, <2>2
<1> QED
  BY <1>2, <1>3 DEF NewConversation, ConversationData

LEMMA DissectStep ==
  ASSUME IInv, NEW frame \in Frame, NEW tree \in BOOLEAN, dissect_fast(frame, tree)
  PROVE  IInv'
<1> DEFINE c == conversation(frame)
           data == Data(frame)
<1>1. /\ UNCHANGED <<enabled, fast_uats, disk, registered, templates_map, port_map, changes>>
      /\ conversations' = [conversations EXCEPT ![c] = data]
      /\ packet_data' = IF tree /\ packet_data[frame] = None
                        THEN [packet_data EXCEPT ![frame] = data] ELSE packet_data
      /\ conversations[c] # None \/ HasTemplates(frame)
  BY DEF dissect_fast
<1>2. TypeOK /\ c \in Conversation
  BY DEF IInv, Conversation
<1>3. data \in ConversationData
  <2>1. CASE conversations[c] # None
    BY <1>2, <2>1 DEF TypeOK, Data
  <2>2. CASE conversations[c] = None
    BY <1>1, <1>2, <2>2, NewConversationType DEF Data
  <2> QED
    BY <2>1, <2>2
<1>4. conversations[c] # None => data = conversations[c]
  BY DEF Data
<1>5. ASSUME enabled, conversations[c] = None
      PROVE  \E i \in DOMAIN fast_uats :
               /\ fast_uats[i].port \in c[2]
               /\ fast_uats[i].file = data.templates.file
               /\ fast_uats[i].flavor = data.flavor
  <2>1. frame.dst \in Port /\ port_map[frame.dst] # None
    BY <1>1, <1>5, FramePort DEF HasTemplates
  <2>2. /\ frame.dst \in ports(fast_uats)
        /\ port_map[frame.dst].file = LastItem(fast_uats, frame.dst).file
    BY <1>5, <2>1 DEF IInv, PortMapListed
  <2>3. PICK i \in DOMAIN fast_uats :
          fast_uats[i] = LastItem(fast_uats, frame.dst) /\ fast_uats[i].port = frame.dst
    BY <1>2, <2>2, LastItemListed DEF TypeOK
  <2>4. data = [templates |-> port_map[frame.dst],
                flavor |-> LastItem(fast_uats, frame.dst).flavor]
    BY <1>5, <2>2 DEF Data, NewConversation, FlavorOf
  <2>5. frame.dst \in c[2]
    BY DEF conversation
  <2> QED
    BY <2>2, <2>3, <2>4, <2>5
<1> HIDE DEF c, data
<1>6. TypeOK'
  <2>1. conversations' \in [Conversation -> ConversationData \cup {None}]
    BY <1>1, <1>2, <1>3 DEF TypeOK
  <2>2. packet_data' \in [Frame -> ConversationData \cup {None}]
    BY <1>1, <1>2, <1>3 DEF TypeOK
  <2> QED
    BY <1>1, <1>2, <2>1, <2>2 DEF TypeOK
<1>7. TablesFollowPreferences' /\ PortMapListed'
  BY <1>1 DEF IInv, TablesFollowPreferences, PortMapListed, LastItem
<1>8. ConversationListed'
  <2> SUFFICES ASSUME enabled, NEW d \in Conversation, conversations'[d] # None
               PROVE  \E i \in DOMAIN fast_uats :
                        /\ fast_uats[i].port \in d[2]
                        /\ fast_uats[i].file = conversations'[d].templates.file
                        /\ fast_uats[i].flavor = conversations'[d].flavor
    BY <1>1 DEF ConversationListed
  <2>1. conversations'[d] = IF d = c THEN data ELSE conversations[d]
    BY <1>1, <1>2 DEF TypeOK
  <2>2. CASE d = c /\ conversations[c] = None
    BY <1>5, <2>1, <2>2
  <2>3. CASE d # c \/ conversations[c] # None
    <3>1. conversations'[d] = conversations[d]
      BY <1>4, <2>1, <2>3
    <3> QED
      BY <3>1 DEF IInv, ConversationListed
  <2> QED
    BY <2>2, <2>3
<1>9. KeptWithConversation'
  <2> SUFFICES ASSUME NEW f \in Frame, packet_data'[f] # None
               PROVE  packet_data'[f] = conversations'[conversation(f)]
    BY DEF KeptWithConversation
  <2>1. conversation(f) \in Conversation
    BY DEF Conversation
  <2>2. CASE packet_data[f] # None
    <3>1. packet_data'[f] = packet_data[f]
      BY <1>1, <1>2, <2>2 DEF TypeOK
    <3>2. packet_data[f] = conversations[conversation(f)]
      BY <2>2 DEF IInv, KeptWithConversation
    <3>3. conversations'[conversation(f)] = conversations[conversation(f)]
      BY <1>1, <1>2, <1>4, <2>1, <2>2, <3>2 DEF TypeOK
    <3> QED
      BY <3>1, <3>2, <3>3
  <2>3. CASE packet_data[f] = None
    <3>1. f = frame /\ packet_data'[f] = data
      BY <1>1, <1>2, <2>3 DEF TypeOK
    <3>2. conversations'[conversation(f)] = data
      BY <1>1, <1>2, <3>1 DEF TypeOK, c
    <3> QED
      BY <3>1, <3>2
  <2> QED
    BY <2>2, <2>3
<1> QED
  BY <1>6, <1>7, <1>8, <1>9 DEF IInv

(* Edits of files and a reload touch nothing the tables depend on. *)
LEMMA OtherStep ==
  ASSUME IInv, EditFile \/ Reload \/ UNCHANGED vars
  PROVE  IInv'
<1>1. TypeOK
  BY DEF IInv
<1>2. UNCHANGED <<enabled, fast_uats, registered, templates_map, port_map, changes>>
  BY DEF EditFile, Reload, vars
<1>3. \/ UNCHANGED <<conversations, packet_data>>
      \/ conversations' = NoConversations /\ packet_data' = NothingShown
  BY DEF EditFile, Reload, vars
<1>4. disk' \in [File -> Nat]
  BY <1>1 DEF EditFile, Reload, vars, TypeOK
<1>5. TypeOK'
  <2>1. /\ conversations' \in [Conversation -> ConversationData \cup {None}]
        /\ packet_data' \in [Frame -> ConversationData \cup {None}]
    BY <1>1, <1>3 DEF TypeOK, NoConversations, NothingShown
  <2> QED
    BY <1>1, <1>2, <1>4, <2>1 DEF TypeOK
<1>6. TablesFollowPreferences' /\ PortMapListed'
  BY <1>2 DEF IInv, TablesFollowPreferences, PortMapListed, LastItem
<1>7. ConversationListed'
  BY <1>2, <1>3 DEF IInv, ConversationListed, NoConversations
<1>8. KeptWithConversation'
  BY <1>3 DEF IInv, KeptWithConversation, NothingShown
<1> QED
  BY <1>5, <1>6, <1>7, <1>8 DEF IInv

LEMMA Invariance == Spec => []IInv
<1>1. ASSUME IInv, [Next]_vars
      PROVE  IInv'
  <2>1. CASE SetEnabled
    <3> PICK on \in BOOLEAN : Change(on, fast_uats)
      BY <2>1 DEF SetEnabled
    <3> QED
      BY <1>1, ChangeStep DEF IInv, TypeOK
  <2>2. CASE SetPortList
    <3> PICK uats \in PortList : Change(enabled, uats)
      BY <2>2 DEF SetPortList
    <3> QED
      BY <1>1, ChangeStep, PortListAssumption DEF IInv, TypeOK
  <2>3. CASE Dissect
    BY <1>1, <2>3, DissectStep DEF Dissect
  <2>4. CASE EditFile \/ Reload \/ UNCHANGED vars
    BY <1>1, <2>4, OtherStep
  <2> QED
    BY <1>1, <2>1, <2>2, <2>3, <2>4 DEF Next
<1> QED
  BY <1>1, InitInv, PTL DEF Spec

(***************************************************************************)
(* The tables of packet-fast.c stay well typed, whatever lists are entered *)
(* and whatever is looked at: no dissection starts without templates.      *)
(***************************************************************************)
THEOREM PluginTypeCorrect == Spec => []TypeOK
<1>1. IInv => TypeOK
  BY DEF IInv
<1> QED
  BY Invariance, <1>1, PTL

(***************************************************************************)
(* While the plug-in is enabled, the registered ports, the loaded files    *)
(* and the port map are those of the port list, for any sequence of lists. *)
(***************************************************************************)
THEOREM TablesAgree == Spec => []TablesFollowPreferences
<1>1. IInv => TablesFollowPreferences
  BY DEF IInv
<1> QED
  BY Invariance, <1>1, PTL

(***************************************************************************)
(* A packet is shown with the file and the flavor of one item of the list, *)
(* an item for one of its ports.                                           *)
(***************************************************************************)
THEOREM PacketsShownAsListed == Spec => []ShownAsListed
<1>1. IInv => ShownAsListed
  <2> SUFFICES ASSUME IInv, NEW frame \in Frame, enabled, packet_data[frame] # None
               PROVE  \E i \in DOMAIN fast_uats :
                        /\ fast_uats[i].port \in {frame.src, frame.dst}
                        /\ fast_uats[i].file = packet_data[frame].templates.file
                        /\ fast_uats[i].flavor = packet_data[frame].flavor
    BY DEF ShownAsListed
  <2>1. packet_data[frame] = conversations[conversation(frame)]
    BY DEF IInv, KeptWithConversation
  <2>2. conversation(frame) \in Conversation /\ conversation(frame)[2] = {frame.src, frame.dst}
    BY DEF Conversation, conversation
  <2> QED
    BY <2>1, <2>2 DEF IInv, ConversationListed
<1> QED
  BY Invariance, <1>1, PTL

(***************************************************************************)
(* The packets of a conversation, in both directions, are shown with the   *)
(* same templates and flavor.                                              *)
(***************************************************************************)
THEOREM ConversationsUniform == Spec => []ConversationUniform
<1>1. IInv => ConversationUniform
  BY DEF IInv, KeptWithConversation, ConversationUniform
<1> QED
  BY Invariance, <1>1, PTL
================================================================================
