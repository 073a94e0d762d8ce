----------------------------- MODULE MCPacketFast -----------------------------
(* Port lists for PacketFast: one port, two ports, the same port for both  *)
(* transports, a shared file, an empty list; and the packets of a UDP and  *)
(* of two TCP conversations, one of them between two listed ports.         *)
EXTENDS PacketFast

CONSTANTS CME, Generic, Template1, Template2

Item(proto, port, file, flavor) ==
  [proto |-> proto, port |-> port, file |-> file, flavor |-> flavor]

MCPortList ==
  {<< >>,
   <<Item("udp.port", 1, Template1, CME)>>,
   <<Item("udp.port", 1, Template2, Generic), Item("tcp.port", 2, Template2, CME)>>,
   <<Item("udp.port", 1, Template1, CME), Item("tcp.port", 1, Template2, Generic)>>}

Packet(proto, src, dst) == [proto |-> proto, src |-> src, dst |-> dst]

MCFrame == {Packet("udp.port", 9, 1), Packet("udp.port", 1, 9),
            Packet("tcp.port", 9, 2), Packet("tcp.port", 2, 9),
            Packet("tcp.port", 1, 2), Packet("tcp.port", 2, 1)}
===============================================================================
