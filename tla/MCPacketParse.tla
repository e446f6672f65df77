---------------------------- MODULE MCPacketParse ----------------------------
(* Frames whose length fields agree, fall short of or exceed one another   *)
(* by one, with padding or without; every snapshot length.                 *)
EXTENDS PacketParse

MCAddresses == {1}
MCPorts == {0}

Plain ==
  [length |-> 60, ether_type |-> "IPV4", version |-> 4, ihl |-> 5, total_length |-> 28,
   fragmented |-> FALSE, protocol |-> "ICMP", data_offset |-> 0, udp_length |-> 0]

Variants ==
  {[Plain EXCEPT !.ihl = i, !.total_length = t, !.fragmented = g, !.length = n] :
     i \in {4, 5, 6}, t \in {0, 19, 23, 24, 27, 28, 32, 40, 44, 45}, g \in BOOLEAN,
     n \in {34, 58, 60}}

MCFrames ==
  {[Plain EXCEPT !.ether_type = "OTHER"], [Plain EXCEPT !.version = 6],
   [Plain EXCEPT !.ihl = 15, !.total_length = 80, !.length = 94]}
  \cup {[v EXCEPT !.protocol = p] : v \in Variants, p \in {"ICMP", "OTHER"}}
  \cup {[v EXCEPT !.protocol = "TCP", !.data_offset = d] : v \in Variants, d \in {4, 5, 6, 15}}
  \cup {[v EXCEPT !.protocol = "UDP", !.udp_length = u] : v \in Variants, u \in {7, 8, 9, 16}}
=============================================================================
