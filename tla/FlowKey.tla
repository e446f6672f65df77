------------------------------- MODULE FlowKey -------------------------------
(***************************************************************************)
(* Packet metadata and the bidirectional flow key derived from it          *)
(* (include/analyzer/packet_info.h, src/flow/flow_key.c).  Addresses and   *)
(* ports are numbers because the key orders them; the has_* booleans of    *)
(* packet_info_t are the set layers.                                       *)
(***************************************************************************)
EXTENDS FlowTime, TcpFlowState

CONSTANTS
  Addresses,   \* IPv4 addresses that occur
  Ports        \* transport ports that occur

ASSUME AddressesAssumption == Addresses \subseteq Nat
ASSUME PortsAssumption == Ports \subseteq Nat /\ 0 \in Ports

ParseStatus == {"NOT_STARTED", "COMPLETE", "TRUNCATED", "MALFORMED", "UNSUPPORTED"}

Transports == {"TCP", "UDP", "ICMP"}

PacketInfo ==
  [parse_status : ParseStatus,
   layers : SUBSET ({"IPV4"} \cup Transports),
   protocol : Transports \cup {"OTHER"},
   source : Addresses, destination : Addresses,
   source_port : Ports, destination_port : Ports,
   tcp_flags : SUBSET TcpFlags,
   timestamp : Timestamp,
   captured_length : Nat, wire_length : Nat]

Endpoint == [address : Addresses, port : Ports]

FlowKeys == [endpoint_a : Endpoint, endpoint_b : Endpoint, protocol : Transports]

(* flow_endpoint_compare(x, y) <= 0: the address decides, then the port. *)
EndpointAtOrBelow(x, y) ==
  \/ x.address < y.address
  \/ x.address = y.address /\ x.port <= y.port

(* ICMP carries no ports: both endpoints get port 0. *)
FlowEndpoint(p, address, port) ==
  [address |-> address, port |-> IF p.protocol = "ICMP" THEN 0 ELSE port]

SourceEndpoint(p) == FlowEndpoint(p, p.source, p.source_port)
DestinationEndpoint(p) == FlowEndpoint(p, p.destination, p.destination_port)

(* The error of flow_key_from_packet, "0" when a key is produced.  The     *)
(* transport layers present must be exactly the one the protocol names.    *)
KeyError(p) ==
  CASE p.parse_status # "COMPLETE" \/ "IPV4" \notin p.layers -> "EINVAL"
    [] p.parse_status = "COMPLETE" /\ "IPV4" \in p.layers ->
         IF p.protocol = "OTHER" THEN "ENOTSUP"
         ELSE IF p.layers \cap Transports = {p.protocol} THEN "0" ELSE "EINVAL"

(* Seeded fault: the key keeps the packet's own source and destination. *)
OneWayKey(p) ==
  [endpoint_a |-> SourceEndpoint(p), endpoint_b |-> DestinationEndpoint(p),
   protocol |-> p.protocol]

(* The key: the lower endpoint is endpoint_a, whichever side sent. *)
KeyOf(p) ==
  LET s == SourceEndpoint(p)
      d == DestinationEndpoint(p) IN
  IF EndpointAtOrBelow(s, d)
  THEN [endpoint_a |-> s, endpoint_b |-> d, protocol |-> p.protocol]
  ELSE [endpoint_a |-> d, endpoint_b |-> s, protocol |-> p.protocol]

DirectionOf(p) ==
  IF EndpointAtOrBelow(SourceEndpoint(p), DestinationEndpoint(p)) THEN A_TO_B ELSE B_TO_A
=============================================================================
