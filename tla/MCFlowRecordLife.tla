-------------------------- MODULE MCFlowRecordLife --------------------------
(* Three kinds of traffic.  One is between two hosts, of three protocols,  *)
(* with both orders of the addresses, of the ports and of the timestamps,  *)
(* one host talking to itself, one packet with more captured than was on   *)
(* the wire, and lengths that meet the limit of the counters exactly.  The *)
(* others are one TCP flow each: with the flags of every event of          *)
(* tcp_flow_state.c, and with packets that have no flag or two of which    *)
(* one takes precedence.                                                   *)
EXTENDS TcpLifecycle

MCAddresses == {1, 2}
MCPorts == 0 .. 2

At(s, us) == [seconds |-> s, microseconds |-> us]

Complete(protocol, source, sport, destination, dport, flags, time, captured, wire) ==
  [parse_status |-> "COMPLETE", layers |-> {"IPV4", protocol}, protocol |-> protocol,
   source |-> source, destination |-> destination,
   source_port |-> sport, destination_port |-> dport,
   tcp_flags |-> flags, timestamp |-> time, captured_length |-> captured, wire_length |-> wire]

MCMixedTraffic ==
  {Complete("TCP", 1, 2, 2, 1, {"SYN"}, At(1, 5), 1, 2),
   Complete("TCP", 2, 1, 1, 2, {"SYN", "ACK"}, At(0, 9), 2, 2),
   Complete("TCP", 1, 2, 2, 1, {"ACK"}, At(1, 4), 0, 1),
   Complete("TCP", 2, 2, 1, 1, {"SYN"}, At(2, 0), 1, 1),
   Complete("UDP", 1, 2, 1, 1, {}, At(1, 5), 1, 1),
   Complete("UDP", 1, 1, 1, 2, {}, At(0, 9), 1, 3),
   Complete("UDP", 1, 1, 1, 1, {}, At(2, 0), 1, 1),
   Complete("ICMP", 2, 0, 1, 0, {}, At(0, 9), 1, 1),
   Complete("ICMP", 1, 2, 2, 1, {}, At(1, 4), 4, 1),
   Complete("ICMP", 1, 2, 2, 1, {}, At(2, 8), 0, 2),
   [Complete("UDP", 1, 1, 1, 1, {}, At(2, 0), 1, 1) EXCEPT !.layers = {"IPV4", "TCP"}],
   [Complete("UDP", 1, 1, 1, 1, {}, At(2, 0), 1, 1) EXCEPT !.parse_status = "MALFORMED"]}

TcpPackets(flag_sets) ==
  {Complete("TCP", 1, 1, 2, 2, flags, At(0, 0), 0, 1) : flags \in flag_sets}
  \cup {Complete("TCP", 2, 2, 1, 1, flags, At(0, 0), 0, 1) : flags \in flag_sets}

MCTcpTraffic == TcpPackets({{"SYN"}, {"SYN", "ACK"}, {"ACK"}, {"FIN", "ACK"}, {"RST"}})

MCOddTraffic == TcpPackets({{}, {"SYN"}, {"ACK"}, {"FIN", "RST"}})

MCTraffics == [mixed |-> MCMixedTraffic, tcp |-> MCTcpTraffic, odd |-> MCOddTraffic]
MCTcpTraffics == [tcp |-> MCTcpTraffic]
=============================================================================
