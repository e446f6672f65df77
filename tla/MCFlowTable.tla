---------------------------- MODULE MCFlowTable ----------------------------
(* Instances of the flow table.  Four UDP or TCP flows of one host pair    *)
(* collide in pairs: two have home slot 0, two the last slot, so that      *)
(* probes wrap around and chains cross.                                    *)
EXTENDS FlowTable

MCAddresses == {1, 2}
MCPorts == 0 .. 2

MCHash == [k \in FlowKeys |->
            IF k.endpoint_b.port = 0 THEN 0 ELSE Capacity * k.endpoint_b.port - 1]

At(s, us) == [seconds |-> s, microseconds |-> us]

(* A complete packet of 1 captured and 1 wire byte. *)
Complete(protocol, source, sport, destination, dport, time) ==
  [parse_status |-> "COMPLETE", layers |-> {"IPV4", protocol}, protocol |-> protocol,
   source |-> source, destination |-> destination,
   source_port |-> sport, destination_port |-> dport,
   tcp_flags |-> {"SYN"}, timestamp |-> time, captured_length |-> 1, wire_length |-> 1]

MCTimes == {At(0, 2), At(1, 1)}

Forward(protocol, port) ==
  {Complete(protocol, 1, 0, 2, port, t) : t \in MCTimes}

Backward(protocol, port) ==
  {Complete(protocol, 2, port, 1, 0, t) : t \in MCTimes}

(* Four flows, one of them seen in both directions, a packet whose length  *)
(* does not fit a counter and two packets without a flow key.              *)
MCPackets ==
  Forward("UDP", 0) \cup Backward("UDP", 0) \cup Forward("UDP", 1) \cup
  Forward("TCP", 2) \cup {Complete("ICMP", 1, 2, 2, 1, At(0, 2))} \cup
  {[Complete("UDP", 1, 0, 2, 2, At(0, 2)) EXCEPT !.wire_length = CounterMax + 1],
   [Complete("UDP", 1, 0, 2, 2, At(0, 2)) EXCEPT !.parse_status = "TRUNCATED"],
   [Complete("UDP", 1, 0, 2, 2, At(0, 2)) EXCEPT !.protocol = "OTHER"]}

MCCutoffs == {At(0, 1), At(0, 2), At(1, 1)}
MCOutputSizes == {1, Capacity}
=============================================================================
