---------------------------- MODULE MCCaptureApp ----------------------------
(* Instances of a run of the analyzer. *)
EXTENDS CaptureApp

MCIntMin == -20
MCAddresses == {1, 2}
MCPorts == 0 .. 2

At(s, us) == [seconds |-> s, microseconds |-> us]

Udp(source, destination, port, time) ==
  [parse_status |-> "COMPLETE", layers |-> {"IPV4", "UDP"}, protocol |-> "UDP",
   source |-> source, destination |-> destination, source_port |-> port,
   destination_port |-> port, tcp_flags |-> {}, timestamp |-> time,
   captured_length |-> 1, wire_length |-> 1]

(* Two flows, one of them in both directions with more than the timeout    *)
(* between and lengths that two packets of a kind, or the sum of both      *)
(* directions, take over the counters; a packet that is no flow's, one     *)
(* with an impossible time, one too long for the counters, one with more   *)
(* captured than sent, and two with times near the least one.              *)
MCPackets ==
  {[Udp(1, 2, 1, At(0, 0)) EXCEPT !.wire_length = 5],
   [Udp(2, 1, 1, At(4, 0)) EXCEPT !.wire_length = 5],
   Udp(1, 2, 2, At(1, 0)),
   [Udp(1, 2, 2, At(2, 0)) EXCEPT !.parse_status = "TRUNCATED"],
   Udp(1, 2, 2, At(0, MicrosecondsPerSecond)),
   [Udp(1, 2, 2, At(1, 0)) EXCEPT !.wire_length = CounterMax + 1],
   [Udp(1, 2, 2, At(1, 0)) EXCEPT !.captured_length = 2],
   Udp(1, 2, 1, At(IntMin, 0)), Udp(1, 2, 1, At(IntMin + 2, 0))}

Live(evict, limit, csv) ==
  [live |-> TRUE, evict |-> evict, packet_limit |-> limit, idle |-> 0, csv |-> csv]

Offline(idle, csv) ==
  [live |-> FALSE, evict |-> FALSE, packet_limit |-> 0, idle |-> idle, csv |-> csv]

MCDisturbed ==
  [c \in {Live(TRUE, 3, {"feature"}), Live(FALSE, 0, {}), Live(TRUE, 0, {}),
          Offline(3, Sinks), Offline(0, {"feature"})} |->
     [packets |-> MCPackets, length |-> 3, faults |-> FaultKinds]]

(* Runs that nothing disturbs, from a file: two flows, times in reach of   *)
(* the timeout, of the scan interval and of their sum.                     *)
MCTimedPackets == {Udp(1, 2, port, At(s, 0)) : port \in {1, 2}, s \in 0 .. 5}

MCQuiet ==
  [c \in {Offline(3, {}), Offline(0, {})} |->
     [packets |-> MCTimedPackets, length |-> 3, faults |-> {}]]

(* Live runs that only the signal may stop. *)
MCStopped ==
  [c \in {Live(FALSE, 0, {}), Live(FALSE, 2, {})} |->
     [packets |-> {Udp(1, 2, 1, At(0, 0))}, length |-> 3, faults |-> {}]]

MCEnvironment == MCDisturbed @@ MCQuiet
MCConfigs == DOMAIN MCEnvironment
MCAllPackets == MCPackets \cup MCTimedPackets
MCQuietConfigs == DOMAIN MCQuiet
MCStoppedConfigs == DOMAIN MCStopped
=============================================================================
