----------------------------- MODULE FlowRecord -----------------------------
(***************************************************************************)
(* One flow record (src/flow/flow_record.c): key, TCP state, a counter     *)
(* triple per direction and the first and last time seen.  The C functions *)
(* build the new record in a local and publish it only on success; here a  *)
(* call is an error and, when that is "0", a record.                       *)
(***************************************************************************)
EXTENDS FlowKey

CONSTANT CounterMax   \* UINT64_MAX, scaled down so that it can be reached

ASSUME CounterMaxAssumption == CounterMax \in Nat \ {0}

Counter == 0 .. CounterMax

DirectionStats ==
  [packet_count : Counter, captured_byte_count : Counter, wire_byte_count : Counter]

ZeroStats == [packet_count |-> 0, captured_byte_count |-> 0, wire_byte_count |-> 0]

FlowRecords ==
  [key : FlowKeys, tcp_state : TcpState, stats : [Directions -> DirectionStats],
   first_seen : Timestamp, last_seen : Timestamp]

(* Seeded fault: only the packet counter is guarded. *)
PacketOverflowOnly(s, p) == s.packet_count = CounterMax

(* The test of flow_direction_stats_add_packet: no counter may pass the    *)
(* largest value it can hold.                                              *)
StatsOverflow(s, p) ==
  \/ s.packet_count = CounterMax
  \/ p.captured_length > CounterMax - s.captured_byte_count
  \/ p.wire_length > CounterMax - s.wire_byte_count

flow_direction_stats_add_packet(s, p) ==
  [packet_count |-> s.packet_count + 1,
   captured_byte_count |-> s.captured_byte_count + p.captured_length,
   wire_byte_count |-> s.wire_byte_count + p.wire_length]

(* flow_record_init: the error, and the record of a first packet. *)
RecordInitError(p) ==
  CASE KeyError(p) # "0" -> KeyError(p)
    [] KeyError(p) = "0" /\ StatsOverflow(ZeroStats, p) -> "EOVERFLOW"
    [] OTHER -> "0"

flow_record_init(p) ==
  [key |-> KeyOf(p),
   tcp_state |-> IF p.protocol = "TCP"
                 THEN tcp_flow_state_observe(tcp_flow_state_init, DirectionOf(p), p.tcp_flags)
                 ELSE ZeroTcpState,
   stats |-> [d \in Directions |->
                IF d = DirectionOf(p)
                THEN flow_direction_stats_add_packet(ZeroStats, p) ELSE ZeroStats],
   first_seen |-> p.timestamp,
   last_seen |-> p.timestamp]

(* flow_record_update: the error, and the record after one more packet.    *)
(* The interval of activity grows both ways: packets may be captured out   *)
(* of timestamp order.                                                     *)
RecordUpdateError(r, p) ==
  CASE KeyError(p) # "0" -> KeyError(p)
    [] KeyError(p) = "0" /\ r.key # KeyOf(p) -> "ENOENT"
    [] KeyError(p) = "0" /\ r.key = KeyOf(p) ->
         IF r.tcp_state.initialized # (p.protocol = "TCP") THEN "EINVAL"
         ELSE IF StatsOverflow(r.stats[DirectionOf(p)], p) THEN "EOVERFLOW" ELSE "0"

(* Seeded fault: the last packet's time is taken as the time last seen. *)
UpdateInArrivalOrder(r, p) ==
  [r EXCEPT
     !.stats[DirectionOf(p)] = flow_direction_stats_add_packet(@, p),
     !.last_seen = p.timestamp]

flow_record_update(r, p) ==
  [r EXCEPT
     !.tcp_state = IF p.protocol = "TCP"
                   THEN tcp_flow_state_observe(@, DirectionOf(p), p.tcp_flags) ELSE @,
     !.stats[DirectionOf(p)] = flow_direction_stats_add_packet(@, p),
     !.first_seen = IF TimeBefore(p.timestamp, @) THEN p.timestamp ELSE @,
     !.last_seen = IF TimeBefore(@, p.timestamp) THEN p.timestamp ELSE @]
=============================================================================
