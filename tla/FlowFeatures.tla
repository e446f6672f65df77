---------------------------- MODULE FlowFeatures ----------------------------
(***************************************************************************)
(* The feature vector of one flow (src/flow/flow_features.c) and the       *)
(* checks before it becomes a CSV row (src/output/flow_feature_export.c).  *)
(* A ratio is kept as its numerator and its denominator, and the means,    *)
(* which are quotients of the totals, are left out.                        *)
(***************************************************************************)
EXTENDS FlowRecord

CONSTANT DurationMax   \* UINT64_MAX microseconds, scaled down

ASSUME DurationMaxAssumption == DurationMax \in Nat

(* flow_features_direction_stats_are_valid *)
DirectionStatsValid(s) ==
  /\ s.packet_count = 0 => s.captured_byte_count = 0 /\ s.wire_byte_count = 0
  /\ s.captured_byte_count <= s.wire_byte_count

TotalPackets(r) == r.stats[A_TO_B].packet_count + r.stats[B_TO_A].packet_count

TotalCaptured(r) == r.stats[A_TO_B].captured_byte_count + r.stats[B_TO_A].captured_byte_count

TotalWire(r) == r.stats[A_TO_B].wire_byte_count + r.stats[B_TO_A].wire_byte_count

(* Seeded fault: the seconds are not borrowed from. *)
DurationWithoutBorrow(first, last) ==
  (last.seconds - first.seconds) * MicrosecondsPerSecond
    + (IF last.microseconds < first.microseconds
       THEN MicrosecondsPerSecond - first.microseconds + last.microseconds
       ELSE last.microseconds - first.microseconds)

(* flow_features_calculate_duration: seconds and microseconds are          *)
(* subtracted apart, with a borrow.                                        *)
DurationMicroseconds(first, last) ==
  IF last.microseconds < first.microseconds
  THEN (last.seconds - first.seconds - 1) * MicrosecondsPerSecond
         + (MicrosecondsPerSecond - first.microseconds + last.microseconds)
  ELSE (last.seconds - first.seconds) * MicrosecondsPerSecond
         + (last.microseconds - first.microseconds)

(* flow_features_from_record: its error, in the order of its checks. *)
FeaturesError(r) ==
  IF \/ (r.key.protocol = "TCP") # r.tcp_state.initialized
     \/ \E d \in Directions : ~DirectionStatsValid(r.stats[d]) THEN "EINVAL"
  ELSE IF TotalPackets(r) > CounterMax THEN "EOVERFLOW"
  ELSE IF TotalPackets(r) = 0 THEN "EINVAL"
  ELSE IF TotalCaptured(r) > CounterMax \/ TotalWire(r) > CounterMax THEN "EOVERFLOW"
  ELSE IF TimeBefore(r.last_seen, r.first_seen) THEN "EINVAL"
  ELSE IF DurationMicroseconds(r.first_seen, r.last_seen) > DurationMax THEN "EOVERFLOW"
  ELSE "0"

(* flow_features_calculate_imbalance, as numerator and denominator. *)
Imbalance(left, right, total) ==
  IF total = 0 THEN <<0, 1>>
  ELSE <<IF left >= right THEN left - right ELSE right - left, total>>

flow_features_from_record(r) ==
  [protocol |-> r.key.protocol,
   tcp_phase |-> IF r.key.protocol = "TCP" THEN r.tcp_state.phase ELSE "UNOBSERVED",
   tcp_state_applicable |-> r.key.protocol = "TCP",
   tcp_handshake_completed |-> r.key.protocol = "TCP" /\ r.tcp_state.handshake_completed,
   duration_microseconds |-> DurationMicroseconds(r.first_seen, r.last_seen),
   total_packet_count |-> TotalPackets(r),
   total_captured_byte_count |-> TotalCaptured(r),
   total_wire_byte_count |-> TotalWire(r),
   packet_count_imbalance_ratio |->
     Imbalance(r.stats[A_TO_B].packet_count, r.stats[B_TO_A].packet_count, TotalPackets(r)),
   wire_byte_count_imbalance_ratio |->
     Imbalance(r.stats[A_TO_B].wire_byte_count, r.stats[B_TO_A].wire_byte_count, TotalWire(r))]

(* flow_feature_export_ratio_is_valid *)
RatioValid(ratio) == 0 <= ratio[1] /\ ratio[1] <= ratio[2]

(* What flow_feature_export_write_csv_record refuses to print. *)
ExportError(f) ==
  IF \/ f.total_packet_count = 0
     \/ f.total_captured_byte_count > f.total_wire_byte_count
     \/ ~RatioValid(f.packet_count_imbalance_ratio)
     \/ ~RatioValid(f.wire_byte_count_imbalance_ratio) THEN "EINVAL"
  ELSE IF f.protocol = "TCP" THEN IF f.tcp_state_applicable THEN "0" ELSE "EINVAL"
  ELSE IF \/ f.tcp_state_applicable \/ f.tcp_phase # "UNOBSERVED"
          \/ f.tcp_handshake_completed THEN "EINVAL" ELSE "0"

(* app_write_flow_feature_csv_record: a record that has no row. *)
FeatureRowError(r) ==
  IF FeaturesError(r) # "0" THEN FeaturesError(r) ELSE ExportError(flow_features_from_record(r))
=============================================================================
