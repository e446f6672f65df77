--------------------------- MODULE FlowRecordLife ---------------------------
(***************************************************************************)
(* One flow record from flow_record_init through any sequence of           *)
(* flow_record_update calls (src/flow/flow_record.c), some of which fail,  *)
(* and the feature vector that it would be exported as after each of them. *)
(* accepted is the history: the packets whose call succeeded.              *)
(***************************************************************************)
EXTENDS FlowFeatures, Sequences, FiniteSetsExt

CONSTANTS
  Traffics,     \* named sets of packets offered to a record, of its flow or of others
  MaxAccepted   \* bound on the number of packets in the record

ASSUME TrafficsAssumption == \A t \in DOMAIN Traffics : Traffics[t] \subseteq PacketInfo
ASSUME MaxAcceptedAssumption == MaxAccepted \in Nat \ {0}

VARIABLES
  traffic,      \* which packets that may come, the same for the whole run
  record, accepted

vars == <<traffic, record, accepted>>

Init ==
  /\ traffic \in DOMAIN Traffics
  /\ \E p \in Traffics[traffic] :
       /\ RecordInitError(p) = "0"
       /\ record = flow_record_init(p)
       /\ accepted = <<p>>

(* A call that fails changes nothing, so only the successful ones step. *)
Update(p) ==
  /\ Len(accepted) < MaxAccepted
  /\ RecordUpdateError(record, p) = "0"
  /\ record' = flow_record_update(record, p)
  /\ accepted' = Append(accepted, p)
  /\ UNCHANGED traffic

Next == \E p \in Traffics[traffic] : Update(p)

Spec == Init /\ [][Next]_vars

-----------------------------------------------------------------------------

(* The variables stay in their types: no counter passes its limit. *)
TypeOK ==
  /\ traffic \in DOMAIN Traffics
  /\ record \in FlowRecords
  /\ accepted \in Seq(Traffics[traffic])

SentIn(d) == {i \in DOMAIN accepted : DirectionOf(accepted[i]) = d}

CapturedLengths == [i \in DOMAIN accepted |-> accepted[i].captured_length]
WireLengths == [i \in DOMAIN accepted |-> accepted[i].wire_length]

(* The sums over the packets of one direction. *)
StatsOf(d) ==
  [packet_count |-> Cardinality(SentIn(d)),
   captured_byte_count |-> SumFunctionOnSet(CapturedLengths, SentIn(d)),
   wire_byte_count |-> SumFunctionOnSet(WireLengths, SentIn(d))]

(* The counters of each direction are the exact sums over its packets, and *)
(* the interval of activity is that of the packets, in whatever order of   *)
(* their timestamps they arrived.                                          *)
SummaryIsExact ==
  /\ \A d \in Directions : record.stats[d] = StatsOf(d)
  /\ \A i \in DOMAIN accepted :
       /\ TimeAtOrBefore(record.first_seen, accepted[i].timestamp)
       /\ TimeAtOrBefore(accepted[i].timestamp, record.last_seen)
  /\ {record.first_seen, record.last_seen} \subseteq
       {accepted[i].timestamp : i \in DOMAIN accepted}

(* The two ends of a packet's conversation; an ICMP packet has no ports,   *)
(* whatever the port fields of packet_info_t hold.                         *)
EndsOf(p) ==
  IF p.protocol = "ICMP" THEN {<<p.source>>, <<p.destination>>}
  ELSE {<<p.source, p.source_port>>, <<p.destination, p.destination_port>>}

SameConversation(p, q) == p.protocol = q.protocol /\ EndsOf(p) = EndsOf(q)

(* A record takes the packets of one conversation, of both directions, and *)
(* refuses those of every other one; between two different ends the two    *)
(* directions are told apart by who sent.                                  *)
OneConversation ==
  LET first == accepted[1] IN
  /\ \A p \in Traffics[traffic] :
       KeyError(p) = "0" =>
         (RecordUpdateError(record, p) = "ENOENT" <=> ~SameConversation(first, p))
  /\ \A i \in DOMAIN accepted :
       Cardinality(EndsOf(first)) = 2 =>
         (DirectionOf(accepted[i]) = DirectionOf(first) <=>
            SourceEndpoint(accepted[i]) = SourceEndpoint(first))

(* A packet of the conversation is refused exactly when it would take a    *)
(* counter of its direction past the largest value.                        *)
RefusedOnlyWhenFull ==
  LET a == StatsOf(A_TO_B)
      b == StatsOf(B_TO_A)
      fits(s, p) == /\ s.packet_count + 1 <= CounterMax
                    /\ s.captured_byte_count + p.captured_length <= CounterMax
                    /\ s.wire_byte_count + p.wire_length <= CounterMax IN
  \A p \in Traffics[traffic] :
    KeyError(p) = "0" /\ SameConversation(accepted[1], p) =>
      (RecordUpdateError(record, p) = "0" <=> fits(IF DirectionOf(p) = A_TO_B THEN a ELSE b, p))

(* flow_features.h: the duration is last_seen minus first_seen. *)
Span(i, j) ==
  (accepted[j].timestamp.seconds - accepted[i].timestamp.seconds) * MicrosecondsPerSecond
    + accepted[j].timestamp.microseconds - accepted[i].timestamp.microseconds

(* A record has a feature row unless its packets are impossible (more      *)
(* captured than was on the wire, in one direction) or their sums or their *)
(* span exceed what the row can hold; and the row then describes the       *)
(* packets, and passes the checks of the export.                           *)
FeaturesMatchPackets ==
  LET a == StatsOf(A_TO_B)
      b == StatsOf(B_TO_A)
      spans == {Span(i, j) : i, j \in DOMAIN accepted}
      features == flow_features_from_record(record) IN
  /\ FeatureRowError(record) = "0" <=>
       /\ a.captured_byte_count <= a.wire_byte_count
       /\ b.captured_byte_count <= b.wire_byte_count
       /\ Len(accepted) <= CounterMax
       /\ a.wire_byte_count + b.wire_byte_count <= CounterMax
       /\ \A span \in spans : span <= DurationMax
  /\ FeatureRowError(record) = "0" =>
       /\ features.total_packet_count = Len(accepted)
       /\ features.total_wire_byte_count = a.wire_byte_count + b.wire_byte_count
       /\ features.duration_microseconds \in spans
       /\ \A span \in spans : span <= features.duration_microseconds
       /\ features.packet_count_imbalance_ratio[1] = features.packet_count_imbalance_ratio[2]
            <=> 0 \in {a.packet_count, b.packet_count}
=============================================================================
