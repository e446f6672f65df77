----------------------------- MODULE FlowTable -----------------------------
(***************************************************************************)
(* The flow table (src/flow/flow_table.c): open addressing with linear     *)
(* probing over a caller-supplied array, tombstones for removed records,   *)
(* expiry by cutoff time, eviction of the oldest record and statistics of  *)
(* the probes.  slots is the caller's storage, which outlives the table;   *)
(* result is what the last call gave back: its error, whether it created a *)
(* flow, and the records it copied out of the table.                       *)
(***************************************************************************)
EXTENDS FlowRecord, FiniteSets, FiniteSetsExt

CONSTANTS
  Capacity,    \* number of slots
  Hash,        \* flow_key_hash: any function of the key
  Packets,     \* packets that can be processed
  Cutoffs,     \* cutoff times of flow_table_expire_before
  OutputSizes, \* sizes of the caller's array for expired records
  StatisticsMax  \* UINT64_MAX for the probe counters, scaled down

ASSUME CapacityAssumption == Capacity \in Nat \ {0}
ASSUME HashAssumption == Hash \in [FlowKeys -> Nat]
ASSUME PacketsAssumption == Packets \subseteq PacketInfo
ASSUME CutoffsAssumption == Cutoffs \subseteq Timestamp
ASSUME OutputSizesAssumption == OutputSizes \subseteq Nat
ASSUME StatisticsMaxAssumption == StatisticsMax \in Nat \ {0}

VARIABLES slots, count, probe_statistics, initialized, result

vars == <<slots, count, probe_statistics, initialized, result>>

Index == 0 .. Capacity - 1

(* The three kinds of slot.  Only an OCCUPIED slot has a readable record. *)
Empty == [state |-> "EMPTY"]
Deleted == [state |-> "DELETED"]
Occupied(r) == [state |-> "OCCUPIED", record |-> r]

Slot == {Empty, Deleted} \cup [state : {"OCCUPIED"}, record : FlowRecords]

ProbeStatistics ==
  [packet_operation_count : 0 .. StatisticsMax,
   total_inspected_slot_count : 0 .. StatisticsMax,
   maximum_probe_length : Nat, counters_saturated : BOOLEAN]

ZeroStatistics ==
  [packet_operation_count |-> 0, total_inspected_slot_count |-> 0,
   maximum_probe_length |-> 0, counters_saturated |-> FALSE]

Errors == {"0", "EINVAL", "ENOENT", "ENOSPC", "ENOTSUP", "EOVERFLOW"}

Result == [err : Errors, created : BOOLEAN, out : SUBSET FlowRecords]

OccupiedSlots(s) == {j \in Index : s[j].state = "OCCUPIED"}

-----------------------------------------------------------------------------
(* Probing. *)

(* The i-th slot inspected for key k: the home slot, then the next index   *)
(* until the end of the array, then from its start.                        *)
ProbeIndex(k, i) ==
  LET home == Hash[k] % Capacity IN
  IF home + i < Capacity THEN home + i ELSE home + i - Capacity

HoldsKey(slot, k) == slot.state = "OCCUPIED" /\ slot.record.key = k

(* Seeded fault: a tombstone ends the probe like an empty slot. *)
StopsAtTombstone(s, k, i) ==
  LET slot == s[ProbeIndex(k, i)] IN
  slot.state \in {"EMPTY", "DELETED"} \/ HoldsKey(slot, k)

(* The probe ends at an EMPTY slot or at the record of k. *)
StopsAt(s, k, i) ==
  LET slot == s[ProbeIndex(k, i)] IN slot.state = "EMPTY" \/ HoldsKey(slot, k)

(* Number of slots the probe for k looks at. *)
Inspected(s, k) ==
  LET stops == {i \in Index : StopsAt(s, k, i)} IN
  IF stops = {} THEN Capacity ELSE Min(stops) + 1

(* The offsets inspected that hold a slot in the given state. *)
InspectedIn(s, k, state) ==
  {i \in 0 .. Inspected(s, k) - 1 : s[ProbeIndex(k, i)].state = state}

LastSeen(s, j) == s[j].record.last_seen

(* Seeded fault: the comparison keeps the newest record. *)
NewestOffset(s, k, offsets) ==
  CHOOSE i \in offsets : \A n \in offsets :
    ~TimeBefore(LastSeen(s, ProbeIndex(k, i)), LastSeen(s, ProbeIndex(k, n)))

(* The oldest record among the offsets, the first inspected on a tie. *)
OldestOffset(s, k, offsets) ==
  CHOOSE i \in offsets : \A n \in offsets :
    /\ ~TimeBefore(LastSeen(s, ProbeIndex(k, n)), LastSeen(s, ProbeIndex(k, i)))
    /\ n < i => TimeBefore(LastSeen(s, ProbeIndex(k, i)), LastSeen(s, ProbeIndex(k, n)))

(* Is the record of k found by the probe? *)
Found(s, k) == \E i \in InspectedIn(s, k, "OCCUPIED") : HoldsKey(s[ProbeIndex(k, i)], k)

(* The slot the probe selects: the record of k, or else the first          *)
(* tombstone passed, or else the EMPTY slot that ended the probe.          *)
TargetSlot(s, k) ==
  LET deleted == InspectedIn(s, k, "DELETED") IN
  ProbeIndex(k, IF Found(s, k) \/ deleted = {} THEN Inspected(s, k) - 1 ELSE Min(deleted))

(* Return code of flow_table_probe: a whole round without EMPTY and        *)
(* without k must have seen count records, and is ENOSPC when it passed no *)
(* tombstone.                                                              *)
ProbeError(s, c, k) ==
  IF \E i \in Index : StopsAt(s, k, i) THEN "0"
  ELSE IF Cardinality(OccupiedSlots(s)) # c THEN "EINVAL"
  ELSE IF InspectedIn(s, k, "DELETED") # {} THEN "0"
  ELSE "ENOSPC"

-----------------------------------------------------------------------------
(* Statistics of the probes of the packet path. *)

Saturating(x, n) == IF n > StatisticsMax - x THEN StatisticsMax ELSE x + n

(* Seeded fault: the saturation flag describes the last addition only. *)
ForgetSaturation(st, inspected) ==
  LET operations == Saturating(st.packet_operation_count, 1)
      total == Saturating(st.total_inspected_slot_count, inspected) IN
  [packet_operation_count |-> operations,
   total_inspected_slot_count |-> total,
   maximum_probe_length |-> inspected,
   counters_saturated |-> operations = StatisticsMax]

flow_table_record_probe_statistics(st, inspected) ==
  LET operations == Saturating(st.packet_operation_count, 1)
      total == Saturating(st.total_inspected_slot_count, inspected) IN
  [packet_operation_count |-> operations,
   total_inspected_slot_count |-> total,
   maximum_probe_length |->
     IF inspected > st.maximum_probe_length THEN inspected ELSE st.maximum_probe_length,
   counters_saturated |->
     st.counters_saturated \/ operations = StatisticsMax \/ total = StatisticsMax]

-----------------------------------------------------------------------------
(* Operations. *)

flow_table_has_valid_shape == initialized /\ count <= Capacity

Return(err, created, out) == result' = [err |-> err, created |-> created, out |-> out]

(* A call that fails changes neither the records nor the count. *)
Fail(err) == Return(err, FALSE, {}) /\ UNCHANGED <<slots, count, initialized>>

Init ==
  /\ slots = [j \in Index |-> Empty]
  /\ count = 0
  /\ probe_statistics = ZeroStatistics
  /\ initialized = FALSE
  /\ result = [err |-> "0", created |-> FALSE, out |-> {}]

(* Seeded fault: the caller's storage is taken over as it is. *)
InitKeepsStorage ==
  /\ count' = 0
  /\ probe_statistics' = ZeroStatistics
  /\ initialized' = TRUE
  /\ Return("0", FALSE, {})
  /\ UNCHANGED slots

flow_table_init ==
  /\ slots' = [j \in Index |-> Empty]
  /\ count' = 0
  /\ probe_statistics' = ZeroStatistics
  /\ initialized' = TRUE
  /\ Return("0", FALSE, {})

(* The error of flow_table_process_packet_internal once the probe is done. *)
ProcessError(p, evict) ==
  LET k == KeyOf(p)
      probed == ProbeError(slots, count, k) IN
  CASE probed = "ENOSPC" /\ evict -> IF count # Capacity THEN "EINVAL" ELSE RecordInitError(p)
    [] probed # "0" /\ ~(probed = "ENOSPC" /\ evict) -> probed
    [] probed = "0" /\ Found(slots, k) ->
         RecordUpdateError(slots[TargetSlot(slots, k)].record, p)
    [] OTHER ->
         IF count >= Capacity \/ TargetSlot(slots, k) \in OccupiedSlots(slots)
         THEN "EINVAL" ELSE RecordInitError(p)

(* The packet's flow exists: its record is updated in place. *)
UpdateFlow(p) ==
  LET k == KeyOf(p) IN
  /\ Found(slots, k)
  /\ slots' = [slots EXCEPT ![TargetSlot(slots, k)] =
                 Occupied(flow_record_update(@.record, p))]
  /\ UNCHANGED count
  /\ Return("0", FALSE, {})

(* A new flow, and room for it: it takes the selected free slot. *)
InsertFlow(p) ==
  LET k == KeyOf(p) IN
  /\ ~Found(slots, k)
  /\ ProbeError(slots, count, k) = "0"
  /\ slots' = [slots EXCEPT ![TargetSlot(slots, k)] = Occupied(flow_record_init(p))]
  /\ count' = count + 1
  /\ Return("0", TRUE, {})

(* A new flow and a full table: the record of the oldest flow is copied    *)
(* out and its slot reused in place, so that count stays the same.         *)
ReplaceOldest(p) ==
  LET k == KeyOf(p)
      oldest == ProbeIndex(k, OldestOffset(slots, k, InspectedIn(slots, k, "OCCUPIED"))) IN
  /\ ProbeError(slots, count, k) = "ENOSPC"
  /\ slots' = [slots EXCEPT ![oldest] = Occupied(flow_record_init(p))]
  /\ UNCHANGED count
  /\ Return("0", TRUE, {slots[oldest].record})

(* The probe is recorded whether or not the packet is then accepted; the   *)
(* earlier errors leave before the probe.                                  *)
flow_table_process_packet_internal(p, evict) ==
  \/ /\ ~flow_table_has_valid_shape \/ KeyError(p) # "0"
     /\ Fail(IF flow_table_has_valid_shape THEN KeyError(p) ELSE "EINVAL")
     /\ UNCHANGED probe_statistics
  \/ /\ flow_table_has_valid_shape /\ KeyError(p) = "0"
     /\ probe_statistics' =
          IF ProbeError(slots, count, KeyOf(p)) = "EINVAL" THEN probe_statistics
          ELSE flow_table_record_probe_statistics(probe_statistics, Inspected(slots, KeyOf(p)))
     /\ UNCHANGED initialized
     /\ \/ ProcessError(p, evict) # "0" /\ Fail(ProcessError(p, evict))
        \/ /\ ProcessError(p, evict) = "0"
           /\ UpdateFlow(p) \/ InsertFlow(p) \/ ReplaceOldest(p)

flow_table_process_packet(p) == flow_table_process_packet_internal(p, FALSE)

flow_table_process_packet_with_oldest_eviction(p) ==
  flow_table_process_packet_internal(p, TRUE)

(* The end of flow_table_evict_oldest and flow_table_expire_before: the    *)
(* slots R become tombstones, and when no record is left every slot        *)
(* becomes EMPTY again.                                                    *)
Remove(R) ==
  /\ count' = count - Cardinality(R)
  /\ slots' = [j \in Index |-> IF count' = 0 THEN Empty
                               ELSE IF j \in R THEN Deleted ELSE slots[j]]

EvictError ==
  CASE ~flow_table_has_valid_shape \/ Cardinality(OccupiedSlots(slots)) # count -> "EINVAL"
    [] OTHER -> IF OccupiedSlots(slots) = {} THEN "ENOENT" ELSE "0"

(* The oldest record of the table, the lowest slot on a tie. *)
OldestSlot ==
  CHOOSE j \in OccupiedSlots(slots) : \A n \in OccupiedSlots(slots) :
    /\ ~TimeBefore(LastSeen(slots, n), LastSeen(slots, j))
    /\ n < j => TimeBefore(LastSeen(slots, j), LastSeen(slots, n))

flow_table_evict_oldest ==
  /\ UNCHANGED <<probe_statistics, initialized>>
  /\ \/ EvictError # "0" /\ Fail(EvictError)
     \/ /\ EvictError = "0"
        /\ Remove({OldestSlot})
        /\ Return("0", FALSE, {slots[OldestSlot].record})

Expired(cutoff) ==
  {j \in OccupiedSlots(slots) : TimeAtOrBefore(LastSeen(slots, j), cutoff)}

(* The array of the caller must be large enough before anything changes. *)
ExpireError(cutoff, size) ==
  CASE ~flow_table_has_valid_shape \/ Cardinality(OccupiedSlots(slots)) # count -> "EINVAL"
    [] OTHER -> IF Cardinality(Expired(cutoff)) > size THEN "ENOSPC" ELSE "0"

flow_table_expire_before(cutoff, size) ==
  /\ UNCHANGED <<probe_statistics, initialized>>
  /\ \/ ExpireError(cutoff, size) # "0" /\ Fail(ExpireError(cutoff, size))
     \/ /\ ExpireError(cutoff, size) = "0"
        /\ Remove(Expired(cutoff))
        /\ Return("0", FALSE, {slots[j].record : j \in Expired(cutoff)})

(* The table forgets its storage; the storage itself is the caller's. *)
flow_table_cleanup ==
  /\ count' = 0
  /\ probe_statistics' = ZeroStatistics
  /\ initialized' = FALSE
  /\ Return("0", FALSE, {})
  /\ UNCHANGED slots

(* Queries: they change nothing, so they are operators of the state. *)

flow_table_find(k) ==
  IF ~flow_table_has_valid_shape THEN [err |-> "EINVAL"]
  ELSE IF ProbeError(slots, count, k) = "EINVAL" THEN [err |-> "EINVAL"]
  ELSE IF Found(slots, k) THEN [err |-> "0", record |-> slots[TargetSlot(slots, k)].record]
  ELSE [err |-> "ENOENT"]

(* The index-th OCCUPIED slot in array order. *)
flow_table_get(index) ==
  LET rank(j) == Cardinality({n \in OccupiedSlots(slots) : n < j})
      hits == {j \in OccupiedSlots(slots) : rank(j) = index} IN
  IF ~flow_table_has_valid_shape THEN [err |-> "EINVAL"]
  ELSE IF index >= count THEN [err |-> "ERANGE"]
  ELSE IF hits = {} THEN [err |-> "EINVAL"]
  ELSE [err |-> "0", record |-> slots[Min(hits)].record]

flow_table_count == IF flow_table_has_valid_shape THEN count ELSE 0

flow_table_get_probe_statistics ==
  IF ~flow_table_has_valid_shape \/ probe_statistics.maximum_probe_length > Capacity
  THEN [err |-> "EINVAL"]
  ELSE [err |-> "0", statistics |-> probe_statistics]

Next ==
  \/ flow_table_init
  \/ \E p \in Packets : flow_table_process_packet(p)
  \/ \E p \in Packets : flow_table_process_packet_with_oldest_eviction(p)
  \/ flow_table_evict_oldest
  \/ \E cutoff \in Cutoffs, size \in OutputSizes : flow_table_expire_before(cutoff, size)
  \/ flow_table_cleanup

Spec == Init /\ [][Next]_vars

-----------------------------------------------------------------------------
(* Properties. *)

(* Every variable stays in its type. *)
TypeOK ==
  /\ slots \in [Index -> Slot]
  /\ count \in 0 .. Capacity
  /\ probe_statistics \in ProbeStatistics
  /\ initialized \in BOOLEAN
  /\ result \in Result

(* count is the number of OCCUPIED slots: the consistency tests of         *)
(* flow_table_probe, _evict_oldest and _expire_before compare the two and  *)
(* refuse all service when they differ.                                    *)
CountMatches == initialized => count = Cardinality(OccupiedSlots(slots))

(* No flow has two records, although a new record may be put into a        *)
(* tombstone that lies before an older slot of the same probe sequence.    *)
UniqueKeys ==
  initialized =>
    \A i, j \in OccupiedSlots(slots) : slots[i].record.key = slots[j].record.key => i = j

(* No EMPTY slot lies between the home slot of a key and its record.       *)
ProbeChain ==
  initialized =>
    \A i \in Index : \A j \in OccupiedSlots(slots) :
      ProbeIndex(slots[j].record.key, i) = j =>
        \A n \in 0 .. i - 1 : slots[ProbeIndex(slots[j].record.key, n)] # Empty

(* An empty table holds no tombstone, so its probes stop at the home slot. *)
EmptyTableIsClean ==
  initialized /\ count = 0 => \A j \in Index : slots[j] = Empty

(* The structure of the slots on which every operation relies. *)
Structure == CountMatches /\ UniqueKeys /\ ProbeChain /\ EmptyTableIsClean

(* flow_table_find returns the record of exactly the flows in the table,   *)
(* and never reports an inconsistent table.                                *)
FindIsExact ==
  initialized =>
    \A k \in {KeyOf(p) : p \in {q \in Packets : KeyError(q) = "0"}} :
      LET holders == {j \in OccupiedSlots(slots) : slots[j].record.key = k}
          found == flow_table_find(k) IN
      IF holders = {} THEN found.err = "ENOENT"
      ELSE found.err = "0" /\ \A j \in holders : found.record = slots[j].record

(* flow_table_get(0 .. flow_table_count - 1), the loop of the final CSV    *)
(* and the summary, visits every record once.                              *)
GetEnumeratesAll ==
  initialized =>
    LET visits == [i \in 0 .. flow_table_count - 1 |-> flow_table_get(i)] IN
    /\ \A i \in DOMAIN visits : visits[i].err = "0"
    /\ {visits[i].record : i \in DOMAIN visits} =
         {slots[j].record : j \in OccupiedSlots(slots)}
    /\ Cardinality({visits[i].record.key : i \in DOMAIN visits}) = flow_table_count
    /\ flow_table_get(flow_table_count).err = "ERANGE"

(* The probe statistics fit together: until a counter saturates the total  *)
(* lies between one slot and the longest probe per operation, and the flag *)
(* is set exactly when a counter is at its limit, also after later calls.  *)
StatisticsConsistent ==
  LET st == probe_statistics IN
  /\ st.maximum_probe_length <= Capacity
  /\ st.counters_saturated <=>
       StatisticsMax \in {st.packet_operation_count, st.total_inspected_slot_count}
  /\ ~st.counters_saturated =>
       /\ st.packet_operation_count <= st.total_inspected_slot_count
       /\ st.total_inspected_slot_count <=
            st.packet_operation_count * st.maximum_probe_length

(* The flows of the table as a map from keys to records. *)
Flows ==
  IF ~initialized THEN [k \in {} |-> {}]
  ELSE [k \in {slots[j].record.key : j \in OccupiedSlots(slots)} |->
          slots[CHOOSE j \in OccupiedSlots(slots) : slots[j].record.key = k].record]

Map == INSTANCE FlowMap WITH flows <- Flows, open <- initialized

(* The table implements the map of FlowMap: every call returns the error,  *)
(* the created flag and the records that the map prescribes, and leaves    *)
(* the flows that the map prescribes.  In particular no flow is dropped    *)
(* without being handed out, an eviction takes an oldest flow, and a       *)
(* failing call changes no flow.                                           *)
ImplementsFlowMap == Map!MapSpec
=============================================================================
