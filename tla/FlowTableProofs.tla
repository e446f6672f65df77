-------------------------- MODULE FlowTableProofs --------------------------
(***************************************************************************)
(* The flow table keeps its types and its structure for every capacity,    *)
(* every hash function and every set of packets.                           *)
(***************************************************************************)
EXTENDS FlowTable, ProofLemmas

-----------------------------------------------------------------------------
(* The probe sequence. *)

(* The home slot of a key, its hash modulo the capacity, is a slot. *)
LEMMA HomeInIndex == ASSUME NEW k \in FlowKeys PROVE Hash[k] % Capacity \in Index
<1>1. Hash[k] \in Nat
  BY HashAssumption
<1> QED BY <1>1, CapacityAssumption DEF Index

(* Every offset leads to a slot, ... *)
LEMMA ProbeIndexType ==
  ASSUME NEW k \in FlowKeys, NEW i \in Index
  PROVE  ProbeIndex(k, i) \in Index
BY HomeInIndex, CapacityAssumption DEF ProbeIndex, Index

(* ... no slot is reached by two offsets, ... *)
LEMMA ProbeIndexInjective ==
  ASSUME NEW k \in FlowKeys, NEW i \in Index, NEW n \in Index,
         ProbeIndex(k, i) = ProbeIndex(k, n)
  PROVE  i = n
BY HomeInIndex, CapacityAssumption DEF ProbeIndex, Index

(* ... and every slot is reached by one. *)
LEMMA ProbeIndexOnto ==
  ASSUME NEW k \in FlowKeys, NEW j \in Index
  PROVE  \E i \in Index : ProbeIndex(k, i) = j
<1> DEFINE home == Hash[k] % Capacity
<1>1. home \in Index
  BY HomeInIndex
<1> HIDE DEF home
<1>2. CASE j >= home
  <2>1. j - home \in Index /\ home + (j - home) = j /\ j < Capacity
    BY <1>1, <1>2, CapacityAssumption DEF Index
  <2>2. ProbeIndex(k, j - home) = j
    BY <2>1 DEF ProbeIndex, home
  <2> QED BY <2>1, <2>2
<1>3. CASE j < home
  <2>1. /\ j + Capacity - home \in Index
        /\ ~(home + (j + Capacity - home) < Capacity)
        /\ home + (j + Capacity - home) - Capacity = j
    BY <1>1, <1>3, CapacityAssumption DEF Index
  <2>2. ProbeIndex(k, j + Capacity - home) = j
    BY <2>1 DEF ProbeIndex, home
  <2> QED BY <2>1, <2>2
<1> QED BY <1>1, <1>2, <1>3, CapacityAssumption DEF Index

-----------------------------------------------------------------------------
(* The oldest record. *)

(* x is preferred to y as the oldest; the members preferred to y. *)
Better(T, x, y) == TimeBefore(T[x], T[y]) \/ (x < y /\ ~TimeBefore(T[y], T[x]))

Rivals(T, S, y) == {x \in S : Better(T, x, y)}

(* Among finitely many timestamps one is the oldest, with the least index  *)
(* among equals: the choice of flow_table_probe and of                     *)
(* flow_table_evict_oldest exists.                                         *)
LEMMA OldestExists ==
  ASSUME NEW S, S \subseteq Nat, IsFiniteSet(S), S # {},
         NEW T \in [S -> Timestamp]
  PROVE  \E i \in S : \A n \in S :
           /\ ~TimeBefore(T[n], T[i])
           /\ n < i => TimeBefore(T[i], T[n])
<1> DEFINE Ranks == {Cardinality(Rivals(T, S, i)) : i \in S}
<1>1. \A i \in S : IsFiniteSet(Rivals(T, S, i)) /\ Cardinality(Rivals(T, S, i)) \in Nat
  <2>1. \A i \in S : Rivals(T, S, i) \in SUBSET S
    BY DEF Rivals
  <2> QED BY <2>1, FS_Subset, FS_CardinalityType
<1>2. Min(Ranks) \in Ranks /\ \A m \in Ranks : Min(Ranks) <= m
  <2>1. Ranks \subseteq Nat /\ Ranks # {}
    BY <1>1
  <2> HIDE DEF Ranks
  <2> QED BY <2>1, LeastElement
<1>3. PICK i \in S : Cardinality(Rivals(T, S, i)) = Min(Ranks)
  BY <1>2
<1>4. ASSUME NEW m \in S, Better(T, m, i) PROVE FALSE
  <2>1. ASSUME NEW n \in S, Better(T, n, m) PROVE Better(T, n, i)
    <3>1. /\ T[n] \in Timestamp /\ T[m] \in Timestamp /\ T[i] \in Timestamp
          /\ n \in Nat /\ m \in Nat /\ i \in Nat
      OBVIOUS
    <3> QED BY <1>4, <2>1, <3>1, TimestampParts DEF Better, TimeBefore
  <2>2. ~Better(T, m, m)
    <3>1. T[m] \in Timestamp /\ m \in Nat
      OBVIOUS
    <3> QED BY <3>1, TimestampParts DEF Better, TimeBefore
  <2>3. Rivals(T, S, m) \in SUBSET Rivals(T, S, i) /\ Rivals(T, S, m) # Rivals(T, S, i)
    BY <1>4, <2>1, <2>2 DEF Rivals
  <2>4. Cardinality(Rivals(T, S, m)) < Cardinality(Rivals(T, S, i))
    <3>1. /\ Cardinality(Rivals(T, S, m)) <= Cardinality(Rivals(T, S, i))
          /\ Cardinality(Rivals(T, S, m)) # Cardinality(Rivals(T, S, i))
      BY <1>1, <2>3, FS_Subset
    <3> QED BY <1>1, <3>1
  <2>5. Min(Ranks) <= Cardinality(Rivals(T, S, m))
    BY <1>2
  <2> HIDE DEF Ranks
  <2> QED BY <1>1, <1>3, <2>4, <2>5
<1> QED BY <1>4 DEF Better

-----------------------------------------------------------------------------
(* What a probe finds. *)

IndexFinite == IsFiniteSet(Index) /\ Cardinality(Index) = Capacity

(* The array has Capacity slots. *)
LEMMA IndexIsFinite == IndexFinite
<1>1. 0 \in Int /\ Capacity - 1 \in Int
  BY CapacityAssumption
<1> QED BY <1>1, CapacityAssumption, FS_Interval DEF Index, IndexFinite

(* There are at most Capacity records, and they can be counted: Remove's   *)
(* count - Cardinality(R) is a natural number.                             *)
LEMMA OccupiedFinite ==
  ASSUME NEW s
  PROVE  /\ OccupiedSlots(s) \subseteq Index
         /\ IsFiniteSet(OccupiedSlots(s))
         /\ Cardinality(OccupiedSlots(s)) \in Nat
         /\ Cardinality(OccupiedSlots(s)) <= Capacity
<1>1. OccupiedSlots(s) \subseteq Index
  BY DEF OccupiedSlots
<1> QED BY <1>1, IndexIsFinite, FS_Subset, FS_CardinalityType DEF IndexFinite

(* The probe inspects at least one slot and at most all of them, and stops *)
(* nowhere before the last slot it inspects.                               *)
LEMMA InspectedRange ==
  ASSUME NEW s, NEW k
  PROVE  /\ Inspected(s, k) \in 1 .. Capacity
         /\ \A i \in Index : StopsAt(s, k, i) => Inspected(s, k) - 1 <= i
         /\ (\E i \in Index : StopsAt(s, k, i)) => StopsAt(s, k, Inspected(s, k) - 1)
         /\ (\A i \in Index : ~StopsAt(s, k, i)) => Inspected(s, k) = Capacity
<1> DEFINE stops == {i \in Index : StopsAt(s, k, i)}
<1>1. CASE stops = {}
  BY <1>1, CapacityAssumption DEF Inspected
<1>2. CASE stops # {}
  <2>1. stops \subseteq Nat
    BY CapacityAssumption DEF Index
  <2>2. Min(stops) \in stops /\ \A m \in stops : Min(stops) <= m
    <3> HIDE DEF stops
    <3> QED BY <1>2, <2>1, LeastElement
  <2>3. Inspected(s, k) = Min(stops) + 1
    BY <1>2 DEF Inspected
  <2>4. Min(stops) \in Index /\ StopsAt(s, k, Min(stops))
    BY <2>2
  <2>5. \A i \in Index : StopsAt(s, k, i) => Min(stops) <= i
    BY <2>2
  <2> HIDE DEF stops
  <2>6. Min(stops) \in 0 .. Capacity - 1 /\ Inspected(s, k) - 1 = Min(stops)
    BY <2>3, <2>4, CapacityAssumption DEF Index
  <2> QED BY <2>3, <2>4, <2>5, <2>6, CapacityAssumption
<1> QED BY <1>1, <1>2

(* A probe that finds k selects the slot that holds it. *)
LEMMA FoundTarget ==
  ASSUME NEW s, NEW k \in FlowKeys, Found(s, k)
  PROVE  /\ TargetSlot(s, k) \in OccupiedSlots(s)
         /\ s[TargetSlot(s, k)].record.key = k
<1>1. PICK i \in InspectedIn(s, k, "OCCUPIED") : HoldsKey(s[ProbeIndex(k, i)], k)
  BY DEF Found
<1>2. i \in 0 .. Inspected(s, k) - 1 /\ i \in Index
  BY InspectedRange, CapacityAssumption DEF InspectedIn, Index
<1>3. StopsAt(s, k, i)
  BY <1>1 DEF StopsAt
<1>4. i = Inspected(s, k) - 1
  BY <1>2, <1>3, InspectedRange
<1>5. TargetSlot(s, k) = ProbeIndex(k, i)
  BY <1>4 DEF TargetSlot
<1>6. ProbeIndex(k, i) \in Index
  BY <1>2, ProbeIndexType
<1> QED BY <1>1, <1>5, <1>6 DEF HoldsKey, OccupiedSlots

(* No EMPTY slot before a record in its probe sequence. *)
Chain(s) ==
  \A i \in Index : \A j \in OccupiedSlots(s) :
    ProbeIndex(s[j].record.key, i) = j =>
      \A n \in 0 .. i - 1 : s[ProbeIndex(s[j].record.key, n)] # Empty

Unique(s) ==
  \A i, j \in OccupiedSlots(s) : s[i].record.key = s[j].record.key => i = j

(* A slot whose state is EMPTY or DELETED is the constant of that name. *)
LEMMA SlotKinds ==
  ASSUME NEW slot \in Slot
  PROVE  /\ slot.state = "EMPTY" <=> slot = Empty
         /\ slot.state = "DELETED" <=> slot = Deleted
         /\ slot.state = "OCCUPIED" <=> slot \in [state : {"OCCUPIED"}, record : FlowRecords]
         /\ slot.state \in {"EMPTY", "DELETED", "OCCUPIED"}
<1>1. CASE slot = Empty
  BY <1>1 DEF Empty, Deleted
<1>2. CASE slot = Deleted
  BY <1>2 DEF Empty, Deleted
<1>3. CASE slot \in [state : {"OCCUPIED"}, record : FlowRecords]
  BY <1>3 DEF Empty, Deleted
<1> QED BY <1>1, <1>2, <1>3 DEF Slot

(* A probe that does not find k has proved that k is not in the table.     *)
LEMMA NotFoundMeansAbsent ==
  ASSUME NEW s \in [Index -> Slot], NEW k \in FlowKeys, Chain(s), ~Found(s, k)
  PROVE  \A j \in OccupiedSlots(s) : s[j].record.key # k
<1> SUFFICES ASSUME NEW j \in OccupiedSlots(s), s[j].record.key = k
             PROVE  FALSE
  OBVIOUS
<1> DEFINE n == Inspected(s, k) - 1
<1>1. PICK i \in Index : ProbeIndex(k, i) = j
  BY ProbeIndexOnto DEF OccupiedSlots
<1>2. StopsAt(s, k, i)
  BY <1>1 DEF StopsAt, HoldsKey, OccupiedSlots
<1>3. n \in Index /\ n <= i /\ StopsAt(s, k, n)
  BY <1>2, InspectedRange, CapacityAssumption DEF Index
<1>4. n \in 0 .. Inspected(s, k) - 1
  BY <1>3, InspectedRange, CapacityAssumption DEF Index
<1>5. ~HoldsKey(s[ProbeIndex(k, n)], k)
  BY <1>4 DEF Found, InspectedIn, HoldsKey
<1>6. s[ProbeIndex(k, n)] = Empty
  <2>1. s[ProbeIndex(k, n)] \in Slot
    BY <1>3, ProbeIndexType
  <2> QED BY <1>3, <1>5, <2>1, SlotKinds DEF StopsAt
<1>7. n # i
  BY <1>1, <1>5 DEF HoldsKey, OccupiedSlots
<1>8. n \in 0 .. i - 1
  BY <1>3, <1>7, CapacityAssumption DEF Index
<1> QED BY <1>1, <1>6, <1>8 DEF Chain

(* A probe that does not find k and reports no error selects a free slot,  *)
(* with no EMPTY slot before it.                                           *)
LEMMA FreeTarget ==
  ASSUME NEW s \in [Index -> Slot], NEW k \in FlowKeys, NEW c,
         ~Found(s, k), ProbeError(s, c, k) = "0"
  PROVE  \E o \in Index :
           /\ TargetSlot(s, k) = ProbeIndex(k, o)
           /\ s[ProbeIndex(k, o)] \in {Empty, Deleted}
           /\ \A m \in 0 .. o - 1 : s[ProbeIndex(k, m)] # Empty
<1> DEFINE deleted == InspectedIn(s, k, "DELETED")
           last == Inspected(s, k) - 1
<1>1. last \in Index /\ 0 .. last \subseteq Index
  BY InspectedRange, CapacityAssumption DEF Index
<1>2. ASSUME NEW o \in 0 .. last PROVE \A m \in 0 .. o - 1 : s[ProbeIndex(k, m)] # Empty
  <2> SUFFICES ASSUME NEW m \in 0 .. o - 1 PROVE s[ProbeIndex(k, m)] # Empty
    OBVIOUS
  <2>1. m \in Index /\ m < last
    BY <1>1, CapacityAssumption DEF Index
  <2>2. ~StopsAt(s, k, m)
    BY <1>1, <2>1, InspectedRange, CapacityAssumption DEF Index
  <2>3. s[ProbeIndex(k, m)] \in Slot
    BY <2>1, ProbeIndexType
  <2> QED BY <2>2, <2>3, SlotKinds DEF StopsAt
<1>3. CASE deleted = {}
  <2>1. TargetSlot(s, k) = ProbeIndex(k, last)
    BY <1>3 DEF TargetSlot
  <2>2. StopsAt(s, k, last)
    BY <1>3, InspectedRange DEF ProbeError
  <2>3. last \in 0 .. last
    BY <1>1, CapacityAssumption DEF Index
  <2>4. ~HoldsKey(s[ProbeIndex(k, last)], k)
    BY <2>3 DEF Found, InspectedIn, HoldsKey
  <2>5. s[ProbeIndex(k, last)] \in Slot
    BY <1>1, ProbeIndexType
  <2>6. s[ProbeIndex(k, last)] = Empty
    BY <2>2, <2>4, <2>5, SlotKinds DEF StopsAt
  <2> QED BY <1>1, <1>2, <2>1, <2>3, <2>6
<1>4. CASE deleted # {}
  <2>1. deleted \subseteq Nat
    BY DEF InspectedIn
  <2>2. Min(deleted) \in deleted
    <3> HIDE DEF deleted
    <3> QED BY <1>4, <2>1, LeastElement
  <2>3. TargetSlot(s, k) = ProbeIndex(k, Min(deleted))
    BY <1>4 DEF TargetSlot
  <2>4. /\ Min(deleted) \in 0 .. last
        /\ s[ProbeIndex(k, Min(deleted))].state = "DELETED"
    <3> DEFINE o == Min(deleted)
    <3>1. o \in deleted
      BY <2>2
    <3> HIDE DEF o
    <3>2. o \in 0 .. last /\ s[ProbeIndex(k, o)].state = "DELETED"
      BY <3>1 DEF InspectedIn
    <3> QED BY <3>2 DEF o
  <2> HIDE DEF deleted
  <2>5. Min(deleted) \in Index /\ s[ProbeIndex(k, Min(deleted))] \in Slot
    BY <1>1, <2>4, ProbeIndexType
  <2>6. s[ProbeIndex(k, Min(deleted))] = Deleted
    BY <2>4, <2>5, SlotKinds
  <2> QED BY <1>2, <2>3, <2>4, <2>5, <2>6
<1> QED BY <1>3, <1>4

(* ENOSPC means what it says: every slot is OCCUPIED, by another key, and  *)
(* the probe has seen all of them.                                         *)
LEMMA FullTable ==
  ASSUME NEW s \in [Index -> Slot], NEW k \in FlowKeys, NEW c, ProbeError(s, c, k) = "ENOSPC"
  PROVE  /\ OccupiedSlots(s) = Index
         /\ InspectedIn(s, k, "OCCUPIED") = Index
         /\ \A j \in Index : s[j].record.key # k
         /\ ~Found(s, k)
<1>1. /\ \A i \in Index : ~StopsAt(s, k, i)
      /\ InspectedIn(s, k, "DELETED") = {}
  BY DEF ProbeError
<1>2. Inspected(s, k) = Capacity /\ 0 .. Inspected(s, k) - 1 = Index
  BY <1>1, InspectedRange DEF Index
<1>3. ASSUME NEW i \in Index
      PROVE  /\ s[ProbeIndex(k, i)].state = "OCCUPIED"
             /\ ~HoldsKey(s[ProbeIndex(k, i)], k)
  <2>1. s[ProbeIndex(k, i)].state # "DELETED"
    BY <1>1, <1>2 DEF InspectedIn
  <2>2. s[ProbeIndex(k, i)].state # "EMPTY" /\ ~HoldsKey(s[ProbeIndex(k, i)], k)
    BY <1>1 DEF StopsAt
  <2>3. s[ProbeIndex(k, i)] \in Slot
    BY ProbeIndexType
  <2> QED BY <2>1, <2>2, <2>3, SlotKinds
<1>4. \A j \in Index : s[j].state = "OCCUPIED" /\ s[j].record.key # k
  BY <1>3, ProbeIndexOnto DEF HoldsKey
<1>5. InspectedIn(s, k, "OCCUPIED") = Index
  BY <1>2, <1>3 DEF InspectedIn
<1> QED BY <1>3, <1>4, <1>5 DEF OccupiedSlots, Found

-----------------------------------------------------------------------------
(* How the two kinds of change keep the structure of the slots. *)

(* A slot that is given a record is an OCCUPIED slot with that record. *)
LEMMA OccupiedType ==
  ASSUME NEW r \in FlowRecords
  PROVE  /\ Occupied(r) \in Slot
         /\ Occupied(r).state = "OCCUPIED"
         /\ Occupied(r).record = r
         /\ Occupied(r) # Empty
BY DEF Occupied, Slot, Empty

(* A record is put where its probe leads: no EMPTY slot is skipped, and no *)
(* other slot holds its key.                                               *)
LEMMA PutKeepsStructure ==
  ASSUME NEW s \in [Index -> Slot], NEW sn \in [Index -> Slot],
         NEW r \in FlowRecords, NEW o \in Index,
         Chain(s), Unique(s),
         \A m \in 0 .. o - 1 : s[ProbeIndex(r.key, m)] # Empty,
         \A j \in OccupiedSlots(s) : s[j].record.key = r.key => j = ProbeIndex(r.key, o),
         \A j \in Index : sn[j] = IF j = ProbeIndex(r.key, o) THEN Occupied(r) ELSE s[j]
  PROVE  /\ OccupiedSlots(sn) = OccupiedSlots(s) \cup {ProbeIndex(r.key, o)}
         /\ Chain(sn)
         /\ Unique(sn)
<1> DEFINE t == ProbeIndex(r.key, o)
<1>1. r.key \in FlowKeys
  BY DEF FlowRecords
<1>2. t \in Index
  BY <1>1, ProbeIndexType
<1>3. sn[t] = Occupied(r) /\ \A j \in Index \ {t} : sn[j] = s[j]
  BY <1>2
<1>4. OccupiedSlots(sn) = OccupiedSlots(s) \cup {t}
  BY <1>2, <1>3, OccupiedType DEF OccupiedSlots
<1>5. \A j \in Index : s[j] # Empty => sn[j] # Empty
  BY <1>3, OccupiedType
<1>6. Chain(sn)
  <2> SUFFICES ASSUME NEW i \in Index, NEW j \in OccupiedSlots(sn),
                      ProbeIndex(sn[j].record.key, i) = j,
                      NEW n \in 0 .. i - 1
               PROVE  sn[ProbeIndex(sn[j].record.key, n)] # Empty
    BY DEF Chain
  <2>1. n \in Index
    BY CapacityAssumption DEF Index
  <2>2. CASE j = t
    <3>1. sn[j].record.key = r.key
      BY <1>3, <2>2, OccupiedType
    <3>2. i = o
      BY <1>1, <2>2, <3>1, ProbeIndexInjective
    <3>3. s[ProbeIndex(r.key, n)] # Empty
      BY <3>2
    <3> QED BY <1>1, <1>5, <2>1, <3>1, <3>3, ProbeIndexType
  <2>3. CASE j # t
    <3>1. j \in OccupiedSlots(s) /\ sn[j] = s[j]
      BY <1>3, <1>4, <2>3 DEF OccupiedSlots
    <3>2. s[j].record.key \in FlowKeys
      BY <3>1, SlotKinds DEF OccupiedSlots, FlowRecords
    <3>3. s[ProbeIndex(s[j].record.key, n)] # Empty
      BY <3>1 DEF Chain
    <3> QED BY <1>5, <2>1, <3>1, <3>2, <3>3, ProbeIndexType
  <2> QED BY <2>2, <2>3
<1>7. Unique(sn)
  <2> SUFFICES ASSUME NEW i \in OccupiedSlots(sn), NEW j \in OccupiedSlots(sn),
                      sn[i].record.key = sn[j].record.key
               PROVE  i = j
    BY DEF Unique
  <2>1. sn[t].record.key = r.key
    BY <1>3, OccupiedType
  <2>2. \A n \in OccupiedSlots(sn) : n # t => n \in OccupiedSlots(s) /\ sn[n] = s[n]
    BY <1>3, <1>4 DEF OccupiedSlots
  <2> HIDE DEF t
  <2>3. \A n \in OccupiedSlots(s) : s[n].record.key = r.key => n = t
    BY DEF t
  <2>4. CASE i = t /\ j # t
    BY <2>1, <2>2, <2>3, <2>4
  <2>5. CASE i # t /\ j = t
    BY <2>1, <2>2, <2>3, <2>5
  <2>6. CASE i # t /\ j # t
    <3>1. s[i].record.key = s[j].record.key
      BY <2>2, <2>6
    <3> QED BY <2>2, <2>6, <3>1 DEF Unique
  <2> QED BY <2>4, <2>5, <2>6
<1> QED BY <1>4, <1>6, <1>7

(* Removed records leave tombstones, or no record is left at all. *)
LEMMA RemoveKeepsStructure ==
  ASSUME NEW s \in [Index -> Slot], NEW R \in SUBSET OccupiedSlots(s), NEW reset \in BOOLEAN,
         NEW sn \in [Index -> Slot], Chain(s), Unique(s), reset => R = OccupiedSlots(s),
         \A j \in Index : sn[j] = IF reset THEN Empty ELSE IF j \in R THEN Deleted ELSE s[j]
  PROVE  /\ OccupiedSlots(sn) = OccupiedSlots(s) \ R
         /\ Chain(sn)
         /\ Unique(sn)
<1>2. CASE reset
  <2>1. \A j \in Index : sn[j].state # "OCCUPIED"
    BY <1>2 DEF Empty
  <2> QED BY <1>2, <2>1 DEF OccupiedSlots, Chain, Unique
<1>3. CASE ~reset
  <2>1. \A j \in Index : sn[j] = IF j \in R THEN Deleted ELSE s[j]
    BY <1>3
  <2>2. Deleted.state # "OCCUPIED" /\ Deleted # Empty
    BY DEF Deleted, Empty
  <2>3. OccupiedSlots(sn) = OccupiedSlots(s) \ R
    BY <2>1, <2>2 DEF OccupiedSlots
  <2>4. \A j \in OccupiedSlots(sn) : j \in OccupiedSlots(s) /\ sn[j] = s[j]
    BY <2>1, <2>3 DEF OccupiedSlots
  <2>5. Unique(sn)
    BY <2>4 DEF Unique
  <2>6. Chain(sn)
    <3> SUFFICES ASSUME NEW i \in Index, NEW j \in OccupiedSlots(sn),
                        ProbeIndex(sn[j].record.key, i) = j,
                        NEW n \in 0 .. i - 1
                 PROVE  sn[ProbeIndex(sn[j].record.key, n)] # Empty
      BY DEF Chain
    <3>1. n \in Index
      BY CapacityAssumption DEF Index
    <3>2. s[j].record.key \in FlowKeys
      BY <2>4, SlotKinds DEF OccupiedSlots, FlowRecords
    <3>3. s[ProbeIndex(s[j].record.key, n)] # Empty
      BY <2>4 DEF Chain
    <3>4. ProbeIndex(s[j].record.key, n) \in Index
      BY <3>1, <3>2, ProbeIndexType
    <3> QED BY <2>1, <2>2, <2>4, <3>3, <3>4
  <2> QED BY <2>3, <2>5, <2>6
<1> QED BY <1>2, <1>3

-----------------------------------------------------------------------------
(* The inductive invariant: types, and the four structural invariants.     *)

IInv == TypeOK /\ CountMatches /\ UniqueKeys /\ ProbeChain /\ EmptyTableIsClean

(* What it says of a table in use. *)
LEMMA InUse ==
  ASSUME IInv, initialized
  PROVE  /\ slots \in [Index -> Slot]
         /\ count \in Nat /\ count <= Capacity
         /\ count = Cardinality(OccupiedSlots(slots))
         /\ Unique(slots)
         /\ Chain(slots)
BY CapacityAssumption
   DEF IInv, TypeOK, CountMatches, UniqueKeys, ProbeChain, Unique, Chain

(* A new state satisfies the structural invariants when its slots do and   *)
(* the count is right.                                                     *)
LEMMA Establish ==
  ASSUME NEW sn \in [Index -> Slot], NEW cn, Chain(sn), Unique(sn),
         cn = Cardinality(OccupiedSlots(sn)), slots' = sn, count' = cn,
         cn = 0 => \A j \in Index : sn[j] = Empty
  PROVE  /\ (CountMatches /\ UniqueKeys /\ ProbeChain /\ EmptyTableIsClean)'
         /\ slots' \in [Index -> Slot]
         /\ count' \in 0 .. Capacity
<1>1. cn \in Nat /\ cn <= Capacity
  BY OccupiedFinite
<1>2. slots' = sn /\ count' = Cardinality(OccupiedSlots(sn))
  OBVIOUS
<1>3. CountMatches'
  BY <1>2 DEF CountMatches
<1>4. UniqueKeys'
  BY <1>2 DEF UniqueKeys, Unique
<1>5. ProbeChain'
  BY <1>2 DEF ProbeChain, Chain
<1>6. EmptyTableIsClean'
  BY DEF EmptyTableIsClean
<1> QED BY <1>1, <1>2, <1>3, <1>4, <1>5, <1>6, CapacityAssumption

(* Every return code of the packet path is one of Errors. *)
LEMMA ErrorTypes ==
  ASSUME NEW p \in PacketInfo, NEW s, NEW c, NEW k, NEW r
  PROVE  /\ KeyError(p) \in Errors
         /\ RecordInitError(p) \in Errors
         /\ RecordUpdateError(r, p) \in Errors
         /\ ProbeError(s, c, k) \in {"0", "EINVAL", "ENOSPC"}
<1>1. KeyError(p) \in {"0", "EINVAL", "ENOTSUP"}
  BY DEF KeyError
<1>2. RecordInitError(p) \in Errors
  BY <1>1 DEF RecordInitError, Errors
<1>3. RecordUpdateError(r, p) \in Errors
  BY <1>1 DEF RecordUpdateError, Errors
<1>4. ProbeError(s, c, k) \in {"0", "EINVAL", "ENOSPC"}
  BY DEF ProbeError
<1> QED BY <1>1, <1>2, <1>3, <1>4 DEF Errors

(* Recording a probe keeps the counters within their range: they saturate. *)
LEMMA StatisticsType ==
  ASSUME NEW st \in ProbeStatistics, NEW n \in Nat
  PROVE  flow_table_record_probe_statistics(st, n) \in ProbeStatistics
<1>1. \A x \in 0 .. StatisticsMax, m \in Nat : Saturating(x, m) \in 0 .. StatisticsMax
  BY StatisticsMaxAssumption DEF Saturating
<1>2. /\ Saturating(st.packet_operation_count, 1) \in 0 .. StatisticsMax
      /\ Saturating(st.total_inspected_slot_count, n) \in 0 .. StatisticsMax
  BY <1>1 DEF ProbeStatistics
<1> QED BY <1>2 DEF flow_table_record_probe_statistics, ProbeStatistics

(* A failing call keeps the invariant. *)
LEMMA FailKeeps ==
  ASSUME IInv, NEW err \in Errors, Fail(err), probe_statistics' \in ProbeStatistics
  PROVE  IInv'
<1>1. /\ slots' = slots /\ count' = count /\ initialized' = initialized
      /\ result' = [err |-> err, created |-> FALSE, out |-> {}]
  BY DEF Fail, Return
<1>2. result' \in Result
  BY <1>1 DEF Result
<1>3. TypeOK'
  BY <1>1, <1>2 DEF IInv, TypeOK
<1>4. (CountMatches /\ UniqueKeys /\ ProbeChain /\ EmptyTableIsClean)'
  BY <1>1 DEF IInv, CountMatches, UniqueKeys, ProbeChain, EmptyTableIsClean
<1> QED BY <1>3, <1>4 DEF IInv

(* The three ways in which a packet changes the table. *)

(* An update in place keeps the key of its slot, hence the structure. *)
LEMMA UpdateKeeps ==
  ASSUME IInv, initialized, NEW p \in PacketInfo, NEW evict \in BOOLEAN, KeyError(p) = "0",
         ProcessError(p, evict) = "0", UpdateFlow(p)
  PROVE  /\ (CountMatches /\ UniqueKeys /\ ProbeChain /\ EmptyTableIsClean)'
         /\ slots' \in [Index -> Slot] /\ count' \in 0 .. Capacity
         /\ result' \in Result
<1> DEFINE k == KeyOf(p)
           t == TargetSlot(slots, k)
           r == slots[t].record
           new == flow_record_update(r, p)
<1>1. k \in FlowKeys
  BY KeyType
<1>2. t \in OccupiedSlots(slots) /\ r.key = k
  BY <1>1, FoundTarget DEF UpdateFlow
<1>3. t \in Index /\ r \in FlowRecords
  BY <1>2, InUse, SlotKinds DEF OccupiedSlots
<1>4. RecordUpdateError(r, p) = "0"
  <2>1. \E i \in Index : StopsAt(slots, k, i)
    <3>1. PICK i \in InspectedIn(slots, k, "OCCUPIED") : HoldsKey(slots[ProbeIndex(k, i)], k)
      BY DEF UpdateFlow, Found
    <3>2. i \in Index
      BY InspectedRange, CapacityAssumption DEF InspectedIn, Index
    <3> QED BY <3>1, <3>2 DEF StopsAt
  <2>2. ProbeError(slots, count, k) = "0"
    BY <2>1 DEF ProbeError
  <2>3. Found(slots, k)
    BY DEF UpdateFlow
  <2> QED BY <2>2, <2>3 DEF ProcessError
<1>5. new \in FlowRecords /\ new.key = k
  BY <1>2, <1>3, <1>4, RecordUpdateType
<1>6. PICK o \in Index : ProbeIndex(k, o) = t
  BY <1>1, <1>3, ProbeIndexOnto
<1>7. slots' = [slots EXCEPT ![t] = Occupied(new)] /\ count' = count
  BY DEF UpdateFlow
<1>8. result' \in Result
  BY DEF UpdateFlow, Return, Result, Errors
<1> HIDE DEF new, r, t, k
<1>9. \A m \in 0 .. o - 1 : slots[ProbeIndex(new.key, m)] # Empty
  BY <1>2, <1>5, <1>6, InUse DEF Chain, r
<1>10. \A j \in OccupiedSlots(slots) : slots[j].record.key = new.key => j = ProbeIndex(new.key, o)
  BY <1>2, <1>5, <1>6, InUse DEF Unique, r
<1>11. /\ slots' \in [Index -> Slot]
       /\ OccupiedSlots(slots') = OccupiedSlots(slots) \cup {t}
       /\ Chain(slots') /\ Unique(slots')
  <2>1. slots \in [Index -> Slot] /\ Chain(slots) /\ Unique(slots)
    BY InUse
  <2>2. ProbeIndex(new.key, o) = t
    BY <1>5, <1>6
  <2>3. slots' \in [Index -> Slot]
    BY <1>3, <1>5, <1>7, <2>1, OccupiedType
  <2>4. \A j \in Index :
          slots'[j] = IF j = ProbeIndex(new.key, o) THEN Occupied(new) ELSE slots[j]
    BY <1>3, <1>7, <2>1, <2>2
  <2> QED BY <1>5, <1>9, <1>10, <2>1, <2>2, <2>3, <2>4, PutKeepsStructure
<1>12. OccupiedSlots(slots') = OccupiedSlots(slots)
  BY <1>2, <1>11
<1>13. count # 0
  BY <1>2, InUse, OccupiedFinite, FS_EmptySet
<1> QED BY <1>7, <1>8, <1>11, <1>12, <1>13, InUse, Establish

(* A new record in the slot that the probe selected keeps the structure: its *)
(* key is in no other slot and no EMPTY slot lies before it.               *)
LEMMA InsertKeeps ==
  ASSUME IInv, initialized, NEW p \in PacketInfo, NEW evict \in BOOLEAN, KeyError(p) = "0",
         ProcessError(p, evict) = "0", InsertFlow(p)
  PROVE  /\ (CountMatches /\ UniqueKeys /\ ProbeChain /\ EmptyTableIsClean)'
         /\ slots' \in [Index -> Slot] /\ count' \in 0 .. Capacity
         /\ result' \in Result
<1> DEFINE k == KeyOf(p)
           t == TargetSlot(slots, k)
           new == flow_record_init(p)
<1>1. k \in FlowKeys /\ ~Found(slots, k) /\ ProbeError(slots, count, k) = "0"
  BY KeyType DEF InsertFlow
<1>2. RecordInitError(p) = "0"
  BY <1>1 DEF ProcessError
<1>3. new \in FlowRecords /\ new.key = k
  BY <1>2, RecordInitType
<1>4. PICK o \in Index : /\ t = ProbeIndex(k, o)
                         /\ slots[ProbeIndex(k, o)] \in {Empty, Deleted}
                         /\ \A m \in 0 .. o - 1 : slots[ProbeIndex(k, m)] # Empty
  BY <1>1, InUse, FreeTarget
<1>5. \A j \in OccupiedSlots(slots) : slots[j].record.key # k
  BY <1>1, InUse, NotFoundMeansAbsent
<1>6. slots' = [slots EXCEPT ![t] = Occupied(new)] /\ count' = count + 1
  BY DEF InsertFlow
<1>7. result' \in Result
  BY DEF InsertFlow, Return, Result, Errors
<1> HIDE DEF new, t, k
<1>8. /\ slots' \in [Index -> Slot]
      /\ OccupiedSlots(slots') = OccupiedSlots(slots) \cup {t}
      /\ Chain(slots') /\ Unique(slots')
  <2>1. /\ ProbeIndex(new.key, o) = t
        /\ \A m \in 0 .. o - 1 : slots[ProbeIndex(new.key, m)] # Empty
        /\ \A j \in OccupiedSlots(slots) :
             slots[j].record.key = new.key => j = ProbeIndex(new.key, o)
    BY <1>3, <1>4, <1>5, <1>6
  <2>2. slots \in [Index -> Slot] /\ Chain(slots) /\ Unique(slots)
    BY InUse
  <2>3. slots' \in [Index -> Slot]
    BY <1>3, <1>6, <2>2, OccupiedType
  <2>4. \A j \in Index :
          slots'[j] = IF j = ProbeIndex(new.key, o) THEN Occupied(new) ELSE slots[j]
    BY <1>6, <2>1, <2>2
  <2> QED BY <1>3, <2>1, <2>2, <2>3, <2>4, PutKeepsStructure
<1>9. t \notin OccupiedSlots(slots)
  BY <1>4 DEF OccupiedSlots, Empty, Deleted
<1>10. Cardinality(OccupiedSlots(slots')) = count + 1
  <2>1. IsFiniteSet(OccupiedSlots(slots)) /\ Cardinality(OccupiedSlots(slots)) = count
    BY InUse, OccupiedFinite
  <2>2. Cardinality(OccupiedSlots(slots) \cup {t}) = count + 1
    BY <1>9, <2>1, FS_AddElement
  <2> QED BY <1>8, <2>2
<1>11. count + 1 # 0
  BY InUse
<1> QED BY <1>6, <1>7, <1>8, <1>10, <1>11, Establish

(* A new record in the slot of the oldest one keeps the structure: the table *)
(* is full, so no probe crosses an EMPTY slot, and the count stays.        *)
LEMMA ReplaceKeeps ==
  ASSUME IInv, initialized, NEW p \in PacketInfo, NEW evict \in BOOLEAN, KeyError(p) = "0",
         ProcessError(p, evict) = "0", ReplaceOldest(p)
  PROVE  /\ (CountMatches /\ UniqueKeys /\ ProbeChain /\ EmptyTableIsClean)'
         /\ slots' \in [Index -> Slot] /\ count' \in 0 .. Capacity
         /\ result' \in Result
<1> DEFINE k == KeyOf(p)
           o == OldestOffset(slots, k, InspectedIn(slots, k, "OCCUPIED"))
           t == ProbeIndex(k, o)
           new == flow_record_init(p)
<1>1. k \in FlowKeys /\ ProbeError(slots, count, k) = "ENOSPC"
  BY KeyType DEF ReplaceOldest
<1>2. RecordInitError(p) = "0"
  BY <1>1 DEF ProcessError
<1>3. new \in FlowRecords /\ new.key = k
  BY <1>2, RecordInitType
<1>4. /\ OccupiedSlots(slots) = Index
      /\ InspectedIn(slots, k, "OCCUPIED") = Index
      /\ \A j \in Index : slots[j].record.key # k
  BY <1>1, InUse, FullTable
<1>5. \A j \in Index : slots[j].record \in FlowRecords /\ slots[j] # Empty
  BY <1>4, InUse, SlotKinds DEF OccupiedSlots
<1>6. o \in Index
  <2> DEFINE T == [i \in Index |-> LastSeen(slots, ProbeIndex(k, i))]
  <2>1. T \in [Index -> Timestamp]
    BY <1>1, <1>5, ProbeIndexType DEF LastSeen, FlowRecords
  <2>2. Index \subseteq Nat /\ Index # {}
    BY CapacityAssumption DEF Index
  <2> HIDE DEF T
  <2>3. \E i \in Index : \A n \in Index : /\ ~TimeBefore(T[n], T[i])
                                          /\ n < i => TimeBefore(T[i], T[n])
    BY <2>1, <2>2, OldestExists, IndexIsFinite DEF IndexFinite
  <2>4. \A i \in Index : T[i] = LastSeen(slots, ProbeIndex(k, i))
    BY DEF T
  <2> HIDE DEF k
  <2> QED BY <1>4, <2>3, <2>4 DEF OldestOffset
<1>7. slots' = [slots EXCEPT ![t] = Occupied(new)] /\ count' = count
  BY DEF ReplaceOldest
<1>8. result' = [err |-> "0", created |-> TRUE, out |-> {slots[t].record}]
  BY DEF ReplaceOldest, Return
<1> HIDE DEF new, t, o, k
<1>9. t \in Index
  BY <1>1, <1>6, ProbeIndexType DEF t
<1>10. result' \in Result
  BY <1>5, <1>8, <1>9 DEF Result, Errors
<1>11. \A m \in 0 .. o - 1 : slots[ProbeIndex(new.key, m)] # Empty
  <2> SUFFICES ASSUME NEW m \in 0 .. o - 1 PROVE slots[ProbeIndex(k, m)] # Empty
    BY <1>3
  <2>1. m \in Index
    BY <1>6, CapacityAssumption DEF Index
  <2> QED BY <1>1, <1>5, <2>1, ProbeIndexType
<1>12. /\ slots' \in [Index -> Slot]
       /\ OccupiedSlots(slots') = OccupiedSlots(slots) \cup {t}
       /\ Chain(slots') /\ Unique(slots')
  <2>1. /\ ProbeIndex(new.key, o) = t
        /\ \A j \in OccupiedSlots(slots) :
             slots[j].record.key = new.key => j = ProbeIndex(new.key, o)
    BY <1>3, <1>4, <1>7 DEF t
  <2>2. slots \in [Index -> Slot] /\ Chain(slots) /\ Unique(slots)
    BY InUse
  <2>3. slots' \in [Index -> Slot]
    BY <1>3, <1>7, <2>2, OccupiedType
  <2>4. \A j \in Index :
          slots'[j] = IF j = ProbeIndex(new.key, o) THEN Occupied(new) ELSE slots[j]
    BY <1>7, <2>1, <2>2
  <2> QED BY <1>3, <1>6, <1>11, <2>1, <2>2, <2>3, <2>4, PutKeepsStructure
<1>13. OccupiedSlots(slots') = OccupiedSlots(slots)
  BY <1>4, <1>9, <1>12
<1>14. count # 0
  BY <1>4, <1>9, InUse, OccupiedFinite, FS_EmptySet
<1> QED BY <1>7, <1>10, <1>12, <1>13, <1>14, InUse, Establish

(* One packet, under either policy. *)
LEMMA ProcessKeeps ==
  ASSUME IInv, NEW p \in PacketInfo, NEW evict \in BOOLEAN,
         flow_table_process_packet_internal(p, evict)
  PROVE  IInv'
<1> DEFINE k == KeyOf(p)
<1>1. CASE /\ ~flow_table_has_valid_shape \/ KeyError(p) # "0"
           /\ Fail(IF flow_table_has_valid_shape THEN KeyError(p) ELSE "EINVAL")
           /\ UNCHANGED probe_statistics
  <2>1. (IF flow_table_has_valid_shape THEN KeyError(p) ELSE "EINVAL") \in Errors
    BY ErrorTypes DEF Errors
  <2>2. probe_statistics' \in ProbeStatistics
    BY <1>1 DEF IInv, TypeOK
  <2> QED BY <1>1, <2>1, <2>2, FailKeeps
<1>2. CASE /\ flow_table_has_valid_shape /\ KeyError(p) = "0"
           /\ probe_statistics' =
                IF ProbeError(slots, count, k) = "EINVAL" THEN probe_statistics
                ELSE flow_table_record_probe_statistics(probe_statistics, Inspected(slots, k))
           /\ UNCHANGED initialized
           /\ \/ ProcessError(p, evict) # "0" /\ Fail(ProcessError(p, evict))
              \/ /\ ProcessError(p, evict) = "0"
                 /\ UpdateFlow(p) \/ InsertFlow(p) \/ ReplaceOldest(p)
  <2>1. initialized /\ initialized' = initialized
    BY <1>2 DEF flow_table_has_valid_shape
  <2>2. probe_statistics' \in ProbeStatistics
    <3>1. Inspected(slots, k) \in Nat
      BY InspectedRange, CapacityAssumption
    <3>2. probe_statistics \in ProbeStatistics
      BY DEF IInv, TypeOK
    <3> QED BY <1>2, <3>1, <3>2, StatisticsType
  <2>3. CASE ProcessError(p, evict) # "0" /\ Fail(ProcessError(p, evict))
    <3>1. ProcessError(p, evict) \in Errors
      BY ErrorTypes DEF ProcessError, Errors
    <3> QED BY <2>2, <2>3, <3>1, FailKeeps
  <2>4. CASE /\ ProcessError(p, evict) = "0"
             /\ UpdateFlow(p) \/ InsertFlow(p) \/ ReplaceOldest(p)
    <3>1. /\ (CountMatches /\ UniqueKeys /\ ProbeChain /\ EmptyTableIsClean)'
          /\ slots' \in [Index -> Slot] /\ count' \in 0 .. Capacity
          /\ result' \in Result
      BY <1>2, <2>1, <2>4, UpdateKeeps, InsertKeeps, ReplaceKeeps
    <3> QED BY <2>1, <2>2, <3>1 DEF IInv, TypeOK
  <2> QED BY <1>2, <2>3, <2>4
<1> QED BY <1>1, <1>2 DEF flow_table_process_packet_internal

(* Removal of the records in R, all of which are in the table. *)
LEMMA RemoveKeeps ==
  ASSUME IInv, initialized, NEW R \in SUBSET OccupiedSlots(slots), Remove(R)
  PROVE  /\ (CountMatches /\ UniqueKeys /\ ProbeChain /\ EmptyTableIsClean)'
         /\ slots' \in [Index -> Slot] /\ count' \in 0 .. Capacity
<1> DEFINE reset == count' = 0
<1>1. /\ count' = count - Cardinality(R)
      /\ slots' = [j \in Index |-> IF reset THEN Empty ELSE IF j \in R THEN Deleted ELSE slots[j]]
  BY DEF Remove
<1>2. slots \in [Index -> Slot] /\ Chain(slots) /\ Unique(slots)
  BY InUse
<1>3. /\ IsFiniteSet(OccupiedSlots(slots)) /\ IsFiniteSet(R)
      /\ Cardinality(R) \in Nat /\ Cardinality(R) <= count
      /\ Cardinality(R) = count => R = OccupiedSlots(slots)
      /\ count = Cardinality(OccupiedSlots(slots)) /\ count \in Nat
  BY InUse, OccupiedFinite, FS_Subset, FS_CardinalityType
<1>4. reset => R = OccupiedSlots(slots)
  BY <1>1, <1>3
<1>5. slots' \in [Index -> Slot]
  BY <1>1, <1>2 DEF Slot
<1>6. \A j \in Index : slots'[j] = IF reset THEN Empty ELSE IF j \in R THEN Deleted ELSE slots[j]
  BY <1>1
<1> HIDE DEF reset
<1>7. reset \in BOOLEAN
  BY DEF reset
<1>8. /\ OccupiedSlots(slots') = OccupiedSlots(slots) \ R
      /\ Chain(slots') /\ Unique(slots')
  BY <1>2, <1>4, <1>5, <1>6, <1>7, RemoveKeepsStructure
<1>9. Cardinality(OccupiedSlots(slots')) = count'
  <2>1. OccupiedSlots(slots) \cap R = R
    OBVIOUS
  <2>2. Cardinality(OccupiedSlots(slots) \ R) = count - Cardinality(R)
    BY <1>3, <2>1, FS_Difference
  <2> QED BY <1>1, <1>8, <2>2
<1>10. count' = 0 => \A j \in Index : slots'[j] = Empty
  BY <1>6 DEF reset
<1> QED BY <1>5, <1>8, <1>9, <1>10, Establish

(* flow_table_evict_oldest keeps the invariant. *)
LEMMA EvictKeeps ==
  ASSUME IInv, flow_table_evict_oldest
  PROVE  IInv'
<1>1. /\ probe_statistics' = probe_statistics /\ initialized' = initialized
      /\ probe_statistics \in ProbeStatistics /\ initialized \in BOOLEAN
  BY DEF flow_table_evict_oldest, IInv, TypeOK
<1>2. CASE EvictError # "0" /\ Fail(EvictError)
  <2>1. EvictError \in Errors
    BY DEF EvictError, Errors
  <2> QED BY <1>1, <1>2, <2>1, FailKeeps
<1>3. CASE /\ EvictError = "0"
           /\ Remove({OldestSlot})
           /\ Return("0", FALSE, {slots[OldestSlot].record})
  <2>1. initialized /\ OccupiedSlots(slots) # {}
    BY <1>3 DEF EvictError, flow_table_has_valid_shape
  <2>2. \A j \in OccupiedSlots(slots) : slots[j].record \in FlowRecords
    BY <2>1, InUse, SlotKinds DEF OccupiedSlots
  <2>3. OldestSlot \in OccupiedSlots(slots)
    <3> DEFINE T == [j \in OccupiedSlots(slots) |-> LastSeen(slots, j)]
    <3>1. T \in [OccupiedSlots(slots) -> Timestamp]
      BY <2>2 DEF LastSeen, FlowRecords
    <3>2. OccupiedSlots(slots) \subseteq Nat
      BY CapacityAssumption DEF OccupiedSlots, Index
    <3>3. \A j \in OccupiedSlots(slots) : T[j] = LastSeen(slots, j)
      OBVIOUS
    <3> HIDE DEF T
    <3>4. \E i \in OccupiedSlots(slots) : \A n \in OccupiedSlots(slots) :
            /\ ~TimeBefore(T[n], T[i])
            /\ n < i => TimeBefore(T[i], T[n])
      BY <2>1, <3>1, <3>2, OldestExists, OccupiedFinite
    <3> QED BY <3>3, <3>4 DEF OldestSlot
  <2>4. result' \in Result
    BY <1>3, <2>2, <2>3 DEF Return, Result, Errors
  <2>5. /\ (CountMatches /\ UniqueKeys /\ ProbeChain /\ EmptyTableIsClean)'
        /\ slots' \in [Index -> Slot] /\ count' \in 0 .. Capacity
    BY <1>3, <2>1, <2>3, RemoveKeeps
  <2> QED BY <1>1, <2>4, <2>5 DEF IInv, TypeOK
<1> QED BY <1>2, <1>3 DEF flow_table_evict_oldest

(* flow_table_expire_before keeps the invariant, whatever the cutoff. *)
LEMMA ExpireKeeps ==
  ASSUME IInv, NEW cutoff, NEW size, flow_table_expire_before(cutoff, size)
  PROVE  IInv'
<1>1. /\ probe_statistics' = probe_statistics /\ initialized' = initialized
      /\ probe_statistics \in ProbeStatistics /\ initialized \in BOOLEAN
  BY DEF flow_table_expire_before, IInv, TypeOK
<1>2. CASE ExpireError(cutoff, size) # "0" /\ Fail(ExpireError(cutoff, size))
  <2>1. ExpireError(cutoff, size) \in Errors
    BY DEF ExpireError, Errors
  <2> QED BY <1>1, <1>2, <2>1, FailKeeps
<1>3. CASE /\ ExpireError(cutoff, size) = "0"
           /\ Remove(Expired(cutoff))
           /\ Return("0", FALSE, {slots[j].record : j \in Expired(cutoff)})
  <2>1. initialized
    BY <1>3 DEF ExpireError, flow_table_has_valid_shape
  <2>2. Expired(cutoff) \in SUBSET OccupiedSlots(slots)
    BY DEF Expired
  <2>3. \A j \in OccupiedSlots(slots) : slots[j].record \in FlowRecords
    BY <2>1, InUse, SlotKinds DEF OccupiedSlots
  <2>4. result' \in Result
    BY <1>3, <2>2, <2>3 DEF Return, Result, Errors
  <2>5. /\ (CountMatches /\ UniqueKeys /\ ProbeChain /\ EmptyTableIsClean)'
        /\ slots' \in [Index -> Slot] /\ count' \in 0 .. Capacity
    BY <1>3, <2>1, <2>2, RemoveKeeps
  <2> QED BY <1>1, <2>4, <2>5 DEF IInv, TypeOK
<1> QED BY <1>2, <1>3 DEF flow_table_expire_before

(* The statistics of a fresh table are well typed. *)
LEMMA ZeroStatisticsType == ZeroStatistics \in ProbeStatistics
BY StatisticsMaxAssumption DEF ZeroStatistics, ProbeStatistics

(* A table of EMPTY slots has the structure. *)
LEMMA EmptyStructure ==
  /\ [j \in Index |-> Empty] \in [Index -> Slot]
  /\ OccupiedSlots([j \in Index |-> Empty]) = {}
BY DEF Slot, OccupiedSlots, Empty

(* flow_table_init establishes the invariant from any storage. *)
LEMMA InitKeeps == flow_table_init => IInv'
<1> SUFFICES ASSUME flow_table_init PROVE IInv'
  OBVIOUS
<1> DEFINE fresh == [j \in Index |-> Empty]
<1>1. /\ slots' = fresh /\ count' = 0 /\ probe_statistics' = ZeroStatistics
      /\ initialized' = TRUE /\ result' = [err |-> "0", created |-> FALSE, out |-> {}]
  BY DEF flow_table_init, Return
<1>2. /\ fresh \in [Index -> Slot] /\ OccupiedSlots(fresh) = {}
      /\ \A j \in Index : fresh[j] = Empty
  BY EmptyStructure
<1> HIDE DEF fresh
<1>3. Chain(fresh) /\ Unique(fresh) /\ Cardinality(OccupiedSlots(fresh)) = 0
  BY <1>2, FS_EmptySet DEF Chain, Unique
<1>4. /\ (CountMatches /\ UniqueKeys /\ ProbeChain /\ EmptyTableIsClean)'
      /\ slots' \in [Index -> Slot] /\ count' \in 0 .. Capacity
  BY <1>1, <1>2, <1>3, Establish
<1>5. result' \in Result
  BY <1>1 DEF Result, Errors
<1> QED BY <1>1, <1>4, <1>5, ZeroStatisticsType DEF IInv, TypeOK

(* flow_table_cleanup leaves the storage dirty; only the types remain. *)
LEMMA CleanupKeeps == IInv /\ flow_table_cleanup => IInv'
<1> SUFFICES ASSUME IInv, flow_table_cleanup PROVE IInv'
  OBVIOUS
<1>1. /\ slots' = slots /\ count' = 0 /\ probe_statistics' = ZeroStatistics
      /\ initialized' = FALSE /\ result' = [err |-> "0", created |-> FALSE, out |-> {}]
  BY DEF flow_table_cleanup, Return
<1>2. TypeOK'
  <2>1. result' \in Result
    BY <1>1 DEF Result, Errors
  <2>2. slots \in [Index -> Slot]
    BY DEF IInv, TypeOK
  <2>3. 0 \in 0 .. Capacity
    BY CapacityAssumption
  <2> QED BY <1>1, <2>1, <2>2, <2>3, ZeroStatisticsType DEF TypeOK
<1>3. (CountMatches /\ UniqueKeys /\ ProbeChain /\ EmptyTableIsClean)'
  BY <1>1 DEF CountMatches, UniqueKeys, ProbeChain, EmptyTableIsClean
<1> QED BY <1>2, <1>3 DEF IInv

(* Before the first flow_table_init the invariant holds. *)
LEMMA InitEstablishes == Init => IInv
<1> SUFFICES ASSUME Init PROVE IInv
  OBVIOUS
<1>1. TypeOK
  <2>1. result \in Result
    BY DEF Init, Result, Errors
  <2>2. slots \in [Index -> Slot]
    BY EmptyStructure DEF Init
  <2>3. 0 \in 0 .. Capacity
    BY CapacityAssumption
  <2> QED BY <2>1, <2>2, <2>3, ZeroStatisticsType DEF Init, TypeOK
<1>2. ~initialized
  BY DEF Init
<1> QED BY <1>1, <1>2 DEF IInv, CountMatches, UniqueKeys, ProbeChain, EmptyTableIsClean

(* Every step keeps the invariant: one case per operation. *)
LEMMA StepKeeps == IInv /\ [Next]_vars => IInv'
<1> SUFFICES ASSUME IInv, [Next]_vars PROVE IInv'
  OBVIOUS
<1>1. CASE flow_table_init
  BY <1>1, InitKeeps
<1>2. ASSUME NEW p \in Packets, flow_table_process_packet(p) PROVE IInv'
  BY <1>2, PacketsAssumption, ProcessKeeps DEF flow_table_process_packet
<1>3. ASSUME NEW p \in Packets, flow_table_process_packet_with_oldest_eviction(p) PROVE IInv'
  BY <1>3, PacketsAssumption, ProcessKeeps DEF flow_table_process_packet_with_oldest_eviction
<1>4. CASE flow_table_evict_oldest
  BY <1>4, EvictKeeps
<1>5. ASSUME NEW cutoff \in Cutoffs, NEW size \in OutputSizes,
             flow_table_expire_before(cutoff, size)
      PROVE  IInv'
  BY <1>5, ExpireKeeps
<1>6. CASE flow_table_cleanup
  BY <1>6, CleanupKeeps
<1>7. CASE UNCHANGED vars
  BY <1>7 DEF vars, IInv, TypeOK, CountMatches, UniqueKeys, ProbeChain, EmptyTableIsClean
<1> QED BY <1>1, <1>2, <1>3, <1>4, <1>5, <1>6, <1>7 DEF Next

-----------------------------------------------------------------------------
(* The theorems. *)

(* The inductive invariant holds throughout. *)
THEOREM Invariance == Spec => []IInv
<1>1. Init => IInv
  BY InitEstablishes
<1>2. IInv /\ [Next]_vars => IInv'
  BY StepKeeps
<1> QED BY <1>1, <1>2, PTL DEF Spec

(* Every variable of the flow table stays in its type: in particular count *)
(* is never more than the capacity and never less than 0, whatever calls   *)
(* flow_table.c receives.                                                  *)
THEOREM TypeCorrect == Spec => []TypeOK
<1>1. IInv => TypeOK
  BY DEF IInv
<1> QED BY <1>1, Invariance, PTL

(* The table keeps its structure: count is the number of records, no flow  *)
(* has two records, no EMPTY slot separates a record from its home slot,   *)
(* and an emptied table holds no tombstone.                                *)
THEOREM StructureCorrect == Spec => []Structure
<1>1. IInv => Structure
  BY DEF IInv, Structure
<1> QED BY <1>1, Invariance, PTL

(* flow_table_find answers for exactly the flows in the table, and with    *)
(* their records; it never reports an inconsistent table.                  *)
THEOREM FindCorrect == Spec => []FindIsExact
<1>1. ASSUME IInv PROVE FindIsExact
  <2> DEFINE Holders(k) == {j \in OccupiedSlots(slots) : slots[j].record.key = k}
  <2> SUFFICES ASSUME initialized, NEW k \in {KeyOf(p) : p \in {q \in Packets : KeyError(q) = "0"}}
               PROVE  IF Holders(k) = {} THEN flow_table_find(k).err = "ENOENT"
                      ELSE /\ flow_table_find(k).err = "0"
                           /\ \A j \in Holders(k) : flow_table_find(k).record = slots[j].record
    BY DEF FindIsExact
  <2> DEFINE holders == Holders(k)
  <2>1. k \in FlowKeys
    BY PacketsAssumption, KeyType
  <2>2. flow_table_has_valid_shape /\ ProbeError(slots, count, k) # "EINVAL"
    BY <1>1, InUse DEF flow_table_has_valid_shape, ProbeError
  <2>3. CASE Found(slots, k)
    <3>1. TargetSlot(slots, k) \in holders
      BY <2>1, <2>3, FoundTarget
    <3>2. \A j \in holders : j = TargetSlot(slots, k)
      BY <1>1, <3>1, InUse DEF Unique
    <3>3. flow_table_find(k) = [err |-> "0", record |-> slots[TargetSlot(slots, k)].record]
      BY <2>2, <2>3 DEF flow_table_find
    <3>4. flow_table_find(k).err = "0" /\ \A j \in holders : flow_table_find(k).record = slots[j].record
      BY <3>2, <3>3
    <3>5. holders # {}
      BY <3>1
    <3> HIDE DEF holders
    <3> QED BY <3>4, <3>5 DEF holders
  <2>4. CASE ~Found(slots, k)
    <3>1. holders = {}
      BY <1>1, <2>1, <2>4, InUse, NotFoundMeansAbsent
    <3>2. flow_table_find(k) = [err |-> "ENOENT"]
      BY <2>2, <2>4 DEF flow_table_find
    <3>3. flow_table_find(k).err = "ENOENT"
      BY <3>2
    <3> QED BY <3>1, <3>3
  <2> QED BY <2>3, <2>4
<1>2. IInv => FindIsExact
  BY <1>1
<1> QED BY <1>2, Invariance, PTL

-----------------------------------------------------------------------------
(* The statistics of the probes. *)

(* The product of the operations and the longest probe only grows. *)
LEMMA ProductGrows ==
  ASSUME NEW a \in Nat, NEW m \in Nat, NEW n \in Nat, m <= n
  PROVE  /\ a * m \in Nat /\ a * n \in Nat /\ a * m <= a * n
         /\ (a + 1) * n = a * n + n
<1>1. a * n = a * m + a * (n - m) /\ n - m \in Nat
  OBVIOUS
<1>2. a * (n - m) \in Nat /\ a * m \in Nat /\ a * n \in Nat
  BY <1>1
<1>3. (a + 1) * n = a * n + n
  OBVIOUS
<1> QED BY <1>1, <1>2, <1>3

(* A counter at its limit stays there, and one that is not has been added  *)
(* to exactly.                                                             *)
LEMMA SaturatingAdds ==
  ASSUME NEW x \in 0 .. StatisticsMax, NEW n \in Nat \ {0}
  PROVE  /\ Saturating(x, n) \in 0 .. StatisticsMax
         /\ x = StatisticsMax => Saturating(x, n) = StatisticsMax
         /\ Saturating(x, n) # StatisticsMax => Saturating(x, n) = x + n
BY StatisticsMaxAssumption DEF Saturating

Consistent(st) ==
  /\ st.maximum_probe_length <= Capacity
  /\ st.counters_saturated <=>
       StatisticsMax \in {st.packet_operation_count, st.total_inspected_slot_count}
  /\ ~st.counters_saturated =>
       /\ st.packet_operation_count <= st.total_inspected_slot_count
       /\ st.total_inspected_slot_count <=
            st.packet_operation_count * st.maximum_probe_length

(* Recording a probe keeps the statistics consistent. *)
LEMMA RecordKeepsConsistent ==
  ASSUME NEW st \in ProbeStatistics, Consistent(st), NEW n \in 1 .. Capacity
  PROVE  Consistent(flow_table_record_probe_statistics(st, n))
<1> DEFINE ops == st.packet_operation_count
           total == st.total_inspected_slot_count
           longest == st.maximum_probe_length
           ops2 == Saturating(ops, 1)
           total2 == Saturating(total, n)
           longest2 == IF n > longest THEN n ELSE longest
           flag2 == st.counters_saturated \/ ops2 = StatisticsMax \/ total2 = StatisticsMax
           new == flow_table_record_probe_statistics(st, n)
<1>1. /\ ops \in 0 .. StatisticsMax /\ total \in 0 .. StatisticsMax
      /\ longest \in Nat /\ longest <= Capacity /\ n \in Nat \ {0} /\ n <= Capacity
      /\ st.counters_saturated \in BOOLEAN
  BY CapacityAssumption DEF ProbeStatistics, Consistent
<1>2. /\ new.packet_operation_count = ops2
      /\ new.total_inspected_slot_count = total2
      /\ new.maximum_probe_length = longest2
      /\ new.counters_saturated = flag2
  BY DEF flow_table_record_probe_statistics
<1>3. st.counters_saturated <=> (ops = StatisticsMax \/ total = StatisticsMax)
  BY DEF Consistent
<1>4. ~st.counters_saturated => ops <= total /\ total <= ops * longest
  BY DEF Consistent
<1>5. /\ longest2 \in Nat /\ longest2 <= Capacity /\ longest <= longest2 /\ n <= longest2
  BY <1>1, CapacityAssumption
<1> HIDE DEF ops, total, longest, longest2, new
<1>6. /\ ops2 \in 0 .. StatisticsMax /\ total2 \in 0 .. StatisticsMax
      /\ ops = StatisticsMax => ops2 = StatisticsMax
      /\ total = StatisticsMax => total2 = StatisticsMax
      /\ ops2 # StatisticsMax => ops2 = ops + 1
      /\ total2 # StatisticsMax => total2 = total + n
  BY <1>1, SaturatingAdds
<1> HIDE DEF ops2, total2
<1>7. flag2 <=> (ops2 = StatisticsMax \/ total2 = StatisticsMax)
  BY <1>3, <1>6
<1>8. ~flag2 => ops2 <= total2 /\ total2 <= ops2 * longest2
  <2> SUFFICES ASSUME ~flag2 PROVE ops2 <= total2 /\ total2 <= ops2 * longest2
    OBVIOUS
  <2>1. /\ ops2 = ops + 1 /\ total2 = total + n
        /\ ops <= total /\ total <= ops * longest
    BY <1>4, <1>6
  <2>2. ops \in Nat /\ total \in Nat
    BY <1>1
  <2>3. /\ ops * longest \in Nat /\ ops * longest2 \in Nat
        /\ ops * longest <= ops * longest2
        /\ (ops + 1) * longest2 = ops * longest2 + longest2
    BY <1>1, <1>5, <2>2, ProductGrows
  <2> DEFINE x == ops * longest
             y == ops * longest2
             z == (ops + 1) * longest2
  <2>4. ops2 * longest2 = z /\ total <= x /\ x <= y /\ z = y + longest2 /\ x \in Nat /\ y \in Nat
    BY <2>1, <2>3
  <2> HIDE DEF x, y, z
  <2> QED BY <1>1, <1>5, <2>1, <2>2, <2>4
<1> HIDE DEF flag2
<1>9. Consistent(new)
  BY <1>2, <1>5, <1>7, <1>8 DEF Consistent
<1> QED BY <1>9 DEF new

(* The statistics of a fresh table are consistent. *)
LEMMA ZeroConsistent == Consistent(ZeroStatistics)
<1>1. 0 * 0 = 0
  OBVIOUS
<1> QED BY <1>1, CapacityAssumption, StatisticsMaxAssumption DEF Consistent, ZeroStatistics

(* Every step leaves the statistics alone, resets them or records a probe  *)
(* of one slot to Capacity slots.                                          *)
LEMMA StatisticsStep ==
  ASSUME [Next]_vars
  PROVE  \/ probe_statistics' = probe_statistics
         \/ probe_statistics' = ZeroStatistics
         \/ \E n \in 1 .. Capacity :
              probe_statistics' = flow_table_record_probe_statistics(probe_statistics, n)
<1>1. ASSUME NEW p, NEW evict, flow_table_process_packet_internal(p, evict)
      PROVE  \/ probe_statistics' = probe_statistics
             \/ \E n \in 1 .. Capacity :
                  probe_statistics' = flow_table_record_probe_statistics(probe_statistics, n)
  BY <1>1, InspectedRange DEF flow_table_process_packet_internal
<1>2. CASE flow_table_init \/ flow_table_cleanup
  BY <1>2 DEF flow_table_init, flow_table_cleanup
<1>3. CASE \E p \in Packets : \/ flow_table_process_packet(p)
                              \/ flow_table_process_packet_with_oldest_eviction(p)
  BY <1>1, <1>3 DEF flow_table_process_packet, flow_table_process_packet_with_oldest_eviction
<1>4. CASE \/ flow_table_evict_oldest
           \/ \E cutoff \in Cutoffs, size \in OutputSizes : flow_table_expire_before(cutoff, size)
  BY <1>4 DEF flow_table_evict_oldest, flow_table_expire_before
<1>5. CASE UNCHANGED vars
  BY <1>5 DEF vars
<1> QED BY <1>2, <1>3, <1>4, <1>5 DEF Next

(* The probe statistics of flow_table_record_probe_statistics fit together *)
(* after any number of packets, resets and failed calls, whatever the      *)
(* capacity and the width of the counters.                                 *)
THEOREM StatisticsCorrect == Spec => []StatisticsConsistent
<1>1. StatisticsConsistent <=> Consistent(probe_statistics)
  BY DEF StatisticsConsistent, Consistent
<1>2. StatisticsConsistent' <=> Consistent(probe_statistics')
  BY DEF StatisticsConsistent, Consistent
<1>3. Init => StatisticsConsistent
  BY <1>1, ZeroConsistent DEF Init
<1>4. IInv /\ StatisticsConsistent /\ [Next]_vars => StatisticsConsistent'
  <2> SUFFICES ASSUME IInv, StatisticsConsistent, [Next]_vars PROVE Consistent(probe_statistics')
    BY <1>2
  <2>1. probe_statistics \in ProbeStatistics /\ Consistent(probe_statistics)
    BY <1>1 DEF IInv, TypeOK
  <2> QED BY <2>1, StatisticsStep, RecordKeepsConsistent, ZeroConsistent
<1> QED BY <1>3, <1>4, Invariance, PTL DEF Spec

-----------------------------------------------------------------------------
(* Enumeration of the records. *)

(* The number of members of S that lie before j. *)
Rank(S, j) == Cardinality({n \in S : n < j})

(* The ranks of the members of a finite set of naturals are the numbers    *)
(* below its size, each the rank of one member: the loop of flow_table_get *)
(* meets every record once.                                                *)
LEMMA RanksEnumerate ==
  ASSUME NEW S, S \subseteq Nat, IsFiniteSet(S)
  PROVE  /\ \A j \in S : Rank(S, j) \in 0 .. Cardinality(S) - 1
         /\ \A i, j \in S : Rank(S, i) = Rank(S, j) => i = j
         /\ \A r \in 0 .. Cardinality(S) - 1 : \E j \in S : Rank(S, j) = r
<1> DEFINE Before(j) == {n \in S : n < j}
           c == Cardinality(S)
           f == [j \in S |-> Rank(S, j)]
<1>1. c \in Nat
  BY FS_CardinalityType
<1>2. \A j \in S : IsFiniteSet(Before(j)) /\ Cardinality(Before(j)) \in Nat
  <2> SUFFICES ASSUME NEW j \in S PROVE IsFiniteSet(Before(j)) /\ Cardinality(Before(j)) \in Nat
    OBVIOUS
  <2>1. Before(j) \in SUBSET S
    OBVIOUS
  <2>2. IsFiniteSet(Before(j))
    BY <2>1, FS_Subset
  <2> QED BY <2>2, FS_CardinalityType
<1>3. ASSUME NEW j \in S PROVE Rank(S, j) \in 0 .. c - 1
  <2>1. Before(j) \in SUBSET S /\ j \notin Before(j)
    OBVIOUS
  <2> HIDE DEF Before
  <2>2. Cardinality(Before(j)) <= c /\ (c = Cardinality(Before(j)) => S = Before(j))
    BY <2>1, FS_Subset
  <2>3. Cardinality(Before(j)) # c
    BY <2>1, <2>2
  <2> HIDE DEF c
  <2>4. Rank(S, j) = Cardinality(Before(j))
    BY DEF Rank, Before
  <2> QED BY <1>1, <1>2, <2>2, <2>3, <2>4
<1>4. ASSUME NEW i \in S, NEW j \in S, i < j PROVE Rank(S, i) < Rank(S, j)
  <2>1. Before(i) \in SUBSET Before(j) /\ i \in Before(j) /\ i \notin Before(i)
    <3>1. \A n \in S : n \in Nat
      OBVIOUS
    <3>2. \A n \in S : n < i => n < j
      BY <1>4, <3>1
    <3>3. ~(i < i)
      BY <3>1
    <3> QED BY <1>4, <3>2, <3>3
  <2> HIDE DEF Before
  <2>2. /\ Cardinality(Before(i)) <= Cardinality(Before(j))
        /\ Cardinality(Before(j)) = Cardinality(Before(i)) => Before(j) = Before(i)
    BY <1>2, <2>1, FS_Subset
  <2>3. Cardinality(Before(i)) # Cardinality(Before(j))
    BY <2>1, <2>2
  <2>4. Rank(S, i) = Cardinality(Before(i)) /\ Rank(S, j) = Cardinality(Before(j))
    BY DEF Rank, Before
  <2> QED BY <1>2, <2>2, <2>3, <2>4
<1>5. ASSUME NEW i \in S, NEW j \in S, Rank(S, i) = Rank(S, j) PROVE i = j
  <2>1. Rank(S, i) \in Nat /\ i \in Nat /\ j \in Nat
    BY <1>3
  <2> QED BY <1>4, <1>5, <2>1
<1>6. IsFiniteSet(0 .. c - 1) /\ Cardinality(0 .. c - 1) = c
  <2> HIDE DEF c
  <2> QED BY <1>1, NumbersBelow
<1>7. f \in Injection(S, 0 .. c - 1)
  <2> HIDE DEF c
  <2> QED BY <1>3, <1>5 DEF Injection, IsInjective
<1>8. f \in Surjection(S, 0 .. c - 1)
  <2> HIDE DEF f
  <2>1. Cardinality(S) = Cardinality(0 .. c - 1)
    BY <1>6
  <2> HIDE DEF c
  <2> QED BY <1>6, <1>7, <2>1, FS_Injection
<1>9. \A r \in 0 .. c - 1 : \E j \in S : Rank(S, j) = r
  <2> HIDE DEF c
  <2> QED BY <1>8 DEF Surjection
<1> QED BY <1>3, <1>5, <1>9

(* flow_table_get, asked for the rank of a record, returns that record.    *)
LEMMA GetByRank ==
  ASSUME IInv, initialized, NEW j \in OccupiedSlots(slots)
  PROVE  flow_table_get(Rank(OccupiedSlots(slots), j)) =
           [err |-> "0", record |-> slots[j].record]
<1> DEFINE O == OccupiedSlots(slots)
           r == Rank(O, j)
           hits == {n \in O : Rank(O, n) = r}
<1>1. O \subseteq Nat /\ IsFiniteSet(O) /\ Cardinality(O) = count /\ count \in Nat
  BY InUse, OccupiedFinite, CapacityAssumption DEF Index
<1>2. r \in 0 .. count - 1 /\ \A n \in O : Rank(O, n) = r => n = j
  <2> HIDE DEF O
  <2>1. j \in O
    BY DEF O
  <2> QED BY <1>1, <2>1, RanksEnumerate
<1>3. hits = {j}
  BY <1>2
<1>4. Min(hits) = j
  <2>1. hits \subseteq Nat /\ hits # {}
    BY <1>1, <1>3
  <2>2. Min(hits) \in hits
    <3> HIDE DEF hits
    <3> QED BY <2>1, LeastElement
  <2> QED BY <1>3, <2>2
<1>5. flow_table_has_valid_shape /\ ~(r >= count)
  <2> HIDE DEF r
  <2> QED BY <1>1, <1>2, InUse DEF flow_table_has_valid_shape
<1>6. hits # {}
  BY <1>3
<1>7. hits = {n \in OccupiedSlots(slots) :
                Cardinality({m \in OccupiedSlots(slots) : m < n}) = r}
  BY DEF Rank
<1> HIDE DEF r, hits
<1>8. flow_table_get(r) = [err |-> "0", record |-> slots[Min(hits)].record]
  BY <1>5, <1>6, <1>7 DEF flow_table_get
<1> QED BY <1>4, <1>8 DEF r

(* The loop over flow_table_get(0 .. flow_table_count - 1), with which the *)
(* final CSV and the summary are written, visits every record of the table *)
(* exactly once and no index beyond it answers.                            *)
THEOREM GetCorrect == Spec => []GetEnumeratesAll
<1>1. ASSUME IInv, initialized
      PROVE  LET visits == [i \in 0 .. flow_table_count - 1 |-> flow_table_get(i)] IN
             /\ \A i \in DOMAIN visits : visits[i].err = "0"
             /\ {visits[i].record : i \in DOMAIN visits} =
                  {slots[j].record : j \in OccupiedSlots(slots)}
             /\ Cardinality({visits[i].record.key : i \in DOMAIN visits}) = flow_table_count
             /\ flow_table_get(flow_table_count).err = "ERANGE"
  <2> DEFINE O == OccupiedSlots(slots)
             visits == [i \in 0 .. flow_table_count - 1 |-> flow_table_get(i)]
             D == 0 .. count - 1
             keys == {visits[i].record.key : i \in D}
             f == [i \in D |-> visits[i].record.key]
  <2>1. /\ O \subseteq Nat /\ IsFiniteSet(O) /\ Cardinality(O) = count
        /\ count \in Nat /\ count <= Capacity /\ Unique(slots)
    BY <1>1, InUse, OccupiedFinite, CapacityAssumption DEF Index
  <2>2. flow_table_has_valid_shape /\ flow_table_count = count
    BY <1>1, <2>1 DEF flow_table_has_valid_shape, flow_table_count
  <2>3. /\ \A j \in O : Rank(O, j) \in D
        /\ \A i \in D : \E j \in O : Rank(O, j) = i
    <3> HIDE DEF O
    <3> QED BY <2>1, RanksEnumerate
  <2>4. DOMAIN visits = D /\ \A i \in D : visits[i] = flow_table_get(i)
    BY <2>2
  <2>5. \A j \in O : flow_table_get(Rank(O, j)) = [err |-> "0", record |-> slots[j].record]
    BY <1>1, GetByRank
  <2> HIDE DEF visits
  <2>6. \A i \in D : \E j \in O :
          /\ i = Rank(O, j)
          /\ visits[i].err = "0"
          /\ visits[i].record = slots[j].record
    <3> SUFFICES ASSUME NEW i \in D
                 PROVE  \E j \in O : /\ i = Rank(O, j)
                                     /\ visits[i].err = "0"
                                     /\ visits[i].record = slots[j].record
      OBVIOUS
    <3>1. PICK j \in O : Rank(O, j) = i
      BY <2>3
    <3>2. visits[i] = [err |-> "0", record |-> slots[j].record]
      BY <2>4, <2>5, <3>1
    <3> QED BY <3>1, <3>2
  <2>7. \A j \in O : \E i \in D : visits[i].record = slots[j].record
    <3> SUFFICES ASSUME NEW j \in O PROVE \E i \in D : visits[i].record = slots[j].record
      OBVIOUS
    <3>1. visits[Rank(O, j)] = [err |-> "0", record |-> slots[j].record]
      BY <2>3, <2>4, <2>5
    <3> QED BY <2>3, <3>1
  <2> HIDE DEF D, O
  <2>8. \A i \in D : visits[i].err = "0"
    BY <2>6
  <2>9. {visits[i].record : i \in D} = {slots[j].record : j \in O}
    <3>1. \A i \in D : \E j \in O : visits[i].record = slots[j].record
      BY <2>6
    <3> QED BY <2>7, <3>1
  <2>10. Cardinality(keys) = count
    <3>1. ASSUME NEW i \in D, NEW n \in D, visits[i].record.key = visits[n].record.key
          PROVE  i = n
      <4>1. PICK j \in O : i = Rank(O, j) /\ visits[i].record = slots[j].record
        BY <2>6
      <4>2. PICK m \in O : n = Rank(O, m) /\ visits[n].record = slots[m].record
        BY <2>6
      <4>3. slots[j].record.key = slots[m].record.key
        BY <3>1, <4>1, <4>2
      <4>4. j = m
        BY <2>1, <4>3 DEF Unique, O
      <4> QED BY <4>1, <4>2, <4>4
    <3>2. f \in Surjection(D, keys)
      BY DEF Surjection
    <3>3. f \in Injection(D, keys)
      <4>1. f \in [D -> keys] /\ \A i \in D : f[i] = visits[i].record.key
        OBVIOUS
      <4> HIDE DEF f
      <4> QED BY <3>1, <4>1 DEF Injection, IsInjective
    <3>4. IsFiniteSet(D) /\ Cardinality(D) = count
      BY <2>1, NumbersBelow DEF D
    <3> HIDE DEF f, keys
    <3> QED BY <3>2, <3>3, <3>4, FS_Surjection
  <2>11. flow_table_get(count) = [err |-> "ERANGE"]
    BY <2>1, <2>2 DEF flow_table_get
  <2>12. flow_table_get(count).err = "ERANGE"
    BY <2>11
  <2> QED BY <2>2, <2>4, <2>8, <2>9, <2>10, <2>12 DEF O, visits
<1>2. IInv => GetEnumeratesAll
  BY <1>1 DEF GetEnumeratesAll
<1> QED BY <1>2, Invariance, PTL

-----------------------------------------------------------------------------
(* FlowMap and the table use the same operators. *)

(* FlowMap counts, ... *)
LEMMA MapCardinality == ASSUME NEW S PROVE Map!Cardinality(S) = Cardinality(S)
BY DEF Map!Cardinality, Cardinality

(* ... reads times, ... *)
LEMMA MapTimes ==
  ASSUME NEW a, NEW b
  PROVE  /\ Map!TimeBefore(a, b) = TimeBefore(a, b)
         /\ Map!TimeAtOrBefore(a, b) = TimeAtOrBefore(a, b)
BY DEF Map!TimeBefore, TimeBefore, Map!TimeAtOrBefore, TimeAtOrBefore

(* ... keys ... *)
LEMMA MapKeys ==
  ASSUME NEW p
  PROVE  /\ Map!KeyError(p) = KeyError(p)
         /\ Map!KeyOf(p) = KeyOf(p)
         /\ Map!DirectionOf(p) = DirectionOf(p)
<1>1. Map!KeyError(p) = KeyError(p)
  BY DEF Map!KeyError, KeyError, Map!Transports, Transports
<1>2. Map!SourceEndpoint(p) = SourceEndpoint(p) /\ Map!DestinationEndpoint(p) = DestinationEndpoint(p)
  BY DEF Map!SourceEndpoint, SourceEndpoint, Map!DestinationEndpoint, DestinationEndpoint,
         Map!FlowEndpoint, FlowEndpoint
<1>3. \A x, y : Map!EndpointAtOrBelow(x, y) = EndpointAtOrBelow(x, y)
  BY DEF Map!EndpointAtOrBelow, EndpointAtOrBelow
<1>4. Map!KeyOf(p) = KeyOf(p)
  BY <1>2, <1>3 DEF Map!KeyOf, KeyOf
<1>5. Map!DirectionOf(p) = DirectionOf(p)
  BY <1>2, <1>3 DEF Map!DirectionOf, DirectionOf, Map!A_TO_B, A_TO_B, Map!B_TO_A, B_TO_A
<1> QED BY <1>1, <1>4, <1>5

(* ... TCP states ... *)
LEMMA MapTcp ==
  /\ Map!tcp_flow_state_init = tcp_flow_state_init
  /\ Map!ZeroTcpState = ZeroTcpState
  /\ \A s, d, flags : Map!tcp_flow_state_observe(s, d, flags) = tcp_flow_state_observe(s, d, flags)
<1>1. Map!ZeroTcpState = ZeroTcpState
  BY DEF Map!ZeroTcpState, ZeroTcpState, Map!UNKNOWN, UNKNOWN
<1>2. Map!tcp_flow_state_init = tcp_flow_state_init
  BY <1>1 DEF Map!tcp_flow_state_init, tcp_flow_state_init
<1>3. ASSUME NEW s, NEW d, NEW flags
      PROVE  Map!tcp_flow_state_observe(s, d, flags) = tcp_flow_state_observe(s, d, flags)
  <2>1. Map!tcp_flow_event_from_flags(flags) = tcp_flow_event_from_flags(flags)
    BY DEF Map!tcp_flow_event_from_flags, tcp_flow_event_from_flags
  <2>2. Map!ObserveFin(s, d) = ObserveFin(s, d)
    BY DEF Map!ObserveFin, ObserveFin
  <2>3. \A e : Map!ObserveHandshake(s, d, e) = ObserveHandshake(s, d, e)
    BY DEF Map!ObserveHandshake, ObserveHandshake
  <2> QED BY <2>1, <2>2, <2>3 DEF Map!tcp_flow_state_observe, tcp_flow_state_observe
<1> QED BY <1>1, <1>2, <1>3

(* ... and records with the same operators as the table. *)
LEMMA MapRecords ==
  ASSUME NEW p
  PROVE  /\ Map!RecordInitError(p) = RecordInitError(p)
         /\ Map!flow_record_init(p) = flow_record_init(p)
         /\ \A r : Map!RecordUpdateError(r, p) = RecordUpdateError(r, p)
         /\ \A r : Map!flow_record_update(r, p) = flow_record_update(r, p)
<1>1. Map!ZeroStats = ZeroStats
  BY DEF Map!ZeroStats, ZeroStats
<1>2. \A s : Map!StatsOverflow(s, p) = StatsOverflow(s, p)
  BY DEF Map!StatsOverflow, StatsOverflow
<1>3. \A s : Map!flow_direction_stats_add_packet(s, p) = flow_direction_stats_add_packet(s, p)
  BY DEF Map!flow_direction_stats_add_packet, flow_direction_stats_add_packet
<1>4. Map!Directions = Directions
  BY DEF Map!Directions, Directions, Map!A_TO_B, A_TO_B, Map!B_TO_A, B_TO_A
<1>5. Map!RecordInitError(p) = RecordInitError(p)
  BY <1>1, <1>2, MapKeys DEF Map!RecordInitError, RecordInitError
<1>6. Map!flow_record_init(p) = flow_record_init(p)
  BY <1>1, <1>3, <1>4, MapKeys, MapTcp DEF Map!flow_record_init, flow_record_init
<1>7. ASSUME NEW r PROVE Map!RecordUpdateError(r, p) = RecordUpdateError(r, p)
  BY <1>2, MapKeys DEF Map!RecordUpdateError, RecordUpdateError
<1>8. ASSUME NEW r PROVE Map!flow_record_update(r, p) = flow_record_update(r, p)
  BY <1>3, MapKeys, MapTcp, MapTimes DEF Map!flow_record_update, flow_record_update
<1> QED BY <1>5, <1>6, <1>7, <1>8

-----------------------------------------------------------------------------
(* The flows of an array of slots. *)

KeysOf(s, R) == {s[j].record.key : j \in R}

FlowsOf(s) ==
  [k \in KeysOf(s, OccupiedSlots(s)) |->
     s[CHOOSE j \in OccupiedSlots(s) : s[j].record.key = k].record]

IsFunction(f) == f = [k \in DOMAIN f |-> f[k]]

(* The flows of FlowMap are those of the caller's storage. *)
LEMMA FlowsAreOf ==
  /\ Flows = IF initialized THEN FlowsOf(slots) ELSE Map!NoFlows
  /\ Flows' = IF initialized' THEN FlowsOf(slots') ELSE Map!NoFlows
BY DEF Flows, FlowsOf, KeysOf, Map!NoFlows

(* Each key in the table is mapped to its one record. *)
LEMMA FlowsMembers ==
  ASSUME NEW s, Unique(s)
  PROVE  /\ DOMAIN FlowsOf(s) = KeysOf(s, OccupiedSlots(s))
         /\ \A j \in OccupiedSlots(s) : FlowsOf(s)[s[j].record.key] = s[j].record
<1>1. DOMAIN FlowsOf(s) = KeysOf(s, OccupiedSlots(s))
  BY DEF FlowsOf
<1>2. ASSUME NEW j \in OccupiedSlots(s) PROVE FlowsOf(s)[s[j].record.key] = s[j].record
  <2> DEFINE k == s[j].record.key
             n == CHOOSE n \in OccupiedSlots(s) : s[n].record.key = k
  <2>1. n \in OccupiedSlots(s) /\ s[n].record.key = k
    OBVIOUS
  <2>2. n = j
    BY <2>1 DEF Unique
  <2>3. k \in KeysOf(s, OccupiedSlots(s))
    BY DEF KeysOf
  <2>4. FlowsOf(s)[k] = s[n].record
    BY <2>3 DEF FlowsOf
  <2> HIDE DEF n
  <2> QED BY <2>2, <2>4
<1> QED BY <1>1, <1>2

(* And the flows are determined by that. *)
LEMMA FlowsDetermined ==
  ASSUME NEW s, Unique(s), NEW f, IsFunction(f),
         DOMAIN f = KeysOf(s, OccupiedSlots(s)),
         \A j \in OccupiedSlots(s) : f[s[j].record.key] = s[j].record
  PROVE  FlowsOf(s) = f
<1> DEFINE g == FlowsOf(s)
<1>1. /\ DOMAIN g = KeysOf(s, OccupiedSlots(s))
      /\ \A j \in OccupiedSlots(s) : g[s[j].record.key] = s[j].record
  BY FlowsMembers
<1>2. IsFunction(g)
  BY DEF FlowsOf, IsFunction
<1> HIDE DEF g
<1>3. \A k \in DOMAIN f : f[k] = g[k]
  BY <1>1 DEF KeysOf
<1>4. f = g
  BY <1>1, <1>2, <1>3 DEF IsFunction
<1> QED BY <1>4 DEF g

(* There are as many keys as slots that hold them. *)
LEMMA KeysCount ==
  ASSUME NEW s, Unique(s), NEW R \in SUBSET OccupiedSlots(s)
  PROVE  IsFiniteSet(KeysOf(s, R)) /\ Cardinality(KeysOf(s, R)) = Cardinality(R)
<1> DEFINE f == [j \in R |-> s[j].record.key]
<1>1. IsFiniteSet(R)
  BY OccupiedFinite, FS_Subset
<1>2. f \in [R -> KeysOf(s, R)] /\ \A j \in R : f[j] = s[j].record.key
  BY DEF KeysOf
<1>3. \A i, j \in R : s[i].record.key = s[j].record.key => i = j
  BY DEF Unique
<1> HIDE DEF f
<1>4. f \in Injection(R, KeysOf(s, R))
  BY <1>2, <1>3 DEF Injection, IsInjective
<1>5. f \in Surjection(R, KeysOf(s, R))
  BY <1>2 DEF Surjection, KeysOf
<1> QED BY <1>1, <1>4, <1>5, FS_Surjection

(* A record put into slot t replaces what the slot held. *)
LEMMA FlowsAfterPut ==
  ASSUME NEW s, NEW sn, NEW r \in FlowRecords, NEW t \in Index,
         Unique(s), Unique(sn),
         \A j \in Index : sn[j] = IF j = t THEN Occupied(r) ELSE s[j]
  PROVE  /\ (t \in OccupiedSlots(s) => s[t].record.key = r.key) =>
              FlowsOf(sn) = Map!With(FlowsOf(s), r)
         /\ t \in OccupiedSlots(s) =>
              FlowsOf(sn) = Map!With(Map!Without(FlowsOf(s), {s[t].record.key}), r)
<1> DEFINE O == OccupiedSlots(s)
           D == KeysOf(s, O)
           f == FlowsOf(s)
           old == IF t \in O THEN {s[t].record.key} ELSE {}
           with == Map!With(f, r)
           swap == Map!With(Map!Without(f, old), r)
<1>1. /\ OccupiedSlots(sn) = O \cup {t}
      /\ sn[t].record = r
      /\ \A j \in O : j # t => sn[j] = s[j]
  BY OccupiedType DEF OccupiedSlots
<1>2. /\ DOMAIN f = D
      /\ \A j \in O : f[s[j].record.key] = s[j].record
  BY FlowsMembers
<1>3. \A i, j \in O : s[i].record.key = s[j].record.key => i = j
  BY DEF Unique
<1>4. \A j \in O : j # t => s[j].record.key # r.key
  BY <1>1 DEF Unique
<1>5. KeysOf(sn, OccupiedSlots(sn)) = (D \ old) \cup {r.key}
  <2>1. \A j \in O \ {t} : sn[j].record.key = s[j].record.key /\ s[j].record.key \notin old
    BY <1>1, <1>3
  <2>2. KeysOf(sn, O \cup {t}) = KeysOf(s, O \ {t}) \cup {r.key}
    BY <1>1, <2>1 DEF KeysOf
  <2>3. KeysOf(s, O \ {t}) = D \ old
    BY <2>1 DEF KeysOf
  <2> QED BY <1>1, <2>2, <2>3
<1>6. \A j \in O \ {t} : s[j].record.key \in D \ old
  BY <1>3 DEF KeysOf
<1> HIDE DEF f, old, D
<1>7. FlowsOf(sn) = swap
  <2>1. DOMAIN swap = (D \ old) \cup {r.key} /\ IsFunction(swap)
    BY <1>2 DEF IsFunction, Map!With, Map!Without
  <2>2. swap[r.key] = r /\ \A k \in D \ old : k # r.key => swap[k] = f[k]
    BY <1>2 DEF Map!With, Map!Without
  <2> HIDE DEF swap
  <2>3. \A j \in OccupiedSlots(sn) : swap[sn[j].record.key] = sn[j].record
    <3> SUFFICES ASSUME NEW j \in O \cup {t} PROVE swap[sn[j].record.key] = sn[j].record
      BY <1>1
    <3>1. CASE j = t
      BY <1>1, <2>2, <3>1
    <3>2. CASE j # t
      BY <1>1, <1>2, <1>4, <1>6, <2>2, <3>2
    <3> QED BY <3>1, <3>2
  <2> QED BY <1>5, <2>1, <2>3, FlowsDetermined
<1>8. ASSUME old \subseteq {r.key} PROVE swap = with
  <2>1. (D \ old) \cup {r.key} = D \cup {r.key}
    BY <1>8
  <2> QED BY <1>2, <1>8, <2>1 DEF Map!With, Map!Without
<1>9. ASSUME t \in O PROVE swap = Map!With(Map!Without(f, {s[t].record.key}), r)
  BY <1>9 DEF old
<1>10. (t \in O => s[t].record.key = r.key) => old \subseteq {r.key}
  BY DEF old
<1> QED BY <1>7, <1>8, <1>9, <1>10 DEF f

(* Removed records leave, the others stay. *)
LEMMA FlowsAfterRemove ==
  ASSUME NEW s, NEW sn, NEW R \in SUBSET OccupiedSlots(s), Unique(s), Unique(sn),
         OccupiedSlots(sn) = OccupiedSlots(s) \ R,
         \A j \in OccupiedSlots(sn) : sn[j] = s[j]
  PROVE  FlowsOf(sn) = Map!Without(FlowsOf(s), KeysOf(s, R))
<1> DEFINE O == OccupiedSlots(s)
           f == FlowsOf(s)
           g == Map!Without(f, KeysOf(s, R))
<1>1. /\ DOMAIN f = KeysOf(s, O)
      /\ \A j \in O : f[s[j].record.key] = s[j].record
  BY FlowsMembers
<1>2. \A j \in O \ R : s[j].record.key \notin KeysOf(s, R)
  BY DEF Unique, KeysOf
<1>3. KeysOf(sn, O \ R) = KeysOf(s, O) \ KeysOf(s, R)
  BY <1>2 DEF KeysOf
<1> HIDE DEF f
<1>4. /\ DOMAIN g = KeysOf(s, O) \ KeysOf(s, R)
      /\ IsFunction(g)
      /\ \A k \in KeysOf(s, O) \ KeysOf(s, R) : g[k] = f[k]
  BY <1>1 DEF Map!Without, IsFunction
<1> HIDE DEF g
<1>5. \A j \in O \ R : s[j].record.key \in KeysOf(s, O) \ KeysOf(s, R)
  BY <1>2 DEF KeysOf
<1>6. \A j \in OccupiedSlots(sn) : g[sn[j].record.key] = sn[j].record
  BY <1>1, <1>4, <1>5
<1>7. FlowsOf(sn) = g
  BY <1>3, <1>4, <1>6, FlowsDetermined
<1> QED BY <1>7 DEF g, f

-----------------------------------------------------------------------------
(* Every step of the table is a step of the map. *)

(* What a table in use is to the map. *)
LEMMA FlowsInUse ==
  ASSUME IInv, initialized
  PROVE  /\ Flows = FlowsOf(slots)
         /\ DOMAIN Flows = KeysOf(slots, OccupiedSlots(slots))
         /\ \A j \in OccupiedSlots(slots) : Flows[slots[j].record.key] = slots[j].record
         /\ Cardinality(DOMAIN Flows) = count
<1>1. Unique(slots) /\ count = Cardinality(OccupiedSlots(slots))
  BY InUse
<1>2. Flows = FlowsOf(slots)
  BY FlowsAreOf
<1>3. /\ DOMAIN FlowsOf(slots) = KeysOf(slots, OccupiedSlots(slots))
      /\ \A j \in OccupiedSlots(slots) : FlowsOf(slots)[slots[j].record.key] = slots[j].record
  BY <1>1, FlowsMembers
<1>4. Cardinality(KeysOf(slots, OccupiedSlots(slots))) = count
  BY <1>1, KeysCount
<1> QED BY <1>2, <1>3, <1>4

(* A call that fails changes no flow. *)
LEMMA FailRefuses ==
  ASSUME NEW err, Fail(err) PROVE Map!Refuse(err)
<1>1. slots' = slots /\ initialized' = initialized
  BY DEF Fail
<1>2. Flows' = Flows
  BY <1>1, FlowsAreOf
<1> QED BY <1>1, <1>2 DEF Fail, Return, Map!Refuse, Map!Returns

(* A packet of a known flow. *)
LEMMA UpdateImplements ==
  ASSUME IInv, IInv', initialized, initialized' = initialized, NEW p \in PacketInfo,
         NEW evict \in BOOLEAN, KeyError(p) = "0", Found(slots, KeyOf(p)),
         \/ ProcessError(p, evict) # "0" /\ Fail(ProcessError(p, evict))
         \/ ProcessError(p, evict) = "0" /\ UpdateFlow(p)
  PROVE  Map!Update(p)
<1> DEFINE k == KeyOf(p)
           t == TargetSlot(slots, k)
           r == slots[t].record
           new == flow_record_update(r, p)
<1>1. k \in FlowKeys
  BY KeyType
<1>2. t \in OccupiedSlots(slots) /\ t \in Index /\ r.key = k /\ r \in FlowRecords
  BY <1>1, FoundTarget, InUse, SlotKinds DEF OccupiedSlots
<1>3. k \in DOMAIN Flows /\ Flows[k] = r
  BY <1>2, FlowsInUse DEF KeysOf
<1>4. ProbeError(slots, count, k) = "0"
  <2>1. PICK i \in InspectedIn(slots, k, "OCCUPIED") : HoldsKey(slots[ProbeIndex(k, i)], k)
    BY DEF Found
  <2>2. i \in Index
    BY InspectedRange, CapacityAssumption DEF InspectedIn, Index
  <2> QED BY <2>1, <2>2 DEF StopsAt, ProbeError
<1>5. ProcessError(p, evict) = RecordUpdateError(r, p)
  BY <1>4 DEF ProcessError
<1>6. CASE ProcessError(p, evict) # "0" /\ Fail(ProcessError(p, evict))
  <2>1. Map!Refuse(RecordUpdateError(r, p)) /\ RecordUpdateError(r, p) # "0"
    BY <1>5, <1>6, FailRefuses
  <2> QED BY <1>3, <2>1, MapKeys, MapRecords DEF Map!Update
<1>7. CASE ProcessError(p, evict) = "0" /\ UpdateFlow(p)
  <2>1. RecordUpdateError(r, p) = "0"
    BY <1>5, <1>7
  <2>2. new \in FlowRecords /\ new.key = k
    BY <1>2, <2>1, RecordUpdateType
  <2>3. slots' = [slots EXCEPT ![t] = Occupied(new)]
        /\ result' = [err |-> "0", created |-> FALSE, out |-> {}]
    BY <1>7 DEF UpdateFlow, Return
  <2> HIDE DEF new, t, r, k
  <2>4. \A j \in Index : slots'[j] = IF j = t THEN Occupied(new) ELSE slots[j]
    BY <1>2, <2>3, InUse
  <2>5. Unique(slots) /\ Unique(slots')
    <3>1. UniqueKeys'
      BY DEF IInv
    <3> QED BY <3>1, InUse DEF UniqueKeys, Unique
  <2>6. slots[t].record.key = new.key
    BY <1>2, <2>2 DEF r
  <2>7. FlowsOf(slots') = Map!With(FlowsOf(slots), new)
    BY <1>2, <2>2, <2>4, <2>5, <2>6, FlowsAfterPut
  <2>8. Flows' = Map!With(Flows, new)
    BY <2>7, FlowsAreOf
  <2>9. Map!KeyOf(p) = k /\ Map!RecordUpdateError(r, p) = "0" /\ Map!flow_record_update(r, p) = new
    BY <2>1, MapKeys, MapRecords DEF k, new
  <2> QED BY <1>3, <2>3, <2>8, <2>9 DEF Map!Update, Map!Returns
<1> QED BY <1>6, <1>7

(* In use, the slots after a step hold each key once. *)
LEMMA UniqueNext ==
  ASSUME IInv, IInv', initialized, initialized'
  PROVE  Unique(slots) /\ Unique(slots')
<1>1. UniqueKeys'
  BY DEF IInv
<1> QED BY <1>1, InUse DEF UniqueKeys, Unique

(* A packet of a new flow, while a slot is free. *)
LEMMA InsertImplements ==
  ASSUME IInv, IInv', initialized, initialized' = initialized, NEW p \in PacketInfo,
         NEW evict \in BOOLEAN, KeyError(p) = "0", ~Found(slots, KeyOf(p)),
         ProbeError(slots, count, KeyOf(p)) = "0",
         \/ ProcessError(p, evict) # "0" /\ Fail(ProcessError(p, evict))
         \/ ProcessError(p, evict) = "0" /\ InsertFlow(p)
  PROVE  Map!Create(p, evict)
<1> DEFINE k == KeyOf(p)
           t == TargetSlot(slots, k)
           new == flow_record_init(p)
           full == Cardinality(DOMAIN Flows) = Capacity
<1>1. k \in FlowKeys
  BY KeyType
<1>2. k \notin DOMAIN Flows
  <2>1. \A j \in OccupiedSlots(slots) : slots[j].record.key # k
    BY <1>1, InUse, NotFoundMeansAbsent
  <2> QED BY <2>1, FlowsInUse DEF KeysOf
<1>3. t \in Index /\ t \notin OccupiedSlots(slots)
  <2>1. PICK o \in Index : t = ProbeIndex(k, o) /\ slots[ProbeIndex(k, o)] \in {Empty, Deleted}
    BY <1>1, InUse, FreeTarget
  <2> QED BY <1>1, <2>1, ProbeIndexType DEF OccupiedSlots, Empty, Deleted
<1>4. count \in Nat /\ count < Capacity /\ ~full
  <2>1. OccupiedSlots(slots) \in SUBSET Index /\ OccupiedSlots(slots) # Index
    BY <1>3 DEF OccupiedSlots
  <2>2. Cardinality(OccupiedSlots(slots)) # Capacity
    BY <2>1, IndexIsFinite, FS_Subset DEF IndexFinite
  <2> QED BY <2>2, InUse, FlowsInUse, CapacityAssumption
<1>5. ProcessError(p, evict) = RecordInitError(p)
  <2>1. ~(count >= Capacity)
    BY <1>4, CapacityAssumption
  <2> QED BY <1>3, <2>1 DEF ProcessError
<1>6. Map!KeyOf(p) = k /\ Map!RecordInitError(p) = RecordInitError(p) /\ Map!flow_record_init(p) = new
  BY MapKeys, MapRecords
<1>7. CASE ProcessError(p, evict) # "0" /\ Fail(ProcessError(p, evict))
  <2>1. Map!Refuse(RecordInitError(p)) /\ RecordInitError(p) # "0"
    BY <1>5, <1>7, FailRefuses
  <2> HIDE DEF k, new
  <2> QED BY <1>2, <1>4, <1>6, <2>1, MapCardinality DEF Map!Create
<1>8. CASE ProcessError(p, evict) = "0" /\ InsertFlow(p)
  <2>1. RecordInitError(p) = "0"
    BY <1>5, <1>8
  <2>2. new \in FlowRecords /\ new.key = k
    BY <2>1, RecordInitType
  <2>3. slots' = [slots EXCEPT ![t] = Occupied(new)]
        /\ result' = [err |-> "0", created |-> TRUE, out |-> {}]
    BY <1>8 DEF InsertFlow, Return
  <2> HIDE DEF new, t, k
  <2>4. \A j \in Index : slots'[j] = IF j = t THEN Occupied(new) ELSE slots[j]
    BY <1>3, <2>3, InUse
  <2>5. Unique(slots) /\ Unique(slots')
    BY UniqueNext
  <2>6. FlowsOf(slots') = Map!With(FlowsOf(slots), new)
    BY <1>3, <2>2, <2>4, <2>5, FlowsAfterPut
  <2>7. Flows' = Map!With(Flows, new)
    BY <2>6, FlowsAreOf
  <2> QED BY <1>2, <1>4, <1>6, <2>1, <2>3, <2>7, MapCardinality DEF Map!Create, Map!Returns
<1> QED BY <1>7, <1>8

(* The record of a slot that is no later than any other is an oldest flow. *)
LEMMA OldestSlotIsOldestFlow ==
  ASSUME IInv, initialized, NEW t \in OccupiedSlots(slots),
         \A j \in OccupiedSlots(slots) : ~TimeBefore(LastSeen(slots, j), LastSeen(slots, t))
  PROVE  /\ slots[t].record.key \in DOMAIN Flows
         /\ Flows[slots[t].record.key] = slots[t].record
         /\ Map!IsOldest(slots[t].record.key)
<1> DEFINE key == slots[t].record.key
<1>1. key \in DOMAIN Flows /\ Flows[key] = slots[t].record
  BY FlowsInUse DEF KeysOf
<1>2. ASSUME NEW other \in DOMAIN Flows
      PROVE  ~Map!TimeBefore(Flows[other].last_seen, Flows[key].last_seen)
  <2>1. PICK j \in OccupiedSlots(slots) : other = slots[j].record.key
    BY FlowsInUse DEF KeysOf
  <2>2. Flows[other] = slots[j].record
    BY <2>1, FlowsInUse
  <2>3. ~TimeBefore(slots[j].record.last_seen, slots[t].record.last_seen)
    BY DEF LastSeen
  <2> QED BY <1>1, <2>2, <2>3, MapTimes
<1>3. Map!IsOldest(key)
  BY <1>2 DEF Map!IsOldest
<1> QED BY <1>1, <1>3

(* The choice made in a full table exists: it is an oldest record. *)
LEMMA OldestOffsetExists ==
  ASSUME IInv, initialized, NEW k \in FlowKeys, ProbeError(slots, count, k) = "ENOSPC"
  PROVE  LET o == OldestOffset(slots, k, InspectedIn(slots, k, "OCCUPIED")) IN
         /\ o \in Index
         /\ \A j \in OccupiedSlots(slots) :
              ~TimeBefore(LastSeen(slots, j), LastSeen(slots, ProbeIndex(k, o)))
<1> DEFINE o == OldestOffset(slots, k, InspectedIn(slots, k, "OCCUPIED"))
           T == [i \in Index |-> LastSeen(slots, ProbeIndex(k, i))]
<1>1. OccupiedSlots(slots) = Index /\ InspectedIn(slots, k, "OCCUPIED") = Index
  BY InUse, FullTable
<1>2. T \in [Index -> Timestamp]
  <2>1. \A j \in Index : slots[j].record \in FlowRecords
    BY <1>1, InUse, SlotKinds DEF OccupiedSlots
  <2> QED BY <2>1, ProbeIndexType DEF LastSeen, FlowRecords
<1>3. Index \subseteq Nat /\ Index # {}
  BY CapacityAssumption DEF Index
<1>4. \A i \in Index : T[i] = LastSeen(slots, ProbeIndex(k, i))
  OBVIOUS
<1> HIDE DEF T
<1>5. \E i \in Index : \A n \in Index : /\ ~TimeBefore(T[n], T[i])
                                        /\ n < i => TimeBefore(T[i], T[n])
  BY <1>2, <1>3, OldestExists, IndexIsFinite DEF IndexFinite
<1>6. /\ o \in Index
      /\ \A n \in Index : ~TimeBefore(LastSeen(slots, ProbeIndex(k, n)), LastSeen(slots, ProbeIndex(k, o)))
  BY <1>1, <1>4, <1>5 DEF OldestOffset
<1> HIDE DEF o
<1>7. ASSUME NEW j \in Index
      PROVE  ~TimeBefore(LastSeen(slots, j), LastSeen(slots, ProbeIndex(k, o)))
  <2>1. PICK n \in Index : ProbeIndex(k, n) = j
    BY ProbeIndexOnto
  <2> QED BY <1>6, <2>1
<1> QED BY <1>1, <1>6, <1>7 DEF o

(* A packet of a new flow, when every slot is taken. *)
LEMMA ReplaceImplements ==
  ASSUME IInv, IInv', initialized, initialized' = initialized, NEW p \in PacketInfo,
         NEW evict \in BOOLEAN, KeyError(p) = "0",
         ProbeError(slots, count, KeyOf(p)) = "ENOSPC",
         \/ ProcessError(p, evict) # "0" /\ Fail(ProcessError(p, evict))
         \/ ProcessError(p, evict) = "0" /\ ReplaceOldest(p)
  PROVE  Map!Create(p, evict)
<1> DEFINE k == KeyOf(p)
           o == OldestOffset(slots, k, InspectedIn(slots, k, "OCCUPIED"))
           t == ProbeIndex(k, o)
           new == flow_record_init(p)
           full == Cardinality(DOMAIN Flows) = Capacity
<1>1. k \in FlowKeys
  BY KeyType
<1>2. OccupiedSlots(slots) = Index /\ \A j \in Index : slots[j].record.key # k
  BY <1>1, InUse, FullTable
<1>3. k \notin DOMAIN Flows
  BY <1>2, FlowsInUse DEF KeysOf
<1>4. count = Capacity /\ full
  <2>1. count = Capacity
    BY <1>2, InUse, IndexIsFinite DEF IndexFinite
  <2> QED BY <2>1, FlowsInUse
<1>5. ProcessError(p, evict) = IF evict THEN RecordInitError(p) ELSE "ENOSPC"
  BY <1>4 DEF ProcessError
<1>6. Map!KeyOf(p) = k /\ Map!RecordInitError(p) = RecordInitError(p) /\ Map!flow_record_init(p) = new
  BY MapKeys, MapRecords
<1>7. CASE ProcessError(p, evict) # "0" /\ Fail(ProcessError(p, evict))
  <2>1. Map!Refuse(ProcessError(p, evict))
    BY <1>7, FailRefuses
  <2> HIDE DEF k, new, full
  <2>2. CASE evict
    <3>1. Map!Refuse(RecordInitError(p)) /\ RecordInitError(p) # "0"
      BY <1>5, <1>7, <2>1, <2>2
    <3> QED BY <1>3, <1>6, <2>2, <3>1 DEF Map!Create
  <2>3. CASE ~evict
    <3>1. Map!Refuse("ENOSPC")
      BY <1>5, <2>1, <2>3
    <3> QED BY <1>3, <1>4, <1>6, <2>3, <3>1, MapCardinality DEF Map!Create, full
  <2> QED BY <2>2, <2>3
<1>8. CASE ProcessError(p, evict) = "0" /\ ReplaceOldest(p)
  <2>1. evict /\ RecordInitError(p) = "0"
    BY <1>5, <1>8
  <2>2. new \in FlowRecords /\ new.key = k
    BY <2>1, RecordInitType
  <2>3. /\ slots' = [slots EXCEPT ![t] = Occupied(new)]
        /\ result' = [err |-> "0", created |-> TRUE, out |-> {slots[t].record}]
    BY <1>8 DEF ReplaceOldest, Return
  <2>4. /\ o \in Index
        /\ \A j \in OccupiedSlots(slots) : ~TimeBefore(LastSeen(slots, j), LastSeen(slots, t))
    BY <1>1, OldestOffsetExists
  <2>5. t \in Index /\ t \in OccupiedSlots(slots)
    BY <1>1, <1>2, <2>4, ProbeIndexType
  <2> HIDE DEF new, t, k, o
  <2> DEFINE key == slots[t].record.key
  <2>6. key \in DOMAIN Flows /\ Flows[key] = slots[t].record /\ Map!IsOldest(key)
    BY <2>4, <2>5, OldestSlotIsOldestFlow
  <2>7. \A j \in Index : slots'[j] = IF j = t THEN Occupied(new) ELSE slots[j]
    BY <2>3, <2>5, InUse
  <2>8. Unique(slots) /\ Unique(slots')
    BY UniqueNext
  <2>9. FlowsOf(slots') = Map!With(Map!Without(FlowsOf(slots), {key}), new)
    BY <2>2, <2>5, <2>7, <2>8, FlowsAfterPut
  <2>10. Flows' = Map!With(Map!Without(Flows, {key}), new)
    BY <2>9, FlowsAreOf
  <2> HIDE DEF key
  <2>11. result' = [err |-> "0", created |-> TRUE, out |-> {Flows[key]}]
    BY <2>3, <2>6
  <2>12. \E x \in DOMAIN Flows :
           /\ Map!IsOldest(x)
           /\ Flows' = Map!With(Map!Without(Flows, {x}), Map!flow_record_init(p))
           /\ Map!Returns("0", TRUE, {Flows[x]})
    BY <1>6, <2>6, <2>10, <2>11 DEF Map!Returns
  <2> QED BY <1>3, <1>4, <1>6, <2>1, <2>12, MapCardinality DEF Map!Create
<1> QED BY <1>7, <1>8

(* One packet, under either policy. *)
LEMMA ProcessImplements ==
  ASSUME IInv, IInv', NEW p \in PacketInfo, NEW evict \in BOOLEAN,
         flow_table_process_packet_internal(p, evict)
  PROVE  Map!Process(p, evict)
<1> DEFINE k == KeyOf(p)
<1>1. flow_table_has_valid_shape <=> initialized
  BY CapacityAssumption DEF flow_table_has_valid_shape, IInv, TypeOK
<1>2. Map!KeyError(p) = KeyError(p)
  BY MapKeys
<1>3. CASE /\ ~flow_table_has_valid_shape \/ KeyError(p) # "0"
           /\ Fail(IF flow_table_has_valid_shape THEN KeyError(p) ELSE "EINVAL")
  <2>1. CASE ~initialized
    <3>1. Map!Refuse("EINVAL")
      BY <1>1, <1>3, <2>1, FailRefuses
    <3> QED BY <2>1, <3>1 DEF Map!Process
  <2>2. CASE initialized
    <3>1. Map!Refuse(KeyError(p)) /\ KeyError(p) # "0"
      BY <1>1, <1>3, <2>2, FailRefuses
    <3> QED BY <1>2, <2>2, <3>1 DEF Map!Process
  <2> QED BY <2>1, <2>2
<1>4. CASE /\ flow_table_has_valid_shape /\ KeyError(p) = "0"
           /\ UNCHANGED initialized
           /\ \/ ProcessError(p, evict) # "0" /\ Fail(ProcessError(p, evict))
              \/ /\ ProcessError(p, evict) = "0"
                 /\ UpdateFlow(p) \/ InsertFlow(p) \/ ReplaceOldest(p)
  <2>1. initialized /\ initialized' = initialized /\ KeyError(p) = "0"
    BY <1>1, <1>4
  <2>2. ProbeError(slots, count, k) \in {"0", "ENOSPC"}
    <3>1. count = Cardinality(OccupiedSlots(slots))
      BY <2>1, InUse
    <3> QED BY <3>1 DEF ProbeError
  <2>3. ProbeError(slots, count, k) = "ENOSPC" => ~Found(slots, k)
    BY <2>1, InUse, KeyType, FullTable
  <2>4. CASE Found(slots, k)
    <3>1. ~InsertFlow(p) /\ ~ReplaceOldest(p)
      BY <2>3, <2>4 DEF InsertFlow, ReplaceOldest
    <3>2. Map!Update(p)
      BY <1>4, <2>1, <2>4, <3>1, UpdateImplements
    <3> QED BY <1>2, <2>1, <3>2 DEF Map!Process
  <2>5. CASE ~Found(slots, k) /\ ProbeError(slots, count, k) = "0"
    <3>1. ~UpdateFlow(p) /\ ~ReplaceOldest(p)
      BY <2>5 DEF UpdateFlow, ReplaceOldest
    <3>2. Map!Create(p, evict)
      BY <1>4, <2>1, <2>5, <3>1, InsertImplements
    <3> QED BY <1>2, <2>1, <3>2 DEF Map!Process
  <2>6. CASE ~Found(slots, k) /\ ProbeError(slots, count, k) = "ENOSPC"
    <3>1. ~UpdateFlow(p) /\ ~InsertFlow(p)
      BY <2>6 DEF UpdateFlow, InsertFlow
    <3>2. Map!Create(p, evict)
      BY <1>4, <2>1, <2>6, <3>1, ReplaceImplements
    <3> QED BY <1>2, <2>1, <3>2 DEF Map!Process
  <2> QED BY <2>2, <2>4, <2>5, <2>6
<1> QED BY <1>3, <1>4 DEF flow_table_process_packet_internal

(* What Remove leaves of a table in use. *)
LEMMA RemoveFlows ==
  ASSUME IInv, IInv', initialized, initialized', NEW R \in SUBSET OccupiedSlots(slots), Remove(R)
  PROVE  Flows' = Map!Without(Flows, KeysOf(slots, R))
<1> DEFINE reset == count' = 0
<1>1. /\ count' = count - Cardinality(R)
      /\ slots' = [j \in Index |-> IF reset THEN Empty ELSE IF j \in R THEN Deleted ELSE slots[j]]
  BY DEF Remove
<1>2. /\ IsFiniteSet(OccupiedSlots(slots))
      /\ Cardinality(R) \in Nat
      /\ Cardinality(R) = count => R = OccupiedSlots(slots)
      /\ count = Cardinality(OccupiedSlots(slots)) /\ count \in Nat
  BY InUse, OccupiedFinite, FS_Subset, FS_CardinalityType
<1>3. reset => R = OccupiedSlots(slots)
  BY <1>1, <1>2
<1>4. \A j \in Index : slots'[j] = IF reset THEN Empty ELSE IF j \in R THEN Deleted ELSE slots[j]
  BY <1>1
<1> HIDE DEF reset
<1>5. /\ OccupiedSlots(slots') = OccupiedSlots(slots) \ R
      /\ \A j \in OccupiedSlots(slots') : slots'[j] = slots[j]
  BY <1>3, <1>4 DEF OccupiedSlots, Empty, Deleted
<1>6. Unique(slots) /\ Unique(slots')
  BY UniqueNext
<1>7. FlowsOf(slots') = Map!Without(FlowsOf(slots), KeysOf(slots, R))
  BY <1>5, <1>6, FlowsAfterRemove
<1> QED BY <1>7, FlowsAreOf

(* flow_table_evict_oldest takes out an oldest flow. *)
LEMMA EvictImplements ==
  ASSUME IInv, IInv', flow_table_evict_oldest
  PROVE  Map!EvictOldest
<1>1. initialized' = initialized
  BY DEF flow_table_evict_oldest
<1>2. flow_table_has_valid_shape <=> initialized
  BY CapacityAssumption DEF flow_table_has_valid_shape, IInv, TypeOK
<1>3. CASE EvictError # "0" /\ Fail(EvictError)
  <2>1. Map!Refuse(EvictError)
    BY <1>3, FailRefuses
  <2>2. CASE ~initialized
    <3>1. EvictError = "EINVAL"
      BY <1>2, <2>2 DEF EvictError
    <3> QED BY <2>1, <2>2, <3>1 DEF Map!EvictOldest
  <2>3. CASE initialized
    <3>1. EvictError = "ENOENT" /\ OccupiedSlots(slots) = {}
      BY <1>2, <1>3, <2>3, InUse DEF EvictError
    <3>2. DOMAIN Flows = {}
      BY <2>3, <3>1, FlowsInUse DEF KeysOf
    <3> QED BY <2>1, <2>3, <3>1, <3>2 DEF Map!EvictOldest
  <2> QED BY <2>2, <2>3
<1>4. CASE /\ EvictError = "0"
           /\ Remove({OldestSlot})
           /\ Return("0", FALSE, {slots[OldestSlot].record})
  <2> DEFINE t == OldestSlot
             key == slots[t].record.key
             T == [j \in OccupiedSlots(slots) |-> LastSeen(slots, j)]
  <2>1. initialized /\ OccupiedSlots(slots) # {}
    BY <1>4 DEF EvictError, flow_table_has_valid_shape
  <2>2. \A j \in OccupiedSlots(slots) : slots[j].record \in FlowRecords
    BY <2>1, InUse, SlotKinds DEF OccupiedSlots
  <2>3. T \in [OccupiedSlots(slots) -> Timestamp]
    BY <2>2 DEF LastSeen, FlowRecords
  <2>4. OccupiedSlots(slots) \subseteq Nat
    BY CapacityAssumption DEF OccupiedSlots, Index
  <2>5. \A j \in OccupiedSlots(slots) : T[j] = LastSeen(slots, j)
    OBVIOUS
  <2> HIDE DEF T
  <2>6. \E i \in OccupiedSlots(slots) : \A n \in OccupiedSlots(slots) :
          /\ ~TimeBefore(T[n], T[i])
          /\ n < i => TimeBefore(T[i], T[n])
    BY <2>1, <2>3, <2>4, OldestExists, OccupiedFinite
  <2>7. /\ t \in OccupiedSlots(slots)
        /\ \A j \in OccupiedSlots(slots) : ~TimeBefore(LastSeen(slots, j), LastSeen(slots, t))
    BY <2>5, <2>6 DEF OldestSlot
  <2>8. result' = [err |-> "0", created |-> FALSE, out |-> {slots[t].record}]
    BY <1>4 DEF Return
  <2>9. Remove({t})
    BY <1>4
  <2> HIDE DEF t
  <2>10. key \in DOMAIN Flows /\ Flows[key] = slots[t].record /\ Map!IsOldest(key)
    BY <2>1, <2>7, OldestSlotIsOldestFlow
  <2>11. Flows' = Map!Without(Flows, {key})
    <3>1. KeysOf(slots, {t}) = {key}
      BY DEF KeysOf
    <3>2. Flows' = Map!Without(Flows, KeysOf(slots, {t}))
      BY <1>1, <2>1, <2>7, <2>9, RemoveFlows
    <3> QED BY <3>1, <3>2
  <2> HIDE DEF key
  <2>12. \E x \in DOMAIN Flows :
           /\ Map!IsOldest(x)
           /\ Flows' = Map!Without(Flows, {x})
           /\ Map!Returns("0", FALSE, {Flows[x]})
    BY <2>8, <2>10, <2>11 DEF Map!Returns
  <2> QED BY <1>1, <2>1, <2>12 DEF Map!EvictOldest
<1> QED BY <1>3, <1>4 DEF flow_table_evict_oldest

(* flow_table_expire_before hands out exactly the flows it removes. *)
LEMMA ExpireImplements ==
  ASSUME IInv, IInv', NEW cutoff, NEW size \in Nat, flow_table_expire_before(cutoff, size)
  PROVE  Map!Expire(cutoff, size)
<1> DEFINE R == Expired(cutoff)
           old == {k \in DOMAIN Flows : Map!TimeAtOrBefore(Flows[k].last_seen, cutoff)}
<1>1. initialized' = initialized
  BY DEF flow_table_expire_before
<1>2. flow_table_has_valid_shape <=> initialized
  BY CapacityAssumption DEF flow_table_has_valid_shape, IInv, TypeOK
<1>3. CASE ~initialized
  <2>1. ExpireError(cutoff, size) = "EINVAL"
    BY <1>2, <1>3 DEF ExpireError
  <2>2. Fail("EINVAL")
    BY <2>1 DEF flow_table_expire_before
  <2>3. Map!Refuse("EINVAL")
    BY <2>2, FailRefuses
  <2> QED BY <1>3, <2>3 DEF Map!Expire
<1>4. CASE initialized
  <2>1. R \in SUBSET OccupiedSlots(slots)
    BY DEF Expired
  <2>2. old = KeysOf(slots, R)
    <3>1. \A j \in OccupiedSlots(slots) :
            Map!TimeAtOrBefore(Flows[slots[j].record.key].last_seen, cutoff) <=> j \in R
      BY <1>4, FlowsInUse, MapTimes DEF Expired, LastSeen
    <3>2. DOMAIN Flows = KeysOf(slots, OccupiedSlots(slots))
      BY <1>4, FlowsInUse
    <3> HIDE DEF R
    <3> QED BY <2>1, <3>1, <3>2 DEF KeysOf
  <2>3. {Flows[k] : k \in old} = {slots[j].record : j \in R}
    <3>1. \A j \in R : Flows[slots[j].record.key] = slots[j].record
      BY <1>4, <2>1, FlowsInUse
    <3> HIDE DEF R, old
    <3> QED BY <2>2, <3>1 DEF KeysOf
  <2>4. Map!Cardinality(old) = Cardinality(R) /\ Cardinality(R) \in Nat
    <3>1. Unique(slots)
      BY <1>4, InUse
    <3>2. IsFiniteSet(R)
      BY <2>1, OccupiedFinite, FS_Subset
    <3>3. Cardinality(R) \in Nat
      BY <3>2, FS_CardinalityType
    <3> HIDE DEF R, old
    <3> QED BY <2>1, <2>2, <3>1, <3>3, KeysCount, MapCardinality
  <2>5. count = Cardinality(OccupiedSlots(slots))
    BY <1>4, InUse
  <2>6. ExpireError(cutoff, size) = IF Cardinality(R) > size THEN "ENOSPC" ELSE "0"
    BY <1>2, <1>4, <2>5 DEF ExpireError
  <2>7. CASE ExpireError(cutoff, size) # "0" /\ Fail(ExpireError(cutoff, size))
    <3>1. ExpireError(cutoff, size) = "ENOSPC" /\ Map!Cardinality(old) > size
      BY <2>4, <2>6, <2>7
    <3>2. Map!Refuse("ENOSPC")
      BY <2>7, <3>1, FailRefuses
    <3> HIDE DEF R
    <3> QED BY <1>4, <3>1, <3>2 DEF Map!Expire
  <2>8. CASE /\ ExpireError(cutoff, size) = "0"
             /\ Remove(R)
             /\ Return("0", FALSE, {slots[j].record : j \in R})
    <3>1. Map!Cardinality(old) <= size
      <4> HIDE DEF R, old
      <4> QED BY <2>4, <2>6, <2>8
    <3>2. result' = [err |-> "0", created |-> FALSE, out |-> {Flows[k] : k \in old}]
      BY <2>3, <2>8 DEF Return
    <3>3. Flows' = Map!Without(Flows, old)
      BY <1>1, <1>4, <2>1, <2>2, <2>8, RemoveFlows
    <3> HIDE DEF R
    <3> QED BY <1>1, <1>4, <3>1, <3>2, <3>3 DEF Map!Expire, Map!Returns
  <2> QED BY <2>7, <2>8 DEF flow_table_expire_before
<1>5. initialized \in BOOLEAN
  BY DEF IInv, TypeOK
<1> QED BY <1>3, <1>4, <1>5

(* Opening and closing the table. *)
LEMMA OpenImplements == flow_table_init => Map!Open
<1> SUFFICES ASSUME flow_table_init PROVE Map!Open
  OBVIOUS
<1> DEFINE fresh == [j \in Index |-> Empty]
<1>1. slots' = fresh /\ initialized' = TRUE /\ result' = [err |-> "0", created |-> FALSE, out |-> {}]
  BY DEF flow_table_init, Return
<1>2. OccupiedSlots(fresh) = {}
  BY EmptyStructure
<1> HIDE DEF fresh
<1>3. FlowsOf(fresh) = Map!NoFlows
  <2>1. FlowsOf(fresh) = [k \in {} |-> fresh[CHOOSE j \in {} : fresh[j].record.key = k].record]
    BY <1>2 DEF FlowsOf, KeysOf
  <2> QED BY <2>1 DEF Map!NoFlows
<1>4. Flows' = Map!NoFlows
  BY <1>1, <1>3, FlowsAreOf
<1> QED BY <1>1, <1>4 DEF Map!Open, Map!Returns

(* A closed table has no flows, although its storage keeps the records. *)
LEMMA CloseImplements == flow_table_cleanup => Map!Close
BY FlowsAreOf DEF flow_table_cleanup, Return, Map!Close, Map!Returns

(* Every step of the table is a step of the map, or leaves the map alone. *)
LEMMA StepImplements == IInv /\ IInv' /\ [Next]_vars => [Map!MapNext]_(Map!mapVars)
<1> SUFFICES ASSUME IInv, IInv', [Next]_vars PROVE [Map!MapNext]_(Map!mapVars)
  OBVIOUS
<1>1. CASE flow_table_init
  BY <1>1, OpenImplements DEF Map!MapNext
<1>2. CASE flow_table_cleanup
  BY <1>2, CloseImplements DEF Map!MapNext
<1>3. ASSUME NEW p \in Packets, NEW evict \in BOOLEAN, flow_table_process_packet_internal(p, evict)
      PROVE  Map!MapNext
  <2>1. Map!Process(p, evict)
    BY <1>3, PacketsAssumption, ProcessImplements
  <2> QED BY <2>1 DEF Map!MapNext
<1>4. CASE \E p \in Packets : flow_table_process_packet(p)
  BY <1>3, <1>4 DEF flow_table_process_packet
<1>5. CASE \E p \in Packets : flow_table_process_packet_with_oldest_eviction(p)
  BY <1>3, <1>5 DEF flow_table_process_packet_with_oldest_eviction
<1>6. CASE flow_table_evict_oldest
  BY <1>6, EvictImplements DEF Map!MapNext
<1>7. ASSUME NEW cutoff \in Cutoffs, NEW size \in OutputSizes, flow_table_expire_before(cutoff, size)
      PROVE  Map!MapNext
  <2>1. Map!Expire(cutoff, size)
    BY <1>7, OutputSizesAssumption, ExpireImplements
  <2> QED BY <2>1 DEF Map!MapNext
<1>8. CASE UNCHANGED vars
  <2>1. slots' = slots /\ initialized' = initialized /\ result' = result
    BY <1>8 DEF vars
  <2>2. Flows' = Flows
    BY <2>1, FlowsAreOf
  <2> QED BY <2>1, <2>2 DEF Map!mapVars
<1> QED BY <1>1, <1>2, <1>4, <1>5, <1>6, <1>7, <1>8 DEF Next

(* The flow table implements the map of FlowMap: whatever the capacity,    *)
(* the hash function and the calls, flow_table.c returns the errors, the   *)
(* created flags and the records that a map of at most Capacity flows      *)
(* prescribes, and keeps the flows that it prescribes.                     *)
THEOREM FlowMapRefinement == Spec => ImplementsFlowMap
<1>1. Init => Map!MapInit
  <2> SUFFICES ASSUME Init PROVE Map!MapInit
    OBVIOUS
  <2>1. initialized = FALSE /\ result = [err |-> "0", created |-> FALSE, out |-> {}]
    BY DEF Init
  <2>2. Flows = Map!NoFlows
    BY <2>1, FlowsAreOf
  <2> QED BY <2>1, <2>2 DEF Map!MapInit
<1>2. IInv /\ IInv' /\ [Next]_vars => [Map!MapNext]_(Map!mapVars)
  BY StepImplements
<1> QED BY <1>1, <1>2, Invariance, PTL DEF Spec, ImplementsFlowMap, Map!MapSpec
=============================================================================
