---------------------------- MODULE ClockProofs ----------------------------
(***************************************************************************)
(* The two schedules of a run.  The expiration schedule keeps its          *)
(* high-water mark, its interval and its cutoffs right for every integer   *)
(* range, every pair of periods and every sequence of packet timestamps,   *)
(* however long.  For every clock, every traffic and every width of the    *)
(* counters of the report schedule, no counter passes its width, no report *)
(* covers less than the interval, and the reports add up to what was       *)
(* counted.                                                                *)
(***************************************************************************)
EXTENDS ExpirationClock, MetricsClock, ProofLemmas

(* The cutoff of the last scan, idle_timeout_seconds before it. *)
LastCutoff == After(schedule.last_scan_timestamp, -schedule.idle_timeout_seconds)

(* The schedule on its own: a time was observed exactly when the flag says *)
(* so, and after that the last scan is neither overdue nor in the future.  *)
Timely ==
  /\ schedule.has_observation <=> observed # <<>>
  /\ HighWaterIsMaximum
  /\ NeverOverdue

(* The history of the scans: the last cutoff belongs to the last scan. *)
Cutoffs ==
  /\ scans # <<>> => observed # <<>> /\ scans[Len(scans)] = LastCutoff
  /\ CutoffsAdvance

IInv == TypeOK /\ Timely /\ Cutoffs

-----------------------------------------------------------------------------
(* The order of timestamps. *)

(* Times are ordered completely. *)
LEMMA TimeOrder ==
  ASSUME NEW a \in Timestamp, NEW b \in Timestamp, NEW c \in Timestamp
  PROVE  /\ TimeAtOrBefore(a, a)
         /\ TimeAtOrBefore(a, b) /\ TimeAtOrBefore(b, c) => TimeAtOrBefore(a, c)
         /\ ~TimeBefore(a, b) <=> TimeAtOrBefore(b, a)
         /\ TimeBefore(a, b) => TimeAtOrBefore(a, b)
BY SMT DEF Timestamp, TimeAtOrBefore, TimeBefore

(* Every time the program can hold is a timestamp. *)
LEMMA BoundedIsTimestamp == BoundedTime \subseteq Timestamp
BY IntAssumption DEF BoundedTime, Timestamp

(* A time moved by whole seconds is a time. *)
LEMMA AfterType ==
  ASSUME NEW t \in BoundedTime, NEW n \in Int
  PROVE  /\ After(t, n) \in Timestamp
         /\ After(t, n) = [seconds |-> t.seconds + n, microseconds |-> t.microseconds]
         /\ IntMin <= t.seconds + n /\ t.seconds + n <= IntMax => After(t, n) \in BoundedTime
BY IntAssumption DEF After, BoundedTime, Timestamp

-----------------------------------------------------------------------------
(* One observation. *)

(* The high-water mark is the later of the old mark and the new time. *)
LEMMA HighWaterIsLater ==
  ASSUME NEW sch \in Schedule, NEW time \in BoundedTime
  PROVE  /\ HighWater(sch, time) \in BoundedTime
         /\ HighWater(sch, time) \in {time, sch.latest_timestamp}
         /\ TimeAtOrBefore(time, HighWater(sch, time))
         /\ sch.has_observation => TimeAtOrBefore(sch.latest_timestamp, HighWater(sch, time))
         /\ ~sch.has_observation => HighWater(sch, time) = time
<1>1. sch.latest_timestamp \in BoundedTime
  BY DEF Schedule
<1> QED BY <1>1, TimeOrder, BoundedIsTimestamp DEF HighWater

(* The fields of the schedule after an observation. *)
LEMMA ObservedSchedule ==
  ASSUME NEW sch \in Schedule, NEW time \in BoundedTime
  PROVE  LET next == flow_expiration_schedule_observe(sch, time) IN
         /\ next \in Schedule
         /\ next.latest_timestamp = HighWater(sch, time)
         /\ next.last_scan_timestamp =
              (IF ~sch.has_observation THEN time
               ELSE IF ScanDue(sch, time) THEN HighWater(sch, time)
               ELSE sch.last_scan_timestamp)
         /\ next.idle_timeout_seconds = sch.idle_timeout_seconds
         /\ next.scan_interval_seconds = sch.scan_interval_seconds
         /\ next.has_observation
<1>1. HighWater(sch, time) \in BoundedTime
  BY HighWaterIsLater
<1> HIDE DEF HighWater, ScanDue
<1> QED BY <1>1 DEF flow_expiration_schedule_observe, Schedule

(* Moving two times by the same seconds keeps their order, a positive      *)
(* period moves a time forward, and periods add up.                        *)
LEMMA AfterOrder ==
  ASSUME NEW a \in BoundedTime, NEW b \in BoundedTime, NEW m \in Int, NEW n \in Int
  PROVE  /\ TimeAtOrBefore(After(a, m), b) =>
              TimeAtOrBefore(After(After(a, n), m), After(b, n))
         /\ 0 < n => TimeBefore(a, After(a, n))
<1> DEFINE A(x, y) == [seconds |-> x + y, microseconds |-> a.microseconds]
<1>1. /\ After(a, m) = A(a.seconds, m) /\ After(a, n) = A(a.seconds, n)
      /\ After(b, n) = [seconds |-> b.seconds + n, microseconds |-> b.microseconds]
  BY AfterType
<1>2. After(After(a, n), m) = A(a.seconds + n, m)
  <2> DEFINE c == A(a.seconds, n)
  <2>1. /\ c.seconds = a.seconds + n /\ c.microseconds = a.microseconds
        /\ DOMAIN c = {"seconds", "microseconds"}
    OBVIOUS
  <2>2. [c EXCEPT !.seconds = c.seconds + m] = A(a.seconds + n, m)
    BY <2>1
  <2> QED BY <1>1, <2>2, Zenon DEF After
<1>3. /\ a.seconds \in Int /\ a.microseconds \in Int
      /\ b.seconds \in Int /\ b.microseconds \in Int
  BY IntAssumption, SMT DEF BoundedTime
<1> QED BY <1>1, <1>2, <1>3 DEF TimeAtOrBefore, TimeBefore

(* An accepted observation leaves no scan overdue. *)
LEMMA ObservedInTime ==
  ASSUME NEW sch \in Schedule, NEW time \in BoundedTime
  PROVE  LET next == flow_expiration_schedule_observe(sch, time) IN
         \/ TimeBefore(next.latest_timestamp,
                       After(next.last_scan_timestamp, next.scan_interval_seconds))
         \/ next.last_scan_timestamp.seconds + next.scan_interval_seconds > IntMax
<1> DEFINE next == flow_expiration_schedule_observe(sch, time)
           interval == sch.scan_interval_seconds
           mark == HighWater(sch, time)
<1>1. /\ interval \in Int /\ 0 < interval /\ sch.last_scan_timestamp \in BoundedTime
      /\ mark \in BoundedTime /\ (~sch.has_observation => mark = time)
  BY HighWaterIsLater, IntAssumption DEF Schedule
<1>2. TimeBefore(mark, After(mark, interval))
  BY <1>1, AfterOrder
<1>3. CASE ~sch.has_observation \/ ScanDue(sch, time)
  BY <1>1, <1>2, <1>3, ObservedSchedule
<1>4. CASE sch.has_observation /\ ~ScanDue(sch, time)
  <2> DEFINE last == sch.last_scan_timestamp
  <2>1. next.last_scan_timestamp = last /\ next.latest_timestamp = mark
        /\ next.scan_interval_seconds = interval
    BY <1>4, ObservedSchedule
  <2>2. last.seconds > IntMax - interval \/ ~TimeAtOrBefore(After(last, interval), mark)
    <3>1. ~(last.seconds <= IntMax - interval)
          \/ ~TimeAtOrBefore(After(last, interval), mark)
      BY <1>4 DEF ScanDue, IntervalElapsed
    <3>2. last.seconds \in Int
      BY <1>1, IntAssumption DEF BoundedTime
    <3> QED BY <3>1, <3>2, <1>1, IntAssumption
  <2>3. After(last, interval) \in Timestamp /\ mark \in Timestamp /\ last.seconds \in Int
    <3>1. last \in Timestamp /\ mark \in Timestamp
      BY <1>1, BoundedIsTimestamp
    <3>2. last.seconds \in Int
      BY <3>1 DEF Timestamp
    <3> QED BY <1>1, <3>1, <3>2, AfterType
  <2>4. TimeBefore(mark, After(last, interval)) \/ last.seconds + interval > IntMax
    BY <2>2, <2>3, <1>1, TimeOrder, IntAssumption
  <2> QED BY <2>1, <2>4
<1> QED BY <1>3, <1>4

(* A cutoff that was not refused is a time, whole idle_timeout_seconds     *)
(* before the scan it belongs to.                                          *)
LEMMA CutoffType ==
  ASSUME NEW sch \in Schedule, NEW time \in BoundedTime,
         ScanDue(sch, time), ObserveError(sch, time) = "0"
  PROVE  Cutoff(sch, time) \in BoundedTime
<1> DEFINE mark == HighWater(sch, time)
           idle == sch.idle_timeout_seconds
<1>1. mark \in BoundedTime /\ idle \in 1 .. IntMax /\ -idle \in Int
  BY HighWaterIsLater, IntAssumption DEF Schedule
<1>2. ~(mark.seconds < IntMin + idle)
  BY DEF ObserveError
<1>3. mark.seconds \in IntMin .. IntMax
  BY <1>1 DEF BoundedTime
<1>4. IntMin <= mark.seconds + (-idle) /\ mark.seconds + (-idle) <= IntMax
  BY <1>1, <1>2, <1>3, IntAssumption
<1>5. After(mark, -idle) \in BoundedTime
  BY <1>1, <1>4, AfterType
<1> QED BY <1>5 DEF Cutoff

-----------------------------------------------------------------------------
(* The invariant of the expiration schedule. *)

LEMMA InitEstablishes == Init => IInv
<1> SUFFICES ASSUME Init PROVE IInv
  OBVIOUS
<1>1. ZeroTime \in BoundedTime
  <2>1. 0 \in IntMin .. IntMax
    BY IntAssumption
  <2>2. 0 \in 0 .. MicrosecondsPerSecond - 1
    <3>1. MicrosecondsPerSecond \in Int /\ MicrosecondsPerSecond > 0
      BY SMT DEF MicrosecondsPerSecond
    <3> QED BY <3>1
  <2> QED BY <2>1, <2>2, Zenon DEF ZeroTime, BoundedTime
<1>2. PICK idle \in IdleTimeouts, interval \in ScanIntervals :
        schedule = flow_expiration_schedule_init(idle, interval)
  BY DEF Init
<1>3. schedule \in Schedule /\ ~schedule.has_observation
  BY <1>1, <1>2, PeriodsAssumption DEF Schedule, flow_expiration_schedule_init
<1>4. TypeOK
  BY <1>3 DEF Init, TypeOK, NotDue
<1>5. Timely
  BY <1>3 DEF Init, Timely, HighWaterIsMaximum, NeverOverdue
<1>6. Cutoffs
  <2>1. Range(scans) = {} /\ Len(scans) = 0
    BY DEF Init, Range
  <2> QED BY <2>1 DEF Init, Cutoffs, CutoffsAdvance
<1> QED BY <1>4, <1>5, <1>6 DEF IInv

(* The next step of an accepted observation, in the terms of the lemmas.   *)
Accepts(time) ==
  /\ ObserveError(schedule, time) = "0"
  /\ schedule' = flow_expiration_schedule_observe(schedule, time)
  /\ answer' = [err |-> "0", scan_due |-> ScanDue(schedule, time)]
  /\ observed' = Append(observed, time)
  /\ scans' = IF ScanDue(schedule, time)
              THEN Append(scans, Cutoff(schedule, time)) ELSE scans

LEMMA AcceptKeepsTypes ==
  ASSUME IInv, NEW time \in Times, Accepts(time)
  PROVE  TypeOK'
<1>1. schedule \in Schedule /\ time \in BoundedTime
  BY TimesAssumption DEF IInv, TypeOK
<1>2. schedule' \in Schedule
  BY <1>1, ObservedSchedule DEF Accepts
<1>3. answer' \in [err : {"0", "ERANGE"}, scan_due : BOOLEAN]
  <2>1. ScanDue(schedule, time) \in BOOLEAN
    BY <1>1 DEF ScanDue, Schedule, IntervalElapsed, TimeAtOrBefore
  <2> QED BY <2>1 DEF Accepts
<1>4. observed' \in Seq(Times)
  BY DEF IInv, TypeOK, Accepts
<1>5. scans' \in Seq(BoundedTime)
  BY <1>1, CutoffType DEF IInv, TypeOK, Accepts
<1> QED BY <1>2, <1>3, <1>4, <1>5 DEF TypeOK

LEMMA AcceptKeepsTimely ==
  ASSUME IInv, NEW time \in Times, Accepts(time)
  PROVE  Timely'
<1> DEFINE mark == HighWater(schedule, time)
<1>1. schedule \in Schedule /\ time \in BoundedTime /\ observed \in Seq(Times)
  BY TimesAssumption DEF IInv, TypeOK
<1>2. observed' # <<>> /\ schedule'.has_observation
  BY <1>1, ObservedSchedule DEF Accepts
<1>3. /\ schedule'.latest_timestamp = mark
      /\ schedule'.last_scan_timestamp =
           (IF ~schedule.has_observation THEN time
            ELSE IF ScanDue(schedule, time) THEN mark ELSE schedule.last_scan_timestamp)
  BY <1>1, ObservedSchedule DEF Accepts
<1>4. /\ mark \in BoundedTime /\ mark \in {time, schedule.latest_timestamp}
      /\ TimeAtOrBefore(time, mark)
      /\ schedule.has_observation => TimeAtOrBefore(schedule.latest_timestamp, mark)
      /\ ~schedule.has_observation => mark = time
  BY <1>1, HighWaterIsLater
<1>5. schedule.has_observation <=> observed # <<>>
  BY DEF IInv, Timely
<1>6. schedule.latest_timestamp \in Timestamp /\ schedule.last_scan_timestamp \in Timestamp
      /\ mark \in Timestamp /\ time \in Timestamp
  BY <1>1, <1>4, BoundedIsTimestamp DEF Schedule
<1>7. /\ DOMAIN observed' = 1 .. Len(observed) + 1
      /\ observed'[Len(observed) + 1] = time
      /\ \A i \in 1 .. Len(observed) : observed'[i] = observed[i]
      /\ DOMAIN observed = 1 .. Len(observed) /\ Len(observed) \in Nat
  BY <1>1 DEF Accepts
<1>8. HighWaterIsMaximum'
  <2>1. mark \in Range(observed')
    <3>1. CASE mark = time
      BY <3>1, <1>7 DEF Range
    <3>2. CASE mark = schedule.latest_timestamp /\ mark # time
      <4>1. schedule.latest_timestamp \in Range(observed)
        BY <3>2, <1>4, <1>5 DEF IInv, Timely, HighWaterIsMaximum
      <4>2. PICK i \in DOMAIN observed : observed[i] = schedule.latest_timestamp
        BY <4>1 DEF Range
      <4>3. i \in DOMAIN observed' /\ observed'[i] = mark
        BY <4>2, <1>7, <3>2
      <4> QED BY <4>3 DEF Range
    <3> QED BY <3>1, <3>2, <1>4
  <2>2. ASSUME NEW i \in DOMAIN observed' PROVE TimeAtOrBefore(observed'[i], mark)
    <3>1. CASE i = Len(observed) + 1
      BY <3>1, <1>4, <1>7
    <3>2. CASE i # Len(observed) + 1
      <4>1. i \in DOMAIN observed /\ observed'[i] = observed[i]
        BY <3>2, <1>7
      <4>2. observed # <<>> /\ observed[i] \in BoundedTime
        BY <4>1, <1>1, <1>7, TimesAssumption
      <4>3. TimeAtOrBefore(observed[i], schedule.latest_timestamp)
        BY <4>1, <4>2 DEF IInv, Timely, HighWaterIsMaximum
      <4> QED BY <4>1, <4>2, <4>3, <1>4, <1>5, <1>6, TimeOrder, BoundedIsTimestamp
    <3> QED BY <3>1, <3>2
  <2>3. TimeAtOrBefore(schedule'.last_scan_timestamp, mark)
    <3>1. schedule.has_observation =>
            TimeAtOrBefore(schedule.last_scan_timestamp, schedule.latest_timestamp)
      BY <1>5 DEF IInv, Timely, HighWaterIsMaximum
    <3> QED BY <3>1, <1>3, <1>4, <1>6, TimeOrder
  <2> QED BY <2>1, <2>2, <2>3, <1>3 DEF HighWaterIsMaximum
<1>9. NeverOverdue'
  BY <1>1, ObservedInTime DEF NeverOverdue, Accepts
<1> QED BY <1>2, <1>8, <1>9 DEF Timely

LEMMA AcceptKeepsCutoffs ==
  ASSUME IInv, NEW time \in Times, Accepts(time)
  PROVE  Cutoffs'
<1> DEFINE mark == HighWater(schedule, time)
           idle == schedule.idle_timeout_seconds
           interval == schedule.scan_interval_seconds
           last == schedule.last_scan_timestamp
<1>1. schedule \in Schedule /\ time \in BoundedTime /\ scans \in Seq(BoundedTime)
      /\ observed' # <<>>
  BY TimesAssumption DEF IInv, TypeOK, Accepts
<1>2. /\ -idle \in Int /\ interval \in Int
      /\ last \in BoundedTime /\ mark \in BoundedTime
  BY <1>1, HighWaterIsLater, IntAssumption DEF Schedule
<1>3. schedule'.idle_timeout_seconds = idle /\ schedule'.scan_interval_seconds = interval
  BY <1>1, ObservedSchedule DEF Accepts
<1>4. CASE ~ScanDue(schedule, time)
  <2>1. scans' = scans
    BY <1>4 DEF Accepts
  <2>2. scans # <<>> => schedule'.last_scan_timestamp = last
    <3>1. scans # <<>> => schedule.has_observation
      BY DEF IInv, Timely, Cutoffs
    <3> QED BY <3>1, <1>1, <1>4, ObservedSchedule DEF Accepts
  <2>3. scans' # <<>> => observed' # <<>> /\ scans'[Len(scans')] = LastCutoff'
    BY <2>1, <2>2, <1>1, <1>3 DEF IInv, Cutoffs, LastCutoff
  <2>4. CutoffsAdvance'
    BY <2>1, <1>3 DEF IInv, Cutoffs, CutoffsAdvance
  <2> QED BY <2>3, <2>4 DEF Cutoffs
<1>5. CASE ScanDue(schedule, time)
  <2> DEFINE cutoff == After(mark, -idle)
  <2>1. scans' = Append(scans, cutoff) /\ cutoff \in BoundedTime
    BY <1>1, <1>5, CutoffType DEF Accepts, Cutoff
  <2>2. schedule'.last_scan_timestamp = mark
    BY <1>1, <1>5, ObservedSchedule DEF Accepts, ScanDue
  <2>3. /\ Len(scans') = Len(scans) + 1 /\ Len(scans) \in Nat
        /\ scans'[Len(scans) + 1] = cutoff
        /\ \A i \in 1 .. Len(scans) : scans'[i] = scans[i]
        /\ scans' \in Seq(BoundedTime)
    <3> HIDE DEF cutoff
    <3> QED BY <2>1, <1>1
  <2>4. scans'[Len(scans')] = LastCutoff'
    BY <2>2, <2>3, <1>3 DEF LastCutoff
  <2>5. TimeAtOrBefore(After(last, interval), mark)
    BY <1>5 DEF ScanDue, IntervalElapsed
  <2>6. TimeAtOrBefore(After(After(last, -idle), interval), cutoff)
    BY <2>5, <1>2, AfterOrder
  <2>7. ASSUME NEW i \in 1 .. Len(scans') - 1
        PROVE  TimeAtOrBefore(After(scans'[i], interval), scans'[i + 1])
    <3>1. CASE i = Len(scans)
      <4>1. scans # <<>> /\ scans[i] = After(last, -idle)
        BY <3>1, <2>3, <1>1 DEF IInv, Cutoffs, LastCutoff
      <4>2. scans'[i] = After(last, -idle) /\ scans'[i + 1] = cutoff
        BY <4>1, <3>1, <2>3
      <4> QED BY <4>2, <2>6
    <3>2. CASE i # Len(scans)
      <4>1. i \in 1 .. Len(scans) - 1 /\ scans'[i] = scans[i] /\ scans'[i + 1] = scans[i + 1]
        BY <3>2, <2>3
      <4> QED BY <4>1 DEF IInv, Cutoffs, CutoffsAdvance
    <3> QED BY <3>1, <3>2
  <2>8. Range(scans') \subseteq BoundedTime
    BY <2>3 DEF Range
  <2>9. CutoffsAdvance'
    BY <2>7, <2>8, <1>3 DEF CutoffsAdvance
  <2> QED BY <2>4, <2>9, <1>1 DEF Cutoffs
<1> QED BY <1>4, <1>5

LEMMA StepKeeps == IInv /\ [Next]_vars => IInv'
<1> SUFFICES ASSUME IInv, [Next]_vars PROVE IInv'
  OBVIOUS
<1>1. ASSUME NEW time \in Times, Accepts(time) PROVE IInv'
  BY <1>1, AcceptKeepsTypes, AcceptKeepsTimely, AcceptKeepsCutoffs DEF IInv
<1>2. ASSUME UNCHANGED <<schedule, observed, scans>>,
             answer' \in [err : {"0", "ERANGE"}, scan_due : BOOLEAN]
      PROVE  IInv'
  BY <1>2 DEF IInv, TypeOK, Timely, Cutoffs, LastCutoff, HighWaterIsMaximum, NeverOverdue,
              CutoffsAdvance
<1>3. ASSUME NEW time \in Times, Observe(time) PROVE IInv'
  <2>1. CASE ObserveError(schedule, time) = "0"
    BY <1>1, <1>3, <2>1 DEF Observe, Accepts
  <2>2. CASE ObserveError(schedule, time) # "0"
    <3>1. ObserveError(schedule, time) = "ERANGE"
      BY <2>2 DEF ObserveError
    <3>2. /\ UNCHANGED <<schedule, observed, scans>>
          /\ answer' = [err |-> "ERANGE", scan_due |-> FALSE]
      BY <1>3, <2>2, <3>1 DEF Observe
    <3>3. answer' \in [err : {"0", "ERANGE"}, scan_due : BOOLEAN]
      BY <3>2
    <3> QED BY <1>2, <3>2, <3>3
  <2> QED BY <2>1, <2>2
<1>4. CASE UNCHANGED vars
  BY <1>2, <1>4 DEF vars, IInv, TypeOK
<1> QED BY <1>3, <1>4 DEF Next

THEOREM Invariance == Spec => []IInv
BY InitEstablishes, StepKeeps, PTL DEF Spec

(* No time that flow_expiration.c computes leaves the range of its         *)
(* integers.                                                               *)
THEOREM TypeCorrect == Spec => []TypeOK
<1>1. IInv => TypeOK
  BY DEF IInv
<1> QED BY <1>1, Invariance, PTL

(* latest_timestamp is the maximum of all timestamps seen, whatever their  *)
(* order, so the consistency test of flow_expiration_schedule_observe      *)
(* never fails.                                                            *)
THEOREM HighWaterCorrect == Spec => []HighWaterIsMaximum
<1>1. IInv => HighWaterIsMaximum
  BY DEF IInv, Timely
<1> QED BY <1>1, Invariance, PTL

(* After every accepted packet less than an interval has passed since the  *)
(* last scan, unless its due time cannot be represented.                   *)
THEOREM ScansOnTime == Spec => []NeverOverdue
<1>1. IInv => NeverOverdue
  BY DEF IInv, Timely
<1> QED BY <1>1, Invariance, PTL

(* The cutoffs handed to flow_table_expire_before are representable and at *)
(* least an interval apart.                                                *)
THEOREM CutoffsCorrect == Spec => []CutoffsAdvance
<1>1. IInv => CutoffsAdvance
  BY DEF IInv, Cutoffs
<1> QED BY <1>1, Invariance, PTL

-----------------------------------------------------------------------------
(* The counters and times of the reports. *)

(* Overflows is exact: what it lets pass fits. *)
LEMMA AddedFits ==
  ASSUME NEW x \in 0 .. TotalMax, NEW n \in Nat, ~Overflows(x, n)
  PROVE  x + n \in 0 .. TotalMax
BY TotalMaxAssumption DEF Overflows

LEMMA AddToType ==
  ASSUME NEW t \in RuntimeTotals, NEW c \in Counters, NEW n \in Nat, AddError(t, c, n) = "0"
  PROVE  AddTo(t, c, n) \in RuntimeTotals
<1>1. t[c] \in 0 .. TotalMax /\ ~Overflows(t[c], n)
  BY DEF AddError, RuntimeTotals
<1>2. t[c] + n \in 0 .. TotalMax
  BY <1>1, AddedFits
<1> QED BY <1>2 DEF AddTo, RuntimeTotals

LEMMA AddPacketType ==
  ASSUME NEW t \in RuntimeTotals, NEW captured \in Nat, NEW wire \in Nat,
         AddPacketError(t, captured, wire) = "0"
  PROVE  runtime_metrics_totals_add_packet(t, captured, wire) \in RuntimeTotals
<1>1. {"packet", "captured_byte", "wire_byte"} \subseteq Counters
  BY DEF Counters
<1>2. /\ t["packet"] \in 0 .. TotalMax /\ ~Overflows(t["packet"], 1)
      /\ t["captured_byte"] \in 0 .. TotalMax /\ ~Overflows(t["captured_byte"], captured)
      /\ t["wire_byte"] \in 0 .. TotalMax /\ ~Overflows(t["wire_byte"], wire)
  BY <1>1 DEF AddPacketError, RuntimeTotals
<1>3. /\ t["packet"] + 1 \in 0 .. TotalMax
      /\ t["captured_byte"] + captured \in 0 .. TotalMax
      /\ t["wire_byte"] + wire \in 0 .. TotalMax
  BY <1>2, AddedFits
<1> QED BY <1>3 DEF runtime_metrics_totals_add_packet, RuntimeTotals

(* The time since the last report is a time, and as long as the interval   *)
(* when a report is due.                                                   *)
LEMMA ElapsedType ==
  ASSUME NEW time \in ClockTime, NEW since \in ClockTime, ~ClockBefore(time, since)
  PROVE  /\ Elapsed(time, since) \in ClockTime
         /\ \A interval \in Nat :
              runtime_metrics_interval_elapsed(time, since, interval) =>
                Elapsed(time, since).seconds >= interval
<1>1. NanosecondsPerSecond \in Int /\ NanosecondsPerSecond > 0
  BY SMT DEF NanosecondsPerSecond
<1>2. /\ time.seconds \in Nat /\ since.seconds \in Nat
      /\ time.nanoseconds \in 0 .. NanosecondsPerSecond - 1
      /\ since.nanoseconds \in 0 .. NanosecondsPerSecond - 1
  BY DEF ClockTime
<1>3. \/ time.seconds > since.seconds
      \/ time.seconds = since.seconds /\ time.nanoseconds >= since.nanoseconds
  BY <1>1, <1>2 DEF ClockBefore
<1>4. CASE time.nanoseconds < since.nanoseconds
  <2>1. Elapsed(time, since) =
          [seconds |-> time.seconds - since.seconds - 1,
           nanoseconds |-> time.nanoseconds - since.nanoseconds + NanosecondsPerSecond]
    BY <1>1, <1>2, <1>4 DEF Elapsed
  <2>2. /\ time.seconds - since.seconds - 1 \in Nat
        /\ time.nanoseconds - since.nanoseconds + NanosecondsPerSecond
             \in 0 .. NanosecondsPerSecond - 1
    BY <1>1, <1>2, <1>3, <1>4
  <2>3. ASSUME NEW interval \in Nat, runtime_metrics_interval_elapsed(time, since, interval)
        PROVE  time.seconds - since.seconds - 1 >= interval
    BY <1>1, <1>2, <1>4, <2>3 DEF runtime_metrics_interval_elapsed
  <2> QED BY <2>1, <2>2, <2>3 DEF ClockTime
<1>5. CASE time.nanoseconds >= since.nanoseconds
  <2>1. Elapsed(time, since) =
          [seconds |-> time.seconds - since.seconds,
           nanoseconds |-> time.nanoseconds - since.nanoseconds]
    BY <1>1, <1>2, <1>5 DEF Elapsed
  <2>2. /\ time.seconds - since.seconds \in Nat
        /\ time.nanoseconds - since.nanoseconds \in 0 .. NanosecondsPerSecond - 1
    BY <1>1, <1>2, <1>3, <1>5
  <2>3. ASSUME NEW interval \in Nat, runtime_metrics_interval_elapsed(time, since, interval)
        PROVE  time.seconds - since.seconds >= interval
    BY <1>2, <2>3 DEF runtime_metrics_interval_elapsed
  <2> QED BY <2>1, <2>2, <2>3 DEF ClockTime
<1> QED BY <1>1, <1>2, <1>4, <1>5

-----------------------------------------------------------------------------
(* The invariant: types, and the property itself. *)

MetricsInv == MetricsTypeOK /\ IntervalKept

(* A reading of the clock that is not refused. *)
LEMMA ReportKeeps ==
  ASSUME MetricsInv, NEW time \in ClockTime, MetricsObserveError(report_schedule, time, totals) = "0"
  PROVE  /\ MetricsReport(report_schedule, time, totals) \in [elapsed : ClockTime, interval : RuntimeTotals]
         /\ ReportDue(report_schedule, time) =>
              MetricsReport(report_schedule, time, totals).elapsed.seconds
                >= report_schedule.report_interval_seconds
         /\ AfterReport(report_schedule, time, totals) \in MetricsSchedule
         /\ AfterReport(report_schedule, time, totals).report_interval_seconds
              = report_schedule.report_interval_seconds
<1>1. /\ report_schedule.last_report_timestamp \in ClockTime /\ report_schedule.last_report_totals \in RuntimeTotals
      /\ report_schedule.report_interval_seconds \in Nat /\ totals \in RuntimeTotals
      /\ report_schedule \in MetricsSchedule
  BY DEF MetricsInv, MetricsTypeOK, MetricsSchedule
<1>2. /\ ~ClockBefore(time, report_schedule.last_report_timestamp)
      /\ \A c \in Counters : ~(totals[c] < report_schedule.last_report_totals[c])
  BY DEF MetricsObserveError
<1>3. /\ Elapsed(time, report_schedule.last_report_timestamp) \in ClockTime
      /\ ReportDue(report_schedule, time) =>
           Elapsed(time, report_schedule.last_report_timestamp).seconds >= report_schedule.report_interval_seconds
  BY <1>1, <1>2, ElapsedType DEF ReportDue
<1>4. [c \in Counters |-> totals[c] - report_schedule.last_report_totals[c]] \in RuntimeTotals
  <2> SUFFICES ASSUME NEW c \in Counters
               PROVE  totals[c] - report_schedule.last_report_totals[c] \in 0 .. TotalMax
    BY DEF RuntimeTotals
  <2>1. totals[c] \in 0 .. TotalMax /\ report_schedule.last_report_totals[c] \in 0 .. TotalMax
    BY <1>1 DEF RuntimeTotals
  <2> QED BY <1>2, <2>1, TotalMaxAssumption
<1>5. /\ AfterReport(report_schedule, time, totals) \in MetricsSchedule
      /\ AfterReport(report_schedule, time, totals).report_interval_seconds
           = report_schedule.report_interval_seconds
  BY <1>1 DEF AfterReport, MetricsSchedule
<1> QED BY <1>3, <1>4, <1>5 DEF MetricsReport

LEMMA MetricsInitEstablishes == MetricsInit => MetricsInv
<1> SUFFICES ASSUME MetricsInit PROVE MetricsInv
  OBVIOUS
<1>1. ZeroTotals \in RuntimeTotals
  BY TotalMaxAssumption DEF ZeroTotals, RuntimeTotals
<1>2. start \in ClockTime
  BY ReadingsAssumption DEF MetricsInit
<1>3. report_schedule \in MetricsSchedule
  BY <1>1, <1>2, IntervalsAssumption DEF MetricsInit, runtime_metrics_schedule_init, MetricsSchedule
<1> QED BY <1>1, <1>3 DEF MetricsInit, MetricsInv, MetricsTypeOK, IntervalKept

LEMMA MetricsStepKeeps == MetricsInv /\ [MetricsNext]_metricsVars => MetricsInv'
<1> SUFFICES ASSUME MetricsInv, [MetricsNext]_metricsVars PROVE MetricsInv'
  OBVIOUS
<1> USE DEF MetricsInv
<1>1. CASE UNCHANGED metricsVars
  BY <1>1 DEF metricsVars, MetricsTypeOK, IntervalKept
<1>2. CASE End /\ start' = start
  BY <1>2 DEF End, MetricsTypeOK, IntervalKept
<1>3. ASSUME NEW l \in Lengths, CountPacket(l) PROVE MetricsInv'
  <2>1. l[1] \in Nat /\ l[2] \in Nat
    BY LengthsAssumption
  <2>2. CASE End
    BY <1>2, <1>3, <2>2 DEF CountPacket
  <2>3. CASE ~End
    BY <1>3, <2>1, <2>3, AddPacketType DEF CountPacket, MetricsTypeOK, IntervalKept
  <2> QED BY <2>2, <2>3
<1>4. ASSUME NEW counter \in Counters, NEW n \in Nat, NEW step, NEW next \in {"evict", "result"},
             CountFlows(counter, n, step, next)
      PROVE  MetricsInv'
  <2>1. CASE End
    BY <1>2, <1>4, <2>1 DEF CountFlows
  <2>2. CASE ~End
    BY <1>4, <2>2, AddToType DEF CountFlows, MetricsTypeOK, IntervalKept
  <2> QED BY <2>1, <2>2
<1>5. ASSUME NEW result \in PacketResults, CountResult(result) PROVE MetricsInv'
  <2>1. result \in Counters
    BY DEF Counters
  <2>2. CASE End
    BY <1>2, <1>5, <2>2 DEF CountResult
  <2>3. CASE ~End
    BY <1>5, <2>1, <2>3, AddToType DEF CountResult, MetricsTypeOK, IntervalKept
  <2> QED BY <2>2, <2>3
<1>6. ASSUME NEW time \in Readings, ObserveClock(time) PROVE MetricsInv'
  <2>1. time \in ClockTime
    BY ReadingsAssumption
  <2>2. CASE End
    BY <1>2, <1>6, <2>2 DEF ObserveClock
  <2>3. CASE ~End /\ ReportDue(report_schedule, time)
    <3> DEFINE r == MetricsReport(report_schedule, time, totals)
    <3>1. /\ MetricsObserveError(report_schedule, time, totals) = "0" /\ pc' = "between"
          /\ report_schedule' = AfterReport(report_schedule, time, totals)
          /\ reports' = Append(reports, r) /\ totals' = totals /\ start' = start
      BY <1>6, <2>3 DEF ObserveClock
    <3>2. /\ r \in [elapsed : ClockTime, interval : RuntimeTotals]
          /\ r.elapsed.seconds >= report_schedule.report_interval_seconds
          /\ report_schedule' \in MetricsSchedule
          /\ report_schedule'.report_interval_seconds = report_schedule.report_interval_seconds
      BY <2>1, <2>3, <3>1, ReportKeeps
    <3> HIDE DEF r
    <3>3. MetricsTypeOK'
      BY <3>1, <3>2 DEF MetricsTypeOK
    <3>4. IntervalKept'
      <4>1. reports \in Seq([elapsed : ClockTime, interval : RuntimeTotals])
        BY DEF MetricsTypeOK
      <4>2. \A i \in DOMAIN reports' : reports'[i] = r \/ (i \in DOMAIN reports /\ reports'[i] = reports[i])
        BY <3>1, <4>1
      <4> QED BY <3>2, <4>2 DEF IntervalKept
    <3> QED BY <3>3, <3>4
  <2>4. CASE ~End /\ ~ReportDue(report_schedule, time)
    BY <1>6, <2>4 DEF ObserveClock, MetricsTypeOK, IntervalKept
  <2> QED BY <2>2, <2>3, <2>4
<1>7. MaxExpired \in Nat /\ {"expired_flow", "evicted_flow"} \subseteq Counters
  BY MaxExpiredAssumption DEF Counters
<1> QED BY <1>1, <1>3, <1>4, <1>5, <1>6, <1>7 DEF MetricsNext, CountExpired, CountEvicted

-----------------------------------------------------------------------------
(* What the reports add up to. *)

(* Two successive times add up, but for a second that the fractions make.  *)
LEMMA ElapsedAdds ==
  ASSUME NEW x \in ClockTime, NEW y \in ClockTime, NEW z \in ClockTime
  PROVE  /\ Elapsed(y, x).seconds \in Int /\ Elapsed(z, y).seconds \in Int
         /\ Elapsed(z, x).seconds - (Elapsed(y, x).seconds + Elapsed(z, y).seconds) \in {0, 1}
<1> DEFINE N == NanosecondsPerSecond
<1>1. N \in Int /\ N > 0
  BY SMT DEF NanosecondsPerSecond
<1>2. /\ x.seconds \in Int /\ y.seconds \in Int /\ z.seconds \in Int
      /\ x.nanoseconds \in 0 .. N - 1 /\ y.nanoseconds \in 0 .. N - 1 /\ z.nanoseconds \in 0 .. N - 1
  BY <1>1 DEF ClockTime
<1>3. ASSUME NEW s \in ClockTime, NEW t \in ClockTime
      PROVE  Elapsed(t, s).seconds = IF t.nanoseconds - s.nanoseconds < 0
                                     THEN t.seconds - s.seconds - 1 ELSE t.seconds - s.seconds
  BY DEF Elapsed
<1> HIDE DEF N
<1>4. /\ Elapsed(y, x).seconds = IF y.nanoseconds - x.nanoseconds < 0
                                 THEN y.seconds - x.seconds - 1 ELSE y.seconds - x.seconds
      /\ Elapsed(z, y).seconds = IF z.nanoseconds - y.nanoseconds < 0
                                 THEN z.seconds - y.seconds - 1 ELSE z.seconds - y.seconds
      /\ Elapsed(z, x).seconds = IF z.nanoseconds - x.nanoseconds < 0
                                 THEN z.seconds - x.seconds - 1 ELSE z.seconds - x.seconds
  BY <1>3
<1> QED BY <1>1, <1>2, <1>4

(* What happens to the reports when another one is appended. *)
LEMMA ReportAdded ==
  ASSUME MetricsTypeOK, ReportsAddUp, start \in ClockTime,
         NEW r \in [elapsed : ClockTime, interval : RuntimeTotals], reports' = Append(reports, r),
         report_schedule' \in MetricsSchedule, start' = start,
         r.elapsed = Elapsed(report_schedule'.last_report_timestamp, report_schedule.last_report_timestamp),
         \A c \in Counters : r.interval[c] =
           report_schedule'.last_report_totals[c] - report_schedule.last_report_totals[c]
  PROVE  ReportsAddUp'
<1> DEFINE n == Len(reports)
           seconds == [i \in DOMAIN reports |-> reports[i].elapsed.seconds]
           counts(c) == [i \in DOMAIN reports |-> reports[i].interval[c]]
           seconds2 == [i \in DOMAIN reports' |-> reports'[i].elapsed.seconds]
           counts2(c) == [i \in DOMAIN reports' |-> reports'[i].interval[c]]
           covered == SumFunctionOnSet(seconds, 1 .. n)
           covered2 == SumFunctionOnSet(seconds2, 1 .. n + 1)
           last == report_schedule.last_report_timestamp
           last2 == report_schedule'.last_report_timestamp
<1>1. /\ n \in Nat /\ Len(reports') = n + 1 /\ reports'[n + 1] = r
      /\ DOMAIN reports = 1 .. n /\ DOMAIN reports' = 1 .. n + 1
      /\ \A i \in 1 .. n : /\ reports'[i] = reports[i]
                          /\ reports[i] \in [elapsed : ClockTime, interval : RuntimeTotals]
  <2> DEFINE R == [elapsed : ClockTime, interval : RuntimeTotals]
  <2>1. reports \in Seq(R) /\ r \in R /\ reports' = Append(reports, r)
    BY DEF MetricsTypeOK
  <2> HIDE DEF R
  <2>2. /\ n \in Nat /\ Len(reports') = n + 1 /\ reports'[n + 1] = r
        /\ DOMAIN reports = 1 .. n /\ DOMAIN reports' = 1 .. n + 1
        /\ \A i \in 1 .. n : reports'[i] = reports[i] /\ reports[i] \in R
    BY <2>1
  <2> QED BY <2>2 DEF R
<1>2. /\ \A t \in ClockTime : t.seconds \in Int
      /\ \A t \in RuntimeTotals, c \in Counters : t[c] \in Int
  <2>1. \A t \in ClockTime : t.seconds \in Int
    BY DEF ClockTime
  <2>2. ASSUME NEW t \in RuntimeTotals, NEW c \in Counters PROVE t[c] \in Int
    <3>1. t[c] \in 0 .. TotalMax /\ TotalMax \in Int
      BY TotalMaxAssumption DEF RuntimeTotals
    <3> QED BY <3>1
  <2> QED BY <2>1, <2>2
<1>3. /\ \A i \in 1 .. n : seconds[i] \in Int /\ seconds2[i] = seconds[i]
      /\ seconds2[n + 1] = r.elapsed.seconds /\ seconds2[n + 1] \in Int
  <2>1. \A i \in 1 .. n : /\ seconds[i] = reports[i].elapsed.seconds
                          /\ seconds2[i] = reports[i].elapsed.seconds
                          /\ reports[i].elapsed \in ClockTime
    BY <1>1
  <2>2. seconds2[n + 1] = r.elapsed.seconds /\ r.elapsed \in ClockTime
    BY <1>1
  <2> HIDE DEF seconds, seconds2, n
  <2> QED BY <1>2, <2>1, <2>2
<1>4. covered2 = r.elapsed.seconds + covered /\ covered \in Int
  <2> HIDE DEF seconds, seconds2, n
  <2>1. covered2 = seconds2[n + 1] + covered
    BY <1>1, <1>3, SumAppended
  <2>2. IsFiniteSet(1 .. n)
    <3> 1 \in Int /\ n \in Int
      BY <1>1
    <3> QED BY FS_Interval
  <2>3. covered \in Int
    BY <1>3, <2>2, SumType
  <2> QED BY <1>3, <2>1, <2>3
<1>5. ASSUME NEW c \in Counters
      PROVE  SumFunctionOnSet(counts2(c), 1 .. n + 1) = report_schedule'.last_report_totals[c]
  <2>1. /\ \A i \in 1 .. n : counts(c)[i] \in Int /\ counts2(c)[i] = counts(c)[i]
        /\ counts2(c)[n + 1] = r.interval[c] /\ counts2(c)[n + 1] \in Int
    <3>1. \A i \in 1 .. n : /\ counts(c)[i] = reports[i].interval[c]
                            /\ counts2(c)[i] = reports[i].interval[c]
                            /\ reports[i].interval \in RuntimeTotals
      BY <1>1
    <3>2. counts2(c)[n + 1] = r.interval[c] /\ r.interval \in RuntimeTotals
      BY <1>1
    <3> HIDE DEF counts, counts2, n
    <3> QED BY <1>2, <3>1, <3>2
  <2>2. SumFunctionOnSet(counts(c), 1 .. n) = report_schedule.last_report_totals[c]
    BY <1>1 DEF ReportsAddUp
  <2>3. report_schedule.last_report_totals[c] \in Int /\ report_schedule'.last_report_totals[c] \in Int
    BY <1>2 DEF MetricsTypeOK, MetricsSchedule
  <2> HIDE DEF counts, counts2, n
  <2>4. SumFunctionOnSet(counts2(c), 1 .. n + 1) =
          counts2(c)[n + 1] + SumFunctionOnSet(counts(c), 1 .. n)
    BY <1>1, <2>1, SumAppended
  <2> QED BY <2>1, <2>2, <2>3, <2>4
<1>6. /\ last \in ClockTime /\ last2 \in ClockTime
      /\ covered <= Elapsed(last, start).seconds
      /\ Elapsed(last, start).seconds <= covered + n
  BY <1>1 DEF MetricsTypeOK, MetricsSchedule, ReportsAddUp
<1>7. /\ Elapsed(last, start).seconds \in Int /\ r.elapsed.seconds \in Int
      /\ Elapsed(last2, start).seconds - (Elapsed(last, start).seconds + r.elapsed.seconds) \in {0, 1}
      /\ Elapsed(last2, start).seconds \in Int
  BY <1>6, ElapsedAdds
<1>8. /\ covered2 <= Elapsed(last2, start).seconds
      /\ Elapsed(last2, start).seconds <= covered2 + (n + 1)
  <2> DEFINE e == Elapsed(last, start).seconds
             e2 == Elapsed(last2, start).seconds
             s == r.elapsed.seconds
  <2>1. /\ n \in Nat /\ covered \in Int /\ e \in Int /\ s \in Int /\ e2 \in Int
        /\ covered2 = s + covered /\ covered <= e /\ e <= covered + n
        /\ e2 - (e + s) \in {0, 1}
    BY <1>1, <1>4, <1>6, <1>7
  <2> HIDE DEF covered, covered2, last, last2, n, e, e2, s
  <2>2. covered2 <= e2 /\ e2 <= covered2 + (n + 1)
    BY <2>1
  <2> QED BY <2>2 DEF e2
<1> QED BY <1>1, <1>5, <1>8 DEF ReportsAddUp

LEMMA InitAddsUp == MetricsInit => ReportsAddUp
<1> SUFFICES ASSUME MetricsInit PROVE ReportsAddUp
  OBVIOUS
<1>1. /\ start \in ClockTime /\ report_schedule.last_report_timestamp = start
      /\ report_schedule.last_report_totals = ZeroTotals
      /\ DOMAIN reports = {} /\ Len(reports) = 0
  BY ReadingsAssumption DEF MetricsInit, runtime_metrics_schedule_init
<1>2. Elapsed(start, start).seconds = 0
  BY <1>1 DEF Elapsed, ClockTime
<1>3. \A c \in Counters : ZeroTotals[c] = 0
  BY DEF ZeroTotals
<1> QED BY <1>1, <1>2, <1>3, SumEmpty DEF ReportsAddUp

LEMMA StepAddsUp == MetricsInv /\ start \in Readings /\ ReportsAddUp /\ [MetricsNext]_metricsVars => ReportsAddUp'
<1> SUFFICES ASSUME MetricsInv, start \in Readings, ReportsAddUp, [MetricsNext]_metricsVars PROVE ReportsAddUp'
  OBVIOUS
<1>1. CASE UNCHANGED <<report_schedule, start, reports>>
  BY <1>1 DEF ReportsAddUp
<1>2. ASSUME NEW time \in Readings, ObserveClock(time), ~(UNCHANGED <<report_schedule, reports>>)
      PROVE  ReportsAddUp'
  <2> DEFINE r == MetricsReport(report_schedule, time, totals)
  <2>1. /\ MetricsObserveError(report_schedule, time, totals) = "0"
        /\ report_schedule' = AfterReport(report_schedule, time, totals)
        /\ reports' = Append(reports, r) /\ start' = start
    BY <1>2 DEF ObserveClock, End
  <2>2. time \in ClockTime /\ start \in ClockTime
    BY ReadingsAssumption
  <2>3. r \in [elapsed : ClockTime, interval : RuntimeTotals] /\ report_schedule' \in MetricsSchedule
    BY <2>1, <2>2, ReportKeeps
  <2>4. report_schedule'.last_report_timestamp = time /\ report_schedule'.last_report_totals = totals
    BY <2>1 DEF AfterReport, MetricsInv, MetricsTypeOK, MetricsSchedule
  <2>5. /\ r.elapsed = Elapsed(report_schedule'.last_report_timestamp, report_schedule.last_report_timestamp)
        /\ \A c \in Counters : r.interval[c] =
             report_schedule'.last_report_totals[c] - report_schedule.last_report_totals[c]
    BY <2>4 DEF MetricsReport
  <2> HIDE DEF r
  <2> QED BY <2>1, <2>2, <2>3, <2>5, ReportAdded DEF MetricsInv
<1> QED BY <1>1, <1>2
        DEF MetricsNext, CountPacket, CountExpired, CountEvicted, CountFlows, CountResult, ObserveClock, End, metricsVars

-----------------------------------------------------------------------------
(* The theorems of the report schedule. *)

(* The invariant holds for every clock and every traffic. *)
THEOREM MetricsInvariance == MetricsSpec => []MetricsInv
<1>1. MetricsInit => MetricsInv
  BY MetricsInitEstablishes
<1>2. MetricsInv /\ [MetricsNext]_metricsVars => MetricsInv'
  BY MetricsStepKeeps
<1> QED BY <1>1, <1>2, PTL DEF MetricsSpec

(* No counter, and no difference of counters, leaves its width. *)
THEOREM MetricsTypeCorrect == MetricsSpec => []MetricsTypeOK
<1>1. MetricsInv => MetricsTypeOK
  BY DEF MetricsInv
<1> QED BY <1>1, MetricsInvariance, PTL

(* No report covers less than the interval. *)
THEOREM IntervalCorrect == MetricsSpec => []IntervalKept
<1>1. MetricsInv => IntervalKept
  BY DEF MetricsInv
<1> QED BY <1>1, MetricsInvariance, PTL

(* The reports of a run lose nothing and count nothing twice: their counts *)
(* add up to the totals at the last report and their times to the time     *)
(* since the start.                                                        *)
THEOREM ReportsCorrect == MetricsSpec => []ReportsAddUp
<1>1. MetricsInit => MetricsInv /\ ReportsAddUp
  BY MetricsInitEstablishes, InitAddsUp
<1>2. MetricsInv => start \in Readings
  BY DEF MetricsInv, MetricsTypeOK
<1>3. MetricsInv /\ ReportsAddUp /\ [MetricsNext]_metricsVars => MetricsInv' /\ ReportsAddUp'
  BY <1>2, MetricsStepKeeps, StepAddsUp
<1> QED BY <1>1, <1>3, PTL DEF MetricsSpec
=============================================================================
