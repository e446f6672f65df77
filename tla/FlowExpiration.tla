--------------------------- MODULE FlowExpiration ---------------------------
(***************************************************************************)
(* The expiration schedule (src/flow/flow_expiration.c): from packet       *)
(* timestamps alone it decides when the flow table is scanned and up to    *)
(* which time flows are idle.  Seconds are 64-bit integers in C; IntMin    *)
(* and IntMax stand for their range and are scaled down so that the        *)
(* arithmetic at both ends is exercised.                                   *)
(***************************************************************************)
EXTENDS FlowTime

CONSTANTS IntMin, IntMax

ASSUME IntAssumption == IntMin \in Int /\ IntMax \in Int /\ IntMin < 0 /\ 0 < IntMax

BoundedTime ==
  [seconds : IntMin .. IntMax, microseconds : 0 .. MicrosecondsPerSecond - 1]

ZeroTime == [seconds |-> 0, microseconds |-> 0]

Schedule ==
  [latest_timestamp : BoundedTime, last_scan_timestamp : BoundedTime,
   idle_timeout_seconds : 1 .. IntMax, scan_interval_seconds : 1 .. IntMax,
   has_observation : BOOLEAN]

flow_expiration_schedule_init(idle, interval) ==
  [latest_timestamp |-> ZeroTime, last_scan_timestamp |-> ZeroTime,
   idle_timeout_seconds |-> idle, scan_interval_seconds |-> interval,
   has_observation |-> FALSE]

After(t, seconds) == [t EXCEPT !.seconds = @ + seconds]

(* Seeded fault: a scan is due only after its time, not at it. *)
IntervalExceeded(current, earlier, interval) ==
  /\ earlier.seconds <= IntMax - interval
  /\ TimeBefore(After(earlier, interval), current)

(* A target time that cannot be represented has not been reached. *)
IntervalElapsed(current, earlier, interval) ==
  /\ earlier.seconds <= IntMax - interval
  /\ TimeAtOrBefore(After(earlier, interval), current)

(* Seeded fault: the mark follows the packet in hand. *)
LatestArrival(sch, time) == time

(* The time high-water mark with one more observation: packets out of      *)
(* timestamp order do not take it back.                                    *)
HighWater(sch, time) ==
  IF sch.has_observation /\ ~TimeBefore(sch.latest_timestamp, time)
  THEN sch.latest_timestamp ELSE time

(* Does the observation make a scan due?  The first one never does. *)
ScanDue(sch, time) ==
  sch.has_observation /\
    IntervalElapsed(HighWater(sch, time), sch.last_scan_timestamp, sch.scan_interval_seconds)

(* A due scan whose cutoff cannot be represented fails. *)
ObserveError(sch, time) ==
  IF ScanDue(sch, time) /\ HighWater(sch, time).seconds < IntMin + sch.idle_timeout_seconds
  THEN "ERANGE" ELSE "0"

(* Seeded faults: the cutoff uses the interval of the scans, or both. *)
CutoffByInterval(sch, time) == After(HighWater(sch, time), -sch.scan_interval_seconds)

CutoffByBoth(sch, time) ==
  After(HighWater(sch, time), -(sch.idle_timeout_seconds + sch.scan_interval_seconds))

Cutoff(sch, time) == After(HighWater(sch, time), -sch.idle_timeout_seconds)

(* Seeded fault: a scan does not restart the interval. *)
ObserveKeepingLastScan(sch, time) ==
  [sch EXCEPT !.latest_timestamp = HighWater(sch, time),
              !.last_scan_timestamp = IF sch.has_observation THEN @ ELSE time,
              !.has_observation = TRUE]

(* The schedule after a successful flow_expiration_schedule_observe. *)
flow_expiration_schedule_observe(sch, time) ==
  [sch EXCEPT !.latest_timestamp = HighWater(sch, time),
              !.last_scan_timestamp =
                 IF ~sch.has_observation THEN time
                 ELSE IF ScanDue(sch, time) THEN HighWater(sch, time) ELSE @,
              !.has_observation = TRUE]
=============================================================================
