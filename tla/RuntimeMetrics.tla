--------------------------- MODULE RuntimeMetrics ---------------------------
(***************************************************************************)
(* The counters of a live run and the schedule of their periodic report    *)
(* (src/metrics/runtime_metrics.c).  The totals are one function from the  *)
(* names of the C struct's fields; the rates of a report, floating point   *)
(* quotients of what is modelled here, are left out.                       *)
(***************************************************************************)
EXTENDS Integers

CONSTANT TotalMax   \* UINT64_MAX, scaled down so that it can be reached

ASSUME TotalMaxAssumption == TotalMax \in Nat \ {0}

NanosecondsPerSecond == 1000000000

(* Readings of the monotonic clock. *)
ClockTime == [seconds : Nat, nanoseconds : 0 .. NanosecondsPerSecond - 1]

(* What becomes of a packet; every packet is counted under one of these. *)
PacketResults == {"COMPLETE", "TRUNCATED", "MALFORMED", "UNSUPPORTED", "FLOW_REJECTED"}

Counters ==
  {"packet", "captured_byte", "wire_byte", "expired_flow", "evicted_flow"} \cup PacketResults

RuntimeTotals == [Counters -> 0 .. TotalMax]

ZeroTotals == [c \in Counters |-> 0]

MetricsSchedule ==
  [last_report_timestamp : ClockTime, last_report_totals : RuntimeTotals,
   report_interval_seconds : Nat \ {0}]

Overflows(x, n) == x > TotalMax - n

(* All three counters are tested before any of them changes. *)
AddPacketError(t, captured, wire) ==
  IF \/ Overflows(t["packet"], 1)
     \/ Overflows(t["captured_byte"], captured)
     \/ Overflows(t["wire_byte"], wire)
  THEN "EOVERFLOW" ELSE "0"

runtime_metrics_totals_add_packet(t, captured, wire) ==
  [t EXCEPT !["packet"] = @ + 1, !["captured_byte"] = @ + captured, !["wire_byte"] = @ + wire]

(* The counter of a packet result, of expired or of evicted flows. *)
AddError(t, counter, n) == IF Overflows(t[counter], n) THEN "EOVERFLOW" ELSE "0"

AddTo(t, counter, n) == [t EXCEPT ![counter] = @ + n]

runtime_metrics_schedule_init(interval, time, totals) ==
  [last_report_timestamp |-> time, last_report_totals |-> totals,
   report_interval_seconds |-> interval]

ClockBefore(a, b) ==
  \/ a.seconds < b.seconds
  \/ a.seconds = b.seconds /\ a.nanoseconds < b.nanoseconds

(* Seeded fault: the fraction of the second is ignored. *)
WholeSecondsElapsed(current, previous, interval) ==
  current.seconds - previous.seconds >= interval

runtime_metrics_interval_elapsed(current, previous, interval) ==
  LET difference == current.seconds - previous.seconds IN
  \/ difference > interval
  \/ difference = interval /\ current.nanoseconds >= previous.nanoseconds

(* Neither the clock nor a counter may have gone back since the report. *)
MetricsObserveError(sch, time, totals) ==
  IF \/ ClockBefore(time, sch.last_report_timestamp)
     \/ \E c \in Counters : totals[c] < sch.last_report_totals[c]
  THEN "ERANGE" ELSE "0"

ReportDue(sch, time) ==
  runtime_metrics_interval_elapsed(time, sch.last_report_timestamp, sch.report_interval_seconds)

(* The time between two readings, borrowing a second where needed. *)
Elapsed(time, since) ==
  LET seconds == time.seconds - since.seconds
      nanoseconds == time.nanoseconds - since.nanoseconds IN
  IF nanoseconds < 0
  THEN [seconds |-> seconds - 1, nanoseconds |-> nanoseconds + NanosecondsPerSecond]
  ELSE [seconds |-> seconds, nanoseconds |-> nanoseconds]

MetricsReport(sch, time, totals) ==
  [elapsed |-> Elapsed(time, sch.last_report_timestamp),
   interval |-> [c \in Counters |-> totals[c] - sch.last_report_totals[c]]]

(* Seeded fault: the totals are not remembered. *)
KeepFirstTotals(sch, time, totals) == [sch EXCEPT !.last_report_timestamp = time]

(* The schedule after a report: the next interval starts at this reading. *)
AfterReport(sch, time, totals) ==
  [sch EXCEPT !.last_report_timestamp = time, !.last_report_totals = totals]
=============================================================================
