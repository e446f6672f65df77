------------------------------ MODULE MCClocks ------------------------------
(* The schedule of the scans, which runs on the time in the packets, and   *)
(* that of the reports, which runs on the monotonic clock.  Neither knows  *)
(* the other, so that no behaviour needs both to move: one stays at rest.  *)
EXTENDS ExpirationClock, MetricsClock

(* Times over the whole integer range, two of them in the same second.     *)
MCIntMin == -5

MCTimes ==
  [seconds : {IntMin, IntMin + 2, 0, 2, IntMax - 1, IntMax}, microseconds : {0}] \cup
  [seconds : {0, 2}, microseconds : {1, 999999}]
MCIdleTimeouts == {2, 3}
MCScanIntervals == {1, 2, 4}

(* Readings of the clock within and across seconds, and packets of which   *)
(* two fill a counter.                                                     *)
MCReadings == [seconds : {0, 1, 3}, nanoseconds : {0, 999999999}]
MCLengths == {<<1, 1>>, <<0, 2>>}
MCIntervals == {1, 2}

ScansRest ==
  Init /\ schedule.idle_timeout_seconds = 2 /\ schedule.scan_interval_seconds = 1

ReportsRest ==
  MetricsInit /\ start = [seconds |-> 0, nanoseconds |-> 0] /\ report_schedule.report_interval_seconds = 1

ClocksInit == Init /\ MetricsInit /\ (ScansRest \/ ReportsRest)

ClocksNext ==
  \/ Next /\ ReportsRest /\ UNCHANGED metricsVars
  \/ MetricsNext /\ ScansRest /\ UNCHANGED vars

ClocksSpec == ClocksInit /\ [][ClocksNext]_<<vars, metricsVars>>
=============================================================================
