---------------------------- MODULE MetricsClock ----------------------------
(***************************************************************************)
(* The counters and the report schedule as the live capture loop uses them *)
(* (run_capture_analysis in src/app/app.c): a packet is counted when it is *)
(* read, then the flows it expired, the flow it evicted and its result,    *)
(* and only between two packets the clock is read and a report may be due. *)
(* Any error ends the run.  reports is history.                            *)
(***************************************************************************)
EXTENDS RuntimeMetrics, Sequences, FiniteSetsExt

CONSTANTS
  Readings,    \* readings of the clock
  Lengths,     \* pairs of captured and wire length
  Intervals,   \* report intervals, in seconds
  MaxExpired   \* flows that one scan may expire

ASSUME ReadingsAssumption == Readings \subseteq ClockTime
ASSUME LengthsAssumption == Lengths \subseteq Nat \X Nat
ASSUME IntervalsAssumption == Intervals \subseteq Nat \ {0}
ASSUME MaxExpiredAssumption == MaxExpired \in Nat

VARIABLES pc, totals, report_schedule, start, reports

metricsVars == <<pc, totals, report_schedule, start, reports>>

MetricsInit ==
  /\ pc = "between"
  /\ totals = ZeroTotals
  /\ start \in Readings
  /\ \E interval \in Intervals :
       report_schedule = runtime_metrics_schedule_init(interval, start, totals)
  /\ reports = <<>>

End == pc' = "ended" /\ UNCHANGED <<totals, report_schedule, reports>>

(* A packet is read and counted. *)
CountPacket(l) ==
  /\ pc = "between"
  /\ \/ AddPacketError(totals, l[1], l[2]) # "0" /\ End
     \/ /\ AddPacketError(totals, l[1], l[2]) = "0"
        /\ totals' = runtime_metrics_totals_add_packet(totals, l[1], l[2])
        /\ pc' = "expire"
        /\ UNCHANGED <<report_schedule, reports>>
  /\ UNCHANGED start

(* n flows are counted in one of the two flow counters. *)
CountFlows(counter, n, step, next) ==
  /\ pc = step
  /\ \/ AddError(totals, counter, n) # "0" /\ End
     \/ /\ AddError(totals, counter, n) = "0"
        /\ totals' = AddTo(totals, counter, n)
        /\ pc' = next
        /\ UNCHANGED <<report_schedule, reports>>
  /\ UNCHANGED start

CountExpired(n) == CountFlows("expired_flow", n, "expire", "evict")

CountEvicted(n) == CountFlows("evicted_flow", n, "evict", "result")

CountResult(result) ==
  /\ pc = "result"
  /\ \/ AddError(totals, result, 1) # "0" /\ End
     \/ /\ AddError(totals, result, 1) = "0"
        /\ totals' = AddTo(totals, result, 1)
        /\ pc' = "metrics"
        /\ UNCHANGED <<report_schedule, reports>>
  /\ UNCHANGED start

(* The clock is read, after a packet or when there was none. *)
ObserveClock(time) ==
  /\ pc \in {"metrics", "between"}
  /\ \/ MetricsObserveError(report_schedule, time, totals) # "0" /\ End
     \/ /\ MetricsObserveError(report_schedule, time, totals) = "0"
        /\ pc' = "between"
        /\ IF ReportDue(report_schedule, time)
           THEN /\ report_schedule' = AfterReport(report_schedule, time, totals)
                /\ reports' = Append(reports, MetricsReport(report_schedule, time, totals))
           ELSE UNCHANGED <<report_schedule, reports>>
        /\ UNCHANGED totals
  /\ UNCHANGED start

MetricsNext ==
  \/ \E l \in Lengths : CountPacket(l)
  \/ \E n \in 0 .. MaxExpired : CountExpired(n)
  \/ \E n \in {0, 1} : CountEvicted(n)
  \/ \E result \in PacketResults : CountResult(result)
  \/ \E time \in Readings : ObserveClock(time)

MetricsSpec == MetricsInit /\ [][MetricsNext]_metricsVars

-----------------------------------------------------------------------------

(* Every variable stays in its type; no counter passes its width. *)
MetricsTypeOK ==
  /\ pc \in {"between", "expire", "evict", "result", "metrics", "ended"}
  /\ totals \in RuntimeTotals /\ report_schedule \in MetricsSchedule
  /\ start \in Readings
  /\ reports \in Seq([elapsed : ClockTime, interval : RuntimeTotals])

(* The reports lose nothing and count nothing twice: what they reported    *)
(* adds up, counter by counter, to the totals at the last report, and the  *)
(* times they cover to the time since the start (to the second, of which   *)
(* each report may carry a fraction).                                      *)
ReportsAddUp ==
  LET covered == SumFunctionOnSet([i \in DOMAIN reports |-> reports[i].elapsed.seconds],
                                  DOMAIN reports)
      passed == Elapsed(report_schedule.last_report_timestamp, start).seconds IN
  /\ \A c \in Counters :
       SumFunctionOnSet([i \in DOMAIN reports |-> reports[i].interval[c]], DOMAIN reports)
         = report_schedule.last_report_totals[c]
  /\ covered <= passed /\ passed <= covered + Len(reports)

(* No report covers less than the interval, in spite of the borrowed       *)
(* second: its rates divide by the time covered.                           *)
IntervalKept ==
  \A i \in DOMAIN reports :
    reports[i].elapsed.seconds >= report_schedule.report_interval_seconds
=============================================================================
