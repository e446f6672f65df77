-------------------------- MODULE ExpirationClock --------------------------
(***************************************************************************)
(* A schedule fed with packet timestamps in any order.  observed is the    *)
(* history of the timestamps accepted, answer the outcome of the last      *)
(* call, scans the cutoffs of the scans that were due.                     *)
(***************************************************************************)
EXTENDS FlowExpiration, Sequences, SequencesExt

CONSTANTS
  Times,            \* timestamps that packets carry
  IdleTimeouts,     \* idle timeouts, in seconds
  ScanIntervals,    \* scan intervals, in seconds
  MaxObservations   \* bound on the number of packets

ASSUME TimesAssumption == Times \subseteq BoundedTime
ASSUME PeriodsAssumption ==
  IdleTimeouts \subseteq 1 .. IntMax /\ ScanIntervals \subseteq 1 .. IntMax
ASSUME MaxObservationsAssumption == MaxObservations \in Nat

VARIABLES schedule, answer, observed, scans

vars == <<schedule, answer, observed, scans>>

NotDue == [err |-> "0", scan_due |-> FALSE]

Init ==
  /\ \E idle \in IdleTimeouts, interval \in ScanIntervals :
       schedule = flow_expiration_schedule_init(idle, interval)
  /\ answer = NotDue
  /\ observed = <<>>
  /\ scans = <<>>

(* A failing call leaves the schedule as it was. *)
Observe(time) ==
  /\ Len(observed) < MaxObservations
  /\ \/ /\ ObserveError(schedule, time) # "0"
        /\ answer' = [err |-> ObserveError(schedule, time), scan_due |-> FALSE]
        /\ UNCHANGED <<schedule, observed, scans>>
     \/ /\ ObserveError(schedule, time) = "0"
        /\ schedule' = flow_expiration_schedule_observe(schedule, time)
        /\ answer' = [err |-> "0", scan_due |-> ScanDue(schedule, time)]
        /\ observed' = Append(observed, time)
        /\ scans' = IF ScanDue(schedule, time)
                    THEN Append(scans, Cutoff(schedule, time)) ELSE scans

Next == \E time \in Times : Observe(time)

Spec == Init /\ [][Next]_vars

-----------------------------------------------------------------------------

(* Every variable stays in its type; in particular every time computed     *)
(* fits the integers of the program, so no signed operation overflows.     *)
TypeOK ==
  /\ schedule \in Schedule
  /\ answer \in [err : {"0", "ERANGE"}, scan_due : BOOLEAN]
  /\ observed \in Seq(Times)
  /\ scans \in Seq(BoundedTime)

(* latest_timestamp is the maximum of the timestamps observed, in whatever *)
(* order they came, and the last scan was not after it: the consistency    *)
(* test at the head of flow_expiration_schedule_observe never fails.       *)
HighWaterIsMaximum ==
  observed # <<>> =>
    /\ schedule.latest_timestamp \in Range(observed)
    /\ \A i \in DOMAIN observed : TimeAtOrBefore(observed[i], schedule.latest_timestamp)
    /\ TimeAtOrBefore(schedule.last_scan_timestamp, schedule.latest_timestamp)

(* No scan is overdue after a successful call: less than an interval has   *)
(* passed since the last one, except where the next due time is beyond the *)
(* largest integer.                                                        *)
NeverOverdue ==
  observed # <<>> =>
    \/ TimeBefore(schedule.latest_timestamp,
                  After(schedule.last_scan_timestamp, schedule.scan_interval_seconds))
    \/ schedule.last_scan_timestamp.seconds + schedule.scan_interval_seconds > IntMax

(* Every cutoff is a time that can be represented, and successive cutoffs  *)
(* lie at least one interval apart, so that no flow is looked at twice     *)
(* with the same cutoff and the cutoff never goes back.                    *)
CutoffsAdvance ==
  /\ Range(scans) \subseteq BoundedTime
  /\ \A i \in 1 .. Len(scans) - 1 :
       TimeAtOrBefore(After(scans[i], schedule.scan_interval_seconds), scans[i + 1])

=============================================================================
