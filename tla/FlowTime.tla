------------------------------ MODULE FlowTime ------------------------------
(***************************************************************************)
(* flow_timestamp_t and its order.  flow_record.c, flow_table.c and        *)
(* flow_expiration.c each have a private copy of the same lexicographic    *)
(* comparison; it is written once here.                                    *)
(***************************************************************************)
EXTENDS Integers

MicrosecondsPerSecond == 1000000

Timestamp == [seconds : Int, microseconds : 0 .. MicrosecondsPerSecond - 1]

(* flow_timestamp_before, and flow_timestamp_compare < 0 *)
TimeBefore(a, b) ==
  \/ a.seconds < b.seconds
  \/ a.seconds = b.seconds /\ a.microseconds < b.microseconds

(* flow_timestamp_at_or_before *)
TimeAtOrBefore(a, b) ==
  \/ a.seconds < b.seconds
  \/ a.seconds = b.seconds /\ a.microseconds <= b.microseconds
=============================================================================
