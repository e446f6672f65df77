------------------------------- MODULE FlowMap -------------------------------
(***************************************************************************)
(* What the flow table promises its callers (include/analyzer/             *)
(* flow_table.h), without slots, probes or tombstones: a map of at most    *)
(* Capacity flows, from which records leave only through the output of     *)
(* the call that removed them.  Which of several equally old flows is      *)
(* evicted is left open, as the header leaves it open.                     *)
(***************************************************************************)
EXTENDS FlowRecord, FiniteSets

CONSTANTS Capacity, Packets, Cutoffs, OutputSizes

VARIABLES
  flows,    \* the records, by flow key
  open,     \* between flow_table_init and flow_table_cleanup
  result    \* what the last call gave back

mapVars == <<flows, open, result>>

NoFlows == [k \in {} |-> {}]

Returns(err, created, out) == result' = [err |-> err, created |-> created, out |-> out]

Refuse(err) == Returns(err, FALSE, {}) /\ UNCHANGED <<flows, open>>

With(f, r) == [k \in DOMAIN f \cup {r.key} |-> IF k = r.key THEN r ELSE f[k]]

Without(f, K) == [k \in DOMAIN f \ K |-> f[k]]

IsOldest(k) ==
  \A other \in DOMAIN flows : ~TimeBefore(flows[other].last_seen, flows[k].last_seen)

MapInit ==
  /\ flows = NoFlows
  /\ open = FALSE
  /\ result = [err |-> "0", created |-> FALSE, out |-> {}]

Open == flows' = NoFlows /\ open' = TRUE /\ Returns("0", FALSE, {})

Close == flows' = NoFlows /\ open' = FALSE /\ Returns("0", FALSE, {})

(* A packet of a known flow updates its record, or is refused. *)
Update(p) ==
  /\ KeyOf(p) \in DOMAIN flows
  /\ LET r == flows[KeyOf(p)] IN
     \/ RecordUpdateError(r, p) # "0" /\ Refuse(RecordUpdateError(r, p))
     \/ /\ RecordUpdateError(r, p) = "0"
        /\ flows' = With(flows, flow_record_update(r, p))
        /\ UNCHANGED open
        /\ Returns("0", FALSE, {})

(* A packet of a new flow: added while there is room; in a full map it is  *)
(* refused or, where the caller asks for it, replaces an oldest flow.      *)
Create(p, evict) ==
  /\ KeyOf(p) \notin DOMAIN flows
  /\ LET full == Cardinality(DOMAIN flows) = Capacity IN
     \/ full /\ ~evict /\ Refuse("ENOSPC")
     \/ (full => evict) /\ RecordInitError(p) # "0" /\ Refuse(RecordInitError(p))
     \/ /\ ~full /\ RecordInitError(p) = "0"
        /\ flows' = With(flows, flow_record_init(p))
        /\ UNCHANGED open
        /\ Returns("0", TRUE, {})
     \/ /\ full /\ evict /\ RecordInitError(p) = "0"
        /\ \E k \in DOMAIN flows :
             /\ IsOldest(k)
             /\ flows' = With(Without(flows, {k}), flow_record_init(p))
             /\ Returns("0", TRUE, {flows[k]})
        /\ UNCHANGED open

Process(p, evict) ==
  \/ ~open /\ Refuse("EINVAL")
  \/ open /\ KeyError(p) # "0" /\ Refuse(KeyError(p))
  \/ open /\ KeyError(p) = "0" /\ (Update(p) \/ Create(p, evict))

EvictOldest ==
  \/ ~open /\ Refuse("EINVAL")
  \/ open /\ DOMAIN flows = {} /\ Refuse("ENOENT")
  \/ /\ open
     /\ \E k \in DOMAIN flows :
          /\ IsOldest(k)
          /\ flows' = Without(flows, {k})
          /\ Returns("0", FALSE, {flows[k]})
     /\ UNCHANGED open

(* Every flow last seen at or before the cutoff leaves, or none does. *)
Expire(cutoff, size) ==
  LET old == {k \in DOMAIN flows : TimeAtOrBefore(flows[k].last_seen, cutoff)} IN
  \/ ~open /\ Refuse("EINVAL")
  \/ open /\ Cardinality(old) > size /\ Refuse("ENOSPC")
  \/ /\ open /\ Cardinality(old) <= size
     /\ flows' = Without(flows, old)
     /\ Returns("0", FALSE, {flows[k] : k \in old})
     /\ UNCHANGED open

MapNext ==
  \/ Open \/ Close \/ EvictOldest
  \/ \E p \in Packets, evict \in BOOLEAN : Process(p, evict)
  \/ \E cutoff \in Cutoffs, size \in OutputSizes : Expire(cutoff, size)

MapSpec == MapInit /\ [][MapNext]_mapVars
=============================================================================
