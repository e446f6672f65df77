----------------------------- MODULE CaptureApp -----------------------------
(***************************************************************************)
(* One run of the analyzer: main() (src/main.c), app_run and the capture   *)
(* loop (src/app/app.c) over the capture wrapper (src/capture/capture.c),  *)
(* the expiration schedule and the flow table, from the installation of    *)
(* the stop handlers to the exit status.  The program is one thread with a *)
(* signal handler that can run between any two of its steps; pc is the     *)
(* step the thread does next.                                              *)
(*                                                                         *)
(* The flow table is the map of FlowMap, which FlowTable implements.  Any  *)
(* outside call can fail: the environment names the calls that may.        *)
(***************************************************************************)
EXTENDS FlowMap, FlowFeatures, FlowExpiration, Sequences, SequencesExt, FiniteSetsExt

CONSTANTS
  Configs,        \* command lines, as parsed
  LiveIdle,       \* APP_FLOW_IDLE_TIMEOUT_SECONDS
  ScanInterval,   \* APP_FLOW_EXPIRATION_SCAN_INTERVAL_SECONDS
  Environment     \* what surrounds a run: the packets its source may deliver,
                  \* how many at most, and the outside calls that may fail

Sinks == {"flow", "feature"}   \* --csv and --feature-csv

FaultKinds ==
  {"signal", "create", "write", "close", "open", "read", "wait", "clock", "output"}

Config ==
  [live : BOOLEAN, evict : BOOLEAN, packet_limit : Nat, idle : Nat, csv : SUBSET Sinks]

(* What app_parse_arguments accepts, and app_run checks once more: no       *)
(* option of the other mode, and no live feature file without a limit.     *)
Accepted(c) ==
  IF c.live
  THEN c.idle = 0 /\ "flow" \notin c.csv /\ ("feature" \in c.csv => c.packet_limit # 0)
  ELSE ~c.evict /\ c.packet_limit = 0

ASSUME ConfigsAssumption == Configs \subseteq Config /\ \A c \in Configs : Accepted(c)
ASSUME IntervalsAssumption == {LiveIdle, ScanInterval} \subseteq 1 .. IntMax
ASSUME CapacityAssumption == Capacity \in Nat \ {0}
ASSUME EnvironmentAssumption ==
  Environment \in
    [Configs -> [packets : SUBSET Packets, length : Nat, faults : SUBSET FaultKinds]]

(* Packets come out of the parsers: each has a class, and a complete one a *)
(* flow key (CompleteIsJustified of PacketParse).  Only the time is not    *)
(* looked at yet; its seconds are of the range of their type.              *)
ASSUME PacketsAssumption ==
  \A p \in Packets :
    /\ p.parse_status \in ParseStatus \ {"NOT_STARTED"}
    /\ p.parse_status = "COMPLETE" => KeyError(p) = "0"
    /\ {p.captured_length, p.wire_length} \subseteq Nat
    /\ p.timestamp \in Timestamp => p \in PacketInfo /\ p.timestamp \in BoundedTime

VARIABLES
  config, pc, error,              \* error: what the run returns, "0" for success
  handlers, stop_requested,       \* main.c's handlers; context->stop_requested
  active_capture, handle,         \* context->active_capture # NULL; the pcap handle
  break_loop,                     \* libpcap's own flag, set by pcap_breakloop
  read_status, packet,            \* what capture_next_packet gave back
  schedule, totals, packet_result,
  files, rows, summary,           \* the CSV files, their rows; summary printed
  faulted, delivered, accepted    \* history: a call failed; packets read; in a flow

signalVars == <<handlers, stop_requested, active_capture, handle, break_loop>>
readVars == <<read_status, packet, delivered>>
outputVars == <<files, rows, summary>>
countVars == <<totals, packet_result, accepted>>

vars ==
  <<config, pc, error, signalVars, readVars, schedule, countVars, outputVars, faulted, mapVars>>

PacketResults == {"COMPLETE", "TRUNCATED", "MALFORMED", "UNSUPPORTED", "FLOW_REJECTED"}
Totals == {"packets", "expired", "evicted"} \cup PacketResults

NoPacket == [timestamp |-> ZeroTime]

Goto(step) == pc' = step /\ UNCHANGED <<config, faulted, error>>

FailTo(step, err) == pc' = step /\ error' = err /\ UNCHANGED <<config, faulted>>

Around == Environment[config]

(* An outside call fails. *)
Fault(kind, step) ==
  kind \in Around.faults /\ faulted' = TRUE /\ pc' = step /\ error' = "EIO" /\ UNCHANGED config

Count(name, n) == totals' = [totals EXCEPT ![name] = @ + n]

Init ==
  /\ MapInit
  /\ config \in Configs
  /\ pc = "start" /\ error = "0"
  /\ handlers = FALSE /\ stop_requested = FALSE
  /\ active_capture = FALSE /\ break_loop = FALSE
  /\ handle = "none"
  /\ read_status = "UNKNOWN" /\ packet = NoPacket /\ delivered = <<>>
  /\ schedule = flow_expiration_schedule_init(0, 0)
  /\ totals = [n \in Totals |-> 0] /\ packet_result = "COMPLETE" /\ accepted = {}
  /\ files = [f \in Sinks |-> "absent"] /\ rows = [f \in Sinks |-> <<>>]
  /\ summary = FALSE /\ faulted = FALSE

-----------------------------------------------------------------------------
(* The stop signal. *)

(* Seeded fault: the request is recorded but not looked at. *)
StopOverlooked == FALSE

StopSeen == stop_requested

(* handle_stop_signal and app_request_stop, between any two steps of the   *)
(* thread.  Only active_capture tells the handler that there is a capture. *)
StopSignal ==
  /\ handlers
  /\ stop_requested' = TRUE
  /\ break_loop' = (break_loop \/ active_capture)
  /\ UNCHANGED <<config, pc, error, handlers, active_capture, handle, readVars, schedule,
                 countVars, outputVars, faulted, mapVars>>

-----------------------------------------------------------------------------
(* From main() to the first read. *)

InstallHandlers ==
  /\ pc = "start"
  /\ \/ config.live /\ handlers' = TRUE /\ Goto("app_run")
     \/ ~config.live /\ UNCHANGED handlers /\ Goto("app_run")
     \/ config.live /\ UNCHANGED handlers /\ Fault("signal", "return")
  /\ UNCHANGED <<stop_requested, active_capture, handle, break_loop, readVars, schedule,
                 countVars, outputVars, mapVars>>

(* A stop that came before the run began cancels it. *)
AppRun ==
  /\ pc = "app_run"
  /\ \/ StopSeen /\ FailTo("return", "ECANCELED")
     \/ ~StopSeen /\ Goto("create_flow")
  /\ UNCHANGED <<signalVars, readVars, schedule, countVars, outputVars, mapVars>>

(* One of the two CSV files: created, with its header, before the work it  *)
(* wraps.  A file that was created stays, even when nothing follows.       *)
CreateFile(sink, step, next, undo, outer) ==
  /\ pc = step
  /\ \/ sink \notin config.csv /\ Goto(next) /\ UNCHANGED files
     \/ sink \in config.csv /\ Fault("create", outer) /\ UNCHANGED files
     \/ /\ sink \in config.csv
        /\ files' = [files EXCEPT ![sink] = "open"]
        /\ Goto(next) \/ Fault("write", undo)
  /\ UNCHANGED <<signalVars, readVars, schedule, countVars, rows, summary, mapVars>>

CreateFlowFile == CreateFile("flow", "create_flow", "create_feature", "close_flow", "return")

CreateFeatureFile == CreateFile("feature", "create_feature", "open", "close_feature", "close_flow")

(* The capture is opened, and closed again when its link type, filter or   *)
(* non-blocking mode fails.                                                *)
OpenCapture ==
  /\ pc = "open"
  /\ \/ handle' = "open" /\ Goto("init")
     \/ handle' \in {"none", "closed"} /\ Fault("open", "close_feature")
  /\ UNCHANGED <<handlers, stop_requested, active_capture, break_loop, readVars, schedule,
                 countVars, outputVars, mapVars>>

(* Live captures expire flows after a fixed time, offline ones after a     *)
(* chosen time or never.                                                   *)
IdleTimeout == IF config.live THEN LiveIdle ELSE config.idle

ExpirationEnabled == IdleTimeout > 0

InitTable ==
  /\ pc = "init"
  /\ Open
  /\ schedule' = IF ExpirationEnabled
                 THEN flow_expiration_schedule_init(IdleTimeout, ScanInterval) ELSE schedule
  /\ \/ Goto("publish")
     \/ ExpirationEnabled /\ Fault("clock", "abort")
     \/ Fault("output", "abort")
  /\ UNCHANGED <<signalVars, readVars, countVars, outputVars>>

(* From here on the handler may break the capture's loop. *)
PublishCapture ==
  /\ pc = "publish"
  /\ active_capture' = TRUE
  /\ Goto("loop")
  /\ UNCHANGED <<handlers, stop_requested, handle, break_loop, readVars, schedule,
                 countVars, outputVars, mapVars>>

-----------------------------------------------------------------------------
(* The capture loop. *)

LimitReached ==
  config.live /\ config.packet_limit # 0 /\ totals["packets"] >= config.packet_limit

LoopTop ==
  /\ pc = "loop"
  /\ IF StopSeen \/ LimitReached THEN Goto("statistics") ELSE Goto("read")
  /\ UNCHANGED <<signalVars, readVars, schedule, countVars, outputVars, mapVars>>

(* capture_next_packet.  A pending break request comes back as the end of  *)
(* the file, as the real end of an offline file does.                      *)
ReadPacket ==
  /\ pc = "read"
  /\ break_loop' = FALSE
  /\ \/ /\ ~break_loop /\ Len(delivered) < Around.length
        /\ read_status' = "PACKET"
        /\ packet' \in Around.packets
        /\ delivered' = Append(delivered, packet')
     \/ /\ break_loop \/ ~config.live
        /\ read_status' = "END_OF_FILE"
        /\ UNCHANGED <<packet, delivered>>
     \/ ~break_loop /\ config.live /\ read_status' = "EAGAIN" /\ UNCHANGED <<packet, delivered>>
     \/ "read" \in Around.faults /\ read_status' = "EIO" /\ UNCHANGED <<packet, delivered>>
  /\ Goto("after_read")
  /\ UNCHANGED <<handlers, stop_requested, active_capture, handle, schedule, countVars,
                 outputVars, mapVars>>

(* Seeded fault: the packet is counted before the stop is looked for. *)
CountBeforeStop ==
  /\ pc = "after_read"
  /\ IF read_status = "PACKET" THEN Count("packets", 1) ELSE UNCHANGED totals
  /\ \/ StopSeen /\ Goto("statistics")
     \/ ~StopSeen /\ read_status = "EAGAIN" /\ Goto("poll")
     \/ ~StopSeen /\ read_status = "EIO" /\ Fault("read", "abort")
     \/ ~StopSeen /\ read_status = "END_OF_FILE" /\ Goto("statistics")
     \/ /\ ~StopSeen /\ read_status = "PACKET"
        /\ IF ExpirationEnabled THEN Goto("observe") ELSE Goto("process")
  /\ UNCHANGED <<signalVars, readVars, schedule, packet_result, accepted, outputVars, mapVars>>

(* What was read counts only when no stop was requested meanwhile. *)
AfterRead ==
  /\ pc = "after_read"
  /\ \/ StopSeen /\ Goto("statistics") /\ UNCHANGED totals
     \/ ~StopSeen /\ read_status = "EAGAIN" /\ Goto("poll") /\ UNCHANGED totals
     \/ ~StopSeen /\ read_status = "EIO" /\ Fault("read", "abort") /\ UNCHANGED totals
     \/ ~StopSeen /\ read_status = "END_OF_FILE" /\ Goto("statistics") /\ UNCHANGED totals
     \/ /\ ~StopSeen /\ read_status = "PACKET"
        /\ Count("packets", 1)
        /\ IF ExpirationEnabled THEN Goto("observe") ELSE Goto("process")
  /\ UNCHANGED <<signalVars, readVars, schedule, packet_result, accepted, outputVars, mapVars>>

(* capture_wait_readable and, unless it was interrupted, the metrics.      *)
Poll ==
  /\ pc = "poll"
  /\ \/ StopSeen /\ Goto("statistics")
     \/ ~StopSeen /\ Goto("loop")
     \/ ~StopSeen /\ Fault("wait", "abort")
     \/ ~StopSeen /\ (Fault("clock", "abort") \/ Fault("output", "abort"))
  /\ UNCHANGED <<signalVars, readVars, schedule, countVars, outputVars, mapVars>>

(* Before a packet reaches the flow table its timestamp may make a scan    *)
(* due, which takes the idle flows out of the table.                       *)
ObservePacket ==
  LET time == packet.timestamp IN
  /\ pc = "observe"
  /\ \/ time \notin Timestamp /\ FailTo("abort", "EINVAL") /\ UNCHANGED <<schedule, mapVars>>
     \/ /\ time \in Timestamp /\ ObserveError(schedule, time) # "0"
        /\ FailTo("abort", ObserveError(schedule, time)) /\ UNCHANGED <<schedule, mapVars>>
     \/ /\ time \in Timestamp /\ ObserveError(schedule, time) = "0"
        /\ schedule' = flow_expiration_schedule_observe(schedule, time)
        /\ IF ~ScanDue(schedule, time) THEN Goto("process") /\ UNCHANGED mapVars
           ELSE /\ Expire(Cutoff(schedule, time), Capacity)
                /\ \/ result'.err = "0" /\ (Goto("expired_flow") \/ Fault("output", "abort"))
                   \/ result'.err # "0" /\ FailTo("abort", result'.err)
  /\ UNCHANGED <<signalVars, readVars, countVars, outputVars>>

(* A record without features has no row in the feature file. *)
Unwritable(sink, records) ==
  IF sink = "feature" THEN {r \in records : FeatureRowError(r) # "0"} ELSE {}

(* Records appended to one of the requested files.  A write that fails, or *)
(* a record that has no row, ends the run after some of the others.        *)
WriteRows(sink, records, step, next) ==
  LET unwritable == Unwritable(sink, records) IN
  /\ pc = step
  /\ \/ sink \notin config.csv /\ Goto(next) /\ UNCHANGED rows
     \/ /\ sink \in config.csv /\ unwritable = {}
        /\ rows' = [rows EXCEPT ![sink] = @ \o SetToSeq(records)]
        /\ Goto(next)
     \/ /\ sink \in config.csv
        /\ \E some \in SUBSET (records \ unwritable) :
             rows' = [rows EXCEPT ![sink] = @ \o SetToSeq(some)]
        /\ \/ Fault("write", "abort")
           \/ \E r \in unwritable : FailTo("abort", FeatureRowError(r))
  /\ UNCHANGED <<signalVars, readVars, schedule, packet_result, accepted, files, summary, mapVars>>

WriteExpiredFlow ==
  WriteRows("flow", result.out, "expired_flow", "expired_feature") /\ UNCHANGED totals

WriteExpiredFeature ==
  /\ WriteRows("feature", result.out, "expired_feature", "process")
  /\ IF pc' = "process" THEN Count("expired", Cardinality(result.out)) ELSE UNCHANGED totals

(* app_process_packet for a packet that is no complete IPv4 transport      *)
(* packet: it only gets a class.                                           *)
ClassifyPacket ==
  /\ packet.parse_status # "COMPLETE"
  /\ packet_result' = packet.parse_status
  /\ UNCHANGED <<accepted, mapVars>>
  /\ Goto("count") \/ Fault("output", "abort")

(* Seeded fault: a full table ends the run under either policy. *)
FullTableIsFatal ==
  /\ packet.parse_status = "COMPLETE"
  /\ Process(packet, config.evict)
  /\ \/ /\ result'.err = "0"
        /\ packet_result' = "COMPLETE"
        /\ accepted' = accepted \cup {Len(delivered)}
        /\ Goto(IF result'.out = {} THEN "count" ELSE "evicted")
     \/ /\ result'.err # "0" /\ FailTo("abort", result'.err)
        /\ UNCHANGED <<packet_result, accepted>>

(* app_process_packet for a complete packet: a full table rejects it or    *)
(* evicts for it, any other error of the table ends the run.               *)
TrackPacket ==
  /\ packet.parse_status = "COMPLETE"
  /\ Process(packet, config.evict)
  /\ \/ /\ result'.err = "0"
        /\ packet_result' = "COMPLETE"
        /\ accepted' = accepted \cup {Len(delivered)}
        /\ \/ result'.out = {} /\ Goto("count")
           \/ result'.out # {} /\ Goto("evicted")
           \/ Fault("output", "abort")
     \/ /\ result'.err = "ENOSPC" /\ ~config.evict
        /\ packet_result' = "FLOW_REJECTED" /\ UNCHANGED accepted
        /\ Goto("count") \/ Fault("output", "abort")
     \/ /\ result'.err # "0" /\ (result'.err = "ENOSPC" => config.evict)
        /\ FailTo("abort", result'.err)
        /\ UNCHANGED <<packet_result, accepted>>

ProcessPacket ==
  /\ pc = "process"
  /\ \/ /\ packet.timestamp \notin Timestamp
        /\ FailTo("abort", "EINVAL")
        /\ UNCHANGED <<packet_result, accepted, mapVars>>
     \/ packet.timestamp \in Timestamp /\ (ClassifyPacket \/ TrackPacket)
  /\ UNCHANGED <<signalVars, readVars, schedule, totals, outputVars>>

(* Seeded fault: the evicted record is printed but not written. *)
PrintEvictedOnly ==
  /\ pc = "evicted"
  /\ Goto("count")
  /\ Count("evicted", 1)
  /\ UNCHANGED <<signalVars, readVars, schedule, packet_result, accepted, outputVars, mapVars>>

(* The evicted record goes to the feature file only: with --csv, which is  *)
(* offline, nothing is evicted.                                            *)
WriteEvicted ==
  /\ WriteRows("feature", result.out, "evicted", "count")
  /\ IF pc' = "count" THEN Count("evicted", 1) ELSE UNCHANGED totals

CountResult ==
  /\ pc = "count"
  /\ Count(packet_result, 1)
  /\ \/ Goto("loop")
     \/ config.live /\ (Fault("clock", "abort") \/ Fault("output", "abort"))
  /\ UNCHANGED <<signalVars, readVars, schedule, packet_result, accepted, outputVars, mapVars>>

-----------------------------------------------------------------------------
(* The end of the run. *)

(* Seeded fault: the handler keeps sight of the capture. *)
KeepPublished ==
  /\ pc \in {"statistics", "abort"}
  /\ Goto(IF pc = "abort" THEN "abort_close" ELSE "close_capture")
  /\ UNCHANGED <<signalVars, readVars, schedule, countVars, outputVars, mapVars>>

(* libpcap's statistics, whose failure is only reported; then the handler  *)
(* loses sight of the capture, before it is closed.                        *)
UnpublishCapture ==
  /\ pc \in {"statistics", "abort"}
  /\ active_capture' = FALSE
  /\ Goto(IF pc = "abort" THEN "abort_close" ELSE "close_capture")
  /\ UNCHANGED <<handlers, stop_requested, handle, break_loop, readVars, schedule,
                 countVars, outputVars, mapVars>>

CloseCapture ==
  /\ pc = "close_capture"
  /\ handle' = "closed"
  /\ Goto("rest_flow")
  /\ UNCHANGED <<handlers, stop_requested, active_capture, break_loop, readVars, schedule,
                 countVars, outputVars, mapVars>>

(* Seeded fault: an error leaves the capture open. *)
AbortWithoutClose ==
  /\ pc = "abort_close"
  /\ Close
  /\ Goto("close_feature")
  /\ UNCHANGED <<signalVars, readVars, schedule, countVars, outputVars>>

(* Every error of the loop, or of the output after it, discards the table. *)
AbortRun ==
  /\ pc = "abort_close"
  /\ Close
  /\ handle' = "closed"
  /\ Goto("close_feature")
  /\ UNCHANGED <<handlers, stop_requested, active_capture, break_loop, readVars, schedule,
                 countVars, outputVars>>

Remaining == {flows[k] : k \in DOMAIN flows}

WriteRemainingFlow ==
  WriteRows("flow", Remaining, "rest_flow", "rest_feature") /\ UNCHANGED totals

WriteRemainingFeature ==
  WriteRows("feature", Remaining, "rest_feature", "summary") /\ UNCHANGED totals

PrintSummary ==
  /\ pc = "summary"
  /\ Close
  /\ \/ summary' = TRUE /\ Goto("close_feature")
     \/ UNCHANGED summary /\ Fault("output", "close_feature")
  /\ UNCHANGED <<signalVars, readVars, schedule, countVars, files, rows>>

(* A CSV file is closed whatever happened; the first error is the one      *)
(* returned.                                                               *)
CloseFile(sink, step, next) ==
  /\ pc = step
  /\ files' = [files EXCEPT ![sink] = IF @ = "open" THEN "closed" ELSE @]
  /\ \/ Goto(next)
     \/ files[sink] = "open" /\ error = "0" /\ (Fault("close", next) \/ Fault("output", next))
  /\ UNCHANGED <<signalVars, readVars, schedule, countVars, rows, summary, mapVars>>

CloseFeatureFile == CloseFile("feature", "close_feature", "close_flow")

CloseFlowFile == CloseFile("flow", "close_flow", "return")

(* Back in main(): the handlers are removed before the process exits. *)
Return ==
  /\ pc = "return"
  /\ handlers' = FALSE
  /\ Goto("exited")
  /\ UNCHANGED <<stop_requested, active_capture, handle, break_loop, readVars, schedule,
                 countVars, outputVars, mapVars>>

Thread ==
  \/ InstallHandlers \/ AppRun \/ CreateFlowFile \/ CreateFeatureFile
  \/ OpenCapture \/ InitTable \/ PublishCapture
  \/ LoopTop \/ ReadPacket \/ AfterRead \/ Poll
  \/ ObservePacket \/ WriteExpiredFlow \/ WriteExpiredFeature
  \/ ProcessPacket \/ WriteEvicted \/ CountResult
  \/ UnpublishCapture \/ CloseCapture \/ AbortRun
  \/ WriteRemainingFlow \/ WriteRemainingFeature \/ PrintSummary
  \/ CloseFeatureFile \/ CloseFlowFile \/ Return

Next == Thread \/ StopSignal

Spec == Init /\ [][Next]_vars

(* The thread is scheduled, poll() returns within a second and a file read *)
(* returns; no signal has to arrive.                                       *)
FairSpec == Spec /\ WF_vars(Thread)

-----------------------------------------------------------------------------
(* Properties. *)

Steps ==
  {"start", "app_run", "create_flow", "create_feature", "open", "init", "publish",
   "loop", "read", "after_read", "poll", "observe", "expired_flow", "expired_feature",
   "process", "evicted", "count", "statistics", "close_capture", "rest_flow",
   "rest_feature", "summary", "abort", "abort_close", "close_feature", "close_flow",
   "return", "exited"}

(* Every variable stays in its type. *)
TypeOK ==
  /\ config \in Configs /\ pc \in Steps
  /\ error \in {"0", "ECANCELED", "EINVAL", "EIO", "ERANGE", "ENOSPC", "EOVERFLOW", "ENOTSUP"}
  /\ {handlers, stop_requested, active_capture, break_loop, summary, faulted, open} \subseteq BOOLEAN
  /\ handle \in {"none", "open", "closed"}
  /\ read_status \in {"UNKNOWN", "PACKET", "END_OF_FILE", "EAGAIN", "EIO"}
  /\ packet \in Packets \cup {NoPacket}
  /\ totals \in [Totals -> Nat] /\ packet_result \in PacketResults
  /\ files \in [Sinks -> {"absent", "open", "closed"}]
  /\ rows \in [Sinks -> Seq(FlowRecords)]
  /\ delivered \in Seq(Packets) /\ accepted \subseteq DOMAIN delivered
  /\ \A k \in DOMAIN flows : flows[k] \in FlowRecords /\ flows[k].key = k

(* The signal handler never reaches a capture that is not open: it may run *)
(* between any two steps of opening and closing it.                        *)
HandlerSeesOpenCapture == active_capture => handle = "open"

Sent(r, d) == r.stats[d].packet_count

SentBy(records, k, d) ==
  SumFunctionOnSet([r \in records |-> Sent(r, d)], {r \in records : r.key = k})

SentInRows(sink, k, d) ==
  SumFunctionOnSet([i \in DOMAIN rows[sink] |-> Sent(rows[sink][i], d)],
                   {i \in DOMAIN rows[sink] : rows[sink][i].key = k})

SentByPackets(k, d) ==
  Cardinality({i \in accepted : KeyOf(delivered[i]) = k /\ DirectionOf(delivered[i]) = d})

(* Records that still have to reach a file: out of the table but not yet   *)
(* written, or in the table until the rest of it is written.               *)
Unwritten(sink) ==
  (IF pc \in {"expired_flow", "expired_feature", "evicted"} /\ ~(sink = "flow" /\ pc # "expired_flow")
   THEN result.out ELSE {})
  \cup (IF pc = "summary" \/ (sink = "flow" /\ pc = "rest_feature") THEN {} ELSE Remaining)

(* Every packet that was taken into a flow is in exactly one row of each   *)
(* requested file, or in one record still to be written, by expiry, by     *)
(* eviction or at the end; so a run that succeeds wrote them all.  A run   *)
(* that fails has lost some, but written none of them twice.               *)
EveryPacketInOneRow ==
  \A sink \in config.csv, k \in {KeyOf(delivered[i]) : i \in accepted}, d \in Directions :
    /\ error = "0" =>
         SentInRows(sink, k, d) + SentBy(Unwritten(sink), k, d) = SentByPackets(k, d)
    /\ SentInRows(sink, k, d) <= SentByPackets(k, d)

(* Between two packets every packet read is in exactly one class of the    *)
(* summary, except one: a packet read while the stop came, which is in     *)
(* none (see SummaryCountsEveryPacket); flows left the table as often as   *)
(* the summary says.                                                       *)
SummaryAddsUp ==
  error = "0" /\ pc \in {"loop", "read", "after_read", "poll", "statistics", "rest_flow", "exited"} =>
    /\ totals["packets"] = SumFunctionOnSet(totals, PacketResults)
    /\ totals["COMPLETE"] = Cardinality(accepted)
    /\ Len(delivered) - totals["packets"] \in
         IF stop_requested \/ pc = "after_read" THEN {0, 1} ELSE {0}
    /\ pc # "exited" /\ "feature" \in config.csv =>
         Len(rows["feature"]) = totals["expired"] + totals["evicted"]

(* README.md:378-380 and app.c:2726: Total packets is the number of        *)
(* packets that capture_next_packet delivered, and each of them ends in    *)
(* one class.                                                              *)
SummaryCountsEveryPacket ==
  summary => /\ totals["packets"] = Len(delivered)
             /\ SumFunctionOnSet(totals, PacketResults) = Len(delivered)

(* Whatever failed and wherever the stop came, the process leaves no       *)
(* capture, file, table or handler behind.                                 *)
NothingLeftOpen ==
  pc = "exited" =>
    /\ handle # "open" /\ ~active_capture /\ ~handlers /\ ~open
    /\ \A sink \in Sinks : files[sink] # "open"

(* Input a run need not survive: a time or the cutoff that follows from it *)
(* cannot be represented, a flow outgrows its counters, or, where features *)
(* are asked for, its span outgrows theirs or a packet claims more         *)
(* captured than sent bytes.                                               *)
UnusableInput ==
  LET seen == {delivered[i] : i \in accepted} \cup {packet}
      OfFlow(p) == {i \in DOMAIN delivered : KeyOf(delivered[i]) = KeyOf(p)}
      Sum(p, field) ==
        SumFunctionOnSet([i \in DOMAIN delivered |-> delivered[i][field]], OfFlow(p))
  IN  delivered # <<>> /\ \E p, q \in seen :
        \/ p.timestamp \notin Timestamp
        \/ p.timestamp.seconds < IntMin + IdleTimeout
        \/ Cardinality(OfFlow(p)) > CounterMax
        \/ Sum(p, "wire_length") > CounterMax \/ Sum(p, "captured_length") > CounterMax
        \/ "feature" \in config.csv /\ p.captured_length > p.wire_length
        \/ /\ "feature" \in config.csv /\ KeyOf(p) = KeyOf(q)
           /\ DurationMicroseconds(p.timestamp, q.timestamp) > DurationMax

(* The exit status is truthful: success means that the summary was printed *)
(* and the requested files are complete and closed, failure that a call    *)
(* failed, the command line was refused, the input was unusable or the     *)
(* stop came before the run began.  A scan never lacks room for the flows  *)
(* it removes.                                                             *)
ExitStatusIsTruthful ==
  pc = "exited" =>
    IF error = "0" THEN summary /\ \A sink \in config.csv : files[sink] = "closed"
    ELSE faulted \/ (error = "ECANCELED" /\ stop_requested) \/ UnusableInput

(* A stop request ends the run, and so does the end of a file. *)
RunEnds == (stop_requested \/ ~config.live) ~> pc = "exited"

InOrder ==
  \A i, j \in DOMAIN delivered :
    i < j => TimeAtOrBefore(delivered[i].timestamp, delivered[j].timestamp)

(* The flow whose record the step extends was silent that long before. *)
ExtendsAfter(seconds) ==
  /\ pc = "process"
  /\ \E k \in DOMAIN flows \cap DOMAIN flows' :
       /\ flows'[k] # flows[k]
       /\ TimeAtOrBefore(After(flows[k].last_seen, seconds), packet.timestamp)

(* With packets in order, a flow that was silent for the idle timeout and  *)
(* one scan interval is never continued: its next packet starts a record.  *)
SilentFlowHasEnded ==
  [][ExpirationEnabled /\ InOrder => ~ExtendsAfter(IdleTimeout + ScanInterval)]_vars

(* README.md:374: when the same five-tuple reappears after the idle time,  *)
(* its old record is output and removed before the packet starts a new one.*)
ReappearingFlowIsSplit ==
  [][ExpirationEnabled /\ InOrder => ~ExtendsAfter(IdleTimeout)]_vars

(* With packets in order and no eviction, a second record of a flow starts *)
(* only after the flow was silent for the idle timeout; without a timeout  *)
(* never.                                                                  *)
OneRecordPerBurst ==
  [][InOrder /\ ~config.evict /\ pc = "process" =>
       \A k \in DOMAIN flows' \ DOMAIN flows, i \in accepted :
         KeyOf(delivered[i]) = k =>
           /\ ExpirationEnabled
           /\ TimeAtOrBefore(After(delivered[i].timestamp, IdleTimeout), packet.timestamp)]_vars

=============================================================================
