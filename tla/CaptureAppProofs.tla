-------------------------- MODULE CaptureAppProofs --------------------------
(***************************************************************************)
(* One run of the analyzer, for every command line, every input and every  *)
(* pattern of failing calls, with the stop signal at any step.             *)
(***************************************************************************)
EXTENDS CaptureApp, ProofLemmas

Starting == {"start", "app_run", "create_flow", "create_feature", "open"}

(* The loop, with the capture published and the table in use. *)
Looping ==
  {"loop", "read", "after_read", "poll", "observe", "expired_flow", "expired_feature",
   "process", "evicted", "count", "statistics"}

(* The rest of the records is written from a closed capture. *)
Draining == {"rest_flow", "rest_feature", "summary"}

Aborting == {"abort", "abort_close"}

Closing == {"close_feature", "close_flow", "return", "exited"}

(* What holds of the capture, the table, the files and the handlers at     *)
(* each step of the thread.  An error met while the rest is written finds  *)
(* the capture closed already.                                             *)
CaptureInv ==
  /\ pc \in Steps
  /\ active_capture => pc \in Looping \cup {"abort"}
  /\ active_capture \/ pc \in Looping \cup {"init", "publish", "close_capture"} => handle = "open"
  /\ pc \in Starting \cup Draining \cup Closing => handle # "open"

TableInv == open <=> pc \in Looping \cup Draining \cup Aborting \cup {"publish", "close_capture"}

FilesInv ==
  /\ files \in [Sinks -> {"absent", "open", "closed"}]
  /\ pc \in {"start", "app_run", "create_flow"} => files["flow"] = "absent"
  /\ pc \in {"return", "exited"} => files["flow"] # "open"
  /\ pc \in {"start", "app_run", "create_flow", "create_feature"} => files["feature"] = "absent"
  /\ pc \in {"close_flow", "return", "exited"} => files["feature"] # "open"

HandlersInv == pc = "exited" => ~handlers

ControlInv == CaptureInv /\ TableInv /\ FilesInv /\ HandlersInv


-----------------------------------------------------------------------------
(* The shapes of the steps. *)

(* What a write of rows may do, whichever of the six it is. *)
LEMMA WriteRowsSteps ==
  ASSUME NEW sink, NEW records, NEW step, NEW next, WriteRows(sink, records, step, next)
  PROVE  /\ pc = step
         /\ UNCHANGED <<config, handlers, stop_requested, active_capture, handle, break_loop>>
         /\ UNCHANGED <<read_status, packet, delivered, schedule, packet_result, accepted>>
         /\ UNCHANGED <<files, summary, flows, open, result>>
         /\ \/ /\ pc' = next /\ UNCHANGED <<error, faulted>>
               /\ \/ sink \notin config.csv /\ UNCHANGED rows
                  \/ /\ sink \in config.csv /\ Unwritable(sink, records) = {}
                     /\ rows' = [rows EXCEPT ![sink] = @ \o SetToSeq(records)]
            \/ /\ pc' = "abort" /\ error' # "0"
               /\ sink \in config.csv
               /\ \/ error' = "EIO" /\ faulted' = TRUE
                  \/ /\ UNCHANGED faulted
                     /\ \E r \in Unwritable(sink, records) : error' = FeatureRowError(r)
               /\ \E some \in SUBSET records :
                    rows' = [rows EXCEPT ![sink] = @ \o SetToSeq(some)]
<1>1. /\ pc = step
      /\ UNCHANGED <<config, handlers, stop_requested, active_capture, handle, break_loop>>
      /\ UNCHANGED <<read_status, packet, delivered, schedule, packet_result, accepted>>
      /\ UNCHANGED <<files, summary, flows, open, result>>
  BY DEF WriteRows, Goto, FailTo, Fault, signalVars, readVars, mapVars
<1> DEFINE unwritable == Unwritable(sink, records)
<1>2. \A r \in unwritable : FeatureRowError(r) # "0"
  BY DEF Unwritable
<1> HIDE DEF unwritable
<1>3. CASE sink \notin config.csv /\ Goto(next) /\ UNCHANGED rows
  BY <1>1, <1>3 DEF Goto
<1>4. CASE /\ sink \in config.csv /\ unwritable = {}
           /\ rows' = [rows EXCEPT ![sink] = @ \o SetToSeq(records)]
           /\ Goto(next)
  BY <1>1, <1>4 DEF Goto, unwritable
<1>5. ASSUME sink \in config.csv, NEW some \in SUBSET (records \ unwritable),
             rows' = [rows EXCEPT ![sink] = @ \o SetToSeq(some)],
             Fault("write", "abort") \/ \E r \in unwritable : FailTo("abort", FeatureRowError(r))
      PROVE  /\ pc' = "abort" /\ error' # "0"
             /\ \/ error' = "EIO" /\ faulted' = TRUE
                \/ UNCHANGED faulted /\ \E r \in unwritable : error' = FeatureRowError(r)
             /\ some \in SUBSET records
  BY <1>2, <1>5 DEF FailTo, Fault
<1> QED BY <1>1, <1>3, <1>4, <1>5 DEF WriteRows, unwritable

LEMMA CreateFileSteps ==
  ASSUME NEW sink, NEW step, NEW next, NEW undo, NEW outer, CreateFile(sink, step, next, undo, outer)
  PROVE  /\ pc = step
         /\ UNCHANGED <<config, handlers, stop_requested, active_capture, handle, break_loop>>
         /\ UNCHANGED <<read_status, packet, delivered, schedule, totals, packet_result, accepted>>
         /\ UNCHANGED <<rows, summary, flows, open, result>>
         /\ \/ /\ pc' = next /\ UNCHANGED <<error, faulted>>
               /\ files' = IF sink \in config.csv THEN [files EXCEPT ![sink] = "open"] ELSE files
            \/ /\ sink \in config.csv
               /\ pc' = outer /\ error' = "EIO" /\ faulted' = TRUE /\ UNCHANGED files
            \/ /\ sink \in config.csv
               /\ pc' = undo /\ error' = "EIO" /\ faulted' = TRUE
               /\ files' = [files EXCEPT ![sink] = "open"]
BY DEF CreateFile, Goto, Fault, signalVars, readVars, countVars, mapVars

LEMMA CloseFileSteps ==
  ASSUME NEW sink, NEW step, NEW next, CloseFile(sink, step, next)
  PROVE  /\ pc = step /\ pc' = next
         /\ UNCHANGED <<config, handlers, stop_requested, active_capture, handle, break_loop>>
         /\ UNCHANGED <<read_status, packet, delivered, schedule, totals, packet_result, accepted>>
         /\ UNCHANGED <<rows, summary, flows, open, result>>
         /\ files' = [files EXCEPT ![sink] = IF @ = "open" THEN "closed" ELSE @]
         /\ UNCHANGED <<error, faulted>> \/ (error' = "EIO" /\ faulted' = TRUE)
<1>1. files' = [files EXCEPT ![sink] = IF @ = "open" THEN "closed" ELSE @]
  BY Zenon DEF CloseFile
<1>2. /\ pc = step
      /\ UNCHANGED <<handlers, stop_requested, active_capture, handle, break_loop>>
      /\ UNCHANGED <<read_status, packet, delivered, schedule, totals, packet_result, accepted>>
      /\ UNCHANGED <<rows, summary, flows, open, result>>
  BY DEF CloseFile, signalVars, readVars, countVars, mapVars
<1>3. Goto(next) \/ Fault("close", next) \/ Fault("output", next)
  BY DEF CloseFile
<1>4. /\ UNCHANGED config /\ pc' = next
      /\ UNCHANGED <<error, faulted>> \/ (error' = "EIO" /\ faulted' = TRUE)
  BY <1>3 DEF Goto, Fault
<1> QED BY <1>1, <1>2, <1>4

(* The six writes of rows as steps of the thread. *)
WritesRows ==
  \/ WriteExpiredFlow \/ WriteExpiredFeature \/ WriteEvicted
  \/ WriteRemainingFlow \/ WriteRemainingFeature

LEMMA RowsMoves ==
  ASSUME WritesRows
  PROVE  /\ UNCHANGED <<config, handlers, stop_requested, active_capture, handle, break_loop>>
         /\ UNCHANGED <<read_status, packet, delivered, schedule, packet_result, accepted>>
         /\ UNCHANGED <<files, summary, flows, open, result>>
         /\ pc' # "abort" => UNCHANGED error
         /\ pc' = "abort" => error' # "0"
         /\ \/ pc = "expired_flow" /\ pc' \in {"expired_feature", "abort"}
            \/ pc = "expired_feature" /\ pc' \in {"process", "abort"}
            \/ pc = "evicted" /\ pc' \in {"count", "abort"}
            \/ pc = "rest_flow" /\ pc' \in {"rest_feature", "abort"}
            \/ pc = "rest_feature" /\ pc' \in {"summary", "abort"}
<1> DEFINE Moved(step, next) ==
      /\ UNCHANGED <<config, handlers, stop_requested, active_capture, handle, break_loop>>
      /\ UNCHANGED <<read_status, packet, delivered, schedule, packet_result, accepted>>
      /\ UNCHANGED <<files, summary, flows, open, result>>
      /\ pc = step
      /\ (pc' = next /\ UNCHANGED error) \/ (pc' = "abort" /\ error' # "0")
<1>1. ASSUME NEW sink, NEW records, NEW step, NEW next, WriteRows(sink, records, step, next)
      PROVE  Moved(step, next)
  BY <1>1, WriteRowsSteps
<1> HIDE DEF Moved
<1>2. \/ Moved("expired_flow", "expired_feature") \/ Moved("expired_feature", "process")
      \/ Moved("evicted", "count")
      \/ Moved("rest_flow", "rest_feature") \/ Moved("rest_feature", "summary")
  BY <1>1 DEF WritesRows, WriteExpiredFlow, WriteExpiredFeature, WriteEvicted,
              WriteRemainingFlow, WriteRemainingFeature
<1> QED BY <1>2 DEF Moved

(* The steps that create or close a file, apart from what becomes of it.   *)
HandlesFiles == CreateFlowFile \/ CreateFeatureFile \/ CloseFeatureFile \/ CloseFlowFile

LEMMA FileMoves ==
  ASSUME HandlesFiles
  PROVE  /\ UNCHANGED <<config, handlers, stop_requested, active_capture, handle, break_loop>>
         /\ UNCHANGED <<read_status, packet, delivered, schedule, totals, packet_result, accepted>>
         /\ UNCHANGED <<rows, summary, flows, open, result>>
         /\ \/ pc = "create_flow" /\ pc' \in {"create_feature", "return", "close_flow"}
            \/ pc = "create_feature" /\ pc' \in {"open", "close_flow", "close_feature"}
            \/ pc = "close_feature" /\ pc' = "close_flow"
            \/ pc = "close_flow" /\ pc' = "return"
         /\ UNCHANGED <<error, faulted>> \/ (error' = "EIO" /\ faulted' = TRUE)
<1> DEFINE Moved(step, nexts) ==
      /\ UNCHANGED <<config, handlers, stop_requested, active_capture, handle, break_loop>>
      /\ UNCHANGED <<read_status, packet, delivered, schedule, totals, packet_result, accepted>>
      /\ UNCHANGED <<rows, summary, flows, open, result>>
      /\ pc = step /\ pc' \in nexts
      /\ UNCHANGED <<error, faulted>> \/ (error' = "EIO" /\ faulted' = TRUE)
<1>1. ASSUME NEW sink, NEW step, NEW next, NEW undo, NEW outer,
             CreateFile(sink, step, next, undo, outer)
      PROVE  Moved(step, {next, outer, undo})
  BY <1>1, CreateFileSteps
<1>2. ASSUME NEW sink, NEW step, NEW next, CloseFile(sink, step, next)
      PROVE  Moved(step, {next})
  BY <1>2, CloseFileSteps
<1> HIDE DEF Moved
<1>3. \/ Moved("create_flow", {"create_feature", "return", "close_flow"})
      \/ Moved("create_feature", {"open", "close_flow", "close_feature"})
      \/ Moved("close_feature", {"close_flow"}) \/ Moved("close_flow", {"return"})
  BY <1>1, <1>2 DEF HandlesFiles, CreateFlowFile, CreateFeatureFile, CloseFeatureFile, CloseFlowFile
<1> QED BY <1>3 DEF Moved

LEMMA ControlInit == Init => ControlInv
BY DEF Init, MapInit, ControlInv, CaptureInv, TableInv, FilesInv, HandlersInv, Steps, Starting,
       Looping, Draining, Aborting, Closing, Sinks

LEMMA CaptureKept == CaptureInv /\ [Next]_vars => CaptureInv'
<1> SUFFICES ASSUME CaptureInv, [Next]_vars PROVE CaptureInv'
  OBVIOUS
<1> USE DEF CaptureInv, Steps, Starting, Looping, Draining, Closing
<1>1. CASE InstallHandlers \/ AppRun \/ OpenCapture \/ InitTable \/ PublishCapture
  BY <1>1 DEF InstallHandlers, AppRun, OpenCapture, InitTable, PublishCapture,
              Goto, FailTo, Fault, signalVars
<1>2. CASE HandlesFiles
  BY <1>2, FileMoves
<1>3. CASE LoopTop \/ ReadPacket \/ AfterRead \/ Poll
  BY <1>3 DEF LoopTop, ReadPacket, AfterRead, Poll, Goto, Fault, signalVars
<1>4. CASE ObservePacket \/ ProcessPacket \/ CountResult
  BY <1>4 DEF ObservePacket, ProcessPacket, ClassifyPacket, TrackPacket, CountResult,
              Goto, FailTo, Fault, signalVars
<1>5. CASE WritesRows
  BY <1>5, RowsMoves
<1>6. CASE CloseCapture \/ AbortRun \/ PrintSummary \/ Return
  BY <1>6 DEF CloseCapture, AbortRun, PrintSummary, Return, Goto, Fault, signalVars
<1>8. CASE UnpublishCapture
  BY <1>8 DEF UnpublishCapture, Goto
<1>7. CASE StopSignal \/ UNCHANGED vars
  BY <1>7 DEF StopSignal, vars, signalVars
<1> QED BY <1>1, <1>2, <1>3, <1>4, <1>5, <1>6, <1>7, <1>8 DEF Next, Thread, HandlesFiles, WritesRows

-----------------------------------------------------------------------------
(* The capture, the table, the files and the handlers. *)

(* No call but Open and Close takes the table into or out of use. *)
LEMMA CallsKeepOpen ==
  /\ \A p, evict : Process(p, evict) => UNCHANGED open
  /\ \A cutoff, size : Expire(cutoff, size) => UNCHANGED open
BY DEF Process, Update, Create, Expire, Refuse

LEMMA TableKept == CaptureInv /\ TableInv /\ [Next]_vars => TableInv'
<1> SUFFICES ASSUME CaptureInv, TableInv, [Next]_vars PROVE TableInv'
  OBVIOUS
<1> USE DEF CaptureInv, TableInv, Steps, Looping, Draining, Aborting
<1>1. CASE InstallHandlers \/ AppRun \/ OpenCapture \/ PublishCapture
  BY <1>1 DEF InstallHandlers, AppRun, OpenCapture, PublishCapture,
              Goto, FailTo, Fault, mapVars
<1>2. CASE InitTable \/ AbortRun \/ PrintSummary
  BY <1>2 DEF InitTable, AbortRun, PrintSummary, Open, Close, Goto, Fault
<1>3. CASE HandlesFiles
  BY <1>3, FileMoves
<1>4. CASE LoopTop \/ ReadPacket \/ AfterRead \/ Poll
  BY <1>4 DEF LoopTop, ReadPacket, AfterRead, Poll, Goto, Fault, mapVars
<1>5. CASE ObservePacket \/ ProcessPacket \/ CountResult
  <2>1. UNCHANGED open
    BY <1>5, CallsKeepOpen
       DEF ObservePacket, ProcessPacket, ClassifyPacket, TrackPacket, CountResult, mapVars
  <2>2. /\ pc \in {"observe", "process", "count"}
        /\ pc' \in {"process", "expired_flow", "evicted", "count", "loop", "abort"}
    BY <1>5 DEF ObservePacket, ProcessPacket, ClassifyPacket, TrackPacket, CountResult,
                Goto, FailTo, Fault
  <2> QED BY <2>1, <2>2
<1>6. CASE WritesRows
  BY <1>6, RowsMoves
<1>7. CASE UnpublishCapture \/ CloseCapture \/ Return
  BY <1>7 DEF UnpublishCapture, CloseCapture, Return, Goto, mapVars
<1>8. CASE StopSignal \/ UNCHANGED vars
  BY <1>8 DEF StopSignal, vars, mapVars
<1> QED BY <1>1, <1>2, <1>3, <1>4, <1>5, <1>6, <1>7, <1>8
        DEF Next, Thread, HandlesFiles, WritesRows

LEMMA FilesKept == CaptureInv /\ FilesInv /\ [Next]_vars => FilesInv'
<1> SUFFICES ASSUME CaptureInv, FilesInv, [Next]_vars PROVE FilesInv'
  OBVIOUS
<1> USE DEF CaptureInv, FilesInv, Steps, Sinks
<1>1. CASE InstallHandlers \/ AppRun \/ OpenCapture \/ InitTable \/ PublishCapture
  BY <1>1 DEF InstallHandlers, AppRun, OpenCapture, InitTable, PublishCapture,
              Goto, FailTo, Fault, outputVars
<1>2. CASE LoopTop \/ ReadPacket \/ AfterRead \/ Poll
  BY <1>2 DEF LoopTop, ReadPacket, AfterRead, Poll, Goto, Fault, outputVars
<1>3. CASE ObservePacket \/ ProcessPacket \/ CountResult
  BY <1>3 DEF ObservePacket, ProcessPacket, ClassifyPacket, TrackPacket, CountResult,
              Goto, FailTo, Fault, outputVars
<1>4. CASE WritesRows
  BY <1>4, RowsMoves
<1>5. CASE UnpublishCapture \/ CloseCapture \/ AbortRun \/ PrintSummary \/ Return
  <2>1. UNCHANGED files
    BY <1>5 DEF UnpublishCapture, CloseCapture, AbortRun, PrintSummary, Return, outputVars
  <2>2. /\ pc \notin Starting \cup {"close_flow", "exited"}
        /\ pc' \notin {"start", "app_run", "create_flow", "create_feature", "close_flow"}
        /\ pc' \in {"return", "exited"} => pc = "return"
    BY <1>5 DEF UnpublishCapture, CloseCapture, AbortRun, PrintSummary, Return, Goto, Fault,
                Starting
  <2> QED BY <2>1, <2>2
<1>6. CASE CreateFlowFile
  <2>1. /\ pc = "create_flow"
        /\ \/ pc' = "create_feature"
              /\ files' = IF "flow" \in config.csv THEN [files EXCEPT !["flow"] = "open"] ELSE files
           \/ pc' = "return" /\ UNCHANGED files
           \/ pc' = "close_flow" /\ files' = [files EXCEPT !["flow"] = "open"]
    <3>1. CreateFile("flow", "create_flow", "create_feature", "close_flow", "return")
      BY <1>6 DEF CreateFlowFile
    <3> HIDE DEF Sinks, Steps, FilesInv, CaptureInv
    <3> QED BY <3>1, CreateFileSteps, Zenon
  <2> QED BY <2>1
<1>7. CASE CreateFeatureFile
  <2>1. /\ pc = "create_feature"
        /\ \/ pc' = "open"
              /\ files' = IF "feature" \in config.csv
                          THEN [files EXCEPT !["feature"] = "open"] ELSE files
           \/ pc' = "close_flow" /\ UNCHANGED files
           \/ pc' = "close_feature" /\ files' = [files EXCEPT !["feature"] = "open"]
    <3>1. CreateFile("feature", "create_feature", "open", "close_feature", "close_flow")
      BY <1>7 DEF CreateFeatureFile
    <3> HIDE DEF Sinks, Steps, FilesInv, CaptureInv
    <3> QED BY <3>1, CreateFileSteps, Zenon
  <2> QED BY <2>1
<1>8. CASE CloseFeatureFile
  <2>1. /\ pc = "close_feature" /\ pc' = "close_flow"
        /\ files' = [files EXCEPT !["feature"] = IF @ = "open" THEN "closed" ELSE @]
    BY <1>8, CloseFileSteps DEF CloseFeatureFile
  <2> QED BY <2>1
<1>9. CASE CloseFlowFile
  <2>1. /\ pc = "close_flow" /\ pc' = "return"
        /\ files' = [files EXCEPT !["flow"] = IF @ = "open" THEN "closed" ELSE @]
    BY <1>9, CloseFileSteps DEF CloseFlowFile
  <2> QED BY <2>1
<1>10. CASE StopSignal \/ UNCHANGED vars
  BY <1>10 DEF StopSignal, vars, outputVars
<1> QED BY <1>1, <1>2, <1>3, <1>4, <1>5, <1>6, <1>7, <1>8, <1>9, <1>10
        DEF Next, Thread, WritesRows

LEMMA HandlersKept == HandlersInv /\ [Next]_vars => HandlersInv'
<1> SUFFICES ASSUME HandlersInv, [Next]_vars PROVE HandlersInv'
  OBVIOUS
<1>1. CASE pc' # "exited"
  BY <1>1 DEF HandlersInv
<1>2. CASE pc' = "exited"
  <2>1. ~HandlesFiles /\ ~WritesRows
    BY <1>2, FileMoves, RowsMoves
  <2>2. Return \/ StopSignal \/ UNCHANGED vars
    BY <1>2, <2>1
       DEF Next, Thread, HandlesFiles, WritesRows, InstallHandlers, AppRun, OpenCapture, InitTable,
           PublishCapture, LoopTop, ReadPacket, AfterRead, Poll, ObservePacket, ProcessPacket,
           ClassifyPacket, TrackPacket, CountResult, UnpublishCapture, CloseCapture, AbortRun,
           PrintSummary, Goto, FailTo, Fault
  <2> QED BY <1>2, <2>2 DEF Return, StopSignal, vars, signalVars, HandlersInv
<1> QED BY <1>1, <1>2

(* At each step the capture, the table, the files and the handlers are as  *)
(* the program assumes.                                                    *)
THEOREM ControlInvariance == Spec => []ControlInv
<1>1. ControlInv /\ [Next]_vars => ControlInv'
  BY CaptureKept, TableKept, FilesKept, HandlersKept DEF ControlInv
<1> QED BY ControlInit, <1>1, PTL DEF Spec

(* The signal handler, at whatever step it runs, breaks the loop of an     *)
(* open capture or of none.                                                *)
THEOREM HandlerCorrect == Spec => []HandlerSeesOpenCapture
<1>1. ControlInv => HandlerSeesOpenCapture
  BY DEF ControlInv, CaptureInv, HandlerSeesOpenCapture
<1> QED BY <1>1, ControlInvariance, PTL

(* No failure and no stop leaves a capture, a file, the table or a handler *)
(* behind.                                                                 *)
THEOREM ClosedCorrect == Spec => []NothingLeftOpen
<1>1. ControlInv => NothingLeftOpen
  BY DEF ControlInv, CaptureInv, TableInv, FilesInv, HandlersInv, NothingLeftOpen, Looping,
         Draining, Aborting, Closing, Sinks
<1> QED BY <1>1, ControlInvariance, PTL

-----------------------------------------------------------------------------
(* The flow table of the run. *)

MapErrors == {"0", "EINVAL", "ENOENT", "ENOSPC", "ENOTSUP", "EOVERFLOW"}

(* A finite map of records, each under its own key. *)
IsTable(f) ==
  /\ f = [k \in DOMAIN f |-> f[k]]
  /\ IsFiniteSet(DOMAIN f)
  /\ \A k \in DOMAIN f : f[k] \in FlowRecords /\ f[k].key = k

(* The table holds at most Capacity records, and the last call took no     *)
(* other than records out of it.                                           *)
TableTypes ==
  /\ IsTable(flows) /\ Cardinality(DOMAIN flows) <= Capacity
  /\ result.err \in MapErrors
  /\ result.out \subseteq FlowRecords /\ IsFiniteSet(result.out)

LEMMA EmptyTable ==
  ASSUME Open \/ Close
  PROVE  TableTypes'
<1>1. DOMAIN NoFlows = {} /\ NoFlows = [k \in DOMAIN NoFlows |-> NoFlows[k]]
  BY DEF NoFlows
<1>2. IsFiniteSet({}) /\ Cardinality({}) = 0
  BY FS_EmptySet
<1>3. flows' = NoFlows /\ result'.err = "0" /\ result'.out = {}
  BY DEF Open, Close, Returns
<1> HIDE DEF NoFlows
<1> QED BY <1>1, <1>2, <1>3, CapacityAssumption DEF TableTypes, MapErrors, IsTable

LEMMA RefusedCall ==
  ASSUME TableTypes, NEW err \in MapErrors, Refuse(err)
  PROVE  TableTypes' /\ UNCHANGED flows /\ result'.err = err /\ result'.out = {}
<1>1. UNCHANGED flows /\ result'.err = err /\ result'.out = {}
  BY DEF Refuse, Returns
<1>2. IsFiniteSet({})
  BY FS_EmptySet
<1> QED BY <1>1, <1>2 DEF TableTypes

(* Records put into a table and taken out of it. *)
LEMMA WithRecord ==
  ASSUME NEW f, IsTable(f), NEW r \in FlowRecords
  PROVE  /\ IsTable(With(f, r))
         /\ DOMAIN With(f, r) = DOMAIN f \cup {r.key}
         /\ With(f, r)[r.key] = r
         /\ \A k \in DOMAIN f \ {r.key} : With(f, r)[k] = f[k]
         /\ Cardinality(DOMAIN With(f, r)) =
              IF r.key \in DOMAIN f THEN Cardinality(DOMAIN f) ELSE Cardinality(DOMAIN f) + 1
<1>1. DOMAIN With(f, r) = DOMAIN f \cup {r.key}
  BY DEF With
<1>2. /\ IsFiniteSet(DOMAIN f \cup {r.key})
      /\ Cardinality(DOMAIN f \cup {r.key}) =
           IF r.key \in DOMAIN f THEN Cardinality(DOMAIN f) ELSE Cardinality(DOMAIN f) + 1
  <2> DEFINE D == DOMAIN f
             x == r.key
  <2>1. IsFiniteSet(D)
    BY DEF IsTable
  <2> HIDE DEF D, x
  <2>2. /\ IsFiniteSet(D \cup {x})
        /\ Cardinality(D \cup {x}) = IF x \in D THEN Cardinality(D) ELSE Cardinality(D) + 1
    BY <2>1, FS_AddElement
  <2> QED BY <2>2 DEF D, x
<1> QED BY <1>1, <1>2 DEF With, IsTable

LEMMA WithoutRecords ==
  ASSUME NEW f, IsTable(f), NEW K
  PROVE  /\ IsTable(Without(f, K))
         /\ DOMAIN Without(f, K) = DOMAIN f \ K
         /\ \A k \in DOMAIN f \ K : Without(f, K)[k] = f[k]
         /\ Cardinality(DOMAIN Without(f, K)) <= Cardinality(DOMAIN f)
<1>1. DOMAIN Without(f, K) = DOMAIN f \ K
  BY DEF Without
<1>2. IsFiniteSet(DOMAIN f \ K) /\ Cardinality(DOMAIN f \ K) <= Cardinality(DOMAIN f)
  BY FS_Subset DEF IsTable
<1> QED BY <1>1, <1>2 DEF Without, IsTable

LEMMA WithoutOne ==
  ASSUME NEW f, IsTable(f), NEW k \in DOMAIN f
  PROVE  Cardinality(DOMAIN Without(f, {k})) = Cardinality(DOMAIN f) - 1
<1>1. Cardinality(DOMAIN f \ {k}) = Cardinality(DOMAIN f) - 1
  <2> DEFINE D == DOMAIN f
  <2>1. IsFiniteSet(D) /\ k \in D
    BY DEF IsTable
  <2> HIDE DEF D
  <2>2. Cardinality(D \ {k}) = Cardinality(D) - 1
    BY <2>1, FS_RemoveElement
  <2> QED BY <2>2 DEF D
<1>2. DOMAIN Without(f, {k}) = DOMAIN f \ {k}
  BY DEF Without
<1> QED BY <1>1, <1>2

(* The errors of the flow table and the records. *)
LEMMA RecordErrors ==
  ASSUME NEW p
  PROVE  /\ KeyError(p) \in MapErrors
         /\ RecordInitError(p) \in MapErrors
         /\ \A r : RecordUpdateError(r, p) \in MapErrors
<1>1. KeyError(p) \in MapErrors
  BY DEF KeyError, MapErrors
<1> QED BY <1>1 DEF RecordInitError, RecordUpdateError, MapErrors

(* The four ways a packet can go through the table. *)
LEMMA ProcessOutcomes ==
  ASSUME NEW p, NEW evict, Process(p, evict)
  PROVE  \/ /\ UNCHANGED flows /\ result'.out = {} /\ result'.err \in MapErrors \ {"0"}
            /\ \/ ~open /\ result'.err = "EINVAL"
               \/ KeyError(p) # "0" /\ result'.err = KeyError(p)
               \/ /\ KeyOf(p) \in DOMAIN flows
                  /\ result'.err = RecordUpdateError(flows[KeyOf(p)], p)
               \/ KeyOf(p) \notin DOMAIN flows /\ result'.err = RecordInitError(p)
               \/ result'.err = "ENOSPC" /\ ~evict
         \/ /\ KeyError(p) = "0" /\ KeyOf(p) \in DOMAIN flows
            /\ RecordUpdateError(flows[KeyOf(p)], p) = "0"
            /\ flows' = With(flows, flow_record_update(flows[KeyOf(p)], p))
            /\ result'.err = "0" /\ result'.out = {}
         \/ /\ KeyOf(p) \notin DOMAIN flows /\ RecordInitError(p) = "0"
            /\ Cardinality(DOMAIN flows) # Capacity
            /\ flows' = With(flows, flow_record_init(p))
            /\ result'.err = "0" /\ result'.out = {}
         \/ /\ evict /\ KeyOf(p) \notin DOMAIN flows /\ RecordInitError(p) = "0"
            /\ \E k \in DOMAIN flows :
                 /\ IsOldest(k)
                 /\ flows' = With(Without(flows, {k}), flow_record_init(p))
                 /\ result'.err = "0" /\ result'.out = {flows[k]}
<1> USE RecordErrors
<1>1. CASE ~open /\ Refuse("EINVAL")
  BY <1>1 DEF Refuse, Returns, MapErrors
<1>2. CASE KeyError(p) # "0" /\ Refuse(KeyError(p))
  BY <1>2 DEF Refuse, Returns
<1>3. CASE KeyError(p) = "0" /\ Update(p)
  BY <1>3 DEF Update, Refuse, Returns
<1>4. CASE Create(p, evict)
  <2>1. CASE ~evict /\ Refuse("ENOSPC")
    BY <2>1 DEF Refuse, Returns, MapErrors
  <2>2. CASE RecordInitError(p) # "0" /\ Refuse(RecordInitError(p))
    BY <1>4, <2>2 DEF Create, Refuse, Returns
  <2>3. CASE /\ Cardinality(DOMAIN flows) # Capacity /\ RecordInitError(p) = "0"
             /\ flows' = With(flows, flow_record_init(p))
             /\ Returns("0", TRUE, {})
    BY <1>4, <2>3 DEF Create, Returns
  <2>4. ASSUME evict, RecordInitError(p) = "0", NEW k \in DOMAIN flows, IsOldest(k),
               flows' = With(Without(flows, {k}), flow_record_init(p)),
               Returns("0", TRUE, {flows[k]})
        PROVE  /\ evict /\ KeyOf(p) \notin DOMAIN flows /\ RecordInitError(p) = "0"
               /\ \E j \in DOMAIN flows :
                    /\ IsOldest(j)
                    /\ flows' = With(Without(flows, {j}), flow_record_init(p))
                    /\ result'.err = "0" /\ result'.out = {flows[j]}
    <3>1. result'.err = "0" /\ result'.out = {flows[k]}
      BY <2>4 DEF Returns
    <3>2. KeyOf(p) \notin DOMAIN flows
      BY <1>4 DEF Create
    <3> QED BY <2>4, <3>1, <3>2, Zenon
  <2> QED BY <1>4, <2>1, <2>2, <2>3, <2>4 DEF Create
<1> QED BY <1>1, <1>2, <1>3, <1>4 DEF Process

LEMMA ProcessKeepsTypes ==
  ASSUME TableTypes, NEW p \in PacketInfo, NEW evict, Process(p, evict)
  PROVE  TableTypes'
<1> DEFINE n == Cardinality(DOMAIN flows)
<1>0. /\ IsTable(flows) /\ n <= Capacity
      /\ \A k \in DOMAIN flows : flows[k] \in FlowRecords /\ flows[k].key = k
  BY DEF TableTypes, IsTable
<1>1. n \in Nat /\ IsFiniteSet({}) /\ "0" \in MapErrors
  BY <1>0, FS_CardinalityType, FS_EmptySet DEF MapErrors, IsTable
<1>2. CASE UNCHANGED flows /\ result'.out = {} /\ result'.err \in MapErrors
  BY <1>0, <1>1, <1>2 DEF TableTypes
<1>3. CASE /\ KeyOf(p) \in DOMAIN flows
           /\ RecordUpdateError(flows[KeyOf(p)], p) = "0"
           /\ flows' = With(flows, flow_record_update(flows[KeyOf(p)], p))
           /\ result'.err = "0" /\ result'.out = {}
  <2> DEFINE r == flow_record_update(flows[KeyOf(p)], p)
  <2>1. r \in FlowRecords /\ r.key = KeyOf(p)
    BY <1>0, <1>3, RecordUpdateType
  <2>4. flows' = With(flows, r)
    BY <1>3
  <2> HIDE DEF r
  <2>5. /\ IsTable(With(flows, r))
        /\ Cardinality(DOMAIN With(flows, r)) = IF r.key \in DOMAIN flows THEN n ELSE n + 1
    BY <1>0, <2>1, WithRecord
  <2>2. IsTable(flows') /\ Cardinality(DOMAIN flows') = n
    BY <1>3, <2>1, <2>4, <2>5
  <2> QED BY <1>0, <1>1, <1>3, <2>2 DEF TableTypes
<1>4. CASE /\ KeyOf(p) \notin DOMAIN flows /\ RecordInitError(p) = "0"
           /\ Cardinality(DOMAIN flows) # Capacity
           /\ flows' = With(flows, flow_record_init(p))
           /\ result'.err = "0" /\ result'.out = {}
  <2> DEFINE r == flow_record_init(p)
  <2>1. r \in FlowRecords /\ r.key = KeyOf(p)
    BY <1>4, RecordInitType
  <2>4. flows' = With(flows, r)
    BY <1>4
  <2> HIDE DEF r
  <2>5. /\ IsTable(With(flows, r))
        /\ Cardinality(DOMAIN With(flows, r)) = IF r.key \in DOMAIN flows THEN n ELSE n + 1
    BY <1>0, <2>1, WithRecord
  <2>2. IsTable(flows') /\ Cardinality(DOMAIN flows') = n + 1
    BY <1>4, <2>1, <2>4, <2>5
  <2>3. n + 1 <= Capacity
    BY <1>0, <1>1, <1>4, CapacityAssumption
  <2> QED BY <1>1, <1>4, <2>2, <2>3 DEF TableTypes
<1>5. CASE /\ KeyOf(p) \notin DOMAIN flows /\ RecordInitError(p) = "0"
           /\ \E k \in DOMAIN flows :
                /\ flows' = With(Without(flows, {k}), flow_record_init(p))
                /\ result'.err = "0" /\ result'.out = {flows[k]}
  <2> DEFINE r == flow_record_init(p)
  <2>1. r \in FlowRecords /\ r.key = KeyOf(p)
    BY <1>5, RecordInitType
  <2> HIDE DEF r
  <2>2. PICK k \in DOMAIN flows : /\ flows' = With(Without(flows, {k}), r)
                                  /\ result'.err = "0" /\ result'.out = {flows[k]}
    BY <1>5 DEF r
  <2> DEFINE rest == Without(flows, {k})
  <2>3. IsTable(rest) /\ DOMAIN rest = DOMAIN flows \ {k} /\ Cardinality(DOMAIN rest) = n - 1
    BY <1>0, WithoutRecords, WithoutOne
  <2>6. flows' = With(rest, r) /\ r.key \notin DOMAIN rest
    BY <2>1, <2>2, <2>3, <1>5
  <2> HIDE DEF rest
  <2>4. IsTable(flows') /\ Cardinality(DOMAIN flows') = n - 1 + 1
    <3>1. /\ IsTable(With(rest, r))
          /\ Cardinality(DOMAIN With(rest, r)) =
               IF r.key \in DOMAIN rest THEN Cardinality(DOMAIN rest) ELSE Cardinality(DOMAIN rest) + 1
      BY <2>1, <2>3, WithRecord
    <3> QED BY <2>3, <2>6, <3>1
  <2>5. IsFiniteSet(result'.out) /\ result'.out \subseteq FlowRecords
    BY <1>0, <2>2, FS_Singleton
  <2> QED BY <1>0, <1>1, <2>2, <2>4, <2>5 DEF TableTypes
<1> QED BY <1>2, <1>3, <1>4, <1>5, ProcessOutcomes

(* The flows that a scan removes. *)
Silent(cutoff) == {k \in DOMAIN flows : TimeAtOrBefore(flows[k].last_seen, cutoff)}

(* A scan that offers room for every record of the table never lacks it. *)
LEMMA ExpireOutcomes ==
  ASSUME TableTypes, NEW cutoff, Expire(cutoff, Capacity)
  PROVE  /\ TableTypes'
         /\ \/ ~open /\ UNCHANGED flows /\ result'.err = "EINVAL" /\ result'.out = {}
            \/ /\ open
               /\ flows' = Without(flows, Silent(cutoff))
               /\ result'.err = "0" /\ result'.out = {flows[k] : k \in Silent(cutoff)}
<1> DEFINE old == Silent(cutoff)
<1>0. /\ IsTable(flows) /\ Cardinality(DOMAIN flows) <= Capacity
      /\ IsFiniteSet(DOMAIN flows)
      /\ \A k \in DOMAIN flows : flows[k] \in FlowRecords
  BY DEF TableTypes, IsTable
<1>1. /\ IsFiniteSet(old) /\ Cardinality(old) <= Cardinality(DOMAIN flows)
      /\ Cardinality(old) \in Nat /\ Cardinality(DOMAIN flows) \in Nat
  <2>1. old \subseteq DOMAIN flows
    BY DEF Silent
  <2> QED BY <1>0, <2>1, FS_Subset, FS_CardinalityType
<1>2. ~(Cardinality(old) > Capacity)
  BY <1>0, <1>1, CapacityAssumption
<1>3. \/ ~open /\ Refuse("EINVAL")
      \/ /\ open /\ flows' = Without(flows, old)
         /\ Returns("0", FALSE, {flows[k] : k \in old})
  BY <1>2 DEF Expire, Silent
<1> HIDE DEF old
<1>4. CASE ~open /\ Refuse("EINVAL")
  BY <1>4, RefusedCall DEF MapErrors
<1>5. CASE /\ open /\ flows' = Without(flows, old)
           /\ Returns("0", FALSE, {flows[k] : k \in old})
  <2>1. result'.err = "0" /\ result'.out = {flows[k] : k \in old}
    BY <1>5 DEF Returns
  <2>2. IsTable(flows') /\ Cardinality(DOMAIN flows') <= Capacity
    <3>1. IsTable(flows') /\ Cardinality(DOMAIN flows') <= Cardinality(DOMAIN flows)
      BY <1>0, <1>5, WithoutRecords
    <3> DEFINE D == DOMAIN flows'
    <3>2. Cardinality(D) \in Nat
      <4>1. IsFiniteSet(D)
        BY <3>1 DEF IsTable
      <4> HIDE DEF D
      <4> QED BY <4>1, FS_CardinalityType
    <3> QED BY <3>1, <3>2, <1>0, <1>1, CapacityAssumption
  <2>3. IsFiniteSet({flows[k] : k \in old})
    <3> DEFINE T == {flows[k] : k \in old}
               f == [k \in old |-> flows[k]]
    <3>1. f \in Surjection(old, T)
      BY DEF Surjection
    <3> HIDE DEF f, T
    <3> QED BY <1>1, <3>1, FS_Surjection DEF T
  <2>4. {flows[k] : k \in old} \subseteq FlowRecords
    BY <1>0 DEF old, Silent
  <2> QED BY <1>5, <2>1, <2>2, <2>3, <2>4 DEF TableTypes, MapErrors, old
<1> QED BY <1>3, <1>4, <1>5

-----------------------------------------------------------------------------
(* The packets and the table, by type. *)

(* A packet was read of which the flow table does not know yet. *)
Unseen ==
  \/ pc = "after_read" /\ read_status = "PACKET"
  \/ pc \in {"observe", "expired_flow", "expired_feature", "process"}

InputTypes ==
  /\ config \in Configs /\ pc \in Steps
  /\ read_status \in {"UNKNOWN", "PACKET", "END_OF_FILE", "EAGAIN", "EIO"}
  /\ packet \in Packets \cup {NoPacket}
  /\ delivered \in Seq(Packets) /\ accepted \subseteq DOMAIN delivered

(* The packet in hand is the last one delivered. *)
PacketInv ==
  Unseen => /\ delivered # <<>> /\ packet = delivered[Len(delivered)]
            /\ Len(delivered) \notin accepted

LEMMA LastPacket ==
  ASSUME InputTypes, PacketInv, Unseen
  PROVE  /\ packet \in Packets /\ Len(delivered) \in DOMAIN delivered
         /\ packet.timestamp \in Timestamp => packet \in PacketInfo
<1> USE DEF InputTypes, PacketInv
<1>1. Len(delivered) \in DOMAIN delivered /\ DOMAIN delivered = 1 .. Len(delivered)
  OBVIOUS
<1>2. packet \in Packets
  BY <1>1
<1> QED BY <1>1, <1>2, PacketsAssumption

LEMMA InputInit == Init => InputTypes /\ PacketInv
BY DEF Init, InputTypes, PacketInv, Unseen, Steps

LEMMA InputKept == CaptureInv /\ InputTypes /\ PacketInv /\ [Next]_vars => InputTypes' /\ PacketInv'
<1> SUFFICES ASSUME CaptureInv, InputTypes, PacketInv, [Next]_vars PROVE InputTypes' /\ PacketInv'
  OBVIOUS
<1>1. pc' \in Steps
  BY CaptureKept DEF CaptureInv
<1>2. ASSUME UNCHANGED <<config, read_status, packet, delivered, accepted>>, Unseen' => Unseen
      PROVE  InputTypes' /\ PacketInv'
  BY <1>1, <1>2 DEF InputTypes, PacketInv
<1>3. CASE InstallHandlers \/ AppRun \/ OpenCapture \/ InitTable \/ PublishCapture
  <2>1. UNCHANGED <<config, read_status, packet, delivered, accepted>> /\ ~Unseen'
    BY <1>3 DEF InstallHandlers, AppRun, OpenCapture, InitTable, PublishCapture,
                Goto, FailTo, Fault, readVars, countVars, Unseen
  <2> QED BY <2>1, <1>2
<1>4. CASE HandlesFiles
  <2>1. UNCHANGED <<config, read_status, packet, delivered, accepted>> /\ ~Unseen'
    BY <1>4, FileMoves DEF Unseen
  <2> QED BY <2>1, <1>2
<1>5. CASE LoopTop \/ AfterRead \/ Poll
  <2>1. UNCHANGED <<config, read_status, packet, delivered, accepted>> /\ (Unseen' => Unseen)
    BY <1>5 DEF LoopTop, AfterRead, Poll, Goto, Fault, readVars, countVars, Unseen
  <2> QED BY <2>1, <1>2
<1>6. CASE ReadPacket
  <2>1. UNCHANGED <<config, accepted>> /\ pc' = "after_read"
    BY <1>6 DEF ReadPacket, Goto, countVars
  <2>2. CASE read_status' # "PACKET"
    <3>1. /\ read_status' \in {"END_OF_FILE", "EAGAIN", "EIO"}
          /\ UNCHANGED <<packet, delivered>>
      BY <1>6, <2>2 DEF ReadPacket
    <3> QED BY <2>1, <2>2, <3>1, <1>1 DEF InputTypes, PacketInv, Unseen
  <2>3. CASE read_status' = "PACKET"
    <3>1. packet' \in Around.packets /\ delivered' = Append(delivered, packet')
      BY <1>6, <2>3 DEF ReadPacket
    <3>2. packet' \in Packets
      BY <3>1, EnvironmentAssumption DEF Around, InputTypes
    <3>3. /\ delivered \in Seq(Packets) /\ DOMAIN delivered = 1 .. Len(delivered)
          /\ Len(delivered) \in Nat
      BY DEF InputTypes
    <3>4. /\ delivered' \in Seq(Packets) /\ DOMAIN delivered' = 1 .. Len(delivered')
          /\ Len(delivered') = Len(delivered) + 1
          /\ delivered'[Len(delivered')] = packet' /\ delivered' # <<>>
      BY <3>1, <3>2, <3>3
    <3>5. accepted' \subseteq DOMAIN delivered' /\ Len(delivered') \notin accepted'
      BY <2>1, <3>3, <3>4 DEF InputTypes
    <3> QED BY <2>1, <2>3, <3>2, <3>4, <3>5, <1>1 DEF InputTypes, PacketInv
  <2> QED BY <2>2, <2>3
<1>7. CASE ObservePacket
  <2>1. UNCHANGED <<config, read_status, packet, delivered, accepted>> /\ Unseen
    BY <1>7 DEF ObservePacket, Goto, FailTo, Fault, readVars, countVars, Unseen
  <2> QED BY <2>1, <1>2
<1>8. CASE ProcessPacket
  <2>1. /\ UNCHANGED <<config, read_status, packet, delivered>> /\ Unseen /\ ~Unseen'
        /\ accepted' \in {accepted, accepted \cup {Len(delivered)}}
    BY <1>8 DEF ProcessPacket, ClassifyPacket, TrackPacket, Goto, FailTo, Fault, readVars, Unseen
  <2>2. Len(delivered) \in DOMAIN delivered
    BY <2>1, LastPacket
  <2> QED BY <2>1, <2>2, <1>1 DEF InputTypes, PacketInv
<1>9. CASE WritesRows
  <2>1. UNCHANGED <<config, read_status, packet, delivered, accepted>> /\ (Unseen' => Unseen)
    BY <1>9, RowsMoves DEF Unseen
  <2> QED BY <2>1, <1>2
<1>10. CASE CountResult \/ UnpublishCapture \/ CloseCapture \/ AbortRun \/ PrintSummary \/ Return
  <2>1. UNCHANGED <<config, read_status, packet, delivered, accepted>> /\ ~Unseen'
    BY <1>10 DEF CountResult, UnpublishCapture, CloseCapture, AbortRun, PrintSummary, Return,
                 Goto, Fault, readVars, countVars, Unseen
  <2> QED BY <2>1, <1>2
<1>11. CASE StopSignal \/ UNCHANGED vars
  <2>1. UNCHANGED <<config, read_status, packet, delivered, accepted>> /\ (Unseen' => Unseen)
    BY <1>11 DEF StopSignal, vars, readVars, countVars, Unseen
  <2> QED BY <2>1, <1>2
<1> QED BY <1>3, <1>4, <1>5, <1>6, <1>7, <1>8, <1>9, <1>10, <1>11
        DEF Next, Thread, HandlesFiles, WritesRows

LEMMA TableTypesKept ==
  CaptureInv /\ InputTypes /\ PacketInv /\ TableTypes /\ [Next]_vars => TableTypes'
<1> SUFFICES ASSUME CaptureInv, InputTypes, PacketInv, TableTypes, [Next]_vars PROVE TableTypes'
  OBVIOUS
<1>1. ASSUME UNCHANGED <<flows, result>> PROVE TableTypes'
  BY <1>1 DEF TableTypes
<1>2. CASE InitTable \/ AbortRun \/ PrintSummary
  BY <1>2, EmptyTable DEF InitTable, AbortRun, PrintSummary
<1>3. CASE ObservePacket
  BY <1>1, <1>3, ExpireOutcomes DEF ObservePacket, mapVars
<1>4. CASE ProcessPacket
  <2>1. Unseen
    BY <1>4 DEF ProcessPacket, Unseen
  <2>2. UNCHANGED mapVars \/ (packet \in PacketInfo /\ Process(packet, config.evict))
    BY <1>4, <2>1, LastPacket DEF ProcessPacket, ClassifyPacket, TrackPacket
  <2> QED BY <1>1, <2>2, ProcessKeepsTypes DEF mapVars
<1>5. CASE HandlesFiles \/ WritesRows
  BY <1>1, <1>5, FileMoves, RowsMoves
<1>6. CASE \/ InstallHandlers \/ AppRun \/ OpenCapture \/ PublishCapture \/ LoopTop \/ ReadPacket
           \/ AfterRead \/ Poll \/ CountResult \/ UnpublishCapture \/ CloseCapture \/ Return
  BY <1>1, <1>6 DEF InstallHandlers, AppRun, OpenCapture, PublishCapture, LoopTop, ReadPacket,
                    AfterRead, Poll, CountResult, UnpublishCapture, CloseCapture, Return, mapVars
<1>7. CASE StopSignal \/ UNCHANGED vars
  BY <1>1, <1>7 DEF StopSignal, vars, mapVars
<1> QED BY <1>2, <1>3, <1>4, <1>5, <1>6, <1>7 DEF Next, Thread, HandlesFiles, WritesRows

-----------------------------------------------------------------------------
(* Sequences of records, and counting. *)

(* A set as a sequence: every element once. *)
LEMMA SetAsSequence ==
  ASSUME NEW S, IsFiniteSet(S)
  PROVE  LET s == SetToSeq(S) IN
         /\ s \in [1 .. Cardinality(S) -> S] /\ s \in Seq(S) /\ Len(s) = Cardinality(S)
         /\ \A i, j \in 1 .. Len(s) : s[i] = s[j] => i = j
         /\ \A x \in S : \E i \in 1 .. Len(s) : s[i] = x
<1> DEFINE n == Cardinality(S)
           s == SetToSeq(S)
<1>1. n \in Nat /\ ExistsBijection(1 .. n, S)
  BY FS_CardinalityType
<1>2. PICK b : b \in Bijection(1 .. n, S)
  BY <1>1 DEF ExistsBijection
<1>3. b \in [1 .. n -> S] /\ IsInjective(b)
  BY <1>2 DEF Bijection, Injection
<1>4. s \in [1 .. n -> S] /\ IsInjective(s)
  BY <1>3 DEF SetToSeq
<1> HIDE DEF s
<1>5. s \in Injection(1 .. n, S)
  BY <1>4 DEF Injection
<1>6. IsFiniteSet(1 .. n) /\ Cardinality(1 .. n) = n
  BY <1>1, FS_CountingElements, FS_Interval
<1>7. s \in Surjection(1 .. n, S)
  BY <1>5, <1>6, FS_Injection
<1>8. Len(s) = n /\ s \in Seq(S)
  BY <1>1, <1>4
<1> QED BY <1>4, <1>7, <1>8 DEF IsInjective, Surjection, s

LEMMA ResultsFinite == IsFiniteSet(PacketResults)
<1>1. PacketResults = {"COMPLETE", "TRUNCATED"} \cup {"MALFORMED", "UNSUPPORTED"} \cup {"FLOW_REJECTED"}
  BY DEF PacketResults
<1>2. \A a, b : IsFiniteSet({a, b})
  <2>1. ASSUME NEW a, NEW b PROVE IsFiniteSet({a, b})
    <3>1. IsFiniteSet({a}) /\ {a, b} = {a} \cup {b}
      BY FS_Singleton
    <3> QED BY <3>1, FS_AddElement
  <2> QED BY <2>1
<1> QED BY <1>1, <1>2, FS_Union, FS_Singleton

(* What counting does to the totals and to their sum over the results.     *)
LEMMA Counting ==
  ASSUME totals \in [Totals -> Nat], NEW name \in Totals, NEW n \in Nat, Count(name, n)
  PROVE  /\ totals' \in [Totals -> Nat]
         /\ totals'[name] = totals[name] + n
         /\ \A other \in Totals \ {name} : totals'[other] = totals[other]
         /\ SumFunctionOnSet(totals, PacketResults) \in Int
         /\ SumFunctionOnSet(totals', PacketResults) =
              SumFunctionOnSet(totals, PacketResults) + IF name \in PacketResults THEN n ELSE 0
<1>1. /\ totals' \in [Totals -> Nat]
      /\ totals'[name] = totals[name] + n
      /\ \A other \in Totals \ {name} : totals'[other] = totals[other]
  BY DEF Count
<1>2. /\ PacketResults \subseteq Totals /\ IsFiniteSet(PacketResults)
      /\ \A c \in PacketResults : totals[c] \in Int /\ totals'[c] \in Int
  BY <1>1, ResultsFinite DEF Totals
<1>3. SumFunctionOnSet(totals, PacketResults) \in Int
  BY <1>2, SumType
<1> DEFINE f == totals
           g == totals'
           R == PacketResults
<1>4. CASE name \notin R
  <2>1. \A c \in R : g[c] = f[c]
    BY <1>1, <1>2, <1>4
  <2>2. SumFunctionOnSet(g, R) = SumFunctionOnSet(f, R)
    <3> HIDE DEF f, g, R
    <3> QED BY <2>1, <1>2, SumSame DEF R
  <2> QED BY <1>1, <1>3, <1>4, <2>2
<1>5. CASE name \in R
  <2> DEFINE rest == R \ {name}
  <2>1. \A c \in rest : g[c] = f[c]
    BY <1>1, <1>2
  <2>2. IsFiniteSet(rest) /\ \A c \in rest : f[c] \in Int
    BY <1>2, FS_Subset
  <2>3. \A c \in R : f[c] \in Int /\ g[c] \in Int
    BY <1>2
  <2> HIDE DEF f, g, R
  <2>4. /\ SumFunctionOnSet(f, R) = f[name] + SumFunctionOnSet(f, rest)
        /\ SumFunctionOnSet(g, R) = g[name] + SumFunctionOnSet(g, rest)
    BY <2>3, <1>2, <1>5, SumRemove DEF R
  <2> HIDE DEF rest
  <2>5. SumFunctionOnSet(g, rest) = SumFunctionOnSet(f, rest) /\ SumFunctionOnSet(f, rest) \in Int
    BY <2>1, <2>2, SumSame, SumType
  <2>6. f[name] \in Int /\ g[name] = f[name] + n
    BY <2>3, <1>5, <1>1 DEF f, g
  <2>7. SumFunctionOnSet(g, R) = SumFunctionOnSet(f, R) + n
    BY <2>4, <2>5, <2>6
  <2> QED BY <1>1, <1>3, <1>5, <2>7 DEF f, g, R
<1> QED BY <1>4, <1>5

-----------------------------------------------------------------------------
(* The error that the run returns. *)

(* The thread reports an error when it aborts, and never takes it back.    *)
ErrorInv == pc \in Aborting => error # "0"

LEMMA ErrorStays == [Next]_vars /\ error' = "0" => error = "0"
<1> SUFFICES ASSUME [Next]_vars, error' = "0" PROVE error = "0"
  OBVIOUS
<1>1. CASE InstallHandlers \/ AppRun \/ OpenCapture \/ InitTable \/ PublishCapture
  BY <1>1 DEF InstallHandlers, AppRun, OpenCapture, InitTable, PublishCapture, Goto, FailTo, Fault
<1>2. CASE HandlesFiles
  BY <1>2, FileMoves
<1>3. CASE LoopTop \/ ReadPacket \/ AfterRead \/ Poll
  BY <1>3 DEF LoopTop, ReadPacket, AfterRead, Poll, Goto, Fault
<1>4. CASE ObservePacket \/ ProcessPacket \/ CountResult
  BY <1>4 DEF ObservePacket, ProcessPacket, ClassifyPacket, TrackPacket, CountResult,
              Goto, FailTo, Fault
<1>5. CASE WritesRows
  BY <1>5, RowsMoves
<1>6. CASE UnpublishCapture \/ CloseCapture \/ AbortRun \/ PrintSummary \/ Return
  BY <1>6 DEF UnpublishCapture, CloseCapture, AbortRun, PrintSummary, Return, Goto, Fault
<1>7. CASE StopSignal \/ UNCHANGED vars
  BY <1>7 DEF StopSignal, vars
<1> QED BY <1>1, <1>2, <1>3, <1>4, <1>5, <1>6, <1>7 DEF Next, Thread, HandlesFiles, WritesRows

LEMMA ErrorKept == ErrorInv /\ [Next]_vars => ErrorInv'
<1> SUFFICES ASSUME ErrorInv, [Next]_vars, pc' \in Aborting PROVE error' # "0"
  BY DEF ErrorInv
<1> USE DEF Aborting, ErrorInv
<1>1. CASE InstallHandlers \/ AppRun \/ OpenCapture \/ InitTable \/ PublishCapture
  BY <1>1 DEF InstallHandlers, AppRun, OpenCapture, InitTable, PublishCapture, Goto, FailTo, Fault
<1>2. CASE HandlesFiles
  BY <1>2, FileMoves
<1>3. CASE LoopTop \/ ReadPacket \/ AfterRead \/ Poll
  BY <1>3 DEF LoopTop, ReadPacket, AfterRead, Poll, Goto, Fault
<1>4. CASE ObservePacket \/ ProcessPacket \/ CountResult
  BY <1>4 DEF ObservePacket, ProcessPacket, ClassifyPacket, TrackPacket, CountResult,
              Goto, FailTo, Fault
<1>5. CASE WritesRows
  BY <1>5, RowsMoves
<1>6. CASE UnpublishCapture \/ CloseCapture \/ AbortRun \/ PrintSummary \/ Return
  BY <1>6 DEF UnpublishCapture, CloseCapture, AbortRun, PrintSummary, Return, Goto, Fault
<1>7. CASE StopSignal \/ UNCHANGED vars
  BY <1>7 DEF StopSignal, vars
<1> QED BY <1>1, <1>2, <1>3, <1>4, <1>5, <1>6, <1>7 DEF Next, Thread, HandlesFiles, WritesRows

-----------------------------------------------------------------------------
(* The rows. *)

Recorded(f) == {f[k] : k \in DOMAIN f}

LEMMA RecordedTypes ==
  ASSUME NEW f, IsTable(f)
  PROVE  /\ Recorded(f) \subseteq FlowRecords /\ IsFiniteSet(Recorded(f))
         /\ \A r \in Recorded(f) : r.key \in DOMAIN f /\ f[r.key] = r
<1> DEFINE D == DOMAIN f
           T == Recorded(f)
           g == [k \in D |-> f[k]]
<1>1. T \subseteq FlowRecords /\ \A r \in T : r.key \in D /\ f[r.key] = r
  BY DEF IsTable, Recorded
<1>2. g \in Surjection(D, T) /\ IsFiniteSet(D)
  BY DEF Surjection, IsTable, Recorded
<1> HIDE DEF g, T, D
<1>3. IsFiniteSet(T)
  BY <1>2, FS_Surjection
<1> QED BY <1>1, <1>3 DEF T, D

(* The records that the next write of rows is given. *)
Outgoing == IF pc \in Draining THEN Remaining ELSE result.out

LEMMA OutgoingTypes ==
  ASSUME TableTypes
  PROVE  /\ Outgoing \subseteq FlowRecords /\ IsFiniteSet(Outgoing)
         /\ Cardinality(Outgoing) \in Nat
<1>1. Remaining \subseteq FlowRecords /\ IsFiniteSet(Remaining)
  BY RecordedTypes DEF TableTypes, Remaining, Recorded
<1>2. Outgoing \subseteq FlowRecords /\ IsFiniteSet(Outgoing)
  BY <1>1 DEF Outgoing, TableTypes
<1> QED BY <1>2, FS_CardinalityType

RowsType == rows \in [Sinks -> Seq(FlowRecords)]

(* What a completed or an abandoned write makes of the rows of a file.     *)
LEMMA RowsAppended ==
  ASSUME RowsType, NEW sink \in Sinks, NEW records, records \subseteq FlowRecords, IsFiniteSet(records),
         rows' = [rows EXCEPT ![sink] = @ \o SetToSeq(records)]
  PROVE  /\ RowsType'
         /\ rows'[sink] = rows[sink] \o SetToSeq(records)
         /\ Len(rows'[sink]) = Len(rows[sink]) + Cardinality(records)
         /\ \A other \in Sinks \ {sink} : rows'[other] = rows[other]
<1> DEFINE s == SetToSeq(records)
<1>1. s \in Seq(records) /\ Len(s) = Cardinality(records)
  BY SetAsSequence
<1> HIDE DEF s
<1>2. s \in Seq(FlowRecords)
  BY <1>1
<1>3. rows[sink] \in Seq(FlowRecords)
  BY DEF RowsType
<1>4. rows[sink] \o s \in Seq(FlowRecords) /\ Len(rows[sink] \o s) = Len(rows[sink]) + Len(s)
  BY <1>2, <1>3
<1>5. rows' = [rows EXCEPT ![sink] = rows[sink] \o s]
  BY DEF s
<1> QED BY <1>1, <1>4, <1>5 DEF RowsType, s

(* Every write of rows is given the outgoing records, and appends them to  *)
(* one file, or some of them before it fails.                              *)
LEMMA RowsWritten ==
  ASSUME TableTypes, RowsType, WritesRows
  PROVE  /\ RowsType'
         /\ \E sink \in Sinks :
              /\ \A other \in Sinks \ {sink} : rows'[other] = rows[other]
              /\ sink = "flow" <=> pc \in {"expired_flow", "rest_flow"}
              /\ pc' # "abort" =>
                   \/ sink \notin config.csv /\ UNCHANGED rows
                   \/ /\ sink \in config.csv
                      /\ rows'[sink] = rows[sink] \o SetToSeq(Outgoing)
                      /\ Len(rows'[sink]) = Len(rows[sink]) + Cardinality(Outgoing)
              /\ pc' = "abort" =>
                   /\ sink \in config.csv
                   /\ \E some \in SUBSET Outgoing :
                        rows'[sink] = rows[sink] \o SetToSeq(some)
<1> DEFINE Written(sink) ==
             /\ RowsType'
             /\ \A other \in Sinks \ {sink} : rows'[other] = rows[other]
             /\ pc' # "abort" =>
                  \/ sink \notin config.csv /\ UNCHANGED rows
                  \/ /\ sink \in config.csv
                     /\ rows'[sink] = rows[sink] \o SetToSeq(Outgoing)
                     /\ Len(rows'[sink]) = Len(rows[sink]) + Cardinality(Outgoing)
             /\ pc' = "abort" =>
                  /\ sink \in config.csv
                  /\ \E some \in SUBSET Outgoing :
                       rows'[sink] = rows[sink] \o SetToSeq(some)
<1>1. ASSUME NEW sink \in Sinks, NEW step, NEW next, next # "abort",
             WriteRows(sink, Outgoing, step, next)
      PROVE  Written(sink) /\ pc = step
  <2>1. pc = step
    BY <1>1, WriteRowsSteps
  <2>2. CASE pc' = next /\ sink \notin config.csv /\ UNCHANGED rows
    BY <1>1, <2>1, <2>2 DEF RowsType
  <2>3. CASE /\ pc' = next /\ sink \in config.csv
             /\ rows' = [rows EXCEPT ![sink] = @ \o SetToSeq(Outgoing)]
    BY <1>1, <2>1, <2>3, OutgoingTypes, RowsAppended
  <2>4. ASSUME pc' = "abort", sink \in config.csv, NEW some \in SUBSET Outgoing,
               rows' = [rows EXCEPT ![sink] = @ \o SetToSeq(some)]
        PROVE  Written(sink)
    <3>1. some \subseteq FlowRecords /\ IsFiniteSet(some)
      BY OutgoingTypes, FS_Subset
    <3>2. /\ RowsType'
          /\ rows'[sink] = rows[sink] \o SetToSeq(some)
          /\ \A other \in Sinks \ {sink} : rows'[other] = rows[other]
      BY <2>4, <3>1, RowsAppended
    <3> QED BY <2>4, <3>2
  <2> HIDE DEF Written
  <2> QED BY <1>1, <2>1, <2>2, <2>3, <2>4, WriteRowsSteps
<1> HIDE DEF Written
<1>2. \/ pc = "expired_flow" /\ WriteRows("flow", Outgoing, "expired_flow", "expired_feature")
      \/ pc = "expired_feature" /\ WriteRows("feature", Outgoing, "expired_feature", "process")
      \/ pc = "evicted" /\ WriteRows("feature", Outgoing, "evicted", "count")
      \/ pc = "rest_flow" /\ WriteRows("flow", Outgoing, "rest_flow", "rest_feature")
      \/ pc = "rest_feature" /\ WriteRows("feature", Outgoing, "rest_feature", "summary")
  <2>1. ASSUME NEW sink, NEW records, NEW step, NEW next, WriteRows(sink, records, step, next)
        PROVE  pc = step
    BY <2>1, WriteRowsSteps
  <2> QED BY <2>1 DEF WritesRows, WriteExpiredFlow, WriteExpiredFeature, WriteEvicted,
                       WriteRemainingFlow, WriteRemainingFeature, Outgoing, Draining
<1>3. \E sink \in Sinks : Written(sink) /\ (sink = "flow" <=> pc \in {"expired_flow", "rest_flow"})
  BY <1>1, <1>2 DEF Sinks
<1> QED BY <1>3 DEF Written

LEMMA RowsTypeKept == TableTypes /\ RowsType /\ [Next]_vars => RowsType'
<1> SUFFICES ASSUME TableTypes, RowsType, [Next]_vars PROVE RowsType'
  OBVIOUS
<1>1. CASE WritesRows
  BY <1>1, RowsWritten
<1>2. CASE HandlesFiles
  BY <1>2, FileMoves DEF RowsType
<1>3. CASE \/ InstallHandlers \/ AppRun \/ OpenCapture \/ InitTable \/ PublishCapture \/ LoopTop
           \/ ReadPacket \/ AfterRead \/ Poll \/ ObservePacket \/ ProcessPacket \/ CountResult
           \/ UnpublishCapture \/ CloseCapture \/ AbortRun \/ PrintSummary \/ Return
  BY <1>3 DEF InstallHandlers, AppRun, OpenCapture, InitTable, PublishCapture, LoopTop,
              ReadPacket, AfterRead, Poll, ObservePacket, ProcessPacket, CountResult,
              UnpublishCapture, CloseCapture, AbortRun, PrintSummary, Return, outputVars, RowsType
<1>4. CASE StopSignal \/ UNCHANGED vars
  BY <1>4 DEF StopSignal, vars, outputVars, RowsType
<1> QED BY <1>1, <1>2, <1>3, <1>4 DEF Next, Thread, HandlesFiles, WritesRows

-----------------------------------------------------------------------------
(* The counts, step by step. *)

CountTypes == totals \in [Totals -> Nat] /\ packet_result \in PacketResults

LEMMA RowsCounting ==
  ASSUME WritesRows
  PROVE  \/ pc = "expired_feature" /\ pc' = "process" /\ Count("expired", Cardinality(Outgoing))
         \/ pc = "evicted" /\ pc' = "count" /\ Count("evicted", 1)
         \/ /\ UNCHANGED totals
            /\ ~(pc = "expired_feature" /\ pc' = "process")
            /\ ~(pc = "evicted" /\ pc' = "count")
<1>1. ASSUME NEW sink, NEW records, NEW step, NEW next, WriteRows(sink, records, step, next)
      PROVE  pc = step
  BY <1>1, WriteRowsSteps
<1> QED BY <1>1 DEF WritesRows, WriteExpiredFlow, WriteExpiredFeature, WriteEvicted,
                    WriteRemainingFlow, WriteRemainingFeature, Outgoing, Draining

(* Every step leaves the totals alone or adds to one of them. *)
LEMMA CountsOnly ==
  ASSUME InputTypes, PacketInv, TableTypes, CountTypes, [Next]_vars
  PROVE  /\ packet_result' \in PacketResults
         /\ UNCHANGED totals \/ \E name \in Totals, n \in Nat : Count(name, n)
<1>1. CASE WritesRows
  <2>1. Cardinality(Outgoing) \in Nat /\ UNCHANGED packet_result
    BY <1>1, OutgoingTypes, RowsMoves
  <2> QED BY <1>1, <2>1, RowsCounting DEF Totals, CountTypes
<1>2. CASE AfterRead
  BY <1>2 DEF AfterRead, Totals, CountTypes
<1>3. CASE CountResult
  BY <1>3 DEF CountResult, Totals, CountTypes
<1>4. CASE ProcessPacket
  <2>1. UNCHANGED totals
    BY <1>4 DEF ProcessPacket
  <2>2. \/ packet_result' \in {packet_result, "COMPLETE", "FLOW_REJECTED"}
        \/ packet.parse_status # "COMPLETE" /\ packet_result' = packet.parse_status
    BY <1>4 DEF ProcessPacket, ClassifyPacket, TrackPacket
  <2>3. packet \in Packets
    BY <1>4, LastPacket DEF ProcessPacket, Unseen
  <2> QED BY <2>1, <2>2, <2>3, PacketsAssumption DEF CountTypes, PacketResults, ParseStatus
<1>5. CASE HandlesFiles
  BY <1>5, FileMoves DEF CountTypes
<1>6. CASE \/ InstallHandlers \/ AppRun \/ OpenCapture \/ InitTable \/ PublishCapture \/ LoopTop
           \/ ReadPacket \/ Poll \/ ObservePacket \/ UnpublishCapture \/ CloseCapture \/ AbortRun
           \/ PrintSummary \/ Return
  BY <1>6 DEF InstallHandlers, AppRun, OpenCapture, InitTable, PublishCapture, LoopTop, ReadPacket,
              Poll, ObservePacket, UnpublishCapture, CloseCapture, AbortRun, PrintSummary, Return,
              countVars, CountTypes
<1>7. CASE StopSignal \/ UNCHANGED vars
  BY <1>7 DEF StopSignal, vars, countVars, CountTypes
<1> QED BY <1>1, <1>2, <1>3, <1>4, <1>5, <1>6, <1>7 DEF Next, Thread, HandlesFiles, WritesRows

LEMMA CountTypesKept ==
  InputTypes /\ PacketInv /\ TableTypes /\ CountTypes /\ [Next]_vars => CountTypes'
BY CountsOnly, Counting DEF CountTypes

(* The steps that count nothing, take no packet and write no row. *)
Quiet ==
  \/ InstallHandlers \/ AppRun \/ OpenCapture \/ InitTable \/ PublishCapture \/ HandlesFiles
  \/ LoopTop \/ Poll \/ ObservePacket \/ UnpublishCapture \/ CloseCapture \/ AbortRun
  \/ PrintSummary \/ Return \/ StopSignal \/ UNCHANGED vars

(* A packet was counted that has no class yet. *)
Counted == pc \in {"observe", "expired_flow", "expired_feature", "process", "evicted", "count"}

(* A packet was taken into a flow that is not counted as complete yet. *)
Pending == pc = "evicted" \/ (pc = "count" /\ packet_result = "COMPLETE")

(* A packet was read that is not counted yet. *)
Arrived == pc = "after_read" /\ read_status = "PACKET"

Ended == pc \in {"statistics", "close_capture"} \cup Draining \cup Aborting \cup Closing

(* The rest of the records reaches the feature file. *)
RestWritten == pc \in {"summary"} \cup Closing

LEMMA QuietSteps ==
  ASSUME Quiet, error' = "0"
  PROVE  /\ UNCHANGED <<config, totals, packet_result, accepted, delivered, rows, read_status>>
         /\ stop_requested => stop_requested'
         /\ Counted' <=> Counted
         /\ Pending' <=> Pending
         /\ Arrived' <=> Arrived
         /\ Ended => Ended'
         /\ RestWritten => RestWritten'
         /\ pc' \notin {"evicted"} \/ UNCHANGED <<pc, result>>
<1> USE DEF Counted, Pending, Arrived, Ended, RestWritten, Draining, Aborting, Closing
<1>1. CASE InstallHandlers \/ AppRun \/ OpenCapture \/ InitTable \/ PublishCapture
  BY <1>1 DEF InstallHandlers, AppRun, OpenCapture, InitTable, PublishCapture,
              Goto, FailTo, Fault, signalVars, readVars, countVars, outputVars
<1>2. CASE HandlesFiles
  BY <1>2, FileMoves
<1>3. CASE LoopTop \/ Poll \/ ObservePacket
  BY <1>3 DEF LoopTop, Poll, ObservePacket, Goto, FailTo, Fault, signalVars, readVars, countVars,
              outputVars
<1>4. CASE UnpublishCapture \/ CloseCapture \/ AbortRun \/ PrintSummary \/ Return
  BY <1>4 DEF UnpublishCapture, CloseCapture, AbortRun, PrintSummary, Return, Goto, Fault,
              signalVars, readVars, countVars, outputVars
<1>5. CASE StopSignal \/ UNCHANGED vars
  BY <1>5 DEF StopSignal, vars, signalVars, readVars, countVars, outputVars, mapVars
<1> QED BY <1>1, <1>2, <1>3, <1>4, <1>5 DEF Quiet

(* Where a packet goes that does not end the run. *)
LEMMA ProcessSteps ==
  ASSUME ProcessPacket, error' = "0"
  PROVE  /\ pc = "process" /\ pc' \in {"count", "evicted"}
         /\ UNCHANGED <<config, totals, delivered, packet, rows, read_status, stop_requested>>
         /\ packet.timestamp \in Timestamp
         /\ \/ /\ packet.parse_status # "COMPLETE" /\ packet_result' = packet.parse_status
               /\ pc' = "count" /\ UNCHANGED <<accepted, flows, open, result>>
            \/ /\ packet.parse_status = "COMPLETE" /\ Process(packet, config.evict)
               /\ packet_result' = "FLOW_REJECTED" /\ result'.err = "ENOSPC"
               /\ pc' = "count" /\ UNCHANGED accepted
            \/ /\ packet.parse_status = "COMPLETE" /\ Process(packet, config.evict)
               /\ packet_result' = "COMPLETE" /\ result'.err = "0"
               /\ accepted' = accepted \cup {Len(delivered)}
               /\ pc' = IF result'.out = {} THEN "count" ELSE "evicted"
<1>1. /\ pc = "process"
      /\ UNCHANGED <<totals, delivered, packet, rows, read_status, stop_requested>>
      /\ packet.timestamp \in Timestamp
      /\ ClassifyPacket \/ TrackPacket
  BY DEF ProcessPacket, FailTo, signalVars, readVars, outputVars
<1>2. CASE ClassifyPacket
  BY <1>1, <1>2 DEF ClassifyPacket, Goto, Fault, mapVars
<1>3. CASE TrackPacket
  BY <1>1, <1>3 DEF TrackPacket, Goto, FailTo, Fault
<1> QED BY <1>1, <1>2, <1>3

(* A record that was evicted was evicted alone, for a packet of a flow. *)
EvictedInv == pc = "evicted" => packet_result = "COMPLETE" /\ Cardinality(result.out) = 1

LEMMA EvictedKept ==
  EvictedInv /\ [Next]_vars /\ error' = "0" => EvictedInv'
<1> SUFFICES ASSUME EvictedInv, [Next]_vars, error' = "0", pc' = "evicted"
             PROVE  packet_result' = "COMPLETE" /\ Cardinality(result'.out) = 1
  BY DEF EvictedInv
<1>1. CASE Quiet
  BY <1>1, QuietSteps DEF EvictedInv
<1>2. CASE ProcessPacket
  <2>1. /\ packet_result' = "COMPLETE" /\ result'.out # {}
        /\ Process(packet, config.evict)
    BY <1>2, ProcessSteps
  <2>2. PICK k : result'.out = {flows[k]}
    BY <2>1, ProcessOutcomes
  <2> QED BY <2>1, <2>2, FS_Singleton
<1>3. CASE ReadPacket \/ AfterRead \/ CountResult
  BY <1>3 DEF ReadPacket, AfterRead, CountResult, Goto, Fault
<1>4. CASE WritesRows
  BY <1>4, RowsMoves
<1> QED BY <1>1, <1>2, <1>3, <1>4 DEF Next, Thread, HandlesFiles, WritesRows, Quiet

(* Every packet counted has one class, but for the one in hand. *)
PacketsCounted ==
  totals["packets"] = SumFunctionOnSet(totals, PacketResults) + IF Counted THEN 1 ELSE 0

(* The complete packets are those in a flow. *)
AcceptedCounted == Cardinality(accepted) = totals["COMPLETE"] + IF Pending THEN 1 ELSE 0

(* Every packet delivered is counted, but for one that came with the stop. *)
DeliveredCounted ==
  IF Arrived THEN Len(delivered) = totals["packets"] + 1
  ELSE \/ Len(delivered) = totals["packets"]
       \/ stop_requested /\ Ended /\ Len(delivered) = totals["packets"] + 1

(* Every record that left the table is in the feature file. *)
RowsCounted ==
  ~RestWritten /\ "feature" \in config.csv =>
    Len(rows["feature"]) = totals["expired"] + totals["evicted"]
  
TotalsInv ==
  error = "0" => EvictedInv /\ PacketsCounted /\ AcceptedCounted /\ DeliveredCounted /\ RowsCounted

LEMMA QuietTotals ==
  ASSUME Quiet, error' = "0",
         PacketsCounted, AcceptedCounted, DeliveredCounted, RowsCounted
  PROVE  PacketsCounted' /\ AcceptedCounted' /\ DeliveredCounted' /\ RowsCounted'
<1> HIDE DEF Quiet
<1>1. PacketsCounted' /\ AcceptedCounted' /\ RowsCounted'
  BY QuietSteps DEF PacketsCounted, AcceptedCounted, RowsCounted
<1>2. DeliveredCounted'
  BY QuietSteps DEF DeliveredCounted
<1> QED BY <1>1, <1>2

(* The steps that read a packet and that look at it. *)
LEMMA ReadTotals ==
  ASSUME ReadPacket \/ AfterRead, error' = "0", InputTypes, CountTypes,
         PacketsCounted, AcceptedCounted, DeliveredCounted, RowsCounted
  PROVE  PacketsCounted' /\ AcceptedCounted' /\ DeliveredCounted' /\ RowsCounted'
<1> USE DEF Counted, Pending, Arrived, Ended, RestWritten, Draining, Aborting, Closing
<1>0. /\ totals["packets"] \in Nat /\ delivered \in Seq(Packets) /\ Len(delivered) \in Nat
      /\ \A p \in Packets : Len(Append(delivered, p)) = Len(delivered) + 1
      /\ totals["COMPLETE"] \in Nat
      /\ SumFunctionOnSet(totals, PacketResults) \in Int
  <2>1. \A p \in Packets : Len(Append(delivered, p)) = Len(delivered) + 1
    BY DEF InputTypes
  <2>2. SumFunctionOnSet(totals, PacketResults) \in Int
    BY SumType, ResultsFinite DEF CountTypes, Totals
  <2>3. totals["packets"] \in Nat /\ totals["COMPLETE"] \in Nat
    BY DEF CountTypes, Totals, PacketResults
  <2>4. delivered \in Seq(Packets) /\ Len(delivered) \in Nat
    BY DEF InputTypes
  <2> QED BY <2>1, <2>2, <2>3, <2>4
<1>1. UNCHANGED <<config, rows, accepted, packet_result, stop_requested>>
  BY DEF ReadPacket, AfterRead, signalVars, countVars, outputVars, Goto, Fault
<1>2. CASE ReadPacket
  <2>4. Around.packets \subseteq Packets
    BY EnvironmentAssumption DEF Around, InputTypes
  <2>1. /\ pc = "read" /\ pc' = "after_read" /\ UNCHANGED totals
        /\ \/ /\ read_status' = "PACKET" /\ packet' \in Packets
              /\ delivered' = Append(delivered, packet')
           \/ read_status' # "PACKET" /\ UNCHANGED delivered
    BY <1>2, <2>4 DEF ReadPacket, Goto, countVars
  <2>2. Len(delivered) = totals["packets"]
    BY <2>1 DEF DeliveredCounted
  <2>3. PacketsCounted' /\ AcceptedCounted' /\ RowsCounted'
    BY <1>1, <2>1 DEF PacketsCounted, AcceptedCounted, RowsCounted
  <2> QED BY <1>0, <1>1, <2>1, <2>2, <2>3 DEF DeliveredCounted
<1>3. CASE AfterRead
  <2>1. /\ pc = "after_read" /\ UNCHANGED <<delivered, read_status>>
        /\ \/ stop_requested /\ pc' = "statistics" /\ UNCHANGED totals
           \/ read_status # "PACKET" /\ pc' \in {"poll", "statistics"} /\ UNCHANGED totals
           \/ read_status = "PACKET" /\ pc' \in {"observe", "process"} /\ Count("packets", 1)
    BY <1>3 DEF AfterRead, Goto, Fault, StopSeen, readVars
  <2>2. CASE UNCHANGED totals
    <3>1. PacketsCounted' /\ AcceptedCounted' /\ RowsCounted'
      BY <1>1, <2>1, <2>2 DEF PacketsCounted, AcceptedCounted, RowsCounted, Count, CountTypes, Totals
    <3>2. DeliveredCounted'
      BY <1>0, <1>1, <2>1, <2>2 DEF DeliveredCounted, Count, CountTypes, Totals
    <3> QED BY <3>1, <3>2
  <2>3. CASE read_status = "PACKET" /\ pc' \in {"observe", "process"} /\ Count("packets", 1)
    <3>1. /\ totals'["packets"] = totals["packets"] + 1
          /\ totals'["COMPLETE"] = totals["COMPLETE"]
          /\ totals'["expired"] = totals["expired"] /\ totals'["evicted"] = totals["evicted"]
          /\ SumFunctionOnSet(totals', PacketResults) = SumFunctionOnSet(totals, PacketResults)
      <4>1. totals \in [Totals -> Nat] /\ "packets" \in Totals \ PacketResults /\ 1 \in Nat
        BY DEF CountTypes, Totals, PacketResults
      <4>2. /\ totals'["packets"] = totals["packets"] + 1
            /\ \A other \in Totals \ {"packets"} : totals'[other] = totals[other]
            /\ SumFunctionOnSet(totals', PacketResults) =
                 SumFunctionOnSet(totals, PacketResults) + IF "packets" \in PacketResults THEN 1 ELSE 0
        BY <4>1, <2>3, Counting
      <4> QED BY <1>0, <4>1, <4>2 DEF Totals, PacketResults
    <3>2. PacketsCounted'
      BY <1>0, <2>1, <2>3, <3>1 DEF PacketsCounted
    <3> QED BY <1>0, <1>1, <2>1, <2>3, <3>1, <3>2 DEF AcceptedCounted, DeliveredCounted, RowsCounted
  <2> QED BY <2>1, <2>2, <2>3
<1> QED BY <1>2, <1>3

(* The steps that write rows. *)
LEMMA RowsTotals ==
  ASSUME WritesRows, error' = "0", TableTypes, RowsType, CountTypes, EvictedInv,
         PacketsCounted, AcceptedCounted, DeliveredCounted, RowsCounted
  PROVE  PacketsCounted' /\ AcceptedCounted' /\ DeliveredCounted' /\ RowsCounted'
<1> HIDE DEF WritesRows
<1> DEFINE n == Cardinality(Outgoing)
<1>1. /\ UNCHANGED <<config, accepted, delivered, packet_result, read_status, stop_requested>>
      /\ \/ pc = "expired_flow" /\ pc' = "expired_feature"
         \/ pc = "expired_feature" /\ pc' = "process"
         \/ pc = "evicted" /\ pc' = "count"
         \/ pc = "rest_flow" /\ pc' = "rest_feature"
         \/ pc = "rest_feature" /\ pc' = "summary"
  BY RowsMoves
<1>2. /\ n \in Nat
      /\ pc = "evicted" => n = 1 /\ packet_result = "COMPLETE"
  BY OutgoingTypes DEF EvictedInv, Outgoing, Draining
<1> DEFINE more(name) ==
             IF name = "expired" /\ pc = "expired_feature" THEN n
             ELSE IF name = "evicted" /\ pc = "evicted" THEN 1 ELSE 0
<1>3. /\ SumFunctionOnSet(totals', PacketResults) = SumFunctionOnSet(totals, PacketResults)
      /\ \A name \in Totals : totals'[name] = totals[name] + more(name)
  <2>1. /\ totals \in [Totals -> Nat]
        /\ {"expired", "evicted"} \subseteq Totals \ PacketResults
        /\ SumFunctionOnSet(totals, PacketResults) \in Int
    BY SumType, ResultsFinite DEF CountTypes, Totals, PacketResults
  <2>2. CASE pc = "expired_feature" /\ Count("expired", n)
    BY <1>2, <2>1, <2>2, Counting
  <2>3. CASE pc = "evicted" /\ Count("evicted", 1)
    BY <1>2, <2>1, <2>3, Counting
  <2>4. CASE UNCHANGED totals /\ pc \notin {"expired_feature", "evicted"}
    BY <2>1, <2>4
  <2> QED BY <1>1, <2>2, <2>3, <2>4, RowsCounting
<1>4. /\ {"packets", "COMPLETE", "expired", "evicted"} \subseteq Totals
      /\ \A name \in Totals : totals[name] \in Nat
  BY DEF Totals, PacketResults, CountTypes
<1>5. /\ totals'["packets"] = totals["packets"] /\ totals'["COMPLETE"] = totals["COMPLETE"]
      /\ totals'["expired"] = totals["expired"] + IF pc = "expired_feature" THEN n ELSE 0
      /\ totals'["evicted"] = totals["evicted"] + IF pc = "evicted" THEN 1 ELSE 0
  BY <1>3, <1>4
<1> USE DEF Counted, Pending, Arrived, Ended, RestWritten, Draining, Aborting, Closing
<1> HIDE DEF n, more
<1>6. PacketsCounted' /\ AcceptedCounted' /\ DeliveredCounted'
  <2>1. PacketsCounted'
    BY <1>1, <1>3, <1>5 DEF PacketsCounted
  <2>2. AcceptedCounted'
    BY <1>1, <1>2, <1>5 DEF AcceptedCounted
  <2>3. DeliveredCounted'
    BY <1>1, <1>5 DEF DeliveredCounted
  <2> QED BY <2>1, <2>2, <2>3
<1>7. RowsCounted'
  <2> SUFFICES ASSUME pc' # "summary", "feature" \in config.csv
               PROVE  Len(rows'["feature"]) = totals'["expired"] + totals'["evicted"]
    BY <1>1 DEF RowsCounted
  <2>1. Len(rows["feature"]) = totals["expired"] + totals["evicted"]
    BY <1>1 DEF RowsCounted
  <2>2. Len(rows'["feature"]) =
          Len(rows["feature"]) + IF pc \in {"expired_feature", "evicted"} THEN n ELSE 0
    <3>1. PICK sink \in Sinks :
            /\ \A other \in Sinks \ {sink} : rows'[other] = rows[other]
            /\ sink = "flow" <=> pc \in {"expired_flow", "rest_flow"}
            /\ \/ sink \notin config.csv /\ UNCHANGED rows
               \/ Len(rows'[sink]) = Len(rows[sink]) + n
      BY <1>1, RowsWritten DEF n
    <3>2. Len(rows["feature"]) \in Nat
      BY DEF RowsType, Sinks
    <3>3. CASE sink = "flow"
      <4>1. pc \in {"expired_flow", "rest_flow"} /\ rows'["feature"] = rows["feature"]
        BY <3>1, <3>3 DEF Sinks
      <4> QED BY <4>1, <3>2
    <3>4. CASE sink = "feature"
      <4>1. pc \notin {"expired_flow", "rest_flow"} /\ Len(rows'["feature"]) = Len(rows["feature"]) + n
        BY <3>1, <3>4
      <4>2. pc \in {"expired_feature", "evicted"}
        BY <1>1, <4>1
      <4> QED BY <4>1, <4>2
    <3> QED BY <3>3, <3>4 DEF Sinks
  <2>3. totals["expired"] \in Nat /\ totals["evicted"] \in Nat
    BY <1>4
  <2> QED BY <1>2, <1>5, <2>1, <2>2, <2>3
<1> QED BY <1>6, <1>7

(* The step that takes a packet into a flow, or does not. *)
LEMMA ProcessTotals ==
  ASSUME ProcessPacket, error' = "0", InputTypes, PacketInv, CountTypes,
         PacketsCounted, AcceptedCounted, DeliveredCounted, RowsCounted
  PROVE  PacketsCounted' /\ AcceptedCounted' /\ DeliveredCounted' /\ RowsCounted'
<1> HIDE DEF ProcessPacket
<1> USE DEF Counted, Pending, Arrived, Ended, RestWritten, Draining, Aborting, Closing
<1>1. /\ pc = "process" /\ pc' \in {"count", "evicted"}
      /\ UNCHANGED <<config, totals, delivered, rows, read_status, stop_requested>>
      /\ \/ packet_result' # "COMPLETE" /\ pc' = "count" /\ UNCHANGED accepted
         \/ packet_result' = "COMPLETE" /\ accepted' = accepted \cup {Len(delivered)}
  BY ProcessSteps
<1>2. PacketsCounted' /\ DeliveredCounted' /\ RowsCounted'
  BY <1>1 DEF PacketsCounted, DeliveredCounted, RowsCounted
<1>3. /\ IsFiniteSet(accepted) /\ Len(delivered) \notin accepted
      /\ totals["COMPLETE"] \in Nat
  <2>1. IsFiniteSet(DOMAIN delivered) /\ accepted \subseteq DOMAIN delivered
    <3>1. DOMAIN delivered = 1 .. Len(delivered) /\ Len(delivered) \in Nat
      BY DEF InputTypes
    <3> QED BY <3>1, FS_Interval DEF InputTypes
  <2>2. totals["COMPLETE"] \in Nat
    BY DEF CountTypes, Totals, PacketResults
  <2> QED BY <1>1, <2>1, <2>2, FS_Subset DEF PacketInv, Unseen
<1>4. Cardinality(accepted \cup {Len(delivered)}) = Cardinality(accepted) + 1
  BY <1>3, FS_AddElement
<1>5. AcceptedCounted'
  <2>1. Cardinality(accepted) = totals["COMPLETE"]
    BY <1>1, <1>3 DEF AcceptedCounted
  <2>2. CASE packet_result' # "COMPLETE" /\ pc' = "count" /\ UNCHANGED accepted
    BY <1>1, <1>3, <2>1, <2>2 DEF AcceptedCounted
  <2>3. CASE packet_result' = "COMPLETE" /\ accepted' = accepted \cup {Len(delivered)}
    <3>1. Pending'
      BY <1>1, <2>3
    <3>2. Cardinality(accepted') = totals'["COMPLETE"] + 1
      BY <1>1, <1>4, <2>1, <2>3
    <3> QED BY <3>1, <3>2 DEF AcceptedCounted
  <2> QED BY <1>1, <2>2, <2>3
<1> QED BY <1>2, <1>5

(* The step that counts the class of a packet. *)
LEMMA ResultTotals ==
  ASSUME CountResult, error' = "0", CountTypes,
         PacketsCounted, AcceptedCounted, DeliveredCounted, RowsCounted
  PROVE  PacketsCounted' /\ AcceptedCounted' /\ DeliveredCounted' /\ RowsCounted'
<1> USE DEF Counted, Pending, Arrived, Ended, RestWritten, Draining, Aborting, Closing
<1>1. /\ pc = "count" /\ pc' = "loop" /\ Count(packet_result, 1)
      /\ UNCHANGED <<config, delivered, accepted, rows, read_status, stop_requested, packet_result>>
  BY DEF CountResult, Goto, Fault, readVars, outputVars, signalVars
<1>2. /\ totals \in [Totals -> Nat] /\ packet_result \in Totals /\ 1 \in Nat
      /\ packet_result \in PacketResults
      /\ {"packets", "expired", "evicted"} \cap PacketResults = {}
      /\ {"packets", "expired", "evicted", "COMPLETE"} \subseteq Totals
  BY DEF CountTypes, Totals, PacketResults
<1>3. /\ totals'[packet_result] = totals[packet_result] + 1
      /\ \A other \in Totals \ {packet_result} : totals'[other] = totals[other]
      /\ SumFunctionOnSet(totals, PacketResults) \in Int
      /\ SumFunctionOnSet(totals', PacketResults) = SumFunctionOnSet(totals, PacketResults) + 1
  BY <1>1, <1>2, Counting
<1>4. /\ totals'["packets"] = totals["packets"]
      /\ totals'["expired"] = totals["expired"] /\ totals'["evicted"] = totals["evicted"]
      /\ totals'["COMPLETE"] = totals["COMPLETE"] + IF packet_result = "COMPLETE" THEN 1 ELSE 0
      /\ totals["packets"] \in Nat /\ totals["COMPLETE"] \in Nat
  BY <1>2, <1>3
<1>5. PacketsCounted'
  BY <1>1, <1>3, <1>4 DEF PacketsCounted
<1>6. AcceptedCounted'
  BY <1>1, <1>4 DEF AcceptedCounted
<1>7. DeliveredCounted' /\ RowsCounted'
  BY <1>1, <1>4 DEF DeliveredCounted, RowsCounted
<1> QED BY <1>5, <1>6, <1>7

LEMMA TotalsInit == Init => TotalsInv
<1> SUFFICES ASSUME Init PROVE TotalsInv
  OBVIOUS
<1>1. /\ totals = [n \in Totals |-> 0] /\ pc = "start" /\ accepted = {} /\ delivered = <<>>
      /\ rows = [f \in Sinks |-> <<>>]
  BY DEF Init
<1>2. /\ \A c \in PacketResults : totals[c] = 0
      /\ totals["packets"] = 0 /\ totals["expired"] = 0 /\ totals["evicted"] = 0
      /\ totals["COMPLETE"] = 0
  BY <1>1 DEF Totals, PacketResults
<1>3. SumFunctionOnSet(totals, PacketResults) = 0
  BY <1>2, ResultsFinite, SumOfZeros
<1> QED BY <1>1, <1>2, <1>3, FS_EmptySet
        DEF TotalsInv, EvictedInv, PacketsCounted, AcceptedCounted, DeliveredCounted, RowsCounted,
            Counted, Pending, Arrived, Sinks

LEMMA TotalsKept ==
  ASSUME InputTypes, PacketInv, TableTypes, RowsType, CountTypes, TotalsInv, [Next]_vars
  PROVE  TotalsInv'
<1> SUFFICES ASSUME error' = "0"
             PROVE  (EvictedInv /\ PacketsCounted /\ AcceptedCounted /\ DeliveredCounted /\ RowsCounted)'
  BY DEF TotalsInv
<1>1. EvictedInv /\ PacketsCounted /\ AcceptedCounted /\ DeliveredCounted /\ RowsCounted
  BY ErrorStays DEF TotalsInv
<1>2. EvictedInv'
  BY <1>1, EvictedKept
<1>3. Quiet \/ ReadPacket \/ AfterRead \/ WritesRows \/ ProcessPacket \/ CountResult
  BY DEF Next, Thread, Quiet, HandlesFiles, WritesRows
<1>4. PacketsCounted' /\ AcceptedCounted' /\ DeliveredCounted' /\ RowsCounted'
  BY <1>1, <1>3, QuietTotals, ReadTotals, RowsTotals, ProcessTotals, ResultTotals
<1> QED BY <1>2, <1>4

(* What holds of the run at every step, but for the contents of the rows.  *)
RunInv ==
  /\ ControlInv /\ ErrorInv
  /\ InputTypes /\ PacketInv
  /\ TableTypes /\ RowsType /\ CountTypes
  /\ TotalsInv

LEMMA TypesInit == Init => TableTypes /\ RowsType /\ CountTypes /\ ErrorInv
<1> SUFFICES ASSUME Init PROVE TableTypes /\ RowsType /\ CountTypes /\ ErrorInv
  OBVIOUS
<1>1. TableTypes
  <2>1. DOMAIN NoFlows = {} /\ NoFlows = [k \in DOMAIN NoFlows |-> NoFlows[k]]
    BY DEF NoFlows
  <2>2. IsFiniteSet({}) /\ Cardinality({}) = 0
    BY FS_EmptySet
  <2>3. flows = NoFlows /\ result.err = "0" /\ result.out = {}
    BY DEF Init, MapInit
  <2> HIDE DEF NoFlows
  <2> QED BY <2>1, <2>2, <2>3, CapacityAssumption DEF TableTypes, MapErrors, IsTable
<1>2. RowsType
  BY DEF Init, RowsType
<1>3. CountTypes
  BY DEF Init, CountTypes, PacketResults
<1>4. ErrorInv
  BY DEF Init, ErrorInv, Aborting
<1> QED BY <1>1, <1>2, <1>3, <1>4

THEOREM RunInvariance == Spec => []RunInv
<1>1. Init => RunInv
  BY ControlInit, InputInit, TypesInit, TotalsInit DEF RunInv
<1>2. RunInv /\ [Next]_vars => RunInv'
  <2> SUFFICES ASSUME RunInv, [Next]_vars PROVE RunInv'
    OBVIOUS
  <2>1. ControlInv' /\ CaptureInv
    BY CaptureKept, TableKept, FilesKept, HandlersKept DEF RunInv, ControlInv
  <2>2. InputTypes' /\ PacketInv' /\ TableTypes' /\ RowsType'
    BY <2>1, InputKept, TableTypesKept, RowsTypeKept DEF RunInv
  <2>3. CountTypes' /\ ErrorInv' /\ TotalsInv'
    BY CountTypesKept, ErrorKept, TotalsKept DEF RunInv
  <2> QED BY <2>1, <2>2, <2>3 DEF RunInv
<1> QED BY <1>1, <1>2, PTL DEF Spec

(* The summary of a run that has met no error adds up: to the packets it   *)
(* counted, to the packets in flows, to the rows of the flows that left.   *)
THEOREM SummaryCorrect == Spec => []SummaryAddsUp
<1>1. RunInv => SummaryAddsUp
  <2> SUFFICES ASSUME RunInv, error = "0",
                      pc \in {"loop", "read", "after_read", "poll", "statistics", "rest_flow", "exited"}
               PROVE  SummaryAddsUp
    BY DEF SummaryAddsUp
  <2>1. PacketsCounted /\ AcceptedCounted /\ DeliveredCounted /\ RowsCounted
    BY DEF RunInv, TotalsInv
  <2>2. /\ totals["packets"] \in Nat /\ totals["COMPLETE"] \in Nat
        /\ Len(delivered) \in Nat
        /\ SumFunctionOnSet(totals, PacketResults) \in Int
    <3>1. totals \in [Totals -> Nat] /\ PacketResults \subseteq Totals
          /\ {"packets", "COMPLETE"} \subseteq Totals
      BY DEF RunInv, CountTypes, Totals, PacketResults
    <3>2. Len(delivered) \in Nat
      BY DEF RunInv, InputTypes
    <3>3. SumFunctionOnSet(totals, PacketResults) \in Int
      BY <3>1, SumType, ResultsFinite
    <3> QED BY <3>1, <3>2, <3>3
  <2>3. totals["packets"] = SumFunctionOnSet(totals, PacketResults)
    BY <2>1, <2>2 DEF PacketsCounted, Counted
  <2>4. totals["COMPLETE"] = Cardinality(accepted)
    BY <2>1, <2>2 DEF AcceptedCounted, Pending
  <2>5. Len(delivered) - totals["packets"] \in
          IF stop_requested \/ pc = "after_read" THEN {0, 1} ELSE {0}
    BY <2>1, <2>2 DEF DeliveredCounted, Arrived
  <2>6. pc # "exited" /\ "feature" \in config.csv =>
          Len(rows["feature"]) = totals["expired"] + totals["evicted"]
    BY <2>1 DEF RowsCounted, RestWritten, Closing
  <2> QED BY <2>3, <2>4, <2>5, <2>6 DEF SummaryAddsUp
<1> QED BY <1>1, RunInvariance, PTL

-----------------------------------------------------------------------------
(* The packets that records and rows count. *)

(* The packets that a table counts for a flow. *)
Held(f, k, d) == IF k \in DOMAIN f THEN Sent(f[k], d) ELSE 0

LEMMA SentType ==
  ASSUME NEW r \in FlowRecords, NEW d \in Directions
  PROVE  Sent(r, d) \in Nat
BY CounterMaxAssumption DEF Sent, FlowRecords, DirectionStats, Counter

LEMMA SentByType ==
  ASSUME NEW R, R \subseteq FlowRecords, IsFiniteSet(R), NEW k, NEW d \in Directions
  PROVE  SentBy(R, k, d) \in Nat
<1> DEFINE f == [r \in R |-> Sent(r, d)]
           S == {r \in R : r.key = k}
<1>1. IsFiniteSet(S) /\ \A r \in S : f[r] \in Int /\ f[r] >= 0
  <2>1. \A r \in S : f[r] \in Nat
    BY SentType
  <2> QED BY <2>1, FS_Subset
<1> HIDE DEF f, S
<1>2. SumFunctionOnSet(f, S) \in Int /\ SumFunctionOnSet(f, S) >= 0
  BY <1>1, SumType
<1> QED BY <1>2 DEF SentBy, f, S

(* No record of a flow counts no packet of it, one counts its own.         *)
LEMMA SentByNone ==
  ASSUME NEW R, NEW k, NEW d, \A r \in R : r.key # k
  PROVE  SentBy(R, k, d) = 0
<1>1. {r \in R : r.key = k} = {}
  OBVIOUS
<1> QED BY <1>1, SumEmpty DEF SentBy

LEMMA SentByOne ==
  ASSUME NEW R, R \subseteq FlowRecords, NEW r \in R, NEW d \in Directions,
         \A s \in R : s.key = r.key => s = r
  PROVE  SentBy(R, r.key, d) = Sent(r, d)
<1> DEFINE f == [s \in R |-> Sent(s, d)]
<1>1. {s \in R : s.key = r.key} = {r} /\ f[r] = Sent(r, d) /\ f[r] \in Int
  BY SentType
<1> HIDE DEF f
<1>2. SumFunctionOnSet(f, {r}) = f[r]
  BY <1>1, SumOne
<1> QED BY <1>1, <1>2 DEF SentBy, f

(* Records of different flows add up. *)
LEMMA SentByBoth ==
  ASSUME NEW R, R \subseteq FlowRecords, IsFiniteSet(R), NEW Q, Q \subseteq FlowRecords, IsFiniteSet(Q),
         \A r \in R, q \in Q : r.key # q.key, NEW k, NEW d \in Directions
  PROVE  SentBy(R \cup Q, k, d) = SentBy(R, k, d) + SentBy(Q, k, d)
<1> DEFINE S == {r \in R : r.key = k}
           T == {q \in Q : q.key = k}
           f == [r \in R \cup Q |-> Sent(r, d)]
           fR == [r \in R |-> Sent(r, d)]
           fQ == [r \in Q |-> Sent(r, d)]
<1>1. /\ {r \in R \cup Q : r.key = k} = S \cup T /\ S \cap T = {}
      /\ IsFiniteSet(S) /\ IsFiniteSet(T)
  BY FS_Subset
<1>2. /\ \A x \in S \cup T : f[x] \in Int
      /\ \A x \in S : f[x] = fR[x]
      /\ \A x \in T : f[x] = fQ[x]
  BY SentType
<1> HIDE DEF S, T, f, fR, fQ
<1>3. SumFunctionOnSet(f, S \cup T) = SumFunctionOnSet(f, S) + SumFunctionOnSet(f, T)
  BY <1>1, <1>2, SumDisjoint
<1>4. SumFunctionOnSet(f, S) = SumFunctionOnSet(fR, S) /\ SumFunctionOnSet(f, T) = SumFunctionOnSet(fQ, T)
  BY <1>1, <1>2, SumSame
<1> QED BY <1>1, <1>3, <1>4 DEF SentBy, S, T, f, fR, fQ

(* Some of the records count no more than all of them. *)
LEMMA SentBySome ==
  ASSUME NEW R, R \subseteq FlowRecords, IsFiniteSet(R), NEW Q \in SUBSET R, NEW k, NEW d \in Directions
  PROVE  SentBy(Q, k, d) <= SentBy(R, k, d)
<1> DEFINE S == {r \in R : r.key = k}
           T == {q \in Q : q.key = k}
           fR == [r \in R |-> Sent(r, d)]
           fQ == [r \in Q |-> Sent(r, d)]
<1>1. /\ T \in SUBSET S /\ IsFiniteSet(S) /\ IsFiniteSet(T)
      /\ \A x \in S : fR[x] \in Nat
      /\ \A x \in T : fQ[x] = fR[x]
  <2>1. T \in SUBSET S
    OBVIOUS
  <2> QED BY <2>1, SentType, FS_Subset
<1> HIDE DEF S, T, fR, fQ
<1>2. SumFunctionOnSet(fR, T) <= SumFunctionOnSet(fR, S)
  BY <1>1, SumSubset
<1>3. SumFunctionOnSet(fQ, T) = SumFunctionOnSet(fR, T)
  BY <1>1, SumSame
<1> QED BY <1>2, <1>3 DEF SentBy, S, T, fR, fQ

(* A table counts for a flow what its record does. *)
LEMMA SentByTable ==
  ASSUME NEW f, IsTable(f), NEW k, NEW d \in Directions
  PROVE  SentBy(Recorded(f), k, d) = Held(f, k, d)
<1>1. \A j \in DOMAIN f : f[j] \in FlowRecords /\ f[j].key = j
  BY DEF IsTable
<1>2. CASE k \in DOMAIN f
  <2>1. /\ Recorded(f) \subseteq FlowRecords /\ f[k] \in Recorded(f) /\ f[k].key = k
        /\ \A s \in Recorded(f) : s.key = k => s = f[k]
    BY <1>1, <1>2 DEF Recorded
  <2> DEFINE r == f[k]
             R == Recorded(f)
  <2> HIDE DEF r, R
  <2>2. SentBy(R, r.key, d) = Sent(r, d)
    BY <2>1, SentByOne DEF r, R
  <2> QED BY <1>2, <2>1, <2>2 DEF Held, r, R
<1>3. CASE k \notin DOMAIN f
  <2>1. \A s \in Recorded(f) : s.key # k
    BY <1>1, <1>3 DEF Recorded
  <2> QED BY <1>3, <2>1, SentByNone DEF Held
<1> QED BY <1>2, <1>3

(* The packets of a flow in a sequence of rows. *)
SentIn(s, k, d) ==
  SumFunctionOnSet([i \in DOMAIN s |-> Sent(s[i], d)], {i \in DOMAIN s : s[i].key = k})

LEMMA SentInType ==
  ASSUME NEW s \in Seq(FlowRecords), NEW k, NEW d \in Directions
  PROVE  SentIn(s, k, d) \in Nat
<1> DEFINE f == [i \in DOMAIN s |-> Sent(s[i], d)]
           S == {i \in DOMAIN s : s[i].key = k}
<1>1. DOMAIN s = 1 .. Len(s) /\ Len(s) \in Nat /\ \A i \in DOMAIN s : s[i] \in FlowRecords
  OBVIOUS
<1>2. IsFiniteSet(S)
  <2>1. S \subseteq 1 .. Len(s)
    BY <1>1
  <2>2. IsFiniteSet(1 .. Len(s))
    BY <1>1, FS_Interval
  <2> QED BY <2>1, <2>2, FS_Subset
<1>3. \A i \in S : f[i] \in Int /\ f[i] >= 0
  <2>1. \A i \in S : f[i] \in Nat
    BY <1>1, SentType
  <2> QED BY <2>1
<1> HIDE DEF f, S
<1>4. SumFunctionOnSet(f, S) \in Int /\ SumFunctionOnSet(f, S) >= 0
  BY <1>2, <1>3, SumType
<1> QED BY <1>4 DEF SentIn, f, S

(* Rows appended for a set of records add what the records count. *)
LEMMA SentInAppended ==
  ASSUME NEW s \in Seq(FlowRecords), NEW R, R \subseteq FlowRecords, IsFiniteSet(R),
         NEW k, NEW d \in Directions
  PROVE  SentIn(s \o SetToSeq(R), k, d) = SentIn(s, k, d) + SentBy(R, k, d)
<1> DEFINE t == SetToSeq(R)
           w == s \o t
           n == Len(s)
           m == Len(t)
<1>1. /\ t \in Seq(R) /\ t \in Seq(FlowRecords)
      /\ \A i, j \in 1 .. m : t[i] = t[j] => i = j
      /\ \A r \in R : \E i \in 1 .. m : t[i] = r
  BY SetAsSequence
<1> HIDE DEF t
<1>2. /\ DOMAIN s = 1 .. n /\ DOMAIN t = 1 .. m /\ DOMAIN w = 1 .. n + m
      /\ n \in Nat /\ m \in Nat
      /\ w \in Seq(FlowRecords)
      /\ \A i \in 1 .. n : w[i] = s[i]
      /\ \A i \in n + 1 .. n + m : w[i] = t[i - n] /\ i - n \in 1 .. m
  BY <1>1
<1> HIDE DEF w, n, m
<1> DEFINE f == [i \in DOMAIN w |-> Sent(w[i], d)]
           g == [i \in DOMAIN s |-> Sent(s[i], d)]
           h == [r \in R |-> Sent(r, d)]
           Old == {i \in DOMAIN s : s[i].key = k}
           New == {i \in n + 1 .. n + m : w[i].key = k}
           All == {i \in DOMAIN w : w[i].key = k}
<1>3. All = Old \cup New /\ Old \cap New = {}
  <2>1. \A i \in 1 .. n + m : i \in 1 .. n \/ i \in n + 1 .. n + m
    BY <1>2
  <2>2. \A i \in 1 .. n : i \in 1 .. n + m /\ i \notin n + 1 .. n + m
    BY <1>2
  <2>3. \A i \in n + 1 .. n + m : i \in 1 .. n + m
    BY <1>2
  <2>4. \A i : i \in All <=> i \in Old \cup New
    <3>1. \A i \in 1 .. n : i \in Old <=> w[i].key = k
      BY <1>2
    <3>2. \A i \in n + 1 .. n + m : i \in New <=> w[i].key = k
      OBVIOUS
    <3>3. \A i \in Old : i \in 1 .. n
      BY <1>2
    <3>4. \A i \in New : i \in n + 1 .. n + m
      OBVIOUS
    <3> HIDE DEF Old, New
    <3> QED BY <1>2, <2>1, <2>2, <2>3, <3>1, <3>2, <3>3, <3>4
  <2>5. Old \cap New = {}
    BY <1>2, <2>2
  <2> HIDE DEF All, Old, New
  <2> QED BY <2>4, <2>5
<1>4. IsFiniteSet(Old) /\ IsFiniteSet(New)
  <2>1. IsFiniteSet(1 .. n) /\ IsFiniteSet(n + 1 .. n + m)
    <3>1. 1 \in Int /\ n \in Int /\ n + 1 \in Int /\ n + m \in Int
      BY <1>2
    <3> QED BY <3>1, FS_Interval
  <2>2. Old \subseteq 1 .. n /\ New \subseteq n + 1 .. n + m
    BY <1>2
  <2> QED BY <2>1, <2>2, FS_Subset
<1>5. \A i \in 1 .. n + m : f[i] = Sent(w[i], d) /\ f[i] \in Int
  <2>1. \A i \in 1 .. n + m : w[i] \in FlowRecords
    BY <1>2
  <2> QED BY <1>2, <2>1, SentType
<1>6. Old \subseteq 1 .. n + m /\ New \subseteq 1 .. n + m
  BY <1>2, <1>3
<1>7. SumFunctionOnSet(f, Old \cup New) = SumFunctionOnSet(f, Old) + SumFunctionOnSet(f, New)
  <2> HIDE DEF f, Old, New
  <2> QED BY <1>3, <1>4, <1>5, <1>6, SumDisjoint
<1>8. SumFunctionOnSet(f, Old) = SumFunctionOnSet(g, Old)
  <2>1. \A i \in Old : f[i] = g[i]
    BY <1>2, <1>5, <1>6
  <2> HIDE DEF f, g, Old
  <2> QED BY <1>4, <2>1, SumSame
<1>9. SumFunctionOnSet(f, New) = SumFunctionOnSet(h, {r \in R : r.key = k})
  <2>1. /\ \A i \in New : w[i] \in R /\ w[i].key = k
        /\ \A r \in R : r.key = k => \E i \in New : w[i] = r
    <3>1. \A i \in New : w[i] \in R /\ w[i].key = k
      <4>1. \A j \in 1 .. m : t[j] \in R
        BY <1>1, <1>2
      <4> QED BY <1>2, <4>1
    <3>2. ASSUME NEW r \in R, r.key = k PROVE \E i \in New : w[i] = r
      <4>1. PICK j \in 1 .. m : t[j] = r
        BY <1>1
      <4>2. n + j \in n + 1 .. n + m /\ (n + j) - n = j
        BY <1>2
      <4>3. w[n + j] = r
        BY <1>2, <4>1, <4>2
      <4> QED BY <3>2, <4>2, <4>3
    <3> QED BY <3>1, <3>2
  <2>2. \A i \in New : f[i] \in Int /\ h[w[i]] = f[i]
    <3>1. \A i \in New : w[i] \in R
      BY <2>1
    <3> QED BY <1>5, <1>6, <3>1
  <2>3. \A i, j \in New : w[i] = w[j] => i = j
    <3> SUFFICES ASSUME NEW i \in New, NEW j \in New, w[i] = w[j] PROVE i = j
      OBVIOUS
    <3>1. t[i - n] = t[j - n] /\ i - n \in 1 .. m /\ j - n \in 1 .. m
      BY <1>2
    <3>2. i - n = j - n
      BY <1>1, <3>1
    <3> QED BY <1>2, <3>2
  <2> DEFINE T == {r \in R : r.key = k}
  <2>4. (\A i \in New : w[i] \in T) /\ \A r \in T : \E i \in New : w[i] = r
    BY <2>1
  <2> HIDE DEF f, h, New, T
  <2>5. SumFunctionOnSet(h, T) = SumFunctionOnSet(f, New)
    <3>1. Renames(w, New, f, T, h)
      BY <2>2, <2>3, <2>4 DEF Renames
    <3> QED BY <1>4, <3>1, SumRenamed
  <2> QED BY <2>5 DEF T
<1>10. /\ SentIn(w, k, d) = SumFunctionOnSet(f, Old \cup New)
       /\ SentIn(s, k, d) = SumFunctionOnSet(g, Old)
       /\ SentBy(R, k, d) = SumFunctionOnSet(h, {r \in R : r.key = k})
  BY <1>3 DEF SentIn, SentBy
<1> HIDE DEF f, g, h, Old, New
<1> QED BY <1>7, <1>8, <1>9, <1>10 DEF w, t

LEMMA SentInRowsIs ==
  ASSUME NEW sink, NEW k, NEW d
  PROVE  /\ SentInRows(sink, k, d) = SentIn(rows[sink], k, d)
         /\ SentInRows(sink, k, d)' = SentIn(rows'[sink], k, d)
BY DEF SentInRows, SentIn

-----------------------------------------------------------------------------
(* What leaves the table, and what follows an error. *)

(* No more steps of the loop follow an error. *)
AfterError == error # "0" => pc \in Aborting \cup Closing

LEMMA AfterErrorKept == AfterError /\ [Next]_vars => AfterError'
<1> SUFFICES ASSUME AfterError, [Next]_vars, error' # "0" PROVE pc' \in Aborting \cup Closing
  BY DEF AfterError
<1> USE DEF Aborting, Closing, AfterError
<1>1. CASE InstallHandlers \/ AppRun \/ OpenCapture \/ InitTable \/ PublishCapture
  BY <1>1 DEF InstallHandlers, AppRun, OpenCapture, InitTable, PublishCapture, Goto, FailTo, Fault
<1>2. CASE HandlesFiles
  <2>1. CASE CreateFlowFile
    <3>1. CreateFile("flow", "create_flow", "create_feature", "close_flow", "return")
      BY <2>1 DEF CreateFlowFile
    <3>2. /\ pc = "create_flow"
          /\ pc' \in {"close_flow", "return"} \/ (pc' = "create_feature" /\ UNCHANGED error)
      <4> HIDE DEF AfterError
      <4> QED BY <3>1, CreateFileSteps, Zenon
    <3> QED BY <3>2
  <2>2. CASE CreateFeatureFile
    <3>1. CreateFile("feature", "create_feature", "open", "close_feature", "close_flow")
      BY <2>2 DEF CreateFeatureFile
    <3>2. /\ pc = "create_feature"
          /\ pc' \in {"close_feature", "close_flow"} \/ (pc' = "open" /\ UNCHANGED error)
      <4> HIDE DEF AfterError
      <4> QED BY <3>1, CreateFileSteps, Zenon
    <3> QED BY <3>2
  <2>3. CASE CloseFeatureFile \/ CloseFlowFile
    <3>1. ASSUME NEW sink, NEW step, NEW next, CloseFile(sink, step, next) PROVE pc' = next
      BY <3>1, CloseFileSteps
    <3>2. pc' \in {"close_flow", "return"}
      BY <2>3, <3>1 DEF CloseFeatureFile, CloseFlowFile
    <3> QED BY <3>2
  <2> QED BY <1>2, <2>1, <2>2, <2>3 DEF HandlesFiles
<1>3. CASE LoopTop \/ ReadPacket \/ AfterRead \/ Poll
  BY <1>3 DEF LoopTop, ReadPacket, AfterRead, Poll, Goto, Fault
<1>4. CASE ObservePacket \/ ProcessPacket \/ CountResult
  BY <1>4 DEF ObservePacket, ProcessPacket, ClassifyPacket, TrackPacket, CountResult,
              Goto, FailTo, Fault
<1>5. CASE WritesRows
  BY <1>5, RowsMoves
<1>6. CASE UnpublishCapture \/ CloseCapture \/ AbortRun \/ PrintSummary \/ Return
  BY <1>6 DEF UnpublishCapture, CloseCapture, AbortRun, PrintSummary, Return, Goto, Fault
<1>7. CASE StopSignal \/ UNCHANGED vars
  BY <1>7 DEF StopSignal, vars
<1> QED BY <1>1, <1>2, <1>3, <1>4, <1>5, <1>6, <1>7 DEF Next, Thread, HandlesFiles, WritesRows

(* A table that is not in use holds nothing. *)
ClosedTable == ~open => DOMAIN flows = {}

LEMMA NoFlowsEmpty == DOMAIN NoFlows = {}
BY DEF NoFlows

LEMMA ClosedTableKept == ClosedTable /\ [Next]_vars => ClosedTable'
<1> SUFFICES ASSUME ClosedTable, [Next]_vars PROVE ClosedTable'
  OBVIOUS
<1>1. ASSUME UNCHANGED <<flows, open>> PROVE ClosedTable'
  BY <1>1 DEF ClosedTable
<1>2. CASE InitTable \/ AbortRun \/ PrintSummary
  <2>1. flows' = NoFlows
    BY <1>2 DEF InitTable, AbortRun, PrintSummary, Open, Close
  <2> QED BY <2>1, NoFlowsEmpty DEF ClosedTable
<1>3. ASSUME NEW p, NEW evict, Process(p, evict) PROVE ClosedTable'
  <2>1. UNCHANGED open /\ (UNCHANGED flows \/ open)
    BY <1>3 DEF Process, Update, Create, Refuse
  <2> QED BY <2>1 DEF ClosedTable
<1>4. ASSUME NEW cutoff, NEW size, Expire(cutoff, size) PROVE ClosedTable'
  <2>1. UNCHANGED open /\ (UNCHANGED flows \/ open)
    BY <1>4 DEF Expire, Refuse
  <2> QED BY <2>1 DEF ClosedTable
<1>5. CASE ObservePacket \/ ProcessPacket
  BY <1>1, <1>3, <1>4, <1>5 DEF ObservePacket, ProcessPacket, ClassifyPacket, TrackPacket, mapVars
<1>6. CASE HandlesFiles \/ WritesRows
  BY <1>1, <1>6, FileMoves, RowsMoves
<1>7. CASE \/ InstallHandlers \/ AppRun \/ OpenCapture \/ PublishCapture \/ LoopTop \/ ReadPacket
           \/ AfterRead \/ Poll \/ CountResult \/ UnpublishCapture \/ CloseCapture \/ Return
  BY <1>1, <1>7 DEF InstallHandlers, AppRun, OpenCapture, PublishCapture, LoopTop, ReadPacket,
                    AfterRead, Poll, CountResult, UnpublishCapture, CloseCapture, Return, mapVars
<1>8. CASE StopSignal \/ UNCHANGED vars
  BY <1>1, <1>8 DEF StopSignal, vars, mapVars
<1> QED BY <1>2, <1>5, <1>6, <1>7, <1>8 DEF Next, Thread, HandlesFiles, WritesRows

(* Records that left the table and are not written yet are of other flows  *)
(* than those that stay.                                                   *)
LeftInv ==
  pc \in {"expired_flow", "expired_feature", "evicted"} =>
    \A r \in result.out : r.key \notin DOMAIN flows

LEMMA LeftKept == TableTypes /\ LeftInv /\ [Next]_vars => LeftInv'
<1> SUFFICES ASSUME TableTypes, LeftInv, [Next]_vars,
                    pc' \in {"expired_flow", "expired_feature", "evicted"}
             PROVE  \A r \in result'.out : r.key \notin DOMAIN flows'
  BY DEF LeftInv
<1>1. \A k \in DOMAIN flows : flows[k].key = k
  BY DEF TableTypes, IsTable
<1>2. CASE ObservePacket
  <2>1. PICK cutoff : Expire(cutoff, Capacity) /\ result'.err = "0"
    BY <1>2 DEF ObservePacket, Goto, FailTo, Fault
  <2>2. flows' = Without(flows, Silent(cutoff)) /\ result'.out = {flows[k] : k \in Silent(cutoff)}
    BY <2>1, ExpireOutcomes
  <2>3. DOMAIN flows' = DOMAIN flows \ Silent(cutoff)
    BY <2>2 DEF Without
  <2>4. Silent(cutoff) \subseteq DOMAIN flows
    BY DEF Silent
  <2> QED BY <1>1, <2>2, <2>3, <2>4
<1>3. CASE ProcessPacket
  <2>1. Process(packet, config.evict)
    BY <1>3 DEF ProcessPacket, ClassifyPacket, TrackPacket, Goto, FailTo, Fault
  <2>2. CASE result'.out = {}
    BY <2>2
  <2>3. ASSUME NEW k \in DOMAIN flows, KeyOf(packet) \notin DOMAIN flows,
               flows' = With(Without(flows, {k}), flow_record_init(packet)),
               result'.out = {flows[k]}
        PROVE  \A r \in result'.out : r.key \notin DOMAIN flows'
    <3>1. DOMAIN flows' = (DOMAIN flows \ {k}) \cup {KeyOf(packet)}
      BY <2>3 DEF With, Without, flow_record_init
    <3> QED BY <1>1, <2>3, <3>1
  <2> QED BY <2>1, <2>2, <2>3, ProcessOutcomes
<1>4. CASE WritesRows
  BY <1>4, RowsMoves DEF LeftInv
<1>5. CASE StopSignal \/ UNCHANGED vars
  BY <1>5 DEF StopSignal, vars, mapVars, LeftInv
<1>6. ~HandlesFiles
  BY FileMoves
<1>7. ~(InstallHandlers \/ AppRun \/ OpenCapture \/ InitTable \/ PublishCapture \/ LoopTop
        \/ ReadPacket \/ AfterRead \/ Poll \/ CountResult)
  BY DEF InstallHandlers, AppRun, OpenCapture, InitTable, PublishCapture, LoopTop, ReadPacket,
         AfterRead, Poll, CountResult, Goto, FailTo, Fault
<1>8. ~(UnpublishCapture \/ CloseCapture \/ AbortRun \/ PrintSummary \/ Return)
  BY DEF UnpublishCapture, CloseCapture, AbortRun, PrintSummary, Return, Goto, Fault
<1> QED BY <1>2, <1>3, <1>4, <1>5, <1>6, <1>7, <1>8 DEF Next, Thread, HandlesFiles, WritesRows

-----------------------------------------------------------------------------
(* One more packet. *)

(* A run that writes a flow file evicts nothing. *)
LEMMA ConfigParts ==
  ASSUME InputTypes
  PROVE  config.csv \subseteq Sinks /\ ("flow" \in config.csv => ~config.evict)
BY ConfigsAssumption DEF InputTypes, Config, Accepted

(* The packets taken into flows, when one more is taken and when none is.  *)
Taken(k, d) == {i \in accepted : KeyOf(delivered[i]) = k /\ DirectionOf(delivered[i]) = d}

LEMMA TakenFinite ==
  ASSUME InputTypes, NEW k, NEW d
  PROVE  IsFiniteSet(Taken(k, d)) /\ SentByPackets(k, d) \in Nat
<1>1. DOMAIN delivered = 1 .. Len(delivered) /\ Len(delivered) \in Nat
  BY DEF InputTypes
<1>2. Taken(k, d) \subseteq 1 .. Len(delivered)
  BY <1>1 DEF Taken, InputTypes
<1>3. IsFiniteSet(1 .. Len(delivered))
  BY <1>1, FS_Interval
<1>4. IsFiniteSet(Taken(k, d))
  BY <1>2, <1>3, FS_Subset
<1> QED BY <1>4, FS_CardinalityType DEF SentByPackets, Taken

LEMMA TakenOneMore ==
  ASSUME InputTypes, NEW n \in DOMAIN delivered, n \notin accepted,
         accepted' = accepted \cup {n}, UNCHANGED delivered, NEW k, NEW d
  PROVE  SentByPackets(k, d)' =
           SentByPackets(k, d) +
             IF KeyOf(delivered[n]) = k /\ DirectionOf(delivered[n]) = d THEN 1 ELSE 0
<1> DEFINE S == Taken(k, d)
<1>1. IsFiniteSet(S) /\ n \notin S /\ Cardinality(S) \in Nat
  BY TakenFinite, FS_CardinalityType DEF Taken
<1>2. Cardinality(S \cup {n}) = Cardinality(S) + 1
  <2> HIDE DEF S
  <2> QED BY <1>1, FS_AddElement
<1>3. /\ SentByPackets(k, d) = Cardinality(S)
      /\ SentByPackets(k, d)' =
           Cardinality({i \in accepted \cup {n} :
                          KeyOf(delivered[i]) = k /\ DirectionOf(delivered[i]) = d})
  BY DEF SentByPackets, Taken
<1>4. CASE KeyOf(delivered[n]) = k /\ DirectionOf(delivered[n]) = d
  <2>1. {i \in accepted \cup {n} : KeyOf(delivered[i]) = k /\ DirectionOf(delivered[i]) = d}
          = S \cup {n}
    BY <1>4 DEF Taken
  <2> QED BY <1>2, <1>3, <1>4, <2>1
<1>5. CASE ~(KeyOf(delivered[n]) = k /\ DirectionOf(delivered[n]) = d)
  <2>1. {i \in accepted \cup {n} : KeyOf(delivered[i]) = k /\ DirectionOf(delivered[i]) = d} = S
    BY <1>5 DEF Taken
  <2> QED BY <1>1, <1>3, <1>5, <2>1
<1> QED BY <1>4, <1>5

LEMMA TakenSame ==
  ASSUME InputTypes, UNCHANGED accepted, \A i \in DOMAIN delivered : delivered'[i] = delivered[i],
         NEW k, NEW d
  PROVE  SentByPackets(k, d)' = SentByPackets(k, d)
<1>1. {i \in accepted : KeyOf(delivered'[i]) = k /\ DirectionOf(delivered'[i]) = d} = Taken(k, d)
  BY DEF Taken, InputTypes
<1> QED BY <1>1 DEF SentByPackets, Taken

(* What one more packet makes of the counts of a record. *)
LEMMA RecordCounts ==
  ASSUME NEW p \in PacketInfo, NEW d \in Directions
  PROVE  /\ RecordInitError(p) = "0" =>
              Sent(flow_record_init(p), d) = IF d = DirectionOf(p) THEN 1 ELSE 0
         /\ \A r \in FlowRecords : RecordUpdateError(r, p) = "0" =>
              Sent(flow_record_update(r, p), d) = Sent(r, d) + IF d = DirectionOf(p) THEN 1 ELSE 0
<1>1. Sent(flow_record_init(p), d) = IF d = DirectionOf(p) THEN 1 ELSE 0
  BY DEF Sent, flow_record_init, flow_direction_stats_add_packet, ZeroStats
<1>2. ASSUME NEW r \in FlowRecords
      PROVE  Sent(flow_record_update(r, p), d) = Sent(r, d) + IF d = DirectionOf(p) THEN 1 ELSE 0
  <2>1. r.stats \in [Directions -> DirectionStats] /\ Sent(r, d) \in Nat
    BY SentType DEF FlowRecords
  <2>2. flow_record_update(r, p).stats =
          [r.stats EXCEPT ![DirectionOf(p)] = flow_direction_stats_add_packet(@, p)]
    BY DEF flow_record_update, FlowRecords
  <2> QED BY <2>1, <2>2 DEF Sent, flow_direction_stats_add_packet
<1> QED BY <1>1, <1>2

(* A packet that the table takes is counted in one record, and no other    *)
(* packet is lost: a record that was evicted is given back.                *)
LEMMA ProcessCounts ==
  ASSUME TableTypes, NEW p \in PacketInfo, NEW evict, Process(p, evict), result'.err = "0",
         NEW k, NEW d \in Directions
  PROVE  LET more == IF KeyOf(p) = k /\ DirectionOf(p) = d THEN 1 ELSE 0 IN
         IF result'.out = {}
         THEN Held(flows', k, d) = Held(flows, k, d) + more
         ELSE SentBy(result'.out \cup Recorded(flows'), k, d) = Held(flows, k, d) + more
<1> DEFINE more == IF KeyOf(p) = k /\ DirectionOf(p) = d THEN 1 ELSE 0
<1>0. /\ IsTable(flows)
      /\ \A j \in DOMAIN flows : flows[j] \in FlowRecords /\ flows[j].key = j /\ Sent(flows[j], d) \in Nat
      /\ TableTypes' /\ IsTable(flows')
  <2>1. IsTable(flows) /\ \A j \in DOMAIN flows : flows[j] \in FlowRecords /\ flows[j].key = j
    BY DEF TableTypes, IsTable
  <2>2. TableTypes'
    BY ProcessKeepsTypes
  <2>3. IsTable(flows')
    BY <2>2 DEF TableTypes
  <2> QED BY <2>1, <2>2, <2>3, SentType
<1>1. ASSUME KeyOf(p) \in DOMAIN flows, RecordUpdateError(flows[KeyOf(p)], p) = "0",
             flows' = With(flows, flow_record_update(flows[KeyOf(p)], p))
      PROVE  Held(flows', k, d) = Held(flows, k, d) + more
  <2> DEFINE r == flows[KeyOf(p)]
             q == flow_record_update(r, p)
  <2>1. /\ r \in FlowRecords /\ r.key = KeyOf(p) /\ q \in FlowRecords /\ q.key = KeyOf(p)
        /\ Sent(q, d) = Sent(r, d) + IF d = DirectionOf(p) THEN 1 ELSE 0
    BY <1>0, <1>1, RecordUpdateType, RecordCounts
  <2> HIDE DEF q
  <2>2. /\ DOMAIN flows' = DOMAIN flows \cup {q.key} /\ flows'[q.key] = q
        /\ \A j \in DOMAIN flows \ {q.key} : flows'[j] = flows[j]
    <3>1. flows' = With(flows, q)
      BY <1>1 DEF q
    <3>2. /\ DOMAIN With(flows, q) = DOMAIN flows \cup {q.key} /\ With(flows, q)[q.key] = q
          /\ \A j \in DOMAIN flows \ {q.key} : With(flows, q)[j] = flows[j]
      BY <1>0, <2>1, WithRecord, ZenonT(40)
    <3> QED BY <3>1, <3>2
  <2>3. Sent(r, d) \in Nat
    BY <1>0, <1>1
  <2>4. CASE k = KeyOf(p)
    BY <1>1, <2>1, <2>2, <2>3, <2>4 DEF Held
  <2>5. CASE k # KeyOf(p)
    BY <1>0, <1>1, <2>1, <2>2, <2>5 DEF Held
  <2> QED BY <2>4, <2>5
<1> DEFINE q == flow_record_init(p)
<1>2. RecordInitError(p) = "0" =>
        /\ q \in FlowRecords /\ q.key = KeyOf(p)
        /\ Sent(q, d) = IF d = DirectionOf(p) THEN 1 ELSE 0
  BY RecordInitType, RecordCounts
<1> HIDE DEF q
<1>3. ASSUME NEW f, IsTable(f), KeyOf(p) \notin DOMAIN f, RecordInitError(p) = "0"
      PROVE  Held(With(f, q), k, d) = Held(f, k, d) + more
  <2>1. /\ DOMAIN With(f, q) = DOMAIN f \cup {KeyOf(p)} /\ With(f, q)[KeyOf(p)] = q
        /\ \A j \in DOMAIN f \ {KeyOf(p)} : With(f, q)[j] = f[j]
    <3>1. /\ DOMAIN With(f, q) = DOMAIN f \cup {q.key} /\ With(f, q)[q.key] = q
          /\ \A j \in DOMAIN f \ {q.key} : With(f, q)[j] = f[j]
      BY <1>2, <1>3, WithRecord
    <3> QED BY <1>2, <1>3, <3>1
  <2>2. CASE k = KeyOf(p)
    BY <1>2, <1>3, <2>1, <2>2 DEF Held
  <2>3. CASE k # KeyOf(p)
    <3>1. Held(f, k, d) \in Nat
      BY <1>3, SentType DEF Held, IsTable
    <3> QED BY <2>1, <2>3, <3>1 DEF Held
  <2> QED BY <2>2, <2>3
<1>4. ASSUME RecordInitError(p) = "0", KeyOf(p) \notin DOMAIN flows, NEW j \in DOMAIN flows,
             flows' = With(Without(flows, {j}), q), result'.out = {flows[j]}
      PROVE  SentBy(result'.out \cup Recorded(flows'), k, d) = Held(flows, k, d) + more
  <2> DEFINE rest == Without(flows, {j})
  <2>1. /\ IsTable(rest) /\ DOMAIN rest = DOMAIN flows \ {j}
        /\ \A i \in DOMAIN flows \ {j} : rest[i] = flows[i]
    BY <1>0, WithoutRecords
  <2> HIDE DEF rest
  <2>2. Held(flows', k, d) = Held(rest, k, d) + more /\ DOMAIN flows' = (DOMAIN flows \ {j}) \cup {KeyOf(p)}
    <3>1. flows' = With(rest, q) /\ KeyOf(p) \notin DOMAIN rest
      BY <1>4, <2>1 DEF rest
    <3>2. DOMAIN With(rest, q) = DOMAIN rest \cup {q.key}
      BY DEF With
    <3> QED BY <1>2, <1>3, <1>4, <2>1, <3>1, <3>2
  <2> DEFINE one == {flows[j]}
             kept == Recorded(flows')
  <2>3. /\ one \subseteq FlowRecords /\ IsFiniteSet(one)
        /\ kept \subseteq FlowRecords /\ IsFiniteSet(kept)
        /\ \A a \in one, b \in kept : a.key # b.key
    <3>1. one \subseteq FlowRecords /\ IsFiniteSet(one)
      BY <1>0, FS_Singleton
    <3>2. /\ kept \subseteq FlowRecords /\ IsFiniteSet(kept)
          /\ \A b \in kept : b.key \in DOMAIN flows'
      BY <1>0, RecordedTypes
    <3>4. j \notin DOMAIN flows'
      BY <1>4, <2>2
    <3> QED BY <1>0, <3>1, <3>2, <3>4
  <2> HIDE DEF one, kept
  <2>4. SentBy(one \cup kept, k, d) = SentBy(one, k, d) + SentBy(kept, k, d)
    BY <2>3, SentByBoth
  <2>5. SentBy(kept, k, d) = Held(flows', k, d)
    BY <1>0, SentByTable DEF kept
  <2>6. SentBy(one, k, d) = IF k = j THEN Sent(flows[j], d) ELSE 0
    <3>1. CASE k = j
      <4>1. flows[j] \in one /\ flows[j].key = j /\ \A s \in one : s = flows[j]
        BY <1>0 DEF one
      <4> DEFINE r == flows[j]
      <4> HIDE DEF r
      <4>2. SentBy(one, r.key, d) = Sent(r, d)
        BY <2>3, <4>1, SentByOne DEF r
      <4> QED BY <3>1, <4>1, <4>2 DEF r
    <3>2. CASE k # j
      <4>1. \A s \in one : s.key # k
        BY <1>0, <3>2 DEF one
      <4> QED BY <3>2, <4>1, SentByNone
    <3> QED BY <3>1, <3>2
  <2>7. SentBy(one, k, d) + Held(rest, k, d) = Held(flows, k, d)
    BY <1>0, <2>1, <2>6 DEF Held
  <2>8. SentBy(one, k, d) \in Nat /\ Held(rest, k, d) \in Nat /\ more \in Nat
    <3>1. SentBy(one, k, d) \in Nat
      BY <2>3, SentByType
    <3>2. Held(rest, k, d) \in Nat
      BY <1>0, <2>1 DEF Held
    <3> QED BY <3>1, <3>2
  <2>9. SentBy(one \cup kept, k, d) = Held(flows, k, d) + more
    <3> HIDE DEF more
    <3> QED BY <2>2, <2>4, <2>5, <2>7, <2>8
  <2> QED BY <1>4, <2>9 DEF one, kept
<1> QED
  <2> HIDE DEF more
  <2>1. \A j : result'.out = {flows[j]} => result'.out # {}
    OBVIOUS
  <2>2. CASE /\ KeyOf(p) \in DOMAIN flows
             /\ RecordUpdateError(flows[KeyOf(p)], p) = "0"
             /\ flows' = With(flows, flow_record_update(flows[KeyOf(p)], p))
             /\ result'.out = {}
    BY <1>1, <2>2 DEF more
  <2>3. CASE /\ KeyOf(p) \notin DOMAIN flows /\ RecordInitError(p) = "0"
             /\ flows' = With(flows, flow_record_init(p))
             /\ result'.out = {}
    BY <1>0, <1>3, <2>3 DEF more, q
  <2>4. CASE /\ KeyOf(p) \notin DOMAIN flows /\ RecordInitError(p) = "0"
             /\ \E j \in DOMAIN flows :
                  /\ flows' = With(Without(flows, {j}), flow_record_init(p))
                  /\ result'.out = {flows[j]}
    <3>1. PICK j \in DOMAIN flows : /\ flows' = With(Without(flows, {j}), q)
                                    /\ result'.out = {flows[j]}
      BY <2>4 DEF q
    <3>2. SentBy(result'.out \cup Recorded(flows'), k, d) = Held(flows, k, d) + more
      BY <1>4, <2>4, <3>1
    <3> QED BY <2>1, <3>1, <3>2 DEF more
  <2> QED BY <2>2, <2>3, <2>4, ProcessOutcomes

-----------------------------------------------------------------------------
(* Every packet in one row. *)

(* What is in the rows and what is still to be written is what was taken.  *)
Balance(sink, k, d) ==
  SentInRows(sink, k, d) + SentBy(Unwritten(sink), k, d) = SentByPackets(k, d)

Balanced == \A sink \in config.csv, d \in Directions : \A k : Balance(sink, k, d)

Bounded ==
  \A sink \in config.csv, d \in Directions : \A k : SentInRows(sink, k, d) <= SentByPackets(k, d)

(* Steps at which the unwritten records are those of the table. *)
InTable ==
  pc \notin {"expired_flow", "expired_feature", "evicted", "rest_feature", "summary"}

LEMMA UnwrittenInTable ==
  /\ InTable => \A sink : Unwritten(sink) = Recorded(flows)
  /\ InTable' => \A sink : Unwritten(sink)' = Recorded(flows')
<1>1. InTable => \A sink : Unwritten(sink) = Recorded(flows)
  BY DEF InTable, Unwritten, Remaining, Recorded
<1>2. InTable' => \A sink : Unwritten(sink)' = Recorded(flows')
  BY DEF InTable, Unwritten, Remaining, Recorded
<1> QED BY <1>1, <1>2

LEMMA UnwrittenTypes ==
  ASSUME TableTypes, NEW sink
  PROVE  Unwritten(sink) \subseteq FlowRecords /\ IsFiniteSet(Unwritten(sink))
<1>1. /\ Remaining \subseteq FlowRecords /\ IsFiniteSet(Remaining)
      /\ result.out \subseteq FlowRecords /\ IsFiniteSet(result.out)
      /\ IsFiniteSet({})
  BY RecordedTypes, FS_EmptySet DEF TableTypes, Remaining, Recorded
<1>2. \E A \in {result.out, {}}, B \in {Remaining, {}} : Unwritten(sink) = A \cup B
  BY DEF Unwritten
<1> QED BY <1>1, <1>2, FS_Union

(* Where rows, packets and unwritten records stay, so does the balance.    *)
LEMMA BalanceKept ==
  ASSUME Balanced, UNCHANGED <<config, rows>>,
         \A k, d : SentByPackets(k, d)' = SentByPackets(k, d),
         \A sink \in config.csv : Unwritten(sink)' = Unwritten(sink)
  PROVE  Balanced'
<1> SUFFICES ASSUME NEW sink \in config.csv, NEW k, NEW d \in Directions
             PROVE  Balance(sink, k, d)'
  BY DEF Balanced
<1>1. Balance(sink, k, d)
  BY DEF Balanced
<1>2. SentInRows(sink, k, d)' = SentInRows(sink, k, d)
  BY DEF SentInRows
<1>3. SentBy(Unwritten(sink), k, d)' = SentBy(Unwritten(sink), k, d)
  BY DEF SentBy
<1> QED BY <1>1, <1>2, <1>3 DEF Balance

(* The steps that neither write rows nor take a packet, but perhaps records*)
(* out of the table.                                                       *)
LEMMA QuietBalance ==
  ASSUME Quiet \/ ReadPacket \/ AfterRead \/ CountResult, error' = "0",
         CaptureInv, TableInv, ErrorInv, ClosedTable, InputTypes, TableTypes, Balanced
  PROVE  Balanced'
<1> HIDE DEF Balanced, Quiet
<1> USE DEF InTable
<1>1. UNCHANGED <<config, rows, accepted>> /\ \A i \in DOMAIN delivered : delivered'[i] = delivered[i]
  <2>1. CASE Quiet
    BY <2>1, QuietSteps
  <2>2. CASE AfterRead \/ CountResult
    BY <2>2 DEF AfterRead, CountResult, Goto, Fault, readVars, outputVars
  <2>3. CASE ReadPacket
    <3>1. UNCHANGED <<config, rows, accepted>>
      BY <2>3 DEF ReadPacket, Goto, countVars, outputVars
    <3>2. CASE UNCHANGED delivered
      BY <3>1, <3>2
    <3>3. CASE packet' \in Around.packets /\ delivered' = Append(delivered, packet')
      <4>1. packet' \in Packets
        BY <3>3, EnvironmentAssumption DEF Around, InputTypes
      <4> QED BY <3>1, <3>3, <4>1 DEF InputTypes
    <3> QED BY <2>3, <3>2, <3>3 DEF ReadPacket
  <2> QED BY <2>1, <2>2, <2>3
<1>2. \A k, d : SentByPackets(k, d)' = SentByPackets(k, d)
  BY <1>1, TakenSame
<1>3. ASSUME \A sink \in config.csv : Unwritten(sink)' = Unwritten(sink) PROVE Balanced'
  BY <1>1, <1>2, <1>3, BalanceKept
<1>4. CASE InTable /\ InTable' /\ Recorded(flows') = Recorded(flows)
  BY <1>3, <1>4, UnwrittenInTable
<1>5. CASE InstallHandlers \/ AppRun \/ OpenCapture \/ PublishCapture \/ LoopTop \/ ReadPacket
           \/ AfterRead \/ Poll \/ CountResult \/ UnpublishCapture \/ CloseCapture \/ Return
  <2>1. InTable /\ InTable' /\ UNCHANGED flows
    BY <1>5 DEF InstallHandlers, AppRun, OpenCapture, PublishCapture, LoopTop, ReadPacket,
                AfterRead, Poll, CountResult, UnpublishCapture, CloseCapture, Return,
                Goto, FailTo, Fault, mapVars
  <2> QED BY <1>4, <2>1
<1>6. CASE HandlesFiles
  BY <1>4, <1>6, FileMoves
<1>7. CASE InitTable
  <2>1. /\ pc = "init" /\ InTable' /\ flows' = NoFlows
    BY <1>7 DEF InitTable, Open, Goto, Fault
  <2>2. DOMAIN flows = {}
    BY <2>1 DEF TableInv, ClosedTable, Looping, Draining, Aborting
  <2>3. Recorded(flows) = {} /\ Recorded(flows') = {}
    BY <2>1, <2>2, NoFlowsEmpty DEF Recorded
  <2> QED BY <1>4, <2>1, <2>3
<1>8. CASE ObservePacket
  <2>1. pc = "observe" /\ UNCHANGED error
    BY <1>8 DEF ObservePacket, Goto, FailTo, Fault
  <2>2. CASE pc' = "process" /\ UNCHANGED mapVars
    BY <1>4, <2>1, <2>2 DEF mapVars
  <2>3. CASE pc' = "expired_flow" /\ result'.err = "0" /\ \E cutoff : Expire(cutoff, Capacity)
    <3>1. PICK cutoff : Expire(cutoff, Capacity)
      BY <2>3
    <3>2. /\ flows' = Without(flows, Silent(cutoff))
          /\ result'.out = {flows[k] : k \in Silent(cutoff)}
      BY <2>3, <3>1, ExpireOutcomes
    <3>3. result'.out \cup Recorded(flows') = Recorded(flows)
      BY <3>2 DEF Without, Recorded, Silent
    <3>4. \A sink : Unwritten(sink)' = result'.out \cup Recorded(flows')
      BY <2>3 DEF Unwritten, Remaining, Recorded
    <3> QED BY <1>3, <2>1, <3>3, <3>4, UnwrittenInTable
  <2> QED BY <1>8, <2>2, <2>3 DEF ObservePacket, Goto, FailTo, Fault
<1>9. CASE AbortRun
  BY <1>9 DEF AbortRun, ErrorInv, Goto, Aborting
<1>10. CASE PrintSummary
  <2>1. pc = "summary" /\ InTable' /\ flows' = NoFlows
    BY <1>10 DEF PrintSummary, Close, Goto, Fault
  <2>2. \A sink : Unwritten(sink)' = {}
    BY <2>1, NoFlowsEmpty, UnwrittenInTable DEF Recorded
  <2>3. \A sink : Unwritten(sink) = {}
    BY <2>1 DEF Unwritten
  <2> QED BY <1>3, <2>2, <2>3
<1>11. CASE StopSignal \/ UNCHANGED vars
  <2>1. UNCHANGED <<pc, flows, result>>
    BY <1>11 DEF StopSignal, vars, mapVars
  <2>2. \A sink : Unwritten(sink)' = Unwritten(sink)
    BY <2>1 DEF Unwritten, Remaining
  <2> QED BY <1>3, <2>2
<1> QED BY <1>5, <1>6, <1>7, <1>8, <1>9, <1>10, <1>11 DEF Quiet

(* The sink that a step writes to. *)
SinkOf == IF pc \in {"expired_flow", "rest_flow"} THEN "flow" ELSE "feature"

(* The outgoing records are among the unwritten ones of the sink, and the  *)
(* rest of those are of other flows.                                       *)
LEMMA OutgoingUnwritten ==
  ASSUME TableTypes, LeftInv,
         pc \in {"expired_flow", "expired_feature", "evicted", "rest_flow", "rest_feature"}
  PROVE  \E Rest \in {Recorded(flows), {}} :
           /\ Unwritten(SinkOf) = Outgoing \cup Rest
           /\ \A r \in Outgoing, q \in Rest : r.key # q.key
           /\ Rest = IF pc \in {"rest_flow", "rest_feature"} THEN {} ELSE Recorded(flows)
<1>1. Recorded(flows) = Remaining /\ \A q \in Recorded(flows) : q.key \in DOMAIN flows
  BY RecordedTypes DEF Recorded, Remaining, TableTypes
<1>2. CASE pc \in {"rest_flow", "rest_feature"}
  <2>1. Outgoing = Remaining /\ Unwritten(SinkOf) = Remaining
    BY <1>2 DEF Outgoing, Draining, SinkOf, Unwritten
  <2> QED BY <1>2, <2>1
<1>3. CASE pc \in {"expired_flow", "expired_feature", "evicted"}
  <2>1. Outgoing = result.out /\ Unwritten(SinkOf) = result.out \cup Remaining
    BY <1>3 DEF Outgoing, Draining, SinkOf, Unwritten
  <2> QED BY <1>1, <1>3, <2>1 DEF LeftInv
<1> QED BY <1>2, <1>3

LEMMA RowsBalance ==
  ASSUME WritesRows, error' = "0", InputTypes, TableTypes, RowsType, LeftInv, Balanced
  PROVE  Balanced'
<1> SUFFICES ASSUME NEW sink \in config.csv, NEW d \in Directions, NEW k
             PROVE  Balance(sink, k, d)'
  BY RowsMoves DEF Balanced
<1>1. /\ UNCHANGED <<config, accepted, delivered, flows, result>>
      /\ \/ pc = "expired_flow" /\ pc' = "expired_feature"
         \/ pc = "expired_feature" /\ pc' = "process"
         \/ pc = "evicted" /\ pc' = "count"
         \/ pc = "rest_flow" /\ pc' = "rest_feature"
         \/ pc = "rest_feature" /\ pc' = "summary"
  BY RowsMoves
<1>2. Balance(sink, k, d) /\ SentByPackets(k, d)' = SentByPackets(k, d) /\ sink \in Sinks
  BY <1>1, TakenSame, ConfigParts DEF Balanced
<1>3. /\ \A other \in Sinks \ {SinkOf} : rows'[other] = rows[other]
      /\ SinkOf \in config.csv => rows'[SinkOf] = rows[SinkOf] \o SetToSeq(Outgoing)
  <2>1. PICK s \in Sinks :
          /\ \A other \in Sinks \ {s} : rows'[other] = rows[other]
          /\ s = "flow" <=> pc \in {"expired_flow", "rest_flow"}
          /\ \/ s \notin config.csv /\ UNCHANGED rows
             \/ s \in config.csv /\ rows'[s] = rows[s] \o SetToSeq(Outgoing)
    BY <1>1, RowsWritten
  <2>2. s = SinkOf
    BY <2>1 DEF SinkOf, Sinks
  <2> QED BY <2>1, <2>2
<1>4. CASE sink # SinkOf
  <2>1. SentInRows(sink, k, d)' = SentInRows(sink, k, d)
    BY <1>2, <1>3, <1>4 DEF SentInRows
  <2>2. Unwritten(sink)' = Unwritten(sink)
    BY <1>1, <1>2, <1>4 DEF Unwritten, Remaining, SinkOf, Sinks
  <2>3. SentBy(Unwritten(sink), k, d)' = SentBy(Unwritten(sink), k, d)
    BY <2>2 DEF SentBy
  <2> QED BY <1>2, <2>1, <2>3 DEF Balance
<1>5. CASE sink = SinkOf
  <2>1. PICK Rest \in {Recorded(flows), {}} :
          /\ Unwritten(sink) = Outgoing \cup Rest
          /\ \A r \in Outgoing, q \in Rest : r.key # q.key
          /\ Rest = IF pc \in {"rest_flow", "rest_feature"} THEN {} ELSE Recorded(flows)
    BY <1>1, <1>5, OutgoingUnwritten
  <2>2. Unwritten(sink)' = Rest
    BY <1>1, <1>5, <2>1 DEF Unwritten, Remaining, Recorded, SinkOf
  <2>3. /\ Outgoing \subseteq FlowRecords /\ IsFiniteSet(Outgoing)
        /\ Rest \subseteq FlowRecords /\ IsFiniteSet(Rest)
    BY <2>1, OutgoingTypes, RecordedTypes, FS_EmptySet DEF TableTypes
  <2>4. SentBy(Unwritten(sink), k, d) = SentBy(Outgoing, k, d) + SentBy(Rest, k, d)
    BY <2>1, <2>3, SentByBoth
  <2>5. rows[sink] \in Seq(FlowRecords)
    BY <1>2 DEF RowsType
  <2>6. SentInRows(sink, k, d)' = SentInRows(sink, k, d) + SentBy(Outgoing, k, d)
    <3>1. SentIn(rows[sink] \o SetToSeq(Outgoing), k, d) =
            SentIn(rows[sink], k, d) + SentBy(Outgoing, k, d)
      BY <2>3, <2>5, SentInAppended
    <3>2. rows'[sink] = rows[sink] \o SetToSeq(Outgoing)
      BY <1>3, <1>5
    <3>3. SentInRows(sink, k, d)' = SentIn(rows'[sink], k, d) /\ SentInRows(sink, k, d) = SentIn(rows[sink], k, d)
      BY SentInRowsIs
    <3> QED BY <3>1, <3>2, <3>3
  <2>7. SentBy(Unwritten(sink), k, d)' = SentBy(Rest, k, d)
    BY <2>2 DEF SentBy
  <2>8. /\ SentBy(Outgoing, k, d) \in Nat /\ SentBy(Rest, k, d) \in Nat
        /\ SentInRows(sink, k, d) \in Nat
    BY <2>3, <2>5, SentByType, SentInType, SentInRowsIs
  <2> QED BY <1>2, <2>4, <2>6, <2>7, <2>8 DEF Balance
<1> QED BY <1>4, <1>5

LEMMA ProcessBalance ==
  ASSUME ProcessPacket, error' = "0", InputTypes, PacketInv, TableTypes, RowsType, Balanced
  PROVE  Balanced'
<1>1. /\ pc = "process" /\ pc' \in {"count", "evicted"}
      /\ UNCHANGED <<config, rows, delivered>> /\ packet.timestamp \in Timestamp
  BY ProcessSteps
<1>2. /\ packet \in PacketInfo /\ Len(delivered) \in DOMAIN delivered
      /\ packet = delivered[Len(delivered)] /\ Len(delivered) \notin accepted
  BY <1>1, LastPacket DEF Unseen, PacketInv
<1>3. CASE pc' = "count" /\ UNCHANGED <<accepted, flows>>
  <2>1. \A k, d : SentByPackets(k, d)' = SentByPackets(k, d)
    BY <1>1, <1>3, TakenSame
  <2>2. \A sink : Unwritten(sink)' = Unwritten(sink)
    BY <1>1, <1>3, UnwrittenInTable DEF InTable
  <2> QED BY <1>1, <2>1, <2>2, BalanceKept
<1>4. CASE /\ Process(packet, config.evict) /\ result'.err = "ENOSPC"
           /\ pc' = "count" /\ UNCHANGED accepted
  <2>1. UNCHANGED flows
    BY <1>4, ProcessOutcomes
  <2> QED BY <1>3, <1>4, <2>1
<1>5. CASE /\ Process(packet, config.evict) /\ result'.err = "0"
           /\ accepted' = accepted \cup {Len(delivered)}
           /\ pc' = IF result'.out = {} THEN "count" ELSE "evicted"
  <2> SUFFICES ASSUME NEW sink \in config.csv, NEW d \in Directions, NEW k
               PROVE  Balance(sink, k, d)'
    BY <1>1 DEF Balanced
  <2> DEFINE more == IF KeyOf(packet) = k /\ DirectionOf(packet) = d THEN 1 ELSE 0
  <2>1. SentByPackets(k, d)' = SentByPackets(k, d) + more
    BY <1>1, <1>2, <1>5, TakenOneMore
  <2>2. SentInRows(sink, k, d)' = SentInRows(sink, k, d) /\ SentInRows(sink, k, d) \in Nat
    <3>1. rows[sink] \in Seq(FlowRecords)
      BY ConfigParts DEF RowsType
    <3> QED BY <1>1, <3>1, SentInRowsIs, SentInType
  <2>3. SentBy(Unwritten(sink), k, d) = Held(flows, k, d)
    BY <1>1, UnwrittenInTable, SentByTable DEF InTable, TableTypes
  <2>4. Held(flows, k, d) \in Nat
    BY SentType DEF Held, TableTypes, IsTable
  <2>5. SentBy(Unwritten(sink), k, d)' = Held(flows, k, d) + more
    <3>1. TableTypes' /\ IsTable(flows')
      BY <1>2, <1>5, ProcessKeepsTypes DEF TableTypes
    <3>2. CASE result'.out = {}
      <4>1. Unwritten(sink)' = Recorded(flows')
        BY <1>5, <3>2, UnwrittenInTable DEF InTable
      <4>2. SentBy(Unwritten(sink), k, d)' = SentBy(Recorded(flows'), k, d)
        BY <4>1 DEF SentBy
      <4>3. SentBy(Recorded(flows'), k, d) = Held(flows', k, d)
        BY <3>1, SentByTable
      <4>4. Held(flows', k, d) = Held(flows, k, d) + more
        BY <1>2, <1>5, <3>2, ProcessCounts
      <4> QED BY <4>2, <4>3, <4>4
    <3>3. CASE result'.out # {}
      <4>1. sink # "flow"
        <5>1. config.evict
          BY <1>5, <3>3, ProcessOutcomes
        <5> QED BY <5>1, ConfigParts
      <4>2. Unwritten(sink)' = result'.out \cup Recorded(flows')
        BY <1>5, <3>3, <4>1 DEF Unwritten, Remaining, Recorded
      <4>3. SentBy(Unwritten(sink), k, d)' = SentBy(result'.out \cup Recorded(flows'), k, d)
        BY <4>2 DEF SentBy
      <4>4. SentBy(result'.out \cup Recorded(flows'), k, d) = Held(flows, k, d) + more
        BY <1>2, <1>5, <3>3, ProcessCounts
      <4> QED BY <4>3, <4>4
    <3> QED BY <3>2, <3>3
  <2>6. Balance(sink, k, d) /\ more \in Nat
    BY DEF Balanced
  <2> HIDE DEF more
  <2> QED BY <2>1, <2>2, <2>3, <2>4, <2>5, <2>6 DEF Balance
<1> QED BY <1>3, <1>4, <1>5, ProcessSteps

-----------------------------------------------------------------------------
(* Every packet in one row *)

(* Nothing is written twice by a run that balances, and the packets of     *)
(* each flow only become more.                                             *)
LEMMA BalanceBounds ==
  TableTypes /\ RowsType /\ Balanced /\ config.csv \subseteq Sinks => Bounded
<1> SUFFICES ASSUME TableTypes, RowsType, Balanced, config.csv \subseteq Sinks,
                    NEW sink \in config.csv, NEW d \in Directions, NEW k
             PROVE  SentInRows(sink, k, d) <= SentByPackets(k, d)
  BY DEF Bounded
<1>1. SentBy(Unwritten(sink), k, d) \in Nat
  BY UnwrittenTypes, SentByType
<1>2. SentInRows(sink, k, d) \in Nat
  <2>1. rows[sink] \in Seq(FlowRecords)
    BY DEF RowsType
  <2> QED BY <2>1, SentInType, SentInRowsIs
<1> QED BY <1>1, <1>2 DEF Balanced, Balance

LEMMA TakenGrows ==
  ASSUME InputTypes, InputTypes', accepted \subseteq accepted',
         \A i \in DOMAIN delivered : delivered'[i] = delivered[i], NEW k, NEW d
  PROVE  /\ SentByPackets(k, d) \in Nat /\ SentByPackets(k, d)' \in Nat
         /\ SentByPackets(k, d) <= SentByPackets(k, d)'
<1> DEFINE S == Taken(k, d)
           T == {i \in accepted' : KeyOf(delivered'[i]) = k /\ DirectionOf(delivered'[i]) = d}
<1>1. IsFiniteSet(T)
  <2>1. DOMAIN delivered' = 1 .. Len(delivered') /\ Len(delivered') \in Nat
    BY DEF InputTypes
  <2>2. IsFiniteSet(1 .. Len(delivered')) /\ T \subseteq 1 .. Len(delivered')
    BY <2>1, FS_Interval DEF InputTypes
  <2> QED BY <2>2, FS_Subset
<1>2. S \subseteq T
  BY DEF Taken, InputTypes
<1>3. SentByPackets(k, d) = Cardinality(S) /\ SentByPackets(k, d)' = Cardinality(T)
  BY DEF SentByPackets, Taken
<1> HIDE DEF S, T
<1>4. IsFiniteSet(S) /\ Cardinality(S) <= Cardinality(T)
  BY <1>1, <1>2, FS_Subset
<1>5. Cardinality(S) \in Nat /\ Cardinality(T) \in Nat
  BY <1>1, <1>4, FS_CardinalityType
<1> QED BY <1>3, <1>4, <1>5

(* A write that fails leaves no more in the file than a complete one.      *)
LEMMA FailedWriteBounds ==
  ASSUME WritesRows, pc' = "abort", error = "0",
         InputTypes, TableTypes, RowsType, LeftInv, Balanced, Bounded
  PROVE  Bounded'
<1> SUFFICES ASSUME NEW sink \in config.csv, NEW d \in Directions, NEW k
             PROVE  SentInRows(sink, k, d)' <= SentByPackets(k, d)'
  BY RowsMoves DEF Bounded
<1>1. /\ UNCHANGED <<config, accepted, delivered, flows, result>>
      /\ pc \in {"expired_flow", "expired_feature", "evicted", "rest_flow", "rest_feature"}
  BY RowsMoves
<1>2. /\ Balance(sink, k, d) /\ SentInRows(sink, k, d) <= SentByPackets(k, d)
      /\ SentByPackets(k, d)' = SentByPackets(k, d) /\ sink \in Sinks
  BY <1>1, TakenSame, ConfigParts DEF Balanced, Bounded
<1>3. PICK s \in Sinks :
        /\ \A other \in Sinks \ {s} : rows'[other] = rows[other]
        /\ s = "flow" <=> pc \in {"expired_flow", "rest_flow"}
        /\ \E some \in SUBSET Outgoing : rows'[s] = rows[s] \o SetToSeq(some)
  BY RowsWritten
<1>4. CASE sink # s
  <2>1. SentInRows(sink, k, d)' = SentInRows(sink, k, d)
    BY <1>2, <1>3, <1>4 DEF SentInRows
  <2> QED BY <1>2, <2>1
<1>5. CASE sink = s
  <2>0. sink = SinkOf
    BY <1>3, <1>5 DEF SinkOf, Sinks
  <2>1. PICK some \in SUBSET Outgoing : rows'[sink] = rows[sink] \o SetToSeq(some)
    BY <1>3, <1>5
  <2>2. /\ Outgoing \subseteq FlowRecords /\ IsFiniteSet(Outgoing)
        /\ some \subseteq FlowRecords /\ IsFiniteSet(some)
    BY OutgoingTypes, FS_Subset
  <2>3. /\ Outgoing \in SUBSET Unwritten(sink)
        /\ Unwritten(sink) \subseteq FlowRecords /\ IsFiniteSet(Unwritten(sink))
    BY <1>1, <2>0, OutgoingUnwritten, UnwrittenTypes
  <2>4. /\ SentBy(some, k, d) <= SentBy(Outgoing, k, d)
        /\ SentBy(Outgoing, k, d) <= SentBy(Unwritten(sink), k, d)
    BY <2>2, <2>3, SentBySome
  <2>5. rows[sink] \in Seq(FlowRecords)
    BY <1>2 DEF RowsType
  <2>6. SentIn(rows[sink] \o SetToSeq(some), k, d) = SentIn(rows[sink], k, d) + SentBy(some, k, d)
    BY <2>2, <2>5, SentInAppended
  <2>7. /\ SentInRows(sink, k, d)' = SentIn(rows'[sink], k, d)
        /\ SentInRows(sink, k, d) = SentIn(rows[sink], k, d)
    BY SentInRowsIs
  <2>8. /\ SentBy(some, k, d) \in Nat /\ SentBy(Outgoing, k, d) \in Nat
        /\ SentBy(Unwritten(sink), k, d) \in Nat /\ SentIn(rows[sink], k, d) \in Nat
    BY <2>2, <2>3, <2>5, SentByType, SentInType
  <2> QED BY <1>2, <2>1, <2>4, <2>6, <2>7, <2>8 DEF Balance
<1> QED BY <1>4, <1>5

(* Packets are delivered and taken into flows for good, and only the steps *)
(* that write rows change the rows.                                        *)
LEMMA HistoryGrows ==
  ASSUME InputTypes, [Next]_vars
  PROVE  /\ UNCHANGED config /\ accepted \subseteq accepted' /\ DOMAIN delivered \subseteq DOMAIN delivered'
         /\ \A i \in DOMAIN delivered : delivered'[i] = delivered[i]
         /\ ~WritesRows => UNCHANGED rows
<1>1. CASE InstallHandlers \/ AppRun \/ OpenCapture \/ InitTable \/ PublishCapture
  BY <1>1 DEF InstallHandlers, AppRun, OpenCapture, InitTable, PublishCapture,
              Goto, FailTo, Fault, readVars, countVars, outputVars
<1>2. CASE HandlesFiles \/ WritesRows
  BY <1>2, FileMoves, RowsMoves
<1>3. CASE LoopTop \/ AfterRead \/ Poll \/ ObservePacket \/ CountResult
  BY <1>3 DEF LoopTop, AfterRead, Poll, ObservePacket, CountResult, Goto, FailTo, Fault,
              readVars, countVars, outputVars
<1>4. CASE ProcessPacket
  BY <1>4 DEF ProcessPacket, ClassifyPacket, TrackPacket, Goto, FailTo, Fault, readVars, outputVars
<1>5. CASE UnpublishCapture \/ CloseCapture \/ AbortRun \/ PrintSummary \/ Return
  BY <1>5 DEF UnpublishCapture, CloseCapture, AbortRun, PrintSummary, Return, Goto, Fault,
              readVars, countVars, outputVars
<1>6. CASE ReadPacket
  <2>1. UNCHANGED <<config, rows, accepted>>
    BY <1>6 DEF ReadPacket, Goto, countVars, outputVars
  <2>2. CASE UNCHANGED delivered
    BY <2>1, <2>2
  <2>3. CASE packet' \in Around.packets /\ delivered' = Append(delivered, packet')
    <3>1. packet' \in Packets
      BY <2>3, EnvironmentAssumption DEF Around, InputTypes
    <3> QED BY <2>1, <2>3, <3>1 DEF InputTypes
  <2> QED BY <1>6, <2>2, <2>3 DEF ReadPacket
<1>7. CASE StopSignal \/ UNCHANGED vars
  BY <1>7 DEF StopSignal, vars, readVars, countVars, outputVars
<1> QED BY <1>1, <1>2, <1>3, <1>4, <1>5, <1>6, <1>7 DEF Next, Thread, HandlesFiles, WritesRows

RowsInv == (error = "0" => Balanced) /\ Bounded

LedgerInv == AfterError /\ ClosedTable /\ LeftInv /\ RowsInv

LEMMA LedgerInit == Init => LedgerInv
<1> SUFFICES ASSUME Init PROVE LedgerInv
  OBVIOUS
<1>1. /\ pc = "start" /\ error = "0" /\ flows = NoFlows /\ accepted = {}
      /\ rows = [f \in Sinks |-> <<>>]
  BY DEF Init, MapInit
<1>2. AfterError /\ ClosedTable /\ LeftInv
  BY <1>1, NoFlowsEmpty DEF AfterError, ClosedTable, LeftInv
<1>3. ASSUME NEW sink \in config.csv, NEW d \in Directions, NEW k
      PROVE  /\ SentInRows(sink, k, d) = 0 /\ SentBy(Unwritten(sink), k, d) = 0
             /\ SentByPackets(k, d) = 0
  <2>1. sink \in Sinks
    BY InputInit, ConfigParts
  <2>2. SentInRows(sink, k, d) = 0
    <3>1. {i \in DOMAIN rows[sink] : rows[sink][i].key = k} = {}
      BY <1>1, <2>1
    <3> QED BY <3>1, SumEmpty DEF SentInRows
  <2>3. Unwritten(sink) = {}
    BY <1>1, NoFlowsEmpty, UnwrittenInTable DEF InTable, Recorded
  <2>4. SentBy(Unwritten(sink), k, d) = 0
    BY <2>3, SentByNone
  <2>5. {i \in accepted : KeyOf(delivered[i]) = k /\ DirectionOf(delivered[i]) = d} = {}
    BY <1>1
  <2> QED BY <2>2, <2>4, <2>5, FS_EmptySet DEF SentByPackets
<1>4. RowsInv
  BY <1>3 DEF RowsInv, Balanced, Bounded, Balance
<1> QED BY <1>2, <1>4 DEF LedgerInv

LEMMA LedgerKept == RunInv /\ RunInv' /\ LedgerInv /\ [Next]_vars => LedgerInv'
<1> SUFFICES ASSUME RunInv, RunInv', LedgerInv, [Next]_vars PROVE LedgerInv'
  OBVIOUS
<1>0. /\ CaptureInv /\ TableInv /\ ErrorInv /\ InputTypes /\ PacketInv /\ TableTypes /\ RowsType
      /\ InputTypes' /\ TableTypes' /\ RowsType'
      /\ AfterError /\ ClosedTable /\ LeftInv /\ (error = "0" => Balanced) /\ Bounded
  BY DEF RunInv, ControlInv, LedgerInv, RowsInv
<1>1. AfterError' /\ ClosedTable' /\ LeftInv'
  BY <1>0, AfterErrorKept, ClosedTableKept, LeftKept
<1>2. \/ Quiet \/ ReadPacket \/ AfterRead \/ CountResult
      \/ WritesRows \/ ProcessPacket
  BY DEF Next, Thread, Quiet, HandlesFiles, WritesRows
<1>3. error' = "0" => Balanced'
  BY <1>0, <1>2, ErrorStays, QuietBalance, RowsBalance, ProcessBalance
<1>4. Bounded'
  <2>1. CASE error' = "0"
    <3>1. config'.csv \subseteq Sinks
      BY <1>0, ConfigsAssumption DEF InputTypes, Config
    <3>2. (TableTypes /\ RowsType /\ Balanced /\ config.csv \subseteq Sinks => Bounded)'
      BY BalanceBounds, PTL
    <3> QED BY <1>0, <1>3, <2>1, <3>1, <3>2
  <2>2. CASE WritesRows /\ pc' = "abort"
    <3>1. error = "0"
      BY <1>0, <2>2, RowsMoves DEF AfterError, Aborting, Closing
    <3> QED BY <1>0, <2>2, <3>1, FailedWriteBounds
  <2>3. CASE ~WritesRows
    <3>1. /\ UNCHANGED <<config, rows>> /\ accepted \subseteq accepted'
          /\ \A i \in DOMAIN delivered : delivered'[i] = delivered[i]
      BY <1>0, <2>3, HistoryGrows
    <3>2. \A sink, k, d : SentInRows(sink, k, d)' = SentInRows(sink, k, d)
      BY <3>1 DEF SentInRows
    <3>3. ASSUME NEW k, NEW d
          PROVE  /\ SentByPackets(k, d) \in Nat /\ SentByPackets(k, d)' \in Nat
                 /\ SentByPackets(k, d) <= SentByPackets(k, d)'
      BY <1>0, <3>1, TakenGrows
    <3>5. ASSUME NEW sink \in config.csv, NEW k, NEW d \in Directions
          PROVE  SentInRows(sink, k, d) \in Nat
      <4>1. rows[sink] \in Seq(FlowRecords)
        BY <1>0, ConfigParts DEF RowsType
      <4> QED BY <4>1, SentInRowsIs, SentInType
    <3> QED BY <1>0, <3>1, <3>2, <3>3, <3>5 DEF Bounded
  <2>4. CASE WritesRows /\ pc' # "abort" /\ error' # "0"
    <3>1. UNCHANGED error /\ pc \notin Aborting \cup Closing
      BY <2>4, RowsMoves DEF Aborting, Closing
    <3> QED BY <1>0, <2>4, <3>1 DEF AfterError
  <2> QED BY <2>1, <2>2, <2>3, <2>4
<1> QED BY <1>1, <1>3, <1>4 DEF LedgerInv, RowsInv

THEOREM LedgerInvariance == Spec => [](RunInv /\ LedgerInv)
<1>1. RunInv /\ RunInv' /\ LedgerInv /\ [Next]_vars => LedgerInv'
  BY LedgerKept
<1> QED BY LedgerInit, <1>1, RunInvariance, PTL DEF Spec

(* Every packet that was taken into a flow is counted by exactly one row   *)
(* of each requested file, or by one record that is still to be written;   *)
(* a run that failed has written none twice.                               *)
THEOREM RowsCorrect == Spec => []EveryPacketInOneRow
<1>1. LedgerInv => EveryPacketInOneRow
  BY DEF LedgerInv, RowsInv, Balanced, Bounded, Balance, EveryPacketInOneRow
<1> QED BY <1>1, LedgerInvariance, PTL

-----------------------------------------------------------------------------
(* The packets of a record *)

Total(s, B, field) == SumFunctionOnSet([i \in DOMAIN s |-> s[i][field]], B)

LengthFields == {"captured_length", "wire_length"}

(* The statistics of one direction are those of the packets B of s. *)
Tallies(s, B, stats) ==
  /\ stats.packet_count = Cardinality(B)
  /\ stats.captured_byte_count = Total(s, B, "captured_length")
  /\ stats.wire_byte_count = Total(s, B, "wire_length")

From(s, A, d) == {i \in A : DirectionOf(s[i]) = d}

(* The record r sums up the packets A of s. *)
Backs(s, A, r) ==
  /\ A \subseteq DOMAIN s /\ A # {}
  /\ \A i \in A : s[i] \in PacketInfo /\ KeyOf(s[i]) = r.key
  /\ \A d \in Directions : Tallies(s, From(s, A, d), r.stats[d])
  /\ \E i, j \in A : r.first_seen = s[i].timestamp /\ r.last_seen = s[j].timestamp
  /\ ~TimeBefore(r.last_seen, r.first_seen)
  /\ r.tcp_state.initialized <=> r.key.protocol = "TCP"

(* The packets of a sequence, and the sums of their lengths. *)
LEMMA PositionsFinite ==
  ASSUME NEW s \in Seq(Packets)
  PROVE  /\ \A B \in SUBSET DOMAIN s : IsFiniteSet(B) /\ Cardinality(B) \in Nat
         /\ \A i \in DOMAIN s, field \in LengthFields : s[i][field] \in Nat
<1>1. DOMAIN s = 1 .. Len(s) /\ Len(s) \in Nat /\ \A i \in DOMAIN s : s[i] \in Packets
  OBVIOUS
<1>2. ASSUME NEW B \in SUBSET DOMAIN s PROVE IsFiniteSet(B) /\ Cardinality(B) \in Nat
  <2>1. IsFiniteSet(1 .. Len(s))
    BY <1>1, FS_Interval
  <2>2. IsFiniteSet(B)
    BY <1>1, <2>1, FS_Subset
  <2> QED BY <2>2, FS_CardinalityType
<1>3. ASSUME NEW i \in DOMAIN s, NEW field \in LengthFields PROVE s[i][field] \in Nat
  <2>1. {s[i].captured_length, s[i].wire_length} \subseteq Nat
    BY <1>1, PacketsAssumption
  <2>2. CASE field = "captured_length"
    BY <2>1, <2>2
  <2>3. CASE field = "wire_length"
    BY <2>1, <2>3
  <2> QED BY <2>2, <2>3 DEF LengthFields
<1> QED BY <1>2, <1>3

LEMMA TotalType ==
  ASSUME NEW s \in Seq(Packets), NEW B \in SUBSET DOMAIN s, NEW field \in LengthFields
  PROVE  /\ Total(s, B, field) \in Nat
         /\ \A C \in SUBSET B : Total(s, C, field) <= Total(s, B, field)
<1> DEFINE f == [i \in DOMAIN s |-> s[i][field]]
<1>1. IsFiniteSet(B) /\ \A i \in B : f[i] \in Nat
  BY PositionsFinite
<1> HIDE DEF f
<1>2. SumFunctionOnSet(f, B) \in Int /\ SumFunctionOnSet(f, B) >= 0
  <2>1. \A i \in B : f[i] \in Int /\ f[i] >= 0
    BY <1>1
  <2> QED BY <1>1, <2>1, SumType
<1>3. \A C \in SUBSET B : SumFunctionOnSet(f, C) <= SumFunctionOnSet(f, B)
  BY <1>1, SumSubset
<1> QED BY <1>2, <1>3 DEF Total, f

LEMMA TotalOneMore ==
  ASSUME NEW s \in Seq(Packets), NEW B \in SUBSET DOMAIN s, NEW n \in DOMAIN s, n \notin B,
         NEW field \in LengthFields
  PROVE  Total(s, B \cup {n}, field) = s[n][field] + Total(s, B, field)
<1> DEFINE f == [i \in DOMAIN s |-> s[i][field]]
<1>1. IsFiniteSet(B) /\ (\A i \in B \cup {n} : f[i] \in Int) /\ f[n] = s[n][field]
  BY PositionsFinite
<1> HIDE DEF f
<1>2. SumFunctionOnSet(f, B \cup {n}) = f[n] + SumFunctionOnSet(f, B)
  BY <1>1, SumAdd
<1> QED BY <1>1, <1>2 DEF Total, f

LEMMA TotalSame ==
  ASSUME NEW s \in Seq(Packets), NEW t, NEW B \in SUBSET DOMAIN s, DOMAIN s \subseteq DOMAIN t,
         \A i \in DOMAIN s : t[i] = s[i], NEW field
  PROVE  Total(t, B, field) = Total(s, B, field)
<1> DEFINE f == [i \in DOMAIN s |-> s[i][field]]
           g == [i \in DOMAIN t |-> t[i][field]]
<1>1. IsFiniteSet(B) /\ \A i \in B : f[i] = g[i]
  BY PositionsFinite
<1> HIDE DEF f, g
<1>2. SumFunctionOnSet(f, B) = SumFunctionOnSet(g, B)
  BY <1>1, SumSame
<1> QED BY <1>2 DEF Total, f, g

(* More packets take nothing from what a record sums up. *)
LEMMA BacksLater ==
  ASSUME NEW s \in Seq(Packets), NEW t, DOMAIN s \subseteq DOMAIN t,
         \A i \in DOMAIN s : t[i] = s[i], NEW A, NEW r, Backs(s, A, r)
  PROVE  Backs(t, A, r)
<1>1. A \subseteq DOMAIN s /\ \A i \in A : t[i] = s[i]
  BY DEF Backs
<1>2. ASSUME NEW d \in Directions PROVE Tallies(t, From(t, A, d), r.stats[d])
  <2>1. From(t, A, d) = From(s, A, d) /\ From(s, A, d) \in SUBSET DOMAIN s
    BY <1>1 DEF From
  <2>2. Tallies(s, From(s, A, d), r.stats[d])
    BY DEF Backs
  <2>3. \A field : Total(t, From(s, A, d), field) = Total(s, From(s, A, d), field)
    BY <2>1, TotalSame
  <2> QED BY <2>1, <2>2, <2>3 DEF Tallies
<1> QED BY <1>1, <1>2 DEF Backs

LEMMA ObserveKeepsKind ==
  ASSUME NEW s \in TcpState, NEW d, NEW flags
  PROVE  tcp_flow_state_observe(s, d, flags).initialized = s.initialized
<1> DEFINE e == tcp_flow_event_from_flags(flags)
<1>0. s = [phase |-> s.phase, initiator_direction |-> s.initiator_direction,
           first_fin_direction |-> s.first_fin_direction,
           handshake_completed |-> s.handshake_completed, initialized |-> s.initialized]
  BY DEF TcpState
<1>1. /\ ObserveFin(s, d).initialized = s.initialized
      /\ [s EXCEPT !.phase = "RESET"].initialized = s.initialized
      /\ [s EXCEPT !.phase = "CLOSED"].initialized = s.initialized
  BY <1>0 DEF ObserveFin
<1> HIDE DEF e
<1>2. ObserveHandshake(s, d, e).initialized = s.initialized
  BY <1>0 DEF ObserveHandshake
<1> QED BY <1>1, <1>2 DEF tcp_flow_state_observe, e

(* A new record sums up its first packet. *)
LEMMA BacksFirst ==
  ASSUME NEW s \in Seq(Packets), NEW n \in DOMAIN s, s[n] \in PacketInfo, KeyError(s[n]) = "0"
  PROVE  Backs(s, {n}, flow_record_init(s[n]))
<1> DEFINE p == s[n]
           r == flow_record_init(p)
<1>0. p \in PacketInfo /\ DirectionOf(p) \in Directions
  BY KeyType
<1>1. /\ r.key = KeyOf(p) /\ r.first_seen = p.timestamp /\ r.last_seen = p.timestamp
      /\ \A d \in Directions :
           r.stats[d] = IF d = DirectionOf(p)
                        THEN flow_direction_stats_add_packet(ZeroStats, p) ELSE ZeroStats
      /\ r.tcp_state = IF p.protocol = "TCP"
                       THEN tcp_flow_state_observe(tcp_flow_state_init, DirectionOf(p), p.tcp_flags)
                       ELSE ZeroTcpState
  BY DEF flow_record_init
<1>2. r.key.protocol = p.protocol
  BY <1>1 DEF KeyOf
<1>3. r.tcp_state.initialized <=> p.protocol = "TCP"
  <2>1. tcp_flow_state_init.initialized = TRUE /\ ZeroTcpState.initialized = FALSE
    BY DEF tcp_flow_state_init, ZeroTcpState
  <2>2. CASE p.protocol = "TCP"
    <3>1. r.tcp_state = tcp_flow_state_observe(tcp_flow_state_init, DirectionOf(p), p.tcp_flags)
      BY <1>1, <2>2
    <3> HIDE DEF r, p
    <3>2. r.tcp_state.initialized = tcp_flow_state_init.initialized
      BY <3>1, ObserveKeepsKind, ZeroTypes
    <3> QED BY <2>1, <2>2, <3>2
  <2>3. CASE p.protocol # "TCP"
    BY <1>1, <2>1, <2>3
  <2> QED BY <2>2, <2>3
<1>4. ASSUME NEW d \in Directions PROVE Tallies(s, From(s, {n}, d), r.stats[d])
  <2>1. CASE d = DirectionOf(p)
    <3>1. From(s, {n}, d) = {n} /\ Cardinality({n}) = 1
      BY <2>1, FS_Singleton DEF From
    <3>2. \A field \in LengthFields : Total(s, {n}, field) = p[field]
      <4>1. TAKE field \in LengthFields
      <4>2. s[n][field] \in Int
        BY PositionsFinite
      <4> QED BY <4>2, SumOne DEF Total
    <3>3. /\ r.stats[d].packet_count = 1 /\ r.stats[d].captured_byte_count = p.captured_length
          /\ r.stats[d].wire_byte_count = p.wire_length
      <4>1. r.stats[d] = flow_direction_stats_add_packet(ZeroStats, p)
        BY <1>1, <2>1
      <4>2. p.captured_length \in Nat /\ p.wire_length \in Nat
        BY <1>0 DEF PacketInfo
      <4> HIDE DEF r, p
      <4> QED BY <4>1, <4>2 DEF flow_direction_stats_add_packet, ZeroStats
    <3>4. Total(s, {n}, "captured_length") = p.captured_length
          /\ Total(s, {n}, "wire_length") = p.wire_length
      BY <3>2 DEF LengthFields
    <3> HIDE DEF r, p
    <3> QED BY <3>1, <3>3, <3>4 DEF Tallies
  <2>2. CASE d # DirectionOf(p)
    <3>1. From(s, {n}, d) = {} /\ Cardinality({}) = 0
      BY <2>2, FS_EmptySet DEF From
    <3>2. r.stats[d] = ZeroStats
      BY <1>1, <2>2
    <3>3. \A field : Total(s, {}, field) = 0
      BY SumEmpty DEF Total
    <3> HIDE DEF r, p
    <3>4. /\ r.stats[d].packet_count = 0 /\ r.stats[d].captured_byte_count = 0
          /\ r.stats[d].wire_byte_count = 0
      BY <3>2 DEF ZeroStats
    <3> QED BY <3>1, <3>3, <3>4 DEF Tallies
  <2> QED BY <2>1, <2>2
<1>5. ~TimeBefore(p.timestamp, p.timestamp)
  <2>1. p.timestamp.seconds \in Int /\ p.timestamp.microseconds \in Int
    BY <1>0, TimestampParts DEF PacketInfo
  <2> QED BY <2>1 DEF TimeBefore
<1> HIDE DEF r
<1> QED BY <1>0, <1>1, <1>2, <1>3, <1>4, <1>5 DEF Backs, r

(* A record that takes one more packet sums up that one too. *)
LEMMA BacksNext ==
  ASSUME NEW s \in Seq(Packets), NEW A, NEW r \in FlowRecords, Backs(s, A, r),
         NEW n \in DOMAIN s, n \notin A, s[n] \in PacketInfo, RecordUpdateError(r, s[n]) = "0"
  PROVE  Backs(s, A \cup {n}, flow_record_update(r, s[n]))
<1> DEFINE p == s[n]
           q == flow_record_update(r, p)
<1>0. /\ KeyError(p) = "0" /\ r.key = KeyOf(p) /\ ~StatsOverflow(r.stats[DirectionOf(p)], p)
      /\ (r.tcp_state.initialized <=> p.protocol = "TCP")
      /\ DirectionOf(p) \in Directions
  <2>1. KeyError(p) = "0" /\ r.key = KeyOf(p)
    BY DEF RecordUpdateError
  <2>2. r.tcp_state.initialized \in BOOLEAN
    BY DEF FlowRecords, TcpState
  <2>3. /\ r.tcp_state.initialized = (p.protocol = "TCP")
        /\ ~StatsOverflow(r.stats[DirectionOf(p)], p)
    BY <2>1 DEF RecordUpdateError
  <2> QED BY <2>1, <2>2, <2>3, KeyType
<1>1. /\ q.key = r.key
      /\ q.first_seen = IF TimeBefore(p.timestamp, r.first_seen) THEN p.timestamp ELSE r.first_seen
      /\ q.last_seen = IF TimeBefore(r.last_seen, p.timestamp) THEN p.timestamp ELSE r.last_seen
      /\ \A d \in Directions :
           q.stats[d] = IF d = DirectionOf(p)
                        THEN flow_direction_stats_add_packet(r.stats[d], p) ELSE r.stats[d]
      /\ q.tcp_state = IF p.protocol = "TCP"
                       THEN tcp_flow_state_observe(r.tcp_state, DirectionOf(p), p.tcp_flags)
                       ELSE r.tcp_state
  BY <1>0 DEF flow_record_update, FlowRecords
<1>2. q.tcp_state.initialized <=> q.key.protocol = "TCP"
  <2>1. r.tcp_state \in TcpState
    BY DEF FlowRecords
  <2>2. q.tcp_state.initialized = r.tcp_state.initialized
    <3> HIDE DEF q, p
    <3> QED BY <1>1, <2>1, ObserveKeepsKind
  <2> HIDE DEF q
  <2> QED BY <1>1, <2>2 DEF Backs
<1>3. A \subseteq DOMAIN s /\ \A i \in A : s[i] \in PacketInfo /\ s[i].timestamp \in Timestamp
  BY DEF Backs, PacketInfo
<1>4. ASSUME NEW d \in Directions PROVE Tallies(s, From(s, A \cup {n}, d), q.stats[d])
  <2>0. Tallies(s, From(s, A, d), r.stats[d])
    BY DEF Backs
  <2>1. CASE d = DirectionOf(p)
    <3> DEFINE B == From(s, A, d)
    <3>1. From(s, A \cup {n}, d) = B \cup {n} /\ n \notin B /\ B \in SUBSET DOMAIN s
      BY <1>3, <2>1 DEF From
    <3>2. IsFiniteSet(B) /\ Cardinality(B) \in Nat
      BY <3>1, PositionsFinite
    <3> HIDE DEF B
    <3>3. Cardinality(B \cup {n}) = Cardinality(B) + 1
      BY <3>1, <3>2, FS_AddElement
    <3>4. /\ Total(s, B \cup {n}, "captured_length") = p.captured_length + Total(s, B, "captured_length")
          /\ Total(s, B \cup {n}, "wire_length") = p.wire_length + Total(s, B, "wire_length")
      BY <3>1, TotalOneMore DEF LengthFields
    <3>5. /\ Total(s, B, "captured_length") \in Nat /\ Total(s, B, "wire_length") \in Nat
      BY <3>1, TotalType DEF LengthFields
    <3>6. p.captured_length \in Nat /\ p.wire_length \in Nat
      BY DEF PacketInfo
    <3>7. q.stats[d] = flow_direction_stats_add_packet(r.stats[d], p)
      BY <1>1, <2>1
    <3>8. Tallies(s, B, r.stats[d])
      BY <2>0 DEF B
    <3> HIDE DEF q, p
    <3>9. Tallies(s, B \cup {n}, q.stats[d])
      BY <3>2, <3>3, <3>4, <3>5, <3>6, <3>7, <3>8 DEF Tallies, flow_direction_stats_add_packet
    <3> QED BY <3>1, <3>9
  <2>2. CASE d # DirectionOf(p)
    <3>1. From(s, A \cup {n}, d) = From(s, A, d)
      BY <2>2 DEF From
    <3>2. q.stats[d] = r.stats[d]
      BY <1>1, <2>2
    <3> QED BY <2>0, <3>1, <3>2
  <2> QED BY <2>1, <2>2
<1>5. PICK i, j \in A : r.first_seen = s[i].timestamp /\ r.last_seen = s[j].timestamp
  BY DEF Backs
<1>6. /\ \E a, b \in A \cup {n} : q.first_seen = s[a].timestamp /\ q.last_seen = s[b].timestamp
      /\ ~TimeBefore(q.last_seen, q.first_seen)
  <2>1. ~TimeBefore(r.last_seen, r.first_seen)
    BY DEF Backs
  <2>2. /\ p.timestamp \in Timestamp /\ r.first_seen \in Timestamp /\ r.last_seen \in Timestamp
    BY DEF PacketInfo, FlowRecords
  <2>3. /\ p.timestamp.seconds \in Int /\ p.timestamp.microseconds \in Int
        /\ r.first_seen.seconds \in Int /\ r.first_seen.microseconds \in Int
        /\ r.last_seen.seconds \in Int /\ r.last_seen.microseconds \in Int
    BY <2>2, TimestampParts
  <2>4. q.first_seen \in {r.first_seen, p.timestamp} /\ q.last_seen \in {r.last_seen, p.timestamp}
    BY <1>1
  <2>5. ~TimeBefore(q.last_seen, q.first_seen)
    <3> HIDE DEF p, q
    <3> QED BY <1>1, <2>1, <2>3 DEF TimeBefore
  <2>6. \E a \in A \cup {n} : q.first_seen = s[a].timestamp
    <3> HIDE DEF q
    <3> QED BY <1>5, <2>4
  <2>7. \E b \in A \cup {n} : q.last_seen = s[b].timestamp
    <3> HIDE DEF q
    <3> QED BY <1>5, <2>4
  <2> QED BY <2>5, <2>6, <2>7
<1>7. A # {} /\ \A a \in A : KeyOf(s[a]) = r.key
  BY DEF Backs
<1> HIDE DEF q
<1> QED BY <1>0, <1>1, <1>2, <1>3, <1>4, <1>6, <1>7 DEF Backs, q

(* Packets of which none claims more captured than sent bytes do not       *)
(* together either.                                                        *)
LEMMA TotalAtMost ==
  ASSUME NEW s \in Seq(Packets), NEW B \in SUBSET DOMAIN s,
         \A i \in B : s[i].captured_length <= s[i].wire_length
  PROVE  Total(s, B, "captured_length") <= Total(s, B, "wire_length")
<1> DEFINE c(T) == Total(s, T, "captured_length")
           w(T) == Total(s, T, "wire_length")
           Bad == {T \in SUBSET B : ~(c(T) <= w(T))}
<1>0. IsFiniteSet(B)
  BY PositionsFinite
<1> SUFFICES ASSUME Bad # {} PROVE FALSE
  OBVIOUS
<1>1. PICK T \in Bad : \A U \in Bad : U \subseteq T => U = T
  <2>1. Bad \subseteq SUBSET B
    OBVIOUS
  <2> HIDE DEF Bad
  <2> QED BY <1>0, <2>1, MinimalSet
<1>2. T \subseteq B /\ ~(c(T) <= w(T))
  BY <1>1
<1>3. T # {}
  <2>1. ASSUME T = {} PROVE c(T) = 0 /\ w(T) = 0
    BY <2>1, SumEmpty DEF Total
  <2>2. ASSUME c(T) = 0, w(T) = 0 PROVE FALSE
    BY <1>2, <2>2
  <2> QED BY <2>1, <2>2
<1>4. PICK x \in T : TRUE
  BY <1>3
<1> DEFINE U == T \ {x}
<1>5. U \subseteq B /\ U \subseteq T /\ U # T /\ x \notin U /\ T = U \cup {x} /\ x \in DOMAIN s
      /\ U \in SUBSET DOMAIN s
  BY <1>2, <1>4
<1>6. c(U) <= w(U)
  BY <1>1, <1>5
<1> HIDE DEF U
<1>7. c(U \cup {x}) = s[x].captured_length + c(U) /\ w(U \cup {x}) = s[x].wire_length + w(U)
  BY <1>5, TotalOneMore DEF LengthFields
<1>8. c(U) \in Nat /\ w(U) \in Nat
  BY <1>5, TotalType DEF LengthFields
<1>9. /\ s[x].captured_length \in Nat /\ s[x].wire_length \in Nat
      /\ s[x].captured_length <= s[x].wire_length
  BY <1>2, <1>4, <1>5, PositionsFinite DEF LengthFields
<1> HIDE DEF c, w
<1> QED BY <1>2, <1>5, <1>6, <1>7, <1>8, <1>9

(* Both directions together are all packets. *)
LEMMA BothDirections ==
  ASSUME NEW s \in Seq(Packets), NEW A \in SUBSET DOMAIN s
  PROVE  /\ Cardinality(A) = Cardinality(From(s, A, A_TO_B)) + Cardinality(From(s, A, B_TO_A))
         /\ \A field \in LengthFields :
              Total(s, A, field) =
                Total(s, From(s, A, A_TO_B), field) + Total(s, From(s, A, B_TO_A), field)
<1> DEFINE S == From(s, A, A_TO_B)
           T == From(s, A, B_TO_A)
<1>1. /\ S \cup T = A /\ S \cap T = {}
      /\ S \in SUBSET DOMAIN s /\ T \in SUBSET DOMAIN s
  <2>1. A_TO_B # B_TO_A /\ \A i \in A : DirectionOf(s[i]) \in {A_TO_B, B_TO_A}
    BY DEF DirectionOf, A_TO_B, B_TO_A
  <2> QED BY <2>1 DEF From
<1>2. IsFiniteSet(S) /\ IsFiniteSet(T)
  BY <1>1, PositionsFinite
<1> HIDE DEF S, T
<1>3. Cardinality(S \cup T) = Cardinality(S) + Cardinality(T)
  <2>1. Cardinality(S \cup T) = Cardinality(S) + Cardinality(T) - Cardinality(S \cap T)
    BY <1>2, FS_Union
  <2>2. Cardinality(S \cap T) = 0
    BY <1>1, FS_EmptySet
  <2>3. Cardinality(S) \in Nat /\ Cardinality(T) \in Nat
    BY <1>2, FS_CardinalityType
  <2> QED BY <2>1, <2>2, <2>3
<1>4. ASSUME NEW field \in LengthFields
      PROVE  Total(s, S \cup T, field) = Total(s, S, field) + Total(s, T, field)
  <2> DEFINE f == [i \in DOMAIN s |-> s[i][field]]
  <2>1. \A i \in S \cup T : f[i] \in Int
    BY <1>1, PositionsFinite
  <2> HIDE DEF f
  <2>2. SumFunctionOnSet(f, S \cup T) = SumFunctionOnSet(f, S) + SumFunctionOnSet(f, T)
    BY <1>1, <1>2, <2>1, SumDisjoint
  <2> QED BY <2>2 DEF Total, f
<1> QED BY <1>1, <1>3, <1>4 DEF S, T

(* Packets that no counter of a flow has room for. *)
Outgrows(s, A) ==
  \/ Cardinality(A) > CounterMax
  \/ \E field \in LengthFields : Total(s, A, field) > CounterMax

(* A record lacks a feature row only because of its packets. *)
LEMMA NoRowMeans ==
  ASSUME NEW s \in Seq(Packets), NEW A, NEW r \in FlowRecords, Backs(s, A, r),
         FeatureRowError(r) # "0"
  PROVE  \/ Outgrows(s, A)
         \/ \E i \in A : s[i].captured_length > s[i].wire_length
         \/ \E i, j \in A : DurationMicroseconds(s[i].timestamp, s[j].timestamp) > DurationMax
<1> SUFFICES ASSUME ~Outgrows(s, A),
                    \A i \in A : ~(s[i].captured_length > s[i].wire_length),
                    \A i, j \in A :
                      ~(DurationMicroseconds(s[i].timestamp, s[j].timestamp) > DurationMax)
             PROVE  FeatureRowError(r) = "0"
  OBVIOUS
<1> DEFINE a == r.stats[A_TO_B]
           b == r.stats[B_TO_A]
           S == From(s, A, A_TO_B)
           T == From(s, A, B_TO_A)
<1>1. /\ A \in SUBSET DOMAIN s /\ A # {} /\ S \in SUBSET DOMAIN s /\ T \in SUBSET DOMAIN s
      /\ S \subseteq A /\ T \subseteq A
  BY DEF Backs, From
<1>2. /\ a.packet_count = Cardinality(S)
      /\ a.captured_byte_count = Total(s, S, "captured_length")
      /\ a.wire_byte_count = Total(s, S, "wire_length")
      /\ b.packet_count = Cardinality(T)
      /\ b.captured_byte_count = Total(s, T, "captured_length")
      /\ b.wire_byte_count = Total(s, T, "wire_length")
  BY DEF Backs, Tallies, Directions
<1>3. /\ Cardinality(S) \in Nat /\ Cardinality(T) \in Nat /\ Cardinality(A) \in Nat
      /\ IsFiniteSet(A) /\ IsFiniteSet(S) /\ IsFiniteSet(T)
  BY <1>1, PositionsFinite
<1> HIDE DEF S, T
<1>4. /\ Cardinality(A) = a.packet_count + b.packet_count
      /\ Total(s, A, "captured_length") = a.captured_byte_count + b.captured_byte_count
      /\ Total(s, A, "wire_length") = a.wire_byte_count + b.wire_byte_count
  BY <1>1, <1>2, BothDirections DEF S, T, LengthFields
<1>5. /\ a.packet_count \in Nat /\ b.packet_count \in Nat
      /\ a.captured_byte_count \in Nat /\ a.wire_byte_count \in Nat
      /\ b.captured_byte_count \in Nat /\ b.wire_byte_count \in Nat
  BY <1>1, <1>2, <1>3, TotalType DEF LengthFields
<1>6. a.captured_byte_count <= a.wire_byte_count /\ b.captured_byte_count <= b.wire_byte_count
  <2>1. \A i \in A : s[i].captured_length \in Nat /\ s[i].wire_length \in Nat
    BY <1>1, PositionsFinite DEF LengthFields
  <2>2. \A i \in A : s[i].captured_length <= s[i].wire_length
    BY <2>1
  <2> QED BY <1>1, <1>2, <2>2, TotalAtMost
<1>7. /\ a.packet_count = 0 => a.captured_byte_count = 0 /\ a.wire_byte_count = 0
      /\ b.packet_count = 0 => b.captured_byte_count = 0 /\ b.wire_byte_count = 0
  <2>1. ASSUME NEW B, IsFiniteSet(B), Cardinality(B) = 0, NEW field PROVE Total(s, B, field) = 0
    <3>1. B = {}
      BY <2>1, FS_EmptySet
    <3> QED BY <3>1, SumEmpty DEF Total
  <2> QED BY <1>2, <1>3, <2>1
<1>8. /\ a.packet_count + b.packet_count <= CounterMax /\ a.packet_count + b.packet_count # 0
      /\ a.captured_byte_count + b.captured_byte_count <= CounterMax
      /\ a.wire_byte_count + b.wire_byte_count <= CounterMax
  <2>1. /\ ~(Cardinality(A) > CounterMax)
        /\ ~(Total(s, A, "captured_length") > CounterMax)
        /\ ~(Total(s, A, "wire_length") > CounterMax)
    BY DEF Outgrows, LengthFields
  <2>2. Cardinality(A) # 0
    BY <1>1, <1>3, FS_EmptySet
  <2> HIDE DEF a, b
  <2> QED BY <1>4, <1>5, <2>1, <2>2, CounterMaxAssumption
<1>9. ~(DurationMicroseconds(r.first_seen, r.last_seen) > DurationMax) /\ ~TimeBefore(r.last_seen, r.first_seen)
  BY DEF Backs
<1>10. r.tcp_state.initialized <=> r.key.protocol = "TCP"
  BY DEF Backs
<1>11. r.tcp_state.initialized \in BOOLEAN /\ (r.key.protocol = "TCP") \in BOOLEAN
  BY DEF FlowRecords, TcpState
<1> HIDE DEF a, b
<1>12. /\ TotalPackets(r) = a.packet_count + b.packet_count
       /\ TotalCaptured(r) = a.captured_byte_count + b.captured_byte_count
       /\ TotalWire(r) = a.wire_byte_count + b.wire_byte_count
  BY DEF TotalPackets, TotalCaptured, TotalWire, a, b
<1>13. FeaturesError(r) = "0"
  <2>1. (r.key.protocol = "TCP") = r.tcp_state.initialized
    BY <1>10, <1>11
  <2>2. \A d \in Directions : DirectionStatsValid(r.stats[d])
    <3>1. DirectionStatsValid(a) /\ DirectionStatsValid(b)
      BY <1>6, <1>7 DEF DirectionStatsValid
    <3> QED BY <3>1 DEF a, b, Directions
  <2>3. /\ ~(TotalPackets(r) > CounterMax) /\ TotalPackets(r) # 0
        /\ ~(TotalCaptured(r) > CounterMax) /\ ~(TotalWire(r) > CounterMax)
    BY <1>5, <1>8, <1>12, CounterMaxAssumption
  <2> QED BY <1>9, <2>1, <2>2, <2>3 DEF FeaturesError
<1>14. ExportError(flow_features_from_record(r)) = "0"
  <2> DEFINE f == flow_features_from_record(r)
  <2>1. /\ f.protocol = r.key.protocol
        /\ f.tcp_phase = IF r.key.protocol = "TCP" THEN r.tcp_state.phase ELSE "UNOBSERVED"
        /\ f.tcp_state_applicable = (r.key.protocol = "TCP")
        /\ f.tcp_handshake_completed = (r.key.protocol = "TCP" /\ r.tcp_state.handshake_completed)
        /\ f.total_packet_count = TotalPackets(r)
        /\ f.total_captured_byte_count = TotalCaptured(r)
        /\ f.total_wire_byte_count = TotalWire(r)
        /\ f.packet_count_imbalance_ratio = Imbalance(a.packet_count, b.packet_count, TotalPackets(r))
        /\ f.wire_byte_count_imbalance_ratio =
             Imbalance(a.wire_byte_count, b.wire_byte_count, TotalWire(r))
    BY DEF flow_features_from_record, a, b
  <2>2. ASSUME NEW x \in Nat, NEW y \in Nat PROVE RatioValid(Imbalance(x, y, x + y))
    BY <2>2 DEF RatioValid, Imbalance
  <2>3. /\ RatioValid(f.packet_count_imbalance_ratio)
        /\ RatioValid(f.wire_byte_count_imbalance_ratio)
    <3> HIDE DEF f
    <3> QED BY <1>5, <1>12, <2>1, <2>2
  <2>4. f.total_packet_count # 0 /\ ~(f.total_captured_byte_count > f.total_wire_byte_count)
    <3> HIDE DEF f
    <3> QED BY <1>5, <1>6, <1>8, <1>12, <2>1
  <2> HIDE DEF f
  <2>5. ExportError(f) = "0"
    BY <2>1, <2>3, <2>4 DEF ExportError
  <2> QED BY <2>5 DEF f
<1> QED BY <1>13, <1>14 DEF FeatureRowError

(* A packet is refused only because a counter of its flow has no room.     *)
LEMMA RefusalMeans ==
  ASSUME NEW s \in Seq(Packets), NEW n \in DOMAIN s, s[n] \in PacketInfo, KeyError(s[n]) = "0"
  PROVE  /\ RecordInitError(s[n]) # "0" => Outgrows(s, {n})
         /\ \A A, r : /\ Backs(s, A, r) /\ r \in FlowRecords /\ r.key = KeyOf(s[n]) /\ n \notin A
                      /\ RecordUpdateError(r, s[n]) # "0"
                      => Outgrows(s, A \cup {n})
<1> DEFINE p == s[n]
<1>0. p.captured_length \in Nat /\ p.wire_length \in Nat
  BY DEF PacketInfo
<1>1. ASSUME RecordInitError(p) # "0" PROVE Outgrows(s, {n})
  <2>1. StatsOverflow(ZeroStats, p)
    BY <1>1 DEF RecordInitError
  <2>2. p.captured_length > CounterMax \/ p.wire_length > CounterMax
    BY <1>0, <2>1, CounterMaxAssumption DEF StatsOverflow, ZeroStats
  <2>3. \A field \in LengthFields : Total(s, {n}, field) = s[n][field]
    <3>1. TAKE field \in LengthFields
    <3>2. s[n][field] \in Int
      BY PositionsFinite
    <3> QED BY <3>2, SumOne DEF Total
  <2> QED BY <2>2, <2>3 DEF Outgrows, LengthFields
<1>2. ASSUME NEW A, NEW r, Backs(s, A, r), r \in FlowRecords, r.key = KeyOf(p), n \notin A,
             RecordUpdateError(r, p) # "0"
      PROVE  Outgrows(s, A \cup {n})
  <2> DEFINE d == DirectionOf(p)
             B == From(s, A, d)
  <2>1. StatsOverflow(r.stats[d], p)
    <3>1. r.key.protocol = p.protocol
      BY <1>2 DEF KeyOf
    <3>2. r.tcp_state.initialized = (p.protocol = "TCP")
      <4>1. r.tcp_state.initialized \in BOOLEAN /\ (p.protocol = "TCP") \in BOOLEAN
        BY <1>2 DEF FlowRecords, TcpState
      <4>2. r.tcp_state.initialized <=> p.protocol = "TCP"
        BY <1>2, <3>1 DEF Backs
      <4> QED BY <4>1, <4>2
    <3> QED BY <1>2, <3>2 DEF RecordUpdateError
  <2>2. /\ d \in Directions /\ A \in SUBSET DOMAIN s /\ B \subseteq A
        /\ Tallies(s, B, r.stats[d])
    BY <1>2, KeyType DEF Backs, From
  <2> HIDE DEF B, d, p
  <2>3. /\ B \cup {n} \in SUBSET (A \cup {n}) /\ n \notin B /\ B \in SUBSET DOMAIN s
        /\ A \cup {n} \in SUBSET DOMAIN s
    BY <1>2, <2>2
  <2>4. /\ IsFiniteSet(B) /\ IsFiniteSet(A \cup {n}) /\ Cardinality(B) \in Nat
        /\ Cardinality(A \cup {n}) \in Nat
    BY <2>3, PositionsFinite
  <2>5. Cardinality(B) + 1 <= Cardinality(A \cup {n})
    <3>1. Cardinality(B \cup {n}) = Cardinality(B) + 1
      BY <2>3, <2>4, FS_AddElement
    <3>2. Cardinality(B \cup {n}) <= Cardinality(A \cup {n})
      BY <2>3, <2>4, FS_Subset
    <3> QED BY <3>1, <3>2
  <2>6. ASSUME NEW field \in LengthFields
        PROVE  /\ s[n][field] + Total(s, B, field) <= Total(s, A \cup {n}, field)
               /\ Total(s, B, field) \in Nat /\ Total(s, A \cup {n}, field) \in Nat
    <3>1. Total(s, B \cup {n}, field) = s[n][field] + Total(s, B, field)
      BY <2>3, TotalOneMore
    <3>2. Total(s, B \cup {n}, field) <= Total(s, A \cup {n}, field)
      BY <2>3, TotalType
    <3> QED BY <2>3, <3>1, <3>2, TotalType
  <2>7. /\ p.captured_length + Total(s, B, "captured_length") <= Total(s, A \cup {n}, "captured_length")
        /\ Total(s, B, "captured_length") \in Nat /\ Total(s, A \cup {n}, "captured_length") \in Nat
        /\ p.wire_length + Total(s, B, "wire_length") <= Total(s, A \cup {n}, "wire_length")
        /\ Total(s, B, "wire_length") \in Nat /\ Total(s, A \cup {n}, "wire_length") \in Nat
    BY <2>6 DEF LengthFields, p
  <2>8. /\ r.stats[d].packet_count = Cardinality(B)
        /\ r.stats[d].captured_byte_count = Total(s, B, "captured_length")
        /\ r.stats[d].wire_byte_count = Total(s, B, "wire_length")
    BY <2>2 DEF Tallies
  <2>9. \/ Cardinality(A \cup {n}) > CounterMax
        \/ Total(s, A \cup {n}, "captured_length") > CounterMax
        \/ Total(s, A \cup {n}, "wire_length") > CounterMax
    BY <1>0, <2>1, <2>4, <2>5, <2>7, <2>8, CounterMaxAssumption, SMTT(30) DEF StatsOverflow
  <2> QED BY <2>9 DEF Outgrows, LengthFields
<1> QED BY <1>1, <1>2

-----------------------------------------------------------------------------
(* What the records sum up, and what a run may fail for. *)

(* The record sums up some of the packets taken into flows. *)
Backed(s, taken, r) == \E A \in SUBSET taken : Backs(s, A, r)

BackedInv ==
  /\ \A k \in DOMAIN flows : Backed(delivered, accepted, flows[k])
  /\ \A r \in result.out : Backed(delivered, accepted, r)

LEMMA BackedLater ==
  ASSUME InputTypes, [Next]_vars, NEW r, Backed(delivered, accepted, r)
  PROVE  Backed(delivered', accepted', r)
<1>1. PICK A \in SUBSET accepted : Backs(delivered, A, r)
  BY DEF Backed
<1>2. /\ accepted \subseteq accepted' /\ DOMAIN delivered \subseteq DOMAIN delivered'
      /\ \A i \in DOMAIN delivered : delivered'[i] = delivered[i]
  BY HistoryGrows
<1>3. delivered \in Seq(Packets)
  BY DEF InputTypes
<1>4. Backs(delivered', A, r)
  BY <1>1, <1>2, <1>3, BacksLater
<1>5. A \in SUBSET accepted'
  BY <1>2
<1> QED BY <1>4, <1>5 DEF Backed

(* The packet in hand, taken into a flow: into a new one or into one whose *)
(* record sums up the earlier ones.                                        *)
LEMMA BackedByPacket ==
  ASSUME InputTypes, PacketInv, Unseen, packet \in PacketInfo, UNCHANGED delivered,
         accepted' = accepted \cup {Len(delivered)}
  PROVE  /\ KeyError(packet) = "0" => Backed(delivered', accepted', flow_record_init(packet))
         /\ \A r \in FlowRecords :
              Backed(delivered, accepted, r) /\ RecordUpdateError(r, packet) = "0" =>
                Backed(delivered', accepted', flow_record_update(r, packet))
<1> DEFINE n == Len(delivered)
<1>0. /\ n \in DOMAIN delivered /\ delivered \in Seq(Packets) /\ packet = delivered[n]
      /\ n \notin accepted /\ {n} \in SUBSET accepted'
  BY LastPacket DEF PacketInv, InputTypes
<1> HIDE DEF n
<1>1. ASSUME KeyError(packet) = "0" PROVE Backed(delivered', accepted', flow_record_init(packet))
  <2>1. Backs(delivered, {n}, flow_record_init(packet))
    BY <1>0, <1>1, BacksFirst
  <2> QED BY <1>0, <2>1 DEF Backed
<1>2. ASSUME NEW r \in FlowRecords, Backed(delivered, accepted, r),
             RecordUpdateError(r, packet) = "0"
      PROVE  Backed(delivered', accepted', flow_record_update(r, packet))
  <2>1. PICK A \in SUBSET accepted : Backs(delivered, A, r)
    BY <1>2 DEF Backed
  <2>2. n \notin A /\ A \cup {n} \in SUBSET accepted'
    BY <1>0 DEF n
  <2>3. Backs(delivered, A \cup {n}, flow_record_update(r, packet))
    BY <1>0, <1>2, <2>1, <2>2, BacksNext
  <2> QED BY <2>2, <2>3 DEF Backed
<1> QED BY <1>1, <1>2

LEMMA TakenIsCounted ==
  ASSUME ProcessPacket, result'.err = "0", ~UNCHANGED mapVars
  PROVE  /\ pc = "process" /\ UNCHANGED delivered /\ packet.timestamp \in Timestamp
         /\ packet.parse_status = "COMPLETE"
         /\ accepted' = accepted \cup {Len(delivered)}
BY DEF ProcessPacket, ClassifyPacket, TrackPacket, readVars

LEMMA BackedKept ==
  InputTypes /\ PacketInv /\ TableTypes /\ BackedInv /\ [Next]_vars => BackedInv'
<1> SUFFICES ASSUME InputTypes, PacketInv, TableTypes, BackedInv, [Next]_vars PROVE BackedInv'
  OBVIOUS
<1>0. /\ \A k \in DOMAIN flows : flows[k] \in FlowRecords /\ flows[k].key = k
      /\ \A k \in DOMAIN flows : Backed(delivered', accepted', flows[k])
      /\ \A r \in result.out : Backed(delivered', accepted', r)
  BY BackedLater DEF BackedInv, TableTypes, IsTable
<1>1. ASSUME UNCHANGED <<flows, result>> PROVE BackedInv'
  BY <1>0, <1>1 DEF BackedInv
<1>2. CASE InitTable \/ AbortRun \/ PrintSummary
  <2>1. flows' = NoFlows /\ result'.out = {}
    BY <1>2 DEF InitTable, AbortRun, PrintSummary, Open, Close, Returns
  <2> QED BY <2>1, NoFlowsEmpty DEF BackedInv
<1>3. CASE ObservePacket
  <2>1. ASSUME NEW cutoff, Expire(cutoff, Capacity) PROVE BackedInv'
    <3>1. CASE UNCHANGED flows /\ result'.out = {}
      BY <1>0, <3>1 DEF BackedInv
    <3>2. CASE /\ flows' = Without(flows, Silent(cutoff))
               /\ result'.out = {flows[k] : k \in Silent(cutoff)}
      <4>1. Silent(cutoff) \subseteq DOMAIN flows
        BY DEF Silent
      <4>2. DOMAIN flows' \subseteq DOMAIN flows /\ \A k \in DOMAIN flows' : flows'[k] = flows[k]
        BY <3>2 DEF Without
      <4> QED BY <1>0, <3>2, <4>1, <4>2 DEF BackedInv
    <3> QED BY <2>1, <3>1, <3>2, ExpireOutcomes
  <2> QED BY <1>1, <1>3, <2>1 DEF ObservePacket, mapVars
<1>4. CASE ProcessPacket
  <2>1. CASE UNCHANGED mapVars
    BY <1>1, <2>1 DEF mapVars
  <2>2. CASE Process(packet, config.evict) /\ ~UNCHANGED mapVars
    <3>1. CASE UNCHANGED flows /\ result'.out = {}
      BY <1>0, <3>1 DEF BackedInv
    <3>2. CASE result'.err = "0"
      <4>1. /\ pc = "process" /\ UNCHANGED delivered /\ packet.timestamp \in Timestamp
            /\ packet.parse_status = "COMPLETE"
            /\ accepted' = accepted \cup {Len(delivered)}
        BY <1>4, <2>2, <3>2, TakenIsCounted
      <4>2. Unseen /\ packet \in PacketInfo /\ KeyError(packet) = "0"
        BY <4>1, LastPacket, PacketsAssumption DEF Unseen
      <4>3. /\ Backed(delivered', accepted', flow_record_init(packet))
            /\ \A r \in FlowRecords :
                 Backed(delivered, accepted, r) /\ RecordUpdateError(r, packet) = "0" =>
                   Backed(delivered', accepted', flow_record_update(r, packet))
        BY <4>1, <4>2, BackedByPacket
      <4>4. ASSUME NEW f, \A k \in DOMAIN f : Backed(delivered', accepted', f[k]),
                   NEW r, Backed(delivered', accepted', r)
            PROVE  \A k \in DOMAIN With(f, r) : Backed(delivered', accepted', With(f, r)[k])
        BY <4>4 DEF With
      <4>5. CASE /\ KeyOf(packet) \in DOMAIN flows
                 /\ RecordUpdateError(flows[KeyOf(packet)], packet) = "0"
                 /\ flows' = With(flows, flow_record_update(flows[KeyOf(packet)], packet))
                 /\ result'.out = {}
        <5>1. Backed(delivered', accepted', flow_record_update(flows[KeyOf(packet)], packet))
          BY <1>0, <4>3, <4>5 DEF BackedInv
        <5> QED BY <1>0, <4>4, <4>5, <5>1 DEF BackedInv
      <4>6. CASE flows' = With(flows, flow_record_init(packet)) /\ result'.out = {}
        BY <1>0, <4>3, <4>4, <4>6 DEF BackedInv
      <4>7. ASSUME NEW k \in DOMAIN flows,
                   flows' = With(Without(flows, {k}), flow_record_init(packet)),
                   result'.out = {flows[k]}
            PROVE  BackedInv'
        <5>1. \A j \in DOMAIN Without(flows, {k}) :
                Backed(delivered', accepted', Without(flows, {k})[j])
          BY <1>0 DEF Without
        <5> QED BY <1>0, <4>3, <4>4, <4>7, <5>1 DEF BackedInv
      <4> QED BY <2>2, <3>2, <4>5, <4>6, <4>7, ProcessOutcomes
    <3> QED BY <2>2, <3>1, <3>2, ProcessOutcomes
  <2> QED BY <1>4, <2>1, <2>2 DEF ProcessPacket, ClassifyPacket, TrackPacket
<1>5. CASE HandlesFiles \/ WritesRows
  BY <1>1, <1>5, FileMoves, RowsMoves
<1>6. CASE \/ InstallHandlers \/ AppRun \/ OpenCapture \/ PublishCapture \/ LoopTop \/ ReadPacket
           \/ AfterRead \/ Poll \/ CountResult \/ UnpublishCapture \/ CloseCapture \/ Return
  BY <1>1, <1>6 DEF InstallHandlers, AppRun, OpenCapture, PublishCapture, LoopTop, ReadPacket,
                    AfterRead, Poll, CountResult, UnpublishCapture, CloseCapture, Return, mapVars
<1>7. CASE StopSignal \/ UNCHANGED vars
  BY <1>1, <1>7 DEF StopSignal, vars, mapVars
<1> QED BY <1>2, <1>3, <1>4, <1>5, <1>6, <1>7 DEF Next, Thread, HandlesFiles, WritesRows

ScheduleShape ==
  [latest_timestamp : Timestamp, last_scan_timestamp : Timestamp,
   idle_timeout_seconds : Nat, scan_interval_seconds : Nat, has_observation : BOOLEAN]

(* The schedule of a run that expires flows has the run's timeout. *)
ScheduleInv ==
  /\ schedule \in ScheduleShape
  /\ pc \in {"observe", "expired_flow", "expired_feature"} => ExpirationEnabled
  /\ ExpirationEnabled /\ pc \in Looping \cup {"publish"} =>
       schedule.idle_timeout_seconds = IdleTimeout

LEMMA ScheduleShapes ==
  /\ \A idle \in Nat, interval \in Nat :
       /\ flow_expiration_schedule_init(idle, interval) \in ScheduleShape
       /\ flow_expiration_schedule_init(idle, interval).idle_timeout_seconds = idle
  /\ \A s \in ScheduleShape, t \in Timestamp :
       /\ flow_expiration_schedule_observe(s, t) \in ScheduleShape
       /\ flow_expiration_schedule_observe(s, t).idle_timeout_seconds = s.idle_timeout_seconds
<1>1. ZeroTime \in Timestamp
  <2>1. 0 \in 0 .. MicrosecondsPerSecond - 1
    <3>1. MicrosecondsPerSecond \in Int /\ MicrosecondsPerSecond > 0
      BY SMT DEF MicrosecondsPerSecond
    <3> QED BY <3>1
  <2>2. 0 \in Int
    OBVIOUS
  <2> QED BY <2>1, <2>2, Zenon DEF ZeroTime, Timestamp
<1>2. ASSUME NEW s \in ScheduleShape, NEW t \in Timestamp
      PROVE  /\ flow_expiration_schedule_observe(s, t) \in ScheduleShape
             /\ flow_expiration_schedule_observe(s, t).idle_timeout_seconds = s.idle_timeout_seconds
  <2>1. HighWater(s, t) \in Timestamp
    BY DEF HighWater, ScheduleShape
  <2> HIDE DEF HighWater, ScanDue
  <2> QED BY <2>1 DEF flow_expiration_schedule_observe, ScheduleShape
<1> QED BY <1>1, <1>2 DEF flow_expiration_schedule_init, ScheduleShape

LEMMA IdleTimeoutType ==
  ASSUME InputTypes PROVE IdleTimeout \in Nat
BY IntervalsAssumption, IntAssumption, ConfigsAssumption DEF InputTypes, Config, IdleTimeout

LEMMA ScheduleKept == InputTypes /\ ScheduleInv /\ [Next]_vars => ScheduleInv'
<1> SUFFICES ASSUME InputTypes, ScheduleInv, [Next]_vars PROVE ScheduleInv'
  OBVIOUS
<1>1. ASSUME UNCHANGED <<config, schedule>>,
             pc' \in Looping \cup {"publish"} => pc \in Looping \cup {"publish"},
             pc' \in {"observe", "expired_flow", "expired_feature"} => ExpirationEnabled
      PROVE  ScheduleInv'
  BY <1>1 DEF ScheduleInv, ExpirationEnabled, IdleTimeout
<1> USE DEF Looping
<1>2. CASE InstallHandlers \/ AppRun \/ OpenCapture \/ PublishCapture
  <2>1. /\ UNCHANGED <<config, schedule>>
        /\ pc' \in {"app_run", "return", "create_flow", "init", "close_feature"}
             \/ (pc = "publish" /\ pc' = "loop")
    BY <1>2 DEF InstallHandlers, AppRun, OpenCapture, PublishCapture, Goto, FailTo, Fault
  <2> QED BY <1>1, <2>1
<1>3. CASE InitTable
  <2>1. /\ UNCHANGED config /\ pc' \in {"publish", "abort"}
        /\ schedule' = IF ExpirationEnabled
                       THEN flow_expiration_schedule_init(IdleTimeout, ScanInterval) ELSE schedule
    BY <1>3 DEF InitTable, Goto, Fault
  <2>2. CASE ExpirationEnabled
    <3>1. schedule' = flow_expiration_schedule_init(IdleTimeout, ScanInterval)
      BY <2>1, <2>2
    <3>2. IdleTimeout' = IdleTimeout /\ IdleTimeout \in Nat /\ ScanInterval \in Nat
      BY <2>1, IdleTimeoutType, IntervalsAssumption, IntAssumption DEF IdleTimeout
    <3> QED BY <2>1, <3>1, <3>2, ScheduleShapes DEF ScheduleInv
  <2>3. CASE ~ExpirationEnabled
    BY <2>1, <2>3 DEF ScheduleInv, ExpirationEnabled, IdleTimeout
  <2> QED BY <2>2, <2>3
<1>4. CASE HandlesFiles
  BY <1>1, <1>4, FileMoves
<1>5. CASE WritesRows
  <2>1. /\ UNCHANGED <<config, schedule>>
        /\ pc' \in Looping => pc \in Looping
        /\ pc' # "publish" /\ pc' # "observe" /\ pc' # "expired_flow"
        /\ pc' = "expired_feature" => pc = "expired_flow"
    BY <1>5, RowsMoves
  <2> QED BY <1>1, <2>1 DEF ScheduleInv
<1>6. CASE LoopTop \/ ReadPacket \/ AfterRead \/ Poll
  <2>1. /\ UNCHANGED <<config, schedule>>
        /\ pc \in Looping /\ pc' \notin {"expired_flow", "expired_feature"}
        /\ pc' = "observe" => ExpirationEnabled
    BY <1>6 DEF LoopTop, ReadPacket, AfterRead, Poll, Goto, Fault
  <2> QED BY <1>1, <2>1
<1>7. CASE ObservePacket
  <2>1. /\ UNCHANGED config /\ pc = "observe"
        /\ ExpirationEnabled
    BY <1>7 DEF ObservePacket, Goto, FailTo, Fault, ScheduleInv
  <2>2. CASE UNCHANGED schedule
    BY <2>1, <2>2, <1>1
  <2>3. CASE /\ packet.timestamp \in Timestamp
             /\ schedule' = flow_expiration_schedule_observe(schedule, packet.timestamp)
    <3>1. /\ schedule' \in ScheduleShape
          /\ schedule'.idle_timeout_seconds = schedule.idle_timeout_seconds
      BY <2>3, ScheduleShapes DEF ScheduleInv
    <3>2. IdleTimeout' = IdleTimeout
      BY <2>1 DEF IdleTimeout
    <3> QED BY <2>1, <3>1, <3>2 DEF ScheduleInv, ExpirationEnabled
  <2> QED BY <1>7, <2>2, <2>3 DEF ObservePacket
<1>8. CASE ProcessPacket \/ CountResult
  <2>1. /\ UNCHANGED <<config, schedule>> /\ pc \in Looping
        /\ pc' \notin {"observe", "expired_flow", "expired_feature"}
    BY <1>8 DEF ProcessPacket, ClassifyPacket, TrackPacket, CountResult, Goto, FailTo, Fault
  <2> QED BY <1>1, <2>1
<1>9. CASE UnpublishCapture \/ CloseCapture \/ AbortRun \/ PrintSummary \/ Return
  <2>1. UNCHANGED <<config, schedule>> /\ pc' \notin Looping \cup {"publish"}
    BY <1>9 DEF UnpublishCapture, CloseCapture, AbortRun, PrintSummary, Return, Goto, Fault
  <2> QED BY <1>1, <2>1
<1>10. CASE StopSignal \/ UNCHANGED vars
  <2>1. UNCHANGED <<config, schedule, pc>>
    BY <1>10 DEF StopSignal, vars
  <2> QED BY <1>1, <2>1 DEF ScheduleInv
<1> QED BY <1>2, <1>3, <1>4, <1>5, <1>6, <1>7, <1>8, <1>9, <1>10
        DEF Next, Thread, HandlesFiles, WritesRows

(* Packets in flows, and the one in hand. *)
Inputs == {delivered[i] : i \in accepted} \cup {packet}

PacketsOf(p) == {i \in DOMAIN delivered : KeyOf(delivered[i]) = KeyOf(p)}

LEMMA UnusableWhen ==
  ASSUME delivered # <<>>, NEW p \in Inputs, NEW q \in Inputs,
         \/ p.timestamp \notin Timestamp
         \/ p.timestamp.seconds < IntMin + IdleTimeout
         \/ Outgrows(delivered, PacketsOf(p))
         \/ "feature" \in config.csv /\ p.captured_length > p.wire_length
         \/ /\ "feature" \in config.csv /\ KeyOf(p) = KeyOf(q)
            /\ DurationMicroseconds(p.timestamp, q.timestamp) > DurationMax
  PROVE  UnusableInput
<1>1. ASSUME Outgrows(delivered, PacketsOf(p))
      PROVE  \/ Cardinality(PacketsOf(p)) > CounterMax
             \/ Total(delivered, PacketsOf(p), "wire_length") > CounterMax
             \/ Total(delivered, PacketsOf(p), "captured_length") > CounterMax
  BY <1>1 DEF Outgrows, LengthFields
<1> QED BY <1>1 DEF UnusableInput, Inputs, PacketsOf, Total

(* What some packets of a flow outgrow, all of them do. *)
LEMMA OutgrownByAll ==
  ASSUME InputTypes, NEW p, NEW A \in SUBSET PacketsOf(p), Outgrows(delivered, A)
  PROVE  Outgrows(delivered, PacketsOf(p))
<1> DEFINE B == PacketsOf(p)
<1>1. delivered \in Seq(Packets) /\ B \in SUBSET DOMAIN delivered /\ A \in SUBSET B
  BY DEF InputTypes, PacketsOf
<1> HIDE DEF B
<1>2. /\ IsFiniteSet(B) /\ Cardinality(B) \in Nat /\ Cardinality(A) \in Nat
      /\ A \in SUBSET DOMAIN delivered
  BY <1>1, PositionsFinite
<1>3. Cardinality(A) <= Cardinality(B)
  BY <1>1, <1>2, FS_Subset
<1>4. \A field \in LengthFields :
        /\ Total(delivered, A, field) \in Nat /\ Total(delivered, B, field) \in Nat
        /\ Total(delivered, A, field) <= Total(delivered, B, field)
  BY <1>1, <1>2, TotalType
<1>5. CASE Cardinality(A) > CounterMax
  BY <1>2, <1>3, <1>5, CounterMaxAssumption DEF Outgrows, B
<1>6. ASSUME NEW field \in LengthFields, Total(delivered, A, field) > CounterMax
      PROVE  Outgrows(delivered, B)
  <2>1. Total(delivered, B, field) > CounterMax
    BY <1>4, <1>6, CounterMaxAssumption
  <2> QED BY <2>1 DEF Outgrows
<1> QED BY <1>5, <1>6 DEF Outgrows, B

(* A packet that the schedule refuses, or that the table refuses though    *)
(* there is room for its flow.                                             *)
LEMMA ObserveRefusal ==
  ASSUME InputTypes, PacketInv, TableInv, TableTypes, ScheduleInv, ObservePacket,
         error = "0", error' # "0"
  PROVE  faulted' = TRUE \/ UnusableInput
<1> DEFINE t == packet.timestamp
           mark == HighWater(schedule, t)
<1>0. /\ pc = "observe" /\ Unseen /\ delivered # <<>> /\ packet \in Inputs /\ open
      /\ ExpirationEnabled /\ schedule.idle_timeout_seconds = IdleTimeout
  BY DEF ObservePacket, Unseen, PacketInv, Inputs, TableInv, ScheduleInv, Looping
<1>1. CASE t \notin Timestamp
  BY <1>0, <1>1, UnusableWhen
<1>2. CASE t \in Timestamp /\ ObserveError(schedule, t) # "0"
  <2>1. mark.seconds < IntMin + IdleTimeout
    BY <1>0, <1>2 DEF ObserveError
  <2>2. mark = t \/ (mark = schedule.latest_timestamp /\ ~TimeBefore(mark, t))
    BY DEF HighWater
  <2>3. t \in Timestamp /\ mark \in Timestamp
    BY <1>2, <2>2 DEF ScheduleInv, ScheduleShape
  <2>4. t.seconds \in Int /\ mark.seconds \in Int /\ IntMin + IdleTimeout \in Int
    BY <2>3, TimestampParts, IdleTimeoutType, IntAssumption
  <2>5. t.seconds < IntMin + IdleTimeout
    <3> HIDE DEF t, mark
    <3> QED BY <2>1, <2>2, <2>4 DEF TimeBefore
  <2> QED BY <1>0, <2>5, UnusableWhen
<1>3. CASE /\ t \in Timestamp /\ ObserveError(schedule, t) = "0"
           /\ ScanDue(schedule, t)
           /\ Expire(Cutoff(schedule, t), Capacity)
           /\ \/ Goto("expired_flow") \/ Fault("output", "abort")
              \/ result'.err # "0"
  <2>1. result'.err = "0"
    BY <1>0, <1>3, ExpireOutcomes
  <2> QED BY <1>3, <2>1 DEF Goto, Fault
<1>4. CASE Goto("process")
  BY <1>4 DEF Goto
<1> QED BY <1>1, <1>2, <1>3, <1>4 DEF ObservePacket, FailTo

LEMMA ProcessRefusal ==
  ASSUME InputTypes, PacketInv, TableInv, TableTypes, BackedInv, ProcessPacket,
         error = "0", error' # "0"
  PROVE  faulted' = TRUE \/ UnusableInput
<1> DEFINE p == packet
           n == Len(delivered)
<1>0. /\ pc = "process" /\ Unseen /\ delivered # <<>> /\ p \in Inputs /\ open
      /\ delivered \in Seq(Packets) /\ p \in Packets
      /\ n \in DOMAIN delivered /\ p = delivered[n] /\ n \notin accepted
      /\ accepted \subseteq DOMAIN delivered
      /\ p.timestamp \in Timestamp => p \in PacketInfo
  <2>1. pc = "process" /\ Unseen
    BY DEF ProcessPacket, Unseen
  <2>2. p \in Packets /\ n \in DOMAIN delivered /\ (p.timestamp \in Timestamp => p \in PacketInfo)
    BY <2>1, LastPacket
  <2> QED BY <2>1, <2>2 DEF PacketInv, InputTypes, Inputs, TableInv, Looping
<1>1. CASE p.timestamp \notin Timestamp
  BY <1>0, <1>1, UnusableWhen
<1>2. CASE p.timestamp \in Timestamp /\ ClassifyPacket
  BY <1>2 DEF ClassifyPacket, Goto, Fault
<1>3. CASE p.timestamp \in Timestamp /\ TrackPacket
  <2>1. CASE Fault("output", "abort")
    BY <2>1 DEF Fault
  <2>2. CASE /\ p.parse_status = "COMPLETE" /\ Process(p, config.evict)
             /\ result'.err # "0" /\ (result'.err = "ENOSPC" => config.evict)
    <3>1. p \in PacketInfo /\ KeyError(p) = "0"
      BY <1>0, <1>3, <2>2, PacketsAssumption
    <3>2. \/ KeyOf(p) \in DOMAIN flows /\ RecordUpdateError(flows[KeyOf(p)], p) # "0"
          \/ RecordInitError(p) # "0"
      BY <1>0, <2>2, <3>1, ProcessOutcomes
    <3> HIDE DEF p, n
    <3>3. /\ RecordInitError(p) # "0" => Outgrows(delivered, {n})
          /\ \A A, r : /\ Backs(delivered, A, r) /\ r \in FlowRecords /\ r.key = KeyOf(p)
                       /\ n \notin A /\ RecordUpdateError(r, p) # "0"
                       => Outgrows(delivered, A \cup {n})
      BY <1>0, <3>1, RefusalMeans
    <3>4. CASE RecordInitError(p) # "0"
      <4>1. {n} \in SUBSET PacketsOf(p)
        BY <1>0 DEF PacketsOf
      <4> QED BY <1>0, <3>3, <3>4, <4>1, OutgrownByAll, UnusableWhen
    <3>5. CASE KeyOf(p) \in DOMAIN flows /\ RecordUpdateError(flows[KeyOf(p)], p) # "0"
      <4> DEFINE r == flows[KeyOf(p)]
      <4>1. r \in FlowRecords /\ r.key = KeyOf(p)
        BY <3>5 DEF TableTypes, IsTable
      <4>2. PICK A \in SUBSET accepted : Backs(delivered, A, r)
        BY <3>5 DEF BackedInv, Backed
      <4>3. A \cup {n} \in SUBSET PacketsOf(p) /\ n \notin A
        BY <1>0, <4>1, <4>2 DEF PacketsOf, Backs
      <4>4. Outgrows(delivered, A \cup {n})
        BY <3>3, <3>5, <4>1, <4>2, <4>3
      <4> QED BY <1>0, <4>3, <4>4, OutgrownByAll, UnusableWhen
    <3> QED BY <3>2, <3>4, <3>5
  <2>3. CASE Goto("count") \/ Goto("evicted")
    BY <2>3 DEF Goto
  <2> QED BY <1>3, <2>1, <2>2, <2>3 DEF TrackPacket
<1> QED BY <1>0, <1>1, <1>2, <1>3 DEF ProcessPacket

(* A record without a row. *)
LEMMA RowRefusal ==
  ASSUME InputTypes, TableTypes, BackedInv, WritesRows, error = "0", error' # "0"
  PROVE  faulted' = TRUE \/ UnusableInput
<1>1. ASSUME faulted' # TRUE
      PROVE  \E r \in Outgoing : FeatureRowError(r) # "0" /\ "feature" \in config.csv
  <2>1. ASSUME NEW sink, NEW records, NEW step, NEW next, WriteRows(sink, records, step, next)
        PROVE  /\ pc = step /\ sink = "feature" /\ sink \in config.csv
               /\ \E r \in records : FeatureRowError(r) # "0"
    <3>1. \/ error' = error
          \/ sink \in config.csv /\ \E r \in Unwritable(sink, records) : error' = FeatureRowError(r)
      BY <1>1, <2>1, WriteRowsSteps
    <3>2. pc = step
      BY <2>1, WriteRowsSteps
    <3> QED BY <3>1, <3>2 DEF Unwritable
  <2> QED BY <2>1 DEF WritesRows, WriteExpiredFlow, WriteExpiredFeature, WriteEvicted,
                       WriteRemainingFlow, WriteRemainingFeature, Outgoing, Draining
<1>2. ASSUME NEW r \in Outgoing, FeatureRowError(r) # "0", "feature" \in config.csv
      PROVE  UnusableInput
  <2>1. r \in FlowRecords
    BY OutgoingTypes
  <2>2. PICK A \in SUBSET accepted : Backs(delivered, A, r)
    BY DEF Outgoing, Remaining, BackedInv, Backed
  <2>3. PICK first \in A : TRUE
    BY <2>2 DEF Backs
  <2>4. /\ delivered \in Seq(Packets) /\ delivered # <<>>
        /\ \A i \in A : delivered[i] \in Inputs /\ KeyOf(delivered[i]) = r.key
        /\ A \in SUBSET PacketsOf(delivered[first])
    BY <2>2, <2>3 DEF InputTypes, Inputs, Backs, PacketsOf
  <2>5. CASE Outgrows(delivered, A)
    BY <2>3, <2>4, <2>5, OutgrownByAll, UnusableWhen
  <2>6. ASSUME NEW i \in A, delivered[i].captured_length > delivered[i].wire_length
        PROVE  UnusableInput
    BY <1>2, <2>4, <2>6, UnusableWhen
  <2>7. ASSUME NEW i \in A, NEW j \in A,
               DurationMicroseconds(delivered[i].timestamp, delivered[j].timestamp) > DurationMax
        PROVE  UnusableInput
    BY <1>2, <2>4, <2>7, UnusableWhen
  <2> QED BY <1>2, <2>1, <2>2, <2>4, <2>5, <2>6, <2>7, NoRowMeans
<1> QED BY <1>1, <1>2

-----------------------------------------------------------------------------
(* The exit status. *)

(* What a failure can be put down to. *)
Excused == faulted \/ (error = "ECANCELED" /\ stop_requested) \/ UnusableInput

ErrorIsReal == error # "0" => Excused

LEMMA InputJudged ==
  ASSUME UNCHANGED <<config, delivered, packet, accepted>>
  PROVE  UnusableInput' = UnusableInput
BY DEF UnusableInput, IdleTimeout

(* The steps that follow an error add nothing to it. *)
LEMMA ExcusedStays ==
  ASSUME AfterError, Excused, error # "0", [Next]_vars
  PROVE  Excused'
<1>0. pc \in Aborting \cup Closing
  BY DEF AfterError
<1> USE DEF Aborting, Closing
<1>1. \/ UnpublishCapture \/ AbortRun \/ CloseFeatureFile \/ CloseFlowFile \/ Return
      \/ StopSignal \/ UNCHANGED vars
  <2>1. ~WritesRows /\ ~CreateFlowFile /\ ~CreateFeatureFile
    BY <1>0, RowsMoves DEF CreateFlowFile, CreateFeatureFile, CreateFile
  <2>2. ~(InstallHandlers \/ AppRun \/ OpenCapture \/ InitTable \/ PublishCapture \/ LoopTop
          \/ ReadPacket \/ AfterRead \/ Poll)
    BY <1>0 DEF InstallHandlers, AppRun, OpenCapture, InitTable, PublishCapture, LoopTop,
                ReadPacket, AfterRead, Poll
  <2>3. ~(ObservePacket \/ ProcessPacket \/ CountResult \/ CloseCapture \/ PrintSummary)
    BY <1>0 DEF ObservePacket, ProcessPacket, CountResult, CloseCapture, PrintSummary
  <2> QED BY <2>1, <2>2, <2>3 DEF Next, Thread, WritesRows
<1>2. /\ UNCHANGED <<config, delivered, packet, accepted>>
      /\ stop_requested => stop_requested'
      /\ UNCHANGED <<error, faulted>> \/ faulted' = TRUE
  <2>1. CASE UnpublishCapture \/ AbortRun \/ Return
    BY <2>1 DEF UnpublishCapture, AbortRun, Return, Goto, signalVars, readVars, countVars
  <2>2. CASE CloseFeatureFile \/ CloseFlowFile
    <3>1. HandlesFiles
      BY <2>2 DEF HandlesFiles
    <3>2. /\ UNCHANGED <<config, stop_requested, packet, delivered, accepted>>
          /\ UNCHANGED <<error, faulted>> \/ (error' = "EIO" /\ faulted' = TRUE)
      BY <3>1, FileMoves, Zenon
    <3> QED BY <3>2
  <2>3. CASE StopSignal \/ UNCHANGED vars
    BY <2>3 DEF StopSignal, vars, signalVars, readVars, countVars
  <2> QED BY <1>1, <2>1, <2>2, <2>3
<1> QED BY <1>2, InputJudged DEF Excused

LEMMA ErrorIsRealKept ==
  /\ InputTypes /\ PacketInv /\ TableInv /\ TableTypes /\ BackedInv /\ ScheduleInv
  /\ AfterError /\ ErrorIsReal /\ [Next]_vars
  => ErrorIsReal'
<1> SUFFICES ASSUME InputTypes, PacketInv, TableInv, TableTypes, BackedInv, ScheduleInv,
                    AfterError, ErrorIsReal, [Next]_vars, error' # "0"
             PROVE  Excused'
  BY DEF ErrorIsReal
<1>1. CASE error # "0"
  BY <1>1, ExcusedStays DEF ErrorIsReal
<1>2. CASE error = "0"
  <2>1. CASE AppRun
    BY <1>2, <2>1 DEF AppRun, FailTo, Goto, StopSeen, signalVars, Excused
  <2>2. CASE ObservePacket
    <3>1. UNCHANGED <<config, delivered, packet, accepted>>
      BY <2>2 DEF ObservePacket, Goto, FailTo, Fault, readVars, countVars
    <3> QED BY <1>2, <2>2, <3>1, ObserveRefusal, InputJudged DEF Excused
  <2>3. CASE ProcessPacket
    <3>1. UNCHANGED <<config, delivered, packet>>
      BY <2>3 DEF ProcessPacket, ClassifyPacket, TrackPacket, Goto, FailTo, Fault, readVars
    <3>2. CASE UNCHANGED accepted
      BY <1>2, <2>3, <3>1, <3>2, ProcessRefusal, InputJudged DEF Excused
    <3>3. CASE ~UNCHANGED accepted
      <4>1. faulted' = TRUE
        BY <1>2, <2>3, <3>3 DEF ProcessPacket, ClassifyPacket, TrackPacket, Goto, Fault
      <4> QED BY <4>1 DEF Excused
    <3> QED BY <3>2, <3>3
  <2>4. CASE WritesRows
    <3>1. UNCHANGED <<config, delivered, packet, accepted>>
      BY <2>4, RowsMoves
    <3> QED BY <1>2, <2>4, <3>1, RowRefusal, InputJudged DEF Excused
  <2>5. CASE \/ InstallHandlers \/ OpenCapture \/ InitTable \/ PublishCapture \/ LoopTop
             \/ ReadPacket \/ AfterRead \/ Poll \/ CountResult
    BY <1>2, <2>5 DEF InstallHandlers, OpenCapture, InitTable, PublishCapture, LoopTop, ReadPacket,
                      AfterRead, Poll, CountResult, Goto, Fault, Excused
  <2>6. CASE UnpublishCapture \/ CloseCapture \/ AbortRun \/ PrintSummary \/ Return
    BY <1>2, <2>6 DEF UnpublishCapture, CloseCapture, AbortRun, PrintSummary, Return, Goto, Fault,
                      Excused
  <2>7. CASE HandlesFiles
    BY <1>2, <2>7, FileMoves DEF Excused
  <2>8. CASE StopSignal \/ UNCHANGED vars
    BY <1>2, <2>8 DEF StopSignal, vars
  <2> QED BY <2>1, <2>2, <2>3, <2>4, <2>5, <2>6, <2>7, <2>8
            DEF Next, Thread, HandlesFiles, WritesRows
<1> QED BY <1>1, <1>2

(* A run without an error ends after its summary, and has created the      *)
(* files that were asked for.                                              *)
CompleteInv ==
  error = "0" =>
    /\ pc \in Closing => summary
    /\ \A sink \in config.csv :
         pc \in {"start", "app_run", "create_flow"} \/ (pc = "create_feature" /\ sink = "feature")
         \/ files[sink] # "absent"

LEMMA CompleteKept ==
  InputTypes /\ ErrorInv /\ FilesInv /\ CompleteInv /\ [Next]_vars => CompleteInv'
<1> SUFFICES ASSUME InputTypes, ErrorInv, FilesInv, CompleteInv, [Next]_vars, error' = "0"
             PROVE  CompleteInv'
  BY DEF CompleteInv
<1>0. error = "0" /\ config.csv \subseteq Sinks
  BY ErrorStays, ConfigParts DEF InputTypes
<1> DEFINE Early == {"start", "app_run", "create_flow", "create_feature"}
<1>1. ASSUME UNCHANGED <<config, files>>, summary => summary',
             pc \notin Early, pc' \notin Early, pc' \in Closing => pc \in Closing \/ summary'
      PROVE  CompleteInv'
  BY <1>0, <1>1 DEF CompleteInv
<1> USE DEF Closing
<1>2. CASE InstallHandlers \/ AppRun
  <2>1. /\ UNCHANGED config /\ pc' \in {"app_run", "create_flow"}
    BY <1>0, <1>2 DEF InstallHandlers, AppRun, Goto, FailTo, Fault
  <2> QED BY <2>1 DEF CompleteInv
<1>3. CASE CreateFlowFile
  <2>1. /\ UNCHANGED config /\ pc' = "create_feature" /\ error' = error
        /\ files' = IF "flow" \in config.csv THEN [files EXCEPT !["flow"] = "open"] ELSE files
    <3>1. CreateFile("flow", "create_flow", "create_feature", "close_flow", "return")
      BY <1>3 DEF CreateFlowFile
    <3> QED BY <1>0, <3>1, CreateFileSteps, Zenon
  <2> QED BY <1>0, <2>1 DEF FilesInv, CompleteInv, Sinks
<1>4. CASE CreateFeatureFile
  <2>1. /\ UNCHANGED config /\ pc = "create_feature" /\ pc' = "open"
        /\ files' = IF "feature" \in config.csv THEN [files EXCEPT !["feature"] = "open"] ELSE files
    <3>1. CreateFile("feature", "create_feature", "open", "close_feature", "close_flow")
      BY <1>4 DEF CreateFeatureFile
    <3> QED BY <1>0, <3>1, CreateFileSteps, Zenon
  <2> QED BY <1>0, <2>1 DEF FilesInv, CompleteInv, Sinks
<1>5. CASE CloseFeatureFile \/ CloseFlowFile
  <2>1. ASSUME NEW sink \in Sinks, NEW step \in Closing, NEW next \in Closing,
               CloseFile(sink, step, next)
        PROVE  /\ UNCHANGED <<config, summary>> /\ pc \in Closing
               /\ \A other \in Sinks : files[other] # "absent" => files'[other] # "absent"
    <3>1. /\ UNCHANGED <<config, summary>> /\ pc \in Closing
          /\ files' = [files EXCEPT ![sink] = IF @ = "open" THEN "closed" ELSE @]
      BY <2>1, CloseFileSteps, Zenon
    <3> QED BY <2>1, <3>1 DEF FilesInv
  <2>2. /\ UNCHANGED <<config, summary>> /\ pc \in Closing
        /\ \A other \in Sinks : files[other] # "absent" => files'[other] # "absent"
    BY <1>5, <2>1 DEF CloseFeatureFile, CloseFlowFile, Sinks
  <2> QED BY <1>0, <2>2 DEF CompleteInv
<1>6. CASE OpenCapture \/ InitTable \/ PublishCapture \/ LoopTop \/ ReadPacket \/ AfterRead \/ Poll
  <2>1. /\ UNCHANGED <<config, files, summary>> /\ pc \notin Early /\ pc' \notin Early \cup Closing
    BY <1>0, <1>6 DEF OpenCapture, InitTable, PublishCapture, LoopTop, ReadPacket, AfterRead, Poll,
                      Goto, Fault, outputVars
  <2> QED BY <1>1, <2>1
<1>7. CASE ObservePacket \/ ProcessPacket \/ CountResult
  <2>1. /\ UNCHANGED <<config, files, summary>> /\ pc \notin Early /\ pc' \notin Early \cup Closing
    BY <1>0, <1>7 DEF ObservePacket, ProcessPacket, ClassifyPacket, TrackPacket, CountResult,
                      Goto, FailTo, Fault, outputVars
  <2> QED BY <1>1, <2>1
<1>8. CASE WritesRows
  BY <1>1, <1>8, RowsMoves
<1>9. CASE UnpublishCapture \/ CloseCapture \/ AbortRun \/ PrintSummary \/ Return
  <2>1. ~AbortRun
    BY <1>0 DEF AbortRun, ErrorInv, Aborting
  <2>2. /\ UNCHANGED <<config, files>> /\ (summary => summary')
        /\ pc \notin Early /\ pc' \notin Early
        /\ pc' \in Closing => pc \in Closing \/ summary'
    BY <1>0, <1>9, <2>1 DEF UnpublishCapture, CloseCapture, PrintSummary, Return, Goto, Fault,
                            outputVars
  <2> QED BY <1>1, <2>2
<1>10. CASE StopSignal \/ UNCHANGED vars
  BY <1>0, <1>10 DEF StopSignal, vars, outputVars, CompleteInv
<1> QED BY <1>2, <1>3, <1>4, <1>5, <1>6, <1>7, <1>8, <1>9, <1>10
        DEF Next, Thread, HandlesFiles, WritesRows

(* What makes the exit status truthful. *)
TruthInv == BackedInv /\ ScheduleInv /\ ErrorIsReal /\ CompleteInv

LEMMA TruthInit == Init => TruthInv
<1> SUFFICES ASSUME Init PROVE TruthInv
  OBVIOUS
<1>1. BackedInv
  BY NoFlowsEmpty DEF Init, MapInit, BackedInv
<1>2. ScheduleInv
  BY ScheduleShapes DEF Init, ScheduleInv, Looping
<1> QED BY <1>1, <1>2 DEF Init, TruthInv, ErrorIsReal, CompleteInv, Closing

(* The records sum up packets that were delivered, the schedule is the     *)
(* run's, every error has its reason, and a run without one is complete.   *)
THEOREM TruthInvariance == Spec => []TruthInv
<1>1. RunInv /\ LedgerInv /\ TruthInv /\ [Next]_vars => TruthInv'
  BY BackedKept, ScheduleKept, ErrorIsRealKept, CompleteKept
     DEF RunInv, ControlInv, LedgerInv, TruthInv
<1> QED BY TruthInit, <1>1, LedgerInvariance, PTL DEF Spec

(* The exit status is truthful, whatever the command line, the packets and *)
(* the calls that fail: a run that reports success has printed its summary *)
(* and closed complete files; one that reports a failure had a call that   *)
(* failed, a stop before it began, or input it cannot represent.           *)
THEOREM StatusCorrect == Spec => []ExitStatusIsTruthful
<1>1. RunInv /\ TruthInv => ExitStatusIsTruthful
  <2> SUFFICES ASSUME RunInv, TruthInv, pc = "exited"
               PROVE  IF error = "0" THEN summary /\ \A sink \in config.csv : files[sink] = "closed"
                      ELSE faulted \/ (error = "ECANCELED" /\ stop_requested)
                             \/ UnusableInput
    BY DEF ExitStatusIsTruthful
  <2>1. CASE error = "0"
    <3>1. summary /\ \A sink \in config.csv : files[sink] # "absent"
      BY <2>1 DEF TruthInv, CompleteInv, Closing
    <3>2. \A sink \in config.csv : sink \in Sinks
      BY ConfigParts DEF RunInv
    <3>3. \A sink \in Sinks : files[sink] \in {"absent", "closed"}
      BY DEF RunInv, ControlInv, FilesInv, Sinks
    <3> QED BY <2>1, <3>1, <3>2, <3>3
  <2>2. CASE error # "0"
    BY <2>2 DEF TruthInv, ErrorIsReal, Excused
  <2> QED BY <2>1, <2>2
<1> QED BY <1>1, RunInvariance, TruthInvariance, PTL

-----------------------------------------------------------------------------
(* The order of times. *)

(* Times are ordered completely, and whole seconds move them both ways.    *)
LEMMA MovedTimes ==
  ASSUME NEW a \in Timestamp, NEW b \in Timestamp, NEW c \in Timestamp, NEW n \in Int
  PROVE  /\ TimeAtOrBefore(a, a)
         /\ TimeAtOrBefore(a, b) /\ TimeAtOrBefore(b, c) => TimeAtOrBefore(a, c)
         /\ ~TimeBefore(a, b) <=> TimeAtOrBefore(b, a)
         /\ TimeBefore(a, b) => TimeAtOrBefore(a, b)
         /\ TimeAtOrBefore(a, b) /\ TimeAtOrBefore(b, a) => a = b
         /\ After(a, n) \in Timestamp
         /\ After(a, n) = [seconds |-> a.seconds + n, microseconds |-> a.microseconds]
         /\ 0 < n /\ TimeAtOrBefore(a, b) => ~TimeAtOrBefore(After(b, n), a)
         /\ 0 < n /\ TimeAtOrBefore(a, b) => ~TimeAtOrBefore(b, After(a, -n))
         /\ TimeAtOrBefore(a, After(b, -n)) => TimeAtOrBefore(After(a, n), b)
<1>1. \A t \in Timestamp, m \in Int :
        /\ After(t, m) = [seconds |-> t.seconds + m, microseconds |-> t.microseconds]
        /\ After(t, m) \in Timestamp
  BY SMT DEF After, Timestamp
<1>2. -n \in Int
  OBVIOUS
<1>3. /\ a.seconds \in Int /\ b.seconds \in Int /\ c.seconds \in Int
      /\ a.microseconds \in Int /\ b.microseconds \in Int /\ c.microseconds \in Int
  BY SMT DEF Timestamp
<1>4. a = [seconds |-> a.seconds, microseconds |-> a.microseconds]
      /\ b = [seconds |-> b.seconds, microseconds |-> b.microseconds]
  BY SMT DEF Timestamp
<1>5. TimeAtOrBefore(a, b) /\ TimeAtOrBefore(b, a) => a = b
  <2>1. TimeAtOrBefore(a, b) /\ TimeAtOrBefore(b, a) =>
          a.seconds = b.seconds /\ a.microseconds = b.microseconds
    BY <1>3, SMT DEF TimeAtOrBefore
  <2> QED BY <1>4, <2>1, Zenon
<1>6. /\ After(a, n) = [seconds |-> a.seconds + n, microseconds |-> a.microseconds]
      /\ After(b, n) = [seconds |-> b.seconds + n, microseconds |-> b.microseconds]
      /\ After(a, -n) = [seconds |-> a.seconds + (-n), microseconds |-> a.microseconds]
      /\ After(b, -n) = [seconds |-> b.seconds + (-n), microseconds |-> b.microseconds]
      /\ After(a, n) \in Timestamp
  BY <1>1, <1>2
<1> QED BY <1>3, <1>5, <1>6, SMT DEF TimeAtOrBefore, TimeBefore

LEMMA BoundedTimes == BoundedTime \subseteq Timestamp
BY IntAssumption DEF BoundedTime, Timestamp

(* A flow seen after the last cutoff has not been silent for the timeout   *)
(* and an interval as long as the next scan is not due.                    *)
LEMMA NotYetSilent ==
  ASSUME NEW seen \in Timestamp, NEW last \in BoundedTime, NEW now \in BoundedTime,
         NEW idle \in Nat, NEW interval \in Nat,
         ~IntervalElapsed(now, last, interval),
         ~TimeAtOrBefore(seen, After(last, -idle))
  PROVE  ~TimeAtOrBefore(After(seen, idle + interval), now)
<1>1. last \in Timestamp /\ now \in Timestamp
  BY BoundedTimes
<1>2. idle + interval \in Int /\ interval \in Int /\ -idle \in Int /\ idle \in Int
  OBVIOUS
<1>3. /\ After(seen, idle + interval) =
           [seconds |-> seen.seconds + (idle + interval), microseconds |-> seen.microseconds]
      /\ After(last, interval) =
           [seconds |-> last.seconds + interval, microseconds |-> last.microseconds]
      /\ After(last, -idle) =
           [seconds |-> last.seconds + (-idle), microseconds |-> last.microseconds]
  BY <1>1, <1>2, MovedTimes, ZenonT(40)
<1>4. /\ seen.seconds \in Int /\ last.seconds \in Int /\ now.seconds \in Int
      /\ seen.microseconds \in Int /\ last.microseconds \in Int /\ now.microseconds \in Int
  BY <1>1, SMT DEF Timestamp
<1>5. now.seconds <= IntMax
  BY IntAssumption, SMT DEF BoundedTime
<1>6. \/ last.seconds > IntMax - interval
      \/ ~TimeAtOrBefore(After(last, interval), now)
  BY <1>2, <1>4, IntAssumption DEF IntervalElapsed
<1> QED BY <1>2, <1>3, <1>4, <1>5, <1>6, IntAssumption, SMT DEF TimeAtOrBefore

-----------------------------------------------------------------------------
(* The schedule of packets in order. *)

(* The schedule has the run's interval; its mark is a packet's time, and   *)
(* the next scan is not due at the mark.                                   *)
Marked(s, d) ==
  /\ s.scan_interval_seconds = ScanInterval
  /\ s.has_observation =>
       /\ \E j \in DOMAIN d : s.latest_timestamp = d[j].timestamp
       /\ s.latest_timestamp \in BoundedTime /\ s.last_scan_timestamp \in BoundedTime
       /\ TimeAtOrBefore(s.last_scan_timestamp, s.latest_timestamp)
       /\ ~IntervalElapsed(s.latest_timestamp, s.last_scan_timestamp, ScanInterval)

(* No flow was left that the last scan should have removed. *)
Fresh(s, f, idle) ==
  /\ ~s.has_observation => DOMAIN f = {}
  /\ s.has_observation =>
       \A k \in DOMAIN f : ~TimeAtOrBefore(f[k].last_seen, After(s.last_scan_timestamp, -idle))

(* The mark is the packet's time. *)
AtMark(s, p) == s.has_observation /\ s.latest_timestamp = p.timestamp

LEMMA ObservedMark ==
  ASSUME NEW s \in ScheduleShape, NEW d, Marked(s, d), NEW t \in BoundedTime,
         \A j \in DOMAIN d : TimeAtOrBefore(d[j].timestamp, t),
         NEW i \in DOMAIN d, d[i].timestamp = t
  PROVE  LET next == flow_expiration_schedule_observe(s, t) IN
         /\ Marked(next, d)
         /\ next.has_observation /\ next.latest_timestamp = t
         /\ HighWater(s, t) = t
         /\ next.last_scan_timestamp =
              IF s.has_observation /\ ~ScanDue(s, t) THEN s.last_scan_timestamp ELSE t
<1> DEFINE next == flow_expiration_schedule_observe(s, t)
           last == s.last_scan_timestamp
<1>1. t \in Timestamp /\ last \in Timestamp /\ s.latest_timestamp \in Timestamp
      /\ ScanInterval \in Int /\ 0 < ScanInterval
  BY BoundedTimes, IntervalsAssumption, IntAssumption DEF ScheduleShape
<1>2. HighWater(s, t) = t
  <2>1. s.has_observation => TimeAtOrBefore(s.latest_timestamp, t)
    BY DEF Marked
  <2> QED BY <1>1, <2>1, MovedTimes DEF HighWater
<1>3. /\ next.latest_timestamp = t /\ next.has_observation
      /\ next.scan_interval_seconds = s.scan_interval_seconds
      /\ next.last_scan_timestamp =
           IF s.has_observation /\ ~ScanDue(s, t) THEN last ELSE t
  <2> HIDE DEF HighWater, ScanDue
  <2> QED BY <1>2 DEF flow_expiration_schedule_observe, ScheduleShape
<1> HIDE DEF next
<1>4. CASE ~(s.has_observation /\ ~ScanDue(s, t))
  <2>1. next.last_scan_timestamp = t
    BY <1>3, <1>4
  <2>2. TimeAtOrBefore(t, t) /\ ~TimeAtOrBefore(After(t, ScanInterval), t)
    BY <1>1, MovedTimes
  <2>3. ~IntervalElapsed(t, t, ScanInterval)
    BY <2>2 DEF IntervalElapsed
  <2>4. Marked(next, d)
    BY <1>3, <2>1, <2>2, <2>3 DEF Marked
  <2> QED BY <1>2, <1>3, <2>4 DEF next
<1>5. CASE s.has_observation /\ ~ScanDue(s, t)
  <2>1. next.last_scan_timestamp = last
    BY <1>3, <1>5
  <2>2. ~IntervalElapsed(t, last, ScanInterval)
    BY <1>2, <1>5 DEF ScanDue, Marked
  <2>3. TimeAtOrBefore(last, t) /\ last \in BoundedTime
    BY <1>1, <1>5, MovedTimes DEF Marked
  <2>4. Marked(next, d)
    BY <1>3, <2>1, <2>2, <2>3 DEF Marked
  <2> QED BY <1>2, <1>3, <2>4 DEF next
<1> QED BY <1>4, <1>5

(* More packets do not change what the schedule knows. *)
LEMMA MarkedLater ==
  ASSUME NEW s, NEW d, NEW e, Marked(s, d), DOMAIN d \subseteq DOMAIN e,
         \A i \in DOMAIN d : e[i] = d[i]
  PROVE  Marked(s, e)
<1>1. (\E j \in DOMAIN d : s.latest_timestamp = d[j].timestamp) =>
        (\E j \in DOMAIN e : s.latest_timestamp = e[j].timestamp)
  OBVIOUS
<1> QED BY <1>1 DEF Marked

(* What a packet does to the times of the table: no flow is seen at        *)
(* another time than before or the packet's, without eviction none leaves  *)
(* or goes back, and a packet that was taken is in time of its flow.       *)
LEMMA ProcessTimes ==
  ASSUME TableTypes, NEW p \in PacketInfo, NEW evict, Process(p, evict)
  PROVE  /\ \A k \in DOMAIN flows' :
              \/ k \in DOMAIN flows /\ flows'[k].last_seen = flows[k].last_seen
              \/ flows'[k].last_seen = p.timestamp
         /\ ~evict => \A k \in DOMAIN flows :
              k \in DOMAIN flows' /\ TimeAtOrBefore(flows[k].last_seen, flows'[k].last_seen)
         /\ result'.err = "0" =>
              /\ KeyOf(p) \in DOMAIN flows'
              /\ TimeAtOrBefore(p.timestamp, flows'[KeyOf(p)].last_seen)
<1> DEFINE
      Goal ==
        /\ \A k \in DOMAIN flows' :
             \/ k \in DOMAIN flows /\ flows'[k].last_seen = flows[k].last_seen
             \/ flows'[k].last_seen = p.timestamp
        /\ ~evict => \A k \in DOMAIN flows :
             k \in DOMAIN flows' /\ TimeAtOrBefore(flows[k].last_seen, flows'[k].last_seen)
        /\ result'.err = "0" =>
             /\ KeyOf(p) \in DOMAIN flows'
             /\ TimeAtOrBefore(p.timestamp, flows'[KeyOf(p)].last_seen)
<1> SUFFICES Goal
  OBVIOUS
<1>0. /\ \A k \in DOMAIN flows :
           flows[k] \in FlowRecords /\ flows[k].key = k /\ flows[k].last_seen \in Timestamp
      /\ p.timestamp \in Timestamp
  <2>1. p.timestamp \in Timestamp
    BY DEF PacketInfo
  <2>2. \A r \in FlowRecords : r.last_seen \in Timestamp
    BY DEF FlowRecords
  <2> QED BY <2>1, <2>2 DEF TableTypes, IsTable
<1>1. \A k \in DOMAIN flows : TimeAtOrBefore(flows[k].last_seen, flows[k].last_seen)
  BY <1>0, MovedTimes
<1>2. TimeAtOrBefore(p.timestamp, p.timestamp)
  BY <1>0, MovedTimes
<1>3. CASE UNCHANGED flows /\ result'.err \in MapErrors \ {"0"}
  BY <1>1, <1>3
<1>4. CASE /\ KeyOf(p) \in DOMAIN flows
           /\ RecordUpdateError(flows[KeyOf(p)], p) = "0"
           /\ flows' = With(flows, flow_record_update(flows[KeyOf(p)], p))
  <2> DEFINE old == flows[KeyOf(p)]
             r == flow_record_update(old, p)
  <2>1. old \in FlowRecords /\ old.last_seen \in Timestamp /\ r.key = KeyOf(p)
    BY <1>0, <1>4, RecordUpdateType
  <2>2. r.last_seen = IF TimeBefore(old.last_seen, p.timestamp) THEN p.timestamp ELSE old.last_seen
    <3> HIDE DEF old
    <3> QED BY <2>1 DEF flow_record_update, FlowRecords
  <2>3. TimeAtOrBefore(old.last_seen, r.last_seen) /\ TimeAtOrBefore(p.timestamp, r.last_seen)
    BY <1>0, <2>1, <2>2, MovedTimes
  <2>4. flows' = With(flows, r)
    BY <1>4
  <2> HIDE DEF r
  <2>5. /\ DOMAIN flows' = DOMAIN flows /\ flows'[KeyOf(p)] = r
        /\ \A k \in DOMAIN flows : k # KeyOf(p) => flows'[k] = flows[k]
    BY <1>4, <2>1, <2>4 DEF With
  <2> QED BY <1>1, <1>4, <2>2, <2>3, <2>5
<1>5. ASSUME NEW f, KeyOf(p) \notin DOMAIN f, RecordInitError(p) = "0",
             flows' = With(f, flow_record_init(p))
      PROVE  /\ DOMAIN flows' = DOMAIN f \cup {KeyOf(p)}
             /\ flows'[KeyOf(p)].last_seen = p.timestamp
             /\ \A k \in DOMAIN f : flows'[k] = f[k]
  <2> DEFINE r == flow_record_init(p)
  <2>1. r.key = KeyOf(p) /\ r.last_seen = p.timestamp
    BY DEF flow_record_init
  <2>2. flows' = With(f, r)
    BY <1>5
  <2> HIDE DEF r
  <2>3. /\ DOMAIN With(f, r) = DOMAIN f \cup {r.key} /\ With(f, r)[r.key] = r
        /\ \A k \in DOMAIN f : k # r.key => With(f, r)[k] = f[k]
    BY DEF With
  <2>4. DOMAIN flows' = DOMAIN f \cup {KeyOf(p)} /\ flows'[KeyOf(p)] = r
    BY <2>1, <2>2, <2>3
  <2>5. \A k \in DOMAIN f : flows'[k] = f[k]
    BY <1>5, <2>1, <2>2, <2>3
  <2> QED BY <2>1, <2>4, <2>5
<1>6. CASE /\ KeyOf(p) \notin DOMAIN flows /\ RecordInitError(p) = "0"
           /\ flows' = With(flows, flow_record_init(p))
  <2>1. /\ DOMAIN flows' = DOMAIN flows \cup {KeyOf(p)}
        /\ flows'[KeyOf(p)].last_seen = p.timestamp
        /\ \A k \in DOMAIN flows : flows'[k] = flows[k]
    BY <1>5, <1>6
  <2> QED BY <1>1, <1>2, <2>1
<1>7. ASSUME evict, KeyOf(p) \notin DOMAIN flows, RecordInitError(p) = "0", NEW k \in DOMAIN flows,
             flows' = With(Without(flows, {k}), flow_record_init(p))
      PROVE  Goal
  <2> DEFINE f == Without(flows, {k})
  <2>1. /\ DOMAIN f = DOMAIN flows \ {k} /\ \A j \in DOMAIN f : f[j] = flows[j]
        /\ KeyOf(p) \notin DOMAIN f
    BY <1>7 DEF Without
  <2>2. flows' = With(f, flow_record_init(p))
    BY <1>7
  <2> HIDE DEF f
  <2>3. /\ DOMAIN flows' = DOMAIN f \cup {KeyOf(p)}
        /\ flows'[KeyOf(p)].last_seen = p.timestamp
        /\ \A j \in DOMAIN f : flows'[j] = f[j]
    BY <1>5, <1>7, <2>1, <2>2
  <2> QED BY <1>2, <1>7, <2>1, <2>3
<1> HIDE DEF Goal
<1>8. \/ UNCHANGED flows /\ result'.err \in MapErrors \ {"0"}
      \/ /\ KeyOf(p) \in DOMAIN flows
         /\ RecordUpdateError(flows[KeyOf(p)], p) = "0"
         /\ flows' = With(flows, flow_record_update(flows[KeyOf(p)], p))
      \/ /\ KeyOf(p) \notin DOMAIN flows /\ RecordInitError(p) = "0"
         /\ flows' = With(flows, flow_record_init(p))
      \/ /\ evict /\ KeyOf(p) \notin DOMAIN flows /\ RecordInitError(p) = "0"
         /\ \E k \in DOMAIN flows : flows' = With(Without(flows, {k}), flow_record_init(p))
  BY ProcessOutcomes, SMTT(30)
<1> QED BY <1>3, <1>4, <1>6, <1>7, <1>8

(* Nothing is taken into a flow before the loop. *)
NothingTaken == pc \in Starting \cup {"init", "publish"} => accepted = {}

LEMMA NothingTakenKept == NothingTaken /\ [Next]_vars => NothingTaken'
<1> SUFFICES ASSUME NothingTaken, [Next]_vars PROVE NothingTaken'
  OBVIOUS
<1> USE DEF NothingTaken, Starting
<1>1. CASE InstallHandlers \/ AppRun \/ OpenCapture \/ InitTable \/ PublishCapture
  BY <1>1 DEF InstallHandlers, AppRun, OpenCapture, InitTable, PublishCapture,
              Goto, FailTo, Fault, countVars
<1>2. CASE HandlesFiles
  BY <1>2, FileMoves
<1>3. CASE WritesRows
  BY <1>3, RowsMoves
<1>4. CASE LoopTop \/ ReadPacket \/ AfterRead \/ Poll \/ ObservePacket \/ ProcessPacket \/ CountResult
  BY <1>4 DEF LoopTop, ReadPacket, AfterRead, Poll, ObservePacket, ProcessPacket, ClassifyPacket,
              TrackPacket, CountResult, Goto, FailTo, Fault
<1>5. CASE UnpublishCapture \/ CloseCapture \/ AbortRun \/ PrintSummary \/ Return
  BY <1>5 DEF UnpublishCapture, CloseCapture, AbortRun, PrintSummary, Return, Goto, Fault
<1>6. CASE StopSignal \/ UNCHANGED vars
  BY <1>6 DEF StopSignal, vars, countVars
<1> QED BY <1>1, <1>2, <1>3, <1>4, <1>5, <1>6 DEF Next, Thread, HandlesFiles, WritesRows

(* The packets in flows have a time. *)
TakenTimed == \A i \in accepted : delivered[i].timestamp \in Timestamp

LEMMA TakenTimedKept ==
  InputTypes /\ PacketInv /\ TakenTimed /\ [Next]_vars => TakenTimed'
<1> SUFFICES ASSUME InputTypes, PacketInv, TakenTimed, [Next]_vars PROVE TakenTimed'
  OBVIOUS
<1>1. ASSUME UNCHANGED accepted PROVE TakenTimed'
  BY <1>1, HistoryGrows DEF InputTypes, TakenTimed
<1>2. CASE ProcessPacket
  <2>1. /\ accepted' \in {accepted, accepted \cup {Len(delivered)}} /\ UNCHANGED delivered
        /\ pc = "process" /\ (packet.timestamp \notin Timestamp => UNCHANGED accepted)
    BY <1>2 DEF ProcessPacket, ClassifyPacket, TrackPacket, readVars
  <2>2. packet = delivered[Len(delivered)]
    BY <2>1 DEF PacketInv, Unseen
  <2> QED BY <2>1, <2>2 DEF TakenTimed
<1>3. CASE ~ProcessPacket
  <2>1. CASE HandlesFiles \/ WritesRows
    BY <1>1, <2>1, FileMoves, RowsMoves
  <2>2. CASE InstallHandlers \/ AppRun \/ OpenCapture \/ InitTable \/ PublishCapture \/ LoopTop
             \/ ReadPacket \/ AfterRead \/ Poll \/ ObservePacket \/ CountResult
             \/ UnpublishCapture \/ CloseCapture \/ AbortRun \/ PrintSummary \/ Return
    BY <1>1, <2>2 DEF InstallHandlers, AppRun, OpenCapture, InitTable, PublishCapture, LoopTop,
       ReadPacket, AfterRead, Poll, ObservePacket, CountResult, UnpublishCapture, CloseCapture,
       AbortRun, PrintSummary, Return, countVars
  <2>3. CASE StopSignal \/ UNCHANGED vars
    BY <1>1, <2>3 DEF StopSignal, vars, countVars
  <2> QED BY <1>3, <2>1, <2>2, <2>3 DEF Next, Thread, HandlesFiles, WritesRows
<1> QED BY <1>2, <1>3

-----------------------------------------------------------------------------
(* The flows of packets in order. *)

InLoop == pc \in Looping \cup {"publish"}

(* At these steps the schedule has seen the packet in hand. *)
Seen == pc \in {"expired_flow", "expired_feature", "process"}

(* Between two packets, and from the scan to the end of a packet's way,    *)
(* the table holds no flow the schedule should have ended.                 *)
MarkInv ==
  InOrder /\ ExpirationEnabled /\ InLoop =>
    /\ Marked(schedule, delivered) /\ Fresh(schedule, flows, IdleTimeout)
    /\ Seen => AtMark(schedule, packet)

(* Packets in order were in order before. *)
LEMMA OrderedBefore ==
  ASSUME InputTypes, [Next]_vars, InOrder' PROVE InOrder
<1>1. DOMAIN delivered \subseteq DOMAIN delivered' /\ \A i \in DOMAIN delivered : delivered'[i] = delivered[i]
  BY HistoryGrows
<1> QED BY <1>1 DEF InOrder

(* In order, no packet so far is later than the one in hand. *)
LEMMA LatestInHand ==
  ASSUME InputTypes, PacketInv, InOrder, Unseen, packet.timestamp \in Timestamp
  PROVE  /\ packet.timestamp \in BoundedTime
         /\ \A j \in DOMAIN delivered : TimeAtOrBefore(delivered[j].timestamp, packet.timestamp)
         /\ \E i \in DOMAIN delivered : delivered[i].timestamp = packet.timestamp
<1>1. PICK n : n = Len(delivered)
  OBVIOUS
<1>2. /\ DOMAIN delivered = 1 .. n /\ n \in DOMAIN delivered /\ n \in Nat
      /\ packet = delivered[n] /\ packet \in Packets
  BY <1>1, LastPacket DEF InputTypes, PacketInv
<1>3. packet.timestamp \in BoundedTime
  BY <1>2, PacketsAssumption
<1>4. ASSUME NEW j \in DOMAIN delivered
      PROVE  TimeAtOrBefore(delivered[j].timestamp, packet.timestamp)
  <2>1. CASE j = n
    BY <1>2, <2>1, MovedTimes
  <2>2. CASE j # n
    <3>1. j < n
      BY <1>2, <2>2
    <3> QED BY <1>2, <3>1 DEF InOrder
  <2> QED BY <2>1, <2>2
<1> QED BY <1>2, <1>3, <1>4, Zenon

(* An observation of a packet in order, and the scan it may make due. *)
LEMMA ObserveKeepsMark ==
  ASSUME InputTypes, PacketInv, TableTypes, ScheduleInv, MarkInv, InOrder, ObservePacket,
         pc' \in Looping
  PROVE  LET mark == packet.timestamp IN
         /\ mark \in Timestamp
         /\ Marked(schedule', delivered') /\ AtMark(schedule', packet')
         /\ Fresh(schedule', flows', IdleTimeout)
         /\ \/ UNCHANGED flows
            \/ flows' = Without(flows, Silent(After(mark, -IdleTimeout)))
<1> DEFINE mark == packet.timestamp
           s == schedule
           next == flow_expiration_schedule_observe(schedule, packet.timestamp)
<1>1. pc = "observe" /\ UNCHANGED <<delivered, packet, config>> /\ ExpirationEnabled /\ Unseen
      /\ s.idle_timeout_seconds = IdleTimeout /\ s \in ScheduleShape
  BY DEF ObservePacket, readVars, ScheduleInv, Unseen, Goto, FailTo, Fault, Looping
<1>2. /\ mark \in Timestamp /\ schedule' = next
      /\ IF ~ScanDue(schedule, mark) THEN UNCHANGED flows
         ELSE Expire(Cutoff(schedule, mark), Capacity) /\ result'.err = "0"
  BY DEF ObservePacket, Goto, FailTo, Fault, Looping, mapVars
<1>3. /\ mark \in BoundedTime
      /\ \A j \in DOMAIN delivered : TimeAtOrBefore(delivered[j].timestamp, mark)
      /\ \E i \in DOMAIN delivered : delivered[i].timestamp = mark
  BY <1>1, <1>2, LatestInHand
<1>4. Marked(s, delivered) /\ Fresh(s, flows, IdleTimeout)
  BY <1>1 DEF MarkInv, InLoop, Looping
<1>5. PICK i \in DOMAIN delivered : delivered[i].timestamp = mark
  BY <1>3
<1> HIDE DEF mark, s
<1>6. /\ Marked(flow_expiration_schedule_observe(s, mark), delivered)
      /\ flow_expiration_schedule_observe(s, mark).has_observation
      /\ flow_expiration_schedule_observe(s, mark).latest_timestamp = mark
      /\ HighWater(s, mark) = mark
      /\ flow_expiration_schedule_observe(s, mark).last_scan_timestamp =
           IF s.has_observation /\ ~ScanDue(s, mark) THEN s.last_scan_timestamp ELSE mark
  BY <1>1, <1>3, <1>4, <1>5, ObservedMark
<1>7. next = flow_expiration_schedule_observe(s, mark)
  BY DEF s, mark
<1> HIDE DEF next
<1>8. /\ Marked(schedule', delivered') /\ AtMark(schedule', packet')
      /\ schedule'.has_observation
      /\ schedule'.last_scan_timestamp =
           IF s.has_observation /\ ~ScanDue(s, mark) THEN s.last_scan_timestamp ELSE mark
  BY <1>1, <1>2, <1>6, <1>7 DEF AtMark, mark
<1>9. CASE ~ScanDue(s, mark)
  <2>1. UNCHANGED flows
    BY <1>2, <1>9 DEF s
  <2>2. Fresh(schedule', flows', IdleTimeout)
    BY <1>4, <1>8, <1>9, <2>1 DEF Fresh
  <2> QED BY <1>2, <1>8, <2>1, <2>2 DEF mark
<1>10. CASE ScanDue(s, mark)
  <2> DEFINE cutoff == After(mark, -IdleTimeout)
  <2>1. Expire(cutoff, Capacity) /\ result'.err = "0"
    BY <1>1, <1>2, <1>6, <1>10 DEF s, mark, Cutoff
  <2> HIDE DEF cutoff
  <2>2. flows' = Without(flows, Silent(cutoff))
    BY <2>1, ExpireOutcomes
  <2>3. schedule'.last_scan_timestamp = mark
    BY <1>8, <1>10
  <2>4. \A k \in DOMAIN flows' :
          k \in DOMAIN flows /\ flows'[k] = flows[k] /\ ~TimeAtOrBefore(flows[k].last_seen, cutoff)
    BY <2>2 DEF Without, Silent
  <2>5. Fresh(schedule', flows', IdleTimeout)
    BY <1>8, <2>3, <2>4 DEF Fresh, cutoff
  <2> QED BY <1>2, <1>8, <2>2, <2>5 DEF mark, cutoff
<1> QED BY <1>9, <1>10

LEMMA MarkKept ==
  InputTypes /\ PacketInv /\ TableTypes /\ ScheduleInv /\ MarkInv /\ AfterError' /\ [Next]_vars
    => MarkInv'
<1> SUFFICES ASSUME InputTypes, PacketInv, TableTypes, ScheduleInv, MarkInv, AfterError', [Next]_vars,
                    InOrder', ExpirationEnabled', InLoop'
             PROVE  /\ Marked(schedule', delivered') /\ Fresh(schedule', flows', IdleTimeout')
                    /\ Seen' => AtMark(schedule', packet')
  BY DEF MarkInv
<1>0. /\ InOrder /\ UNCHANGED config /\ ExpirationEnabled /\ IdleTimeout' = IdleTimeout
      /\ DOMAIN delivered \subseteq DOMAIN delivered'
      /\ \A i \in DOMAIN delivered : delivered'[i] = delivered[i]
      /\ IdleTimeout \in Nat /\ 0 < IdleTimeout
  BY OrderedBefore, HistoryGrows, IdleTimeoutType DEF ExpirationEnabled, IdleTimeout
<1>1. ASSUME UNCHANGED <<schedule, flows>>, InLoop, Seen' => Seen /\ UNCHANGED packet
      PROVE  /\ Marked(schedule', delivered') /\ Fresh(schedule', flows', IdleTimeout')
             /\ Seen' => AtMark(schedule', packet')
  BY <1>0, <1>1, MarkedLater DEF MarkInv
<1> USE DEF InLoop, Looping, Seen
<1>2. CASE InstallHandlers \/ AppRun \/ OpenCapture \/ PublishCapture
  <2>1. pc' \notin {"publish"} \cup Looping
          \/ (pc = "publish" /\ pc' = "loop" /\ UNCHANGED <<schedule, flows>>)
    BY <1>2 DEF InstallHandlers, AppRun, OpenCapture, PublishCapture, Goto, FailTo, Fault, mapVars
  <2> QED BY <1>1, <2>1
<1>3. CASE InitTable
  <2>1. /\ pc' \in {"publish", "abort"} /\ flows' = NoFlows
        /\ schedule' = flow_expiration_schedule_init(IdleTimeout, ScanInterval)
    BY <1>0, <1>3 DEF InitTable, Goto, Fault, Open
  <2> QED BY <1>0, <2>1, NoFlowsEmpty DEF Marked, Fresh, flow_expiration_schedule_init
<1>4. CASE HandlesFiles
  <2>1. ~InLoop'
    BY <1>4, FileMoves
  <2> QED BY <2>1
<1>5. CASE WritesRows
  <2>1. /\ UNCHANGED <<schedule, flows, packet>> /\ InLoop
        /\ Seen' => Seen
    BY <1>5, RowsMoves
  <2> QED BY <1>1, <2>1
<1>6. CASE LoopTop \/ ReadPacket \/ AfterRead \/ Poll \/ CountResult
  <2>1. UNCHANGED <<schedule, flows>> /\ InLoop
    BY <1>6 DEF LoopTop, ReadPacket, AfterRead, Poll, CountResult, mapVars
  <2>2. ~Seen'
    BY <1>0, <1>6 DEF LoopTop, ReadPacket, AfterRead, Poll, CountResult, Goto, Fault
  <2> QED BY <1>1, <2>1, <2>2
<1>7. CASE ObservePacket
  <2>1. pc' \in Looping
    BY <1>7 DEF ObservePacket, Goto, FailTo, Fault
  <2> QED BY <1>0, <1>7, <2>1, ObserveKeepsMark
<1>8. CASE ProcessPacket
  <2>1. error' = "0" /\ pc = "process"
    BY <1>8 DEF AfterError, Aborting, Closing, ProcessPacket
  <2>2. /\ UNCHANGED <<packet, delivered>> /\ ~Seen' /\ packet.timestamp \in Timestamp
        /\ UNCHANGED flows \/ Process(packet, config.evict)
    BY <1>8, <2>1, ProcessSteps
  <2>3. UNCHANGED schedule
    BY <1>8 DEF ProcessPacket
  <2>4. CASE UNCHANGED flows
    BY <1>1, <2>1, <2>2, <2>3, <2>4
  <2>5. CASE Process(packet, config.evict)
    <3>1. packet \in PacketInfo
      BY <2>1, <2>2, LastPacket DEF Unseen
    <3>2. \A k \in DOMAIN flows' :
            \/ k \in DOMAIN flows /\ flows'[k].last_seen = flows[k].last_seen
            \/ flows'[k].last_seen = packet.timestamp
      BY <2>5, <3>1, ProcessTimes
    <3>3. /\ Marked(schedule, delivered) /\ Fresh(schedule, flows, IdleTimeout)
          /\ AtMark(schedule, packet)
      BY <1>0, <2>1 DEF MarkInv
    <3>4. ~TimeAtOrBefore(packet.timestamp, After(schedule.last_scan_timestamp, -IdleTimeout))
      <4>1. /\ schedule.last_scan_timestamp \in Timestamp
            /\ TimeAtOrBefore(schedule.last_scan_timestamp, packet.timestamp)
        BY <3>3, BoundedTimes DEF Marked, AtMark
      <4> QED BY <1>0, <2>2, <4>1, MovedTimes
    <3>5. Fresh(schedule, flows', IdleTimeout)
      BY <3>2, <3>3, <3>4 DEF Fresh, AtMark
    <3> QED BY <1>0, <2>2, <2>3, <3>3, <3>5
  <2> QED BY <2>2, <2>4, <2>5
<1>9. CASE UnpublishCapture \/ CloseCapture \/ AbortRun \/ PrintSummary \/ Return
  <2>1. ~InLoop'
    BY <1>9 DEF UnpublishCapture, CloseCapture, AbortRun, PrintSummary, Return, Goto, Fault
  <2> QED BY <2>1
<1>10. CASE StopSignal \/ UNCHANGED vars
  <2>1. UNCHANGED <<schedule, flows, pc, packet>>
    BY <1>10 DEF StopSignal, vars, readVars, mapVars
  <2> QED BY <1>1, <2>1
<1> QED BY <1>2, <1>3, <1>4, <1>5, <1>6, <1>7, <1>8, <1>9, <1>10
        DEF Next, Thread, HandlesFiles, WritesRows

-----------------------------------------------------------------------------
(* The records of packets in order. *)

(* A packet's flow is still in the table, at the packet's time or later. *)
Continued(d, f, i) ==
  /\ KeyOf(d[i]) \in DOMAIN f
  /\ TimeAtOrBefore(d[i].timestamp, f[KeyOf(d[i])].last_seen)

(* The mark is the idle timeout after the packet, or more. *)
LongAgo(d, s, i, idle) ==
  /\ idle > 0 /\ s.has_observation
  /\ TimeAtOrBefore(After(d[i].timestamp, idle), s.latest_timestamp)

(* Without eviction a flow leaves the table only when the mark has passed  *)
(* its packets by the timeout.                                             *)
BurstInv ==
  InOrder /\ ~config.evict /\ InLoop =>
    \A i \in accepted :
      Continued(delivered, flows, i) \/ LongAgo(delivered, schedule, i, IdleTimeout)

(* A scan removes only flows whose packets are all that long ago. *)
LEMMA ObserveKeepsBursts ==
  ASSUME InputTypes, PacketInv, TableTypes, ScheduleInv, MarkInv, TakenTimed, InOrder, ObservePacket,
         pc' \in Looping, NEW i \in accepted,
         Continued(delivered, flows, i) \/ LongAgo(delivered, schedule, i, IdleTimeout)
  PROVE  Continued(delivered, flows', i) \/ LongAgo(delivered, schedule', i, IdleTimeout)
<1> DEFINE mark == packet.timestamp
           time == delivered[i].timestamp
           key == KeyOf(delivered[i])
<1>1. /\ mark \in Timestamp /\ AtMark(schedule', packet')
      /\ UNCHANGED flows \/ flows' = Without(flows, Silent(After(mark, -IdleTimeout)))
  BY ObserveKeepsMark
<1>2. /\ schedule'.has_observation /\ schedule'.latest_timestamp = mark
      /\ pc = "observe" /\ Unseen /\ ExpirationEnabled
  BY <1>1 DEF AtMark, ObservePacket, readVars, Unseen, ScheduleInv
<1>3. IdleTimeout \in Nat /\ IdleTimeout > 0 /\ IdleTimeout \in Int /\ time \in Timestamp
  BY <1>2, IdleTimeoutType DEF ExpirationEnabled, TakenTimed
<1>4. CASE LongAgo(delivered, schedule, i, IdleTimeout)
  <2>1. /\ schedule.has_observation /\ schedule.latest_timestamp \in Timestamp
        /\ TimeAtOrBefore(schedule.latest_timestamp, mark)
    <3>1. schedule.has_observation /\ Marked(schedule, delivered)
      BY <1>2, <1>4 DEF LongAgo, MarkInv, InLoop, Looping
    <3>2. PICK j \in DOMAIN delivered : schedule.latest_timestamp = delivered[j].timestamp
      BY <3>1 DEF Marked
    <3>3. TimeAtOrBefore(delivered[j].timestamp, mark)
      BY <1>1, <1>2, LatestInHand
    <3> QED BY <3>1, <3>2, <3>3, BoundedTimes DEF Marked
  <2>2. After(time, IdleTimeout) \in Timestamp
    BY <1>3, MovedTimes
  <2>3. TimeAtOrBefore(After(time, IdleTimeout), schedule.latest_timestamp)
    BY <1>4 DEF LongAgo
  <2>4. TimeAtOrBefore(After(time, IdleTimeout), mark)
    BY <1>1, <2>1, <2>2, <2>3, MovedTimes
  <2> QED BY <1>2, <1>3, <2>4 DEF LongAgo
<1>5. CASE Continued(delivered, flows, i)
  <2> DEFINE cutoff == After(mark, -IdleTimeout)
             seen == flows[key].last_seen
  <2>1. key \in DOMAIN flows /\ TimeAtOrBefore(time, seen) /\ seen \in Timestamp
    <3>1. \A r \in FlowRecords : r.last_seen \in Timestamp
      BY DEF FlowRecords
    <3> QED BY <1>5, <3>1 DEF Continued, TableTypes, IsTable
  <2>2. CASE UNCHANGED flows
    BY <1>5, <2>2
  <2>3. CASE flows' = Without(flows, Silent(cutoff)) /\ key \notin Silent(cutoff)
    <3>1. key \in DOMAIN flows' /\ flows'[key] = flows[key]
      BY <2>1, <2>3 DEF Without
    <3> QED BY <2>1, <3>1 DEF Continued
  <2>4. CASE key \in Silent(cutoff)
    <3>1. TimeAtOrBefore(seen, cutoff)
      BY <2>4 DEF Silent
    <3>2. cutoff \in Timestamp
      <4>1. -IdleTimeout \in Int
        BY <1>3
      <4> QED BY <1>1, <4>1, MovedTimes
    <3>3. TimeAtOrBefore(time, cutoff)
      BY <1>3, <2>1, <3>1, <3>2, MovedTimes
    <3>4. TimeAtOrBefore(After(time, IdleTimeout), mark)
      BY <1>1, <1>3, <3>3, MovedTimes
    <3> QED BY <1>2, <1>3, <3>4 DEF LongAgo
  <2> QED BY <1>1, <2>2, <2>3, <2>4
<1> QED BY <1>4, <1>5

LEMMA BurstKept ==
  InputTypes /\ PacketInv /\ TableTypes /\ ScheduleInv /\ MarkInv /\ TakenTimed /\ NothingTaken
    /\ BurstInv /\ AfterError' /\ [Next]_vars => BurstInv'
<1> SUFFICES ASSUME InputTypes, PacketInv, TableTypes, ScheduleInv, MarkInv, TakenTimed, NothingTaken,
                    BurstInv, AfterError', [Next]_vars, InOrder', ~config'.evict, InLoop',
                    NEW i \in accepted'
             PROVE  \/ Continued(delivered', flows', i)
                    \/ LongAgo(delivered', schedule', i, IdleTimeout')
  BY DEF BurstInv
<1>0. /\ InOrder /\ UNCHANGED config /\ ~config.evict /\ IdleTimeout' = IdleTimeout
      /\ accepted \subseteq DOMAIN delivered
      /\ \A j \in DOMAIN delivered : delivered'[j] = delivered[j]
  BY OrderedBefore, HistoryGrows DEF IdleTimeout, InputTypes
<1>1. ASSUME InLoop, i \in accepted
      PROVE  \/ Continued(delivered, flows, i) \/ LongAgo(delivered, schedule, i, IdleTimeout)
  BY <1>0, <1>1 DEF BurstInv
<1>2. ASSUME i \in accepted,
             Continued(delivered, flows', i) \/ LongAgo(delivered, schedule', i, IdleTimeout)
      PROVE  \/ Continued(delivered', flows', i)
             \/ LongAgo(delivered', schedule', i, IdleTimeout')
  <2>1. delivered'[i] = delivered[i]
    BY <1>0, <1>2
  <2> QED BY <1>0, <1>2, <2>1 DEF Continued, LongAgo
<1>3. ASSUME InLoop, UNCHANGED <<schedule, flows, accepted>>
      PROVE  \/ Continued(delivered', flows', i)
             \/ LongAgo(delivered', schedule', i, IdleTimeout')
  BY <1>1, <1>2, <1>3
<1> USE DEF InLoop, Looping
<1>4. CASE InstallHandlers \/ AppRun \/ OpenCapture \/ PublishCapture
  <2>1. pc' \notin {"publish"} \cup Looping
          \/ (pc = "publish" /\ pc' = "loop" /\ UNCHANGED <<schedule, flows, accepted>>)
    BY <1>4 DEF InstallHandlers, AppRun, OpenCapture, PublishCapture, Goto, FailTo, Fault, mapVars,
                countVars
  <2> QED BY <1>3, <2>1
<1>5. CASE InitTable
  <2>1. UNCHANGED accepted /\ pc = "init"
    BY <1>5 DEF InitTable, countVars
  <2> QED BY <2>1 DEF NothingTaken
<1>6. CASE HandlesFiles
  <2>1. ~InLoop'
    BY <1>6, FileMoves
  <2> QED BY <2>1
<1>7. CASE WritesRows
  <2>1. UNCHANGED <<schedule, flows, accepted>> /\ InLoop
    BY <1>7, RowsMoves
  <2> QED BY <1>3, <2>1
<1>8. CASE LoopTop \/ ReadPacket \/ AfterRead \/ Poll \/ CountResult
  <2>1. UNCHANGED <<schedule, flows, accepted>> /\ InLoop
    BY <1>8 DEF LoopTop, ReadPacket, AfterRead, Poll, CountResult, mapVars, countVars
  <2> QED BY <1>3, <2>1
<1>9. CASE ObservePacket
  <2>1. pc' \in Looping /\ InLoop /\ UNCHANGED accepted
    BY <1>9 DEF ObservePacket, Goto, FailTo, Fault, countVars
  <2>2. Continued(delivered, flows', i) \/ LongAgo(delivered, schedule', i, IdleTimeout)
    BY <1>0, <1>1, <1>9, <2>1, ObserveKeepsBursts
  <2> QED BY <1>2, <2>1, <2>2
<1>10. CASE ProcessPacket
  <2>1. error' = "0" /\ pc = "process"
    BY <1>10 DEF AfterError, Aborting, Closing, ProcessPacket
  <2>2. /\ UNCHANGED <<packet, delivered>> /\ packet.timestamp \in Timestamp
        /\ \/ UNCHANGED <<accepted, flows>>
           \/ Process(packet, config.evict) /\ UNCHANGED accepted
           \/ /\ Process(packet, config.evict) /\ result'.err = "0"
              /\ accepted' = accepted \cup {Len(delivered)}
    BY <1>10, <2>1, ProcessSteps
  <2>3. UNCHANGED schedule
    BY <1>10 DEF ProcessPacket
  <2>4. CASE UNCHANGED <<accepted, flows>>
    BY <1>3, <2>1, <2>3, <2>4
  <2>5. CASE Process(packet, config.evict)
    <3>1. packet \in PacketInfo /\ packet = delivered[Len(delivered)]
      BY <2>1, <2>2, LastPacket DEF Unseen, PacketInv
    <3>2. /\ \A k \in DOMAIN flows :
               k \in DOMAIN flows' /\ TimeAtOrBefore(flows[k].last_seen, flows'[k].last_seen)
          /\ result'.err = "0" =>
               /\ KeyOf(packet) \in DOMAIN flows'
               /\ TimeAtOrBefore(packet.timestamp, flows'[KeyOf(packet)].last_seen)
      BY <1>0, <2>5, <3>1, ProcessTimes
    <3>3. CASE i \in accepted
      <4>1. CASE LongAgo(delivered, schedule, i, IdleTimeout)
        BY <1>2, <2>3, <3>3, <4>1
      <4>2. CASE Continued(delivered, flows, i)
        <5> DEFINE k == KeyOf(delivered[i])
        <5>1. /\ k \in DOMAIN flows /\ TimeAtOrBefore(delivered[i].timestamp, flows[k].last_seen)
              /\ k \in DOMAIN flows' /\ TimeAtOrBefore(flows[k].last_seen, flows'[k].last_seen)
          BY <3>2, <4>2 DEF Continued
        <5>2. \A r \in FlowRecords : r.last_seen \in Timestamp
          BY DEF FlowRecords
        <5>3. /\ delivered[i].timestamp \in Timestamp /\ flows[k].last_seen \in Timestamp
              /\ flows'[k].last_seen \in Timestamp
          <6>1. TableTypes'
            BY <2>5, <3>1, ProcessKeepsTypes
          <6>2. flows[k] \in FlowRecords
            BY <5>1 DEF TableTypes, IsTable
          <6>3. flows'[k] \in FlowRecords
            BY <5>1, <6>1 DEF TableTypes, IsTable
          <6> QED BY <3>3, <5>2, <6>2, <6>3 DEF TakenTimed
        <5>4. TimeAtOrBefore(delivered[i].timestamp, flows'[k].last_seen)
          BY <5>1, <5>3, MovedTimes
        <5>5. Continued(delivered, flows', i)
          BY <5>1, <5>4 DEF Continued
        <5> QED BY <1>2, <3>3, <5>5
      <4> QED BY <1>1, <2>1, <3>3, <4>1, <4>2
    <3>4. CASE i \notin accepted
      <4>1. i = Len(delivered) /\ result'.err = "0" /\ delivered'[i] = packet
        BY <2>2, <3>1, <3>4
      <4> QED BY <3>2, <4>1 DEF Continued
    <3> QED BY <3>3, <3>4
  <2> QED BY <2>2, <2>4, <2>5
<1>11. CASE UnpublishCapture \/ CloseCapture \/ AbortRun \/ PrintSummary \/ Return
  <2>1. ~InLoop'
    BY <1>11 DEF UnpublishCapture, CloseCapture, AbortRun, PrintSummary, Return, Goto, Fault
  <2> QED BY <2>1
<1>12. CASE StopSignal \/ UNCHANGED vars
  <2>1. UNCHANGED <<schedule, flows, pc, accepted>>
    BY <1>12 DEF StopSignal, vars, countVars, mapVars
  <2> QED BY <1>3, <2>1
<1> QED BY <1>4, <1>5, <1>6, <1>7, <1>8, <1>9, <1>10, <1>11, <1>12
        DEF Next, Thread, HandlesFiles, WritesRows

(* What the times of a run's packets, flows and schedule have in common. *)
TimesInv == TakenTimed /\ NothingTaken /\ MarkInv /\ BurstInv

(* Packets in order leave no overdue flow in the table, and what they took *)
(* out of it without eviction was silent for the timeout.                  *)
THEOREM TimesInvariance == Spec => []TimesInv
<1>1. Init => TimesInv
  BY DEF Init, TimesInv, TakenTimed, NothingTaken, MarkInv, BurstInv, InLoop, Looping
<1>2. RunInv /\ LedgerInv /\ LedgerInv' /\ TruthInv /\ TimesInv /\ [Next]_vars => TimesInv'
  BY TakenTimedKept, NothingTakenKept, MarkKept, BurstKept
     DEF RunInv, LedgerInv, TruthInv, TimesInv
<1> QED BY <1>1, <1>2, LedgerInvariance, TruthInvariance, PTL DEF Spec

(* With packets in order, the record that a packet extends was seen less   *)
(* than the idle timeout and one scan interval before, for all timeouts,   *)
(* intervals and packets.                                                  *)
THEOREM SilentCorrect == Spec => SilentFlowHasEnded
<1>1. RunInv /\ TimesInv => (ExpirationEnabled /\ InOrder => ~ExtendsAfter(IdleTimeout + ScanInterval))
  <2> SUFFICES ASSUME RunInv, TimesInv, ExpirationEnabled, InOrder, pc = "process",
                      NEW k \in DOMAIN flows
               PROVE  ~TimeAtOrBefore(After(flows[k].last_seen, IdleTimeout + ScanInterval),
                                      packet.timestamp)
    BY DEF ExtendsAfter
  <2>1. /\ Marked(schedule, delivered) /\ Fresh(schedule, flows, IdleTimeout)
        /\ AtMark(schedule, packet)
    BY DEF TimesInv, MarkInv, InLoop, Looping, Seen
  <2>2. IdleTimeout \in Nat /\ ScanInterval \in Nat
    BY IdleTimeoutType, IntervalsAssumption, IntAssumption DEF RunInv
  <2>3. flows[k].last_seen \in Timestamp
    <3>1. flows[k] \in FlowRecords
      BY DEF RunInv, TableTypes, IsTable
    <3> QED BY <3>1 DEF FlowRecords
  <2>4. /\ packet.timestamp \in BoundedTime /\ schedule.last_scan_timestamp \in BoundedTime
        /\ ~IntervalElapsed(packet.timestamp, schedule.last_scan_timestamp, ScanInterval)
        /\ ~TimeAtOrBefore(flows[k].last_seen, After(schedule.last_scan_timestamp, -IdleTimeout))
    BY <2>1 DEF Marked, Fresh, AtMark
  <2> QED BY <2>2, <2>3, <2>4, NotYetSilent
<1> QED BY <1>1, RunInvariance, TimesInvariance, PTL DEF SilentFlowHasEnded

(* With packets in order and no eviction, a flow gets another record only  *)
(* when all its packets so far lie the idle timeout before, and never in a *)
(* run without a timeout.                                                  *)
THEOREM BurstCorrect == Spec => OneRecordPerBurst
<1> DEFINE Claim ==
      InOrder /\ ~config.evict /\ pc = "process" =>
        \A k \in DOMAIN flows' \ DOMAIN flows, i \in accepted :
          KeyOf(delivered[i]) = k =>
            /\ ExpirationEnabled
            /\ TimeAtOrBefore(After(delivered[i].timestamp, IdleTimeout), packet.timestamp)
<1>1. RunInv /\ TimesInv => Claim
  <2> SUFFICES ASSUME RunInv, TimesInv, InOrder, ~config.evict, pc = "process",
                      NEW i \in accepted, KeyOf(delivered[i]) \notin DOMAIN flows
               PROVE  /\ ExpirationEnabled
                      /\ TimeAtOrBefore(After(delivered[i].timestamp, IdleTimeout), packet.timestamp)
    OBVIOUS
  <2>1. LongAgo(delivered, schedule, i, IdleTimeout)
    BY DEF TimesInv, BurstInv, InLoop, Looping, Continued
  <2>2. ExpirationEnabled
    BY <2>1 DEF LongAgo, ExpirationEnabled
  <2>3. schedule.latest_timestamp = packet.timestamp
    BY <2>2 DEF TimesInv, MarkInv, InLoop, Looping, Seen, AtMark
  <2> QED BY <2>1, <2>2, <2>3 DEF LongAgo
<1> QED BY <1>1, RunInvariance, TimesInvariance, PTL DEF OneRecordPerBurst
=============================================================================
