# A formal model of netflow-analyzer

TLA+ modules, TLC runs and TLAPS proofs for the C program in this repository:
a libpcap flow analyzer that reads packets from a file or an interface,
aggregates them into bidirectional flows, expires or evicts flows, writes CSV
files and prints a summary, and three labs (queues, threads, framing) that
prepare a later multi-threaded version.  Source paths below are relative to the
repository root.

## 1. Inventory

| Component | Source | State it keeps | Operations | Model |
|---|---|---|---|---|
| Packet metadata, parsers | `src/protocol/*` | one `packet_info_t` per packet | decode one packet layer by layer, classify it | `PacketParse` |
| Byte reader | `src/common/byte_reader.c` | a cursor over a buffer | `init`, `remaining`, `skip`, `read_*` | `ByteCursor` |
| Flow key | `src/flow/flow_key.c` | none | `flow_key_from_packet`, `_hash`, `_equal` | `FlowKey` |
| TCP connection state | `src/flow/tcp_flow_state.c` | phase, initiator, side of the first FIN | `init`, `observe` | `TcpFlowState`, `TcpLifecycle` |
| Flow record | `src/flow/flow_record.c` | key, TCP state, counters per direction, first and last time | `init`, `update` | `FlowRecord`, `FlowRecordLife` |
| Flow table | `src/flow/flow_table.c` | slots (EMPTY, OCCUPIED, DELETED), count, probe statistics | eleven calls | `FlowTable`, `FlowMap` |
| Expiration schedule | `src/flow/flow_expiration.c` | time high-water mark, last scan | `init`, `observe` | `FlowExpiration`, `ExpirationClock` |
| Runtime metrics | `src/metrics/runtime_metrics.c` | totals, last report | four `add`, `init`, `observe` | `RuntimeMetrics`, `MetricsClock` |
| Application run, capture wrapper, `main` | `src/app/app.c`, `src/capture/capture.c`, `src/main.c` | one run's locals, the stop request, the handler's view of the capture, two CSV files | the run, the signal handler | `CaptureApp` |
| Flow features | `src/flow/flow_features.c` | none | check a record, compute its feature vector | `FlowFeatures`, `FlowRecordLife` |
| CSV export | `src/output/*` | none | check and print a row | *when* a row is written (`CaptureApp`), which one is refused (`FlowFeatures`) |
| Pointer queue | `labs/thread_pipeline/pointer_queue.c` | ring, closed flag, waiters | `push`, `pop`, `close`, `destroy` | `PointerQueue` |
| Thread pipeline | `labs/thread_pipeline/pipeline_*.c` | four kinds of thread, heap objects | thread bodies, `main` | `Pipeline` |
| Integer queue lab | `labs/blocking_queue/queue.c` | as the pointer queue | as the pointer queue | `BlockingQueue`, `BoundedQueue` |
| TCP framing lab | `labs/tcp_framing/*` | a byte stream, descriptors | framed send and receive, client and server program | `TcpFraming`, `MessageChannel` |
| Data set scripts, packaging | `scripts/`, `packaging/` | files | batch labelling | not modelled |

**How they interact.** The analyzer is one thread.  `main` installs two signal
handlers (live mode only) and calls `app_run`; `run_capture_analysis` loops:
read a packet, let its timestamp advance the expiration schedule, take the
idle flows out of the table and write them, process the packet (parse, key,
record, table, perhaps evicting a record), count it, report metrics.  At the
end it writes what the table still holds and prints the summary.  The handler
sets `stop_requested` and, through `active_capture`, breaks libpcap's loop;
this shared pointer is the program's only concurrency.  The pipeline lab is
four kinds of threads joined by two bounded queues; the queue lab any number of
producers and consumers around one; the framing lab two programs joined by one
TCP connection.

**What is hard here.** The signal between any two steps; tombstones left by
long mixes of insertion, expiry and eviction; packets out of timestamp order;
counters and times at the end of their range; a failing call between a record
leaving the table and its row reaching a file; some thirty hand-written error
exits; lost, spurious or stolen wakeups; ownership of heap objects; threads
that end early while others depend on them; length fields that contradict one
another or the snapshot length; frames cut anywhere by the stream, or by a peer
that dies; a call that fails after its effect.  `PROJECT.json` lists each hazard
at its line with the properties aimed at it.

## 2. Modules

Operators carry the names of the C functions.  A C function that mutates a
struct is an operator from the old value to the new one, together with an
operator for its error; since the code writes its results only after the last
check, a failing call changes nothing, and that is what the models say.

`FlowTime`, `TcpFlowState`, `FlowKey`, `FlowRecord`, `FlowFeatures` are
libraries without variables, each extending the one below it.  `FlowFeatures`
has every check and every integer of the feature vector; a ratio is a pair of
numerator and denominator, the means are left out.

* **`FlowRecordLife`** feeds one record with packets and keeps the history; a
  refused packet changes nothing.  After each packet the record is also put
  through the feature vector and the checks of the export.
* **`TcpLifecycle`** extends it with what the TCP state in the record is
  evidence of.  Its properties read the packets of the history and the reported
  state, never the events of the state machine.
* **`ByteCursor`** is the cursor of `byte_reader.c`; **`PacketParse`** the three
  levels of parsers over it, one action per parser, with the classification by
  `app_process_packet`.  A `Frame` is the record of the header fields that
  decide something.  `Recapture` is a second capture of the same frame with a
  smaller snapshot length: no step of the program, but what lets a property
  compare the two classes.
* **`FlowTable`** is the table: `slots`, `count`, `probe_statistics`,
  `initialized` and `result`, what the last call returned (error, created flag,
  records handed out).  `Hash` is an arbitrary function.  The probe loop is
  expressed by the offset at which it stops (`StopsAt`, `Inspected`,
  `TargetSlot`), not by stepping.
* **`FlowMap`** is the abstract specification: a map from keys to records with
  room for `Capacity` flows, where a record leaves only through the output of
  the call that removed it.  It leaves open which of equally old flows goes.
  `FlowTable!ImplementsFlowMap` is the refinement, with `Flows` as mapping.
* **`FlowExpiration`** and **`ExpirationClock`**: the schedule, and the schedule
  fed with arbitrary timestamps.  `IntMin` and `IntMax` stand for the range of
  `int64_t`; additions are guarded exactly as in C, so an overflow in the code
  would leave `BoundedTime`.
* **`RuntimeMetrics`** and **`MetricsClock`**: the totals and the report
  schedule, and their use by the capture loop, in its order.
* **`CaptureApp`** composes `FlowMap` (which `FlowTable` implements),
  `FlowExpiration` and `FlowFeatures` with the run: `pc` is the next step of the thread,
  `StopSignal` may come between any two steps.  Two history variables (`delivered`, `accepted`) serve the
  properties.  `handle` is the libpcap handle, `active_capture` whether the
  handler can see it.  `Environment` says for each command line which packets
  may come, how many, and which calls may fail.
* **`PointerQueue`** has one operator per critical section; **`Pipeline`** has
  one action per critical section or library call of each thread, and `heap`,
  the set of objects allocated and not yet freed.  Every call of the thread
  library may fail (`Faults`), with what the code makes of it: a failing signal
  is rolled back, a failing unlock is reported although the push or pop stays
  (`FailsAfterEffect`), a failing close leaves the queue open or its waiters
  asleep (`AfterFailedClose`), a failing pop ends the clean-up of a queue, which
  then cannot be destroyed (`CleanPop`, `DestroyQueue`), a failing join ends main
  or is ignored (`JoinFails`).  Some of these lead to the use of freed memory or
  of a destroyed queue; `UndefinedBehaviour` ends such a run.  The history
  variable `misreported` holds the objects of calls that failed after their
  effect.
* **`BoundedQueue`** is what both queues promise: a sequence of at most
  `Capacity` values that is closed once.  Both rings are shown to implement it,
  with the cells from `head` over `count` places as mapping; a call that waits
  or fails is a stutter.
* **`BlockingQueue`** is the integer queue with its test's producers and
  consumers: a call is one step, or one step per attempt around its waits;
  `not_empty` and `not_full` are the sets of waiting threads.  A signal or
  unlock that fails after the value was stored or taken returns an error for an
  effect that stays, as the code does.
* **`TcpFraming`** is the client and the server program over one connection, a
  sequence of cells (a header field or a payload byte) from which `send` and
  `recv` move any number that fits.  Its steps are the turns of the two loops, a
  failing call, a peer that closes early or is killed; an interrupted call is
  repeated and so leaves no trace.  **`MessageChannel`** is what
  `message_send` and `message_receive` promise: whole messages, once, in order,
  none after the first bad one.  A script gives the messages of a run.  The
  client of the repository builds its frames itself, so that only a `foreign`
  client sends malformed ones; of those only the last may be cut short.

An operator whose comment begins with "Seeded fault" is a plausible bug.  It is
not part of the model: a run in which it takes the place of the operator named
in `PROJECT.json` must violate a property, which shows that the property
depends on that code.

## 3. Runs

| Run | Instance | What it shows |
|---|---|---|
| `flow_record_life` | 5 packets; counters overflow at 6, durations at 2 s; TCP, UDP, ICMP, a host talking to itself; one TCP flow with the flags of every event, one with odd flags, in 2 directions | exact sums, one conversation, refusal only when full; features describe the packets; phases are backed by packets and never go back |
| `flow_table` | 3 slots, 4 flows in 2 collision classes, equal and unequal times, probe counters up to 5 | structure, enumeration, refinement of `FlowMap`, statistics before and after saturation |
| `clocks` | the schedule of the scans: 4 timestamps from the whole range, timeouts 2 and 3, intervals 1, 2 and 4; that of the reports: counters overflow at 3, readings across seconds | scans neither late nor too frequent, no overflow; reports add up and keep their interval |
| `capture_app` | 3 packets; 5 command lines, 9 kinds of failure, signal at any step; and 2 undisturbed files with 2 flows at times 0..5 | no record lost or doubled, clean exit, truthful status, the run ends; when a flow is continued and when it is split |
| `packet_parse` | 1 803 frames with length fields off by one, every snapshot length, each cut a second time | a class for every frame, the right one, payloads within bounds |
| `pipeline` | 2 workers, 2 places per queue, 3 tasks, all 14 kinds of failure | one owner per object, truthful status, clean exit, both rings implement the queue, termination |
| `labs` | the integer queue: 2 producers of 3 values, 2 consumers, 2 places, failing init, wait and signal; the framed connection: 12 scripts of up to 4 messages, 6 cells in flight, 8 kinds of failure | no value lost or seen twice, the ring implements the queue, everybody ends; whole messages or none, no descriptor left, both programs end |

`clocks` and `labs` each check two components that know nothing of one another.
In a behaviour of these runs one of the two moves and the other stays in one of
its initial states, so that TLC sees the sum of their states and not the product.

**Bounds.**  They are the constants of the `.cfg` files.  Five TCP packets are
enough for SYN, SYN-ACK, ACK and both FINs, or for a full close and one packet
after it.  Three slots hold a probe sequence that wraps around, a tombstone in
its middle and a record behind it; four flows overfill the table.  Three
packets of `capture_app` are one that creates a flow, one that finds the table
full (`Capacity = 1`) or a scan due, and one after it.  Times 0..5 reach the
timeout (3), the interval (2) and their sum.  Three tasks are more than a queue of two
places holds: the producer waits when no worker takes one, the workers and the
output thread wait when there is none, and an object meets a queue that the
failing call of its predecessor left behind.  `pipeline_workers_fail` has five, so
that the producer still finds a full queue when both workers have gone.  Three values per producer wrap a
ring of two and leave both kinds of thread waiting at once.
The frames have each length field below, at and above the value at which each
check turns, with and without padding.  Six cells hold a header (five) and less
than a second frame, so that both sides block; payloads of 0 to 4 bytes lie on
both sides of the buffer (2) and of the largest message (3).  The counters are
scaled down (`CounterMax`, `TotalMax`, `StatisticsMax`, `DurationMax`) so that
their limit is reached.

`flow_table` allows calls for ever and checks for deadlock.  The others stop at
a bound, or because the run has exited, and say `CHECK_DEADLOCK FALSE`.

**Fairness.**  `CaptureApp!FairSpec` assumes that the single thread keeps
running (weak fairness of its steps): a poll returns within its one second
timeout and a read from a file returns.  No signal and no packet has to come.
`Pipeline!FairSpec` assumes weak fairness of each thread: a thread that is not
blocked is scheduled, and a mutex is not held for ever; a thread that uses freed
memory also does so when it is scheduled.  Spurious wakeups are possible and never
required; nor does a join that waits have to fail (`WaitsInJoin`).  With every
failure allowed termination needs two conditions, which `EndsWhileConsumersLive`
names: no consumer gives up on an open queue, and every close that is made closes
its queue and wakes all who wait there, which it does unless lock or broadcast
fail.  It needs each of them.  `BlockingQueue!FairSpec` assumes the same of its
threads.  `TcpFraming!FairFramingSpec` assumes weak fairness of each program: one that
can send, receive or decode does so in the end, and a closed peer is noticed;
no call on which a program waits has to fail, and nobody has to be killed.
`BothEnd` therefore starts at the connection: a server without a client waits
in `accept` for ever, as its comment says.

## 4. What the code does differently from its documents

Five runs end in a violation, each of one statement of the repository.

* `pipeline_workers_fail`: a worker that cannot allocate a result ends.  When
  all do, nobody empties or closes the task queue; the producer waits in `push`
  and `main` in `pthread_join` for ever (`pipeline_threads.c:141`).
  `EndsWhileConsumersLive` in the run `pipeline` shows that apart from this only a
  close that fails lets the pipeline hang.
* `pipeline_unlock_fails`: `pointer_queue.h:82-83` promises that after an error of
  `push` the object is not in the queue and still the caller's.  When the unlock
  fails the object is in the ring (`pointer_queue.c:136`), and the caller frees
  it (`pipeline_threads.c:64`): the ring then holds freed memory.  A failing
  unlock in `pop` (line 229) loses the object.  `EveryObjectHasOneOwner` says what
  holds in spite of that: no object is ever in two places, and only the objects
  of such calls are lost or freed too early.
* `stopped_read`: `README.md:378` puts every packet obtained into one class, and
  `README.md:380` and `app.c:2726` count each in `Total packets`.  A packet that
  `capture_next_packet` delivers while the stop signal comes is dropped uncounted
  (`app.c:2031`).  `SummaryAddsUp` is the statement that does hold: no other
  packet is left out.
* `tcp_retransmission`: `tcp_flow_state.h:173` promises that retransmissions of
  the handshake are recognised; a SYN repeated after the SYN-ACK makes the flow
  MIDSTREAM for good (`tcp_flow_state.c:297`).
* `reappearing_flow`: `README.md:374` says that a five-tuple that reappears
  after 30 idle seconds starts a new record.  Scans are at least 5 s apart, so
  with another flow's scan in between it continues the old record for up to 35
  seconds.  `SilentFlowHasEnded` is the statement that does hold.

Two more observations have no run.

* A stop signal that arrives before `app_run` looks at the request ends the run
  with `ECANCELED`, a failure status and no summary, where `README.md:372`
  promises one.  `ExitStatusIsTruthful` allows exactly this case.
* `pointer_queue.h:140-144` allows a destroy only after every thread that uses the
  queue was joined, and `main` ends the process when a join fails
  (`pipeline_demo.c:434`).  `stop_partially_started_pipeline` only reports the
  failure and destroys both queues (`pipeline_demo.c:212-230`).  `CleanExit` states
  `QueuesOutliveThreads` only while no call of `main` but an initialisation or
  a creation has failed (`JoinsSucceed`).

## 5. Proofs

Each proof module extends its component.  The assumptions are the named ones on
the constants; TLC evaluates all of them in the runs.  Unless said otherwise a
theorem holds for every value of the constants: any table size and hash, any
packets, any width of the counters, any number of threads and of steps.

**`ProofLemmas`** holds what several proofs share: least elements and minimal
sets, sums over finite sets, rings, and the types of keys, states and records.
`SumFunctionOnSet` is defined by recursion over a set; there is no induction to
prove facts about it, so each lemma takes a minimal counterexample among the
subsets of a finite set (`MinimalSet`) and refutes it: the order of summation
does not matter (`SumRemove`), sums over disjoint sets add (`SumDisjoint`), a
bijection keeps a sum (`SumRenamed`).

**`FlowTableProofs`**: `TypeCorrect`, `StructureCorrect` (count, unique keys,
unbroken probe sequences, clean empty table) and `FindCorrect`, from the
inductive invariant
`IInv == TypeOK /\ CountMatches /\ UniqueKeys /\ ProbeChain /\ EmptyTableIsClean`.
None of the conjuncts is inductive alone: an insertion keeps `UniqueKeys` only
because `ProbeChain` makes a failed probe mean that the key is nowhere
(`NotFoundMeansAbsent`); it keeps `ProbeChain` because the selected slot comes
after no EMPTY one (`FreeTarget`); and the in-place replacement keeps
`CountMatches` because a failed probe over a whole round means a full table
(`FullTable`).  There is one lemma per operation over lemmas on the probe
sequence (a bijection of the slots), on the least and the oldest member of a
finite set, and on the two kinds of change (`PutKeepsStructure`,
`RemoveKeepsStructure`).  `StatisticsCorrect` is inductive with the bounds of
what one probe inspects.  `GetCorrect` rests on a bijection: the rank of a
record among the occupied slots runs through `0 .. count - 1`.
`FlowMapRefinement`, `Spec => ImplementsFlowMap`, maps the slots to the map
`Flows` and shows for each of the eleven operations that it is the map's step or
a stutter; `IInv` enters because only with unique keys is there one record per
key, and only with unbroken probes does the table refuse what the map refuses.

**`FlowRecordProofs`**: `HandshakeCorrect`, `EndCorrect` and `PhaseCorrect`, for
sequences of packets of any length.  The properties say nothing of the
intermediate phases, so the invariant adds `Evidence`: what each phase owes to
the packets so far (SYN_SEEN to the first packet, SYN_ACK_SEEN to an answer,
FIN_BIDIRECTIONAL to a FIN of each side, none of them to a reset).  A step adds
one packet; `EvidenceStays` says that evidence found in a sequence is still
there when it grows, and `ObserveCases`, `HandshakeCases` what one event does.
`SummaryCorrect`, `ConversationCorrect`, `RefusalCorrect` and `FeaturesCorrect`
follow from `SummaryInv == OfOneKey /\ SummaryIsExact`: that all accepted packets
have the key of the record turns sums by direction into sums over packets.  Two
packets have one key exactly if they are of one conversation, which is the
totality of the order of endpoints.  A duration computed with a borrow is the
difference in microseconds, and first and last time are the extremes of all
packets, so the duration is the largest span.

**`ClockProofs`**: `HighWaterCorrect`, `ScansOnTime`, `CutoffsCorrect`,
`TypeCorrect` of the expiration schedule; the invariant ties the last recorded
cutoff to the last scan, which makes the next cutoff a whole interval later.
And `IntervalCorrect`, `MetricsTypeCorrect`, `ReportsCorrect` of the metrics:
their work is the arithmetic of seconds and nanoseconds with a borrow, and that
a report appends one term to each sum.

**`PacketParseProofs`**: `NeverFatal`, `CompleteCorrect`, `PayloadCorrect` and
`SnaplenCorrect`, for frames with any values in their header fields and any
captured length.  The invariant gives what is known before each parser
(`AfterEthernet`, `AfterIpv4`) and, at the end, that the class is
`Verdict(frame, captured_length)`, a reference that looks at the whole frame at
once.  That `Verdict` for a shorter capture is the same or TRUNCATED is then a
fact about that definition alone.

**`LabProofs`** holds the proofs of both labs.

The ring of integers: `QueueRefines`, `Spec => ImplementsBoundedQueue`, for
every capacity, number of threads and values, and failures.  `RingCells` and the
lemmas after it say what storing at `tail` and advancing `head` do to the
sequence read around the ring; the invariant needs the link
`tail = (head + count) % QUEUE_CAPACITY`, and that main destroys the ring only
after somebody closed it (`Joined`), for only a closed queue may be discarded.
`SeenCorrect` adds `ValuesInv`, which accounts for every value: in the ring, seen
or not pushed yet, with one of slack for a producer whose push failed after its
effect, and `Outcomes`: a consumer that ends without an error leaves the ring
empty.

The framed connection: `DescriptorsCorrect`, `ExitsCorrect` and `FramingRefines`,
`FramingSpec => ImplementsMessageChannel`, for every script, size of buffers and
way to cut the stream.  `Start(q, m)`, a sum of sizes, is where the cells of
message m begin on the line that all messages form.  `Taken` and `Given` are how
far along that line the server has received and the client has sent, and
`StreamInv` says that what lies on the connection between them are the cells of
the messages (`Placed`), that `Given` lies within the message being sent and that
it has reached its end exactly when `send_all` returned.  `IncomingInv` says what
a half-received header or payload is a beginning of.  A payload is complete only
if `Taken` has come to the start of the next message (`Whole`, `Published`),
which is why a message is given out whole and only after it was sent.
`ScriptsAssumption` says that only the last message of a foreign client may be cut
short; any of them may be malformed in another way.  The failure of the server
needs `Excuse`: a stream that ends early ends inside a message cut short
(`EndIsExcused`), and a refused header announces a message that cannot be
delivered (`RefusalIsExcused`).

**`PipelineProofs`**: `TypeCorrect`, `OwnerCorrect`, `RowsCorrect`, `ExitCorrect`
and `Refinement`, for any number of workers, queue places and tasks and any set
of failing calls.  `WorkersAssumption` only says that the workers are other
threads than the three named ones.  The invariant is
`IInv == Control /\ Work /\ Course`: where each thread can be; what the threads
have done; how far main has come.

* `Work`: `Rings` (a ring holds objects exactly between head and tail), `Hands`
  (what each thread holds at each step), `Owned` (no two places hold objects of
  one task, and but for the misreported ones they hold the heap),
  `TasksAccounted` (a task begun is alive or written, never both, and before the
  clean-up lost only with an error), `OutputState` and `Finished` (a thread that
  ended without an error has done its part).
* `Course`: `MainPhase` and `Joined` (which threads run, and which have ended),
  `Existing` (which queues exist, that the others are empty, and that no
  thread uses them unless a join failed) and `Verdict` (what the status means).

That an object has two owners is excluded although a failing unlock puts a freed
object into a ring, because its caller lets go of it at the same step: `OneEach`
speaks of places, not of the heap, and is kept by every move of one object from
place to place.  `ObjectsKept` sums up what a push or pop does to the objects
whatever fails in it, so each action needs only its effect on its own thread.  A
successful exit means that no thread met an error, hence that nothing was
misreported, both queues were emptied and destroyed and every task was written.
A failing clean-up breaks none of it: what is left in the heap is what the queues
that still exist contain (`ExitIsClean`).

**`CaptureAppProofs`**: the whole run, for every command line, every input and
every pattern of failing calls, with the stop signal at any step.
`PacketsAssumption` says that what the parsers call complete has a flow key,
which `PacketParseProofs!CompleteCorrect` proves of them, and that the seconds of
a time are of the range of their type; `CapacityAssumption` that the table has a
slot, as `APP_FLOW_TABLE_CAPACITY` says.

* `HandlerCorrect` and `ClosedCorrect` from `ControlInv`: for each step of the
  thread, whether the capture is open and published, the table in use, each file
  open and the handlers installed.
* `SummaryCorrect` from `RunInv`, which adds the types of table, input and rows
  and `TotalsInv`: for each step, how many packets are read but not counted, in
  the table but not counted, handed out but not written.
* `RowsCorrect` from `LedgerInv`: while the run succeeds, rows and unwritten
  records together count the packets taken into flows (`Balanced`); in any case
  rows count no more (`Bounded`).  For this a record that is handed out is of no
  flow that is still in the table (`LeftInv`), a table out of use is empty
  (`ClosedTable`) and an error is followed by nothing but the way out
  (`AfterError`).  A sum over records is turned into a sum over rows by
  `SumRenamed`, and one more packet adds one to one record.
* `StatusCorrect` from `TruthInv`.  That an error is real (`ErrorIsReal`) needs
  the reason for every refusal of a record: each record in the table or handed
  out is backed by a set of packets, of its key, that its counters sum up and
  between whose times its own lie (`BackedInv`), so that a counter without room
  or a span too long is a fact about packets read (`RefusalMeans`,
  `NoRowMeans`); and the schedule has the run's timeout (`ScheduleInv`), so that
  a cutoff out of range is one of the packet's time (`ObserveRefusal`).
  `CompleteInv` says what a run without an error has created and printed.
* `SilentCorrect` and `BurstCorrect` from `TimesInv`, for packets in order.  The
  mark of the schedule is then the time of the packet in hand, the next scan is
  not due at the mark, and no flow is left that the last scan should have
  removed (`MarkInv`); such a flow was silent for less than the timeout and the
  interval together (`NotYetSilent`), also when the time of the next scan cannot
  be represented, because then no packet reaches it.  `BurstInv` says of each
  packet taken that its flow is still in the table, no older than the packet, or
  that the mark has passed the packet by the timeout.

Only model-checked: liveness under fairness (`RunEnds`,
`EndsWhileConsumersLive`, `BothEnd`), which is out of the prover's reach.

## 6. Not modelled, and why

* `dns.c` is called only by its tests, not by the program.
* Header fields that decide nothing (addresses, checksums, window, TTL, ICMP
  type) and the order of bytes in a number.  Checksums are read, never verified.
* The text of CSV rows, summaries, banners and error messages; floating point
  rates and means.
* The parsing of each command line option; the rules between options are
  `CaptureApp!Accepted`.
* libpcap and the C library appear as the outcomes that the code distinguishes;
  the mapping of libpcap's error codes is left out.
* In the queue lab, failures of `pthread_mutex_lock`, of the broadcasts and of
  the destroy calls; `Pipeline` has them for the queue of the same design.  A
  caller that repeats a call whose unlock failed, and so doubles its value, does
  not occur: the callers close the queue on any error.  The roll-back within
  `init` leaves nothing and is one step.
* In the pipeline, a failing unlock leaves the mutex available to others, and a
  failing wait fails at once instead of after sleeping; when one of the three
  resources of a queue cannot be destroyed the queue counts as existing, whichever
  of the three are gone.  A thread that cannot be joined is one that goes on.
* In the framing lab, the error exits inside `tcp_server_create` and
  `tcp_client_connect`: they are assumed to close what they opened, as a failing
  `Create` or `Connect` has no descriptor.
* The error exits of the run in `app.c` that do the same clean-up are one step,
  `CaptureApp!AbortRun`; that each of them does it was compared by reading.
* The metrics of `MetricsClock` within `CaptureApp`: their product is too large
  for TLC, and they share only the order of calls, which both modules follow.
* The scripts: batch programs over files without concurrent state.
* Memory: C's lifetimes appear only in `Pipeline!heap`.

## 7. Plan

1. *(done)* TCP state, record, features, table with its abstract map, expiration
   schedule, metrics, parsers, the run of the analyzer, both queues with their
   abstract queue, the thread pipeline, the framed connection with its abstract
   channel.
2. *(done)* Proofs of every safety property of the table, the record, both
   clocks, the parsers, both queues, the pipeline, the run and the framed
   connection.
3. `CaptureApp`: libpcap's error codes.
