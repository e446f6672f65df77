------------------------------ MODULE Pipeline ------------------------------
(***************************************************************************)
(* The thread pipeline (labs/thread_pipeline/pipeline_demo.c and           *)
(* pipeline_threads.c): a producer, workers and an output thread, joined   *)
(* by a queue of tasks and a queue of results, and the main thread, which  *)
(* starts the others, joins them, closes the result queue and cleans up.   *)
(* Every object is malloc'ed by one thread and freed by another: heap is   *)
(* the set of objects allocated and not yet freed, held what a thread owns *)
(* outside the queues.                                                     *)
(*                                                                         *)
(* Every call may fail.  A call that fails to unlock the mutex, or at the  *)
(* signal after it, leaves the mutex to others all the same.  What the     *)
(* program does after it used freed memory or a destroyed queue is         *)
(* undefined: its run ends there.                                          *)
(***************************************************************************)
EXTENDS Naturals, Sequences, FiniteSets

CONSTANTS
  Workers,     \* PIPELINE_WORKER_COUNT worker threads
  TaskCount,   \* task_count
  POINTER_QUEUE_CAPACITY,
  Faults       \* calls that may fail

FaultKinds ==
  {"queue_init", "create", "join", "task_malloc", "result_malloc", "fopen", "fprintf", "fclose",
   "mutex_lock", "mutex_unlock", "cond_wait", "cond_signal", "cond_broadcast", "cond_destroy"}

ASSUME QueueCapacityAssumption == POINTER_QUEUE_CAPACITY \in Nat \ {0}
ASSUME TaskCountAssumption == TaskCount \in Nat \ {0}
ASSUME FaultsAssumption == Faults \subseteq FaultKinds
ASSUME WorkersAssumption == Workers \cap {"main", "producer", "output"} = {}

Task(i) == [kind |-> "task", id |-> i]
Result(i) == [kind |-> "result", id |-> i]

Items == {Task(i) : i \in 1 .. TaskCount} \cup {Result(i) : i \in 1 .. TaskCount}
Others == {"producer", "output"} \cup Workers
Threads == {"main"} \cup Others
Queues == {"task_queue", "result_queue"}

INSTANCE PointerQueue

VARIABLES
  queues,
  initialized,                     \* the queues that exist
  pc, held, heap,
  error,                           \* error_code of each context; of main, EAGAIN when it could
                                   \* not create something, EINVAL when a later call failed
  misreported,                     \* history: objects of calls that failed after their effect
  task_index,                      \* tasks the producer has pushed
  output_file, rows, received,     \* the output thread's file, rows and counter
  started,                         \* workers that main has started
  exit                             \* main's exit status

vars == <<queues, initialized, pc, held, heap, error, misreported, task_index,
          output_file, rows, received, started, exit>>

callVars == <<held, heap, error, misreported>>
outputVars == <<output_file, rows, received>>
mainVars == <<initialized, started, exit>>

Init ==
  /\ queues = [n \in Queues |-> pointer_queue_init]
  /\ initialized = {}
  /\ pc = [t \in Threads |-> IF t = "main" THEN "init_task" ELSE "off"]
  /\ held = [t \in Threads |-> NULL]
  /\ heap = {}
  /\ error = [t \in Threads |-> "0"] /\ misreported = {}
  /\ task_index = 0
  /\ output_file = FALSE /\ rows = <<>> /\ received = 0
  /\ started = {} /\ exit = "none"

Goto(t, step) == pc' = [pc EXCEPT ![t] = step]

(* Thread t is at a step and waits for nothing; all end with the process.  *)
At(t, step) ==
  /\ pc[t] = step /\ pc["main"] \notin {"exited", "undefined"}
  /\ \A n \in Queues : t \notin Waits(queues[n])

(* The first error of a thread is kept; of main, the first after the start. *)
Report(t, err) ==
  error' = [error EXCEPT ![t] = IF @ \in {"0", "EAGAIN"} THEN err ELSE @]

(* Thread t ends up with an error and nothing in its hands. *)
Fail(t, err, step) ==
  /\ Report(t, err)
  /\ heap' = heap \ {held[t]}
  /\ held' = [held EXCEPT ![t] = NULL]
  /\ Goto(t, step)

Allocate(t, item) ==
  /\ heap' = (heap \ {held[t]}) \cup {item}
  /\ held' = [held EXCEPT ![t] = item]

-----------------------------------------------------------------------------
(* The calls of pointer_queue.c, by thread t. *)

(* A push or pop that leaves the queue as it was fails: it cannot lock, or *)
(* wait, or signal, which it then rolls back, or unlock after it found the *)
(* queue closed.                                                           *)
CallFails(must_wait, err) ==
  \/ "mutex_lock" \in Faults
  \/ "cond_wait" \in Faults /\ must_wait
  \/ "cond_signal" \in Faults /\ ~must_wait /\ err = "0"
  \/ "mutex_unlock" \in Faults /\ ~must_wait /\ err # "0"

(* It fails to unlock after its effect, which stays. *)
FailsAfterEffect(t, item, step) ==
  /\ "mutex_unlock" \in Faults
  /\ misreported' = misreported \cup {item}
  /\ Fail(t, "EINVAL", step)

Push(t, n, next, failed) ==
  LET q == queues[n] IN
  /\ n \in initialized
  /\ \/ /\ MustWaitToPush(q)
        /\ queues' = [queues EXCEPT ![n].not_full = @ \cup {t}]
        /\ UNCHANGED <<pc, callVars>>
     \/ /\ ~MustWaitToPush(q) /\ PushError(q) = "0"
        /\ \E after \in AfterPush(q, held[t]) : queues' = [queues EXCEPT ![n] = after]
        /\ \/ /\ held' = [held EXCEPT ![t] = NULL] /\ Goto(t, next)
              /\ UNCHANGED <<heap, error, misreported>>
           \/ FailsAfterEffect(t, held[t], failed)
     \/ /\ \/ CallFails(MustWaitToPush(q), PushError(q)) /\ Fail(t, "EINVAL", failed)
           \/ ~MustWaitToPush(q) /\ PushError(q) # "0" /\ Fail(t, PushError(q), failed)
        /\ UNCHANGED <<queues, misreported>>

Pop(t, n, next, ended) ==
  LET q == queues[n] IN
  /\ n \in initialized
  /\ \/ /\ MustWaitToPop(q)
        /\ queues' = [queues EXCEPT ![n].not_empty = @ \cup {t}]
        /\ UNCHANGED <<pc, callVars>>
     \/ /\ ~MustWaitToPop(q) /\ PopError(q) = "0"
        /\ \E after \in AfterPop(q) : queues' = [queues EXCEPT ![n] = after]
        /\ \/ /\ held' = [held EXCEPT ![t] = q.items[q.head]] /\ Goto(t, next)
              /\ UNCHANGED <<heap, error, misreported>>
           \/ FailsAfterEffect(t, q.items[q.head], ended)
     \/ /\ \/ CallFails(MustWaitToPop(q), PopError(q)) /\ Fail(t, "EINVAL", ended)
           \/ /\ ~MustWaitToPop(q) /\ PopError(q) # "0"
              /\ Goto(t, ended) /\ UNCHANGED <<held, heap, error>>
        /\ UNCHANGED <<queues, misreported>>

(* What a close that reports an error leaves: the queue as it was, when it *)
(* cannot lock; closed, with the waiters of a condition still asleep, when *)
(* it cannot broadcast.                                                    *)
AfterFailedClose(q) ==
  {r \in {q} : "mutex_lock" \in Faults} \cup
  {r \in {pointer_queue_close(q)} : "mutex_unlock" \in Faults} \cup
  {r \in {[q EXCEPT !.closed = TRUE, !.not_empty = e, !.not_full = f] :
             e \in {{}, q.not_empty}, f \in {{}, q.not_full}} : "cond_broadcast" \in Faults}

CloseQueue(t, n) ==
  \/ queues' = [queues EXCEPT ![n] = pointer_queue_close(@)] /\ UNCHANGED error
  \/ /\ \E q \in AfterFailedClose(queues[n]) : queues' = [queues EXCEPT ![n] = q]
     /\ Report(t, "EINVAL")

SpuriousWakeup(t) ==
  \E n \in Queues :
    /\ t \in Waits(queues[n]) /\ pc["main"] \notin {"exited", "undefined"}
    /\ queues' = [queues EXCEPT ![n] = WakeSpuriously(@, t)]
    /\ UNCHANGED <<pc, callVars, task_index, outputVars, mainVars>>

(* Thread t is about to use queue n. *)
Uses(t, n) ==
  \/ n = "task_queue" /\ t = "producer" /\ pc[t] \in {"push", "close"}
  \/ n = "task_queue" /\ t \in Workers /\ pc[t] = "pop"
  \/ n = "result_queue" /\ t \in Workers /\ pc[t] = "push"
  \/ n = "result_queue" /\ t = "output" /\ pc[t] = "pop"

(* A thread uses an object that was freed, or a queue that was destroyed.  *)
UndefinedBehaviour ==
  /\ \E t \in Threads :
       /\ At(t, pc[t])
       /\ \/ held[t] \notin heap \cup {NULL}
          \/ \E n \in Queues \ initialized : Uses(t, n)
  /\ Goto("main", "undefined")
  /\ UNCHANGED <<queues, callVars, task_index, outputVars, mainVars>>

-----------------------------------------------------------------------------
(* producer_thread_main *)

ProducerAllocate ==
  /\ At("producer", "allocate")
  /\ \/ /\ task_index < TaskCount
        /\ Allocate("producer", Task(task_index + 1)) /\ Goto("producer", "push")
        /\ UNCHANGED error
     \/ /\ task_index < TaskCount /\ "task_malloc" \in Faults
        /\ Fail("producer", "ENOMEM", "close")
     \/ task_index = TaskCount /\ Goto("producer", "close") /\ UNCHANGED <<held, heap, error>>
  /\ UNCHANGED <<queues, misreported, task_index, outputVars, mainVars>>

ProducerPush ==
  /\ At("producer", "push")
  /\ Push("producer", "task_queue", "allocate", "close")
  /\ task_index' = IF pc'["producer"] = "allocate" THEN task_index + 1 ELSE task_index
  /\ UNCHANGED <<outputVars, mainVars>>

ProducerClose ==
  /\ At("producer", "close")
  /\ CloseQueue("producer", "task_queue")
  /\ Goto("producer", "done")
  /\ UNCHANGED <<held, heap, misreported, task_index, outputVars, mainVars>>

(* worker_thread_main *)

WorkerPop(w) ==
  /\ At(w, "pop")
  /\ Pop(w, "task_queue", "compute", "done")
  /\ UNCHANGED <<task_index, outputVars, mainVars>>

(* Seeded fault: the task is not freed when its result is ready. *)
WorkerComputeLeaking(w) ==
  /\ At(w, "compute") /\ held[w] \in heap
  /\ heap' = heap \cup {Result(held[w].id)}
  /\ held' = [held EXCEPT ![w] = Result(held[w].id)]
  /\ Goto(w, "push")
  /\ UNCHANGED <<error, queues, misreported, task_index, outputVars, mainVars>>

(* The result takes the place of the task, which is freed; a worker        *)
(* without memory for it frees the task and ends.                          *)
WorkerCompute(w) ==
  /\ At(w, "compute") /\ held[w] \in heap
  /\ \/ /\ Allocate(w, Result(held[w].id)) /\ Goto(w, "push")
        /\ UNCHANGED error
     \/ "result_malloc" \in Faults /\ Fail(w, "ENOMEM", "done")
  /\ UNCHANGED <<queues, misreported, task_index, outputVars, mainVars>>

WorkerPush(w) ==
  /\ At(w, "push")
  /\ Push(w, "result_queue", "pop", "done")
  /\ UNCHANGED <<task_index, outputVars, mainVars>>

(* output_thread_main *)

OutputOpen ==
  /\ At("output", "open")
  /\ \/ output_file' = TRUE /\ Goto("output", "pop") /\ UNCHANGED <<held, heap, error>>
     \/ /\ {"fopen", "fprintf"} \cap Faults # {}
        /\ output_file' = FALSE /\ Fail("output", "EIO", "pop")
  /\ UNCHANGED <<queues, misreported, task_index, rows, received, mainVars>>

OutputPop ==
  /\ At("output", "pop")
  /\ Pop("output", "result_queue", "write", "close")
  /\ received' = IF pc'["output"] = "write" THEN received + 1 ELSE received
  /\ UNCHANGED <<task_index, output_file, rows, mainVars>>

(* Without a file the results are still taken and freed. *)
OutputWrite ==
  /\ At("output", "write") /\ held["output"] \in heap
  /\ heap' = heap \ {held["output"]}
  /\ held' = [held EXCEPT !["output"] = NULL]
  /\ Goto("output", "pop")
  /\ \/ /\ output_file /\ rows' = Append(rows, held["output"].id)
        /\ UNCHANGED <<output_file, error>>
     \/ /\ output_file /\ "fprintf" \in Faults
        /\ Report("output", "EIO") /\ output_file' = FALSE /\ UNCHANGED rows
     \/ ~output_file /\ UNCHANGED <<output_file, rows, error>>
  /\ UNCHANGED <<queues, misreported, task_index, received, mainVars>>

OutputClose ==
  /\ At("output", "close")
  /\ output_file' = FALSE
  /\ \/ Goto("output", "done") /\ UNCHANGED <<held, heap, error>>
     \/ output_file /\ "fclose" \in Faults /\ Fail("output", "EIO", "done")
  /\ UNCHANGED <<queues, misreported, task_index, rows, received, mainVars>>

-----------------------------------------------------------------------------
(* main *)

(* A call of main fails, so that the run does; main goes to step next. *)
MainFails(err, next) ==
  /\ Report("main", err) /\ exit' = "failure"
  /\ Goto("main", next)

(* What main leaves alone unless it says otherwise. *)
MainKeeps == UNCHANGED <<held, heap, misreported, task_index, outputVars, started>>

(* Without its second queue main still cleans up the first. *)
InitQueue(n, step, next, failed) ==
  /\ At("main", step)
  /\ \/ initialized' = initialized \cup {n} /\ Goto("main", next) /\ UNCHANGED <<error, exit>>
     \/ "queue_init" \in Faults /\ MainFails("EAGAIN", failed) /\ UNCHANGED initialized
  /\ UNCHANGED queues /\ MainKeeps

InitTaskQueue == InitQueue("task_queue", "init_task", "init_result", "exited")
InitResultQueue == InitQueue("result_queue", "init_result", "create_output", "clean_task")

(* Thread t is created and starts at step first; when it cannot be, main   *)
(* goes to step failed.                                                    *)
Create(t, first, next, failed) ==
  /\ \/ pc' = [pc EXCEPT !["main"] = next, ![t] = first] /\ UNCHANGED <<error, exit>>
     \/ "create" \in Faults /\ MainFails("EAGAIN", failed)
  /\ UNCHANGED <<queues, initialized, held, heap, misreported, task_index, outputVars>>

CreateOutput ==
  /\ At("main", "create_output")
  /\ Create("output", "open", "create_workers", "clean_task")
  /\ UNCHANGED started

CreateWorker ==
  /\ At("main", "create_workers")
  /\ \E w \in Workers \ started :
       /\ Create(w, "pop",
                 IF started \cup {w} = Workers THEN "create_producer" ELSE "create_workers",
                 "stop_task")
       /\ started' = IF pc'["main"] = "stop_task" THEN started ELSE started \cup {w}

CreateProducer ==
  /\ At("main", "create_producer")
  /\ Create("producer", "allocate", "join_producer", "stop_task")
  /\ UNCHANGED started

(* Main closes queue n.  In a run that has failed already, and in the      *)
(* clean-up, it goes on when that fails; otherwise it goes to step failed. *)
MainCloses(n, step, next, failed) ==
  /\ At("main", step)
  /\ CloseQueue("main", n)
  /\ \/ error'["main"] = "0" /\ Goto("main", next) /\ UNCHANGED exit
     \/ error'["main"] # "0" /\ Goto("main", failed) /\ exit' = "failure"
  /\ UNCHANGED initialized /\ MainKeeps

(* stop_partially_started_pipeline closes both queues at once. *)
StopTaskQueue == MainCloses("task_queue", "stop_task", "stop_result", "stop_result")
StopResultQueue == MainCloses("result_queue", "stop_result", "join_workers", "join_workers")

(* A join fails at once: main returns, but stop_partially_started_pipeline *)
(* goes on as if the thread had ended.                                     *)
JoinFails(next) ==
  "join" \in Faults /\ MainFails("EINVAL", IF exit = "failure" THEN next ELSE "exited")

Join(step, threads, next) ==
  /\ At("main", step)
  /\ \/ /\ \A t \in threads : pc[t] = "done"
        /\ Goto("main", next) /\ UNCHANGED <<error, exit>>
     \/ JoinFails(next)
  /\ UNCHANGED <<queues, initialized>> /\ MainKeeps

AfterWorkers == IF exit = "failure" THEN "join_output" ELSE "close_result"

JoinProducer == Join("join_producer", {"producer"}, "join_workers")

JoinWorkers == Join("join_workers", started, AfterWorkers)

(* No worker can push any more: the results end here. *)
CloseResultQueue == MainCloses("result_queue", "close_result", "join_output", "exited")

JoinedOutput(succeeded) ==
  /\ At("main", "join_output")
  /\ \/ /\ pc["output"] = "done"
        /\ Goto("main", "clean_task")
        /\ exit' = IF exit = "none" /\ succeeded THEN "success" ELSE "failure"
        /\ UNCHANGED error
     \/ JoinFails("clean_task")
  /\ UNCHANGED <<queues, initialized>> /\ MainKeeps

(* Seeded fault: the rows written are not counted. *)
JoinOutputUncounted == JoinedOutput(received = TaskCount)

JoinOutput ==
  JoinedOutput(/\ \A t \in Others : error[t] = "0"
               /\ received = TaskCount /\ Len(rows) = TaskCount)

(* clean_up_queue: main closes the queue, pops and frees what is left in   *)
(* it until the queue ends or a pop fails, and destroys the queue.         *)
CleanPop(n, step, next, ended) ==
  /\ At("main", step)
  /\ Pop("main", n, next, ended)
  /\ exit' = IF error'["main"] = "0" THEN exit ELSE "failure"
  /\ UNCHANGED <<initialized, task_index, outputVars, started>>

CleanFree(step, next) ==
  /\ At("main", step) /\ held["main"] \in heap
  /\ heap' = heap \ {held["main"]} /\ held' = [held EXCEPT !["main"] = NULL]
  /\ Goto("main", next)
  /\ UNCHANGED <<queues, error, misreported, task_index, outputVars, mainVars>>

(* Seeded fault: the queue is destroyed with what is left in it. *)
CanDestroyClosed(q) == q.closed

(* pointer_queue_destroy refuses a queue that is open or not empty. *)
CanDestroy(q) == q.closed /\ q.count = 0

(* When one of the three resources cannot be destroyed the queue remains. *)
DestroyQueue(n, step, next) ==
  /\ At("main", step)
  /\ \/ /\ CanDestroy(queues[n])
        /\ queues' = [queues EXCEPT ![n] = pointer_queue_init]
        /\ initialized' = initialized \ {n}
        /\ Goto("main", next) /\ UNCHANGED <<error, exit>>
     \/ /\ ~CanDestroy(queues[n]) \/ {"mutex_lock", "mutex_unlock", "cond_destroy"} \cap Faults # {}
        /\ MainFails("EINVAL", next) /\ UNCHANGED <<queues, initialized>>
  /\ MainKeeps

CleanUpTaskQueue ==
  \/ MainCloses("task_queue", "clean_task", "empty_task", "empty_task")
  \/ CleanPop("task_queue", "empty_task", "free_task", "destroy_task")
  \/ CleanFree("free_task", "empty_task")
  \/ DestroyQueue("task_queue", "destroy_task",
                  IF "result_queue" \in initialized THEN "clean_result" ELSE "exited")

CleanUpResultQueue ==
  \/ MainCloses("result_queue", "clean_result", "empty_result", "empty_result")
  \/ CleanPop("result_queue", "empty_result", "free_result", "destroy_result")
  \/ CleanFree("free_result", "empty_result")
  \/ DestroyQueue("result_queue", "destroy_result", "exited")

-----------------------------------------------------------------------------

Producer == ProducerAllocate \/ ProducerPush \/ ProducerClose

Worker(w) == WorkerPop(w) \/ WorkerCompute(w) \/ WorkerPush(w)

Output == OutputOpen \/ OutputPop \/ OutputWrite \/ OutputClose

MainThread ==
  \/ InitTaskQueue \/ InitResultQueue
  \/ CreateOutput \/ CreateWorker \/ CreateProducer
  \/ StopTaskQueue \/ StopResultQueue
  \/ JoinProducer \/ JoinWorkers \/ CloseResultQueue \/ JoinOutput
  \/ CleanUpTaskQueue \/ CleanUpResultQueue

Next ==
  \/ Producer \/ Output \/ MainThread
  \/ \E w \in Workers : Worker(w)
  \/ \E t \in Threads : SpuriousWakeup(t)
  \/ UndefinedBehaviour

Spec == Init /\ [][Next]_vars

(* Main waits in a join for a thread that has not ended. *)
WaitsInJoin ==
  \/ pc["main"] = "join_producer" /\ pc["producer"] # "done"
  \/ pc["main"] = "join_workers" /\ \E w \in started : pc[w] # "done"
  \/ pc["main"] = "join_output" /\ pc["output"] # "done"

(* Every thread that can run is scheduled; no wait has to end by itself,   *)
(* and no join has to fail.                                                *)
FairSpec ==
  /\ Spec
  /\ WF_vars(Producer) /\ WF_vars(Output) /\ WF_vars(MainThread /\ ~WaitsInJoin)
  /\ WF_vars(UndefinedBehaviour)
  /\ \A w \in Workers : WF_vars(Worker(w))

-----------------------------------------------------------------------------

(* Every variable stays in its type. *)
TypeOK ==
  /\ queues \in [Queues -> PointerQueueType] /\ initialized \subseteq Queues
  /\ held \in [Threads -> Items \cup {NULL}]
  /\ heap \subseteq Items /\ misreported \subseteq Items
  /\ error \in [Threads -> {"0", "EAGAIN", "ECANCELED", "EINVAL", "EIO", "ENOMEM"}]
  /\ task_index \in 0 .. TaskCount /\ received \in Nat
  /\ output_file \in BOOLEAN /\ rows \in Seq(1 .. TaskCount)
  /\ started \subseteq Workers
  /\ exit \in {"none", "success", "failure"}

(* The places in which an object can be: a thread, or a queue's slot. *)
Places ==
  {<<t>> : t \in {u \in Threads : held[u] # NULL}} \cup
  {<<n, i>> : n \in Queues, i \in {j \in Slots : \E m \in Queues : queues[m].items[j] # NULL}}

ObjectAt(place) ==
  IF Len(place) = 1 THEN held[place[1]] ELSE queues[place[1]].items[place[2]]

OwnedPlaces == {p \in Places : ObjectAt(p) # NULL}
OwnedObjects == {ObjectAt(p) : p \in OwnedPlaces}

(* Ownership of an object passes from thread to queue to thread: no object *)
(* ever has two owners; and, except for the objects of those calls that    *)
(* failed after their effect, every object that is allocated has an owner  *)
(* and nothing that was freed is still reachable.                          *)
EveryObjectHasOneOwner ==
  /\ Cardinality(OwnedPlaces) = Cardinality(OwnedObjects)
  /\ OwnedObjects \ misreported = heap \ misreported

(* pointer_queue.h:82-83: an error of push means that the object is not in *)
(* the queue and still the caller's, who frees it.  So no queue ever holds *)
(* an object that was freed.                                               *)
QueuedIsAllocated ==
  \A n \in Queues, i \in Slots : queues[n].items[i] \in heap \cup {NULL}

Ring(n) ==
  INSTANCE BoundedQueue WITH
    Values <- Items, Capacity <- POINTER_QUEUE_CAPACITY,
    contents <- Contents(queues[n]), closed <- queues[n].closed

(* Each of the two rings is the queue that pointer_queue.h promises: first *)
(* in, first out, nothing overwritten, and nothing pushed once closed.     *)
RingsImplementBoundedQueue ==
  /\ \A n \in Queues : Ring(n)!QueueInit
  /\ [][\A n \in Queues : [Ring(n)!QueueNext]_(Ring(n)!queueVars)]_vars

(* No task is written twice; success means that each was written, and a    *)
(* failure that some thread, main among them, met an error.                *)
RowsMatchTasks ==
  /\ \A i, j \in DOMAIN rows : rows[i] = rows[j] => i = j
  /\ exit = "success" => {rows[i] : i \in DOMAIN rows} = 1 .. TaskCount
  /\ exit = "failure" => \E t \in Threads : error[t] # "0"

(* pointer_queue.h:140-144: a queue is destroyed only after every thread   *)
(* that uses it has ended.                                                 *)
QueuesOutliveThreads ==
  \A t \in Others : pc[t] \notin {"off", "done"} => initialized = Queues

(* The objects in the queues that exist. *)
LeftInQueues ==
  UNION {{Contents(queues[n])[i] : i \in 1 .. queues[n].count} : n \in initialized}

(* Main has no error of a join that failed: it knows which threads ended. *)
JoinsSucceed == "join" \notin Faults \/ error["main"] \in {"0", "EAGAIN"}

(* A queue is destroyed only when no thread can use it any more, unless a  *)
(* join failed.  And what main leaves behind when it returns after every   *)
(* other thread: no file is open, what leaks is what the queues that could *)
(* not be destroyed still hold, there is such a queue only if a call of    *)
(* main failed after the start, and nothing at all leaks from a run that   *)
(* succeeds.                                                               *)
CleanExit ==
  /\ JoinsSucceed => QueuesOutliveThreads
  /\ pc["main"] = "exited" /\ (\A t \in Others : pc[t] \in {"off", "done"}) =>
       /\ ~output_file
       /\ heap \ misreported = LeftInQueues \ misreported
       /\ error["main"] \in {"0", "EAGAIN"} => initialized = {}
       /\ exit = "success" => heap = {}

(* The run ends: every thread is told when there is no more work. *)
RunEnds == <>(pc["main"] = "exited")

(* Nobody stops taking from a queue before the queue is closed. *)
ConsumersLive ==
  /\ (\E w \in Workers : pc[w] = "done") /\ "task_queue" \in initialized =>
       queues["task_queue"].closed
  /\ pc["output"] \in {"close", "done"} /\ "result_queue" \in initialized =>
       queues["result_queue"].closed

(* Every close closes its queue and wakes all who wait there. *)
ClosesReachAll ==
  /\ \A n \in Queues : queues[n].closed => Waits(queues[n]) = {}
  /\ pc["producer"] = "done" /\ "task_queue" \in initialized => queues["task_queue"].closed
  /\ pc["main"] \in {"stop_result", "empty_task"} => queues["task_queue"].closed
  /\ pc["main"] \in {"join_output", "empty_result"} => queues["result_queue"].closed

(* The run ends, whichever calls fail, as long as no consumer gives up and *)
(* every close reaches whom it must: a full queue is then emptied, and an  *)
(* empty one is filled or closed.                                          *)
EndsWhileConsumersLive ==
  [](ConsumersLive /\ ClosesReachAll) => <>(pc["main"] \in {"exited", "undefined"})
=============================================================================
