--------------------------- MODULE PipelineProofs ---------------------------
(***************************************************************************)
(* The thread pipeline of labs/thread_pipeline, for every number of        *)
(* workers and tasks, every capacity and every set of calls that may fail: *)
(* both rings implement the bounded queue, no object has two owners, the   *)
(* rows written match the tasks, and what main leaves behind is what it    *)
(* says.                                                                   *)
(***************************************************************************)
EXTENDS Pipeline, ProofLemmas

-----------------------------------------------------------------------------
(* The invariant, part by part. *)

(* A ring holds items between head and tail, and NULL everywhere else. *)
RingOK(q) ==
  /\ q \in PointerQueueType
  /\ q.tail = Cell(q.head, q.count + 1, POINTER_QUEUE_CAPACITY)
  /\ \A i \in 1 .. POINTER_QUEUE_CAPACITY :
       q.items[Cell(q.head, i, POINTER_QUEUE_CAPACITY)] = NULL <=> q.count < i

Rings ==
  /\ queues \in [Queues -> PointerQueueType]
  /\ \A n \in Queues : RingOK(queues[n])

Initializing == {"init_task", "init_result"}
Starting == {"create_output", "create_workers", "create_producer"}
Stopping == {"stop_task", "stop_result"}
Joining == {"join_producer", "join_workers", "close_result", "join_output"}
CleaningTask == {"clean_task", "empty_task", "free_task", "destroy_task"}
CleaningResult == {"clean_result", "empty_result", "free_result", "destroy_result"}
Cleaning == CleaningTask \cup CleaningResult
Ending == Cleaning \cup {"exited", "undefined"}

MainSteps == Initializing \cup Starting \cup Stopping \cup Joining \cup Ending
ProducerSteps == {"off", "allocate", "push", "close", "done"}
WorkerSteps == {"off", "pop", "compute", "push", "done"}
OutputSteps == {"off", "open", "pop", "write", "close", "done"}
Steps == MainSteps \cup ProducerSteps \cup WorkerSteps \cup OutputSteps

Errors == {"0", "EAGAIN", "ECANCELED", "EINVAL", "EIO", "ENOMEM"}

(* Where each thread can be, and that only started workers run. *)
Control ==
  /\ pc \in [Threads -> Steps]
  /\ pc["main"] \in MainSteps
  /\ pc["producer"] \in ProducerSteps
  /\ pc["output"] \in OutputSteps
  /\ \A w \in Workers : pc[w] \in WorkerSteps /\ (pc[w] = "off" <=> w \notin started)
  /\ error \in [Threads -> Errors]
  /\ started \subseteq Workers /\ initialized \subseteq Queues
  /\ exit \in {"none", "success", "failure"}

(* What each thread holds where it is. *)
Hands ==
  /\ held \in [Threads -> Items \cup {NULL}]
  /\ task_index \in 0 .. TaskCount
  /\ held["main"] # NULL => pc["main"] \in {"free_task", "free_result", "undefined"}
  /\ IF pc["producer"] = "push"
     THEN task_index < TaskCount /\ held["producer"] = Task(task_index + 1)
     ELSE held["producer"] = NULL
  /\ pc["producer"] \in {"off", "allocate", "push"} => error["producer"] = "0"
  /\ \A w \in Workers : held[w] # NULL <=> pc[w] \in {"compute", "push"}
  /\ held["output"] # NULL <=> pc["output"] = "write"

(* No two places of set P hold objects of one task. *)
OneEach(f, P) ==
  \A p, q \in P : f[p] # NULL /\ f[q] # NULL /\ f[p].id = f[q].id => p = q

Spots == {<<t>> : t \in Threads} \cup (Queues \X Slots)

Objects == [p \in Spots |-> ObjectAt(p)]

(* The objects that threads hold and queues contain: those of the heap,    *)
(* but for the objects of the calls that failed after their effect.        *)
Reached == {Objects[p] : p \in Spots} \ {NULL}

Owned ==
  /\ OneEach(Objects, Spots)
  /\ heap \subseteq Items
  /\ Reached \ misreported = heap \ misreported

(* The tasks that were begun, those that still have an object and those    *)
(* that have a row.                                                        *)
Begun ==
  1 .. IF pc["producer"] = "push" \/ error["producer"] # "0" THEN task_index + 1 ELSE task_index
Alive == {x.id : x \in Reached}
Written == {rows[i] : i \in DOMAIN rows}

NoError == \A t \in Threads : error[t] = "0"

(* A task is alive or written, never both; before the clean-up it is lost  *)
(* only with an error.                                                     *)
TasksAccounted ==
  /\ rows \in Seq(1 .. TaskCount)
  /\ \A i, j \in DOMAIN rows : rows[i] = rows[j] => i = j
  /\ Alive \subseteq Begun /\ Written \subseteq Begun
  /\ Alive \cap Written = {}
  /\ NoError /\ pc["main"] \notin Ending => Begun \subseteq Alive \cup Written

(* The output thread's file and counters. *)
OutputState ==
  /\ output_file \in BOOLEAN /\ received \in Nat
  /\ pc["output"] \in {"off", "open", "done"} => ~output_file
  /\ pc["output"] \in {"pop", "write", "close"} /\ error["output"] = "0" => output_file
  /\ error["output"] = "0" =>
       received = IF pc["output"] = "write" THEN Len(rows) + 1 ELSE Len(rows)

AtEnd(n) == queues[n].closed /\ queues[n].count = 0

(* A thread that has ended without an error has done its part. *)
Finished ==
  /\ pc["producer"] \in {"close", "done"} /\ error["producer"] = "0" => task_index = TaskCount
  /\ pc["main"] \notin Ending =>
       /\ \A w \in Workers : pc[w] = "done" /\ error[w] = "0" => AtEnd("task_queue")
       /\ pc["output"] \in {"close", "done"} /\ error["output"] = "0" => AtEnd("result_queue")

(* How far main has come tells which threads it has created. *)
MainPhase ==
  /\ pc["main"] \in Initializing \cup {"create_output"} => \A t \in Others : pc[t] = "off"
  /\ pc["main"] \in Starting \cup Stopping => pc["producer"] = "off"
  /\ pc["main"] \in Stopping => error["main"] # "0"
  /\ error["main"] = "0" /\ pc["main"] \in {"create_producer"} \cup Joining => started # {}
  /\ error["main"] = "0" /\ pc["main"] \in Joining => pc["producer"] # "off"
  /\ pc["main"] = "close_result" => error["main"] = "0"
  /\ exit = "success" => pc["main"] \in Ending

(* And which it has joined, when every join succeeds. *)
Joined ==
  JoinsSucceed =>
    /\ pc["main"] \in {"join_workers", "close_result", "join_output"} \cup Cleaning =>
         pc["producer"] \in {"off", "done"}
    /\ pc["main"] \in {"close_result", "join_output"} \cup Cleaning =>
         \A w \in Workers : pc[w] \in {"off", "done"}
    /\ pc["main"] \in Cleaning => pc["output"] \in {"off", "done"}

(* The queues that exist; the others are empty. *)
Existing ==
  /\ pc["main"] = "init_task" => initialized = {}
  /\ pc["main"] = "init_result" => initialized = {"task_queue"}
  /\ pc["main"] \in Starting \cup Stopping \cup Joining => initialized = Queues
  /\ error["main"] \in {"0", "EAGAIN"} =>
       /\ pc["main"] \in CleaningResult => "task_queue" \notin initialized
       /\ pc["main"] = "exited" => initialized = {}
  /\ JoinsSucceed => QueuesOutliveThreads
  /\ \A n \in Queues \ initialized : queues[n].count = 0

(* What exit says of the run. *)
Verdict ==
  /\ exit = "success" => NoError /\ Written = 1 .. TaskCount
  /\ exit = "failure" => ~NoError
  /\ error["main"] # "0" => exit = "failure"
  /\ misreported # {} => ~NoError

Work == Rings /\ Hands /\ Owned /\ TasksAccounted /\ OutputState /\ Finished
Course == MainPhase /\ Joined /\ Existing /\ Verdict

IInv == Control /\ Work /\ Course

-----------------------------------------------------------------------------
(* Each of the rings. *)

LEMMA CapacityType == POINTER_QUEUE_CAPACITY \in Nat /\ 0 < POINTER_QUEUE_CAPACITY
BY QueueCapacityAssumption

LEMMA NullIsNoItem == \A x \in Items : x # NULL /\ x.id \in 1 .. TaskCount
BY DEF Items, NULL, Task, Result

Cells == Items \cup {NULL}

(* The ring of a queue, and where its next item is stored. *)
LEMMA RingFacts ==
  ASSUME NEW q, RingOK(q)
  PROVE  /\ q.items \in RingOf(Cells, POINTER_QUEUE_CAPACITY)
         /\ q.items \in [Slots -> Cells] /\ DOMAIN q.items = Slots
         /\ q.head \in 0 .. POINTER_QUEUE_CAPACITY - 1
         /\ q.tail \in Slots /\ q.head \in Slots
         /\ q.count \in Nat /\ q.count <= POINTER_QUEUE_CAPACITY
         /\ q.closed \in BOOLEAN
         /\ q.not_empty \subseteq Threads /\ q.not_full \subseteq Threads
         /\ Contents(q) = RingSeq(q.items, q.head, q.count, POINTER_QUEUE_CAPACITY)
         /\ Contents(q) \in Seq(Cells) /\ Len(Contents(q)) = q.count
<1>1. q \in PointerQueueType
  BY DEF RingOK
<1>2. /\ q.items \in [Slots -> Cells]
      /\ q.head \in Slots /\ q.tail \in Slots
      /\ q.count \in 0 .. POINTER_QUEUE_CAPACITY /\ q.closed \in BOOLEAN
      /\ q.not_empty \subseteq Threads /\ q.not_full \subseteq Threads
  BY <1>1 DEF PointerQueueType, Cells
<1>3. /\ q.items \in RingOf(Cells, POINTER_QUEUE_CAPACITY)
      /\ q.head \in 0 .. POINTER_QUEUE_CAPACITY - 1
      /\ q.count \in Nat /\ q.count <= POINTER_QUEUE_CAPACITY
  BY <1>2, CapacityType DEF RingOf, Slots
<1>4. Contents(q) = RingSeq(q.items, q.head, q.count, POINTER_QUEUE_CAPACITY)
  BY DEF Contents, RingSeq, Cell
<1>5. Contents(q) \in Seq(Cells) /\ Len(Contents(q)) = q.count
  BY <1>3, <1>4, CapacityType, RingIsSequence
<1> QED BY <1>2, <1>3, <1>4, <1>5

(* Cells from the head on, counted up to the capacity, are distinct. *)
LEMMA SlotFacts ==
  ASSUME NEW h \in Slots
  PROVE  /\ \A i \in 1 .. POINTER_QUEUE_CAPACITY + 1 : Cell(h, i, POINTER_QUEUE_CAPACITY) \in Slots
         /\ \A i, j \in 1 .. POINTER_QUEUE_CAPACITY :
              i # j => Cell(h, i, POINTER_QUEUE_CAPACITY) # Cell(h, j, POINTER_QUEUE_CAPACITY)
         /\ Cell(h, 1, POINTER_QUEUE_CAPACITY) = h
         /\ NextSlot(h) \in Slots
         /\ \A i \in 1 .. POINTER_QUEUE_CAPACITY :
              /\ Cell(NextSlot(h), i, POINTER_QUEUE_CAPACITY) = Cell(h, i + 1, POINTER_QUEUE_CAPACITY)
              /\ NextSlot(Cell(h, i, POINTER_QUEUE_CAPACITY)) = Cell(h, i + 1, POINTER_QUEUE_CAPACITY)
<1> DEFINE C == POINTER_QUEUE_CAPACITY
<1>1. C \in Nat /\ 0 < C /\ h \in 0 .. C - 1 /\ Slots = 0 .. C - 1
  BY CapacityType DEF Slots
<1> HIDE DEF C
<1>2. /\ \A i \in 1 .. C + 1 : Cell(h, i, C) \in 0 .. C - 1
      /\ \A i, j \in 1 .. C : i # j => Cell(h, i, C) # Cell(h, j, C)
      /\ Cell(h, 1, C) = h
      /\ (h + 1) % C \in 0 .. C - 1
      /\ \A i \in 1 .. C : Cell((h + 1) % C, i, C) = Cell(h, i + 1, C)
      /\ \A i \in 1 .. C : (Cell(h, i, C) + 1) % C = Cell(h, i + 1, C)
  BY <1>1, RingCells
<1>3. \A i : NextSlot(i) = (i + 1) % C
  BY DEF NextSlot, C
<1> QED BY <1>1, <1>2, <1>3 DEF C

(* A push stores the item in the empty slot at the tail and appends it to  *)
(* the queue.                                                              *)
LEMMA PushPuts ==
  ASSUME NEW q, RingOK(q), q.count # POINTER_QUEUE_CAPACITY, NEW x \in Items, NEW q2 \in AfterPush(q, x)
  PROVE  /\ RingOK(q2)
         /\ Contents(q2) = Append(Contents(q), x) /\ Len(Contents(q)) < POINTER_QUEUE_CAPACITY
         /\ q2.closed = q.closed
         /\ q.items[q.tail] = NULL /\ q2.items = [q.items EXCEPT ![q.tail] = x]
<1> DEFINE C == POINTER_QUEUE_CAPACITY
           n == q.count + 1
           r2 == Stored(q.items, Cell(q.head, n, C), x)
<1>1. /\ C \in Nat /\ 0 < C /\ q.items \in RingOf(Cells, C) /\ q.head \in 0 .. C - 1 /\ q.head \in Slots
      /\ q.count \in Nat /\ q.count < C /\ x \in Cells /\ n \in 1 .. C /\ n <= C
      /\ q.tail \in Slots /\ q.items \in [Slots -> Cells]
      /\ q.tail = Cell(q.head, n, C)
  <2>1. /\ q.items \in RingOf(Cells, C) /\ q.items \in [Slots -> Cells]
        /\ q.head \in 0 .. C - 1 /\ q.head \in Slots /\ q.tail \in Slots
        /\ q.count \in Nat /\ q.count <= C
    BY RingFacts
  <2>2. x \in Cells
    BY DEF Cells
  <2>3. q.tail = Cell(q.head, q.count + 1, C)
    BY DEF RingOK
  <2>4. C \in Nat /\ 0 < C
    BY CapacityType
  <2>5. q.count # C
    OBVIOUS
  <2> HIDE DEF C
  <2> QED BY <2>1, <2>2, <2>3, <2>4, <2>5
<1>2. PICK woken \in WokenBySignal(q.not_empty) :
        q2 = [q EXCEPT !.items[q.tail] = x, !.tail = NextSlot(@), !.count = @ + 1,
                       !.not_empty = @ \ woken]
  BY DEF AfterPush
<1>3. /\ q2.items = [q.items EXCEPT ![q.tail] = x] /\ q2.head = q.head
      /\ q2.tail = NextSlot(q.tail) /\ q2.count = n /\ q2.closed = q.closed
      /\ q2.not_empty = q.not_empty \ woken /\ q2.not_full = q.not_full
  BY <1>2 DEF RingOK, PointerQueueType
<1>4. r2 \in RingOf(Cells, C) /\ RingSeq(r2, q.head, n, C) = Append(RingSeq(q.items, q.head, q.count, C), x)
  <2> DEFINE items == q.items
             hd == q.head
             ct == q.count
  <2>1. items \in RingOf(Cells, C) /\ hd \in 0 .. C - 1 /\ ct \in Nat /\ ct < C
    BY <1>1
  <2>2. C \in Nat /\ 0 < C /\ x \in Cells
    BY <1>1
  <2> HIDE DEF C, items, hd, ct
  <2>3. /\ Stored(items, Cell(hd, ct + 1, C), x) \in RingOf(Cells, C)
        /\ RingSeq(Stored(items, Cell(hd, ct + 1, C), x), hd, ct + 1, C) = Append(RingSeq(items, hd, ct, C), x)
    BY <2>1, <2>2, RingPush
  <2> QED BY <2>3 DEF items, hd, ct
<1>5. q2.items = r2
  BY <1>1, <1>3 DEF Stored
<1>6. q2.tail = Cell(q2.head, q2.count + 1, C)
  <2>1. \A i \in 1 .. C : NextSlot(Cell(q.head, i, C)) = Cell(q.head, i + 1, C)
    BY <1>1, SlotFacts
  <2>2. NextSlot(Cell(q.head, n, C)) = Cell(q.head, n + 1, C)
    <3> HIDE DEF n
    <3> QED BY <1>1, <2>1
  <2> HIDE DEF n, C
  <2> QED BY <1>1, <1>3, <2>2
<1>7. ASSUME NEW i \in 1 .. C PROVE q2.items[Cell(q2.head, i, C)] = NULL <=> q2.count < i
  <2>1. /\ q.items[Cell(q.head, i, C)] = NULL <=> q.count < i
        /\ Cell(q.head, i, C) \in Slots
        /\ i # n => Cell(q.head, i, C) # q.tail
    BY <1>1, CapacityType, SlotFacts DEF RingOK
  <2>2. x # NULL
    BY NullIsNoItem
  <2> DEFINE c == Cell(q.head, i, C)
  <2>3. CASE i = n
    BY <1>1, <1>3, <2>2, <2>3
  <2>4. CASE i # n
    <3>1. q2.items[c] = q.items[c]
      BY <1>1, <1>3, <2>1, <2>4
    <3> QED BY <3>1, <1>1, <1>3, <2>1, <2>4
  <2> QED BY <2>3, <2>4
<1>8. q2 \in PointerQueueType
  <2>1. /\ q2.items \in [Slots -> Items \cup {NULL}] /\ NextSlot(q.tail) \in Slots
    BY <1>1, <1>3, SlotFacts DEF Cells
  <2>2. n \in 0 .. C
    BY <1>1
  <2>3. q.not_empty \ woken \subseteq Threads
    BY RingFacts
  <2> HIDE DEF n, C
  <2> QED BY <1>2, <1>3, <2>1, <2>2, <2>3 DEF RingOK, PointerQueueType, C
<1>9. RingOK(q2)
  BY <1>6, <1>7, <1>8 DEF RingOK
<1>10. Contents(q2) = Append(Contents(q), x)
  <2>1. Contents(q2) = RingSeq(q2.items, q2.head, q2.count, C)
    BY <1>9, RingFacts
  <2> HIDE DEF n, r2
  <2> QED BY <2>1, <1>3, <1>4, <1>5, RingFacts
<1>11. q.items[q.tail] = NULL
  <2>1. q.items[Cell(q.head, n, C)] = NULL <=> q.count < n
    BY <1>1 DEF RingOK
  <2> QED BY <2>1, <1>1
<1> QED BY <1>1, <1>3, <1>9, <1>10, <1>11, RingFacts

(* A pop empties the slot at the head and takes the oldest item.           *)
LEMMA PopTakes ==
  ASSUME NEW q, RingOK(q), q.count # 0, NEW q2 \in AfterPop(q)
  PROVE  /\ RingOK(q2)
         /\ Contents(q) # <<>> /\ Contents(q2) = Tail(Contents(q))
         /\ q2.closed = q.closed /\ q2.count = q.count - 1 /\ q2.count # q.count
         /\ q.head \in Slots /\ q.items[q.head] \in Items
         /\ q2.items = [q.items EXCEPT ![q.head] = NULL]
<1> DEFINE C == POINTER_QUEUE_CAPACITY
           k == NextSlot(q.head)
           m == q.count - 1
<1>1. /\ C \in Nat /\ 0 < C /\ q.items \in RingOf(Cells, C) /\ q.head \in 0 .. C - 1 /\ q.head \in Slots
      /\ q.count \in Nat /\ q.count <= C /\ q.count # 0 /\ q.items \in [Slots -> Cells]
      /\ q.tail \in Slots /\ q.tail = Cell(q.head, q.count + 1, C)
  <2>1. /\ q.items \in RingOf(Cells, C) /\ q.items \in [Slots -> Cells]
        /\ q.head \in 0 .. C - 1 /\ q.head \in Slots /\ q.tail \in Slots
        /\ q.count \in Nat /\ q.count <= C
    BY RingFacts
  <2>2. q.tail = Cell(q.head, q.count + 1, C)
    BY DEF RingOK
  <2>3. C \in Nat /\ 0 < C
    BY CapacityType
  <2> HIDE DEF C
  <2> QED BY <2>1, <2>2, <2>3
<1>2. m \in Nat /\ m < C /\ m + 1 = q.count /\ m # q.count
  BY <1>1
<1>3. PICK woken \in WokenBySignal(q.not_full) :
        q2 = [q EXCEPT !.items[q.head] = NULL, !.head = NextSlot(@), !.count = @ - 1,
                       !.not_full = @ \ woken]
  BY DEF AfterPop
<1>4. /\ q2.items = [q.items EXCEPT ![q.head] = NULL] /\ q2.head = k
      /\ q2.tail = q.tail /\ q2.count = m /\ q2.closed = q.closed
  BY <1>3 DEF RingOK, PointerQueueType
<1>5. /\ k \in Slots /\ Cell(q.head, 1, C) = q.head
      /\ \A i \in 1 .. C : /\ Cell(k, i, C) = Cell(q.head, i + 1, C)
                           /\ Cell(k, i, C) \in Slots
      /\ \A i \in 1 .. C : i # 1 => Cell(q.head, i, C) # q.head
      /\ Cell(k, C, C) = q.head
  <2>1. /\ k \in Slots /\ Cell(q.head, 1, C) = q.head
        /\ \A i \in 1 .. C : Cell(k, i, C) = Cell(q.head, i + 1, C)
        /\ \A i, j \in 1 .. C : i # j => Cell(q.head, i, C) # Cell(q.head, j, C)
    BY <1>1, SlotFacts
  <2>2. \A i \in 1 .. C + 1 : Cell(k, i, C) \in Slots
    BY <2>1, SlotFacts
  <2>3. 1 \in 1 .. C /\ C \in 1 .. C /\ \A i \in 1 .. C : i \in 1 .. C + 1
    BY <1>1
  <2>4. Cell(k, C, C) = q.head
    <3>1. /\ \A i, j \in 1 .. C : i # j => Cell(k, i, C) # Cell(k, j, C)
      BY <2>1, SlotFacts
    <3>2. \A i \in 1 .. C : i # C => i + 1 \in 1 .. C /\ i + 1 # 1
      BY <1>1
    <3>3. Cell(q.head, C + 1, C) = (q.head + (C + 1) - 1) % C
      BY DEF Cell
    <3>4. (q.head + (C + 1) - 1) % C = q.head
      <4>1. q.head + (C + 1) - 1 = q.head + C
        BY <1>1
      <4>2. \A h \in 0 .. C - 1 : (h + C) % C = h
        <5> HIDE DEF C
        <5> QED BY <1>1
      <4> HIDE DEF C
      <4> QED BY <1>1, <4>1, <4>2
    <3> QED BY <2>1, <2>3, <3>3, <3>4
  <2> QED BY <2>1, <2>2, <2>3, <2>4
<1>6. q2.tail = Cell(q2.head, q2.count + 1, C)
  <2>1. m + 1 \in 1 .. C
    BY <1>1, <1>2
  <2>2. Cell(k, m + 1, C) = Cell(q.head, (m + 1) + 1, C)
    <3> HIDE DEF m, k, C
    <3> QED BY <1>5, <2>1
  <2> HIDE DEF m, k, C
  <2> QED BY <1>1, <1>2, <1>4, <2>2
<1>7. \A i \in 1 .. C : q.items[Cell(q.head, i, C)] = NULL <=> q.count < i
  BY DEF RingOK
<1>8. ASSUME NEW i \in 1 .. C PROVE q2.items[Cell(q2.head, i, C)] = NULL <=> q2.count < i
  <2> DEFINE c == Cell(k, i, C)
  <2>1. c \in Slots /\ c = Cell(q.head, i + 1, C) /\ i \in Nat /\ 1 <= i /\ i <= C
    BY <1>1, <1>5
  <2>2. CASE i = C
    <3>1. c = q.head
      BY <1>5, <2>2
    <3>2. q2.items[c] = NULL
      BY <1>1, <1>4, <3>1
    <3>3. m < i
      BY <1>2, <2>2
    <3> HIDE DEF c, m, k
    <3> QED BY <1>4, <3>2, <3>3 DEF c
  <2>3. CASE i # C
    <3>1. i + 1 \in 1 .. C /\ i + 1 # 1
      BY <1>1, <2>1, <2>3
    <3>2. c # q.head
      <4> DEFINE j == i + 1
      <4>1. j \in 1 .. C /\ j # 1 /\ c = Cell(q.head, j, C)
        BY <3>1, <2>1
      <4> HIDE DEF j, c, C, k
      <4> QED BY <4>1, <1>5
    <3>3. q2.items[c] = q.items[c]
      <4> HIDE DEF c, C, k, m
      <4> QED BY <1>1, <1>4, <2>1, <3>2
    <3>4. q.items[c] = NULL <=> q.count < i + 1
      <4> DEFINE j == i + 1
      <4>1. j \in 1 .. C /\ c = Cell(q.head, j, C)
        BY <3>1, <2>1
      <4>2. q.items[Cell(q.head, j, C)] = NULL <=> q.count < j
        <5> HIDE DEF j, C
        <5> QED BY <4>1, <1>7
      <4> HIDE DEF c, C, k
      <4> QED BY <4>1, <4>2
    <3>5. q.count < i + 1 <=> m < i
      BY <1>1, <1>2, <2>1
    <3> HIDE DEF m, k
    <3> QED BY <1>4, <3>3, <3>4, <3>5
  <2> QED BY <2>2, <2>3
<1>9. q2 \in PointerQueueType
  <2>1. q2.items \in [Slots -> Items \cup {NULL}]
    BY <1>1, <1>4 DEF Cells
  <2>2. m \in 0 .. C /\ k \in Slots
    BY <1>1, <1>2, <1>5
  <2>3. q.not_full \ woken \subseteq Threads
    BY RingFacts
  <2> HIDE DEF m, C, k
  <2>4. q2 = [q EXCEPT !.items = q2.items, !.head = k, !.count = m, !.not_full = q.not_full \ woken]
    BY <1>3, <1>4 DEF m, k, RingOK, PointerQueueType
  <2> QED BY <2>1, <2>2, <2>3, <2>4 DEF RingOK, PointerQueueType, C
<1>10. RingOK(q2)
  BY <1>6, <1>8, <1>9 DEF RingOK
<1>11. q.items[q.head] \in Items
  <2>1. 1 \in 1 .. C /\ ~(q.count < 1)
    BY <1>1
  <2>2. q.items[Cell(q.head, 1, C)] # NULL
    <3> HIDE DEF C
    <3> QED BY <1>7, <2>1
  <2> QED BY <2>2, <1>1, <1>5 DEF Cells
<1>12. /\ RingSeq(q.items, q.head, q.count, C) # <<>>
       /\ RingSeq(q.items, k, m, C) = Tail(RingSeq(q.items, q.head, q.count, C))
  <2> DEFINE items == q.items
             hd == q.head
             ct == q.count
  <2>1. items \in RingOf(Cells, C) /\ hd \in 0 .. C - 1 /\ ct \in Nat /\ ct <= C /\ 0 < ct
    BY <1>1
  <2>2. C \in Nat /\ 0 < C
    BY <1>1
  <2>3. k = (hd + 1) % C /\ m = ct - 1
    BY DEF NextSlot
  <2> HIDE DEF C, items, hd, ct, m, k
  <2>4. /\ RingSeq(items, hd, ct, C) # <<>>
        /\ RingSeq(items, (hd + 1) % C, ct - 1, C) = Tail(RingSeq(items, hd, ct, C))
    BY <2>1, <2>2, RingPop
  <2> QED BY <2>3, <2>4 DEF items, hd, ct
<1>13. RingSeq(q2.items, k, m, C) = RingSeq(q.items, k, m, C)
  <2>1. ASSUME NEW i \in 1 .. m PROVE q2.items[Cell(k, i, C)] = q.items[Cell(k, i, C)]
    <3> DEFINE j == i + 1
    <3>1. i \in 1 .. C /\ j \in 1 .. C /\ j # 1
      BY <1>1, <1>2
    <3>2. Cell(k, i, C) \in Slots /\ Cell(k, i, C) = Cell(q.head, j, C)
      <4> HIDE DEF k
      <4> QED BY <3>1, <1>5
    <3>3. Cell(q.head, j, C) # q.head
      <4> HIDE DEF j, k
      <4> QED BY <3>1, <1>5
    <3> HIDE DEF j, k, C, m
    <3> QED BY <3>2, <3>3, <1>1, <1>4
  <2> QED BY <2>1 DEF RingSeq
<1>14. Contents(q2) = Tail(Contents(q)) /\ Contents(q) # <<>>
  <2>1. Contents(q2) = RingSeq(q2.items, q2.head, q2.count, C)
    BY <1>10, RingFacts
  <2>2. Contents(q) = RingSeq(q.items, q.head, q.count, C)
    BY RingFacts
  <2> HIDE DEF C, k, m
  <2> QED BY <2>1, <2>2, <1>4, <1>12, <1>13
<1> QED BY <1>1, <1>2, <1>4, <1>10, <1>11, <1>14

(* Only the flag and the waiting threads change. *)
LEMMA SameRing ==
  ASSUME NEW q, RingOK(q), NEW q2,
         q2.items = q.items, q2.head = q.head, q2.tail = q.tail, q2.count = q.count,
         q2 \in PointerQueueType
  PROVE  RingOK(q2) /\ Contents(q2) = Contents(q)
BY DEF RingOK, Contents

(* An empty ring. *)
LEMMA EmptyRing ==
  /\ RingOK(pointer_queue_init) /\ Contents(pointer_queue_init) = <<>>
  /\ pointer_queue_init.count = 0 /\ pointer_queue_init.closed = FALSE
  /\ \A i \in Slots : pointer_queue_init.items[i] = NULL
<1>1. /\ 0 \in Slots /\ 0 \in 0 .. POINTER_QUEUE_CAPACITY
      /\ Cell(0, 1, POINTER_QUEUE_CAPACITY) = 0
      /\ \A i \in 1 .. POINTER_QUEUE_CAPACITY : Cell(0, i, POINTER_QUEUE_CAPACITY) \in Slots
  <2>1. 0 \in Slots /\ 0 \in 0 .. POINTER_QUEUE_CAPACITY
    BY CapacityType DEF Slots
  <2> QED BY <2>1, CapacityType, SlotFacts
<1>2. \A i \in 1 .. POINTER_QUEUE_CAPACITY : 0 < i
  OBVIOUS
<1>3. RingOK(pointer_queue_init)
  BY <1>1, <1>2 DEF RingOK, pointer_queue_init, PointerQueueType
<1> QED BY <1>3 DEF pointer_queue_init, Contents

(* Counted from the head, every slot is reached. *)
LEMMA SlotIsCell ==
  ASSUME NEW h \in Slots, NEW s \in Slots
  PROVE  \E i \in 1 .. POINTER_QUEUE_CAPACITY : Cell(h, i, POINTER_QUEUE_CAPACITY) = s
<1> DEFINE C == POINTER_QUEUE_CAPACITY
           i == IF h <= s THEN s - h + 1 ELSE s + C - h + 1
<1>1. C \in Nat /\ 0 < C /\ h \in 0 .. C - 1 /\ s \in 0 .. C - 1
  BY CapacityType DEF Slots
<1> HIDE DEF C
<1>2. i \in 1 .. C /\ (h + i - 1 = s \/ h + i - 1 = s + C)
  BY <1>1
<1>3. s % C = s /\ (s + C) % C = s
  BY <1>1
<1>4. Cell(h, i, C) = s
  <2> HIDE DEF i
  <2> QED BY <1>2, <1>3 DEF Cell
<1> HIDE DEF i
<1> QED BY <1>2, <1>4 DEF C

(* What a queue contains is what its slots hold. *)
LEMMA ContentsAreItems ==
  ASSUME NEW q, RingOK(q)
  PROVE  /\ {Contents(q)[i] : i \in 1 .. q.count} = {q.items[s] : s \in Slots} \ {NULL}
         /\ q.count = 0 => Contents(q) = <<>> /\ \A s \in Slots : q.items[s] = NULL
<1> DEFINE C == POINTER_QUEUE_CAPACITY
           In == {Contents(q)[i] : i \in 1 .. q.count}
<1>1. /\ C \in Nat /\ q.count \in Nat /\ q.count <= C /\ q.head \in Slots
  BY RingFacts, CapacityType
<1>2. \A i \in 1 .. q.count : Contents(q)[i] = q.items[Cell(q.head, i, C)] /\ i \in 1 .. C /\ ~(q.count < i)
  BY <1>1 DEF Contents, Cell
<1>3. \A i \in 1 .. C : q.items[Cell(q.head, i, C)] = NULL <=> q.count < i
  BY DEF RingOK
<1>4. \A i \in 1 .. C : Cell(q.head, i, C) \in Slots
  <2>1. \A i \in 1 .. C : i \in 1 .. C + 1
    BY <1>1
  <2> QED BY <1>1, <2>1, SlotFacts
<1>5. \A s \in Slots : \E i \in 1 .. C : Cell(q.head, i, C) = s
  BY <1>1, SlotIsCell
<1>6. ASSUME NEW x \in In PROVE x \in {q.items[s] : s \in Slots} /\ x # NULL
  BY <1>2, <1>3, <1>4
<1>7. ASSUME NEW s \in Slots, q.items[s] # NULL PROVE q.items[s] \in In
  <2>1. PICK i \in 1 .. C : Cell(q.head, i, C) = s
    BY <1>5
  <2>2. i \in 1 .. q.count
    <3>1. ~(q.count < i)
      BY <2>1, <1>3, <1>7
    <3> QED BY <3>1, <1>1
  <2> QED BY <2>1, <2>2, <1>2
<1>8. ASSUME q.count = 0, NEW s \in Slots PROVE q.items[s] = NULL
  <2>1. In = {}
    BY <1>8
  <2> HIDE DEF In
  <2> QED BY <2>1, <1>7
<1>9. q.count = 0 => Contents(q) = <<>>
  BY DEF Contents
<1> HIDE DEF In
<1>10. In = {q.items[s] : s \in Slots} \ {NULL}
  BY <1>6, <1>7
<1> QED BY <1>8, <1>9, <1>10 DEF In

-----------------------------------------------------------------------------
(* Places and objects. *)

ObjectsIn(f, P) == {f[p] : p \in P} \ {NULL}

LEMMA InPlaces ==
  ASSUME NEW P, NEW f
  PROVE  \A x : x \in ObjectsIn(f, P) <=> x # NULL /\ \E p \in P : f[p] = x
BY DEF ObjectsIn

(* An object goes from one place to an empty one. *)
LEMMA MoveOne ==
  ASSUME NEW P, NEW f, OneEach(f, P),
         NEW p \in P, NEW r \in P, p # r, f[p] # NULL, f[r] = NULL, NEW g,
         g[p] = NULL, g[r] = f[p], \A s \in P : s # p /\ s # r => g[s] = f[s]
  PROVE  OneEach(g, P) /\ ObjectsIn(g, P) = ObjectsIn(f, P)
<1>1. ASSUME NEW x PROVE x \in ObjectsIn(f, P) <=> x \in ObjectsIn(g, P)
  <2>1. ASSUME x # NULL, NEW s \in P, f[s] = x PROVE \E t \in P : g[t] = x
    BY <2>1
  <2>2. ASSUME x # NULL, NEW s \in P, g[s] = x PROVE \E t \in P : f[t] = x
    BY <2>2
  <2> QED BY <2>1, <2>2, InPlaces
<1>2. ASSUME NEW s \in P, NEW t \in P, g[s] # NULL, g[t] # NULL, g[s].id = g[t].id PROVE s = t
  BY <1>2 DEF OneEach
<1> QED BY <1>1, <1>2 DEF OneEach

(* The object of one place goes away, if the place holds one. *)
LEMMA DropOne ==
  ASSUME NEW P, NEW f, OneEach(f, P), NEW p \in P, NEW g,
         g[p] = NULL, \A s \in P : s # p => g[s] = f[s]
  PROVE  OneEach(g, P) /\ ObjectsIn(g, P) = ObjectsIn(f, P) \ {f[p]}
<1>1. ASSUME NEW x PROVE x \in ObjectsIn(f, P) \ {f[p]} <=> x \in ObjectsIn(g, P)
  <2>1. ASSUME x # NULL, x # f[p], NEW s \in P, f[s] = x PROVE \E t \in P : g[t] = x
    BY <2>1
  <2>2. ASSUME x # NULL, NEW s \in P, g[s] = x PROVE x # f[p] /\ \E t \in P : f[t] = x
    <3>1. s # p /\ f[s] = x
      BY <2>2
    <3>2. x # f[p]
      BY <3>1, <2>2 DEF OneEach
    <3> QED BY <3>1, <3>2
  <2> QED BY <2>1, <2>2, InPlaces
<1>2. ASSUME NEW s \in P, NEW t \in P, g[s] # NULL, g[t] # NULL, g[s].id = g[t].id PROVE s = t
  BY <1>2 DEF OneEach
<1> QED BY <1>1, <1>2 DEF OneEach

(* A new object takes its place. *)
LEMMA ReplaceOne ==
  ASSUME NEW P, NEW f, OneEach(f, P), NEW p \in P, NEW x, x # NULL, NEW g,
         g[p] = x, \A s \in P : s # p => g[s] = f[s],
         \A s \in P : s # p /\ f[s] # NULL => f[s].id # x.id
  PROVE  OneEach(g, P) /\ ObjectsIn(g, P) = (ObjectsIn(f, P) \ {f[p]}) \cup {x}
<1>1. ASSUME NEW y PROVE y \in (ObjectsIn(f, P) \ {f[p]}) \cup {x} <=> y \in ObjectsIn(g, P)
  <2>1. ASSUME y # NULL, y # f[p], NEW s \in P, f[s] = y PROVE \E t \in P : g[t] = y
    BY <2>1
  <2>2. ASSUME y # NULL, NEW s \in P, g[s] = y
        PROVE y = x \/ (y # f[p] /\ \E t \in P : f[t] = y)
    <3>1. CASE s = p
      BY <2>2, <3>1
    <3>2. CASE s # p
      <4>1. f[s] = y /\ f[s] # NULL
        BY <2>2, <3>2
      <4>2. y # f[p]
        BY <4>1, <3>2 DEF OneEach
      <4> QED BY <4>1, <4>2
    <3> QED BY <3>1, <3>2
  <2> QED BY <2>1, <2>2, InPlaces
<1>2. ASSUME NEW s \in P, NEW t \in P, g[s] # NULL, g[t] # NULL, g[s].id = g[t].id PROVE s = t
  BY <1>2 DEF OneEach
<1> QED BY <1>1, <1>2 DEF OneEach

-----------------------------------------------------------------------------
(* Threads and places. *)

LEMMA ThreadNames ==
  /\ "main" \in Threads /\ "producer" \in Threads /\ "output" \in Threads
  /\ "producer" \in Others /\ "output" \in Others
  /\ Workers \subseteq Threads /\ Workers \subseteq Others /\ Others \subseteq Threads
  /\ "main" # "producer" /\ "main" # "output" /\ "producer" # "output"
  /\ \A w \in Workers : w # "main" /\ w # "producer" /\ w # "output"
  /\ \A t \in Threads : t \in {"main", "producer", "output"} \/ t \in Workers
  /\ \A t \in Others : t # "main"
  /\ \A t \in Threads : t = "main" \/ t \in Others
BY WorkersAssumption DEF Threads, Others

LEMMA QueueNames ==
  /\ "task_queue" \in Queues /\ "result_queue" \in Queues /\ "task_queue" # "result_queue"
  /\ \A n \in Queues : n = "task_queue" \/ n = "result_queue"
BY DEF Queues

LEMMA SpotsAre ==
  /\ \A t \in Threads : <<t>> \in Spots
  /\ \A n \in Queues, i \in Slots : <<n, i>> \in Spots
  /\ \A p \in Spots : (\E t \in Threads : p = <<t>>) \/ (\E n \in Queues, i \in Slots : p = <<n, i>>)
  /\ \A t, n, i : <<t>> # <<n, i>>
  /\ \A t, u : <<t>> = <<u>> => t = u
  /\ \A n, i, m, j : <<n, i>> = <<m, j>> => n = m /\ i = j
BY DEF Spots

LEMMA ObjectsAre ==
  /\ DOMAIN Objects = Spots
  /\ \A t \in Threads : Objects[<<t>>] = held[t]
  /\ \A n \in Queues, i \in Slots : Objects[<<n, i>>] = queues[n].items[i]
  /\ \A p \in Spots : Objects[p] = ObjectAt(p)
<1>1. /\ \A t : ObjectAt(<<t>>) = held[t]
      /\ \A n, i : ObjectAt(<<n, i>>) = queues[n].items[i]
  BY DEF ObjectAt
<1> QED BY <1>1, SpotsAre DEF Objects

LEMMA ObjectsNext ==
  /\ DOMAIN Objects' = Spots
  /\ \A t \in Threads : Objects'[<<t>>] = held'[t]
  /\ \A n \in Queues, i \in Slots : Objects'[<<n, i>>] = queues'[n].items[i]
<1>1. Objects' = [p \in Spots |-> IF Len(p) = 1 THEN held'[p[1]] ELSE queues'[p[1]].items[p[2]]]
  BY DEF Objects, ObjectAt, Spots
<1> QED BY <1>1, SpotsAre

LEMMA ObjectsType ==
  ASSUME Rings, held \in [Threads -> Items \cup {NULL}]
  PROVE  \A p \in Spots : Objects[p] \in Items \cup {NULL}
<1>1. \A n \in Queues, i \in Slots : queues[n].items[i] \in Items \cup {NULL}
  BY RingFacts DEF Rings, Cells
<1> QED BY <1>1, ObjectsAre, SpotsAre

LEMMA ReachedIs ==
  /\ Reached = ObjectsIn(Objects, Spots)
  /\ Reached' = ObjectsIn(Objects', Spots)
BY DEF Reached, ObjectsIn, Spots

(* What is reached is what the threads hold and the queues contain, and no *)
(* task has two objects in it.                                             *)
LEMMA ReachedFacts ==
  ASSUME Owned
  PROVE  /\ NULL \notin Reached
         /\ \A t \in Threads : held[t] # NULL => held[t] \in Reached
         /\ \A x \in Reached : \/ \E t \in Threads : held[t] = x
                               \/ \E n \in Queues, i \in Slots : queues[n].items[i] = x
         /\ \A x, y \in Reached : x.id = y.id => x = y
<1>1. \A p, q \in Spots : Objects[p] # NULL /\ Objects[q] # NULL /\ Objects[p].id = Objects[q].id => p = q
  BY DEF Owned, OneEach
<1>2. \A x : x \in Reached <=> x # NULL /\ \E p \in Spots : Objects[p] = x
  BY DEF Reached
<1>3. \A x, y \in Reached : x.id = y.id => x = y
  BY <1>1, <1>2
<1>4. NULL \notin Reached
  BY <1>2
<1>5. \A t \in Threads : held[t] # NULL => held[t] \in Reached
  BY <1>2, ObjectsAre, SpotsAre
<1>6. \A x \in Reached : \/ \E t \in Threads : held[t] = x
                         \/ \E n \in Queues, i \in Slots : queues[n].items[i] = x
  BY <1>2, ObjectsAre, SpotsAre
<1> QED BY <1>3, <1>4, <1>5, <1>6

-----------------------------------------------------------------------------
(* What steps do to objects. *)

SameItems == \A n \in Queues : queues'[n].items = queues[n].items

(* The objects stay where they are. *)
LEMMA ObjectsStay ==
  ASSUME Owned, SameItems, UNCHANGED <<held, heap, misreported>>
  PROVE  Owned' /\ Reached' = Reached
<1>1. DOMAIN Objects' = Spots /\ DOMAIN Objects = Spots
  BY ObjectsNext, ObjectsAre
<1>2. \A p \in Spots : Objects'[p] = Objects[p]
  BY ObjectsNext, ObjectsAre, SpotsAre DEF SameItems
<1>3. Objects' = Objects
  BY <1>1, <1>2 DEF Objects
<1>4. Reached' = Reached
  BY <1>3, ReachedIs
<1> QED BY <1>3, <1>4 DEF Owned, Spots

(* What thread t holds is freed, and only its hand changes. *)
LEMMA HandDrops ==
  ASSUME Owned, SameItems, held \in [Threads -> Items \cup {NULL}], NEW t \in Threads,
         held' = [held EXCEPT ![t] = NULL], heap' = heap \ {held[t]}, UNCHANGED misreported
  PROVE  Owned' /\ Reached' = Reached \ {held[t]}
<1>1. <<t>> \in Spots /\ Objects'[<<t>>] = NULL /\ Objects[<<t>>] = held[t]
  BY ObjectsNext, ObjectsAre, SpotsAre
<1>2. \A p \in Spots : p # <<t>> => Objects'[p] = Objects[p]
  BY ObjectsNext, ObjectsAre, SpotsAre DEF SameItems
<1>3. OneEach(Objects', Spots) /\ ObjectsIn(Objects', Spots) = ObjectsIn(Objects, Spots) \ {held[t]}
  <2> DEFINE f == Objects
             g == Objects'
             x == held[t]
             p == <<t>>
  <2>1. OneEach(f, Spots)
    BY DEF Owned
  <2> HIDE DEF f, g, x, p
  <2>2. p \in Spots /\ g[p] = NULL /\ f[p] = x /\ \A s \in Spots : s # p => g[s] = f[s]
    BY <1>1, <1>2 DEF f, g, x, p
  <2>3. OneEach(g, Spots) /\ ObjectsIn(g, Spots) = ObjectsIn(f, Spots) \ {f[p]}
    BY <2>1, <2>2, DropOne
  <2> QED BY <2>2, <2>3 DEF f, g, x
<1>4. Reached' = Reached \ {held[t]}
  BY <1>3, ReachedIs
<1>5. heap' \subseteq Items /\ Reached' \ misreported' = heap' \ misreported'
  BY <1>4 DEF Owned
<1> QED BY <1>3, <1>4, <1>5 DEF Owned, Spots

(* Thread t allocates an object of a task that has no other. *)
LEMMA HandReplaces ==
  ASSUME Owned, SameItems, held \in [Threads -> Items \cup {NULL}], NEW t \in Threads, NEW x \in Items,
         held' = [held EXCEPT ![t] = x], heap' = (heap \ {held[t]}) \cup {x}, UNCHANGED misreported,
         \A y \in Reached : y # held[t] => y.id # x.id
  PROVE  Owned' /\ Reached' = (Reached \ {held[t]}) \cup {x}
<1>1. /\ <<t>> \in Spots /\ Objects'[<<t>>] = x /\ Objects[<<t>>] = held[t] /\ x # NULL
  BY ObjectsNext, ObjectsAre, SpotsAre, NullIsNoItem
<1>2. \A p \in Spots : p # <<t>> => Objects'[p] = Objects[p]
  BY ObjectsNext, ObjectsAre, SpotsAre DEF SameItems
<1>3. \A p \in Spots : p # <<t>> /\ Objects[p] # NULL => Objects[p].id # x.id
  <2>1. \A p \in Spots : Objects[p] # NULL => Objects[p] \in Reached
    BY DEF Reached
  <2> QED BY <1>1, <2>1 DEF Owned, OneEach
<1>4. /\ OneEach(Objects', Spots)
      /\ ObjectsIn(Objects', Spots) = (ObjectsIn(Objects, Spots) \ {held[t]}) \cup {x}
  <2> DEFINE f == Objects
             g == Objects'
             p == <<t>>
  <2>1. OneEach(f, Spots)
    BY DEF Owned
  <2> HIDE DEF f, g, p
  <2>2. /\ p \in Spots /\ g[p] = x /\ f[p] = held[t] /\ \A s \in Spots : s # p => g[s] = f[s]
        /\ \A s \in Spots : s # p /\ f[s] # NULL => f[s].id # x.id
    BY <1>1, <1>2, <1>3 DEF f, g, p
  <2>3. OneEach(g, Spots) /\ ObjectsIn(g, Spots) = (ObjectsIn(f, Spots) \ {f[p]}) \cup {x}
    BY <1>1, <2>1, <2>2, ReplaceOne
  <2> QED BY <2>2, <2>3 DEF f, g
<1>5. Reached' = (Reached \ {held[t]}) \cup {x}
  BY <1>4, ReachedIs
<1>6. heap' \subseteq Items /\ Reached' \ misreported' = heap' \ misreported'
  BY <1>5 DEF Owned
<1> QED BY <1>4, <1>5, <1>6 DEF Owned, Spots

(* Of all queues only a slot of n changes. *)
OnlySlot(n, i, x) ==
  /\ queues'[n].items = [queues[n].items EXCEPT ![i] = x]
  /\ \A m \in Queues : m # n => queues'[m] = queues[m]

LEMMA OtherSlots ==
  ASSUME Rings, NEW n \in Queues, NEW i \in Slots, NEW x, OnlySlot(n, i, x)
  PROVE  /\ Objects'[<<n, i>>] = x
         /\ \A m \in Queues, j \in Slots :
              <<m, j>> # <<n, i>> => Objects'[<<m, j>>] = Objects[<<m, j>>]
<1>1. DOMAIN queues[n].items = Slots
  BY RingFacts DEF Rings
<1>2. Objects'[<<n, i>>] = x
  BY <1>1, ObjectsNext DEF OnlySlot
<1>3. ASSUME NEW m \in Queues, NEW j \in Slots, <<m, j>> # <<n, i>>
      PROVE  Objects'[<<m, j>>] = Objects[<<m, j>>]
  <2>1. m # n \/ j # i
    BY <1>3
  <2>2. queues'[m].items[j] = queues[m].items[j]
    BY <1>1, <2>1 DEF OnlySlot
  <2> QED BY <2>2, ObjectsNext, ObjectsAre
<1> QED BY <1>2, <1>3

(* What thread t holds goes into an empty slot of queue n. *)
LEMMA HandToSlot ==
  ASSUME Owned, Rings, held \in [Threads -> Items \cup {NULL}], NEW t \in Threads, held[t] # NULL,
         NEW n \in Queues, NEW i \in Slots, queues[n].items[i] = NULL, OnlySlot(n, i, held[t]),
         held' = [held EXCEPT ![t] = NULL]
  PROVE  OneEach(Objects', Spots) /\ Reached' = Reached
<1> DEFINE f == Objects
           g == Objects'
           p == <<t>>
           r == <<n, i>>
<1>1. /\ p \in Spots /\ r \in Spots /\ p # r
      /\ g[p] = NULL /\ f[p] # NULL /\ f[r] = NULL /\ g[r] = f[p]
  BY ObjectsNext, ObjectsAre, SpotsAre, OtherSlots
<1>2. \A s \in Spots : s # p /\ s # r => g[s] = f[s]
  <2>1. \A u \in Threads : <<u>> # p => g[<<u>>] = f[<<u>>]
    BY ObjectsNext, ObjectsAre
  <2>2. \A m \in Queues, j \in Slots : <<m, j>> # r => g[<<m, j>>] = f[<<m, j>>]
    BY OtherSlots
  <2> HIDE DEF f, g, p, r
  <2> QED BY <2>1, <2>2, SpotsAre
<1>3. OneEach(f, Spots)
  BY DEF Owned
<1> HIDE DEF f, g, p, r
<1>4. OneEach(g, Spots) /\ ObjectsIn(g, Spots) = ObjectsIn(f, Spots)
  BY <1>1, <1>2, <1>3, MoveOne
<1> QED BY <1>4, ReachedIs DEF f, g

(* What a slot of queue n holds goes into the empty hand of thread t. *)
LEMMA SlotToHand ==
  ASSUME Owned, Rings, held \in [Threads -> Items \cup {NULL}], NEW t \in Threads, held[t] = NULL,
         NEW n \in Queues, NEW i \in Slots, NEW x, x # NULL, queues[n].items[i] = x,
         OnlySlot(n, i, NULL), held' = [held EXCEPT ![t] = x]
  PROVE  OneEach(Objects', Spots) /\ Reached' = Reached
<1> DEFINE f == Objects
           g == Objects'
           p == <<t>>
           r == <<n, i>>
<1>1. /\ p \in Spots /\ r \in Spots /\ r # p
      /\ g[r] = NULL /\ f[r] # NULL /\ f[p] = NULL /\ g[p] = f[r]
  BY ObjectsNext, ObjectsAre, SpotsAre, OtherSlots
<1>2. \A s \in Spots : s # r /\ s # p => g[s] = f[s]
  <2>1. \A u \in Threads : <<u>> # p => g[<<u>>] = f[<<u>>]
    BY ObjectsNext, ObjectsAre
  <2>2. \A m \in Queues, j \in Slots : <<m, j>> # r => g[<<m, j>>] = f[<<m, j>>]
    BY OtherSlots
  <2> HIDE DEF f, g, p, r
  <2> QED BY <2>1, <2>2, SpotsAre
<1>3. OneEach(f, Spots)
  BY DEF Owned
<1> HIDE DEF f, g, p, r
<1>4. OneEach(g, Spots) /\ ObjectsIn(g, Spots) = ObjectsIn(f, Spots)
  BY <1>1, <1>2, <1>3, MoveOne
<1> QED BY <1>4, ReachedIs DEF f, g

(* What a slot of queue n holds is lost. *)
LEMMA SlotDrops ==
  ASSUME Owned, Rings, NEW n \in Queues, NEW i \in Slots, NEW x, queues[n].items[i] = x,
         OnlySlot(n, i, NULL), \A t \in Threads : held'[t] = held[t]
  PROVE  OneEach(Objects', Spots) /\ Reached' = Reached \ {x}
<1> DEFINE f == Objects
           g == Objects'
           r == <<n, i>>
<1>1. r \in Spots /\ g[r] = NULL /\ f[r] = x
  BY ObjectsAre, SpotsAre, OtherSlots
<1>2. \A s \in Spots : s # r => g[s] = f[s]
  <2>1. \A u \in Threads : g[<<u>>] = f[<<u>>]
    BY ObjectsNext, ObjectsAre
  <2>2. \A m \in Queues, j \in Slots : <<m, j>> # r => g[<<m, j>>] = f[<<m, j>>]
    BY OtherSlots
  <2> HIDE DEF f, g, r
  <2> QED BY <2>1, <2>2, SpotsAre
<1>3. OneEach(f, Spots)
  BY DEF Owned
<1> HIDE DEF f, g, r
<1>4. OneEach(g, Spots) /\ ObjectsIn(g, Spots) = ObjectsIn(f, Spots) \ {f[r]}
  BY <1>1, <1>2, <1>3, DropOne
<1> QED BY <1>1, <1>4, ReachedIs DEF f, g

-----------------------------------------------------------------------------
(* What steps do to queues. *)

(* What a step does to the queues that pointer_queue.h promises. *)
RingsStep == \A n \in Queues : [Ring(n)!QueueNext]_(Ring(n)!queueVars)

(* A closed queue stays closed, and an empty one then stays empty; and a   *)
(* queue that does not exist is not used.                                  *)
QueuesKeep ==
  \A n \in Queues :
    /\ queues'[n].closed \in BOOLEAN
    /\ queues[n].closed =>
         queues'[n].closed /\ (queues[n].count = 0 => queues'[n].count = 0)
    /\ n \notin initialized => queues'[n].count = queues[n].count

(* One queue changes as the bounded queue may. *)
LEMMA OneRingChanges ==
  ASSUME Rings, NEW n \in Queues, NEW q2, RingOK(q2), queues' = [queues EXCEPT ![n] = q2],
         \/ Contents(q2) = Contents(queues[n]) /\ (q2.closed = queues[n].closed \/ q2.closed = TRUE)
         \/ /\ ~queues[n].closed /\ Len(Contents(queues[n])) < POINTER_QUEUE_CAPACITY
            /\ q2.closed = queues[n].closed
            /\ \E x \in Items : Contents(q2) = Append(Contents(queues[n]), x)
         \/ /\ Contents(queues[n]) # <<>> /\ Contents(q2) = Tail(Contents(queues[n]))
            /\ q2.closed = queues[n].closed
         \/ queues[n].closed /\ Contents(q2) = <<>>
  PROVE  /\ Rings' /\ RingsStep
         /\ queues'[n] = q2 /\ \A m \in Queues : m # n => queues'[m] = queues[m]
<1>1. queues'[n] = q2 /\ (\A m \in Queues : m # n => queues'[m] = queues[m]) /\ DOMAIN queues' = Queues
  BY DEF Rings
<1>2. Rings'
  <2>1. \A m \in Queues : RingOK(queues'[m])
    BY <1>1 DEF Rings
  <2>2. q2 \in PointerQueueType
    BY DEF RingOK
  <2>3. queues' \in [Queues -> PointerQueueType]
    BY <2>2 DEF Rings
  <2> QED BY <2>1, <2>3 DEF Rings
<1>3. ASSUME NEW m \in Queues, m # n PROVE [Ring(m)!QueueNext]_(Ring(m)!queueVars)
  BY <1>1, <1>3 DEF Ring!queueVars
<1>4. [Ring(n)!QueueNext]_(Ring(n)!queueVars)
  <2>1. q2.closed \in BOOLEAN /\ queues[n].closed \in BOOLEAN
    BY RingFacts DEF Rings
  <2>2. CASE Contents(q2) = Contents(queues[n]) /\ (q2.closed = queues[n].closed \/ q2.closed = TRUE)
    BY <1>1, <2>2 DEF Ring!queueVars, Ring!QueueNext, Ring!Shut
  <2>3. CASE /\ ~queues[n].closed /\ Len(Contents(queues[n])) < POINTER_QUEUE_CAPACITY
             /\ q2.closed = queues[n].closed
             /\ \E x \in Items : Contents(q2) = Append(Contents(queues[n]), x)
    <3>1. PICK x \in Items : Contents(q2) = Append(Contents(queues[n]), x)
      BY <2>3
    <3>2. Ring(n)!Put(x)
      BY <1>1, <2>3, <3>1 DEF Ring!Put
    <3> QED BY <3>2 DEF Ring!QueueNext
  <2>4. CASE /\ Contents(queues[n]) # <<>> /\ Contents(q2) = Tail(Contents(queues[n]))
             /\ q2.closed = queues[n].closed
    BY <1>1, <2>4 DEF Ring!QueueNext, Ring!Take
  <2>5. CASE queues[n].closed /\ Contents(q2) = <<>>
    BY <1>1, <2>1, <2>5 DEF Ring!QueueNext, Ring!Discard
  <2> QED BY <2>2, <2>3, <2>4, <2>5
<1> QED BY <1>1, <1>2, <1>3, <1>4 DEF RingsStep

LEMMA OneQueueKeeps ==
  ASSUME Rings, NEW n \in Queues, NEW q2, RingOK(q2), queues'[n] = q2,
         \A m \in Queues : m # n => queues'[m] = queues[m],
         queues[n].closed => q2.closed /\ (queues[n].count = 0 => q2.count = 0),
         n \in initialized \/ q2.count = queues[n].count
  PROVE  QueuesKeep
<1>1. q2.closed \in BOOLEAN /\ \A m \in Queues : queues[m].closed \in BOOLEAN
  BY RingFacts DEF Rings
<1> QED BY <1>1 DEF QueuesKeep

(* The queues do not change at all. *)
LEMMA RingsStay ==
  ASSUME Rings, UNCHANGED queues
  PROVE  Rings' /\ RingsStep /\ QueuesKeep /\ SameItems
<1>1. Rings'
  BY DEF Rings, RingOK
<1>2. RingsStep
  BY DEF RingsStep, Ring!queueVars
<1>3. QueuesKeep /\ SameItems
  BY RingFacts DEF Rings, QueuesKeep, SameItems
<1> QED BY <1>1, <1>2, <1>3

(* A queue is closed, or its waiting threads change. *)
LEMMA SameContents ==
  ASSUME Rings, NEW n \in Queues, NEW q2, q2 \in PointerQueueType, queues' = [queues EXCEPT ![n] = q2],
         q2.items = queues[n].items, q2.head = queues[n].head, q2.tail = queues[n].tail,
         q2.count = queues[n].count, q2.closed = queues[n].closed \/ q2.closed = TRUE
  PROVE  Rings' /\ RingsStep /\ QueuesKeep /\ SameItems
<1>1. RingOK(queues[n])
  BY DEF Rings
<1>2. RingOK(q2) /\ Contents(q2) = Contents(queues[n])
  BY <1>1, SameRing
<1>3. /\ Rings' /\ RingsStep
      /\ queues'[n] = q2 /\ \A m \in Queues : m # n => queues'[m] = queues[m]
  BY <1>2, OneRingChanges
<1>4. QueuesKeep
  BY <1>2, <1>3, OneQueueKeeps
<1> QED BY <1>3, <1>4 DEF SameItems

(* Thread t begins to wait, or stops. *)
LEMMA WaitsChange ==
  ASSUME Rings, NEW n \in Queues, NEW a, a \subseteq Threads, NEW b, b \subseteq Threads,
         queues' = [queues EXCEPT ![n] = [@ EXCEPT !.not_empty = a, !.not_full = b]]
  PROVE  Rings' /\ RingsStep /\ QueuesKeep /\ SameItems
<1> DEFINE q2 == [queues[n] EXCEPT !.not_empty = a, !.not_full = b]
<1>1. RingOK(queues[n])
  BY DEF Rings
<1>2. /\ q2 \in PointerQueueType /\ q2.items = queues[n].items /\ q2.head = queues[n].head
      /\ q2.tail = queues[n].tail /\ q2.count = queues[n].count /\ q2.closed = queues[n].closed
  BY <1>1 DEF RingOK, PointerQueueType
<1>3. queues' = [queues EXCEPT ![n] = q2]
  OBVIOUS
<1> HIDE DEF q2
<1> QED BY <1>2, <1>3, SameContents

(* What a close leaves, also when it fails. *)
LEMMA ClosedQueue ==
  ASSUME NEW q \in PointerQueueType, NEW q2 \in {pointer_queue_close(q)} \cup AfterFailedClose(q)
  PROVE  /\ q2 \in PointerQueueType /\ q2.items = q.items /\ q2.head = q.head /\ q2.tail = q.tail
         /\ q2.count = q.count /\ (q2.closed = q.closed \/ q2.closed = TRUE)
<1> DEFINE Goal == /\ q2 \in PointerQueueType /\ q2.items = q.items /\ q2.head = q.head
                   /\ q2.tail = q.tail /\ q2.count = q.count
                   /\ (q2.closed = q.closed \/ q2.closed = TRUE)
<1>1. ASSUME NEW e \in SUBSET Threads, NEW f \in SUBSET Threads,
             q2 = [q EXCEPT !.closed = TRUE, !.not_empty = e, !.not_full = f]
      PROVE  Goal
  <2>1. /\ q2.items = q.items /\ q2.head = q.head /\ q2.tail = q.tail /\ q2.count = q.count
        /\ q2.closed = TRUE
    BY <1>1 DEF PointerQueueType
  <2>2. q2 \in PointerQueueType
    BY <1>1 DEF PointerQueueType
  <2> QED BY <2>1, <2>2
<1>2. q2 = q => Goal
  OBVIOUS
<1>3. q.not_empty \in SUBSET Threads /\ q.not_full \in SUBSET Threads /\ {} \in SUBSET Threads
  BY DEF PointerQueueType
<1>4. \/ q2 = q
      \/ q2 = [q EXCEPT !.closed = TRUE, !.not_empty = {}, !.not_full = {}]
      \/ \E e \in {{}, q.not_empty}, f \in {{}, q.not_full} :
           q2 = [q EXCEPT !.closed = TRUE, !.not_empty = e, !.not_full = f]
  BY DEF AfterFailedClose, pointer_queue_close
<1> HIDE DEF Goal
<1>5. Goal
  BY <1>1, <1>2, <1>3, <1>4, ZenonT(40)
<1> QED BY <1>5 DEF Goal

LEMMA CloseEffect ==
  ASSUME Rings, NEW t \in Threads, NEW n \in Queues, CloseQueue(t, n)
  PROVE  /\ Rings' /\ RingsStep /\ QueuesKeep /\ SameItems
         /\ UNCHANGED error \/ Report(t, "EINVAL")
<1>1. queues[n] \in PointerQueueType
  BY DEF Rings, RingOK
<1>2. PICK q2 \in {pointer_queue_close(queues[n])} \cup AfterFailedClose(queues[n]) :
        queues' = [queues EXCEPT ![n] = q2]
  BY DEF CloseQueue
<1>3. Rings' /\ RingsStep /\ QueuesKeep /\ SameItems
  BY <1>1, <1>2, ClosedQueue, SameContents
<1>4. UNCHANGED error \/ Report(t, "EINVAL")
  BY DEF CloseQueue
<1> QED BY <1>3, <1>4

-----------------------------------------------------------------------------
(* Errors. *)

ErrorsRemain == \A t \in Threads : error'[t] = "0" => error[t] = "0"

(* Only thread t may meet an error. *)
ErrorsKeep(t) ==
  /\ error' \in [Threads -> Errors]
  /\ error'[t] = "0" => error[t] = "0"
  /\ error'[t] \in {"0", "EAGAIN"} => error[t] \in {"0", "EAGAIN"}
  /\ \A u \in Threads : u # t => error'[u] = error[u]

LEMMA ErrorsKept ==
  ASSUME NEW t \in Threads, ErrorsKeep(t)
  PROVE  ErrorsRemain /\ (NoError' => NoError) /\ (error'[t] # "0" => ~NoError')
BY DEF ErrorsKeep, ErrorsRemain, NoError

LEMMA NoReport ==
  ASSUME error \in [Threads -> Errors], UNCHANGED error, NEW t \in Threads
  PROVE  ErrorsKeep(t)
BY DEF ErrorsKeep

LEMMA ReportFacts ==
  ASSUME error \in [Threads -> Errors], NEW t \in Threads, NEW err \in Errors \ {"0"}, Report(t, err)
  PROVE  /\ ErrorsKeep(t) /\ error'[t] # "0"
         /\ error'[t] = IF error[t] \in {"0", "EAGAIN"} THEN err ELSE error[t]
BY DEF Report, ErrorsKeep, Errors

-----------------------------------------------------------------------------
(* Push and pop. *)

(* How a call ends: the thread waits, it has handed its object over, it    *)
(* has an object, it found the end of the queue, or it gives up.           *)
Idle == UNCHANGED <<pc, callVars>>
HandsOver(t, next) == Goto(t, next) /\ held' = [held EXCEPT ![t] = NULL] /\ UNCHANGED error
TakesOver(t, next) ==
  Goto(t, next) /\ (\E x \in Items : held' = [held EXCEPT ![t] = x]) /\ UNCHANGED error
SeesEnd(t, n, ended) == AtEnd(n) /\ Goto(t, ended) /\ UNCHANGED <<held, error>>
GivesUp(t, failed) ==
  /\ Goto(t, failed) /\ held' = [held EXCEPT ![t] = NULL]
  /\ \E err \in {"ECANCELED", "EINVAL", "EIO", "ENOMEM"} : Report(t, err)

(* A task is lost, and an object misreported, only with an error. *)
ObjectsKept(t) ==
  /\ Owned'
  /\ Alive' \subseteq Alive /\ (Alive' = Alive \/ error'[t] # "0")
  /\ misreported' = misreported \/ error'[t] # "0"

LEMMA AliveIs ==
  /\ Reached' = Reached => Alive' = Alive
  /\ Reached' \subseteq Reached => Alive' \subseteq Alive
BY DEF Alive

LEMMA FailGivesUp ==
  ASSUME NEW t, NEW err \in {"ECANCELED", "EINVAL", "EIO", "ENOMEM"}, NEW failed, Fail(t, err, failed)
  PROVE  GivesUp(t, failed) /\ heap' = heap \ {held[t]}
BY DEF Fail, GivesUp

LEMMA GivesUpReports ==
  ASSUME error \in [Threads -> Errors], NEW t \in Threads, NEW failed, GivesUp(t, failed)
  PROVE  ErrorsKeep(t) /\ error'[t] # "0"
<1>1. PICK err \in {"ECANCELED", "EINVAL", "EIO", "ENOMEM"} : Report(t, err)
  BY DEF GivesUp
<1>2. err \in Errors \ {"0"}
  BY DEF Errors
<1> QED BY <1>1, <1>2, ReportFacts

(* Thread t frees what it holds and gives up. *)
LEMMA FailEffect ==
  ASSUME Owned, SameItems, held \in [Threads -> Items \cup {NULL}], error \in [Threads -> Errors],
         NEW t \in Threads, NEW err \in {"ECANCELED", "EINVAL", "EIO", "ENOMEM"}, NEW failed,
         Fail(t, err, failed), UNCHANGED misreported
  PROVE  ObjectsKept(t) /\ GivesUp(t, failed) /\ (held[t] = NULL => Alive' = Alive)
<1>1. GivesUp(t, failed) /\ heap' = heap \ {held[t]} /\ held' = [held EXCEPT ![t] = NULL]
  BY FailGivesUp DEF Fail
<1>2. error'[t] # "0"
  BY <1>1, GivesUpReports
<1>3. Owned' /\ Reached' = Reached \ {held[t]}
  BY <1>1, HandDrops
<1>4. held[t] = NULL => Reached' = Reached
  BY <1>3, ReachedFacts
<1>5. Alive' \subseteq Alive
  BY <1>3, AliveIs
<1> QED BY <1>1, <1>2, <1>3, <1>4, <1>5, AliveIs DEF ObjectsKept

(* A call fails after its effect: t gives up its hand, and what it meant   *)
(* to hand over or to take is misreported.                                 *)
LEMMA LateFailure ==
  ASSUME error \in [Threads -> Errors], NEW t \in Threads, NEW item, NEW failed,
         FailsAfterEffect(t, item, failed)
  PROVE  /\ GivesUp(t, failed) /\ error'[t] # "0"
         /\ held' = [held EXCEPT ![t] = NULL] /\ heap' = heap \ {held[t]}
         /\ misreported' = misreported \cup {item}
<1>1. Fail(t, "EINVAL", failed) /\ misreported' = misreported \cup {item}
  BY DEF FailsAfterEffect
<1>2. GivesUp(t, failed) /\ heap' = heap \ {held[t]} /\ held' = [held EXCEPT ![t] = NULL]
  BY <1>1, FailGivesUp DEF Fail
<1> QED BY <1>1, <1>2, GivesUpReports

LEMMA PushEffect ==
  ASSUME Rings, Owned, held \in [Threads -> Items \cup {NULL}], error \in [Threads -> Errors],
         NEW t \in Threads, held[t] # NULL, NEW n \in Queues, NEW next, NEW failed,
         Push(t, n, next, failed)
  PROVE  /\ Rings' /\ RingsStep /\ QueuesKeep /\ ObjectsKept(t)
         /\ Idle \/ HandsOver(t, next) \/ GivesUp(t, failed)
<1> DEFINE q == queues[n]
           x == held[t]
           Outcome == Idle \/ HandsOver(t, next) \/ GivesUp(t, failed)
           Goal == Rings' /\ RingsStep /\ QueuesKeep /\ ObjectsKept(t) /\ Outcome
<1>1. RingOK(q) /\ x \in Items /\ DOMAIN queues = Queues /\ n \in initialized
  BY DEF Rings, Push
<1>2. ASSUME queues' = [queues EXCEPT ![n].not_full = @ \cup {t}], UNCHANGED <<pc, callVars>>
      PROVE  Goal
  <2> DEFINE a == q.not_empty
             b == q.not_full \cup {t}
  <2>1. a \subseteq Threads /\ b \subseteq Threads
    BY <1>1, RingFacts
  <2>2. queues' = [queues EXCEPT ![n] = [@ EXCEPT !.not_empty = a, !.not_full = b]]
    BY <1>1, <1>2 DEF RingOK, PointerQueueType
  <2> HIDE DEF a, b
  <2>3. Rings' /\ RingsStep /\ QueuesKeep /\ SameItems
    BY <2>1, <2>2, WaitsChange
  <2>4. UNCHANGED <<held, heap, misreported>>
    BY <1>2 DEF callVars
  <2>5. Owned' /\ Alive' = Alive
    BY <2>3, <2>4, ObjectsStay, AliveIs
  <2> QED BY <1>2, <2>3, <2>4, <2>5 DEF Idle, ObjectsKept
<1>3. ASSUME ~MustWaitToPush(q), PushError(q) = "0",
             NEW after \in AfterPush(q, x), queues' = [queues EXCEPT ![n] = after],
             held' = [held EXCEPT ![t] = NULL]
      PROVE  Rings' /\ RingsStep /\ QueuesKeep /\ OneEach(Objects', Spots) /\ Reached' = Reached
  <2>2. ~q.closed /\ q.count # POINTER_QUEUE_CAPACITY
    BY <1>3 DEF PushError, MustWaitToPush
  <2>3. /\ RingOK(after)
        /\ Contents(after) = Append(Contents(q), x) /\ Len(Contents(q)) < POINTER_QUEUE_CAPACITY
        /\ after.closed = q.closed
        /\ q.items[q.tail] = NULL /\ after.items = [q.items EXCEPT ![q.tail] = x]
    <3> HIDE DEF q, x
    <3> QED BY <1>1, <1>3, <2>2, PushPuts
  <2>4. /\ Rings' /\ RingsStep
        /\ queues'[n] = after /\ \A m \in Queues : m # n => queues'[m] = queues[m]
    BY <1>1, <1>3, <2>2, <2>3, OneRingChanges
  <2>5. QueuesKeep
    BY <1>1, <2>2, <2>3, <2>4, OneQueueKeeps
  <2>6. OneEach(Objects', Spots) /\ Reached' = Reached
    <3> DEFINE i == q.tail
    <3>1. i \in Slots /\ queues[n].items[i] = NULL
      BY <1>1, <2>3, RingFacts
    <3>2. OnlySlot(n, i, held[t])
      BY <2>3, <2>4 DEF OnlySlot
    <3> HIDE DEF i, x
    <3> QED BY <3>1, <3>2, <1>3, HandToSlot
  <2> QED BY <2>4, <2>5, <2>6
<1>4. ASSUME ~MustWaitToPush(q), PushError(q) = "0",
             NEW after \in AfterPush(q, x), queues' = [queues EXCEPT ![n] = after],
             held' = [held EXCEPT ![t] = NULL] /\ Goto(t, next) /\ UNCHANGED <<heap, error, misreported>>
      PROVE  Goal
  <2>1. Rings' /\ RingsStep /\ QueuesKeep /\ OneEach(Objects', Spots) /\ Reached' = Reached
    BY <1>3, <1>4
  <2>2. Owned'
    BY <1>4, <2>1 DEF Owned, Spots
  <2>3. Alive' = Alive
    BY <2>1, AliveIs
  <2> QED BY <1>4, <2>1, <2>2, <2>3 DEF HandsOver, ObjectsKept
<1>5. ASSUME ~MustWaitToPush(q), PushError(q) = "0",
             NEW after \in AfterPush(q, x), queues' = [queues EXCEPT ![n] = after],
             FailsAfterEffect(t, held[t], failed)
      PROVE  Goal
  <2>1. /\ GivesUp(t, failed) /\ error'[t] # "0"
        /\ held' = [held EXCEPT ![t] = NULL] /\ heap' = heap \ {x}
        /\ misreported' = misreported \cup {x}
    BY <1>5, LateFailure
  <2>2. Rings' /\ RingsStep /\ QueuesKeep /\ OneEach(Objects', Spots) /\ Reached' = Reached
    BY <1>3, <1>5, <2>1
  <2>3. heap' \subseteq Items /\ Reached' \ misreported' = heap' \ misreported'
    BY <2>1, <2>2 DEF Owned
  <2>4. Owned'
    BY <2>2, <2>3 DEF Owned, Spots
  <2>5. Alive' = Alive
    BY <2>2, AliveIs
  <2> QED BY <2>1, <2>2, <2>4, <2>5 DEF ObjectsKept
<1>6. ASSUME NEW err \in {"ECANCELED", "EINVAL", "EIO", "ENOMEM"}, Fail(t, err, failed),
             UNCHANGED <<queues, misreported>>
      PROVE  Goal
  <2>1. Rings' /\ RingsStep /\ QueuesKeep /\ SameItems
    BY <1>6, RingsStay
  <2>2. ObjectsKept(t) /\ GivesUp(t, failed)
    BY <1>6, <2>1, FailEffect
  <2> QED BY <2>1, <2>2
<1>7. \/ queues' = [queues EXCEPT ![n].not_full = @ \cup {t}] /\ UNCHANGED <<pc, callVars>>
      \/ /\ ~MustWaitToPush(q) /\ PushError(q) = "0"
         /\ \E after \in AfterPush(q, x) : queues' = [queues EXCEPT ![n] = after]
         /\ \/ held' = [held EXCEPT ![t] = NULL] /\ Goto(t, next) /\ UNCHANGED <<heap, error, misreported>>
            \/ FailsAfterEffect(t, held[t], failed)
      \/ /\ \E err \in {"ECANCELED", "EINVAL", "EIO", "ENOMEM"} : Fail(t, err, failed)
         /\ UNCHANGED <<queues, misreported>>
  <2>1. PushError(q) # "0" => PushError(q) \in {"ECANCELED", "EINVAL", "EIO", "ENOMEM"}
    BY DEF PushError
  <2> HIDE DEF q
  <2> QED BY <2>1 DEF Push, q
<1> HIDE DEF q, x, Goal
<1>8. Goal
  BY <1>2, <1>4, <1>5, <1>6, <1>7
<1> QED BY <1>8 DEF Goal

LEMMA PopEffect ==
  ASSUME Rings, Owned, held \in [Threads -> Items \cup {NULL}], error \in [Threads -> Errors],
         NEW t \in Threads, held[t] = NULL, NEW n \in Queues, NEW next, NEW ended,
         Pop(t, n, next, ended)
  PROVE  /\ Rings' /\ RingsStep /\ QueuesKeep /\ ObjectsKept(t)
         /\ Idle \/ TakesOver(t, next) \/ SeesEnd(t, n, ended) \/ GivesUp(t, ended)
<1> DEFINE q == queues[n]
           x == q.items[q.head]
           Outcome == Idle \/ TakesOver(t, next) \/ SeesEnd(t, n, ended) \/ GivesUp(t, ended)
           Goal == Rings' /\ RingsStep /\ QueuesKeep /\ ObjectsKept(t) /\ Outcome
<1>1. RingOK(q) /\ DOMAIN queues = Queues /\ n \in initialized
  BY DEF Rings, Pop
<1>2. ASSUME queues' = [queues EXCEPT ![n].not_empty = @ \cup {t}], UNCHANGED <<pc, callVars>>
      PROVE  Goal
  <2> DEFINE a == q.not_empty \cup {t}
             b == q.not_full
  <2>1. a \subseteq Threads /\ b \subseteq Threads
    BY <1>1, RingFacts
  <2>2. queues' = [queues EXCEPT ![n] = [@ EXCEPT !.not_empty = a, !.not_full = b]]
    BY <1>1, <1>2 DEF RingOK, PointerQueueType
  <2> HIDE DEF a, b
  <2>3. Rings' /\ RingsStep /\ QueuesKeep /\ SameItems
    BY <2>1, <2>2, WaitsChange
  <2>4. UNCHANGED <<held, heap, misreported>>
    BY <1>2 DEF callVars
  <2>5. Owned' /\ Alive' = Alive
    BY <2>3, <2>4, ObjectsStay, AliveIs
  <2> QED BY <1>2, <2>3, <2>4, <2>5 DEF Idle, ObjectsKept
<1>3. ASSUME ~MustWaitToPop(q), PopError(q) = "0",
             NEW after \in AfterPop(q), queues' = [queues EXCEPT ![n] = after]
      PROVE  /\ Rings' /\ RingsStep /\ QueuesKeep /\ q.head \in Slots /\ x \in Items
             /\ OnlySlot(n, q.head, NULL)
  <2>2. q.count # 0
    BY <1>3 DEF PopError
  <2>3. /\ RingOK(after)
        /\ Contents(q) # <<>> /\ Contents(after) = Tail(Contents(q))
        /\ after.closed = q.closed
        /\ q.head \in Slots /\ q.items[q.head] \in Items
        /\ after.items = [q.items EXCEPT ![q.head] = NULL]
    <3> HIDE DEF q
    <3> QED BY <1>1, <1>3, <2>2, PopTakes
  <2>4. /\ Rings' /\ RingsStep
        /\ queues'[n] = after /\ \A m \in Queues : m # n => queues'[m] = queues[m]
    BY <1>1, <1>3, <2>2, <2>3, OneRingChanges
  <2>5. QueuesKeep
    BY <1>1, <2>2, <2>3, <2>4, OneQueueKeeps
  <2> QED BY <2>3, <2>4, <2>5 DEF OnlySlot
<1>4. ASSUME ~MustWaitToPop(q), PopError(q) = "0",
             NEW after \in AfterPop(q), queues' = [queues EXCEPT ![n] = after],
             held' = [held EXCEPT ![t] = x] /\ Goto(t, next) /\ UNCHANGED <<heap, error, misreported>>
      PROVE  Goal
  <2>1. Rings' /\ RingsStep /\ QueuesKeep /\ q.head \in Slots /\ x \in Items /\ OnlySlot(n, q.head, NULL)
    BY <1>3, <1>4
  <2>2. OneEach(Objects', Spots) /\ Reached' = Reached
    <3> DEFINE i == q.head
    <3>1. i \in Slots /\ x # NULL /\ queues[n].items[i] = x /\ OnlySlot(n, i, NULL)
      BY <2>1, NullIsNoItem
    <3> HIDE DEF i, x, q
    <3> QED BY <3>1, <1>4, SlotToHand
  <2>3. Owned'
    BY <1>4, <2>2 DEF Owned, Spots
  <2>4. Alive' = Alive
    BY <2>2, AliveIs
  <2> QED BY <1>4, <2>1, <2>3, <2>4 DEF TakesOver, ObjectsKept
<1>5. ASSUME ~MustWaitToPop(q), PopError(q) = "0",
             NEW after \in AfterPop(q), queues' = [queues EXCEPT ![n] = after],
             FailsAfterEffect(t, x, ended)
      PROVE  Goal
  <2>1. Rings' /\ RingsStep /\ QueuesKeep /\ q.head \in Slots /\ x \in Items /\ OnlySlot(n, q.head, NULL)
    BY <1>3, <1>5
  <2>2. /\ GivesUp(t, ended) /\ error'[t] # "0"
        /\ held' = [held EXCEPT ![t] = NULL] /\ heap' = heap \ {held[t]}
        /\ misreported' = misreported \cup {x}
    BY <1>5, LateFailure
  <2>3. OneEach(Objects', Spots) /\ Reached' = Reached \ {x}
    <3> DEFINE i == q.head
    <3>1. i \in Slots /\ queues[n].items[i] = x /\ OnlySlot(n, i, NULL)
      BY <2>1
    <3>2. \A u \in Threads : held'[u] = held[u]
      BY <2>2
    <3> HIDE DEF i, x, q
    <3> QED BY <3>1, <3>2, SlotDrops
  <2>4. heap' \subseteq Items /\ Reached' \ misreported' = heap' \ misreported'
    <3>1. NULL \notin heap
      BY NullIsNoItem DEF Owned
    <3> HIDE DEF x
    <3> QED BY <3>1, <2>2, <2>3 DEF Owned
  <2>5. Owned'
    BY <2>3, <2>4 DEF Owned, Spots
  <2>6. Alive' \subseteq Alive
    <3>1. Reached' \subseteq Reached
      BY <2>3
    <3> QED BY <3>1, AliveIs
  <2> QED BY <2>1, <2>2, <2>5, <2>6 DEF ObjectsKept
<1>6. ASSUME NEW err \in {"ECANCELED", "EINVAL", "EIO", "ENOMEM"}, Fail(t, err, ended),
             UNCHANGED <<queues, misreported>>
      PROVE  Goal
  <2>1. Rings' /\ RingsStep /\ QueuesKeep /\ SameItems
    BY <1>6, RingsStay
  <2>2. ObjectsKept(t) /\ GivesUp(t, ended)
    BY <1>6, <2>1, FailEffect
  <2> QED BY <2>1, <2>2
<1>7. ASSUME ~MustWaitToPop(q), PopError(q) # "0", Goto(t, ended), UNCHANGED <<held, heap, error>>,
             UNCHANGED <<queues, misreported>>
      PROVE  Goal
  <2>1. Rings' /\ RingsStep /\ QueuesKeep /\ SameItems
    BY <1>7, RingsStay
  <2>2. Owned' /\ Alive' = Alive
    BY <1>7, <2>1, ObjectsStay, AliveIs
  <2>3. q.count = 0 /\ q.closed
    BY <1>7 DEF PopError, MustWaitToPop
  <2>4. SeesEnd(t, n, ended)
    BY <1>7, <2>3 DEF SeesEnd, AtEnd
  <2> QED BY <1>7, <2>1, <2>2, <2>4 DEF ObjectsKept
<1>8. \/ queues' = [queues EXCEPT ![n].not_empty = @ \cup {t}] /\ UNCHANGED <<pc, callVars>>
      \/ /\ ~MustWaitToPop(q) /\ PopError(q) = "0"
         /\ \E after \in AfterPop(q) : queues' = [queues EXCEPT ![n] = after]
         /\ \/ held' = [held EXCEPT ![t] = x] /\ Goto(t, next) /\ UNCHANGED <<heap, error, misreported>>
            \/ FailsAfterEffect(t, x, ended)
      \/ /\ \E err \in {"ECANCELED", "EINVAL", "EIO", "ENOMEM"} : Fail(t, err, ended)
         /\ UNCHANGED <<queues, misreported>>
      \/ /\ ~MustWaitToPop(q) /\ PopError(q) # "0" /\ Goto(t, ended) /\ UNCHANGED <<held, heap, error>>
         /\ UNCHANGED <<queues, misreported>>
  <2> HIDE DEF q
  <2> QED BY DEF Pop, q
<1> HIDE DEF q, x, Goal
<1>9. Goal
  BY <1>2, <1>4, <1>5, <1>6, <1>7, <1>8
<1> QED BY <1>9 DEF Goal

-----------------------------------------------------------------------------
(* Threads move. *)

LEMMA GotoFacts ==
  ASSUME Control, NEW t \in Threads, NEW s, Goto(t, s)
  PROVE  pc'[t] = s /\ \A u \in Threads : u # t => pc'[u] = pc[u]
BY DEF Control, Goto

StepsOf(t) ==
  IF t = "producer" THEN ProducerSteps ELSE IF t = "output" THEN OutputSteps ELSE WorkerSteps

(* While another thread runs, main has not yet got to a successful end. *)
LEMMA Running ==
  ASSUME Control, Course, NEW t \in Others, pc[t] \notin {"off", "done"},
         pc["main"] \notin {"exited", "undefined"}
  PROVE  exit # "success"
<1>1. t = "producer" \/ t = "output" \/ t \in Workers
  BY DEF Others
<1> QED BY <1>1 DEF Course, MainPhase, Joined, JoinsSucceed, Verdict, NoError, Threads, Ending

(* What main knows is still so after a step of thread t. *)
LEMMA CourseStays ==
  ASSUME IInv, NEW t \in Others, pc[t] \notin {"off", "done"},
         pc["main"] \notin {"exited", "undefined"},
         NEW s \in StepsOf(t) \ {"off"}, Goto(t, s),
         QueuesKeep, ErrorsKeep(t), misreported' = misreported \/ error'[t] # "0",
         UNCHANGED mainVars
  PROVE  Control' /\ Course'
<1>1. /\ Control /\ Course /\ t \in Threads
      /\ started' = started /\ initialized' = initialized /\ exit' = exit
  BY ThreadNames DEF IInv, mainVars
<1>2. pc'[t] = s /\ \A u \in Threads : u # t => pc'[u] = pc[u]
  BY <1>1, GotoFacts
<1>3. pc'["main"] = pc["main"] /\ error'["main"] = error["main"]
  BY <1>2, ThreadNames DEF ErrorsKeep
<1>4. ErrorsRemain /\ (NoError' => NoError) /\ (error'[t] # "0" => ~NoError')
  BY <1>1, ErrorsKept
<1>5. \A u \in Others : pc'[u] = "off" <=> pc[u] = "off"
  BY <1>2, ThreadNames
<1>6. Control'
  <2>1. s \in Steps
    BY DEF StepsOf, Steps
  <2>2. pc' \in [Threads -> Steps]
    BY <1>1, <2>1 DEF Control, Goto
  <2>3. /\ pc'["producer"] \in ProducerSteps /\ pc'["output"] \in OutputSteps
        /\ \A w \in Workers : pc'[w] \in WorkerSteps
    BY <1>1, <1>2, ThreadNames DEF Control, StepsOf
  <2>4. \A w \in Workers : pc'[w] = "off" <=> w \notin started'
    BY <1>1, <1>5, ThreadNames DEF Control
  <2> QED BY <1>1, <1>3, <2>2, <2>3, <2>4 DEF Control, ErrorsKeep
<1>7. MainPhase'
  BY <1>1, <1>3, <1>5, ThreadNames DEF Course, MainPhase
<1>8. Joined'
  <2>1. t = "producer" \/ t = "output" \/ t \in Workers
    BY DEF Others
  <2>2. JoinsSucceed =>
          /\ pc["main"] \in {"join_workers", "close_result", "join_output"} \cup Cleaning => t # "producer"
          /\ pc["main"] \in {"close_result", "join_output"} \cup Cleaning => t \notin Workers
          /\ pc["main"] \in Cleaning => t # "output"
    BY <1>1 DEF Course, Joined, JoinsSucceed
  <2> QED BY <1>1, <1>2, <1>3, <2>1, <2>2, ThreadNames DEF Course, Joined, JoinsSucceed
<1>9. Existing'
  <2>1. JoinsSucceed' => QueuesOutliveThreads'
    BY <1>1, <1>2, <1>3, ThreadNames DEF Course, Existing, JoinsSucceed, QueuesOutliveThreads
  <2>2. \A n \in Queues \ initialized' : queues'[n].count = 0
    BY <1>1 DEF Course, Existing, JoinsSucceed, QueuesKeep
  <2> QED BY <1>1, <1>3, <2>1, <2>2 DEF Course, Existing, JoinsSucceed
<1>10. Verdict'
  BY <1>1, <1>3, <1>4, Running DEF Course, Verdict
<1> QED BY <1>6, <1>7, <1>8, <1>9, <1>10 DEF Course

(* Tasks do not come, and they go only with an error or at the end. *)
LEMMA TasksStay ==
  ASSUME TasksAccounted, UNCHANGED rows, Begun' = Begun, ErrorsRemain,
         Alive' \subseteq Alive, Alive' = Alive \/ ~NoError' \/ pc'["main"] \in Ending,
         pc["main"] \in Ending => pc'["main"] \in Ending
  PROVE  TasksAccounted'
<1>1. NoError' => NoError
  BY DEF NoError, ErrorsRemain
<1>2. rows' = rows /\ Written' = Written
  BY DEF Written
<1> QED BY <1>1, <1>2 DEF TasksAccounted

LEMMA FinishedStays ==
  ASSUME Finished, QueuesKeep, ErrorsRemain,
         pc["main"] \in Ending => pc'["main"] \in Ending,
         pc'["producer"] \in {"close", "done"} /\ error'["producer"] = "0" => task_index' = TaskCount,
         \A w \in Workers : pc'[w] = "done" /\ error'[w] = "0" => pc[w] = "done" \/ AtEnd("task_queue"),
         pc'["output"] \in {"close", "done"} /\ error'["output"] = "0" =>
           pc["output"] \in {"close", "done"} \/ AtEnd("result_queue")
  PROVE  Finished'
<1>1. \A n \in Queues : AtEnd(n) => AtEnd(n)'
  BY DEF AtEnd, QueuesKeep
<1>2. \A t \in Threads : error'[t] = "0" => error[t] = "0"
  BY DEF ErrorsRemain
<1>3. \A w \in Workers : w \in Threads
  BY ThreadNames
<1>4. ASSUME pc'["main"] \notin Ending, NEW w \in Workers, pc'[w] = "done", error'[w] = "0"
      PROVE  AtEnd("task_queue")'
  <2>1. AtEnd("task_queue")
    BY <1>2, <1>3, <1>4 DEF Finished
  <2> QED BY <2>1, <1>1, QueueNames
<1>5. ASSUME pc'["main"] \notin Ending, pc'["output"] \in {"close", "done"}, error'["output"] = "0"
      PROVE  AtEnd("result_queue")'
  <2>1. AtEnd("result_queue")
    BY <1>2, <1>5, ThreadNames DEF Finished
  <2> QED BY <2>1, <1>1, QueueNames
<1> QED BY <1>4, <1>5 DEF Finished

(* The output thread and its file rest. *)
LEMMA OutputRests ==
  ASSUME OutputState, UNCHANGED <<outputVars, pc["output"], error["output"]>>
  PROVE  OutputState'
BY DEF OutputState, outputVars

(* No thread moves: only the queues' waiting threads change. *)
LEMMA IdleKeeps ==
  ASSUME IInv, Rings', QueuesKeep, Owned', Alive' \subseteq Alive, Alive' = Alive \/ ~NoError', Idle,
         UNCHANGED <<task_index, outputVars, mainVars>>
  PROVE  IInv'
<1>1. /\ Control /\ Hands /\ TasksAccounted /\ OutputState /\ Finished /\ Course
      /\ pc' = pc /\ held' = held /\ error' = error /\ task_index' = task_index
      /\ misreported' = misreported /\ rows' = rows /\ exit' = exit
      /\ started' = started /\ initialized' = initialized
  BY DEF IInv, Work, Idle, callVars, outputVars, mainVars
<1>2. ErrorsRemain
  BY <1>1 DEF ErrorsRemain
<1>3. Control'
  BY <1>1 DEF Control
<1>4. Hands'
  BY <1>1 DEF Hands
<1>5. TasksAccounted'
  <2>1. Begun' = Begun
    BY <1>1 DEF Begun
  <2> QED BY <1>1, <1>2, <2>1, TasksStay
<1>6. OutputState'
  BY <1>1, OutputRests
<1>7. Finished'
  BY <1>1, <1>2, FinishedStays DEF Finished
<1>8. MainPhase' /\ Joined'
  BY <1>1 DEF Course, MainPhase, Joined, JoinsSucceed
<1>9. Existing'
  <2>1. QueuesOutliveThreads' <=> QueuesOutliveThreads
    BY <1>1 DEF QueuesOutliveThreads
  <2>2. \A n \in Queues \ initialized' : queues'[n].count = 0
    BY <1>1 DEF Course, Existing, JoinsSucceed, QueuesKeep
  <2> QED BY <1>1, <2>1, <2>2 DEF Course, Existing, JoinsSucceed
<1>10. Verdict'
  <2>1. (NoError' <=> NoError) /\ Written' = Written
    BY <1>1 DEF NoError, Written
  <2> QED BY <1>1, <2>1 DEF Course, Verdict
<1> QED BY <1>3, <1>4, <1>5, <1>6, <1>7, <1>8, <1>9, <1>10 DEF IInv, Work, Course

(* A call of thread t that ends without moving. *)
LEMMA IdleCall ==
  ASSUME IInv, NEW t \in Threads, Rings', QueuesKeep, ObjectsKept(t), Idle,
         UNCHANGED <<task_index, outputVars, mainVars>>
  PROVE  IInv'
<1>1. error'[t] # "0" => ~NoError'
  BY DEF NoError
<1> QED BY <1>1, IdleKeeps DEF ObjectsKept

-----------------------------------------------------------------------------
(* The steps of the producer. *)

(* With an error in the run, more tasks may count as begun. *)
LEMMA TasksLost ==
  ASSUME TasksAccounted, UNCHANGED rows, Begun \subseteq Begun', Alive' \subseteq Alive, ~NoError'
  PROVE  TasksAccounted'
<1>1. rows' = rows /\ Written' = Written
  BY DEF Written
<1> QED BY <1>1 DEF TasksAccounted

LEMMA ProducerKeeps ==
  ASSUME IInv, pc["producer"] \notin {"off", "done"}, pc["main"] \notin {"exited", "undefined"},
         NEW s \in ProducerSteps \ {"off"}, Goto("producer", s),
         Rings', QueuesKeep, Owned', TasksAccounted', ErrorsKeep("producer"),
         misreported' = misreported \/ error'["producer"] # "0",
         UNCHANGED <<outputVars, mainVars>>,
         held' \in [Threads -> Items \cup {NULL}],
         \A u \in Threads : u # "producer" => held'[u] = held[u],
         task_index' \in 0 .. TaskCount,
         IF s = "push"
         THEN task_index' < TaskCount /\ held'["producer"] = Task(task_index' + 1)
         ELSE held'["producer"] = NULL,
         s \in {"allocate", "push"} => error'["producer"] = "0",
         s \in {"close", "done"} /\ error'["producer"] = "0" => task_index' = TaskCount
  PROVE  IInv'
<1>1. Control /\ Hands /\ OutputState /\ Finished
  BY DEF IInv, Work
<1>2. pc'["producer"] = s /\ \A u \in Threads : u # "producer" => pc'[u] = pc[u]
  BY <1>1, GotoFacts, ThreadNames
<1>3. Control' /\ Course'
  <2>1. s \in StepsOf("producer") \ {"off"}
    BY DEF StepsOf
  <2>2. UNCHANGED mainVars
    OBVIOUS
  <2> QED BY <2>1, <2>2, CourseStays, ThreadNames
<1>4. Hands'
  BY <1>1, <1>2, ThreadNames DEF Hands, ProducerSteps
<1>5. error'["output"] = error["output"] /\ pc'["output"] = pc["output"] /\ pc'["main"] = pc["main"]
  BY <1>2, ThreadNames DEF ErrorsKeep
<1>6. OutputState'
  BY <1>1, <1>5, OutputRests
<1>7. Finished'
  <2>1. ErrorsRemain
    BY ErrorsKept, ThreadNames
  <2>2. \A w \in Workers : pc'[w] = pc[w]
    BY <1>2, ThreadNames
  <2> QED BY <1>1, <1>2, <1>5, <2>1, <2>2, FinishedStays
<1> QED BY <1>3, <1>4, <1>6, <1>7 DEF IInv, Work

LEMMA ProducerAllocateKeeps == ASSUME IInv, ProducerAllocate PROVE IInv' /\ RingsStep
<1> DEFINE t == "producer"
           k == task_index + 1
<1>1. /\ Rings /\ Hands /\ Owned /\ TasksAccounted /\ Control /\ t \in Threads
      /\ held \in [Threads -> Items \cup {NULL}] /\ error \in [Threads -> Errors]
      /\ task_index \in 0 .. TaskCount
  BY ThreadNames DEF IInv, Work, Hands, Control
<1>2. /\ pc[t] = "allocate" /\ pc["main"] \notin {"exited", "undefined"}
      /\ UNCHANGED <<queues, misreported, task_index, outputVars, mainVars>>
      /\ UNCHANGED rows /\ UNCHANGED <<outputVars, mainVars>>
  BY DEF ProducerAllocate, At, outputVars
<1>3. Rings' /\ RingsStep /\ QueuesKeep /\ SameItems
  BY <1>1, <1>2, RingsStay
<1>4. /\ held[t] = NULL /\ error[t] = "0" /\ Begun = 1 .. task_index
      /\ Alive \subseteq 1 .. task_index /\ Written \subseteq 1 .. task_index
  BY <1>1, <1>2 DEF Hands, Begun, TasksAccounted
<1>5. TaskCount \in Nat /\ task_index \in Nat /\ task_index <= TaskCount
  BY <1>1, TaskCountAssumption
<1>6. ASSUME task_index < TaskCount, Allocate(t, Task(k)), Goto(t, "push"), UNCHANGED error
      PROVE  IInv'
  <2>1. Task(k) \in Items /\ Task(k).id = k
    BY <1>5, <1>6 DEF Items, Task
  <2>2. /\ held' = [held EXCEPT ![t] = Task(k)] /\ heap' = (heap \ {held[t]}) \cup {Task(k)}
    BY <1>6 DEF Allocate
  <2>3. \A y \in Reached : y # held[t] => y.id # Task(k).id
    <3>1. \A i \in Alive : i # k
      BY <1>4, <1>5
    <3> QED BY <2>1, <3>1 DEF Alive
  <2>4. Owned' /\ Reached' = (Reached \ {held[t]}) \cup {Task(k)}
    <3> DEFINE x == Task(k)
    <3> HIDE DEF x
    <3>1. /\ x \in Items /\ held' = [held EXCEPT ![t] = x] /\ heap' = (heap \ {held[t]}) \cup {x}
          /\ UNCHANGED misreported /\ \A y \in Reached : y # held[t] => y.id # x.id
      BY <1>2, <2>1, <2>2, <2>3 DEF x
    <3>2. Owned' /\ Reached' = (Reached \ {held[t]}) \cup {x}
      BY <1>1, <1>3, <3>1, HandReplaces
    <3> QED BY <3>2 DEF x
  <2>5. Alive' = Alive \cup {k}
    <3>1. Reached' = Reached \cup {Task(k)}
      BY <1>1, <1>4, <2>4, ReachedFacts
    <3>2. \A i \in Alive' : i \in Alive \cup {k}
      BY <2>1, <3>1 DEF Alive
    <3>3. \A i \in Alive \cup {k} : i \in Alive'
      BY <2>1, <3>1 DEF Alive
    <3> QED BY <3>2, <3>3
  <2>6. pc'[t] = "push" /\ pc'["main"] = pc["main"]
    BY <1>1, <1>6, GotoFacts, ThreadNames
  <2>7. TasksAccounted'
    <3>1. Begun' = Begun \cup {k} /\ k \notin Written
      <4>1. Begun' = 1 .. task_index + 1
        BY <1>2, <2>6 DEF Begun
      <4>2. 1 .. task_index + 1 = (1 .. task_index) \cup {task_index + 1}
        BY <1>5
      <4>3. task_index + 1 \notin 1 .. task_index
        BY <1>5
      <4> QED BY <1>4, <4>1, <4>2, <4>3
    <3>2. rows' = rows /\ Written' = Written /\ (NoError' <=> NoError)
      BY <1>2, <1>6 DEF Written, NoError
    <3> HIDE DEF k
    <3> QED BY <1>1, <2>5, <2>6, <3>1, <3>2 DEF TasksAccounted
  <2>8. /\ held'[t] = Task(task_index' + 1) /\ task_index' < TaskCount /\ error'[t] = "0"
        /\ task_index' \in 0 .. TaskCount
        /\ held' \in [Threads -> Items \cup {NULL}] /\ \A u \in Threads : u # t => held'[u] = held[u]
        /\ misreported' = misreported
    BY <1>1, <1>2, <1>4, <1>6, <2>1, <2>2
  <2>9. "push" \in ProducerSteps \ {"off"} /\ ErrorsKeep(t)
    BY <1>1, <1>6, NoReport DEF ProducerSteps
  <2> HIDE DEF k
  <2> QED BY <1>2, <1>3, <1>6, <2>4, <2>7, <2>8, <2>9, ProducerKeeps
<1>7. ASSUME Fail(t, "ENOMEM", "close") PROVE IInv'
  <2>1. ObjectsKept(t) /\ GivesUp(t, "close") /\ Alive' = Alive
    BY <1>1, <1>2, <1>3, <1>4, <1>7, FailEffect
  <2>2. ErrorsKeep(t) /\ error'[t] # "0" /\ ~NoError'
    BY <1>1, <2>1, GivesUpReports, ErrorsKept
  <2>3. /\ Goto(t, "close") /\ held' = [held EXCEPT ![t] = NULL] /\ Owned'
    BY <2>1 DEF GivesUp, ObjectsKept
  <2>4. TasksAccounted'
    <3>1. Begun' = 1 .. task_index + 1
      BY <1>2, <2>2 DEF Begun
    <3>2. 1 .. task_index \subseteq 1 .. task_index + 1
      BY <1>5
    <3> QED BY <1>1, <1>2, <1>4, <2>1, <2>2, <3>1, <3>2, TasksLost
  <2>5. /\ held'[t] = NULL /\ task_index' \in 0 .. TaskCount
        /\ held' \in [Threads -> Items \cup {NULL}] /\ \A u \in Threads : u # t => held'[u] = held[u]
    BY <1>1, <1>2, <2>3
  <2>6. "close" \in ProducerSteps \ {"off"}
    BY DEF ProducerSteps
  <2> QED BY <1>2, <1>3, <2>2, <2>3, <2>4, <2>5, <2>6, ProducerKeeps
<1>8. ASSUME task_index = TaskCount, Goto(t, "close"), UNCHANGED <<held, heap, error>> PROVE IInv'
  <2>1. Owned' /\ Alive' = Alive
    BY <1>1, <1>2, <1>3, <1>8, ObjectsStay, AliveIs
  <2>2. pc'[t] = "close" /\ pc'["main"] = pc["main"] /\ ErrorsKeep(t)
    BY <1>1, <1>8, GotoFacts, NoReport, ThreadNames
  <2>3. Begun' = Begun
    BY <1>2, <1>8, <2>2 DEF Begun
  <2>4. TasksAccounted'
    BY <1>1, <1>2, <2>1, <2>2, <2>3, ErrorsKept, TasksStay
  <2>5. /\ held'[t] = NULL /\ held' \in [Threads -> Items \cup {NULL}]
        /\ \A u \in Threads : u # t => held'[u] = held[u]
        /\ task_index' \in 0 .. TaskCount /\ task_index' = TaskCount
    BY <1>1, <1>2, <1>4, <1>8
  <2>6. "close" \in ProducerSteps \ {"off"}
    BY DEF ProducerSteps
  <2> QED BY <1>2, <1>3, <1>8, <2>1, <2>2, <2>4, <2>5, <2>6, ProducerKeeps
<1>9. \/ task_index < TaskCount /\ Allocate(t, Task(k)) /\ Goto(t, "push") /\ UNCHANGED error
      \/ Fail(t, "ENOMEM", "close")
      \/ task_index = TaskCount /\ Goto(t, "close") /\ UNCHANGED <<held, heap, error>>
  BY DEF ProducerAllocate
<1> QED BY <1>3, <1>6, <1>7, <1>8, <1>9

LEMMA ProducerPushKeeps == ASSUME IInv, ProducerPush PROVE IInv' /\ RingsStep
<1> DEFINE t == "producer"
<1>1. /\ Rings /\ Hands /\ Owned /\ TasksAccounted /\ Control /\ t \in Threads
      /\ held \in [Threads -> Items \cup {NULL}] /\ error \in [Threads -> Errors]
      /\ task_index \in 0 .. TaskCount
  BY ThreadNames DEF IInv, Work, Hands, Control
<1>2. /\ pc[t] = "push" /\ pc["main"] \notin {"exited", "undefined"}
      /\ Push(t, "task_queue", "allocate", "close")
      /\ task_index' = IF pc'[t] = "allocate" THEN task_index + 1 ELSE task_index
      /\ UNCHANGED <<outputVars, mainVars>> /\ rows' = rows
  BY DEF ProducerPush, At, outputVars
<1>3. /\ task_index < TaskCount /\ held[t] = Task(task_index + 1) /\ error[t] = "0"
      /\ Begun = 1 .. task_index + 1
  BY <1>1, <1>2 DEF Hands, Begun
<1>4. held[t] # NULL
  <2>1. Task(task_index + 1) \in Items
    BY <1>1, <1>3, TaskCountAssumption DEF Items
  <2> QED BY <1>3, <2>1, NullIsNoItem
<1>5. /\ Rings' /\ RingsStep /\ QueuesKeep /\ ObjectsKept(t)
      /\ Idle \/ HandsOver(t, "allocate") \/ GivesUp(t, "close")
  BY <1>1, <1>2, <1>4, PushEffect, QueueNames
<1>6. Owned' /\ Alive' \subseteq Alive /\ (Alive' = Alive \/ error'[t] # "0")
      /\ (misreported' = misreported \/ error'[t] # "0")
  BY <1>5 DEF ObjectsKept
<1>7. TaskCount \in Nat /\ task_index \in Nat
  BY <1>1, TaskCountAssumption
<1>8. ASSUME Idle PROVE IInv'
  <2>1. pc'[t] = "push"
    BY <1>2, <1>8 DEF Idle
  <2>2. UNCHANGED <<task_index, outputVars, mainVars>>
    BY <1>2, <2>1
  <2> QED BY <1>1, <1>5, <1>8, <2>2, IdleCall
<1>9. ASSUME HandsOver(t, "allocate") PROVE IInv'
  <2>1. Goto(t, "allocate") /\ held' = [held EXCEPT ![t] = NULL] /\ error' = error
    BY <1>9 DEF HandsOver
  <2>2. pc'[t] = "allocate" /\ pc'["main"] = pc["main"] /\ ErrorsKeep(t)
    BY <1>1, <2>1, GotoFacts, NoReport, ThreadNames
  <2>3. task_index' = task_index + 1 /\ Begun' = Begun
    BY <1>2, <1>3, <2>1, <2>2 DEF Begun
  <2>4. TasksAccounted'
    BY <1>1, <1>2, <1>3, <1>6, <2>1, <2>2, <2>3, ErrorsKept, TasksStay
  <2>5. /\ held'[t] = NULL /\ held' \in [Threads -> Items \cup {NULL}]
        /\ \A u \in Threads : u # t => held'[u] = held[u]
        /\ task_index' \in 0 .. TaskCount /\ error'[t] = "0"
    BY <1>1, <1>3, <1>7, <2>1, <2>3
  <2>6. "allocate" \in ProducerSteps \ {"off"}
    BY DEF ProducerSteps
  <2> QED BY <1>2, <1>5, <1>6, <2>1, <2>2, <2>4, <2>5, <2>6, ProducerKeeps
<1>10. ASSUME GivesUp(t, "close") PROVE IInv'
  <2>1. ErrorsKeep(t) /\ error'[t] # "0" /\ ~NoError'
    BY <1>1, <1>10, GivesUpReports, ErrorsKept
  <2>2. Goto(t, "close") /\ held' = [held EXCEPT ![t] = NULL]
    BY <1>10 DEF GivesUp
  <2>3. pc'[t] = "close"
    BY <1>1, <2>2, GotoFacts
  <2>4. task_index' = task_index /\ Begun' = Begun
    BY <1>2, <1>3, <2>1, <2>3 DEF Begun
  <2>5. TasksAccounted'
    BY <1>1, <1>2, <1>6, <2>1, <2>4, TasksLost
  <2>6. /\ held'[t] = NULL /\ task_index' \in 0 .. TaskCount
        /\ held' \in [Threads -> Items \cup {NULL}] /\ \A u \in Threads : u # t => held'[u] = held[u]
    BY <1>1, <2>2, <2>4
  <2>7. "close" \in ProducerSteps \ {"off"}
    BY DEF ProducerSteps
  <2> QED BY <1>2, <1>5, <1>6, <2>1, <2>2, <2>5, <2>6, <2>7, ProducerKeeps
<1> QED BY <1>5, <1>8, <1>9, <1>10

LEMMA ProducerCloseKeeps == ASSUME IInv, ProducerClose PROVE IInv' /\ RingsStep
<1> DEFINE t == "producer"
<1>1. /\ Rings /\ Hands /\ Owned /\ TasksAccounted /\ Control /\ Finished /\ t \in Threads
      /\ held \in [Threads -> Items \cup {NULL}] /\ error \in [Threads -> Errors]
      /\ task_index \in 0 .. TaskCount
  BY ThreadNames DEF IInv, Work, Hands, Control
<1>2. /\ pc[t] = "close" /\ pc["main"] \notin {"exited", "undefined"}
      /\ CloseQueue(t, "task_queue") /\ Goto(t, "done")
      /\ UNCHANGED <<outputVars, mainVars>> /\ rows' = rows /\ UNCHANGED <<held, heap, misreported>>
      /\ task_index' = task_index
  BY DEF ProducerClose, At, outputVars
<1>3. /\ Rings' /\ RingsStep /\ QueuesKeep /\ SameItems
      /\ UNCHANGED error \/ Report(t, "EINVAL")
  BY <1>1, <1>2, CloseEffect, QueueNames
<1>4. Owned' /\ Alive' = Alive
  BY <1>1, <1>2, <1>3, ObjectsStay, AliveIs
<1>5. pc'[t] = "done" /\ pc'["main"] = pc["main"]
  BY <1>1, <1>2, GotoFacts, ThreadNames
<1>6. held[t] = NULL /\ (error[t] = "0" => task_index = TaskCount)
  BY <1>1, <1>2 DEF Hands, Finished
<1>7. ErrorsKeep(t) /\ TasksAccounted'
  <2>1. CASE UNCHANGED error
    <3>1. ErrorsKeep(t) /\ Begun' = Begun
      BY <1>1, <1>2, <1>5, <2>1, NoReport DEF Begun
    <3> QED BY <1>1, <1>2, <1>4, <1>5, <3>1, ErrorsKept, TasksStay
  <2>2. CASE Report(t, "EINVAL")
    <3>1. ErrorsKeep(t) /\ error'[t] # "0" /\ ~NoError'
      <4>1. "EINVAL" \in Errors \ {"0"}
        BY DEF Errors
      <4> QED BY <1>1, <2>2, <4>1, ReportFacts, ErrorsKept
    <3>2. Begun \subseteq Begun'
      <4>1. Begun' = 1 .. task_index + 1
        BY <1>2, <3>1 DEF Begun
      <4>2. Begun = 1 .. task_index \/ Begun = 1 .. task_index + 1
        BY DEF Begun
      <4>3. 1 .. task_index \subseteq 1 .. task_index + 1
        BY <1>1, TaskCountAssumption
      <4> QED BY <4>1, <4>2, <4>3
    <3> QED BY <1>1, <1>2, <1>4, <3>1, <3>2, TasksLost
  <2> QED BY <1>3, <2>1, <2>2
<1>8. error'[t] = "0" => task_index' = TaskCount
  BY <1>2, <1>6, <1>7 DEF ErrorsKeep
<1>9. /\ held'[t] = NULL /\ task_index' \in 0 .. TaskCount
      /\ held' \in [Threads -> Items \cup {NULL}] /\ \A u \in Threads : u # t => held'[u] = held[u]
  BY <1>1, <1>2, <1>6
<1>10. "done" \in ProducerSteps \ {"off"}
  BY DEF ProducerSteps
<1> QED BY <1>2, <1>3, <1>4, <1>7, <1>8, <1>9, <1>10, ProducerKeeps

-----------------------------------------------------------------------------
(* The steps of a worker. *)

(* What begins a task does not change with another thread. *)
LEMMA BegunStays ==
  ASSUME Control, NEW t \in Threads, t # "producer", NEW s, Goto(t, s), ErrorsKeep(t),
         UNCHANGED task_index
  PROVE  Begun' = Begun
<1>1. pc'["producer"] = pc["producer"] /\ error'["producer"] = error["producer"]
  BY GotoFacts, ThreadNames DEF ErrorsKeep
<1> QED BY <1>1 DEF Begun

LEMMA WorkerKeeps ==
  ASSUME IInv, NEW w \in Workers, pc[w] \notin {"off", "done"},
         pc["main"] \notin {"exited", "undefined"},
         NEW s \in WorkerSteps \ {"off"}, Goto(w, s),
         Rings', QueuesKeep, ObjectsKept(w), ErrorsKeep(w),
         UNCHANGED <<task_index, outputVars, mainVars>>,
         held' \in [Threads -> Items \cup {NULL}],
         \A u \in Threads : u # w => held'[u] = held[u],
         held'[w] # NULL <=> s \in {"compute", "push"},
         s = "done" /\ error'[w] = "0" => AtEnd("task_queue")
  PROVE  IInv'
<1>1. /\ Control /\ Hands /\ OutputState /\ Finished /\ TasksAccounted
      /\ rows' = rows /\ UNCHANGED outputVars /\ UNCHANGED mainVars /\ task_index' = task_index
  BY DEF IInv, Work, outputVars
<1>2. pc'[w] = s /\ \A u \in Threads : u # w => pc'[u] = pc[u]
  BY <1>1, GotoFacts, ThreadNames
<1>3. /\ Owned' /\ Alive' \subseteq Alive /\ (Alive' = Alive \/ error'[w] # "0")
      /\ misreported' = misreported \/ error'[w] # "0"
  BY DEF ObjectsKept
<1>4. w \in Threads /\ w \in Others /\ w # "main" /\ w # "producer" /\ w # "output"
  BY ThreadNames
<1>5. ErrorsRemain /\ (error'[w] # "0" => ~NoError')
  BY <1>4, ErrorsKept
<1>6. Control' /\ Course'
  <2>1. s \in StepsOf(w) \ {"off"}
    BY <1>4 DEF StepsOf
  <2> QED BY <1>1, <1>3, <1>4, <2>1, CourseStays
<1>7. /\ error'["output"] = error["output"] /\ pc'["output"] = pc["output"]
      /\ error'["producer"] = error["producer"] /\ pc'["producer"] = pc["producer"]
      /\ held'["producer"] = held["producer"] /\ held'["output"] = held["output"]
      /\ held'["main"] = held["main"] /\ pc'["main"] = pc["main"]
  BY <1>2, <1>4, ThreadNames DEF ErrorsKeep
<1>8. Hands'
  <2>1. \A v \in Workers : held'[v] # NULL <=> pc'[v] \in {"compute", "push"}
    BY <1>1, <1>2, ThreadNames DEF Hands
  <2> QED BY <1>1, <1>7, <2>1 DEF Hands
<1>9. OutputState'
  BY <1>1, <1>7, OutputRests
<1>10. TasksAccounted'
  <2>1. Begun' = Begun
    BY <1>1, <1>4, BegunStays
  <2> QED BY <1>1, <1>3, <1>5, <1>7, <2>1, TasksStay
<1>11. Finished'
  <2>1. \A v \in Workers : pc'[v] = "done" /\ error'[v] = "0" => pc[v] = "done" \/ AtEnd("task_queue")
    BY <1>2, ThreadNames
  <2> QED BY <1>1, <1>5, <1>7, <2>1, FinishedStays DEF Finished
<1> QED BY <1>3, <1>6, <1>8, <1>9, <1>10, <1>11 DEF IInv, Work

LEMMA WorkerPopKeeps == ASSUME IInv, NEW w \in Workers, WorkerPop(w) PROVE IInv' /\ RingsStep
<1>1. /\ Rings /\ Hands /\ Owned /\ Control /\ w \in Threads
      /\ held \in [Threads -> Items \cup {NULL}] /\ error \in [Threads -> Errors]
  BY ThreadNames DEF IInv, Work, Hands, Control
<1>2. /\ pc[w] = "pop" /\ pc["main"] \notin {"exited", "undefined"}
      /\ Pop(w, "task_queue", "compute", "done")
      /\ UNCHANGED <<task_index, outputVars, mainVars>>
  BY DEF WorkerPop, At
<1>3. held[w] = NULL
  BY <1>1, <1>2 DEF Hands
<1>4. /\ Rings' /\ RingsStep /\ QueuesKeep /\ ObjectsKept(w)
      /\ \/ Idle \/ TakesOver(w, "compute")
         \/ SeesEnd(w, "task_queue", "done") \/ GivesUp(w, "done")
  BY <1>1, <1>2, <1>3, PopEffect, QueueNames
<1>5. \A s \in {"compute", "done"} : s \in WorkerSteps \ {"off"}
  BY DEF WorkerSteps
<1>6. ASSUME Idle PROVE IInv'
  BY <1>1, <1>2, <1>4, <1>6, IdleCall
<1>7. ASSUME TakesOver(w, "compute") PROVE IInv'
  <2>1. PICK x \in Items : held' = [held EXCEPT ![w] = x]
    BY <1>7 DEF TakesOver
  <2>2. Goto(w, "compute") /\ ErrorsKeep(w)
    BY <1>1, <1>7, NoReport DEF TakesOver
  <2>3. /\ held'[w] # NULL /\ held' \in [Threads -> Items \cup {NULL}]
        /\ \A u \in Threads : u # w => held'[u] = held[u]
    BY <1>1, <2>1, NullIsNoItem
  <2> QED BY <1>2, <1>4, <1>5, <2>2, <2>3, WorkerKeeps
<1>8. ASSUME SeesEnd(w, "task_queue", "done") PROVE IInv'
  <2>1. AtEnd("task_queue") /\ Goto(w, "done") /\ held' = held /\ ErrorsKeep(w)
    BY <1>1, <1>8, NoReport DEF SeesEnd
  <2> QED BY <1>1, <1>2, <1>3, <1>4, <1>5, <2>1, WorkerKeeps
<1>9. ASSUME GivesUp(w, "done") PROVE IInv'
  <2>1. /\ ErrorsKeep(w) /\ error'[w] # "0" /\ Goto(w, "done") /\ held' = [held EXCEPT ![w] = NULL]
    BY <1>1, <1>9, GivesUpReports DEF GivesUp
  <2>2. /\ held'[w] = NULL /\ held' \in [Threads -> Items \cup {NULL}]
        /\ \A u \in Threads : u # w => held'[u] = held[u]
    BY <1>1, <2>1
  <2> QED BY <1>2, <1>4, <1>5, <2>1, <2>2, WorkerKeeps
<1> QED BY <1>4, <1>6, <1>7, <1>8, <1>9

LEMMA WorkerComputeKeeps == ASSUME IInv, NEW w \in Workers, WorkerCompute(w) PROVE IInv' /\ RingsStep
<1>1. /\ Rings /\ Hands /\ Owned /\ Control /\ w \in Threads
      /\ held \in [Threads -> Items \cup {NULL}] /\ error \in [Threads -> Errors]
  BY ThreadNames DEF IInv, Work, Hands, Control
<1>2. /\ pc[w] = "compute" /\ pc["main"] \notin {"exited", "undefined"}
      /\ UNCHANGED <<queues, misreported, task_index, outputVars, mainVars>>
      /\ UNCHANGED <<task_index, outputVars, mainVars>>
      /\ \/ Allocate(w, Result(held[w].id)) /\ Goto(w, "push") /\ UNCHANGED error
         \/ Fail(w, "ENOMEM", "done")
  BY DEF WorkerCompute, At
<1>3. Rings' /\ RingsStep /\ QueuesKeep /\ SameItems
  BY <1>1, <1>2, RingsStay
<1>4. \A s \in {"push", "done"} : s \in WorkerSteps \ {"off"}
  BY DEF WorkerSteps
<1>5. ASSUME Allocate(w, Result(held[w].id)), Goto(w, "push"), UNCHANGED error PROVE IInv'
  <2> DEFINE x == held[w]
             y == Result(x.id)
  <2>1. x \in Items /\ x # NULL /\ x.id \in 1 .. TaskCount
    BY <1>1, <1>2, NullIsNoItem DEF Hands
  <2>2. y \in Items /\ y.id = x.id /\ y # NULL
    <3> HIDE DEF x
    <3>1. y \in Items /\ y.id = x.id
      BY <2>1 DEF Items, Result
    <3> QED BY <3>1, NullIsNoItem
  <2>3. held' = [held EXCEPT ![w] = y] /\ heap' = (heap \ {held[w]}) \cup {y}
    BY <1>5 DEF Allocate
  <2>4. x \in Reached /\ \A z \in Reached : z # held[w] => z.id # y.id
    <3>1. x \in Reached /\ \A z \in Reached : z.id = x.id => z = x
      BY <1>1, <2>1, ReachedFacts
    <3> HIDE DEF x, y
    <3> QED BY <2>2, <3>1 DEF x
  <2> HIDE DEF y
  <2>5. Owned' /\ Reached' = (Reached \ {held[w]}) \cup {y}
    BY <1>1, <1>2, <1>3, <2>2, <2>3, <2>4, HandReplaces
  <2>6. Alive' = Alive
    <3> HIDE DEF x
    <3>1. Reached' = (Reached \ {x}) \cup {y}
      BY <2>5 DEF x
    <3>2. \A i \in Alive' : i \in Alive
      BY <2>2, <2>4, <3>1 DEF Alive
    <3>3. ASSUME NEW i \in Alive PROVE i \in Alive'
      <4>1. PICK z \in Reached : i = z.id
        BY DEF Alive
      <4>2. CASE z = x
        <5>1. y \in Reached' /\ i = y.id
          BY <2>2, <3>1, <4>1, <4>2
        <5> QED BY <5>1 DEF Alive
      <4>3. CASE z # x
        <5>1. z \in Reached'
          BY <3>1, <4>1, <4>3
        <5> QED BY <4>1, <5>1 DEF Alive
      <4> QED BY <4>2, <4>3
    <3> QED BY <3>2, <3>3
  <2>7. ObjectsKept(w) /\ ErrorsKeep(w)
    BY <1>1, <1>2, <1>5, <2>5, <2>6, NoReport DEF ObjectsKept
  <2>8. /\ held'[w] # NULL /\ held' \in [Threads -> Items \cup {NULL}]
        /\ \A u \in Threads : u # w => held'[u] = held[u]
    BY <1>1, <2>2, <2>3
  <2> QED BY <1>2, <1>3, <1>4, <1>5, <2>7, <2>8, WorkerKeeps
<1>6. ASSUME Fail(w, "ENOMEM", "done") PROVE IInv'
  <2>1. ObjectsKept(w) /\ GivesUp(w, "done")
    BY <1>1, <1>2, <1>3, <1>6, FailEffect
  <2>2. /\ ErrorsKeep(w) /\ error'[w] # "0" /\ Goto(w, "done") /\ held' = [held EXCEPT ![w] = NULL]
    BY <1>1, <2>1, GivesUpReports DEF GivesUp
  <2>3. /\ held'[w] = NULL /\ held' \in [Threads -> Items \cup {NULL}]
        /\ \A u \in Threads : u # w => held'[u] = held[u]
    BY <1>1, <2>2
  <2> QED BY <1>2, <1>3, <1>4, <2>1, <2>2, <2>3, WorkerKeeps
<1> QED BY <1>2, <1>3, <1>5, <1>6

LEMMA WorkerPushKeeps == ASSUME IInv, NEW w \in Workers, WorkerPush(w) PROVE IInv' /\ RingsStep
<1>1. /\ Rings /\ Hands /\ Owned /\ Control /\ w \in Threads
      /\ held \in [Threads -> Items \cup {NULL}] /\ error \in [Threads -> Errors]
  BY ThreadNames DEF IInv, Work, Hands, Control
<1>2. /\ pc[w] = "push" /\ pc["main"] \notin {"exited", "undefined"}
      /\ Push(w, "result_queue", "pop", "done")
      /\ UNCHANGED <<task_index, outputVars, mainVars>>
  BY DEF WorkerPush, At
<1>3. held[w] # NULL
  BY <1>1, <1>2 DEF Hands
<1>4. /\ Rings' /\ RingsStep /\ QueuesKeep /\ ObjectsKept(w)
      /\ Idle \/ HandsOver(w, "pop") \/ GivesUp(w, "done")
  BY <1>1, <1>2, <1>3, PushEffect, QueueNames
<1>5. \A s \in {"pop", "done"} : s \in WorkerSteps \ {"off"}
  BY DEF WorkerSteps
<1>6. ASSUME Idle PROVE IInv'
  BY <1>1, <1>2, <1>4, <1>6, IdleCall
<1>7. ASSUME HandsOver(w, "pop") PROVE IInv'
  <2>1. Goto(w, "pop") /\ ErrorsKeep(w) /\ held' = [held EXCEPT ![w] = NULL]
    BY <1>1, <1>7, NoReport DEF HandsOver
  <2>2. /\ held'[w] = NULL /\ held' \in [Threads -> Items \cup {NULL}]
        /\ \A u \in Threads : u # w => held'[u] = held[u]
    BY <1>1, <2>1
  <2> QED BY <1>2, <1>4, <1>5, <2>1, <2>2, WorkerKeeps
<1>8. ASSUME GivesUp(w, "done") PROVE IInv'
  <2>1. /\ ErrorsKeep(w) /\ error'[w] # "0" /\ Goto(w, "done") /\ held' = [held EXCEPT ![w] = NULL]
    BY <1>1, <1>8, GivesUpReports DEF GivesUp
  <2>2. /\ held'[w] = NULL /\ held' \in [Threads -> Items \cup {NULL}]
        /\ \A u \in Threads : u # w => held'[u] = held[u]
    BY <1>1, <2>1
  <2> QED BY <1>2, <1>4, <1>5, <2>1, <2>2, WorkerKeeps
<1> QED BY <1>4, <1>6, <1>7, <1>8

-----------------------------------------------------------------------------
(* The steps of the output thread. *)

LEMMA OutputKeeps ==
  ASSUME IInv, pc["output"] \notin {"off", "done"}, pc["main"] \notin {"exited", "undefined"},
         NEW s \in OutputSteps \ {"off"}, Goto("output", s),
         Rings', QueuesKeep, Owned', TasksAccounted', OutputState', ErrorsKeep("output"),
         misreported' = misreported \/ error'["output"] # "0",
         UNCHANGED <<task_index, mainVars>>,
         held' \in [Threads -> Items \cup {NULL}],
         \A u \in Threads : u # "output" => held'[u] = held[u],
         held'["output"] # NULL <=> s = "write",
         s \in {"close", "done"} /\ error'["output"] = "0" =>
           pc["output"] \in {"close", "done"} \/ AtEnd("result_queue")
  PROVE  IInv'
<1>1. Control /\ Hands /\ Finished /\ UNCHANGED mainVars /\ task_index' = task_index
  BY DEF IInv, Work
<1>2. pc'["output"] = s /\ \A u \in Threads : u # "output" => pc'[u] = pc[u]
  BY <1>1, GotoFacts, ThreadNames
<1>3. Control' /\ Course'
  <2>1. s \in StepsOf("output") \ {"off"}
    BY ThreadNames DEF StepsOf
  <2> QED BY <1>1, <2>1, CourseStays, ThreadNames
<1>4. /\ error'["producer"] = error["producer"] /\ pc'["producer"] = pc["producer"]
      /\ held'["producer"] = held["producer"] /\ held'["main"] = held["main"]
      /\ pc'["main"] = pc["main"] /\ \A w \in Workers : pc'[w] = pc[w] /\ held'[w] = held[w]
  BY <1>2, ThreadNames DEF ErrorsKeep
<1>5. Hands'
  BY <1>1, <1>2, <1>4 DEF Hands
<1>6. Finished'
  <2>1. ErrorsRemain
    BY ErrorsKept, ThreadNames
  <2> QED BY <1>1, <1>2, <1>4, <2>1, FinishedStays DEF Finished
<1> QED BY <1>3, <1>5, <1>6 DEF IInv, Work

LEMMA OutputOpenKeeps == ASSUME IInv, OutputOpen PROVE IInv' /\ RingsStep
<1> DEFINE t == "output"
<1>1. /\ Rings /\ Hands /\ Owned /\ TasksAccounted /\ OutputState /\ Control
      /\ t \in Threads /\ t # "producer" /\ t # "main"
      /\ held \in [Threads -> Items \cup {NULL}] /\ error \in [Threads -> Errors]
  BY ThreadNames DEF IInv, Work, Hands, Control
<1>2. /\ pc[t] = "open" /\ pc["main"] \notin {"exited", "undefined"}
      /\ UNCHANGED <<queues, misreported, task_index, rows, received, mainVars>>
      /\ UNCHANGED <<task_index, mainVars>>
      /\ \/ output_file' = TRUE /\ Goto(t, "pop") /\ UNCHANGED <<held, heap, error>>
         \/ output_file' = FALSE /\ Fail(t, "EIO", "pop")
  BY DEF OutputOpen, At
<1>3. Rings' /\ RingsStep /\ QueuesKeep /\ SameItems
  BY <1>1, <1>2, RingsStay
<1>4. held[t] = NULL /\ "pop" \in OutputSteps \ {"off"}
  BY <1>1, <1>2 DEF Hands, OutputSteps
<1>5. ASSUME output_file' = TRUE, Goto(t, "pop"), UNCHANGED <<held, heap, error>> PROVE IInv'
  <2>1. Owned' /\ Alive' = Alive /\ ErrorsKeep(t)
    BY <1>1, <1>2, <1>3, <1>5, ObjectsStay, AliveIs, NoReport
  <2>2. pc'[t] = "pop" /\ pc'["main"] = pc["main"] /\ Begun' = Begun
    BY <1>1, <1>2, <1>5, <2>1, GotoFacts, BegunStays, ThreadNames
  <2>3. TasksAccounted'
    BY <1>1, <1>2, <2>1, <2>2, ErrorsKept, TasksStay
  <2>4. OutputState'
    BY <1>1, <1>2, <1>5, <2>2 DEF OutputState
  <2> QED BY <1>1, <1>2, <1>3, <1>4, <1>5, <2>1, <2>3, <2>4, OutputKeeps
<1>6. ASSUME output_file' = FALSE, Fail(t, "EIO", "pop") PROVE IInv'
  <2>1. ObjectsKept(t) /\ GivesUp(t, "pop") /\ Alive' = Alive
    BY <1>1, <1>2, <1>3, <1>4, <1>6, FailEffect
  <2>2. /\ ErrorsKeep(t) /\ error'[t] # "0" /\ ~NoError' /\ Goto(t, "pop")
        /\ held' = [held EXCEPT ![t] = NULL] /\ Owned'
    BY <1>1, <2>1, GivesUpReports, ErrorsKept DEF GivesUp, ObjectsKept
  <2>3. pc'[t] = "pop" /\ pc'["main"] = pc["main"] /\ Begun' = Begun
    BY <1>1, <1>2, <2>2, GotoFacts, BegunStays, ThreadNames
  <2>4. TasksAccounted'
    BY <1>1, <1>2, <2>1, <2>2, <2>3, TasksLost
  <2>5. OutputState'
    BY <1>1, <1>2, <1>6, <2>2, <2>3 DEF OutputState
  <2>6. /\ held'[t] = NULL /\ held' \in [Threads -> Items \cup {NULL}]
        /\ \A u \in Threads : u # t => held'[u] = held[u]
    BY <1>1, <2>2
  <2> QED BY <1>2, <1>3, <1>4, <2>2, <2>4, <2>5, <2>6, OutputKeeps
<1> QED BY <1>2, <1>3, <1>5, <1>6

LEMMA OutputPopKeeps == ASSUME IInv, OutputPop PROVE IInv' /\ RingsStep
<1> DEFINE t == "output"
<1>1. /\ Rings /\ Hands /\ Owned /\ TasksAccounted /\ OutputState /\ Control
      /\ t \in Threads /\ t # "producer" /\ t # "main"
      /\ held \in [Threads -> Items \cup {NULL}] /\ error \in [Threads -> Errors]
  BY ThreadNames DEF IInv, Work, Hands, Control
<1>2. /\ pc[t] = "pop" /\ pc["main"] \notin {"exited", "undefined"}
      /\ Pop(t, "result_queue", "write", "close")
      /\ received' = IF pc'[t] = "write" THEN received + 1 ELSE received
      /\ UNCHANGED <<task_index, mainVars>> /\ output_file' = output_file /\ rows' = rows
  BY DEF OutputPop, At
<1>3. held[t] = NULL
  BY <1>1, <1>2 DEF Hands
<1>4. /\ Rings' /\ RingsStep /\ QueuesKeep /\ ObjectsKept(t)
      /\ \/ Idle \/ TakesOver(t, "write")
         \/ SeesEnd(t, "result_queue", "close") \/ GivesUp(t, "close")
  BY <1>1, <1>2, <1>3, PopEffect, QueueNames
<1>5. /\ Owned' /\ Alive' \subseteq Alive /\ (Alive' = Alive \/ error'[t] # "0")
      /\ misreported' = misreported \/ error'[t] # "0"
  BY <1>4 DEF ObjectsKept
<1>6. \A s \in {"write", "close"} : s \in OutputSteps \ {"off"}
  BY DEF OutputSteps
<1>7. ASSUME Idle PROVE IInv'
  <2>1. pc'[t] = "pop"
    BY <1>2, <1>7 DEF Idle
  <2>2. UNCHANGED <<task_index, outputVars, mainVars>>
    BY <1>2, <2>1 DEF outputVars
  <2> QED BY <1>1, <1>4, <1>7, <2>2, IdleCall
(* In the other cases the thread goes to a step s. *)
<1>8. ASSUME NEW s \in {"write", "close"}, Goto(t, s), ErrorsKeep(t),
             s = "close" /\ error'[t] = "0" => AtEnd("result_queue"),
             held' \in [Threads -> Items \cup {NULL}],
             \A u \in Threads : u # t => held'[u] = held[u],
             held'[t] # NULL <=> s = "write"
      PROVE  IInv'
  <2>1. pc'[t] = s /\ pc'["main"] = pc["main"] /\ Begun' = Begun
    BY <1>1, <1>2, <1>8, GotoFacts, BegunStays, ThreadNames
  <2>2. ErrorsRemain /\ (error'[t] # "0" => ~NoError') /\ (error'[t] = "0" => error[t] = "0")
    BY <1>1, <1>8, ErrorsKept DEF ErrorsKeep
  <2>3. TasksAccounted'
    BY <1>1, <1>2, <1>5, <2>1, <2>2, TasksStay
  <2>4. OutputState'
    <3>1. Len(rows) \in Nat /\ received \in Nat
      BY <1>1 DEF TasksAccounted, OutputState
    <3> QED BY <1>1, <1>2, <1>8, <2>1, <2>2, <3>1 DEF OutputState
  <2> QED BY <1>2, <1>4, <1>5, <1>6, <1>8, <2>3, <2>4, OutputKeeps
<1>9. ASSUME TakesOver(t, "write") PROVE IInv'
  <2>1. PICK x \in Items : held' = [held EXCEPT ![t] = x]
    BY <1>9 DEF TakesOver
  <2>2. Goto(t, "write") /\ ErrorsKeep(t)
    BY <1>1, <1>9, NoReport DEF TakesOver
  <2>3. /\ held'[t] # NULL /\ held' \in [Threads -> Items \cup {NULL}]
        /\ \A u \in Threads : u # t => held'[u] = held[u]
    BY <1>1, <2>1, NullIsNoItem
  <2> QED BY <1>8, <2>2, <2>3
<1>10. ASSUME SeesEnd(t, "result_queue", "close") PROVE IInv'
  <2>1. AtEnd("result_queue") /\ Goto(t, "close") /\ held' = held /\ ErrorsKeep(t)
    BY <1>1, <1>10, NoReport DEF SeesEnd
  <2> QED BY <1>1, <1>3, <1>8, <2>1
<1>11. ASSUME GivesUp(t, "close") PROVE IInv'
  <2>1. /\ ErrorsKeep(t) /\ error'[t] # "0" /\ Goto(t, "close") /\ held' = [held EXCEPT ![t] = NULL]
    BY <1>1, <1>11, GivesUpReports DEF GivesUp
  <2>2. /\ held'[t] = NULL /\ held' \in [Threads -> Items \cup {NULL}]
        /\ \A u \in Threads : u # t => held'[u] = held[u]
    BY <1>1, <2>1
  <2> QED BY <1>8, <2>1, <2>2
<1> QED BY <1>4, <1>7, <1>9, <1>10, <1>11

(* Freeing the result whose row is written. *)
LEMMA RowWritten ==
  ASSUME TasksAccounted, Owned, NEW x \in Reached, x.id \in 1 .. TaskCount,
         Reached' = Reached \ {x}, rows' = Append(rows, x.id), Begun' = Begun, ErrorsRemain,
         pc'["main"] = pc["main"]
  PROVE  TasksAccounted'
<1> DEFINE k == x.id
           n == Len(rows)
<1>1. /\ rows \in Seq(1 .. TaskCount) /\ n \in Nat /\ DOMAIN rows = 1 .. n
      /\ \A i, j \in DOMAIN rows : rows[i] = rows[j] => i = j
      /\ k \in Alive /\ Alive \subseteq Begun /\ Written \subseteq Begun /\ Alive \cap Written = {}
      /\ NoError /\ pc["main"] \notin Ending => Begun \subseteq Alive \cup Written
  BY DEF TasksAccounted, Alive
<1>2. /\ rows' \in Seq(1 .. TaskCount) /\ DOMAIN rows' = 1 .. n + 1
      /\ rows'[n + 1] = k /\ \A i \in 1 .. n : rows'[i] = rows[i]
  BY <1>1
<1>3. Written' = Written \cup {k}
  <2> HIDE DEF k, n
  <2>1. \A i \in 1 .. n + 1 : i = n + 1 \/ i \in 1 .. n
    BY <1>1
  <2>2. \A i \in 1 .. n : i \in 1 .. n + 1
    BY <1>1
  <2>3. n + 1 \in 1 .. n + 1
    BY <1>1
  <2>4. \A y \in Written' : y \in Written \cup {k}
    BY <1>1, <1>2, <2>1 DEF Written
  <2>5. \A y \in Written \cup {k} : y \in Written'
    BY <1>1, <1>2, <2>2, <2>3 DEF Written
  <2> QED BY <2>4, <2>5
<1>4. Alive' = Alive \ {k}
  <2>1. \A y \in Reached : y.id = k => y = x
    BY ReachedFacts
  <2> HIDE DEF k
  <2>2. x.id = k
    BY DEF k
  <2>3. \A z \in Alive' : z \in Alive /\ z # k
    BY <2>1 DEF Alive
  <2>4. \A z \in Alive : z # k => z \in Alive'
    BY <2>2 DEF Alive
  <2> QED BY <2>3, <2>4
<1>5. \A i, j \in DOMAIN rows' : rows'[i] = rows'[j] => i = j
  <2> HIDE DEF k, n
  <2>1. \A i \in 1 .. n : rows[i] # k
    BY <1>1 DEF Written
  <2>2. \A i \in 1 .. n + 1 : i = n + 1 \/ i \in 1 .. n
    BY <1>1
  <2> QED BY <1>1, <1>2, <2>1, <2>2
<1>6. NoError' => NoError
  BY DEF NoError, ErrorsRemain
<1> HIDE DEF k, n
<1> QED BY <1>1, <1>2, <1>3, <1>4, <1>5, <1>6 DEF TasksAccounted

LEMMA OutputWriteKeeps == ASSUME IInv, OutputWrite PROVE IInv' /\ RingsStep
<1> DEFINE t == "output"
           x == held[t]
<1>1. /\ Rings /\ Hands /\ Owned /\ TasksAccounted /\ OutputState /\ Control
      /\ t \in Threads /\ t # "producer" /\ t # "main"
      /\ held \in [Threads -> Items \cup {NULL}] /\ error \in [Threads -> Errors]
  BY ThreadNames DEF IInv, Work, Hands, Control
<1>2. /\ pc[t] = "write" /\ pc["main"] \notin {"exited", "undefined"}
      /\ UNCHANGED queues /\ UNCHANGED misreported /\ UNCHANGED <<task_index, mainVars>>
      /\ received' = received /\ task_index' = task_index
      /\ heap' = heap \ {x} /\ held' = [held EXCEPT ![t] = NULL] /\ Goto(t, "pop")
      /\ \/ output_file /\ rows' = Append(rows, x.id) /\ UNCHANGED <<output_file, error>>
         \/ Report(t, "EIO") /\ output_file' = FALSE /\ UNCHANGED rows
         \/ ~output_file /\ UNCHANGED <<output_file, rows, error>>
  BY DEF OutputWrite, At
<1>3. Rings' /\ RingsStep /\ QueuesKeep /\ SameItems
  BY <1>1, <1>2, RingsStay
<1>4. x \in Items /\ x.id \in 1 .. TaskCount /\ x \in Reached /\ "pop" \in OutputSteps \ {"off"}
  BY <1>1, <1>2, NullIsNoItem, ReachedFacts DEF Hands, OutputSteps
<1>5. Owned' /\ Reached' = Reached \ {x}
  BY <1>1, <1>2, <1>3, HandDrops
<1>6. Alive' \subseteq Alive
  BY <1>5, AliveIs
<1>7. pc'[t] = "pop" /\ pc'["main"] = pc["main"]
  BY <1>1, <1>2, GotoFacts, ThreadNames
<1>8. /\ held'[t] = NULL /\ held' \in [Threads -> Items \cup {NULL}]
      /\ \A u \in Threads : u # t => held'[u] = held[u]
  BY <1>1, <1>2
<1> HIDE DEF x
<1>9. ASSUME ErrorsKeep(t), TasksAccounted', OutputState' PROVE IInv'
  BY <1>2, <1>3, <1>4, <1>5, <1>8, <1>9, OutputKeeps
<1>10. ASSUME output_file, rows' = Append(rows, x.id), UNCHANGED <<output_file, error>> PROVE IInv'
  <2>1. ErrorsKeep(t)
    BY <1>1, <1>10, NoReport
  <2>2. ErrorsRemain /\ Begun' = Begun
    BY <1>1, <1>2, <2>1, ErrorsKept, BegunStays
  <2>3. TasksAccounted'
    BY <1>1, <1>4, <1>5, <1>7, <1>10, <2>2, RowWritten
  <2>4. OutputState'
    <3>1. Len(rows') = Len(rows) + 1
      BY <1>1, <1>4, <1>10 DEF TasksAccounted
    <3> QED BY <3>1, <1>1, <1>2, <1>7, <1>10 DEF OutputState
  <2> QED BY <1>9, <2>1, <2>3, <2>4
(* The result is freed without a row, in a run with an error. *)
<1>11. ASSUME ErrorsKeep(t), error'[t] # "0", output_file' = FALSE, UNCHANGED rows PROVE IInv'
  <2>1. ~NoError' /\ Begun' = Begun
    BY <1>1, <1>2, <1>11, ErrorsKept, BegunStays
  <2>2. TasksAccounted'
    BY <1>1, <1>6, <1>11, <2>1, TasksLost
  <2>3. OutputState'
    BY <1>1, <1>2, <1>7, <1>11 DEF OutputState
  <2> QED BY <1>9, <1>11, <2>2, <2>3
<1>12. ASSUME Report(t, "EIO"), output_file' = FALSE, UNCHANGED rows PROVE IInv'
  <2>1. "EIO" \in Errors \ {"0"}
    BY DEF Errors
  <2>2. ErrorsKeep(t) /\ error'[t] # "0"
    BY <1>1, <1>12, <2>1, ReportFacts
  <2> QED BY <1>11, <1>12, <2>2
<1>13. ASSUME ~output_file, UNCHANGED <<output_file, rows, error>> PROVE IInv'
  <2>1. error'[t] # "0" /\ output_file' = FALSE
    BY <1>1, <1>2, <1>13 DEF OutputState
  <2> QED BY <1>1, <1>11, <1>13, <2>1, NoReport
<1> QED BY <1>2, <1>3, <1>10, <1>12, <1>13

LEMMA OutputCloseKeeps == ASSUME IInv, OutputClose PROVE IInv' /\ RingsStep
<1> DEFINE t == "output"
<1>1. /\ Rings /\ Hands /\ Owned /\ TasksAccounted /\ OutputState /\ Control
      /\ t \in Threads /\ t # "producer" /\ t # "main"
      /\ held \in [Threads -> Items \cup {NULL}] /\ error \in [Threads -> Errors]
  BY ThreadNames DEF IInv, Work, Hands, Control
<1>2. /\ pc[t] = "close" /\ pc["main"] \notin {"exited", "undefined"}
      /\ UNCHANGED <<queues, misreported, task_index, rows, received, mainVars>>
      /\ UNCHANGED <<task_index, mainVars>> /\ output_file' = FALSE
      /\ \/ Goto(t, "done") /\ UNCHANGED <<held, heap, error>>
         \/ Fail(t, "EIO", "done")
  BY DEF OutputClose, At
<1>3. Rings' /\ RingsStep /\ QueuesKeep /\ SameItems
  BY <1>1, <1>2, RingsStay
<1>4. held[t] = NULL /\ "done" \in OutputSteps \ {"off"}
  BY <1>1, <1>2 DEF Hands, OutputSteps
<1>5. ASSUME Goto(t, "done"), UNCHANGED <<held, heap, error>> PROVE IInv'
  <2>1. Owned' /\ Alive' = Alive /\ ErrorsKeep(t)
    BY <1>1, <1>2, <1>3, <1>5, ObjectsStay, AliveIs, NoReport
  <2>2. pc'[t] = "done" /\ pc'["main"] = pc["main"] /\ Begun' = Begun
    BY <1>1, <1>2, <1>5, <2>1, GotoFacts, BegunStays, ThreadNames
  <2>3. TasksAccounted'
    BY <1>1, <1>2, <2>1, <2>2, ErrorsKept, TasksStay
  <2>4. OutputState'
    BY <1>1, <1>2, <1>5, <2>2 DEF OutputState
  <2> QED BY <1>1, <1>2, <1>3, <1>4, <1>5, <2>1, <2>3, <2>4, OutputKeeps
<1>6. ASSUME Fail(t, "EIO", "done") PROVE IInv'
  <2>1. ObjectsKept(t) /\ GivesUp(t, "done") /\ Alive' = Alive
    BY <1>1, <1>2, <1>3, <1>4, <1>6, FailEffect
  <2>2. /\ ErrorsKeep(t) /\ error'[t] # "0" /\ ~NoError' /\ Goto(t, "done")
        /\ held' = [held EXCEPT ![t] = NULL] /\ Owned'
    BY <1>1, <2>1, GivesUpReports, ErrorsKept DEF GivesUp, ObjectsKept
  <2>3. pc'[t] = "done" /\ pc'["main"] = pc["main"] /\ Begun' = Begun
    BY <1>1, <1>2, <2>2, GotoFacts, BegunStays, ThreadNames
  <2>4. TasksAccounted'
    BY <1>1, <1>2, <2>1, <2>2, <2>3, TasksLost
  <2>5. OutputState'
    BY <1>1, <1>2, <2>2, <2>3 DEF OutputState
  <2>6. /\ held'[t] = NULL /\ held' \in [Threads -> Items \cup {NULL}]
        /\ \A u \in Threads : u # t => held'[u] = held[u]
    BY <1>1, <2>2
  <2> QED BY <1>2, <1>3, <1>4, <2>2, <2>4, <2>5, <2>6, OutputKeeps
<1> QED BY <1>2, <1>3, <1>5, <1>6

-----------------------------------------------------------------------------
(* A thread is woken without a signal. *)

LEMMA SpuriousWakeupKeeps ==
  ASSUME IInv, NEW t \in Threads, SpuriousWakeup(t) PROVE IInv' /\ RingsStep
<1>1. Rings /\ Owned
  BY DEF IInv, Work
<1>2. PICK n \in Queues : queues' = [queues EXCEPT ![n] = WakeSpuriously(@, t)]
  BY DEF SpuriousWakeup
<1>3. Idle /\ UNCHANGED <<task_index, outputVars, mainVars>> /\ UNCHANGED <<held, heap, misreported>>
  BY DEF SpuriousWakeup, Idle, callVars
<1> DEFINE a == queues[n].not_empty \ {t}
           b == queues[n].not_full \ {t}
<1>4. a \subseteq Threads /\ b \subseteq Threads
  BY <1>1, RingFacts DEF Rings
<1>5. queues' = [queues EXCEPT ![n] = [@ EXCEPT !.not_empty = a, !.not_full = b]]
  BY <1>2 DEF WakeSpuriously
<1> HIDE DEF a, b
<1>6. Rings' /\ RingsStep /\ QueuesKeep /\ SameItems
  BY <1>1, <1>4, <1>5, WaitsChange
<1>7. Owned' /\ Alive' = Alive
  BY <1>1, <1>3, <1>6, ObjectsStay, AliveIs
<1> QED BY <1>3, <1>6, <1>7, IdleKeeps

-----------------------------------------------------------------------------
(* The steps of main. *)

(* Main takes a step, and perhaps starts a thread; it touches nothing that *)
(* the others hold, and queues that are in use only as a thread may.       *)
LEMMA MainKeepsWork ==
  ASSUME Control, Work, NEW s, pc'["main"] = s, pc["main"] \in Ending => s \in Ending,
         pc'["producer"] = pc["producer"] \/ (pc["producer"] = "off" /\ pc'["producer"] = "allocate"),
         pc'["output"] = pc["output"] \/ (pc["output"] = "off" /\ pc'["output"] = "open"),
         \A w \in Workers : pc'[w] = pc[w] \/ (pc[w] = "off" /\ pc'[w] = "pop"),
         Rings', QueuesKeep \/ s \in Ending, Owned', ErrorsKeep("main"),
         Alive' \subseteq Alive, Alive' = Alive \/ ~NoError' \/ s \in Ending,
         held' \in [Threads -> Items \cup {NULL}],
         \A u \in Threads : u # "main" => held'[u] = held[u],
         held'["main"] # NULL => s \in {"free_task", "free_result", "undefined"},
         UNCHANGED <<task_index, outputVars>>
  PROVE  Work'
<1>1. /\ Hands /\ OutputState /\ Finished /\ TasksAccounted
      /\ task_index' = task_index /\ rows' = rows /\ received' = received /\ output_file' = output_file
  BY DEF Work, outputVars
<1>2. /\ error'["producer"] = error["producer"] /\ error'["output"] = error["output"]
      /\ (\A w \in Workers : error'[w] = error[w])
      /\ held'["producer"] = held["producer"] /\ held'["output"] = held["output"]
      /\ (\A w \in Workers : held'[w] = held[w])
  BY ThreadNames DEF ErrorsKeep
<1>3. Hands'
  BY <1>1, <1>2 DEF Hands
<1>4. TasksAccounted'
  <2>1. Begun' = Begun
    BY <1>1, <1>2 DEF Begun
  <2> QED BY <1>1, <2>1, ErrorsKept, TasksStay, ThreadNames
<1>5. OutputState'
  BY <1>1, <1>2 DEF OutputState
<1>6. Finished'
  <2>1. CASE s \in Ending
    BY <1>1, <1>2, <2>1 DEF Finished
  <2>2. CASE s \notin Ending
    <3>1. ErrorsRemain /\ QueuesKeep
      BY <2>2, ErrorsKept, ThreadNames
    <3> QED BY <1>1, <1>2, <3>1, FinishedStays DEF Finished
  <2> QED BY <2>1, <2>2
<1> QED BY <1>3, <1>4, <1>5, <1>6 DEF Work

(* What a step of main alone, to step s, has done. *)
Moved(s) ==
  /\ Control' /\ Work' /\ RingsStep
  /\ pc'["main"] = s /\ \A u \in Others : pc'[u] = pc[u]
  /\ ErrorsKeep("main") /\ started' = started /\ rows' = rows

LEMMA MainMoves ==
  ASSUME IInv, NEW s \in MainSteps, Goto("main", s), pc["main"] \in Ending => s \in Ending,
         Rings', RingsStep, QueuesKeep \/ s \in Ending, Owned', ErrorsKeep("main"),
         Alive' \subseteq Alive, Alive' = Alive \/ ~NoError' \/ s \in Ending,
         held' \in [Threads -> Items \cup {NULL}],
         \A u \in Threads : u # "main" => held'[u] = held[u],
         held'["main"] # NULL => s \in {"free_task", "free_result", "undefined"},
         UNCHANGED <<task_index, outputVars, started>>,
         initialized' \subseteq Queues, exit' \in {"none", "success", "failure"}
  PROVE  Moved(s)
<1>1. /\ Control /\ Work /\ UNCHANGED <<task_index, outputVars>>
      /\ started' = started /\ rows' = rows
  BY DEF IInv, outputVars
<1>2. pc'["main"] = s /\ \A u \in Others : pc'[u] = pc[u]
  BY <1>1, GotoFacts, ThreadNames
<1>3. pc'["producer"] = pc["producer"] /\ pc'["output"] = pc["output"] /\ \A w \in Workers : pc'[w] = pc[w]
  BY <1>2, ThreadNames
<1>4. Control'
  <2>1. pc' \in [Threads -> Steps]
    BY <1>1 DEF Control, Goto, Steps
  <2> QED BY <1>1, <1>2, <1>3, <2>1 DEF Control, ErrorsKeep
<1>5. Work'
  BY <1>1, <1>2, <1>3, MainKeepsWork
<1> QED BY <1>1, <1>2, <1>4, <1>5 DEF Moved

(* Main neither touches a queue nor an object. *)
LEMMA MainRests ==
  ASSUME IInv, NEW s \in MainSteps, Goto("main", s), pc["main"] \in Ending => s \in Ending,
         UNCHANGED queues, MainKeeps, ErrorsKeep("main"), held["main"] = NULL,
         initialized' \subseteq Queues, exit' \in {"none", "success", "failure"}
  PROVE  Moved(s)
<1>1. /\ Rings /\ Owned /\ held \in [Threads -> Items \cup {NULL}]
      /\ UNCHANGED <<held, heap, misreported>> /\ UNCHANGED <<task_index, outputVars, started>>
  BY DEF IInv, Work, Hands, MainKeeps
<1>2. Rings' /\ RingsStep /\ QueuesKeep /\ SameItems
  BY <1>1, RingsStay
<1>3. Owned' /\ Alive' = Alive
  BY <1>1, <1>2, ObjectsStay, AliveIs
<1> QED BY <1>1, <1>2, <1>3, MainMoves

(* A call of main fails. *)
LEMMA MainFailsReports ==
  ASSUME Control, NEW err \in {"EAGAIN", "EINVAL"}, NEW s, MainFails(err, s)
  PROVE  /\ Goto("main", s) /\ exit' = "failure" /\ ErrorsKeep("main") /\ error'["main"] # "0"
         /\ err = "EINVAL" => error'["main"] \notin {"0", "EAGAIN"}
<1>1. err \in Errors \ {"0"} /\ error \in [Threads -> Errors]
  BY DEF Control, Errors
<1>2. Report("main", err) /\ Goto("main", s) /\ exit' = "failure"
  BY DEF MainFails
<1>3. /\ ErrorsKeep("main") /\ error'["main"] # "0"
      /\ error'["main"] = IF error["main"] \in {"0", "EAGAIN"} THEN err ELSE error["main"]
  BY <1>1, <1>2, ReportFacts, ThreadNames
<1> QED BY <1>2, <1>3

(* Main says that the run failed only when something failed. *)
LEMMA VerdictStep ==
  ASSUME Verdict, ErrorsKeep("main"), UNCHANGED rows,
         \/ error'["main"] = error["main"] /\ exit' = exit
         \/ error'["main"] # "0" /\ exit' = "failure",
         misreported' = misreported \/ error'["main"] # "0"
  PROVE  Verdict'
<1>1. (NoError' => NoError) /\ (error'["main"] # "0" => ~NoError')
  BY ErrorsKept, ThreadNames
<1>2. error'["main"] = error["main"] => (NoError' <=> NoError)
  BY DEF NoError, ErrorsKeep
<1>3. Written' = Written
  BY DEF Written
<1> QED BY <1>1, <1>2, <1>3 DEF Verdict

(* Where main is, what it knows. *)
LEMMA MainKnows ==
  ASSUME IInv
  PROVE  /\ Rings /\ Hands /\ Owned /\ Control /\ MainPhase /\ Joined /\ Existing /\ Verdict
         /\ held \in [Threads -> Items \cup {NULL}] /\ error \in [Threads -> Errors]
         /\ pc["main"] \notin {"free_task", "free_result", "undefined"} => held["main"] = NULL
         /\ pc["main"] \notin Ending => exit # "success"
BY DEF IInv, Work, Course, Hands, Control, MainPhase

-----------------------------------------------------------------------------
(* The initialisation of the queues. *)

LEMMA InitQueueRests ==
  ASSUME IInv, NEW n \in Queues, NEW step \in Initializing,
         NEW next \in MainSteps, NEW failed \in MainSteps, InitQueue(n, step, next, failed)
  PROVE  /\ RingsStep /\ Verdict' /\ pc["main"] = step
         /\ \/ Moved(next) /\ initialized' = initialized \cup {n} /\ error' = error /\ exit' = exit
            \/ Moved(failed) /\ initialized' = initialized /\ error'["main"] # "0" /\ exit' = "failure"
         /\ \A m \in Queues \ initialized' : queues'[m].count = 0
<1>1. /\ Control /\ Verdict /\ Existing /\ held["main"] = NULL /\ error \in [Threads -> Errors]
      /\ pc["main"] = step /\ step \notin Ending
  BY MainKnows DEF InitQueue, At, Initializing, Ending, Cleaning, CleaningTask, CleaningResult
<1>2. /\ UNCHANGED queues /\ MainKeeps /\ UNCHANGED rows /\ UNCHANGED misreported
      /\ initialized \subseteq Queues /\ exit \in {"none", "success", "failure"}
  BY <1>1 DEF InitQueue, MainKeeps, outputVars, Control
<1>3. CASE initialized' = initialized \cup {n} /\ Goto("main", next) /\ UNCHANGED <<error, exit>>
  <2>1. ErrorsKeep("main")
    BY <1>1, <1>3, NoReport, ThreadNames
  <2>2. Moved(next) /\ Verdict'
    BY <1>1, <1>2, <1>3, <2>1, MainRests, VerdictStep
  <2> QED BY <1>1, <1>2, <1>3, <2>2 DEF Moved, Existing, JoinsSucceed
<1>4. CASE MainFails("EAGAIN", failed) /\ UNCHANGED initialized
  <2>1. Goto("main", failed) /\ exit' = "failure" /\ ErrorsKeep("main") /\ error'["main"] # "0"
    BY <1>1, <1>4, MainFailsReports
  <2>2. Moved(failed) /\ Verdict'
    BY <1>1, <1>2, <1>4, <2>1, MainRests, VerdictStep
  <2> QED BY <1>1, <1>2, <1>4, <2>1, <2>2 DEF Moved, Existing, JoinsSucceed
<1> QED BY <1>3, <1>4 DEF InitQueue

LEMMA InitTaskQueueKeeps == ASSUME IInv, InitTaskQueue PROVE IInv' /\ RingsStep
<1>1. /\ RingsStep /\ Verdict' /\ pc["main"] = "init_task"
      /\ \/ /\ Moved("init_result") /\ initialized' = initialized \cup {"task_queue"}
            /\ error' = error /\ exit' = exit
         \/ Moved("exited") /\ initialized' = initialized /\ error'["main"] # "0" /\ exit' = "failure"
      /\ \A m \in Queues \ initialized' : queues'[m].count = 0
  <2>1. "init_task" \in Initializing /\ "init_result" \in MainSteps /\ "exited" \in MainSteps
    BY DEF Initializing, MainSteps, Ending
  <2> QED BY <2>1, InitQueueRests, QueueNames DEF InitTaskQueue
<1>2. (\A t \in Others : pc[t] = "off") /\ initialized = {}
  BY <1>1, MainKnows DEF MainPhase, Existing, JoinsSucceed, Initializing
<1>3. /\ Control' /\ Work' /\ pc'["main"] \in {"init_result", "exited"}
      /\ \A t \in Others : pc'[t] = "off"
  BY <1>1, <1>2 DEF Moved
<1>4. MainPhase' /\ Joined'
  <2>1. exit' # "success"
    BY <1>1, MainKnows DEF Ending, Cleaning, CleaningTask, CleaningResult
  <2> QED BY <1>3, <2>1, ThreadNames
          DEF MainPhase, Joined, JoinsSucceed, Starting, Stopping, Joining, Cleaning, CleaningTask, CleaningResult
<1>5. Existing'
  <2>1. pc'["main"] = "init_result" => initialized' = {"task_queue"}
    BY <1>1, <1>2 DEF Moved
  <2>2. pc'["main"] = "exited" => initialized' = {}
    BY <1>1, <1>2 DEF Moved
  <2>3. QueuesOutliveThreads'
    BY <1>3 DEF QueuesOutliveThreads
  <2> QED BY <1>1, <1>3, <2>1, <2>2, <2>3 DEF Existing, JoinsSucceed, Starting, Stopping, Joining, CleaningResult
<1> QED BY <1>1, <1>3, <1>4, <1>5 DEF IInv, Course

LEMMA InitResultQueueKeeps == ASSUME IInv, InitResultQueue PROVE IInv' /\ RingsStep
<1>1. /\ RingsStep /\ Verdict' /\ pc["main"] = "init_result"
      /\ \/ /\ Moved("create_output") /\ initialized' = initialized \cup {"result_queue"}
            /\ error' = error /\ exit' = exit
         \/ Moved("clean_task") /\ initialized' = initialized /\ error'["main"] # "0" /\ exit' = "failure"
      /\ \A m \in Queues \ initialized' : queues'[m].count = 0
  <2>1. "init_result" \in Initializing /\ "create_output" \in MainSteps /\ "clean_task" \in MainSteps
    BY DEF Initializing, MainSteps, Starting, Ending, Cleaning, CleaningTask
  <2> QED BY <2>1, InitQueueRests, QueueNames DEF InitResultQueue
<1>2. (\A t \in Others : pc[t] = "off") /\ initialized = {"task_queue"}
  BY <1>1, MainKnows DEF MainPhase, Existing, JoinsSucceed, Initializing
<1>3. /\ Control' /\ Work' /\ pc'["main"] \in {"create_output", "clean_task"}
      /\ \A t \in Others : pc'[t] = "off"
  BY <1>1, <1>2 DEF Moved
<1>4. MainPhase' /\ Joined'
  <2>1. exit' # "success"
    BY <1>1, MainKnows DEF Ending, Cleaning, CleaningTask, CleaningResult
  <2>2. \A w \in Workers : pc'[w] = "off"
    BY <1>3, ThreadNames
  <2> QED BY <1>3, <2>1, <2>2, ThreadNames
          DEF MainPhase, Joined, JoinsSucceed, Starting, Stopping, Joining, Cleaning, CleaningTask, CleaningResult
<1>5. Existing'
  <2>1. pc'["main"] = "create_output" => initialized' = Queues
    BY <1>1, <1>2 DEF Moved, Queues
  <2>2. QueuesOutliveThreads'
    BY <1>3 DEF QueuesOutliveThreads
  <2> QED BY <1>1, <1>3, <2>1, <2>2 DEF Existing, JoinsSucceed, Starting, Stopping, Joining, CleaningResult
<1> QED BY <1>1, <1>3, <1>4, <1>5 DEF IInv, Course

-----------------------------------------------------------------------------
(* The creation of the threads. *)

FirstStep(t) == IF t = "producer" THEN "allocate" ELSE IF t = "output" THEN "open" ELSE "pop"

LEMMA Created ==
  ASSUME IInv, NEW t \in Others, pc[t] = "off", pc["main"] \in Starting,
         NEW next \in {"create_workers", "create_producer", "join_producer"},
         pc' = [pc EXCEPT !["main"] = next, ![t] = FirstStep(t)],
         UNCHANGED <<error, exit>>,
         UNCHANGED <<queues, initialized, held, heap, misreported, task_index, outputVars>>,
         started' = IF t \in Workers THEN started \cup {t} ELSE started
  PROVE  /\ Control' /\ Work' /\ RingsStep /\ Joined' /\ Existing' /\ Verdict'
         /\ pc'["main"] = next /\ pc'[t] = FirstStep(t)
         /\ (\A u \in Others : u # t => pc'[u] = pc[u])
         /\ error' = error /\ exit # "success" /\ exit' # "success"
<1>1. /\ Control /\ Work /\ Rings /\ Owned /\ Existing /\ Verdict /\ Hands
      /\ error \in [Threads -> Errors] /\ held \in [Threads -> Items \cup {NULL}]
      /\ held["main"] = NULL /\ exit # "success"
  BY MainKnows DEF IInv, Starting, Ending, Cleaning, CleaningTask, CleaningResult
<1>2. /\ rows' = rows /\ error' = error /\ exit' = exit /\ misreported' = misreported /\ held' = held
      /\ initialized' = initialized /\ UNCHANGED <<held, heap, misreported>> /\ queues' = queues
      /\ UNCHANGED <<task_index, outputVars>>
  BY DEF outputVars
<1>3. Rings' /\ RingsStep /\ QueuesKeep /\ SameItems
  BY <1>1, <1>2, RingsStay
<1>4. Owned' /\ Alive' = Alive /\ ErrorsKeep("main")
  BY <1>1, <1>2, <1>3, ObjectsStay, AliveIs, NoReport, ThreadNames
<1>5. next \in Steps /\ FirstStep(t) \in Steps /\ next \in MainSteps /\ next \notin Ending
  BY DEF FirstStep, Steps, MainSteps, Starting, Joining, ProducerSteps, OutputSteps, WorkerSteps,
         Ending, Cleaning, CleaningTask, CleaningResult
<1>6. /\ pc' \in [Threads -> Steps] /\ pc'["main"] = next /\ pc'[t] = FirstStep(t)
      /\ \A u \in Others : u # t => pc'[u] = pc[u]
  BY <1>1, <1>5, ThreadNames DEF Control
<1>7. /\ pc'["producer"] = pc["producer"] \/ (pc["producer"] = "off" /\ pc'["producer"] = "allocate")
      /\ pc'["output"] = pc["output"] \/ (pc["output"] = "off" /\ pc'["output"] = "open")
      /\ \A w \in Workers : pc'[w] = pc[w] \/ (pc[w] = "off" /\ pc'[w] = "pop")
  BY <1>6, ThreadNames DEF FirstStep
<1>8. Control'
  <2>1. started' \subseteq Workers
    BY <1>1 DEF Control
  <2>2. \A w \in Workers : pc'[w] \in WorkerSteps /\ (pc'[w] = "off" <=> w \notin started')
    BY <1>1, <1>6, ThreadNames DEF Control, FirstStep, WorkerSteps
  <2>3. pc'["producer"] \in ProducerSteps /\ pc'["output"] \in OutputSteps
    BY <1>1, <1>7 DEF Control, ProducerSteps, OutputSteps
  <2> QED BY <1>1, <1>2, <1>5, <1>6, <2>1, <2>2, <2>3 DEF Control
<1>9. Work'
  <2>1. pc["main"] \in Ending => next \in Ending
    BY DEF Starting, Ending, Cleaning, CleaningTask, CleaningResult
  <2> QED BY <1>1, <1>2, <1>3, <1>4, <1>6, <1>7, <2>1, MainKeepsWork
<1>10. Joined'
  BY <1>6 DEF Joined, JoinsSucceed, Cleaning, CleaningTask, CleaningResult
<1>11. Existing'
  <2>1. initialized' = Queues
    BY <1>1, <1>2 DEF Existing, JoinsSucceed
  <2>2. QueuesOutliveThreads' /\ Queues \ initialized' = {}
    BY <2>1 DEF QueuesOutliveThreads
  <2> QED BY <1>6, <2>1, <2>2 DEF Existing, JoinsSucceed, CleaningResult
<1>12. Verdict'
  BY <1>1, <1>2, <1>4, VerdictStep
<1> QED BY <1>1, <1>2, <1>3, <1>6, <1>8, <1>9, <1>10, <1>11, <1>12

LEMMA NotCreated ==
  ASSUME IInv, pc["main"] \in Starting, NEW s \in {"clean_task", "stop_task"}, MainFails("EAGAIN", s),
         UNCHANGED <<queues, initialized, held, heap, misreported, task_index, outputVars>>,
         UNCHANGED started
  PROVE  /\ Moved(s) /\ Existing' /\ Verdict'
         /\ error'["main"] # "0" /\ exit' = "failure"
<1>1. /\ Control /\ Existing /\ Verdict /\ held["main"] = NULL /\ pc["main"] \notin Ending
  BY MainKnows DEF IInv, Starting, Ending, Cleaning, CleaningTask, CleaningResult
<1>2. /\ rows' = rows /\ MainKeeps /\ initialized' \subseteq Queues /\ queues' = queues
      /\ initialized' = initialized /\ misreported' = misreported
  BY <1>1 DEF MainKeeps, outputVars, Control
<1>3. Goto("main", s) /\ exit' = "failure" /\ ErrorsKeep("main") /\ error'["main"] # "0"
  BY <1>1, MainFailsReports
<1>4. s \in MainSteps
  BY DEF MainSteps, Stopping, Ending, Cleaning, CleaningTask
<1>5. Moved(s)
  BY <1>1, <1>2, <1>3, <1>4, MainRests
<1>6. Existing'
  <2>1. initialized' = Queues
    BY <1>1, <1>2 DEF Existing, JoinsSucceed
  <2>2. QueuesOutliveThreads' /\ Queues \ initialized' = {}
    BY <2>1 DEF QueuesOutliveThreads
  <2>3. pc'["main"] = s
    BY <1>5 DEF Moved
  <2> QED BY <2>1, <2>2, <2>3 DEF Existing, JoinsSucceed, CleaningResult
<1> QED BY <1>1, <1>2, <1>3, <1>5, <1>6, VerdictStep

(* The threads that were created before are stopped, or none was. *)
LEMMA NotCreatedKeeps ==
  ASSUME IInv, pc["main"] \in Starting, NEW s \in {"clean_task", "stop_task"}, MainFails("EAGAIN", s),
         UNCHANGED <<queues, initialized, held, heap, misreported, task_index, outputVars>>,
         UNCHANGED started,
         s = "clean_task" => pc["main"] = "create_output"
  PROVE  IInv' /\ RingsStep
<1>1. /\ Moved(s) /\ Existing' /\ Verdict' /\ error'["main"] # "0" /\ exit' = "failure"
  BY NotCreated
<1>2. /\ pc["producer"] = "off" /\ (s = "clean_task" => \A t \in Others : pc[t] = "off")
  BY MainKnows DEF MainPhase
<1>3. /\ pc'["main"] = s /\ pc'["producer"] = "off"
      /\ s = "clean_task" => pc'["output"] = "off" /\ \A w \in Workers : pc'[w] = "off"
  BY <1>1, <1>2, ThreadNames DEF Moved
<1>4. MainPhase'
  BY <1>1, <1>3 DEF MainPhase, Initializing, Starting, Stopping, Joining
<1>5. Joined'
  BY <1>1, <1>3 DEF Joined, JoinsSucceed, Cleaning, CleaningTask, CleaningResult
<1> QED BY <1>1, <1>4, <1>5 DEF IInv, Course, Moved

LEMMA CreateOutputKeeps == ASSUME IInv, CreateOutput PROVE IInv' /\ RingsStep
<1>1. /\ pc["main"] = "create_output" /\ pc["main"] \in Starting
      /\ UNCHANGED <<queues, initialized, held, heap, misreported, task_index, outputVars>>
      /\ UNCHANGED started
      /\ \/ /\ pc' = [pc EXCEPT !["main"] = "create_workers", !["output"] = "open"]
            /\ UNCHANGED <<error, exit>>
         \/ MainFails("EAGAIN", "clean_task")
  BY DEF CreateOutput, Create, At, Starting
<1>2. ASSUME pc' = [pc EXCEPT !["main"] = "create_workers", !["output"] = "open"],
             UNCHANGED <<error, exit>>
      PROVE  IInv' /\ RingsStep
  <2> DEFINE t == "output"
             next == "create_workers"
  <2>1. \A u \in Others : pc[u] = "off"
    BY <1>1, MainKnows DEF MainPhase
  <2>2. /\ t \in Others /\ next \in {"create_workers", "create_producer", "join_producer"}
        /\ pc' = [pc EXCEPT !["main"] = next, ![t] = FirstStep(t)] /\ t \notin Workers
    BY <1>2, ThreadNames DEF FirstStep
  <2> HIDE DEF t, next
  <2>3. started' = IF t \in Workers THEN started \cup {t} ELSE started
    BY <1>1, <2>2
  <2>4. /\ Control' /\ Work' /\ RingsStep /\ Joined' /\ Existing' /\ Verdict'
        /\ pc'["main"] = next /\ (\A u \in Others : u # t => pc'[u] = pc[u])
        /\ exit' # "success"
    BY <1>1, <1>2, <2>1, <2>2, <2>3, Created
  <2>5. MainPhase'
    BY <2>1, <2>4, ThreadNames DEF MainPhase, Initializing, Starting, Stopping, Joining, t, next
  <2> QED BY <2>4, <2>5 DEF IInv, Course
<1>3. ASSUME MainFails("EAGAIN", "clean_task") PROVE IInv' /\ RingsStep
  BY <1>1, <1>3, NotCreatedKeeps
<1> QED BY <1>1, <1>2, <1>3

LEMMA CreateWorkerKeeps == ASSUME IInv, CreateWorker PROVE IInv' /\ RingsStep
<1> DEFINE after(w) == IF started \cup {w} = Workers THEN "create_producer" ELSE "create_workers"
<1>1. PICK w \in Workers \ started :
        /\ Create(w, "pop", after(w), "stop_task")
        /\ started' = IF pc'["main"] = "stop_task" THEN started ELSE started \cup {w}
  BY DEF CreateWorker
<1>2. after(w) \in {"create_workers", "create_producer", "join_producer"} /\ after(w) # "join_producer"
  OBVIOUS
<1> HIDE DEF after
<1>3. /\ pc["main"] = "create_workers" /\ pc["main"] \in Starting /\ pc["main"] # "create_output"
      /\ UNCHANGED <<queues, initialized, held, heap, misreported, task_index, outputVars>>
      /\ \/ /\ pc' = [pc EXCEPT !["main"] = after(w), ![w] = "pop"]
            /\ UNCHANGED <<error, exit>>
         \/ MainFails("EAGAIN", "stop_task")
  BY <1>1 DEF CreateWorker, Create, At, Starting
<1>4. pc["producer"] = "off" /\ pc[w] = "off" /\ w \in Others /\ w # "producer" /\ w # "main" /\ Control
  BY <1>1, <1>3, MainKnows, ThreadNames DEF MainPhase, Control
<1>5. ASSUME pc' = [pc EXCEPT !["main"] = after(w), ![w] = "pop"], UNCHANGED <<error, exit>>
      PROVE  IInv' /\ RingsStep
  <2>1. pc' = [pc EXCEPT !["main"] = after(w), ![w] = FirstStep(w)]
    BY <1>5, ThreadNames DEF FirstStep
  <2>2. pc'["main"] = after(w)
    BY <1>4, <1>5, ThreadNames DEF Control
  <2>3. started' = IF w \in Workers THEN started \cup {w} ELSE started
    BY <1>1, <1>2, <2>2
  <2>4. /\ Control' /\ Work' /\ RingsStep /\ Joined' /\ Existing' /\ Verdict'
        /\ (\A u \in Others : u # w => pc'[u] = pc[u])
        /\ exit' # "success"
    BY <1>2, <1>3, <1>4, <1>5, <2>1, <2>3, Created
  <2>5. pc'["producer"] = "off" /\ started' # {}
    BY <1>4, <2>3, <2>4, ThreadNames
  <2>6. MainPhase'
    BY <1>2, <2>2, <2>4, <2>5 DEF MainPhase, Initializing, Stopping, Joining
  <2> QED BY <2>4, <2>6 DEF IInv, Course
<1>6. ASSUME MainFails("EAGAIN", "stop_task") PROVE IInv' /\ RingsStep
  <2>1. pc'["main"] = "stop_task"
    BY <1>4, <1>6, MainFailsReports, GotoFacts, ThreadNames
  <2>2. UNCHANGED started
    BY <1>1, <2>1
  <2> QED BY <1>3, <1>6, <2>2, NotCreatedKeeps
<1> QED BY <1>3, <1>5, <1>6

LEMMA CreateProducerKeeps == ASSUME IInv, CreateProducer PROVE IInv' /\ RingsStep
<1>1. /\ pc["main"] = "create_producer" /\ pc["main"] \in Starting /\ pc["main"] # "create_output"
      /\ UNCHANGED <<queues, initialized, held, heap, misreported, task_index, outputVars>>
      /\ UNCHANGED started
      /\ \/ /\ pc' = [pc EXCEPT !["main"] = "join_producer", !["producer"] = "allocate"]
            /\ UNCHANGED <<error, exit>>
         \/ MainFails("EAGAIN", "stop_task")
  BY DEF CreateProducer, Create, At, Starting
<1>2. ASSUME pc' = [pc EXCEPT !["main"] = "join_producer", !["producer"] = "allocate"],
             UNCHANGED <<error, exit>>
      PROVE  IInv' /\ RingsStep
  <2> DEFINE t == "producer"
             next == "join_producer"
  <2>1. pc[t] = "off" /\ (error["main"] = "0" => started # {})
    BY <1>1, MainKnows DEF MainPhase
  <2>2. /\ t \in Others /\ next \in {"create_workers", "create_producer", "join_producer"}
        /\ pc' = [pc EXCEPT !["main"] = next, ![t] = FirstStep(t)] /\ t \notin Workers
    BY <1>2, ThreadNames DEF FirstStep
  <2> HIDE DEF t, next
  <2>3. started' = IF t \in Workers THEN started \cup {t} ELSE started
    BY <1>1, <2>2
  <2>4. /\ Control' /\ Work' /\ RingsStep /\ Joined' /\ Existing' /\ Verdict'
        /\ pc'["main"] = next /\ pc'[t] = FirstStep(t) /\ exit' # "success"
    BY <1>1, <1>2, <2>1, <2>2, <2>3, Created
  <2>5. pc'["main"] = "join_producer" /\ pc'["producer"] = "allocate" /\ started' = started /\ error' = error
    BY <1>1, <1>2, <2>4 DEF t, next, FirstStep
  <2>6. MainPhase'
    BY <2>1, <2>4, <2>5 DEF MainPhase, Initializing, Starting, Stopping
  <2> QED BY <2>4, <2>6 DEF IInv, Course
<1>3. ASSUME MainFails("EAGAIN", "stop_task") PROVE IInv' /\ RingsStep
  BY <1>1, <1>3, NotCreatedKeeps
<1> QED BY <1>1, <1>2, <1>3

-----------------------------------------------------------------------------
(* Main closes queues and joins threads. *)

(* The queues that exist are the same. *)
LEMMA ExistingStays ==
  ASSUME IInv, QueuesKeep, UNCHANGED initialized,
         NEW s, pc'["main"] = s, \A t \in Others : pc'[t] = pc[t],
         error'["main"] \in {"0", "EAGAIN"} => error["main"] \in {"0", "EAGAIN"},
         s \notin Initializing,
         s \in Starting \cup Stopping \cup Joining =>
           pc["main"] \in Starting \cup Stopping \cup Joining,
         s \in CleaningResult => pc["main"] \in CleaningResult,
         s = "exited" => error'["main"] \notin {"0", "EAGAIN"}
  PROVE  Existing'
<1>1. Existing
  BY MainKnows
<1>2. initialized' = initialized /\ (QueuesOutliveThreads => QueuesOutliveThreads')
  BY DEF QueuesOutliveThreads
<1>3. \A n \in Queues \ initialized' : queues'[n].count = 0
  BY <1>1, <1>2 DEF Existing, JoinsSucceed, QueuesKeep
<1> QED BY <1>1, <1>2, <1>3 DEF Existing, JoinsSucceed, Initializing

LEMMA MainClosesEffect ==
  ASSUME IInv, NEW n \in Queues, NEW step, step \notin {"free_task", "free_result"},
         NEW next \in MainSteps, NEW failed \in MainSteps,
         step \in Ending => next \in Ending /\ failed \in Ending, MainCloses(n, step, next, failed)
  PROVE  /\ RingsStep /\ Verdict' /\ QueuesKeep /\ pc["main"] = step /\ initialized' = initialized
         /\ error' = error \/ error'["main"] # "0"
         /\ error'["main"] \in {"0", "EAGAIN"} => error["main"] = error'["main"]
         /\ \/ Moved(next) /\ error'["main"] = "0" /\ error["main"] = "0" /\ exit' = exit
            \/ Moved(failed) /\ error'["main"] # "0" /\ exit' = "failure"
<1>1. /\ Rings /\ Owned /\ Control /\ Verdict /\ pc["main"] = step /\ held["main"] = NULL
      /\ held \in [Threads -> Items \cup {NULL}] /\ error \in [Threads -> Errors]
  <2>1. pc["main"] = step /\ step # "undefined"
    BY DEF MainCloses, At
  <2> QED BY <2>1, MainKnows
<1>2. /\ CloseQueue("main", n) /\ UNCHANGED <<held, heap, misreported>> /\ UNCHANGED rows
      /\ UNCHANGED <<task_index, outputVars, started>> /\ initialized' = initialized
      /\ misreported' = misreported
      /\ \/ error'["main"] = "0" /\ Goto("main", next) /\ exit' = exit
         \/ error'["main"] # "0" /\ Goto("main", failed) /\ exit' = "failure"
  BY DEF MainCloses, MainKeeps, outputVars
<1>3. /\ Rings' /\ RingsStep /\ QueuesKeep /\ SameItems
      /\ UNCHANGED error \/ Report("main", "EINVAL")
  BY <1>1, <1>2, CloseEffect, ThreadNames
<1>4. Owned' /\ Alive' = Alive
  BY <1>1, <1>2, <1>3, ObjectsStay, AliveIs
<1>5. /\ ErrorsKeep("main") /\ (error' = error \/ error'["main"] # "0")
      /\ error'["main"] \in {"0", "EAGAIN"} => error["main"] = error'["main"]
  <2>1. "EINVAL" \in Errors \ {"0"}
    BY DEF Errors
  <2>2. CASE Report("main", "EINVAL")
    <3>1. /\ ErrorsKeep("main") /\ error'["main"] # "0"
          /\ error'["main"] = IF error["main"] \in {"0", "EAGAIN"} THEN "EINVAL" ELSE error["main"]
      BY <1>1, <2>1, <2>2, ReportFacts, ThreadNames
    <3> QED BY <3>1
  <2> QED BY <1>1, <1>3, <2>2, NoReport, ThreadNames
<1>6. initialized' \subseteq Queues /\ exit \in {"none", "success", "failure"}
  BY <1>1, <1>2 DEF Control
<1>7. ASSUME NEW s \in {next, failed}, Goto("main", s), exit' \in {"none", "success", "failure"}
      PROVE  Moved(s)
  <2>1. s \in MainSteps /\ (pc["main"] \in Ending => s \in Ending)
    BY <1>1
  <2> QED BY <1>1, <1>2, <1>3, <1>4, <1>5, <1>6, <1>7, <2>1, MainMoves
<1>8. CASE error'["main"] = "0" /\ Goto("main", next) /\ exit' = exit
  <2>1. error' = error
    BY <1>5, <1>8
  <2>2. Verdict'
    BY <1>1, <1>2, <1>5, <1>8, <2>1, VerdictStep
  <2> QED BY <1>1, <1>2, <1>3, <1>5, <1>6, <1>7, <1>8, <2>1, <2>2
<1>9. CASE error'["main"] # "0" /\ Goto("main", failed) /\ exit' = "failure"
  <2>1. Verdict'
    BY <1>1, <1>2, <1>5, <1>9, VerdictStep
  <2> QED BY <1>1, <1>2, <1>3, <1>5, <1>7, <1>9, <2>1
<1> QED BY <1>2, <1>8, <1>9

LEMMA StopTaskQueueKeeps == ASSUME IInv, StopTaskQueue PROVE IInv' /\ RingsStep
<1> DEFINE s == "stop_result"
<1>1. s \in MainSteps /\ "stop_task" \notin Ending /\ "stop_task" \in Stopping /\ s \in Stopping
  BY DEF MainSteps, Stopping, Ending, Cleaning, CleaningTask, CleaningResult
<1>2. /\ RingsStep /\ Verdict' /\ QueuesKeep /\ pc["main"] = "stop_task" /\ initialized' = initialized
      /\ error' = error \/ error'["main"] # "0"
      /\ error'["main"] \in {"0", "EAGAIN"} => error["main"] = error'["main"]
      /\ Moved(s) /\ (exit' = exit \/ exit' = "failure")
  BY <1>1, MainClosesEffect, QueueNames DEF StopTaskQueue
<1>3. pc["producer"] = "off" /\ error["main"] # "0" /\ exit # "success"
  BY <1>1, <1>2, MainKnows DEF MainPhase
<1>4. pc'["main"] = s /\ (\A t \in Others : pc'[t] = pc[t]) /\ pc'["producer"] = "off"
  BY <1>2, <1>3, ThreadNames DEF Moved
<1>5. Existing'
  BY <1>2, <1>4, ExistingStays DEF Initializing, Stopping, CleaningResult
<1>6. MainPhase' /\ Joined'
  BY <1>2, <1>3, <1>4
     DEF MainPhase, Joined, JoinsSucceed, Initializing, Starting, Joining, Cleaning, CleaningTask, CleaningResult
<1> QED BY <1>2, <1>5, <1>6 DEF IInv, Course, Moved

LEMMA StopResultQueueKeeps == ASSUME IInv, StopResultQueue PROVE IInv' /\ RingsStep
<1> DEFINE s == "join_workers"
<1>1. s \in MainSteps /\ "stop_result" \notin Ending /\ "stop_result" \in Stopping
  BY DEF MainSteps, Stopping, Joining, Ending, Cleaning, CleaningTask, CleaningResult
<1>2. /\ RingsStep /\ Verdict' /\ QueuesKeep /\ pc["main"] = "stop_result" /\ initialized' = initialized
      /\ error' = error \/ error'["main"] # "0"
      /\ error'["main"] \in {"0", "EAGAIN"} => error["main"] = error'["main"]
      /\ Moved(s) /\ (exit' = exit \/ exit' = "failure")
  BY <1>1, MainClosesEffect, QueueNames DEF StopResultQueue
<1>3. pc["producer"] = "off" /\ error["main"] # "0" /\ exit # "success"
  BY <1>1, <1>2, MainKnows DEF MainPhase
<1>4. pc'["main"] = s /\ (\A t \in Others : pc'[t] = pc[t]) /\ pc'["producer"] = "off"
  BY <1>2, <1>3, ThreadNames DEF Moved
<1>5. Existing'
  BY <1>2, <1>4, ExistingStays DEF Initializing, Stopping, CleaningResult
<1>6. MainPhase' /\ Joined'
  BY <1>2, <1>3, <1>4
     DEF MainPhase, Joined, JoinsSucceed, Initializing, Starting, Stopping, Cleaning, CleaningTask, CleaningResult
<1> QED BY <1>2, <1>5, <1>6 DEF IInv, Course, Moved

LEMMA CloseResultQueueKeeps == ASSUME IInv, CloseResultQueue PROVE IInv' /\ RingsStep
<1>1. /\ "join_output" \in MainSteps /\ "exited" \in MainSteps /\ "close_result" \notin Ending
      /\ "close_result" \in Joining
  BY DEF MainSteps, Joining, Ending, Cleaning, CleaningTask, CleaningResult
<1>2. /\ RingsStep /\ Verdict' /\ QueuesKeep /\ pc["main"] = "close_result" /\ initialized' = initialized
      /\ error'["main"] \in {"0", "EAGAIN"} => error["main"] = error'["main"]
      /\ \/ Moved("join_output") /\ error'["main"] = "0" /\ exit' = exit
         \/ Moved("exited") /\ error'["main"] # "0" /\ exit' = "failure"
  BY <1>1, MainClosesEffect, QueueNames DEF CloseResultQueue
<1>3. /\ error["main"] = "0" /\ exit # "success" /\ pc["producer"] # "off" /\ started # {}
      /\ pc["producer"] \in {"off", "done"} /\ \A w \in Workers : pc[w] \in {"off", "done"}
  BY <1>1, <1>2, MainKnows DEF MainPhase, Joined, JoinsSucceed
<1>4. /\ (\A t \in Others : pc'[t] = pc[t]) /\ pc'["producer"] = pc["producer"]
      /\ (\A w \in Workers : pc'[w] = pc[w]) /\ started' = started
      /\ Control' /\ Work' /\ pc'["main"] \in {"join_output", "exited"}
      /\ pc'["main"] = "exited" => error'["main"] \notin {"0", "EAGAIN"}
      /\ exit' # "success"
  BY <1>2, <1>3, ThreadNames DEF Moved
<1>5. Existing'
  BY <1>1, <1>2, <1>3, <1>4, ExistingStays DEF Initializing, CleaningResult
<1>6. MainPhase' /\ Joined'
  BY <1>3, <1>4
     DEF MainPhase, Joined, JoinsSucceed, Initializing, Starting, Stopping, Joining, Cleaning, CleaningTask, CleaningResult
<1> QED BY <1>2, <1>4, <1>5, <1>6 DEF IInv, Course

(* A join succeeds: the step after it knows that the threads have ended.   *)
LEMMA JoinedKeeps ==
  ASSUME IInv, pc["main"] \in Joining, NEW s \in {"join_workers", "close_result", "join_output"},
         Goto("main", s), UNCHANGED <<error, exit>>, UNCHANGED <<queues, initialized>>, MainKeeps,
         s = "close_result" => exit # "failure",
         JoinsSucceed =>
           /\ pc["producer"] \in {"off", "done"}
           /\ s # "join_workers" => \A w \in Workers : pc[w] \in {"off", "done"}
  PROVE  IInv' /\ RingsStep
<1>1. /\ Control /\ Rings /\ Verdict /\ MainPhase /\ held["main"] = NULL /\ exit # "success"
      /\ pc["main"] \notin Ending /\ error \in [Threads -> Errors]
  BY MainKnows DEF Joining, Ending, Cleaning, CleaningTask, CleaningResult
<1>2. /\ error' = error /\ exit' = exit /\ rows' = rows /\ misreported' = misreported
      /\ s \in MainSteps /\ exit' \in {"none", "success", "failure"} /\ initialized' \subseteq Queues
      /\ initialized' = initialized
  BY <1>1 DEF MainKeeps, outputVars, MainSteps, Joining, Control
<1>3. ErrorsKeep("main") /\ QueuesKeep
  BY <1>1, <1>2, NoReport, RingsStay, ThreadNames
<1>4. Moved(s)
  BY <1>1, <1>2, <1>3, MainRests
<1>5. /\ pc'["main"] = s /\ (\A t \in Others : pc'[t] = pc[t]) /\ pc'["producer"] = pc["producer"]
      /\ (\A w \in Workers : pc'[w] = pc[w]) /\ started' = started
  BY <1>4, ThreadNames DEF Moved
<1>6. Existing'
  BY <1>2, <1>3, <1>5, ExistingStays DEF Initializing, Joining, CleaningResult
<1>7. MainPhase'
  <2>1. s = "close_result" => error'["main"] = "0"
    BY <1>1, <1>2 DEF Verdict
  <2> QED BY <1>1, <1>2, <1>5, <2>1 DEF MainPhase, Initializing, Starting, Stopping, Joining
<1>8. Joined'
  BY <1>2, <1>5 DEF Joined, JoinsSucceed, Cleaning, CleaningTask, CleaningResult
<1>9. Verdict'
  BY <1>1, <1>2, <1>3, VerdictStep
<1> QED BY <1>4, <1>6, <1>7, <1>8, <1>9 DEF IInv, Course, Moved

(* A join fails: from here on main knows nothing of the thread. *)
LEMMA JoinFailsKeeps ==
  ASSUME IInv, pc["main"] \in Joining, NEW s \in {"join_workers", "join_output", "clean_task", "exited"},
         "join" \in Faults, MainFails("EINVAL", s), UNCHANGED <<queues, initialized>>, MainKeeps
  PROVE  IInv' /\ RingsStep
<1>1. /\ Control /\ Rings /\ Verdict /\ MainPhase /\ held["main"] = NULL
      /\ pc["main"] \notin Ending /\ error \in [Threads -> Errors]
  BY MainKnows DEF Joining, Ending, Cleaning, CleaningTask, CleaningResult
<1>2. /\ Goto("main", s) /\ exit' = "failure" /\ ErrorsKeep("main")
      /\ error'["main"] \notin {"0", "EAGAIN"}
  BY <1>1, MainFailsReports
<1>3. /\ rows' = rows /\ misreported' = misreported /\ initialized' = initialized
      /\ s \in MainSteps /\ initialized' \subseteq Queues
  BY <1>1 DEF MainKeeps, outputVars, MainSteps, Joining, Ending, Cleaning, CleaningTask, Control
<1>4. Moved(s) /\ QueuesKeep
  BY <1>1, <1>2, <1>3, MainRests, RingsStay
<1>5. pc'["main"] = s /\ (\A t \in Others : pc'[t] = pc[t])
  BY <1>4 DEF Moved
<1>6. Existing'
  BY <1>2, <1>3, <1>4, <1>5, ExistingStays DEF Initializing, Joining, CleaningResult
<1>7. MainPhase' /\ Joined'
  BY <1>2, <1>5 DEF MainPhase, Joined, JoinsSucceed, Initializing, Starting, Stopping
<1>8. Verdict'
  BY <1>1, <1>2, <1>3, VerdictStep
<1> QED BY <1>4, <1>6, <1>7, <1>8 DEF IInv, Course, Moved

LEMMA JoinProducerKeeps == ASSUME IInv, JoinProducer PROVE IInv' /\ RingsStep
<1>1. /\ pc["main"] = "join_producer" /\ pc["main"] \in Joining
      /\ UNCHANGED <<queues, initialized>> /\ MainKeeps
      /\ \/ /\ \A t \in {"producer"} : pc[t] = "done"
            /\ Goto("main", "join_workers") /\ UNCHANGED <<error, exit>>
         \/ JoinFails("join_workers")
  BY DEF JoinProducer, Join, At, Joining
<1>2. CASE /\ \A t \in {"producer"} : pc[t] = "done"
           /\ Goto("main", "join_workers") /\ UNCHANGED <<error, exit>>
  BY <1>1, <1>2, JoinedKeeps
<1>3. CASE JoinFails("join_workers")
  BY <1>1, <1>3, JoinFailsKeeps DEF JoinFails
<1> QED BY <1>1, <1>2, <1>3

LEMMA JoinWorkersKeeps == ASSUME IInv, JoinWorkers PROVE IInv' /\ RingsStep
<1>1. /\ pc["main"] = "join_workers" /\ pc["main"] \in Joining
      /\ UNCHANGED <<queues, initialized>> /\ MainKeeps
      /\ \/ /\ \A t \in started : pc[t] = "done"
            /\ Goto("main", AfterWorkers) /\ UNCHANGED <<error, exit>>
         \/ JoinFails(AfterWorkers)
  BY DEF JoinWorkers, Join, At, Joining
<1>2. CASE /\ \A t \in started : pc[t] = "done"
           /\ Goto("main", AfterWorkers) /\ UNCHANGED <<error, exit>>
  <2>1. /\ AfterWorkers \in {"join_workers", "close_result", "join_output"}
        /\ AfterWorkers = "close_result" => exit # "failure"
    BY DEF AfterWorkers
  <2>2. JoinsSucceed => pc["producer"] \in {"off", "done"}
    BY <1>1, MainKnows DEF Joined, JoinsSucceed
  <2>3. \A w \in Workers : pc[w] \in {"off", "done"}
    BY <1>2, MainKnows DEF Control
  <2> QED BY <1>1, <1>2, <2>1, <2>2, <2>3, JoinedKeeps
<1>3. CASE JoinFails(AfterWorkers)
  <2>1. /\ "join" \in Faults
        /\ MainFails("EINVAL", "join_output") \/ MainFails("EINVAL", "exited")
    BY <1>3 DEF JoinFails, AfterWorkers
  <2> QED BY <1>1, <2>1, JoinFailsKeeps
<1> QED BY <1>1, <1>2, <1>3

-----------------------------------------------------------------------------
(* The end of the output, and the verdict. *)

(* As many rows as tasks, all of different tasks: every task has its row,  *)
(* and the other way round.                                                *)
LEMMA RowsCounted ==
  ASSUME rows \in Seq(1 .. TaskCount), \A i, j \in DOMAIN rows : rows[i] = rows[j] => i = j
  PROVE  Len(rows) = TaskCount <=> Written = 1 .. TaskCount
<1> DEFINE n == Len(rows)
           D == 1 .. n
           T == 1 .. TaskCount
<1>1. n \in Nat /\ DOMAIN rows = D /\ TaskCount \in Nat
  BY TaskCountAssumption
<1>2. IsFiniteSet(D) /\ Cardinality(D) = n
  <2>1. 1 \in Int /\ n \in Int
    BY <1>1
  <2>2. /\ IsFiniteSet(1 .. n)
        /\ Cardinality(1 .. n) = IF 1 > n THEN 0 ELSE n - 1 + 1
    BY <2>1, FS_Interval
  <2> QED BY <2>2, <1>1
<1>3. IsFiniteSet(T) /\ Cardinality(T) = TaskCount
  <2>1. 1 \in Int /\ TaskCount \in Int
    BY <1>1
  <2>2. /\ IsFiniteSet(1 .. TaskCount)
        /\ Cardinality(1 .. TaskCount) = IF 1 > TaskCount THEN 0 ELSE TaskCount - 1 + 1
    BY <2>1, FS_Interval
  <2> QED BY <2>2, <1>1
<1>4. Written \subseteq T
  BY <1>1 DEF Written
<1>5. rows \in Bijection(D, Written)
  <2> HIDE DEF n
  <2>1. rows \in [D -> Written]
    BY <1>1 DEF Written
  <2>2. \A y \in Written : \E i \in D : rows[i] = y
    BY <1>1 DEF Written
  <2>3. \A i, j \in D : rows[i] = rows[j] => i = j
    BY <1>1
  <2> HIDE DEF D
  <2> QED BY <2>1, <2>2, <2>3 DEF Bijection, Injection, Surjection, IsInjective
<1>6. Cardinality(Written) = n /\ IsFiniteSet(Written)
  <2>1. ExistsBijection(D, Written)
    BY <1>5 DEF ExistsBijection
  <2> HIDE DEF D, n
  <2> QED BY <1>2, <2>1, FS_Bijection
<1>7. Cardinality(Written) = Cardinality(T) => Written = T
  <2> HIDE DEF T
  <2> QED BY <1>3, <1>4, FS_Subset
<1> HIDE DEF n, T
<1> QED BY <1>3, <1>6, <1>7 DEF n, T

(* When main has joined all threads and none reports an error, both queues *)
(* are empty and every task has its row.                                   *)
LEMMA AllWritten ==
  ASSUME IInv, pc["main"] = "join_output", pc["output"] = "done", NoError
  PROVE  Written = 1 .. TaskCount /\ Len(rows) = TaskCount /\ received = TaskCount
<1>1. /\ Rings /\ Control /\ Hands /\ Owned /\ TasksAccounted /\ OutputState /\ Finished
      /\ MainPhase /\ Joined /\ pc["main"] \notin Ending /\ pc["main"] \in Joining
  BY DEF IInv, Work, Course, Joining, Ending, Cleaning, CleaningTask, CleaningResult
<1>2. \A t \in Threads : error[t] = "0"
  BY DEF NoError
<1>3. /\ pc["producer"] = "done" /\ started # {} /\ \A w \in Workers : pc[w] \in {"off", "done"}
  BY <1>1, <1>2, ThreadNames DEF MainPhase, Joined, JoinsSucceed
<1>4. task_index = TaskCount
  BY <1>1, <1>2, <1>3, ThreadNames DEF Finished
<1>5. queues["task_queue"].count = 0
  <2>1. PICK w \in Workers : pc[w] = "done"
    BY <1>1, <1>3 DEF Control
  <2> QED BY <1>1, <1>2, <2>1, ThreadNames DEF Finished, AtEnd
<1>6. queues["result_queue"].count = 0
  BY <1>1, <1>2, ThreadNames DEF Finished, AtEnd
<1>7. \A n \in Queues, i \in Slots : queues[n].items[i] = NULL
  <2>1. \A n \in Queues : RingOK(queues[n]) /\ queues[n].count = 0
    BY <1>1, <1>5, <1>6, QueueNames DEF Rings
  <2> QED BY <2>1, ContentsAreItems
<1>8. \A t \in Threads : held[t] = NULL
  BY <1>1, <1>3, ThreadNames DEF Hands
<1>9. Alive = {}
  <2>1. Reached = {}
    BY <1>1, <1>7, <1>8, ReachedFacts
  <2> QED BY <2>1 DEF Alive
<1>10. Begun = 1 .. TaskCount
  BY <1>2, <1>3, <1>4, ThreadNames DEF Begun
<1>11. Written = 1 .. TaskCount
  BY <1>1, <1>9, <1>10 DEF TasksAccounted, NoError
<1>12. Len(rows) = TaskCount
  BY <1>1, <1>11, RowsCounted DEF TasksAccounted
<1>13. received = Len(rows)
  BY <1>1, <1>2, ThreadNames DEF OutputState
<1> QED BY <1>11, <1>12, <1>13

LEMMA JoinOutputKeeps == ASSUME IInv, JoinOutput PROVE IInv' /\ RingsStep
<1> DEFINE complete == /\ \A t \in Others : error[t] = "0"
                       /\ received = TaskCount /\ Len(rows) = TaskCount
           s == "clean_task"
<1>1. /\ pc["main"] = "join_output" /\ pc["main"] \in Joining
      /\ UNCHANGED <<queues, initialized>> /\ MainKeeps
      /\ \/ /\ pc["output"] = "done" /\ Goto("main", s) /\ error' = error
            /\ exit' = IF exit = "none" /\ complete THEN "success" ELSE "failure"
         \/ JoinFails(s)
  BY DEF JoinOutput, JoinedOutput, At, Joining
<1>2. ASSUME pc["output"] = "done", Goto("main", s), error' = error,
             exit' = IF exit = "none" /\ complete THEN "success" ELSE "failure"
      PROVE  IInv' /\ RingsStep
  <2>1. /\ Control /\ Rings /\ Verdict /\ MainPhase /\ Joined /\ held["main"] = NULL /\ exit # "success"
        /\ pc["main"] \notin Ending /\ error \in [Threads -> Errors]
    BY <1>1, MainKnows DEF Joining, Ending, Cleaning, CleaningTask, CleaningResult
  <2>2. /\ rows' = rows /\ misreported' = misreported /\ initialized' = initialized
        /\ s \in MainSteps /\ initialized' \subseteq Queues /\ exit' \in {"none", "success", "failure"}
    BY <1>1, <1>2, <2>1 DEF MainKeeps, outputVars, MainSteps, Ending, Cleaning, CleaningTask, Control
  <2>3. ErrorsKeep("main")
    BY <1>2, <2>1, NoReport, ThreadNames
  <2>4. Moved(s) /\ QueuesKeep
    BY <1>1, <1>2, <2>1, <2>2, <2>3, MainRests, RingsStay
  <2>5. pc'["main"] = s /\ (\A t \in Others : pc'[t] = pc[t])
    BY <2>4 DEF Moved
  <2>6. Existing'
    BY <1>2, <2>2, <2>4, <2>5, ExistingStays
       DEF Initializing, Starting, Stopping, Joining, CleaningResult
  <2>7. MainPhase'
    BY <2>5 DEF MainPhase, Initializing, Starting, Stopping, Joining, Ending, Cleaning, CleaningTask
  <2>8. Joined'
    BY <1>1, <1>2, <2>1, <2>5, ThreadNames DEF Joined, JoinsSucceed
  <2>9. Verdict'
    <3>1. Written' = Written /\ (NoError' <=> NoError)
      BY <1>2, <2>2 DEF Written, NoError
    <3>2. NoError => Written = 1 .. TaskCount /\ Len(rows) = TaskCount /\ received = TaskCount
      BY <1>1, <1>2, AllWritten
    <3>3. NoError => exit = "none" /\ complete
      BY <2>1, <3>2, ThreadNames DEF Verdict, NoError, Control
    <3>4. exit = "none" /\ complete => NoError
      BY <2>1, ThreadNames DEF Verdict, NoError
    <3>5. error'["main"] # "0" => exit' = "failure"
      BY <1>2, <2>1 DEF Verdict
    <3> HIDE DEF complete
    <3> QED BY <1>2, <2>1, <2>2, <3>1, <3>2, <3>3, <3>4, <3>5 DEF Verdict
  <2> QED BY <2>4, <2>6, <2>7, <2>8, <2>9 DEF IInv, Course, Moved
<1>3. CASE JoinFails(s)
  BY <1>1, <1>3, JoinFailsKeeps DEF JoinFails
<1> QED BY <1>1, <1>2, <1>3

-----------------------------------------------------------------------------
(* The clean-up. *)

(* The queues that exist are the same after a step of the clean-up. *)
LEMMA CleaningKeeps ==
  ASSUME IInv, pc["main"] \in Cleaning, NEW s \in Cleaning, Moved(s), QueuesKeep,
         UNCHANGED initialized, Verdict',
         error'["main"] \in {"0", "EAGAIN"} => error["main"] \in {"0", "EAGAIN"},
         s \in CleaningResult => pc["main"] \in CleaningResult
  PROVE  IInv'
<1>1. /\ pc'["main"] = s /\ (\A t \in Others : pc'[t] = pc[t])
      /\ pc'["producer"] = pc["producer"] /\ pc'["output"] = pc["output"]
      /\ (\A w \in Workers : pc'[w] = pc[w]) /\ (error'["main"] = "0" => error["main"] = "0")
        /\ (error'["main"] \in {"0", "EAGAIN"} => error["main"] \in {"0", "EAGAIN"})
  BY ThreadNames DEF Moved, ErrorsKeep
<1>2. Existing'
  BY <1>1, ExistingStays
     DEF Initializing, Starting, Stopping, Joining, Cleaning, CleaningTask, CleaningResult
<1>3. MainPhase'
  BY <1>1 DEF MainPhase, Initializing, Starting, Stopping, Joining, Ending, Cleaning, CleaningTask,
              CleaningResult
<1>4. Joined'
  BY <1>1, MainKnows DEF Joined, JoinsSucceed, Cleaning, CleaningTask, CleaningResult
<1> QED BY <1>2, <1>3, <1>4 DEF IInv, Course, Moved

LEMMA CleanCloseKeeps ==
  ASSUME IInv, NEW n \in Queues, NEW step \in Cleaning \ {"free_task", "free_result"},
         NEW s \in Cleaning, MainCloses(n, step, s, s),
         s \in CleaningResult => step \in CleaningResult
  PROVE  IInv' /\ RingsStep
<1>1. s \in MainSteps /\ s \in Ending
  BY DEF MainSteps, Ending
<1>2. /\ RingsStep /\ Verdict' /\ QueuesKeep /\ pc["main"] = step /\ initialized' = initialized
      /\ error'["main"] \in {"0", "EAGAIN"} => error["main"] = error'["main"]
      /\ Moved(s)
  BY <1>1, MainClosesEffect
<1> QED BY <1>2, CleaningKeeps

LEMMA CleanPopKeeps ==
  ASSUME IInv, NEW n \in Queues, NEW step \in Cleaning \ {"free_task", "free_result"},
         NEW next \in {"free_task", "free_result"}, NEW ended \in Cleaning, CleanPop(n, step, next, ended),
         next \in CleaningResult => step \in CleaningResult,
         ended \in CleaningResult => step \in CleaningResult
  PROVE  IInv' /\ RingsStep
<1>1. /\ Rings /\ Owned /\ Control /\ Verdict /\ pc["main"] = step /\ held["main"] = NULL
      /\ held \in [Threads -> Items \cup {NULL}] /\ error \in [Threads -> Errors]
      /\ pc["main"] \in Cleaning
  <2>1. pc["main"] = step /\ step # "undefined"
    BY DEF CleanPop, At
  <2> QED BY <2>1, MainKnows
<1>2. /\ Pop("main", n, next, ended) /\ initialized' = initialized
      /\ exit' = IF error'["main"] = "0" THEN exit ELSE "failure"
      /\ UNCHANGED <<task_index, outputVars, started>> /\ UNCHANGED <<task_index, outputVars>>
      /\ UNCHANGED rows /\ UNCHANGED initialized /\ started' = started
  BY DEF CleanPop, outputVars
<1>3. /\ Rings' /\ RingsStep /\ QueuesKeep /\ ObjectsKept("main")
      /\ \/ Idle \/ TakesOver("main", next) \/ SeesEnd("main", n, ended) \/ GivesUp("main", ended)
  BY <1>1, <1>2, PopEffect, ThreadNames
<1>4. /\ Owned' /\ Alive' \subseteq Alive
      /\ misreported' = misreported \/ error'["main"] # "0"
  BY <1>3 DEF ObjectsKept
<1>5. initialized' \subseteq Queues /\ exit' \in {"none", "success", "failure"}
  BY <1>1, <1>2 DEF Control
<1>6. ASSUME Idle PROVE IInv'
  <2>1. exit' = exit
    BY <1>1, <1>2, <1>6 DEF Idle, callVars, Verdict
  <2>2. UNCHANGED <<task_index, outputVars, mainVars>>
    BY <1>2, <2>1 DEF mainVars
  <2> QED BY <1>3, <1>6, <2>2, IdleCall, ThreadNames
(* In the other cases main goes to a step s. *)
<1>7. ASSUME NEW s \in {next, ended}, Goto("main", s), ErrorsKeep("main"),
             held' \in [Threads -> Items \cup {NULL}],
             \A u \in Threads : u # "main" => held'[u] = held[u],
             held'["main"] # NULL => s \in {"free_task", "free_result", "undefined"},
             error'["main"] \in {"0", "EAGAIN"} => error["main"] = error'["main"]
      PROVE  IInv'
  <2>1. s \in Cleaning /\ s \in MainSteps /\ s \in Ending /\ (s \in CleaningResult => step \in CleaningResult)
    BY DEF MainSteps, Ending, Cleaning, CleaningTask, CleaningResult
  <2>2. Moved(s)
    BY <1>2, <1>3, <1>4, <1>5, <1>7, <2>1, MainMoves
  <2>3. Verdict'
    BY <1>1, <1>2, <1>4, <1>7, VerdictStep
  <2> QED BY <1>1, <1>2, <1>3, <1>7, <2>1, <2>2, <2>3, CleaningKeeps
<1>8. ASSUME TakesOver("main", next) PROVE IInv'
  <2>1. PICK x \in Items : held' = [held EXCEPT !["main"] = x]
    BY <1>8 DEF TakesOver
  <2>2. Goto("main", next) /\ ErrorsKeep("main") /\ error' = error
    BY <1>1, <1>8, NoReport, ThreadNames DEF TakesOver
  <2>3. /\ held' \in [Threads -> Items \cup {NULL}] /\ \A u \in Threads : u # "main" => held'[u] = held[u]
    BY <1>1, <2>1
  <2> QED BY <1>7, <2>2, <2>3
<1>9. ASSUME SeesEnd("main", n, ended) PROVE IInv'
  <2>1. Goto("main", ended) /\ ErrorsKeep("main") /\ error' = error /\ held' = held
    BY <1>1, <1>9, NoReport, ThreadNames DEF SeesEnd
  <2> QED BY <1>1, <1>7, <2>1
<1>10. ASSUME GivesUp("main", ended) PROVE IInv'
  <2>1. PICK err \in {"ECANCELED", "EINVAL", "EIO", "ENOMEM"} : Report("main", err)
    BY <1>10 DEF GivesUp
  <2>2. err \in Errors \ {"0"}
    BY DEF Errors
  <2>3. /\ ErrorsKeep("main")
        /\ error'["main"] = IF error["main"] \in {"0", "EAGAIN"} THEN err ELSE error["main"]
    BY <1>1, <2>1, <2>2, ReportFacts, ThreadNames
  <2>4. Goto("main", ended) /\ held' = [held EXCEPT !["main"] = NULL]
    BY <1>10 DEF GivesUp
  <2>5. /\ held'["main"] = NULL /\ held' \in [Threads -> Items \cup {NULL}]
        /\ \A u \in Threads : u # "main" => held'[u] = held[u]
    BY <1>1, <2>4, ThreadNames
  <2> QED BY <1>7, <2>3, <2>4, <2>5
<1> QED BY <1>3, <1>6, <1>8, <1>9, <1>10

LEMMA CleanFreeKeeps ==
  ASSUME IInv, NEW step \in Cleaning, NEW s \in Cleaning, CleanFree(step, s),
         s \in CleaningResult => step \in CleaningResult
  PROVE  IInv' /\ RingsStep
<1>1. /\ Rings /\ Owned /\ Control /\ Verdict /\ pc["main"] = step
      /\ held \in [Threads -> Items \cup {NULL}] /\ error \in [Threads -> Errors]
  BY MainKnows DEF CleanFree, At
<1>2. /\ heap' = heap \ {held["main"]} /\ held' = [held EXCEPT !["main"] = NULL]
      /\ Goto("main", s) /\ UNCHANGED queues /\ UNCHANGED misreported /\ error' = error
      /\ UNCHANGED <<task_index, outputVars, started>> /\ UNCHANGED rows
      /\ UNCHANGED initialized /\ exit' = exit
  BY DEF CleanFree, mainVars, outputVars
<1>3. Rings' /\ RingsStep /\ QueuesKeep /\ SameItems
  BY <1>1, <1>2, RingsStay
<1>4. Owned' /\ Reached' = Reached \ {held["main"]} /\ ErrorsKeep("main")
  BY <1>1, <1>2, <1>3, HandDrops, NoReport, ThreadNames
<1>5. Alive' \subseteq Alive
  BY <1>4, AliveIs
<1>6. /\ held'["main"] = NULL /\ held' \in [Threads -> Items \cup {NULL}]
      /\ \A u \in Threads : u # "main" => held'[u] = held[u]
  BY <1>1, <1>2, ThreadNames
<1>7. s \in MainSteps /\ s \in Ending /\ initialized' \subseteq Queues /\ exit' \in {"none", "success", "failure"}
  BY <1>1, <1>2 DEF MainSteps, Ending, Control
<1>8. Moved(s)
  BY <1>2, <1>3, <1>4, <1>5, <1>6, <1>7, MainMoves
<1>9. Verdict'
  BY <1>1, <1>2, <1>4, VerdictStep
<1>10. IInv'
  BY <1>1, <1>2, <1>3, <1>8, <1>9, CleaningKeeps
<1> QED BY <1>3, <1>10

(* A queue that is destroyed is closed and empty: it becomes as it was     *)
(* before its initialisation.                                              *)
LEMMA Destroyed ==
  ASSUME Rings, NEW n \in Queues, CanDestroy(queues[n]),
         queues' = [queues EXCEPT ![n] = pointer_queue_init]
  PROVE  /\ Rings' /\ RingsStep /\ SameItems
         /\ queues'[n].count = 0 /\ \A m \in Queues : m # n => queues'[m] = queues[m]
<1> DEFINE q2 == pointer_queue_init
<1>1. /\ RingOK(q2) /\ Contents(q2) = <<>> /\ q2.count = 0 /\ \A i \in Slots : q2.items[i] = NULL
  BY EmptyRing
<1>2. RingOK(queues[n]) /\ queues[n].closed /\ queues[n].count = 0
  BY DEF Rings, CanDestroy
<1>3. queues' = [queues EXCEPT ![n] = q2]
  OBVIOUS
<1> HIDE DEF q2
<1>4. /\ Rings' /\ RingsStep
      /\ queues'[n] = q2 /\ \A m \in Queues : m # n => queues'[m] = queues[m]
  BY <1>1, <1>2, <1>3, OneRingChanges
<1>5. q2.items = queues[n].items
  <2>1. q2.items \in [Slots -> Cells] /\ queues[n].items \in [Slots -> Cells]
    BY <1>1, <1>2, RingFacts
  <2>2. \A i \in Slots : q2.items[i] = queues[n].items[i]
    BY <1>1, <1>2, ContentsAreItems
  <2> QED BY <2>1, <2>2
<1> QED BY <1>1, <1>4, <1>5 DEF SameItems

LEMMA DestroyQueueKeeps ==
  ASSUME IInv, NEW n \in Queues, NEW step \in Cleaning \ {"free_task", "free_result"},
         NEW s \in Cleaning \cup {"exited"}, DestroyQueue(n, step, s),
         step = IF n = "task_queue" THEN "destroy_task" ELSE "destroy_result",
         s = IF n = "task_queue" /\ "result_queue" \in initialized THEN "clean_result" ELSE "exited"
  PROVE  IInv' /\ RingsStep
<1>1. /\ Rings /\ Owned /\ Control /\ Verdict /\ Joined /\ Existing /\ pc["main"] = step
      /\ held["main"] = NULL /\ held \in [Threads -> Items \cup {NULL}] /\ error \in [Threads -> Errors]
      /\ pc["main"] \in Cleaning /\ initialized \subseteq Queues
  <2>1. pc["main"] = step /\ step # "undefined"
    BY DEF DestroyQueue, At
  <2> QED BY <2>1, MainKnows DEF Control
<1>2. /\ MainKeeps /\ UNCHANGED <<held, heap, misreported>> /\ UNCHANGED <<task_index, outputVars, started>>
      /\ UNCHANGED rows /\ misreported' = misreported
      /\ \/ /\ CanDestroy(queues[n]) /\ queues' = [queues EXCEPT ![n] = pointer_queue_init]
            /\ initialized' = initialized \ {n}
            /\ Goto("main", s) /\ UNCHANGED <<error, exit>>
         \/ MainFails("EINVAL", s) /\ UNCHANGED <<queues, initialized>>
  BY DEF DestroyQueue, MainKeeps, outputVars
<1>3. s \in MainSteps /\ s \in Ending
  BY DEF MainSteps, Ending
(* Whatever the outcome, main has moved on. *)
<1>4. ASSUME Moved(s), Verdict', Existing' PROVE IInv'
  <2>1. /\ pc'["main"] = s /\ (\A t \in Others : pc'[t] = pc[t])
        /\ pc'["producer"] = pc["producer"] /\ pc'["output"] = pc["output"]
        /\ (\A w \in Workers : pc'[w] = pc[w]) /\ (error'["main"] = "0" => error["main"] = "0")
        /\ (error'["main"] \in {"0", "EAGAIN"} => error["main"] \in {"0", "EAGAIN"})
    BY <1>4, ThreadNames DEF Moved, ErrorsKeep
  <2>2. MainPhase'
    BY <1>3, <2>1 DEF MainPhase, Initializing, Starting, Stopping, Joining, Ending, Cleaning,
                      CleaningTask, CleaningResult
  <2>3. Joined'
    BY <1>1, <2>1 DEF Joined, JoinsSucceed, Cleaning, CleaningTask, CleaningResult
  <2> QED BY <1>4, <2>2, <2>3 DEF IInv, Course, Moved
<1>5. ASSUME CanDestroy(queues[n]), queues' = [queues EXCEPT ![n] = pointer_queue_init],
             initialized' = initialized \ {n}, Goto("main", s), UNCHANGED <<error, exit>>
      PROVE  IInv' /\ RingsStep
  <2>1. /\ Rings' /\ RingsStep /\ SameItems
        /\ queues'[n].count = 0 /\ \A m \in Queues : m # n => queues'[m] = queues[m]
    BY <1>1, <1>5, Destroyed
  <2>2. Owned' /\ Alive' = Alive /\ ErrorsKeep("main")
    BY <1>1, <1>2, <1>5, <2>1, ObjectsStay, AliveIs, NoReport, ThreadNames
  <2>3. /\ initialized' \subseteq Queues /\ exit' \in {"none", "success", "failure"}
        /\ held' \in [Threads -> Items \cup {NULL}] /\ held' = held
    BY <1>1, <1>2, <1>5 DEF Control
  <2>4. Moved(s)
    BY <1>1, <1>2, <1>3, <1>5, <2>1, <2>2, <2>3, MainMoves
  <2>5. Verdict'
    BY <1>1, <1>2, <1>5, <2>2, VerdictStep
  <2>6. Existing'
    <3>1. pc'["main"] = s /\ (\A t \in Others : pc'[t] = pc[t])
      BY <2>4 DEF Moved
    <3>2. \A m \in Queues \ initialized' : queues'[m].count = 0
      BY <1>1, <1>5, <2>1 DEF Existing, JoinsSucceed
    <3>3. JoinsSucceed' => QueuesOutliveThreads'
      <4>1. JoinsSucceed => \A t \in Others : pc[t] \in {"off", "done"}
        BY <1>1, ThreadNames DEF Joined, JoinsSucceed, Others
      <4> QED BY <1>5, <3>1, <4>1 DEF QueuesOutliveThreads, JoinsSucceed
    <3>4. error["main"] \in {"0", "EAGAIN"} =>
            /\ s \in CleaningResult => "task_queue" \notin initialized'
            /\ s = "exited" => initialized' = {}
      <4>1. error["main"] \in {"0", "EAGAIN"} /\ n = "result_queue" => "task_queue" \notin initialized
        BY <1>1, QueueNames DEF Existing, JoinsSucceed, CleaningResult
      <4>2. n = "task_queue" \/ n = "result_queue"
        BY QueueNames
      <4>3. n = "task_queue" => "task_queue" \notin initialized'
        BY <1>5
      <4>4. s = "exited" /\ n = "task_queue" => "result_queue" \notin initialized
        OBVIOUS
      <4>5. initialized' \subseteq Queues
        BY <1>1, <1>5
      <4>6. s \in CleaningResult => n = "task_queue"
        BY DEF CleaningResult
      <4> QED BY <1>5, <4>1, <4>2, <4>3, <4>4, <4>5, <4>6, QueueNames
    <3>5. s \notin Initializing /\ s \notin Starting \cup Stopping \cup Joining
      BY DEF Initializing, Starting, Stopping, Joining, Cleaning, CleaningTask, CleaningResult
    <3> QED BY <1>5, <3>1, <3>2, <3>3, <3>4, <3>5 DEF Existing, JoinsSucceed, Initializing
  <2> QED BY <1>4, <2>1, <2>4, <2>5, <2>6
<1>6. ASSUME MainFails("EINVAL", s), UNCHANGED <<queues, initialized>> PROVE IInv' /\ RingsStep
  <2>1. /\ Goto("main", s) /\ exit' = "failure" /\ ErrorsKeep("main")
        /\ error'["main"] \notin {"0", "EAGAIN"}
    BY <1>1, <1>6, MainFailsReports
  <2>2. initialized' \subseteq Queues /\ initialized' = initialized
    BY <1>1, <1>6
  <2>3. Moved(s) /\ QueuesKeep
    BY <1>1, <1>2, <1>3, <1>6, <2>1, <2>2, MainRests, RingsStay
  <2>4. Verdict'
    BY <1>1, <1>2, <2>1, VerdictStep
  <2>5. Existing'
    <3>1. pc'["main"] = s /\ (\A t \in Others : pc'[t] = pc[t])
      BY <2>3 DEF Moved
    <3>2. \A m \in Queues \ initialized' : queues'[m].count = 0
      BY <1>1, <2>2, <2>3 DEF Existing, JoinsSucceed, QueuesKeep
    <3>3. QueuesOutliveThreads => QueuesOutliveThreads'
      BY <2>2, <3>1 DEF QueuesOutliveThreads
    <3>4. s \notin Initializing /\ s \notin Starting \cup Stopping \cup Joining
      BY DEF Initializing, Starting, Stopping, Joining, Cleaning, CleaningTask, CleaningResult
    <3> QED BY <1>1, <2>1, <3>1, <3>2, <3>3, <3>4 DEF Existing, JoinsSucceed, Initializing
  <2> QED BY <1>4, <2>3, <2>4, <2>5 DEF Moved
<1> QED BY <1>2, <1>5, <1>6

LEMMA CleanUpTaskQueueKeeps == ASSUME IInv, CleanUpTaskQueue PROVE IInv' /\ RingsStep
<1>1. /\ \A s \in CleaningTask : s \in Cleaning /\ s \notin CleaningResult
      /\ "clean_task" \in CleaningTask /\ "empty_task" \in CleaningTask /\ "free_task" \in CleaningTask
      /\ "destroy_task" \in CleaningTask /\ "clean_result" \in Cleaning
  BY DEF Cleaning, CleaningTask, CleaningResult
<1>2. CASE MainCloses("task_queue", "clean_task", "empty_task", "empty_task")
  BY <1>1, <1>2, CleanCloseKeeps, QueueNames
<1>3. CASE CleanPop("task_queue", "empty_task", "free_task", "destroy_task")
  BY <1>1, <1>3, CleanPopKeeps, QueueNames
<1>4. CASE CleanFree("free_task", "empty_task")
  BY <1>1, <1>4, CleanFreeKeeps
<1>5. ASSUME DestroyQueue("task_queue", "destroy_task",
                          IF "result_queue" \in initialized THEN "clean_result" ELSE "exited")
      PROVE  IInv' /\ RingsStep
  <2> DEFINE s == IF "result_queue" \in initialized THEN "clean_result" ELSE "exited"
             n == "task_queue"
             step == "destroy_task"
  <2>1. /\ s \in Cleaning \cup {"exited"} /\ DestroyQueue(n, step, s) /\ n \in Queues
        /\ step \in Cleaning \ {"free_task", "free_result"}
        /\ step = IF n = "task_queue" THEN "destroy_task" ELSE "destroy_result"
        /\ s = IF n = "task_queue" /\ "result_queue" \in initialized THEN "clean_result" ELSE "exited"
    BY <1>1, <1>5, QueueNames
  <2> HIDE DEF s, n, step
  <2> QED BY <2>1, DestroyQueueKeeps
<1> QED BY <1>2, <1>3, <1>4, <1>5 DEF CleanUpTaskQueue

LEMMA CleanUpResultQueueKeeps == ASSUME IInv, CleanUpResultQueue PROVE IInv' /\ RingsStep
<1>1. /\ \A s \in CleaningResult : s \in Cleaning
      /\ "clean_result" \in CleaningResult /\ "empty_result" \in CleaningResult
      /\ "free_result" \in CleaningResult /\ "destroy_result" \in CleaningResult
  BY DEF Cleaning, CleaningResult
<1>2. CASE MainCloses("result_queue", "clean_result", "empty_result", "empty_result")
  BY <1>1, <1>2, CleanCloseKeeps, QueueNames
<1>3. CASE CleanPop("result_queue", "empty_result", "free_result", "destroy_result")
  BY <1>1, <1>3, CleanPopKeeps, QueueNames
<1>4. CASE CleanFree("free_result", "empty_result")
  BY <1>1, <1>4, CleanFreeKeeps
<1>5. ASSUME DestroyQueue("result_queue", "destroy_result", "exited") PROVE IInv' /\ RingsStep
  <2> DEFINE n == "result_queue"
             step == "destroy_result"
             s == "exited"
  <2>1. /\ s \in Cleaning \cup {"exited"} /\ DestroyQueue(n, step, s) /\ n \in Queues
        /\ step \in Cleaning \ {"free_task", "free_result"}
        /\ step = IF n = "task_queue" THEN "destroy_task" ELSE "destroy_result"
        /\ s = IF n = "task_queue" /\ "result_queue" \in initialized THEN "clean_result" ELSE "exited"
    BY <1>1, <1>5, QueueNames
  <2> HIDE DEF s, n, step
  <2> QED BY <2>1, DestroyQueueKeeps
<1> QED BY <1>2, <1>3, <1>4, <1>5 DEF CleanUpResultQueue

(* The run ends where its behaviour becomes undefined. *)
LEMMA UndefinedKeeps == ASSUME IInv, UndefinedBehaviour PROVE IInv' /\ RingsStep
<1> DEFINE s == "undefined"
<1>1. /\ Goto("main", s) /\ queues' = queues /\ UNCHANGED <<held, heap, misreported>> /\ held' = held
      /\ error' = error /\ UNCHANGED <<task_index, outputVars, started>> /\ UNCHANGED rows
      /\ UNCHANGED initialized /\ exit' = exit /\ misreported' = misreported
  BY DEF UndefinedBehaviour, callVars, mainVars, outputVars
<1>2. /\ Rings /\ Owned /\ Control /\ Verdict /\ error \in [Threads -> Errors]
      /\ held \in [Threads -> Items \cup {NULL}]
  BY MainKnows
<1>3. Rings' /\ RingsStep /\ QueuesKeep /\ SameItems
  BY <1>1, <1>2, RingsStay
<1>4. Owned' /\ Alive' = Alive /\ ErrorsKeep("main")
  BY <1>1, <1>2, <1>3, ObjectsStay, AliveIs, NoReport, ThreadNames
<1>5. s \in MainSteps /\ s \in Ending /\ initialized' \subseteq Queues /\ exit' \in {"none", "success", "failure"}
  BY <1>1, <1>2 DEF MainSteps, Ending, Control
<1>6. Moved(s)
  BY <1>1, <1>2, <1>3, <1>4, <1>5, MainMoves
<1>7. pc'["main"] = s /\ (\A t \in Others : pc'[t] = pc[t])
  BY <1>6 DEF Moved
<1>8. Existing'
  BY <1>1, <1>3, <1>7, ExistingStays DEF Initializing, Starting, Stopping, Joining, CleaningResult
<1>9. MainPhase' /\ Joined'
  BY <1>7 DEF MainPhase, Joined, JoinsSucceed, Initializing, Starting, Stopping, Joining, Ending, Cleaning,
              CleaningTask, CleaningResult
<1>10. Verdict'
  BY <1>1, <1>2, <1>4, VerdictStep
<1> QED BY <1>3, <1>6, <1>8, <1>9, <1>10 DEF IInv, Course, Moved

-----------------------------------------------------------------------------
(* The invariant. *)

LEMMA InitEstablishes == Init => IInv /\ \A n \in Queues : Ring(n)!QueueInit
<1> SUFFICES ASSUME Init PROVE IInv /\ \A n \in Queues : Ring(n)!QueueInit
  OBVIOUS
<1>1. /\ queues = [n \in Queues |-> pointer_queue_init] /\ initialized = {}
      /\ pc = [t \in Threads |-> IF t = "main" THEN "init_task" ELSE "off"]
      /\ held = [t \in Threads |-> NULL] /\ heap = {} /\ error = [t \in Threads |-> "0"]
      /\ misreported = {}
      /\ task_index = 0 /\ output_file = FALSE /\ rows = <<>> /\ received = 0
      /\ started = {} /\ exit = "none"
  BY DEF Init
<1>2. /\ pc["main"] = "init_task" /\ \A t \in Others : pc[t] = "off"
  BY <1>1, ThreadNames
<1>3. \A n \in Queues : queues[n] = pointer_queue_init
  BY <1>1
<1>4. Rings
  <2>1. RingOK(pointer_queue_init) /\ pointer_queue_init \in PointerQueueType
    BY EmptyRing DEF RingOK
  <2>2. queues \in [Queues -> PointerQueueType]
    BY <1>1, <2>1
  <2> QED BY <1>3, <2>1, <2>2 DEF Rings
<1>5. Control
  <2>1. pc \in [Threads -> Steps]
    BY <1>1 DEF Steps, MainSteps, Initializing, ProducerSteps
  <2>2. error \in [Threads -> Errors]
    BY <1>1 DEF Errors
  <2> QED BY <1>1, <1>2, <2>1, <2>2, ThreadNames
          DEF Control, MainSteps, Initializing, ProducerSteps, WorkerSteps, OutputSteps
<1>6. Hands
  BY <1>1, <1>2, ThreadNames, TaskCountAssumption DEF Hands
<1>7. Owned /\ Alive = {}
  <2>1. \A p \in Spots : Objects[p] = NULL
    BY <1>1, <1>3, ObjectsAre, SpotsAre, EmptyRing
  <2> QED BY <1>1, <2>1 DEF Owned, OneEach, Reached, Alive
<1>8. TasksAccounted
  BY <1>1, <1>2, <1>7, ThreadNames DEF TasksAccounted, Written, Begun
<1>9. OutputState /\ Finished
  BY <1>1, <1>2, ThreadNames DEF OutputState, Finished
<1>10. MainPhase /\ Joined
  BY <1>1, <1>2 DEF MainPhase, Joined, JoinsSucceed, Initializing, Starting, Stopping, Joining, Cleaning,
                    CleaningTask, CleaningResult
<1>11. Existing
  <2>1. \A n \in Queues : queues[n].count = 0
    BY <1>3, EmptyRing
  <2> QED BY <1>1, <1>2, <2>1
          DEF Existing, JoinsSucceed, QueuesOutliveThreads, Starting, Stopping, Joining, CleaningResult
<1>12. Verdict
  BY <1>1, ThreadNames DEF Verdict
<1>13. \A n \in Queues : Ring(n)!QueueInit
  BY <1>3, EmptyRing DEF Ring!QueueInit
<1> QED BY <1>4, <1>5, <1>6, <1>7, <1>8, <1>9, <1>10, <1>11, <1>12, <1>13 DEF IInv, Work, Course

LEMMA StutterKeeps == ASSUME IInv, UNCHANGED vars PROVE IInv' /\ RingsStep
<1>1. /\ UNCHANGED queues /\ UNCHANGED <<held, heap, misreported>> /\ Idle
      /\ UNCHANGED <<task_index, outputVars, mainVars>>
  BY DEF vars, Idle, callVars, outputVars, mainVars
<1>2. Rings /\ Owned
  BY MainKnows
<1>3. Rings' /\ RingsStep /\ QueuesKeep /\ SameItems
  BY <1>1, <1>2, RingsStay
<1>4. Owned' /\ Alive' = Alive
  BY <1>1, <1>2, <1>3, ObjectsStay, AliveIs
<1> QED BY <1>1, <1>3, <1>4, IdleKeeps

LEMMA StepKeeps == IInv /\ [Next]_vars => IInv' /\ RingsStep
<1> SUFFICES ASSUME IInv, [Next]_vars PROVE IInv' /\ RingsStep
  OBVIOUS
<1>1. CASE Producer
  BY <1>1, ProducerAllocateKeeps, ProducerPushKeeps, ProducerCloseKeeps DEF Producer
<1>2. CASE Output
  BY <1>2, OutputOpenKeeps, OutputPopKeeps, OutputWriteKeeps, OutputCloseKeeps DEF Output
<1>3. CASE MainThread
  BY <1>3, InitTaskQueueKeeps, InitResultQueueKeeps, CreateOutputKeeps, CreateWorkerKeeps,
     CreateProducerKeeps, StopTaskQueueKeeps, StopResultQueueKeeps, JoinProducerKeeps,
     JoinWorkersKeeps, CloseResultQueueKeeps, JoinOutputKeeps, CleanUpTaskQueueKeeps,
     CleanUpResultQueueKeeps DEF MainThread
<1>4. ASSUME NEW w \in Workers, Worker(w) PROVE IInv' /\ RingsStep
  BY <1>4, WorkerPopKeeps, WorkerComputeKeeps, WorkerPushKeeps DEF Worker
<1>5. ASSUME NEW t \in Threads, SpuriousWakeup(t) PROVE IInv' /\ RingsStep
  BY <1>5, SpuriousWakeupKeeps
<1>6. CASE UndefinedBehaviour
  BY <1>6, UndefinedKeeps
<1> QED BY <1>1, <1>2, <1>3, <1>4, <1>5, <1>6, StutterKeeps DEF Next

(* The invariant holds in every run of the pipeline, whichever of its      *)
(* calls fail, until the run ends or its behaviour becomes undefined.      *)
THEOREM Invariance == Spec => []IInv
<1>1. Init => IInv
  BY InitEstablishes
<1>2. IInv /\ [Next]_vars => IInv'
  BY StepKeeps
<1> QED BY <1>1, <1>2, PTL DEF Spec

-----------------------------------------------------------------------------
(* The types. *)

LEMMA PushMisreports ==
  ASSUME held \in [Threads -> Items \cup {NULL}], misreported \subseteq Items,
         NEW t \in Threads, held[t] # NULL, NEW n, NEW next, NEW failed, Push(t, n, next, failed)
  PROVE  misreported' \subseteq Items
<1>1. held[t] \in Items
  OBVIOUS
<1> QED BY <1>1 DEF Push, FailsAfterEffect, callVars

LEMMA PopMisreports ==
  ASSUME Rings, misreported \subseteq Items,
         NEW t, NEW n \in Queues, NEW next, NEW ended, Pop(t, n, next, ended)
  PROVE  misreported' \subseteq Items
<1> DEFINE q == queues[n]
           x == q.items[q.head]
<1>1. ASSUME ~MustWaitToPop(q), PopError(q) = "0", NEW after \in AfterPop(q) PROVE x \in Items
  <2>1. RingOK(q) /\ q.count # 0
    BY <1>1 DEF Rings, PopError
  <2> HIDE DEF q
  <2> QED BY <1>1, <2>1, PopTakes
<1>2. misreported' = misreported \/ (misreported' = misreported \cup {x} /\ x \in Items)
  <2> HIDE DEF x
  <2> QED BY <1>1 DEF Pop, FailsAfterEffect, callVars, x
<1> QED BY <1>2

LEMMA StepMisreports == IInv /\ misreported \subseteq Items /\ [Next]_vars => misreported' \subseteq Items
<1> SUFFICES ASSUME IInv, misreported \subseteq Items, [Next]_vars PROVE misreported' \subseteq Items
  OBVIOUS
<1>1. /\ Rings /\ Hands /\ held \in [Threads -> Items \cup {NULL}]
      /\ "task_queue" \in Queues /\ "result_queue" \in Queues
      /\ "producer" \in Threads /\ "output" \in Threads /\ \A w \in Workers : w \in Threads
  BY DEF IInv, Work, Hands, Queues, Threads, Others
<1>2. ASSUME NEW t \in Threads, NEW n \in Queues, NEW next, NEW failed, held[t] # NULL,
             Push(t, n, next, failed)
      PROVE  misreported' \subseteq Items
  BY <1>1, <1>2, PushMisreports
<1>3. ASSUME NEW t \in Threads, NEW n \in Queues, NEW next, NEW ended, Pop(t, n, next, ended)
      PROVE  misreported' \subseteq Items
  BY <1>1, <1>3, PopMisreports
<1>4. CASE ProducerPush
  <2>1. held["producer"] # NULL
    BY <1>1, <1>4, TaskCountAssumption, NullIsNoItem
       DEF Hands, ProducerPush, At, Items
  <2> QED BY <1>1, <1>2, <1>4, <2>1 DEF ProducerPush
<1>5. ASSUME NEW w \in Workers, WorkerPush(w) PROVE misreported' \subseteq Items
  <2>1. held[w] # NULL
    BY <1>1, <1>5 DEF Hands, WorkerPush, At
  <2> QED BY <1>1, <1>2, <1>5, <2>1 DEF WorkerPush
<1>6. ASSUME NEW w \in Workers, WorkerPop(w) PROVE misreported' \subseteq Items
  BY <1>1, <1>3, <1>6 DEF WorkerPop
<1>7. CASE OutputPop
  BY <1>1, <1>3, <1>7 DEF OutputPop
<1>8. CASE CleanUpTaskQueue \/ CleanUpResultQueue
  <2>1. "main" \in Threads
    BY DEF Threads
  <2>2. ASSUME NEW n \in Queues, NEW step, NEW next, NEW ended, CleanPop(n, step, next, ended)
        PROVE  misreported' \subseteq Items
    BY <1>3, <2>1, <2>2 DEF CleanPop
  <2> QED BY <1>1, <1>8, <2>2 DEF CleanUpTaskQueue, CleanUpResultQueue, MainCloses, MainKeeps,
                                CleanFree, DestroyQueue
<1>9. CASE \/ ProducerAllocate \/ ProducerClose \/ OutputOpen \/ OutputWrite \/ OutputClose
           \/ InitTaskQueue \/ InitResultQueue \/ CreateOutput \/ CreateWorker \/ CreateProducer
           \/ StopTaskQueue \/ StopResultQueue \/ JoinProducer \/ JoinWorkers
           \/ CloseResultQueue \/ JoinOutput \/ UndefinedBehaviour
  BY <1>9 DEF ProducerAllocate, ProducerClose, OutputOpen, OutputWrite, OutputClose,
     InitTaskQueue, InitResultQueue, InitQueue, CreateOutput, CreateWorker, CreateProducer, Create,
     StopTaskQueue, StopResultQueue, CloseResultQueue, MainCloses, JoinProducer, JoinWorkers, Join,
     JoinOutput, JoinedOutput, MainKeeps, UndefinedBehaviour, callVars
<1>10. ASSUME NEW w \in Workers, WorkerCompute(w) PROVE misreported' \subseteq Items
  BY <1>10 DEF WorkerCompute
<1>11. ASSUME NEW t \in Threads, SpuriousWakeup(t) PROVE misreported' \subseteq Items
  BY <1>11 DEF SpuriousWakeup, callVars
<1>12. CASE UNCHANGED vars
  BY <1>12 DEF vars
<1> QED BY <1>4, <1>5, <1>6, <1>7, <1>8, <1>9, <1>10, <1>11, <1>12
        DEF Next, Producer, Worker, Output, MainThread

(* Every variable stays in its type. *)
THEOREM TypeCorrect == Spec => []TypeOK
<1>1. Init => misreported \subseteq Items
  BY DEF Init
<1>2. IInv /\ misreported \subseteq Items /\ [Next]_vars => (misreported \subseteq Items)'
  BY StepMisreports DEF Items, Task, Result
<1>3. IInv /\ misreported \subseteq Items => TypeOK
  <2> SUFFICES ASSUME IInv, misreported \subseteq Items PROVE TypeOK
    OBVIOUS
  <2>1. /\ queues \in [Queues -> PointerQueueType]
        /\ Control /\ Hands /\ Owned /\ TasksAccounted /\ OutputState
    BY DEF IInv, Work, Rings
  <2> QED BY <2>1 DEF Control, Hands, Owned, TasksAccounted, OutputState, Errors, TypeOK
<1> QED BY <1>1, <1>2, <1>3, Invariance, PTL DEF Spec

-----------------------------------------------------------------------------
(* What the invariant says of the runs' properties. *)

LEMMA ItemsFinite == IsFiniteSet(Items)
<1> DEFINE D == 1 .. TaskCount
           A == {Task(i) : i \in D}
           B == {Result(i) : i \in D}
<1>1. IsFiniteSet(D)
  <2>1. 1 \in Int /\ TaskCount \in Int
    BY TaskCountAssumption
  <2> QED BY <2>1, FS_Interval
<1>2. IsFiniteSet(A)
  <2> DEFINE f == [i \in D |-> Task(i)]
  <2>1. f \in Surjection(D, A)
    BY DEF Surjection
  <2> HIDE DEF f, D, A
  <2> QED BY <1>1, <2>1, FS_Surjection
<1>3. IsFiniteSet(B)
  <2> DEFINE f == [i \in D |-> Result(i)]
  <2>1. f \in Surjection(D, B)
    BY DEF Surjection
  <2> HIDE DEF f, D, B
  <2> QED BY <1>1, <2>1, FS_Surjection
<1>4. IsFiniteSet(A \cup B)
  <2> HIDE DEF A, B
  <2> QED BY <1>2, <1>3, FS_Union
<1> QED BY <1>4 DEF Items

LEMMA OneOwner == IInv => EveryObjectHasOneOwner
<1> SUFFICES ASSUME IInv PROVE EveryObjectHasOneOwner
  OBVIOUS
<1> DEFINE f == [p \in OwnedPlaces |-> ObjectAt(p)]
<1>1. Rings /\ held \in [Threads -> Items \cup {NULL}] /\ Owned
  BY MainKnows
<1>2. OwnedPlaces = {p \in Spots : Objects[p] # NULL}
  <2>1. ASSUME NEW p \in Places PROVE p \in Spots
    BY <2>1 DEF Places, Spots
  <2>2. ASSUME NEW p \in Spots, ObjectAt(p) # NULL PROVE p \in Places
    <3>1. CASE \E t \in Threads : p = <<t>>
      BY <3>1, <2>2 DEF Places, ObjectAt
    <3>2. CASE \E n \in Queues, i \in Slots : p = <<n, i>>
      <4>1. PICK n \in Queues, i \in Slots : p = <<n, i>>
        BY <3>2
      <4>2. queues[n].items[i] # NULL
        BY <4>1, <2>2, ObjectsAre
      <4> QED BY <4>1, <4>2 DEF Places
    <3> QED BY <3>1, <3>2, SpotsAre
  <2> QED BY <2>1, <2>2, ObjectsAre DEF OwnedPlaces
<1>3. \A p, q \in Spots : Objects[p] # NULL /\ Objects[q] # NULL /\ Objects[p].id = Objects[q].id => p = q
  BY <1>1 DEF Owned, OneEach
<1>4. \A p \in Spots : Objects[p] = ObjectAt(p) /\ Objects[p] \in Items \cup {NULL}
  BY <1>1, ObjectsAre, ObjectsType
<1>5. OwnedObjects = Reached
  <2>1. \A x : x \in Reached <=> x # NULL /\ \E p \in Spots : ObjectAt(p) = x
    BY <1>4 DEF Reached
  <2>2. \A p : p \in OwnedPlaces <=> p \in Spots /\ ObjectAt(p) # NULL
    BY <1>2, <1>4
  <2>3. \A x \in OwnedObjects : x \in Reached
    BY <2>1, <2>2 DEF OwnedObjects
  <2>4. \A x \in Reached : x \in OwnedObjects
    BY <2>1, <2>2 DEF OwnedObjects
  <2> QED BY <2>3, <2>4
<1>6. f \in Injection(OwnedPlaces, Reached)
  <2>1. \A p \in OwnedPlaces : f[p] \in Reached /\ f[p] # NULL /\ f[p] = Objects[p] /\ p \in Spots
    BY <1>2, <1>4, <1>5 DEF OwnedObjects
  <2>2. f \in [OwnedPlaces -> Reached]
    BY <2>1
  <2> HIDE DEF f
  <2>3. \A p, q \in OwnedPlaces : f[p] = f[q] => p = q
    BY <1>3, <2>1
  <2> QED BY <2>2, <2>3 DEF Injection, IsInjective
<1>7. f \in Surjection(OwnedPlaces, Reached)
  <2>1. \A x \in Reached : \E p \in OwnedPlaces : f[p] = x
    BY <1>5 DEF OwnedObjects
  <2> QED BY <1>6, <2>1 DEF Surjection, Injection
<1>8. IsFiniteSet(Reached)
  <2>1. Reached \subseteq Items
    BY <1>4 DEF Reached
  <2> QED BY <2>1, ItemsFinite, FS_Subset
<1>9. Cardinality(OwnedPlaces) = Cardinality(Reached)
  <2> HIDE DEF f
  <2> QED BY <1>6, <1>7, <1>8, FS_Injection
<1> QED BY <1>1, <1>5, <1>9 DEF EveryObjectHasOneOwner, Owned

LEMMA RowsMatch == IInv => RowsMatchTasks
<1> SUFFICES ASSUME IInv PROVE RowsMatchTasks
  OBVIOUS
<1>1. TasksAccounted /\ Verdict
  BY DEF IInv, Work, Course
<1>2. \A i, j \in DOMAIN rows : rows[i] = rows[j] => i = j
  BY <1>1 DEF TasksAccounted
<1>3. exit = "success" => {rows[i] : i \in DOMAIN rows} = 1 .. TaskCount
  BY <1>1 DEF Verdict, Written
<1>4. exit = "failure" => \E t \in Threads : error[t] # "0"
  BY <1>1 DEF Verdict, NoError
<1> QED BY <1>2, <1>3, <1>4 DEF RowsMatchTasks

LEMMA ExitIsClean == IInv => CleanExit
<1> SUFFICES ASSUME IInv PROVE CleanExit
  OBVIOUS
<1>1. /\ Rings /\ Control /\ Hands /\ Owned /\ OutputState /\ Existing /\ Verdict
  BY DEF IInv, Work, Course
<1>2. JoinsSucceed => QueuesOutliveThreads
  BY <1>1 DEF Existing, JoinsSucceed
<1>3. ASSUME pc["main"] = "exited", \A t \in Others : pc[t] \in {"off", "done"}
      PROVE  /\ ~output_file /\ heap \ misreported = LeftInQueues \ misreported
             /\ error["main"] \in {"0", "EAGAIN"} => initialized = {}
             /\ exit = "success" => heap = {}
  <2>1. ~output_file
    BY <1>1, <1>3, ThreadNames DEF OutputState
  <2>2. \A t \in Threads : held[t] = NULL
    BY <1>1, <1>3, ThreadNames DEF Hands
  <2>3. \A n \in Queues : {Contents(queues[n])[i] : i \in 1 .. queues[n].count}
                            = {queues[n].items[s] : s \in Slots} \ {NULL}
    BY <1>1, ContentsAreItems DEF Rings
  <2>4. \A n \in Queues \ initialized, s \in Slots : queues[n].items[s] = NULL
    <3>1. \A n \in Queues \ initialized : RingOK(queues[n]) /\ queues[n].count = 0
      BY <1>1 DEF Existing, JoinsSucceed, Rings
    <3> QED BY <3>1, ContentsAreItems
  <2>5. Reached = LeftInQueues
    <3>1. \A x : x \in LeftInQueues <=>
                   x # NULL /\ \E n \in initialized, s \in Slots : queues[n].items[s] = x
      <4> DEFINE inQueue(n) == {Contents(queues[n])[i] : i \in 1 .. queues[n].count}
      <4>1. \A n \in initialized : n \in Queues
        BY <1>1 DEF Control
      <4>2. LeftInQueues = UNION {inQueue(n) : n \in initialized}
        BY DEF LeftInQueues
      <4>3. \A n \in initialized : inQueue(n) = {queues[n].items[s] : s \in Slots} \ {NULL}
        BY <2>3, <4>1
      <4> HIDE DEF inQueue
      <4>4. \A x : x \in LeftInQueues <=> \E n \in initialized : x \in inQueue(n)
        BY <4>2
      <4>5. \A n \in initialized : \A x :
              x \in inQueue(n) <=> x # NULL /\ \E s \in Slots : queues[n].items[s] = x
        BY <4>3
      <4> QED BY <4>4, <4>5
    <3>2. \A x : x \in Reached <=> x # NULL /\ \E p \in Spots : Objects[p] = x
      BY DEF Reached
    <3>3. ASSUME NEW x \in Reached PROVE x \in LeftInQueues
      <4>1. x # NULL /\ \E n \in Queues, s \in Slots : queues[n].items[s] = x
        BY <1>1, <2>2, ReachedFacts
      <4>2. PICK n \in Queues, s \in Slots : queues[n].items[s] = x
        BY <4>1
      <4>3. n \in initialized
        BY <2>4, <4>1, <4>2
      <4> QED BY <3>1, <4>1, <4>2, <4>3
    <3>4. ASSUME NEW x \in LeftInQueues PROVE x \in Reached
      <4>1. x # NULL /\ \E n \in initialized, s \in Slots : queues[n].items[s] = x
        BY <3>1
      <4>2. PICK n \in initialized, s \in Slots : queues[n].items[s] = x
        BY <4>1
      <4>3. n \in Queues
        BY <1>1, <4>2 DEF Control
      <4>4. <<n, s>> \in Spots /\ Objects[<<n, s>>] = x
        BY <4>2, <4>3, SpotsAre, ObjectsAre
      <4> QED BY <3>2, <4>1, <4>4
    <3> QED BY <3>3, <3>4
  <2>6. heap \ misreported = LeftInQueues \ misreported
    <3> QED BY <1>1, <2>5 DEF Owned
  <2>7. error["main"] \in {"0", "EAGAIN"} => initialized = {}
    BY <1>1, <1>3 DEF Existing, JoinsSucceed
  <2>8. exit = "success" => heap = {}
    <3> SUFFICES ASSUME exit = "success" PROVE heap = {}
      OBVIOUS
    <3>1. error["main"] = "0" /\ misreported = {}
      BY <1>1, ThreadNames DEF Verdict, NoError
    <3>2. initialized = {}
      BY <2>7, <3>1
    <3>3. LeftInQueues = {}
      BY <3>2 DEF LeftInQueues
    <3> QED BY <2>6, <3>1, <3>3
  <2> QED BY <2>1, <2>6, <2>7, <2>8
<1> QED BY <1>2, <1>3 DEF CleanExit

(* No object ever has two owners, whichever calls fail; and but for those  *)
(* of calls that failed after their effect, every object that is allocated *)
(* has one, and what was freed is reachable from nowhere.                  *)
THEOREM OwnerCorrect == Spec => []EveryObjectHasOneOwner
BY Invariance, OneOwner, PTL

(* No task has two rows, success means that each has one, and failure that *)
(* a thread met an error.                                                  *)
THEOREM RowsCorrect == Spec => []RowsMatchTasks
BY Invariance, RowsMatch, PTL

(* When main returns after the other threads, the file is closed, what is  *)
(* left is in queues that a failing call kept from being destroyed, and a  *)
(* run that succeeds leaves nothing; and no queue is destroyed before its  *)
(* time unless a join failed.                                              *)
THEOREM ExitCorrect == Spec => []CleanExit
BY Invariance, ExitIsClean, PTL

(* Both rings implement the bounded queue that pointer_queue.h promises.   *)
THEOREM Refinement == Spec => RingsImplementBoundedQueue
<1>1. Init => \A n \in Queues : Ring(n)!QueueInit
  BY InitEstablishes
<1>2. IInv /\ [Next]_vars => [\A n \in Queues : [Ring(n)!QueueNext]_(Ring(n)!queueVars)]_vars
  BY StepKeeps DEF RingsStep
<1> QED BY <1>1, <1>2, Invariance, PTL DEF Spec, RingsImplementBoundedQueue
=============================================================================
