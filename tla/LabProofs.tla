------------------------------ MODULE LabProofs ------------------------------
(***************************************************************************)
(* The two programs of labs/.                                              *)
(*                                                                         *)
(* The ring of labs/blocking_queue implements the bounded queue, and its   *)
(* consumers see every value once, for every capacity, every number of     *)
(* threads and values, and every failure of the thread library that is     *)
(* modelled.                                                               *)
(*                                                                         *)
(* The client and the server of labs/tcp_framing implement the message     *)
(* channel, close what they open and end truthfully, for every script,     *)
(* every size of the buffers, every way of cutting the stream and every    *)
(* failure of the network that is modelled.                                *)
(***************************************************************************)
EXTENDS BlockingQueue, TcpFraming, ProofLemmas

-----------------------------------------------------------------------------
(* The invariant. *)

Cells == Values \cup {Unset}

RingType ==
  /\ items \in RingOf(Cells, QUEUE_CAPACITY)
  /\ head \in 0 .. QUEUE_CAPACITY - 1
  /\ count \in Nat /\ count <= QUEUE_CAPACITY
  /\ tail = Cell(head, count + 1, QUEUE_CAPACITY)
  /\ closed \in BOOLEAN

Steps == {"off", "init", "call", "close", "join", "done", "exited"}

ClientType ==
  /\ pc \in [Threads \cup {"main"} -> Steps]
  /\ pushed \in [Producers -> 0 .. ItemCount]

(* Main joins a thread only after the queue was closed, and no thread runs *)
(* before main has set the queue up or after it has destroyed it.          *)
Joined ==
  /\ pc["main"] \in {"init", "join", "exited"}
  /\ \A t \in Threads :
       /\ pc[t] \in {"off", "call", "close", "done"}
       /\ pc[t] = "done" /\ pc["main"] # "exited" => closed
       /\ pc["main"] = "exited" => pc[t] \in {"off", "done"}
       /\ pc["main"] = "init" => pc[t] = "off"

QueueInv == RingType /\ ClientType /\ Joined

(* What a step does to the queue that queue.h promises. *)
QueueStep == [Ring!QueueNext]_<<Contents, closed>>

LEMMA CapacityType == QUEUE_CAPACITY \in Nat /\ 0 < QUEUE_CAPACITY
BY CapacityAssumption

LEMMA ContentsIsRing == Contents = RingSeq(items, head, count, QUEUE_CAPACITY)
BY DEF Contents, RingSeq, Cell

(* The queue holds a sequence of cells. *)
LEMMA ContentsType ==
  ASSUME RingType
  PROVE  Contents \in Seq(Cells) /\ Len(Contents) = count
<1>1. /\ QUEUE_CAPACITY \in Nat /\ 0 < QUEUE_CAPACITY
      /\ items \in RingOf(Cells, QUEUE_CAPACITY) /\ head \in 0 .. QUEUE_CAPACITY - 1
      /\ count \in Nat /\ count <= QUEUE_CAPACITY
  BY CapacityType DEF RingType
<1> QED BY <1>1, RingIsSequence, ContentsIsRing

(* An empty ring, wherever its head, is the empty queue. *)
LEMMA EmptyRing == ASSUME count = 0 PROVE Contents = <<>>
BY DEF Contents

(* Storing a value at the tail appends it to the queue. *)
LEMMA EnqueuePuts ==
  ASSUME RingType, NEW v \in Values, count < QUEUE_CAPACITY, ~closed,
         items' = [items EXCEPT ![tail] = v], tail' = (tail + 1) % QUEUE_CAPACITY,
         count' = count + 1, UNCHANGED <<head, closed>>
  PROVE  RingType' /\ Contents' = Append(Contents, v) /\ Ring!Put(v)
<1> DEFINE C == QUEUE_CAPACITY
           n == count + 1
           r2 == Stored(items, Cell(head, n, C), v)
<1>1. /\ C \in Nat /\ 0 < C /\ items \in RingOf(Cells, C) /\ head \in 0 .. C - 1
      /\ count \in Nat /\ count < C /\ v \in Cells
  BY CapacityType DEF RingType, Cells
<1>2. /\ r2 \in RingOf(Cells, C)
      /\ RingSeq(r2, head, n, C) = Append(RingSeq(items, head, count, C), v)
  <2> HIDE DEF C
  <2> QED BY <1>1, RingPush
<1>3. items' = r2 /\ head' = head /\ count' = n
  BY DEF RingType, Stored
<1>4. tail' = Cell(head, n + 1, C)
  <2>1. n \in 1 .. C
    BY <1>1
  <2>2. \A i \in 1 .. C : (Cell(head, i, C) + 1) % C = Cell(head, i + 1, C)
    <3> HIDE DEF C
    <3> QED BY <1>1, RingCells
  <2>3. (Cell(head, n, C) + 1) % C = Cell(head, n + 1, C)
    <3> HIDE DEF n
    <3> QED BY <2>1, <2>2
  <2> QED BY <2>3 DEF RingType
<1>5. RingType'
  <2>1. n \in Nat /\ n <= C
    BY <1>1
  <2> HIDE DEF n, r2
  <2> QED BY <1>1, <1>2, <1>3, <1>4, <2>1 DEF RingType
<1>6. Contents' = Append(Contents, v)
  <2>1. Contents' = RingSeq(items', head', count', C)
    BY DEF Contents, RingSeq, Cell
  <2> HIDE DEF n, r2
  <2> QED BY <2>1, <1>2, <1>3, ContentsIsRing
<1>7. Len(Contents) < C
  BY <1>1, ContentsType
<1> QED BY <1>5, <1>6, <1>7 DEF Ring!Put

(* Advancing the head takes the oldest value from the queue. *)
LEMMA DequeueTakes ==
  ASSUME RingType, count # 0, head' = (head + 1) % QUEUE_CAPACITY,
         count' = count - 1, UNCHANGED <<items, tail, closed>>
  PROVE  /\ RingType' /\ Ring!Take
         /\ Contents # <<>> /\ Contents' = Tail(Contents) /\ Head(Contents) = items[head]
<1> DEFINE C == QUEUE_CAPACITY
<1>1. /\ C \in Nat /\ 0 < C /\ items \in RingOf(Cells, C) /\ head \in 0 .. C - 1
      /\ count \in Nat /\ count <= C /\ 0 < count
  BY CapacityType DEF RingType
<1>2. /\ RingSeq(items, head, count, C) # <<>>
      /\ RingSeq(items, (head + 1) % C, count - 1, C) = Tail(RingSeq(items, head, count, C))
  <2> HIDE DEF C
  <2> QED BY <1>1, RingPop
<1>3. /\ head' \in 0 .. C - 1 /\ Cell(head, 1, C) = head
      /\ \A i \in 1 .. C : Cell(head', i, C) = Cell(head, i + 1, C)
  <2> HIDE DEF C
  <2> QED BY <1>1, RingCells DEF C
<1>4. count' \in Nat /\ count' <= C /\ count' + 1 = count /\ count \in 1 .. C
  BY <1>1
<1>5. tail' = Cell(head', count' + 1, C)
  BY <1>3, <1>4 DEF RingType
<1>6. RingType'
  <2> HIDE DEF C
  <2>1. RingOf(Cells, C)' = RingOf(Cells, C)
    BY DEF C, Cells
  <2> QED BY <1>1, <1>3, <1>4, <1>5 DEF RingType, C
<1>7. Contents' = Tail(Contents) /\ Contents # <<>>
  <2>1. Contents' = RingSeq(items', head', count', C)
    BY DEF Contents, RingSeq, Cell
  <2> QED BY <2>1, <1>2, ContentsIsRing
<1>8. Head(Contents) = items[head]
  <2>1. Contents[1] = items[Cell(head, 1, C)]
    BY <1>4 DEF Contents, Cell
  <2> QED BY <2>1, <1>3, <1>7, ContentsType
<1> QED BY <1>6, <1>7, <1>8 DEF Ring!Take

-----------------------------------------------------------------------------
(* Steps. *)

(* Nothing about the ring changes. *)
LEMMA RingStays ==
  ASSUME RingType, UNCHANGED <<ringVars, closed>>
  PROVE  RingType' /\ QueueStep /\ UNCHANGED Contents
<1>1. RingOf(Cells, QUEUE_CAPACITY)' = RingOf(Cells, QUEUE_CAPACITY)
  BY DEF Cells
<1>2. items' = items /\ head' = head /\ tail' = tail /\ count' = count /\ closed' = closed
  BY DEF ringVars
<1>3. UNCHANGED Contents
  BY <1>2 DEF Contents
<1> QED BY <1>1, <1>2, <1>3 DEF RingType, QueueStep

(* A thread that was working goes on, or ends once the queue is closed.    *)
LEMMA ThreadMoves ==
  ASSUME ClientType, Joined, NEW t \in Threads, pc[t] \in {"call", "close"},
         NEW step \in {"call", "close", "done"}, pc' = [pc EXCEPT ![t] = step],
         closed => closed', step = "done" => closed',
         pushed' \in [Producers -> 0 .. ItemCount]
  PROVE  ClientType' /\ Joined'
<1>1. pc["main"] # "exited" /\ t # "main"
  BY ThreadsAssumption DEF Joined
<1>2. /\ pc' \in [Threads \cup {"main"} -> Steps] /\ pc'[t] = step
      /\ \A u \in Threads \cup {"main"} : u # t => pc'[u] = pc[u]
  BY DEF ClientType, Steps
<1>3. Joined'
  BY <1>1, <1>2 DEF Joined
<1> QED BY <1>2, <1>3 DEF ClientType

(* The threads stand still. *)
LEMMA ThreadsStay ==
  ASSUME ClientType, Joined, UNCHANGED <<pc, pushed, closed>>
  PROVE  ClientType' /\ Joined'
BY DEF ClientType, Joined

LEMMA InitEstablishes == Init => QueueInv /\ Ring!QueueInit
<1> SUFFICES ASSUME Init PROVE QueueInv /\ Ring!QueueInit
  OBVIOUS
<1>1. RingType
  <2>1. items \in RingOf(Cells, QUEUE_CAPACITY)
    BY DEF Init, RingOf, Cells, Slots
  <2>2. 0 \in 0 .. QUEUE_CAPACITY - 1
    BY CapacityType
  <2>3. Cell(0, 0 + 1, QUEUE_CAPACITY) = 0
    <3>1. Cell(0, 1, QUEUE_CAPACITY) = 0
      BY <2>2, CapacityType, RingCells
    <3> QED BY <3>1
  <2>4. head = 0 /\ tail = 0 /\ count = 0 /\ closed = FALSE
    BY DEF Init
  <2>5. tail = Cell(head, count + 1, QUEUE_CAPACITY)
    BY <2>3, <2>4
  <2>6. count \in Nat /\ count <= QUEUE_CAPACITY
    BY <2>4, CapacityType
  <2> QED BY <2>1, <2>2, <2>4, <2>5, <2>6 DEF RingType
<1>2. ClientType /\ Joined
  BY ThreadsAssumption, ItemCountAssumption DEF Init, ClientType, Joined, Steps
<1>3. Ring!QueueInit
  BY EmptyRing DEF Init, Ring!QueueInit
<1> QED BY <1>1, <1>2, <1>3 DEF QueueInv

LEMMA SetUpKeeps == ASSUME QueueInv, blocking_queue_init PROVE QueueInv' /\ QueueStep
<1>1. RingType' /\ QueueStep /\ closed' = closed
  BY RingStays DEF QueueInv, blocking_queue_init, queueVars
<1>2. pc["main"] = "init" /\ pushed' = pushed
  BY DEF blocking_queue_init, At
<1>3. CASE pc' = [t \in DOMAIN pc |-> IF t = "main" THEN "join" ELSE "call"]
  BY <1>1, <1>2, <1>3, ThreadsAssumption DEF QueueInv, ClientType, Joined, Steps
<1>4. CASE pc' = [pc EXCEPT !["main"] = "exited"] /\ "init" \in Faults
  <2>1. \A t \in Threads : pc[t] = "off"
    BY <1>2 DEF QueueInv, Joined
  <2> QED BY <1>1, <1>2, <1>4 DEF QueueInv, ClientType, Joined, Steps
<1> QED BY <1>1, <1>3, <1>4 DEF blocking_queue_init, Goto

LEMMA PushKeeps ==
  ASSUME QueueInv, NEW p \in Producers, Push(p)
  PROVE  QueueInv' /\ QueueStep
<1> DEFINE v == <<p, pushed[p] + 1>>
<1>1. /\ p \in Threads /\ pc[p] = "call" /\ pushed[p] \in 0 .. ItemCount
      /\ pushed[p] < ItemCount /\ v \in Values
  BY ItemCountAssumption DEF Push, At, QueueInv, ClientType, Threads, Values
<1>2. ASSUME UNCHANGED <<ringVars, closed, pushed>>,
             UNCHANGED pc \/ pc' = [pc EXCEPT ![p] = "close"]
      PROVE  QueueInv' /\ QueueStep
  <2>1. RingType' /\ QueueStep
    BY <1>2, RingStays DEF QueueInv
  <2>2. ClientType' /\ Joined'
    BY <1>1, <1>2, ThreadMoves, ThreadsStay DEF QueueInv, ClientType
  <2> QED BY <2>1, <2>2 DEF QueueInv
<1>3. CASE MustWaitToPush
  <2>1. UNCHANGED <<ringVars, closed, pushed>>
    BY <1>3 DEF Push, blocking_queue_push
  <2>2. UNCHANGED pc \/ pc' = [pc EXCEPT ![p] = "close"]
    BY <1>3 DEF Push, blocking_queue_push, WaitOn, Goto
  <2> QED BY <1>2, <2>1, <2>2
<1>4. CASE ~MustWaitToPush /\ closed
  <2>1. UNCHANGED <<ringVars, closed, pushed>> /\ pc' = [pc EXCEPT ![p] = "close"]
    BY <1>4 DEF Push, blocking_queue_push, Goto, queueVars
  <2> QED BY <1>2, <2>1
<1>5. CASE ~MustWaitToPush /\ ~closed
  <2>1. /\ Enqueue(p, v)
        /\ pushed' = IF pc'[p] = "close" THEN pushed ELSE [pushed EXCEPT ![p] = @ + 1]
    BY <1>5 DEF Push, blocking_queue_push
  <2>2. count < QUEUE_CAPACITY
    BY <1>5, CapacityType DEF QueueInv, RingType, MustWaitToPush
  <2>3. RingType' /\ Ring!Put(v)
    <3> HIDE DEF v
    <3> QED BY <1>1, <1>5, <2>1, <2>2, EnqueuePuts DEF QueueInv, Enqueue
  <2>4. pc' = [pc EXCEPT ![p] = "call"] \/ pc' = [pc EXCEPT ![p] = "close"]
    BY <2>1 DEF Enqueue, SignalAndReturn, Goto
  <2>5. pushed' \in [Producers -> 0 .. ItemCount]
    BY <1>1, <2>1, ItemCountAssumption DEF QueueInv, ClientType
  <2>6. ClientType' /\ Joined'
    BY <1>1, <1>5, <2>4, <2>5, ThreadMoves DEF QueueInv
  <2>7. QueueStep
    BY <1>1, <2>3 DEF QueueStep, Ring!QueueNext
  <2> QED BY <2>3, <2>6, <2>7 DEF QueueInv
<1> QED BY <1>3, <1>4, <1>5

LEMMA PopKeeps ==
  ASSUME QueueInv, NEW c \in Consumers, Pop(c)
  PROVE  QueueInv' /\ QueueStep
<1>1. c \in Threads /\ pc[c] = "call" /\ UNCHANGED <<pushed, closed>>
  BY DEF Pop, At, Threads, blocking_queue_pop, Dequeue, queueVars
<1>2. pushed' \in [Producers -> 0 .. ItemCount]
  BY <1>1 DEF QueueInv, ClientType
<1>3. CASE MustWaitToPop
  <2>1. UNCHANGED <<ringVars, closed>>
    BY <1>3 DEF Pop, blocking_queue_pop
  <2>2. UNCHANGED pc \/ pc' = [pc EXCEPT ![c] = "close"]
    BY <1>3 DEF Pop, blocking_queue_pop, WaitOn, Goto
  <2>3. RingType' /\ QueueStep
    BY <2>1, RingStays DEF QueueInv
  <2>4. ClientType' /\ Joined'
    BY <1>1, <1>2, <2>2, ThreadMoves, ThreadsStay DEF QueueInv
  <2> QED BY <2>3, <2>4 DEF QueueInv
<1>4. CASE ~MustWaitToPop /\ count = 0
  <2>1. UNCHANGED <<ringVars, closed>> /\ pc' = [pc EXCEPT ![c] = "done"] /\ closed
    BY <1>4 DEF Pop, blocking_queue_pop, Goto, queueVars, MustWaitToPop
  <2>2. RingType' /\ QueueStep
    BY <2>1, RingStays DEF QueueInv
  <2>3. ClientType' /\ Joined'
    <3>1. closed' = TRUE
      BY <2>1 DEF QueueInv, RingType
    <3> QED BY <1>1, <1>2, <2>1, <3>1, ThreadMoves DEF QueueInv
  <2> QED BY <2>2, <2>3 DEF QueueInv
<1>5. CASE ~MustWaitToPop /\ count # 0
  <2>1. Dequeue(c)
    BY <1>5 DEF Pop, blocking_queue_pop
  <2>2. RingType' /\ Ring!Take
    BY <1>5, <2>1, DequeueTakes DEF QueueInv, Dequeue
  <2>3. pc' = [pc EXCEPT ![c] = "call"] \/ pc' = [pc EXCEPT ![c] = "close"]
    BY <2>1 DEF Dequeue, SignalAndReturn, Goto
  <2>4. ClientType' /\ Joined'
    BY <1>1, <1>2, <2>3, ThreadMoves DEF QueueInv
  <2>5. QueueStep
    BY <2>2 DEF QueueStep, Ring!QueueNext
  <2> QED BY <2>2, <2>4, <2>5 DEF QueueInv
<1> QED BY <1>3, <1>4, <1>5

LEMMA CloseKeeps ==
  ASSUME QueueInv, NEW t \in Threads, Close(t)
  PROVE  QueueInv' /\ QueueStep
<1>1. /\ pc[t] = "close" /\ UNCHANGED <<ringVars, pushed>> /\ closed' = TRUE
      /\ pc' = [pc EXCEPT ![t] = "done"]
  BY DEF Close, At, blocking_queue_close, Goto
<1>2. RingType' /\ UNCHANGED Contents
  <2>1. RingOf(Cells, QUEUE_CAPACITY)' = RingOf(Cells, QUEUE_CAPACITY)
    BY DEF Cells
  <2>2. items' = items /\ head' = head /\ tail' = tail /\ count' = count
    BY <1>1 DEF ringVars
  <2> QED BY <1>1, <2>1, <2>2 DEF QueueInv, RingType, Contents
<1>3. ClientType' /\ Joined'
  BY <1>1, ThreadMoves DEF QueueInv, ClientType
<1>4. QueueStep
  BY <1>1, <1>2 DEF QueueStep, Ring!QueueNext, Ring!Shut
<1> QED BY <1>2, <1>3, <1>4 DEF QueueInv

(* Only a closed queue is destroyed. *)
LEMMA DestroyKeeps == ASSUME QueueInv, JoinAndDestroy PROVE QueueInv' /\ QueueStep
<1>1. /\ pc["main"] = "join" /\ \A t \in Threads : pc[t] = "done"
      /\ pc' = [pc EXCEPT !["main"] = "exited"] /\ UNCHANGED pushed
      /\ items' = [s \in Slots |-> Unset] /\ head' = 0 /\ tail' = 0 /\ count' = 0
      /\ closed' = FALSE
  BY DEF JoinAndDestroy, At, Goto, blocking_queue_destroy
<1>2. closed
  <2>1. PICK c \in Consumers : TRUE
    BY ThreadsAssumption
  <2>2. c \in Threads /\ pc[c] = "done" /\ pc["main"] # "exited"
    BY <1>1, <2>1 DEF Threads
  <2> QED BY <2>2 DEF QueueInv, Joined
<1>3. RingType'
  <2>1. items' \in RingOf(Cells, QUEUE_CAPACITY)'
    BY <1>1 DEF RingOf, Cells, Slots
  <2>2. 0 \in 0 .. QUEUE_CAPACITY - 1
    BY CapacityType
  <2>3. Cell(0, 0 + 1, QUEUE_CAPACITY) = 0
    <3>1. Cell(0, 1, QUEUE_CAPACITY) = 0
      BY <2>2, CapacityType, RingCells
    <3> QED BY <3>1
  <2>4. tail' = Cell(head', count' + 1, QUEUE_CAPACITY)
    BY <1>1, <2>3
  <2>5. count' \in Nat /\ count' <= QUEUE_CAPACITY
    BY <1>1, CapacityType
  <2> QED BY <1>1, <2>1, <2>2, <2>4, <2>5 DEF RingType
<1>4. ClientType' /\ Joined'
  BY <1>1, ThreadsAssumption DEF QueueInv, ClientType, Joined, Steps
<1>5. Contents' = <<>>
  BY <1>1 DEF Contents
<1>6. QueueStep
  BY <1>1, <1>2, <1>5 DEF QueueStep, Ring!QueueNext, Ring!Discard
<1> QED BY <1>3, <1>4, <1>6 DEF QueueInv

LEMMA StepKeeps == QueueInv /\ [Next]_vars => QueueInv' /\ QueueStep
<1> SUFFICES ASSUME QueueInv, [Next]_vars PROVE QueueInv' /\ QueueStep
  OBVIOUS
<1>1. ASSUME UNCHANGED <<ringVars, closed, pc, pushed>> PROVE QueueInv' /\ QueueStep
  BY <1>1, RingStays, ThreadsStay DEF QueueInv
<1>2. CASE Main
  BY <1>2, SetUpKeeps, DestroyKeeps DEF Main
<1>3. ASSUME NEW p \in Producers, Push(p) PROVE QueueInv' /\ QueueStep
  BY <1>3, PushKeeps
<1>4. ASSUME NEW p \in Producers, PushedAll(p) PROVE QueueInv' /\ QueueStep
  <2>1. /\ p \in Threads /\ pc[p] = "call" /\ pc' = [pc EXCEPT ![p] = "close"]
        /\ UNCHANGED <<ringVars, closed, pushed>>
    BY <1>4 DEF PushedAll, At, Goto, queueVars, Threads
  <2>2. ClientType' /\ Joined'
    BY <2>1, ThreadMoves DEF QueueInv, ClientType
  <2> QED BY <2>1, <2>2, RingStays DEF QueueInv
<1>5. ASSUME NEW c \in Consumers, Pop(c) PROVE QueueInv' /\ QueueStep
  BY <1>5, PopKeeps
<1>6. ASSUME NEW t \in Threads, Close(t) PROVE QueueInv' /\ QueueStep
  BY <1>6, CloseKeeps
<1>7. ASSUME NEW t \in Threads, SpuriousWakeup(t) PROVE QueueInv' /\ QueueStep
  BY <1>1, <1>7 DEF SpuriousWakeup, clientVars
<1>8. CASE UNCHANGED vars
  BY <1>1, <1>8 DEF vars, queueVars, clientVars
<1> QED BY <1>2, <1>3, <1>4, <1>5, <1>6, <1>7, <1>8 DEF Next, Thread

THEOREM QueueInvariance == Spec => []QueueInv
<1>1. QueueInv /\ [Next]_vars => QueueInv'
  BY StepKeeps
<1> QED BY InitEstablishes, <1>1, PTL DEF Spec

(* The ring of queue.c implements the bounded queue: whatever the threads  *)
(* do and whichever call of the thread library fails, values leave in the  *)
(* order in which they came, none is overwritten, none comes after the     *)
(* close, and only a closed queue is destroyed.                            *)
THEOREM QueueRefines == Spec => ImplementsBoundedQueue
<1>1. Init => Ring!QueueInit
  BY InitEstablishes
<1>2. QueueInv /\ [Next]_vars => [Ring!QueueNext]_(Ring!queueVars)
  BY StepKeeps DEF QueueStep, Ring!queueVars
<1> QED BY <1>1, <1>2, QueueInvariance, PTL DEF Spec, ImplementsBoundedQueue, Ring!QueueSpec

-----------------------------------------------------------------------------
(* Where the values are. *)

InQueue(q, v) == \E i \in 1 .. Len(q) : q[i] = v

(* The value at the end of a failed push may be in the queue. *)
Slack(err, p) == IF err[p] = "EINVAL" THEN 1 ELSE 0

(* What is true of the queue q, of the values seen, of the values pushed   *)
(* and of the errors: no value is in two places, every value in the queue  *)
(* or seen was pushed, and a value pushed is in the queue or seen unless a *)
(* consumer failed.                                                        *)
Accounted(q, seen, pu, err) ==
  /\ \A i \in 1 .. Len(q) : q[i] \in Values /\ seen[q[i]] = 0
  /\ \A i, j \in 1 .. Len(q) : q[i] = q[j] => i = j
  /\ \A v \in Values :
       seen[v] = 1 \/ InQueue(q, v) => v[2] <= pu[v[1]] + Slack(err, v[1])
  /\ (\A c \in Consumers : err[c] # "EINVAL") =>
       \A v \in Values : v[2] <= pu[v[1]] => seen[v] = 1 \/ InQueue(q, v)

ErrorType == error \in [Threads -> {"0", "ECANCELED", "EINVAL"}]

SeenType == seen_counts \in [Values -> {0, 1}]

(* A thread at work has met no error; a consumer that is through without   *)
(* one has left the queue empty.                                           *)
Outcomes ==
  /\ \A t \in Threads : pc[t] \in {"off", "call"} => error[t] = "0"
  /\ \A c \in Consumers :
       /\ pc[c] = "close" => error[c] = "EINVAL"
       /\ pc[c] = "done" /\ error[c] # "EINVAL" => count = 0
  /\ pc["main"] \in {"init", "exited"} => count = 0

ValuesInv ==
  ErrorType /\ SeenType /\ Outcomes /\ Accounted(Contents, seen_counts, pushed, error)

(* A thread whose error changes had none before. *)
LEMMA ErrorAccounted ==
  ASSUME NEW q, NEW seen, NEW pu \in [Producers -> 0 .. ItemCount],
         NEW err \in [Threads -> {"0", "ECANCELED", "EINVAL"}],
         NEW t \in Threads, err[t] = "0", NEW e, NEW err2, err2 = [err EXCEPT ![t] = e],
         Accounted(q, seen, pu, err)
  PROVE  Accounted(q, seen, pu, err2)
<1>1. \A u \in Threads : err2[u] # "EINVAL" => err[u] # "EINVAL"
  OBVIOUS
<1>2. \A p \in Producers : 
        /\ Slack(err, p) <= Slack(err2, p)
        /\ Slack(err, p) \in {0, 1} /\ Slack(err2, p) \in {0, 1}
  BY DEF Slack, Threads
<1>3. \A v \in Values : v[1] \in Producers /\ v[2] \in Nat /\ pu[v[1]] \in Nat
  BY ItemCountAssumption DEF Values
<1>4. ASSUME NEW v \in Values, seen[v] = 1 \/ InQueue(q, v)
      PROVE  v[2] <= pu[v[1]] + Slack(err2, v[1])
  <2>1. v[2] <= pu[v[1]] + Slack(err, v[1])
    BY <1>4 DEF Accounted
  <2> DEFINE a == v[2]
             b == pu[v[1]]
             c == Slack(err, v[1])
             d == Slack(err2, v[1])
  <2>2. a \in Nat /\ b \in Nat /\ c \in {0, 1} /\ d \in {0, 1} /\ c <= d /\ a <= b + c
    BY <1>2, <1>3, <2>1
  <2> HIDE DEF a, b, c, d
  <2>3. a <= b + d
    BY <2>2
  <2> QED BY <2>3 DEF a, b, d
<1>5. (\A c \in Consumers : err2[c] # "EINVAL") => \A c \in Consumers : err[c] # "EINVAL"
  BY <1>1 DEF Threads
<1> QED BY <1>4, <1>5 DEF Accounted

(* The next value of a producer is nowhere yet. *)
LEMMA NextValueIsNew ==
  ASSUME NEW q, NEW seen, NEW pu \in [Producers -> 0 .. ItemCount], NEW err,
         NEW p \in Producers, err[p] = "0", pu[p] < ItemCount,
         Accounted(q, seen, pu, err)
  PROVE  LET v == <<p, pu[p] + 1>> IN
         v \in Values /\ seen[v] # 1 /\ ~InQueue(q, v)
<1> DEFINE v == <<p, pu[p] + 1>>
           n == pu[p]
<1>1. n \in Nat /\ n + 1 \in 1 .. ItemCount
  BY ItemCountAssumption
<1>2. v \in Values /\ v[1] = p /\ v[2] = n + 1
  BY <1>1 DEF Values
<1>3. Slack(err, p) = 0
  BY DEF Slack
<1>4. ~(v[2] <= pu[v[1]] + Slack(err, v[1]))
  <2> HIDE DEF v
  <2>1. pu[v[1]] + Slack(err, v[1]) = n + 0
    BY <1>2, <1>3
  <2> HIDE DEF n
  <2> QED BY <1>1, <1>2, <2>1
<1> HIDE DEF v
<1> QED BY <1>2, <1>4 DEF Accounted, v

(* A push stores the value and counts it, or stores it and reports a       *)
(* failed signal.                                                          *)
LEMMA PutAccounted ==
  ASSUME NEW q \in Seq(Cells), NEW seen \in [Values -> {0, 1}],
         NEW pu \in [Producers -> 0 .. ItemCount],
         NEW err \in [Threads -> {"0", "ECANCELED", "EINVAL"}],
         NEW p \in Producers, err[p] = "0", pu[p] < ItemCount,
         Accounted(q, seen, pu, err), NEW pu2, NEW err2,
         \/ pu2 = [pu EXCEPT ![p] = @ + 1] /\ err2 = err
         \/ pu2 = pu /\ err2 = [err EXCEPT ![p] = "EINVAL"]
  PROVE  Accounted(Append(q, <<p, pu[p] + 1>>), seen, pu2, err2)
<1> DEFINE v == <<p, pu[p] + 1>>
           q2 == Append(q, v)
           n == Len(q)
<1>1. v \in Values /\ seen[v] = 0 /\ ~InQueue(q, v) /\ p \in Threads
  <2>1. v \in Values /\ seen[v] # 1 /\ ~InQueue(q, v)
    BY NextValueIsNew
  <2> HIDE DEF v
  <2> QED BY <2>1 DEF Threads
<1>2. v[1] = p /\ v[2] = pu[p] + 1
  OBVIOUS
<1>3. \A x \in Values : /\ x[1] \in Producers /\ x[2] \in Nat /\ pu[x[1]] \in Nat
                        /\ x = <<x[1], x[2]>> /\ x[1] \in Threads
  BY ItemCountAssumption DEF Values, Threads
<1> HIDE DEF v
<1>4. n \in Nat /\ Len(q2) = n + 1 /\ q2[n + 1] = v /\ \A i \in 1 .. n : q2[i] = q[i]
  <2>1. v \in Cells
    BY <1>1 DEF Cells
  <2> QED BY <2>1
<1> HIDE DEF q2, n
<1>5. \A i \in 1 .. n + 1 : i = n + 1 \/ i \in 1 .. n
  BY <1>4
<1>6. \A i \in 1 .. n : q[i] # v /\ q[i] \in Values /\ seen[q[i]] = 0
  BY <1>1 DEF InQueue, Accounted, n
<1>7. \A i \in 1 .. Len(q2) : q2[i] \in Values /\ seen[q2[i]] = 0
  BY <1>1, <1>4, <1>5, <1>6, SMTT(30)
<1>8. \A i, j \in 1 .. Len(q2) : q2[i] = q2[j] => i = j
  <2> SUFFICES ASSUME NEW i \in 1 .. n + 1, NEW j \in 1 .. n + 1, q2[i] = q2[j] PROVE i = j
    BY <1>4
  <2>1. CASE i = n + 1 \/ j = n + 1
    BY <1>4, <1>5, <1>6, <2>1
  <2>2. CASE i \in 1 .. n /\ j \in 1 .. n
    BY <1>4, <2>2 DEF Accounted, n
  <2> QED BY <1>5, <2>1, <2>2
<1>9. \A x : InQueue(q2, x) <=> x = v \/ InQueue(q, x)
  <2>1. \A x : InQueue(q2, x) <=> \E i \in 1 .. n + 1 : q2[i] = x
    BY <1>4 DEF InQueue
  <2>2. \A x : InQueue(q, x) <=> \E i \in 1 .. n : q[i] = x
    BY DEF InQueue, n
  <2>3. n + 1 \in 1 .. n + 1 /\ 1 .. n \subseteq 1 .. n + 1
    BY <1>4
  <2> QED BY <1>4, <1>5, <2>1, <2>2, <2>3
<1>10. /\ Slack(err, p) = 0
       /\ \A x \in Values : x[1] # p => Slack(err2, x[1]) = Slack(err, x[1]) /\ pu2[x[1]] = pu[x[1]]
  BY <1>1, <1>3 DEF Slack
<1>11. pu2[p] + Slack(err2, p) = pu[p] + 1 /\ pu[p] \in Nat
  <2>1. pu[p] \in Nat
    OBVIOUS
  <2>2. CASE pu2 = [pu EXCEPT ![p] = @ + 1] /\ err2 = err
    <3>1. pu2[p] = pu[p] + 1 /\ Slack(err2, p) = 0
      BY <1>10, <2>2
    <3> QED BY <2>1, <3>1
  <2>3. CASE pu2 = pu /\ err2 = [err EXCEPT ![p] = "EINVAL"]
    <3>1. pu2[p] = pu[p] /\ Slack(err2, p) = 1
      BY <1>1, <2>3 DEF Slack
    <3> QED BY <2>1, <3>1
  <2> QED BY <2>2, <2>3
<1>12. ASSUME NEW x \in Values, seen[x] = 1 \/ InQueue(q2, x)
       PROVE  x[2] <= pu2[x[1]] + Slack(err2, x[1])
  <2>1. CASE x = v
    <3>1. x[2] = pu[p] + 1 /\ x[1] = p
      BY <1>2, <2>1
    <3> QED BY <1>11, <3>1
  <2>2. CASE x # v
    <3>1. x[2] <= pu[x[1]] + Slack(err, x[1])
      BY <1>9, <1>12, <2>2 DEF Accounted
    <3>2. CASE x[1] # p
      BY <1>10, <3>1, <3>2
    <3>3. CASE x[1] = p
      <4> DEFINE a == x[2]
                 b == pu[p]
      <4>1. a \in Nat /\ b \in Nat /\ a <= b + 0
        BY <1>3, <1>10, <1>11, <3>1, <3>3
      <4>2. pu2[x[1]] + Slack(err2, x[1]) = b + 1
        BY <1>11, <3>3
      <4> HIDE DEF a, b
      <4>3. a <= b + 1
        BY <4>1
      <4> QED BY <4>2, <4>3 DEF a
    <3> QED BY <3>2, <3>3
  <2> QED BY <2>1, <2>2
<1>13. ASSUME \A c \in Consumers : err2[c] # "EINVAL", NEW x \in Values, x[2] <= pu2[x[1]]
       PROVE  seen[x] = 1 \/ InQueue(q2, x)
  <2>1. \A c \in Consumers : err[c] # "EINVAL"
    <3>1. \A c \in Consumers : c \in Threads /\ c # p
      BY ThreadsAssumption DEF Threads
    <3> QED BY <1>1, <1>13, <3>1
  <2>2. x[2] <= pu[x[1]] => seen[x] = 1 \/ InQueue(q2, x)
    BY <1>9, <2>1 DEF Accounted
  <2>3. CASE x[1] # p
    BY <1>10, <1>13, <2>2, <2>3
  <2>4. CASE x[1] = p /\ pu2 = pu
    BY <1>13, <2>2, <2>4
  <2>5. CASE x[1] = p /\ pu2 = [pu EXCEPT ![p] = @ + 1]
    <3> DEFINE a == x[2]
               b == pu[p]
    <3>1. a \in Nat /\ b \in Nat /\ a <= b + 1
      BY <1>3, <1>11, <1>13, <2>5
    <3> HIDE DEF a, b
    <3>2. a <= b \/ a = b + 1
      BY <3>1
    <3>3. CASE a <= b
      BY <2>2, <2>5, <3>3 DEF a, b
    <3>4. CASE a = b + 1
      <4>1. x = v
        BY <1>3, <2>5, <3>4 DEF a, b, v
      <4> QED BY <1>9, <4>1
    <3> QED BY <3>2, <3>3, <3>4
  <2> QED BY <2>3, <2>4, <2>5
<1>14. Accounted(q2, seen, pu2, err2)
  BY <1>7, <1>8, <1>12, <1>13 DEF Accounted
<1> QED BY <1>14 DEF q2, v

(* A pop takes the oldest value and counts it as seen, or takes it and     *)
(* reports a failed signal.                                                *)
LEMMA TakeAccounted ==
  ASSUME NEW q \in Seq(Cells), q # <<>>, NEW seen \in [Values -> {0, 1}],
         NEW pu \in [Producers -> 0 .. ItemCount],
         NEW err \in [Threads -> {"0", "ECANCELED", "EINVAL"}],
         NEW c \in Consumers, Accounted(q, seen, pu, err), NEW seen2, NEW err2,
         \/ seen2 = [seen EXCEPT ![Head(q)] = @ + 1] /\ err2 = err
         \/ seen2 = seen /\ err2 = [err EXCEPT ![c] = "EINVAL"]
  PROVE  seen2 \in [Values -> {0, 1}] /\ Accounted(Tail(q), seen2, pu, err2)
<1> DEFINE v == Head(q)
           q2 == Tail(q)
           n == Len(q)
<1>1. /\ n \in Nat /\ 0 < n /\ v = q[1] /\ Len(q2) = n - 1
      /\ \A i \in 1 .. n - 1 : q2[i] = q[i + 1]
  BY HeadTailProperties
<1> HIDE DEF v, q2, n
<1>2. 1 \in 1 .. n /\ v \in Values /\ seen[v] = 0
  BY <1>1 DEF Accounted, n
<1>3. \A i \in 1 .. n - 1 : i + 1 \in 1 .. n /\ i + 1 # 1
  BY <1>1
<1>4. \A i \in 2 .. n : i - 1 \in 1 .. n - 1 /\ (i - 1) + 1 = i
  BY <1>1
<1>5. \A x : InQueue(q, x) <=> x = v \/ InQueue(q2, x)
  <2>1. ASSUME NEW x, InQueue(q2, x) PROVE InQueue(q, x)
    BY <1>1, <1>3, <2>1 DEF InQueue, n
  <2>2. ASSUME NEW x, InQueue(q, x), x # v PROVE InQueue(q2, x)
    <3>1. PICK i \in 1 .. n : q[i] = x
      BY <2>2 DEF InQueue, n
    <3>2. i \in 2 .. n
      BY <1>1, <2>2, <3>1
    <3>3. q2[i - 1] = x /\ i - 1 \in 1 .. n - 1
      BY <1>1, <1>4, <3>1, <3>2
    <3> QED BY <1>1, <3>3 DEF InQueue
  <2>3. InQueue(q, v)
    BY <1>1, <1>2 DEF InQueue, n
  <2> QED BY <2>1, <2>2, <2>3
<1>6. seen2 \in [Values -> {0, 1}]
  BY <1>2 DEF v
<1>7. \A i, j \in 1 .. n : q[i] = q[j] => i = j
  BY DEF Accounted, n
<1>8. \A i \in 1 .. n - 1 : q2[i] # v /\ q2[i] \in Values /\ seen[q2[i]] = 0
  BY <1>1, <1>2, <1>3, <1>7 DEF Accounted, n
<1>9. \A i \in 1 .. Len(q2) : q2[i] \in Values /\ seen2[q2[i]] = 0
  BY <1>1, <1>8 DEF v
<1>10. \A i, j \in 1 .. Len(q2) : q2[i] = q2[j] => i = j
  <2> SUFFICES ASSUME NEW i \in 1 .. n - 1, NEW j \in 1 .. n - 1, q2[i] = q2[j] PROVE i = j
    BY <1>1
  <2>1. i + 1 = j + 1
    BY <1>1, <1>3, <1>7
  <2>2. i \in Int /\ j \in Int
    OBVIOUS
  <2> QED BY <2>1, <2>2
<1>11. /\ \A x \in Values : seen2[x] = 1 => seen[x] = 1 \/ x = v
       /\ \A x \in Values : seen[x] = 1 => seen2[x] = 1
  BY <1>2 DEF v
<1>12. \A x \in Values :
         seen2[x] = 1 \/ InQueue(q2, x) => x[2] <= pu[x[1]] + Slack(err2, x[1])
  <2>1. \A x \in Values : seen2[x] = 1 \/ InQueue(q2, x) => seen[x] = 1 \/ InQueue(q, x)
    BY <1>5, <1>11
  <2>2. \A x \in Values : Slack(err2, x[1]) = Slack(err, x[1])
    <3>1. \A x \in Values : x[1] \in Threads /\ x[1] # c
      BY ThreadsAssumption DEF Values, Threads
    <3> QED BY <3>1 DEF Slack
  <2> QED BY <2>1, <2>2 DEF Accounted
<1>13. ASSUME \A d \in Consumers : err2[d] # "EINVAL", NEW x \in Values, x[2] <= pu[x[1]]
       PROVE  seen2[x] = 1 \/ InQueue(q2, x)
  <2>1. seen2 = [seen EXCEPT ![v] = @ + 1] /\ err2 = err
    <3>1. c \in Threads
      BY DEF Threads
    <3> QED BY <1>13, <3>1 DEF v
  <2>2. seen[x] = 1 \/ InQueue(q, x)
    BY <1>13, <2>1 DEF Accounted
  <2>3. seen2[v] = 1
    BY <1>2, <2>1
  <2> QED BY <1>5, <1>11, <2>2, <2>3
<1>14. Accounted(q2, seen2, pu, err2)
  BY <1>9, <1>10, <1>12, <1>13 DEF Accounted
<1> QED BY <1>6, <1>14 DEF q2

(* A ring that does not change is the same queue. *)
LEMMA SameContents == ASSUME UNCHANGED ringVars PROVE Contents' = Contents /\ count' = count
BY DEF ringVars, Contents

(* A thread at work keeps main waiting for it, and is only one of the two. *)
LEMMA AtWork ==
  ASSUME QueueInv, NEW t \in Threads, pc[t] \in {"call", "close"}
  PROVE  /\ pc["main"] = "join" /\ t # "main"
         /\ \A u \in Threads : pc[u] = "done" => closed
BY ThreadsAssumption DEF QueueInv, Joined

(* A step of thread t changes the outcomes only of t. *)
LEMMA OutcomesMove ==
  ASSUME QueueInv, ValuesInv, NEW t \in Threads, pc[t] \in {"call", "close"},
         NEW step \in {"call", "close", "done"}, pc' = [pc EXCEPT ![t] = step],
         error' \in [Threads -> {"0", "ECANCELED", "EINVAL"}],
         \A u \in Threads : u # t => error'[u] = error[u],
         step = "call" => error'[t] = "0",
         t \in Consumers /\ step = "close" => error'[t] = "EINVAL",
         t \in Consumers /\ step = "done" /\ error'[t] # "EINVAL" => count' = 0,
         (\E c \in Consumers : pc[c] = "done" /\ error[c] # "EINVAL") => count' = 0
  PROVE  ErrorType' /\ Outcomes'
<1>1. pc["main"] = "join" /\ t # "main"
  BY AtWork
<1>2. /\ pc'[t] = step /\ pc'["main"] = "join"
      /\ \A u \in Threads : u # t => pc'[u] = pc[u]
  BY <1>1 DEF QueueInv, ClientType
<1>3. \A c \in Consumers : c \in Threads
  BY DEF Threads
<1> QED BY <1>2, <1>3 DEF ErrorType, Outcomes, ValuesInv

(* A call of thread t returns an error and changes nothing else. *)
LEMMA ErrorKeepsValues ==
  ASSUME QueueInv, ValuesInv, NEW t \in Threads, pc[t] = "call",
         NEW e \in {"ECANCELED", "EINVAL"}, t \in Consumers => e = "EINVAL",
         pc' = [pc EXCEPT ![t] = "close"], error' = [error EXCEPT ![t] = e],
         UNCHANGED <<ringVars, pushed, seen_counts>>
  PROVE  ValuesInv'
<1>1. /\ error \in [Threads -> {"0", "ECANCELED", "EINVAL"}] /\ error[t] = "0"
      /\ pushed \in [Producers -> 0 .. ItemCount]
      /\ Accounted(Contents, seen_counts, pushed, error)
  BY DEF ValuesInv, Outcomes, ErrorType, QueueInv, ClientType
<1>2. Contents' = Contents /\ count' = count
  BY SameContents
<1>3. Accounted(Contents, seen_counts, pushed, error')
  BY <1>1, ErrorAccounted
<1>4. Accounted(Contents, seen_counts, pushed, error)'
  BY <1>2, <1>3
<1>5. /\ error' \in [Threads -> {"0", "ECANCELED", "EINVAL"}]
      /\ \A u \in Threads : u # t => error'[u] = error[u]
      /\ error'[t] = e
  BY <1>1
<1>6. (\E c \in Consumers : pc[c] = "done" /\ error[c] # "EINVAL") => count' = 0
  BY <1>2 DEF ValuesInv, Outcomes
<1>7. ErrorType' /\ Outcomes'
  BY <1>5, <1>6, OutcomesMove
<1>8. SeenType'
  BY DEF ValuesInv, SeenType
<1> QED BY <1>4, <1>7, <1>8 DEF ValuesInv

(* A thread moves on without an error and nothing else changes. *)
LEMMA MoveKeepsValues ==
  ASSUME QueueInv, ValuesInv, NEW t \in Threads, pc[t] \in {"call", "close"},
         NEW step \in {"close", "done"}, pc' = [pc EXCEPT ![t] = step],
         t \in Consumers => step = "done" /\ (error[t] # "EINVAL" => count = 0),
         UNCHANGED <<ringVars, error, pushed, seen_counts>>
  PROVE  ValuesInv'
<1>1. Contents' = Contents /\ count' = count
  BY SameContents
<1>2. Accounted(Contents, seen_counts, pushed, error)'
  BY <1>1 DEF ValuesInv
<1>3. /\ error' \in [Threads -> {"0", "ECANCELED", "EINVAL"}]
      /\ \A u \in Threads : error'[u] = error[u]
  BY DEF ValuesInv, ErrorType
<1>4. (\E c \in Consumers : pc[c] = "done" /\ error[c] # "EINVAL") => count' = 0
  BY <1>1 DEF ValuesInv, Outcomes
<1>5. ErrorType' /\ Outcomes'
  BY <1>1, <1>3, <1>4, OutcomesMove
<1>6. SeenType'
  BY DEF ValuesInv, SeenType
<1> QED BY <1>2, <1>5, <1>6 DEF ValuesInv

(* Nothing that the values depend on changes. *)
LEMMA StillKeepsValues ==
  ASSUME ValuesInv, UNCHANGED <<ringVars, pc, error, pushed, seen_counts>>
  PROVE  ValuesInv'
<1>1. Contents' = Contents /\ count' = count
  BY SameContents
<1> QED BY <1>1 DEF ValuesInv, ErrorType, SeenType, Outcomes

(* blocking_queue_push: the value is stored once, or not at all. *)
LEMMA PushKeepsValues ==
  ASSUME QueueInv, ValuesInv, NEW p \in Producers, Push(p)
  PROVE  ValuesInv'
<1> DEFINE v == <<p, pushed[p] + 1>>
<1>1. /\ p \in Threads /\ pc[p] = "call" /\ pushed[p] < ItemCount /\ p \notin Consumers
      /\ UNCHANGED seen_counts
  BY ThreadsAssumption DEF Push, At, Threads, blocking_queue_push, Enqueue
<1>2. CASE MustWaitToPush
  <2>1. /\ UNCHANGED <<ringVars, pushed>>
        /\ \/ UNCHANGED <<pc, error>>
           \/ pc' = [pc EXCEPT ![p] = "close"] /\ error' = [error EXCEPT ![p] = "EINVAL"]
    BY <1>2 DEF Push, blocking_queue_push, WaitOn, Goto
  <2> QED BY <1>1, <2>1, StillKeepsValues, ErrorKeepsValues
<1>3. CASE ~MustWaitToPush /\ closed
  <2>1. /\ UNCHANGED <<ringVars, pushed>>
        /\ pc' = [pc EXCEPT ![p] = "close"] /\ error' = [error EXCEPT ![p] = "ECANCELED"]
    BY <1>3 DEF Push, blocking_queue_push, Goto, queueVars
  <2> QED BY <1>1, <2>1, ErrorKeepsValues
<1>4. CASE ~MustWaitToPush /\ ~closed
  <2>1. /\ Enqueue(p, v)
        /\ pushed' = IF pc'[p] = "close" THEN pushed ELSE [pushed EXCEPT ![p] = @ + 1]
    BY <1>4 DEF Push, blocking_queue_push
  <2>2. count < QUEUE_CAPACITY /\ RingType
    BY <1>4, CapacityType DEF QueueInv, RingType, MustWaitToPush
  <2>3. /\ error \in [Threads -> {"0", "ECANCELED", "EINVAL"}] /\ error[p] = "0"
        /\ pushed \in [Producers -> 0 .. ItemCount]
        /\ seen_counts \in [Values -> {0, 1}]
        /\ Accounted(Contents, seen_counts, pushed, error)
    BY <1>1 DEF ValuesInv, Outcomes, ErrorType, SeenType, QueueInv, ClientType
  <2>4. v \in Values
    BY <1>1, <2>3, NextValueIsNew
  <2>5. Contents' = Append(Contents, v)
    <3> HIDE DEF v
    <3> QED BY <1>4, <2>1, <2>2, <2>4, EnqueuePuts DEF Enqueue
  <2>6. \/ pc' = [pc EXCEPT ![p] = "call"] /\ error' = error
        \/ pc' = [pc EXCEPT ![p] = "close"] /\ error' = [error EXCEPT ![p] = "EINVAL"]
    BY <2>1 DEF Enqueue, SignalAndReturn, Goto
  <2>7. p \in DOMAIN pc
    BY <1>1 DEF QueueInv, ClientType
  <2>8. \/ pushed' = [pushed EXCEPT ![p] = @ + 1] /\ error' = error
        \/ pushed' = pushed /\ error' = [error EXCEPT ![p] = "EINVAL"]
    BY <2>1, <2>6, <2>7
  <2>9. Accounted(Append(Contents, v), seen_counts, pushed', error')
    <3>1. Contents \in Seq(Cells)
      BY <2>2, ContentsType
    <3> QED BY <1>1, <2>3, <2>8, <3>1, PutAccounted
  <2>10. Accounted(Contents, seen_counts, pushed, error)'
    BY <1>1, <2>5, <2>9
  <2>11. ErrorType' /\ Outcomes'
    <3>1. \A c \in Consumers : ~(pc[c] = "done" /\ error[c] # "EINVAL")
      BY <1>1, <1>4, AtWork DEF Threads
    <3>2. /\ error' \in [Threads -> {"0", "ECANCELED", "EINVAL"}]
          /\ \A u \in Threads : u # p => error'[u] = error[u]
      BY <2>3, <2>6
    <3>3. CASE pc' = [pc EXCEPT ![p] = "call"] /\ error' = error
      BY <1>1, <2>3, <3>1, <3>2, <3>3, OutcomesMove
    <3>4. CASE pc' = [pc EXCEPT ![p] = "close"]
      BY <1>1, <3>1, <3>2, <3>4, OutcomesMove
    <3> QED BY <2>6, <3>3, <3>4
  <2>12. SeenType'
    BY <1>1, <2>3 DEF SeenType
  <2> QED BY <2>10, <2>11, <2>12 DEF ValuesInv
<1> QED BY <1>2, <1>3, <1>4

(* blocking_queue_pop: the value taken is seen once, or lost with an error. *)
LEMMA PopKeepsValues ==
  ASSUME QueueInv, ValuesInv, NEW c \in Consumers, Pop(c)
  PROVE  ValuesInv'
<1>1. c \in Threads /\ pc[c] = "call" /\ UNCHANGED pushed
  BY DEF Pop, At, Threads, blocking_queue_pop, Dequeue
<1>2. CASE MustWaitToPop
  <2>1. /\ UNCHANGED <<ringVars, seen_counts>>
        /\ \/ UNCHANGED <<pc, error>>
           \/ pc' = [pc EXCEPT ![c] = "close"] /\ error' = [error EXCEPT ![c] = "EINVAL"]
    BY <1>2 DEF Pop, blocking_queue_pop, WaitOn, Goto
  <2> QED BY <1>1, <2>1, StillKeepsValues, ErrorKeepsValues
<1>3. CASE ~MustWaitToPop /\ count = 0
  <2>1. UNCHANGED <<ringVars, error, seen_counts>> /\ pc' = [pc EXCEPT ![c] = "done"]
    BY <1>3 DEF Pop, blocking_queue_pop, Goto, queueVars
  <2> QED BY <1>1, <1>3, <2>1, MoveKeepsValues
<1>4. CASE ~MustWaitToPop /\ count # 0
  <2>1. Dequeue(c)
    BY <1>4 DEF Pop, blocking_queue_pop
  <2>2. /\ Contents # <<>> /\ Contents' = Tail(Contents) /\ Head(Contents) = items[head]
        /\ Contents \in Seq(Cells)
    BY <1>4, <2>1, DequeueTakes, ContentsType DEF QueueInv, Dequeue
  <2>3. /\ error \in [Threads -> {"0", "ECANCELED", "EINVAL"}] /\ error[c] = "0"
        /\ pushed \in [Producers -> 0 .. ItemCount]
        /\ seen_counts \in [Values -> {0, 1}]
        /\ Accounted(Contents, seen_counts, pushed, error)
    BY <1>1 DEF ValuesInv, Outcomes, ErrorType, SeenType, QueueInv, ClientType
  <2>4. \/ pc' = [pc EXCEPT ![c] = "call"] /\ error' = error
        \/ pc' = [pc EXCEPT ![c] = "close"] /\ error' = [error EXCEPT ![c] = "EINVAL"]
    BY <2>1 DEF Dequeue, SignalAndReturn, Goto
  <2>5. c \in DOMAIN pc
    BY <1>1 DEF QueueInv, ClientType
  <2>6. \/ seen_counts' = [seen_counts EXCEPT ![Head(Contents)] = @ + 1] /\ error' = error
        \/ seen_counts' = seen_counts /\ error' = [error EXCEPT ![c] = "EINVAL"]
    BY <2>1, <2>2, <2>4, <2>5 DEF Dequeue
  <2>7. /\ seen_counts' \in [Values -> {0, 1}]
        /\ Accounted(Tail(Contents), seen_counts', pushed, error')
    BY <2>2, <2>3, <2>6, TakeAccounted
  <2>8. Accounted(Contents, seen_counts, pushed, error)'
    BY <1>1, <2>2, <2>7
  <2>9. ErrorType' /\ Outcomes'
    <3>1. \A d \in Consumers : ~(pc[d] = "done" /\ error[d] # "EINVAL")
      BY <1>4 DEF ValuesInv, Outcomes
    <3>2. /\ error' \in [Threads -> {"0", "ECANCELED", "EINVAL"}]
          /\ \A u \in Threads : u # c => error'[u] = error[u]
      BY <2>3, <2>4
    <3>3. CASE pc' = [pc EXCEPT ![c] = "call"] /\ error' = error
      BY <1>1, <2>3, <3>1, <3>2, <3>3, OutcomesMove
    <3>4. CASE pc' = [pc EXCEPT ![c] = "close"] /\ error' = [error EXCEPT ![c] = "EINVAL"]
      <4>1. error'[c] = "EINVAL"
        BY <1>1, <2>3, <3>4
      <4> QED BY <1>1, <3>1, <3>2, <3>4, <4>1, OutcomesMove
    <3> QED BY <2>4, <3>3, <3>4
  <2> QED BY <2>7, <2>8, <2>9 DEF ValuesInv, SeenType
<1> QED BY <1>2, <1>3, <1>4

(* When main destroys the queue, either a consumer failed or one ended     *)
(* because the queue was empty.                                            *)
LEMMA DestroyKeepsValues ==
  ASSUME QueueInv, ValuesInv, JoinAndDestroy
  PROVE  ValuesInv'
<1>1. /\ \A t \in Threads : pc[t] = "done"
      /\ pc' = [pc EXCEPT !["main"] = "exited"] /\ count' = 0
      /\ UNCHANGED <<error, pushed, seen_counts>>
  BY DEF JoinAndDestroy, Goto, blocking_queue_destroy
<1>2. Contents' = <<>>
  BY <1>1 DEF Contents
<1>3. \A c \in Consumers : c \in Threads /\ c # "main"
  BY ThreadsAssumption DEF Threads
<1>4. (\A c \in Consumers : error[c] # "EINVAL") => Contents = <<>>
  <2>1. PICK c \in Consumers : TRUE
    BY ThreadsAssumption
  <2> QED BY <1>1, <1>3, <2>1, EmptyRing DEF ValuesInv, Outcomes
<1>5. Accounted(Contents, seen_counts, pushed, error)
  BY DEF ValuesInv
<1>6. \A x : ~InQueue(<<>>, x)
  BY DEF InQueue
<1>7. Accounted(<<>>, seen_counts, pushed, error)
  <2> DEFINE q == Contents
  <2>1. (\A c \in Consumers : error[c] # "EINVAL") => q = <<>>
    BY <1>4
  <2>2. Accounted(q, seen_counts, pushed, error)
    BY <1>5
  <2> HIDE DEF q
  <2> QED BY <1>6, <2>1, <2>2 DEF Accounted
<1>8. Outcomes'
  <2>1. \A t \in Threads : t # "main" /\ pc'[t] = "done"
    BY <1>1, ThreadsAssumption DEF QueueInv, ClientType
  <2> QED BY <1>1, <1>3, <2>1 DEF Outcomes
<1> QED BY <1>1, <1>2, <1>7, <1>8 DEF ValuesInv, ErrorType, SeenType

(* Every step accounts for every value. *)
LEMMA StepAccounts == QueueInv /\ ValuesInv /\ [Next]_vars => ValuesInv'
<1> SUFFICES ASSUME QueueInv, ValuesInv, [Next]_vars PROVE ValuesInv'
  OBVIOUS
<1>1. CASE blocking_queue_init
  <2>1. UNCHANGED <<ringVars, error, pushed, seen_counts>> /\ pc["main"] = "init"
    BY <1>1 DEF blocking_queue_init, queueVars, At
  <2>2. Contents' = Contents /\ count' = count
    BY <2>1, SameContents
  <2>3. \A t \in Threads : pc[t] = "off" /\ error[t] = "0"
    BY <2>1 DEF QueueInv, Joined, ValuesInv, Outcomes
  <2>4. \A t \in Threads : pc'[t] \in {"off", "call"}
    BY <1>1, <2>3, ThreadsAssumption DEF blocking_queue_init, Goto, QueueInv, ClientType
  <2>5. Outcomes'
    <3>1. count = 0
      BY <2>1 DEF ValuesInv, Outcomes
    <3> QED BY <2>1, <2>2, <2>3, <2>4, <3>1 DEF Outcomes, Threads
  <2> QED BY <2>1, <2>2, <2>5 DEF ValuesInv, ErrorType, SeenType
<1>2. CASE JoinAndDestroy
  BY <1>2, DestroyKeepsValues
<1>3. ASSUME NEW p \in Producers, Push(p) PROVE ValuesInv'
  BY <1>3, PushKeepsValues
<1>4. ASSUME NEW p \in Producers, PushedAll(p) PROVE ValuesInv'
  <2>1. /\ p \in Threads /\ p \notin Consumers /\ pc[p] = "call" /\ pc' = [pc EXCEPT ![p] = "close"]
        /\ UNCHANGED <<ringVars, error, pushed, seen_counts>>
    BY <1>4, ThreadsAssumption DEF PushedAll, At, Goto, queueVars, Threads
  <2> QED BY <2>1, MoveKeepsValues
<1>5. ASSUME NEW c \in Consumers, Pop(c) PROVE ValuesInv'
  BY <1>5, PopKeepsValues
<1>6. ASSUME NEW t \in Threads, Close(t) PROVE ValuesInv'
  <2>1. /\ pc[t] = "close" /\ pc' = [pc EXCEPT ![t] = "done"]
        /\ UNCHANGED <<ringVars, error, pushed, seen_counts>>
    BY <1>6 DEF Close, At, Goto, blocking_queue_close
  <2>2. t \in Consumers => error[t] = "EINVAL"
    BY <2>1 DEF ValuesInv, Outcomes
  <2> QED BY <2>1, <2>2, MoveKeepsValues
<1>7. ASSUME NEW t \in Threads, SpuriousWakeup(t) PROVE ValuesInv'
  BY <1>7, StillKeepsValues DEF SpuriousWakeup, clientVars
<1>8. CASE UNCHANGED vars
  BY <1>8, StillKeepsValues DEF vars, queueVars, clientVars
<1> QED BY <1>1, <1>2, <1>3, <1>4, <1>5, <1>6, <1>7, <1>8 DEF Next, Thread, Main

(* Before main sets the queue up there is nothing to account for. *)
LEMMA InitAccounts == Init => ValuesInv
<1> SUFFICES ASSUME Init PROVE ValuesInv
  OBVIOUS
<1>1. Contents = <<>>
  BY EmptyRing DEF Init
<1>2. Accounted(<<>>, seen_counts, pushed, error)
  <2>1. \A v \in Values : /\ v[1] \in Producers /\ v[2] \in Nat /\ ~(v[2] <= 0)
                          /\ pushed[v[1]] = 0 /\ seen_counts[v] = 0
    BY ItemCountAssumption DEF Values, Init
  <2>2. \A x : ~InQueue(<<>>, x)
    BY DEF InQueue
  <2> QED BY <2>1, <2>2 DEF Accounted
<1>3. ErrorType /\ SeenType
  BY DEF Init, ErrorType, SeenType
<1>4. Outcomes
  BY ThreadsAssumption DEF Init, Outcomes, Threads
<1> QED BY <1>1, <1>2, <1>3, <1>4 DEF ValuesInv

(* What the invariant says of the consumers' count. *)
LEMMA SeenOnce == QueueInv /\ ValuesInv => EveryValueSeenOnce
<1> SUFFICES ASSUME QueueInv, ValuesInv PROVE EveryValueSeenOnce
  OBVIOUS
<1> DEFINE In(v) == {i \in DOMAIN Contents : Contents[i] = v}
<1>1. /\ Contents \in Seq(Cells) /\ Len(Contents) = count /\ count \in Nat
      /\ DOMAIN Contents = 1 .. Len(Contents)
  BY ContentsType DEF QueueInv, RingType
<1>2. Accounted(Contents, seen_counts, pushed, error)
  BY DEF ValuesInv
<1>3. \A t \in Threads : t \in Failed <=> error[t] = "EINVAL"
  BY DEF Failed, ValuesInv, ErrorType
<1>4. ASSUME NEW v \in Values
      PROVE  /\ seen_counts[v] + Cardinality(In(v)) <= 1
             /\ seen_counts[v] = 1 => v[2] <= pushed[v[1]] + (IF v[1] \in Failed THEN 1 ELSE 0)
  <2>1. seen_counts[v] \in {0, 1}
    BY DEF ValuesInv, SeenType
  <2>2. CASE In(v) = {}
    <3>1. Cardinality(In(v)) = 0
      BY <2>2, FS_EmptySet
    <3> QED BY <2>1, <3>1, <1>2, <1>3 DEF Accounted, Slack, Values, Threads
  <2>3. CASE In(v) # {}
    <3>1. PICK i \in 1 .. Len(Contents) : Contents[i] = v
      BY <1>1, <2>3
    <3>2. In(v) = {i}
      BY <1>1, <1>2, <3>1 DEF Accounted
    <3>3. Cardinality(In(v)) = 1
      BY <3>2, FS_Singleton
    <3>4. seen_counts[v] = 0
      BY <1>2, <3>1 DEF Accounted
    <3> QED BY <3>3, <3>4
  <2> QED BY <2>2, <2>3
<1>5. ASSUME pc["main"] = "exited", Failed \cap Consumers = {}, NEW v \in Values,
             v[2] <= pushed[v[1]]
      PROVE  seen_counts[v] = 1
  <2>1. \A c \in Consumers : error[c] # "EINVAL"
    BY <1>3, <1>5 DEF Threads
  <2>2. seen_counts[v] = 1 \/ InQueue(Contents, v)
    BY <1>2, <1>5, <2>1 DEF Accounted
  <2>3. Contents = <<>>
    BY <1>5, EmptyRing DEF ValuesInv, Outcomes
  <2> QED BY <2>2, <2>3 DEF InQueue
<1> QED BY <1>4, <1>5 DEF EveryValueSeenOnce

(* Whatever the scheduling, the spurious wakeups and the failures of the   *)
(* thread library, the consumers of queue.c see no value twice, none that  *)
(* was not pushed, and, unless a consumer's own call failed, miss none     *)
(* whose push succeeded.                                                   *)
THEOREM SeenCorrect == Spec => []EveryValueSeenOnce
<1>1. Init => ValuesInv
  BY InitAccounts
<1>2. QueueInv /\ ValuesInv /\ [Next]_vars => ValuesInv'
  BY StepAccounts
<1>3. QueueInv /\ ValuesInv => EveryValueSeenOnce
  BY SeenOnce
<1> QED BY <1>1, <1>2, <1>3, QueueInvariance, PTL DEF Spec

-----------------------------------------------------------------------------
(* The framed connection. *)

Sends == script.sends

(* The cells of a frame on the connection. *)
FrameCells(f) == message_encode_header(f) \o f.payload

LEMMA ScriptParts ==
  ASSUME script \in Scripts
  PROVE  /\ Sends \in Seq(Frame) /\ DOMAIN Sends = 1 .. Len(Sends) /\ Len(Sends) \in Nat
         /\ script.receives \in Nat \ {0}
         /\ \A i \in 1 .. Len(Sends) :
              /\ Sends[i] \in Frame
              /\ i < Len(Sends) => Sends[i].payload_length = Len(Sends[i].payload)
              /\ Len(Sends[i].payload) <= Sends[i].payload_length
              /\ ~script.foreign => Sends[i] = message(Sends[i].type, Sends[i].payload)
<1>1. script \in Script
  BY ScriptsAssumption
<1>2. Sends \in Seq(Frame) /\ script.receives \in Nat \ {0}
  BY <1>1 DEF Script, Sends
<1> HIDE DEF Sends
<1>3. DOMAIN Sends = 1 .. Len(Sends) /\ Len(Sends) \in Nat
  BY <1>2
<1>4. \A i \in 1 .. Len(Sends) : Sends[i] \in Frame
  BY <1>2, <1>3
<1> QED BY <1>2, <1>3, <1>4, ScriptsAssumption DEF Sends

LEMMA Concatenated ==
  ASSUME NEW a \in Seq(Nat), NEW b \in Seq(Nat)
  PROVE  /\ a \o b \in Seq(Nat) /\ Len(a \o b) = Len(a) + Len(b)
         /\ \A i \in 1 .. Len(a) : (a \o b)[i] = a[i]
         /\ \A i \in 1 .. Len(b) : (a \o b)[Len(a) + i] = b[i]
OBVIOUS

(* Five cells, then the payload. *)
LEMMA CellParts ==
  ASSUME NEW f \in Frame
  PROVE  /\ FrameCells(f) \in Seq(Nat) /\ Len(f.payload) \in Nat /\ f.payload \in Seq(Nat)
         /\ Len(FrameCells(f)) = MESSAGE_HEADER_SIZE + Len(f.payload)
         /\ f.payload_length \in Nat /\ f.type \in Nat
         /\ FrameCells(f)[1] = f.magic /\ FrameCells(f)[2] = f.version /\ FrameCells(f)[3] = f.type
         /\ FrameCells(f)[4] = f.reserved /\ FrameCells(f)[5] = f.payload_length
         /\ \A i \in 1 .. Len(f.payload) : FrameCells(f)[MESSAGE_HEADER_SIZE + i] = f.payload[i]
         /\ f = [magic |-> f.magic, version |-> f.version, type |-> f.type, reserved |-> f.reserved,
                 payload_length |-> f.payload_length, payload |-> f.payload]
<1>1. /\ f.magic \in Nat /\ f.version \in Nat /\ f.type \in Nat /\ f.reserved \in Nat
      /\ f.payload_length \in Nat /\ f.payload \in Seq(Nat) /\ Len(f.payload) \in Nat
      /\ f = [magic |-> f.magic, version |-> f.version, type |-> f.type, reserved |-> f.reserved,
              payload_length |-> f.payload_length, payload |-> f.payload]
  BY DEF Frame
<1>2. PICK h : h = message_encode_header(f)
  OBVIOUS
<1>3. /\ h \in Seq(Nat) /\ Len(h) = 5
      /\ h[1] = f.magic /\ h[2] = f.version /\ h[3] = f.type /\ h[4] = f.reserved
      /\ h[5] = f.payload_length
  BY <1>1, <1>2 DEF message_encode_header
<1>4. PICK p \in Seq(Nat) : p = f.payload
  BY <1>1
<1>5. /\ h \o p \in Seq(Nat) /\ Len(h \o p) = Len(h) + Len(p)
      /\ \A i \in 1 .. Len(h) : (h \o p)[i] = h[i]
      /\ \A i \in 1 .. Len(p) : (h \o p)[Len(h) + i] = p[i]
  BY <1>3, Concatenated
<1>6. FrameCells(f) = h \o p
  BY <1>2, <1>4 DEF FrameCells
<1>7. 1 \in 1 .. Len(h) /\ 2 \in 1 .. Len(h) /\ 3 \in 1 .. Len(h) /\ 4 \in 1 .. Len(h)
      /\ 5 \in 1 .. Len(h)
  BY <1>3
<1>8. /\ FrameCells(f)[1] = f.magic /\ FrameCells(f)[2] = f.version /\ FrameCells(f)[3] = f.type
      /\ FrameCells(f)[4] = f.reserved /\ FrameCells(f)[5] = f.payload_length
  BY <1>3, <1>5, <1>6, <1>7, SMTT(30)
<1>9. /\ FrameCells(f) \in Seq(Nat) /\ Len(FrameCells(f)) = MESSAGE_HEADER_SIZE + Len(p)
      /\ \A i \in 1 .. Len(p) : FrameCells(f)[MESSAGE_HEADER_SIZE + i] = p[i]
  BY <1>3, <1>5, <1>6 DEF MESSAGE_HEADER_SIZE
<1> QED BY <1>1, <1>4, <1>8, <1>9

-----------------------------------------------------------------------------
(* The control of both sides. *)

(* The server has not given up: what is sent will be received. *)
Receiving == server \in {"create", "accept", "receive"}

FramingTypes ==
  /\ script \in Scripts
  /\ client \in {"connect", "send", "send_all", "close", "exited"}
  /\ server \in {"create", "accept", "receive", "close_client", "close_server", "exited"}
  /\ stream \in Seq(Nat) /\ outgoing \in Seq(Nat) /\ incoming \in Seq(Nat)
  /\ sent_count \in 0 .. Len(Sends)
  /\ client = "send_all" => sent_count < Len(Sends)
  /\ header = <<>> \/ header \in [type : Nat, payload_length : Nat]
  /\ received \in Seq(Frame)

(* Which descriptors are open and how far the connection is, by the steps. *)
Links ==
  /\ descriptors \subseteq {"listen", "accepted", "client"}
  /\ "client" \in descriptors <=> client \in {"send", "send_all", "close"}
  /\ "listen" \in descriptors <=> server \notin {"create", "exited"}
  /\ "accepted" \in descriptors <=> server \in {"receive", "close_client"}
  /\ client \in {"send", "send_all", "close"} => connection # "none"
  /\ client = "connect" => connection = "none"
  /\ server = "create" => connection = "none"
  /\ server = "accept" => connection \in {"none", "pending"}
  /\ server = "receive" => connection = "accepted"

LEMMA LinksKept == Links /\ [FramingNext]_framingVars => Links'
<1> SUFFICES ASSUME Links, [FramingNext]_framingVars PROVE Links'
  OBVIOUS
<1> USE DEF Links
<1>1. CASE Connect \/ MessageSend \/ ClientClose \/ ClientKilled
  BY <1>1 DEF Connect, MessageSend, ClientClose, ClientKilled, receiverVars
<1>2. CASE SendAll \/ SendError
  BY <1>2 DEF SendAll, SendError, SendFails, receiverVars
<1>3. CASE Create \/ Accept \/ AcceptError
  BY <1>3 DEF Create, Accept, AcceptError, senderVars
<1>4. CASE RecvExact \/ RecvError \/ DecodeHeader \/ Publish
  BY <1>4 DEF RecvExact, RecvError, DecodeHeader, Publish, ReceiveFails, senderVars
<1>5. CASE CloseClient \/ CloseServer
  BY <1>5 DEF CloseClient, CloseServer, ConnectionClose, senderVars
<1>6. CASE UNCHANGED framingVars
  BY <1>6 DEF framingVars, senderVars, receiverVars
<1> QED BY <1>1, <1>2, <1>3, <1>4, <1>5, <1>6 DEF FramingNext, Client, Server, Failure

(* Part of a sequence, in two ways. *)
LEMMA Parts ==
  ASSUME NEW S, NEW s \in Seq(S), NEW n \in 0 .. Len(s)
  PROVE  /\ SubSeq(s, 1, n) \in Seq(S) /\ Len(SubSeq(s, 1, n)) = n
         /\ \A i \in 1 .. n : SubSeq(s, 1, n)[i] = s[i]
         /\ SubSeq(s, n + 1, Len(s)) \in Seq(S) /\ Len(SubSeq(s, n + 1, Len(s))) = Len(s) - n
         /\ \A i \in 1 .. Len(s) - n : SubSeq(s, n + 1, Len(s))[i] = s[n + i]
OBVIOUS

(* The script never changes, and a server that gave up has given up. *)
LEMMA ScriptStays ==
  ASSUME [FramingNext]_framingVars
  PROVE  /\ UNCHANGED script /\ Sends' = Sends
         /\ Receiving' => Receiving
<1>1. UNCHANGED script
  BY DEF FramingNext, Client, Server, Failure, Connect, MessageSend, SendAll, ClientClose, Create,
         Accept, RecvExact, DecodeHeader, Publish, CloseClient, CloseServer, ConnectionClose,
         ClientKilled, SendError, AcceptError, RecvError, framingVars
<1>2. Client \/ ClientKilled \/ SendError => UNCHANGED server
  BY DEF Client, Connect, MessageSend, SendAll, ClientClose, ClientKilled, SendError, receiverVars
<1>3. ASSUME Server \/ AcceptError \/ RecvError PROVE Receiving' => Receiving
  <2>1. CASE Create \/ Accept \/ AcceptError
    BY <2>1 DEF Create, Accept, AcceptError, Receiving
  <2>2. CASE RecvExact \/ DecodeHeader \/ Publish \/ RecvError
    BY <2>2 DEF RecvExact, DecodeHeader, Publish, RecvError, Receiving
  <2>3. CASE CloseClient \/ CloseServer
    BY <2>3 DEF CloseClient, CloseServer, ConnectionClose, Receiving
  <2> QED BY <1>3, <2>1, <2>2, <2>3 DEF Server
<1>4. UNCHANGED framingVars => UNCHANGED server
  BY DEF framingVars, receiverVars
<1>5. Receiving' => Receiving
  BY <1>2, <1>3, <1>4 DEF FramingNext, Failure, Receiving
<1> QED BY <1>1, <1>5 DEF Sends

LEMMA FramingTypesKept == FramingTypes /\ [FramingNext]_framingVars => FramingTypes'
<1> SUFFICES ASSUME FramingTypes, [FramingNext]_framingVars PROVE FramingTypes'
  OBVIOUS
<1>0. /\ script \in Scripts /\ Sends \in Seq(Frame) /\ Len(Sends) \in Nat
      /\ DOMAIN Sends = 1 .. Len(Sends)
      /\ stream \in Seq(Nat) /\ outgoing \in Seq(Nat) /\ incoming \in Seq(Nat)
      /\ <<>> \in Seq(Nat)
  BY ScriptParts DEF FramingTypes
<1>1. Sends' = Sends /\ UNCHANGED script
  BY ScriptStays
<1>2. CASE Connect \/ ClientClose \/ ClientKilled \/ SendError
  BY <1>0, <1>1, <1>2
     DEF Connect, ClientClose, ClientKilled, SendError, SendFails, receiverVars, FramingTypes
<1>3. CASE MessageSend
  <2>1. sent_count < Len(Sends) => FrameCells(Sends[sent_count + 1]) \in Seq(Nat)
    <3> SUFFICES ASSUME sent_count < Len(Sends) PROVE Sends[sent_count + 1] \in Frame
      BY CellParts
    <3>1. sent_count + 1 \in 1 .. Len(Sends)
      BY <1>0 DEF FramingTypes
    <3> QED BY <1>0, <3>1
  <2>2. outgoing' \in Seq(Nat)
    BY <1>0, <1>3, <2>1 DEF MessageSend, FrameCells, Sends
  <2>3. client' \in {"close", "send_all"} /\ UNCHANGED <<sent_count, receiverVars, stream>>
    BY <1>3 DEF MessageSend
  <2>4. client' = "send_all" => sent_count < Len(Sends)
    BY <1>3 DEF MessageSend, Sends
  <2> QED BY <1>0, <1>1, <2>2, <2>3, <2>4 DEF receiverVars, FramingTypes
<1>4. CASE SendAll
  <2>1. UNCHANGED receiverVars
    BY <1>4 DEF SendAll
  <2>2. CASE SendFails
    BY <1>0, <1>1, <2>1, <2>2 DEF SendFails, receiverVars, FramingTypes
  <2>3. ASSUME NEW n \in 1 .. Len(outgoing),
               stream' = IF ServerReachable THEN stream \o SubSeq(outgoing, 1, n) ELSE stream,
               outgoing' = SubSeq(outgoing, n + 1, Len(outgoing)),
               IF n = Len(outgoing) THEN client' = "send" /\ sent_count' = sent_count + 1
               ELSE UNCHANGED <<client, sent_count>>
        PROVE  FramingTypes'
    <3>1. n \in 0 .. Len(outgoing)
      BY <1>0, <2>3
    <3>2. SubSeq(outgoing, 1, n) \in Seq(Nat) /\ outgoing' \in Seq(Nat)
      BY <1>0, <2>3, <3>1, Parts
    <3>3. stream' \in Seq(Nat)
      BY <1>0, <2>3, <3>2
    <3>4. client = "send_all"
      BY <1>4 DEF SendAll
    <3>5. sent_count \in 0 .. Len(Sends) /\ sent_count < Len(Sends)
      BY <3>4 DEF FramingTypes
    <3>6. /\ sent_count' \in 0 .. Len(Sends) /\ client' \in {"send", "send_all"}
          /\ client' = "send_all" => sent_count' < Len(Sends)
      BY <1>0, <2>3, <3>4, <3>5, SMTT(30)
    <3>7. UNCHANGED <<server, incoming, header, received>>
      BY <2>1 DEF receiverVars
    <3> QED BY <1>0, <1>1, <3>2, <3>3, <3>6, <3>7 DEF FramingTypes
  <2> QED BY <1>4, <2>2, <2>3 DEF SendAll
<1>5. CASE Create \/ Accept \/ AcceptError
  BY <1>0, <1>1, <1>5 DEF Create, Accept, AcceptError, senderVars, FramingTypes
<1>6. CASE CloseClient \/ CloseServer
  BY <1>0, <1>1, <1>6 DEF CloseClient, CloseServer, ConnectionClose, senderVars, FramingTypes
<1>7. CASE RecvExact \/ RecvError
  <2>1. CASE ReceiveFails /\ UNCHANGED <<senderVars, stream>>
    BY <1>0, <1>1, <2>1 DEF ReceiveFails, senderVars, FramingTypes
  <2>2. ASSUME NEW n \in 1 .. (Wanted - Len(incoming)), n <= Len(stream),
               incoming' = incoming \o SubSeq(stream, 1, n),
               stream' = SubSeq(stream, n + 1, Len(stream)),
               UNCHANGED <<server, header, received, senderVars>>
        PROVE  FramingTypes'
    <3>1. Wanted - Len(incoming) \in Int
      BY <1>0 DEF Wanted, FramingTypes, MESSAGE_HEADER_SIZE
    <3>2. n \in 0 .. Len(stream)
      BY <1>0, <2>2, <3>1
    <3>3. SubSeq(stream, 1, n) \in Seq(Nat) /\ stream' \in Seq(Nat)
      BY <1>0, <2>2, <3>2, Parts
    <3>4. incoming' \in Seq(Nat)
      BY <1>0, <2>2, <3>3
    <3> QED BY <1>0, <1>1, <2>2, <3>3, <3>4 DEF senderVars, FramingTypes
  <2> QED BY <1>7, <2>1, <2>2 DEF RecvExact, RecvError
<1>8. CASE DecodeHeader
  <2>1. CASE ReceiveFails /\ UNCHANGED <<senderVars, stream>>
    BY <1>0, <1>1, <2>1 DEF ReceiveFails, senderVars, FramingTypes
  <2>2. CASE /\ header' = message_decode_header(incoming) /\ incoming' = <<>>
             /\ UNCHANGED <<server, received, senderVars, stream>>
    <3>1. Len(incoming) = 5
      BY <1>8 DEF DecodeHeader, RecvDone, Wanted, MESSAGE_HEADER_SIZE
    <3>2. incoming[3] \in Nat /\ incoming[5] \in Nat
      <4>1. 3 \in 1 .. Len(incoming) /\ 5 \in 1 .. Len(incoming)
        BY <3>1
      <4> QED BY <1>0, <4>1
    <3>3. header' \in [type : Nat, payload_length : Nat]
      BY <2>2, <3>2 DEF message_decode_header
    <3> QED BY <1>0, <1>1, <2>2, <3>3 DEF senderVars, FramingTypes
  <2> QED BY <1>8, <2>1, <2>2 DEF DecodeHeader
<1>9. CASE Publish
  <2>1. header \in [type : Nat, payload_length : Nat]
    BY <1>9 DEF Publish, FramingTypes
  <2>2. message(header.type, incoming) \in Frame
    BY <1>0, <2>1 DEF message, Frame, MESSAGE_MAGIC, MESSAGE_PROTOCOL_VERSION
  <2>3. received' \in Seq(Frame)
    BY <1>9, <2>2 DEF Publish, FramingTypes
  <2> QED BY <1>0, <1>1, <1>9, <2>3 DEF Publish, senderVars, FramingTypes
<1>10. CASE UNCHANGED framingVars
  BY <1>1, <1>10 DEF framingVars, senderVars, receiverVars, FramingTypes
<1> QED BY <1>2, <1>3, <1>4, <1>5, <1>6, <1>7, <1>8, <1>9, <1>10
        DEF FramingNext, Client, Server, Failure

-----------------------------------------------------------------------------
(* The connection as one line of cells: where the cells of each message    *)
(* of the script begin.                                                    *)

Size(q) == [m \in 1 .. Len(q) |-> Len(FrameCells(q[m]))]

(* So many cells come before message m. *)
Start(q, m) == SumFunctionOnSet(Size(q), 1 .. m - 1)

(* These cells, after so many others, are those of the messages. *)
Placed(q, cells, before) ==
  \A m \in 1 .. Len(q) : \A i \in 1 .. Size(q)[m] :
    Start(q, m) + i \in before + 1 .. before + Len(cells) =>
      cells[Start(q, m) + i - before] = FrameCells(q[m])[i]

(* The message that the server is receiving. *)
Current == Len(received) + 1

(* So many of its cells has the server taken, and so many of all; so many  *)
(* were given to it.                                                       *)
Offset == (IF header = <<>> THEN 0 ELSE MESSAGE_HEADER_SIZE) + Len(incoming)

Taken == Start(Sends, Current) + Offset

Given == Taken + Len(stream)

(* What send_all still has to send is the end of the message it is at, and *)
(* the client gives up messages only when it fails.                        *)
ClientInv ==
  /\ client = "send_all" =>
       /\ Len(outgoing) \in 1 .. Size(Sends)[sent_count + 1]
       /\ \A i \in 1 .. Len(outgoing) :
            outgoing[i] = FrameCells(Sends[sent_count + 1])
                            [Size(Sends)[sent_count + 1] - Len(outgoing) + i]
  /\ client \in {"close", "exited"} /\ ~client_failed => sent_count = Len(Sends)

(* While the server receives, the connection holds the cells given so far  *)
(* that it has not taken.                                                  *)
StreamInv ==
  /\ Start(Sends, sent_count + 1) <= Given
  /\ sent_count = Len(Sends) => Given = Start(Sends, sent_count + 1)
  /\ sent_count < Len(Sends) => Given < Start(Sends, sent_count + 2)
  /\ client \in {"connect", "send"} => Given = Start(Sends, sent_count + 1)
  /\ client = "send_all" => Given + Len(outgoing) = Start(Sends, sent_count + 2)
  /\ Placed(Sends, stream, Taken)

(* What was given out are the first messages, and nothing that could not   *)
(* be delivered.                                                           *)
ReceivedInv ==
  /\ Len(received) <= sent_count
  /\ \A i \in 1 .. Len(received) : received[i] = Sends[i] /\ IsDeliverable(Sends[i])

(* What recv_exact holds is the beginning of the header, or of the payload *)
(* that the header announced.                                              *)
IncomingInv ==
  /\ header = <<>> =>
       /\ Len(incoming) <= MESSAGE_HEADER_SIZE
       /\ incoming # <<>> => Current <= Len(Sends)
       /\ \A i \in 1 .. Len(incoming) : incoming[i] = FrameCells(Sends[Current])[i]
  /\ header # <<>> =>
       /\ Current <= Len(Sends)
       /\ header = message_decode_header(FrameCells(Sends[Current]))
       /\ DecodeError(FrameCells(Sends[Current])) = "0"
       /\ header.payload_length <= PayloadBufferSize
       /\ Len(incoming) <= header.payload_length
       /\ Len(incoming) <= Len(Sends[Current].payload)
       /\ \A i \in 1 .. Len(incoming) : incoming[i] = Sends[Current].payload[i]

AllText == \A i \in 1 .. Len(received) : received[i].type = MESSAGE_TYPE_TEXT

(* What may make the server fail. *)
Excuse ==
  \/ faulted
  \/ client_failed \/ Len(Sends) < script.receives
  \/ \E i \in 1 .. script.receives :
       ~IsDeliverable(Sends[i]) \/ Sends[i].type # MESSAGE_TYPE_TEXT

VerdictInv ==
  /\ Receiving => ~server_failed /\ Len(received) < script.receives /\ AllText
  /\ ~Receiving /\ ~server_failed => Len(received) = script.receives /\ AllText
  /\ server_failed => Excuse

FramingInv ==
  /\ FramingTypes /\ Links /\ ClientInv /\ ReceivedInv /\ VerdictInv
  /\ Receiving => StreamInv /\ IncomingInv

LEMMA Starts ==
  ASSUME NEW q \in Seq(Frame)
  PROVE  /\ Start(q, 1) = 0
         /\ \A m \in 1 .. Len(q) + 1 : Start(q, m) \in Nat
         /\ \A m \in 1 .. Len(q) :
              /\ Size(q)[m] = Len(FrameCells(q[m]))
              /\ Size(q)[m] = MESSAGE_HEADER_SIZE + Len(q[m].payload) /\ Size(q)[m] \in Nat
              /\ Start(q, m + 1) = Start(q, m) + Size(q)[m]
         /\ \A m, n \in 1 .. Len(q) + 1 : m <= n => Start(q, m) <= Start(q, n)
<1>0. Len(q) \in Nat
  OBVIOUS
<1>1. ASSUME NEW m \in 1 .. Len(q)
      PROVE  /\ Size(q)[m] = Len(FrameCells(q[m]))
             /\ Size(q)[m] = MESSAGE_HEADER_SIZE + Len(q[m].payload) /\ Size(q)[m] \in Nat
  <2>1. q[m] \in Frame
    OBVIOUS
  <2>2. /\ Len(FrameCells(q[m])) = MESSAGE_HEADER_SIZE + Len(q[m].payload)
        /\ Len(q[m].payload) \in Nat
    BY <2>1, CellParts
  <2> QED BY <2>2 DEF Size, MESSAGE_HEADER_SIZE
<1>2. Start(q, 1) = 0
  <2>1. 1 .. 1 - 1 = {}
    OBVIOUS
  <2> QED BY <2>1, SumEmpty DEF Start
<1>3. ASSUME NEW n \in 0 .. Len(q)
      PROVE  /\ IsFiniteSet(1 .. n) /\ \A m \in 1 .. n : Size(q)[m] \in Nat
             /\ SumFunctionOnSet(Size(q), 1 .. n) \in Nat
  <2>1. IsFiniteSet(1 .. n) /\ \A m \in 1 .. n : Size(q)[m] \in Nat
    BY <1>0, <1>1, FS_Interval
  <2>2. \A m \in 1 .. n : Size(q)[m] \in Int /\ Size(q)[m] >= 0
    BY <2>1
  <2>3. SumFunctionOnSet(Size(q), 1 .. n) \in Int /\ SumFunctionOnSet(Size(q), 1 .. n) >= 0
    BY <2>1, <2>2, SumType
  <2> QED BY <2>1, <2>3
<1>4. ASSUME NEW m \in 1 .. Len(q) + 1
      PROVE  m - 1 \in 0 .. Len(q) /\ Start(q, m) \in Nat
  <2>1. m - 1 \in 0 .. Len(q)
    BY <1>0
  <2> QED BY <2>1, <1>3 DEF Start
<1>5. ASSUME NEW m \in 1 .. Len(q)
      PROVE  Start(q, m + 1) = Start(q, m) + Size(q)[m]
  <2>1. /\ IsFiniteSet(1 .. m - 1) /\ m \notin 1 .. m - 1
        /\ (1 .. m - 1) \cup {m} = 1 .. (m + 1) - 1
        /\ m \in 1 .. Len(q) + 1
    <3>1. m - 1 \in 0 .. Len(q) /\ m \in 1 .. Len(q) + 1
      BY <1>0
    <3>2. m \notin 1 .. m - 1 /\ (1 .. m - 1) \cup {m} = 1 .. m /\ (m + 1) - 1 = m
      OBVIOUS
    <3> QED BY <1>3, <3>1, <3>2
  <2>2. \A i \in (1 .. m - 1) \cup {m} : Size(q)[i] \in Int
    BY <1>0, <1>1
  <2>3. SumFunctionOnSet(Size(q), (1 .. m - 1) \cup {m})
          = Size(q)[m] + SumFunctionOnSet(Size(q), 1 .. m - 1)
    BY <2>1, <2>2, SumAdd
  <2>4. Size(q)[m] \in Nat /\ Start(q, m) \in Nat
    BY <1>1, <1>4, <2>1
  <2>5. Start(q, m + 1) = Size(q)[m] + Start(q, m)
    BY <2>1, <2>3 DEF Start
  <2> QED BY <2>4, <2>5
<1>6. ASSUME NEW m \in 1 .. Len(q) + 1, NEW n \in 1 .. Len(q) + 1, m <= n
      PROVE  Start(q, m) <= Start(q, n)
  <2>1. /\ n - 1 \in 0 .. Len(q) /\ 1 .. m - 1 \in SUBSET (1 .. n - 1)
    BY <1>0, <1>6
  <2>2. IsFiniteSet(1 .. n - 1) /\ \A i \in 1 .. n - 1 : Size(q)[i] \in Nat
    BY <1>3, <2>1
  <2> QED BY <2>1, <2>2, SumSubset DEF Start
<1> QED BY <1>1, <1>2, <1>4, <1>5, <1>6


(* The script's messages and their cells, in the terms of a state. *)
LEMMA Messages ==
  ASSUME FramingTypes
  PROVE  /\ Sends \in Seq(Frame) /\ Len(Sends) \in Nat /\ sent_count \in 0 .. Len(Sends)
         /\ Start(Sends, 1) = 0
         /\ \A m \in 1 .. Len(Sends) + 1 : Start(Sends, m) \in Nat
         /\ \A m \in 1 .. Len(Sends) :
              /\ Sends[m] \in Frame /\ Len(Sends[m].payload) \in Nat
              /\ Sends[m].payload_length \in Nat
              /\ Size(Sends)[m] = Len(FrameCells(Sends[m]))
              /\ Size(Sends)[m] = 5 + Len(Sends[m].payload) /\ Size(Sends)[m] \in Nat
              /\ Start(Sends, m + 1) = Start(Sends, m) + Size(Sends)[m]
              /\ m < Len(Sends) => Sends[m].payload_length = Len(Sends[m].payload)
              /\ Len(Sends[m].payload) <= Sends[m].payload_length
         /\ \A m, n \in 1 .. Len(Sends) + 1 : m <= n => Start(Sends, m) <= Start(Sends, n)
<1>1. Sends \in Seq(Frame)
  BY ScriptParts DEF FramingTypes
<1>2. /\ sent_count \in 0 .. Len(Sends) /\ Len(Sends) \in Nat
      /\ \A i \in 1 .. Len(Sends) :
           /\ Sends[i] \in Frame
           /\ i < Len(Sends) => Sends[i].payload_length = Len(Sends[i].payload)
           /\ Len(Sends[i].payload) <= Sends[i].payload_length
  BY ScriptParts DEF FramingTypes
<1>3. \A m \in 1 .. Len(Sends) : Len(Sends[m].payload) \in Nat /\ Sends[m].payload_length \in Nat
  BY <1>2, CellParts
<1> HIDE DEF Sends
<1> QED BY <1>1, <1>2, <1>3, Starts DEF MESSAGE_HEADER_SIZE

LEMMA ClientInvKept == FramingTypes /\ ClientInv /\ [FramingNext]_framingVars => ClientInv'
<1> SUFFICES ASSUME FramingTypes, ClientInv, [FramingNext]_framingVars PROVE ClientInv'
  OBVIOUS
<1>1. Sends' = Sends
  BY ScriptStays
<1>2. CASE UNCHANGED senderVars
  BY <1>1, <1>2 DEF senderVars, ClientInv
<1>3. CASE Connect \/ ClientClose \/ ClientKilled
  BY <1>1, <1>3 DEF Connect, ClientClose, ClientKilled, ClientInv
<1>4. CASE SendFails
  BY <1>1, <1>4 DEF SendFails, ClientInv
<1>5. CASE MessageSend
  <2>1. CASE client' = "close"
    BY <1>1, <1>5, <2>1 DEF MessageSend, ClientInv, Sends
  <2>2. CASE client' = "send_all"
    <3> DEFINE m == sent_count + 1
    <3>1. /\ sent_count < Len(Sends) /\ outgoing' = FrameCells(Sends[m]) /\ UNCHANGED sent_count
      BY <1>5, <2>2 DEF MessageSend, FrameCells, Sends
    <3>2. m \in 1 .. Len(Sends)
      BY <3>1, Messages
    <3>3. /\ Size(Sends)[m] = Len(outgoing') /\ Size(Sends)[m] \in Nat
          /\ Size(Sends)[m] = 5 + Len(Sends[m].payload) /\ Len(Sends[m].payload) \in Nat
      <4> HIDE DEF m
      <4> QED BY <3>1, <3>2, Messages
    <3>4. /\ Len(outgoing') \in 1 .. Size(Sends)[m]
          /\ \A i \in 1 .. Len(outgoing') :
               outgoing'[i] = FrameCells(Sends[m])[Size(Sends)[m] - Len(outgoing') + i]
      <4> HIDE DEF m
      <4> QED BY <3>1, <3>3
    <3> QED BY <1>1, <2>2, <3>1, <3>4 DEF ClientInv
  <2> QED BY <1>5, <2>1, <2>2 DEF MessageSend
<1>6. ASSUME NEW n \in 1 .. Len(outgoing), client = "send_all",
             outgoing' = SubSeq(outgoing, n + 1, Len(outgoing)), UNCHANGED client_failed,
             IF n = Len(outgoing) THEN client' = "send" /\ sent_count' = sent_count + 1
             ELSE UNCHANGED <<client, sent_count>>
      PROVE  ClientInv'
  <2>1. CASE n = Len(outgoing)
    BY <1>1, <1>6, <2>1 DEF ClientInv
  <2>2. CASE n # Len(outgoing)
    <3> DEFINE size == Size(Sends)[sent_count + 1]
               cells == FrameCells(Sends[sent_count + 1])
    <3>1. outgoing \in Seq(Nat) /\ n \in 0 .. Len(outgoing)
      BY DEF FramingTypes
    <3>2. /\ Len(outgoing') = Len(outgoing) - n
          /\ \A i \in 1 .. Len(outgoing) - n : outgoing'[i] = outgoing[n + i]
      BY <1>6, <3>1, Parts
    <3>3. sent_count + 1 \in 1 .. Len(Sends)
      BY <1>6, Messages DEF FramingTypes
    <3>4. size \in Nat
      BY <3>3, Messages
    <3>5. /\ Len(outgoing) \in 1 .. size
          /\ \A i \in 1 .. Len(outgoing) : outgoing[i] = cells[size - Len(outgoing) + i]
      BY <1>6 DEF ClientInv
    <3> HIDE DEF size, cells
    <3>6. Len(outgoing') \in 1 .. size
      BY <2>2, <3>1, <3>2, <3>4, <3>5
    <3>7. ASSUME NEW i \in 1 .. Len(outgoing')
          PROVE  outgoing'[i] = cells[size - Len(outgoing') + i]
      <4>1. n + i \in 1 .. Len(outgoing) /\ i \in 1 .. Len(outgoing) - n
        BY <3>1, <3>2
      <4>2. size - Len(outgoing') + i = size - Len(outgoing) + (n + i)
        BY <3>1, <3>2, <3>4
      <4> QED BY <3>2, <3>5, <4>1, <4>2
    <3>8. UNCHANGED <<client, sent_count>> /\ client = "send_all"
      BY <1>6, <2>2
    <3> QED BY <1>1, <3>6, <3>7, <3>8 DEF ClientInv, size, cells
  <2> QED BY <2>1, <2>2
<1>7. CASE SendAll
  BY <1>4, <1>6, <1>7 DEF SendAll
<1>8. CASE SendError
  BY <1>4, <1>8 DEF SendError
<1>9. Server \/ AcceptError \/ RecvError \/ UNCHANGED framingVars => UNCHANGED senderVars
  BY DEF Server, Create, Accept, RecvExact, DecodeHeader, Publish, CloseClient, CloseServer,
         ConnectionClose, AcceptError, RecvError, framingVars
<1> QED BY <1>2, <1>3, <1>5, <1>7, <1>8, <1>9 DEF FramingNext, Client, Failure


-----------------------------------------------------------------------------
(* The server's side of the stream. *)

LEMMA Shape ==
  ASSUME FramingTypes, ReceivedInv, StreamInv
  PROVE  /\ Current \in 1 .. Len(Sends) + 1 /\ Len(received) \in 0 .. Len(Sends)
         /\ Current = Len(received) + 1 /\ Current <= sent_count + 1
         /\ Offset \in Nat /\ Taken \in Nat /\ Given \in Nat
         /\ Taken = Start(Sends, Current) + Offset /\ Given = Taken + Len(stream)
         /\ Given <= Start(Sends, Len(Sends) + 1)
         /\ Given > Start(Sends, Current) => Current <= Len(Sends)
<1>1. /\ Len(received) \in Nat /\ Len(stream) \in Nat /\ Len(incoming) \in Nat
      /\ Len(received) <= sent_count /\ sent_count \in 0 .. Len(Sends) /\ Len(Sends) \in Nat
  BY Messages DEF FramingTypes, ReceivedInv
<1>2. Current \in 1 .. Len(Sends) + 1 /\ Current <= sent_count + 1 /\ Current = Len(received) + 1
  BY <1>1 DEF Current
<1>3. Offset \in Nat
  BY <1>1 DEF Offset, MESSAGE_HEADER_SIZE
<1>4. Start(Sends, Current) \in Nat
  BY <1>2, Messages
<1>5. Given = Taken + Len(stream) /\ Taken = Start(Sends, Current) + Offset
  BY DEF Given, Taken
<1>6. Taken \in Nat /\ Given \in Nat
  BY <1>1, <1>3, <1>4, <1>5
<1>7. Given <= Start(Sends, Len(Sends) + 1)
  <2>1. CASE sent_count = Len(Sends)
    BY <1>6, <2>1 DEF StreamInv
  <2>2. CASE sent_count < Len(Sends)
    <3>1. sent_count + 2 \in 1 .. Len(Sends) + 1 /\ Len(Sends) + 1 \in 1 .. Len(Sends) + 1
      BY <1>1, <2>2
    <3>2. Start(Sends, sent_count + 2) <= Start(Sends, Len(Sends) + 1)
      BY <1>1, <3>1, Messages
    <3>3. Start(Sends, sent_count + 2) \in Nat /\ Start(Sends, Len(Sends) + 1) \in Nat
      BY <3>1, Messages
    <3> QED BY <1>6, <2>2, <3>2, <3>3 DEF StreamInv
  <2> QED BY <1>1, <2>1, <2>2
<1>8. ASSUME Given > Start(Sends, Current) PROVE Current <= Len(Sends)
  <2> SUFFICES ASSUME ~(Current <= Len(Sends)) PROVE FALSE
    OBVIOUS
  <2>1. Current = Len(Sends) + 1
    BY <1>1, <1>2
  <2> QED BY <1>4, <1>6, <1>7, <1>8, <2>1
<1> QED BY <1>1, <1>2, <1>3, <1>5, <1>6, <1>7, <1>8

(* What recv finds next are the next cells of the message that the server  *)
(* is receiving.                                                           *)
LEMMA NextCells ==
  ASSUME FramingTypes, ReceivedInv, StreamInv, IncomingInv,
         NEW n \in 1 .. Len(stream), n <= Wanted - Len(incoming)
  PROVE  /\ Current \in 1 .. Len(Sends) /\ Offset + n <= Size(Sends)[Current]
         /\ \A k \in 1 .. n : stream[k] = FrameCells(Sends[Current])[Offset + k]
<1>1. /\ Len(stream) \in Nat /\ Len(incoming) \in Nat /\ n \in Nat /\ n > 0
      /\ Offset \in Nat /\ Taken \in Nat /\ Given \in Nat
      /\ Taken = Start(Sends, Current) + Offset /\ Given = Taken + Len(stream)
  BY Shape, SMTT(30) DEF FramingTypes
<1>2. Start(Sends, Current) \in Nat
  BY Shape, Messages
<1>3. Given > Start(Sends, Current)
  BY <1>1, <1>2, Shape, SMTT(30)
<1>4. Current \in 1 .. Len(Sends)
  BY <1>3, Shape
<1>5. /\ Size(Sends)[Current] = 5 + Len(Sends[Current].payload) /\ Size(Sends)[Current] \in Nat
      /\ Start(Sends, Current + 1) = Start(Sends, Current) + Size(Sends)[Current]
      /\ Len(Sends[Current].payload) \in Nat /\ Sends[Current] \in Frame
      /\ Current < Len(Sends) => Sends[Current].payload_length = Len(Sends[Current].payload)
  BY <1>4, Messages
<1>6. Offset + n <= Size(Sends)[Current]
  <2>1. CASE header = <<>>
    BY <1>1, <1>5, <2>1, SMTT(30) DEF Offset, Wanted, MESSAGE_HEADER_SIZE
  <2>2. CASE header # <<>> /\ Current < Len(Sends)
    <3>1. header.payload_length = FrameCells(Sends[Current])[5]
      BY <2>2 DEF IncomingInv, message_decode_header
    <3>2. header.payload_length = Len(Sends[Current].payload)
      BY <1>5, <2>2, <3>1, CellParts
    <3> QED BY <1>1, <1>5, <2>2, <3>2, SMTT(30) DEF Offset, Wanted, MESSAGE_HEADER_SIZE
  <2>3. CASE Current = Len(Sends)
    <3>1. Given <= Start(Sends, Current) + Size(Sends)[Current]
      BY <1>5, <2>3, Shape
    <3> QED BY <1>1, <1>2, <1>5, <3>1, SMTT(30)
  <2>4. Len(Sends) \in Nat
    BY Messages
  <2> QED BY <1>4, <2>1, <2>2, <2>3, <2>4
<1>7. ASSUME NEW k \in 1 .. n
      PROVE  stream[k] = FrameCells(Sends[Current])[Offset + k]
  <2> DEFINE i == Offset + k
  <2>1. i \in 1 .. Size(Sends)[Current]
    BY <1>1, <1>5, <1>6, SMTT(30)
  <2>2. Start(Sends, Current) + i = Taken + k /\ Start(Sends, Current) + i - Taken = k
    BY <1>1, <1>2
  <2>3. Taken + k \in Taken + 1 .. Taken + Len(stream)
    BY <1>1
  <2>4. Placed(Sends, stream, Taken)
    BY DEF StreamInv
  <2> HIDE DEF i
  <2>5. stream[Start(Sends, Current) + i - Taken] = FrameCells(Sends[Current])[i]
    BY <1>4, <2>1, <2>2, <2>3, <2>4 DEF Placed
  <2>6. stream[k] = FrameCells(Sends[Current])[i]
    BY <2>2, <2>5
  <2> QED BY <2>6 DEF i
<1> QED BY <1>4, <1>6, <1>7

(* A message whose header is not refused, and that is complete when as     *)
(* many cells have come as the header says, can be delivered.              *)
LEMMA Whole ==
  ASSUME FramingTypes, ReceivedInv, IncomingInv, header # <<>>, Len(incoming) = Wanted
  PROVE  /\ Current \in 1 .. Len(Sends)
         /\ message(header.type, incoming) = Sends[Current]
         /\ IsDeliverable(Sends[Current]) /\ header.type = Sends[Current].type
         /\ Len(incoming) = Len(Sends[Current].payload)
<1> DEFINE f == Sends[Current]
           cells == FrameCells(f)
<1>1. Current \in 1 .. Len(Sends)
  BY DEF IncomingInv, FramingTypes, Current
<1>2. f \in Frame /\ Len(f.payload) <= f.payload_length
  BY <1>1, Messages
<1>3. /\ header.type = cells[3] /\ header.payload_length = cells[5]
      /\ DecodeError(cells) = "0" /\ cells[5] <= PayloadBufferSize
      /\ Len(incoming) <= Len(f.payload)
      /\ \A i \in 1 .. Len(incoming) : incoming[i] = f.payload[i]
  BY DEF IncomingInv, message_decode_header
<1>4. /\ cells[1] = f.magic /\ cells[2] = f.version /\ cells[3] = f.type
      /\ cells[4] = f.reserved /\ cells[5] = f.payload_length
      /\ Len(f.payload) \in Nat /\ f.payload \in Seq(Nat) /\ f.payload_length \in Nat
      /\ f = [magic |-> f.magic, version |-> f.version, type |-> f.type, reserved |-> f.reserved,
              payload_length |-> f.payload_length, payload |-> f.payload]
  BY <1>2, CellParts
<1> HIDE DEF f, cells
<1>5. /\ f.magic = MESSAGE_MAGIC /\ f.version = MESSAGE_PROTOCOL_VERSION
      /\ TypeIsValid(f.type) /\ f.reserved = 0 /\ ~(f.payload_length > MESSAGE_MAX_PAYLOAD_SIZE)
  BY <1>3, <1>4 DEF DecodeError
<1>6. Len(incoming) = f.payload_length
  BY <1>3, <1>4 DEF Wanted
<1>7. incoming \in Seq(Nat) /\ Len(incoming) \in Nat
  BY DEF FramingTypes
<1>8. Len(f.payload) = f.payload_length /\ Len(incoming) = Len(f.payload)
  BY <1>2, <1>3, <1>4, <1>6, <1>7
<1>9. incoming = f.payload
  <2>1. Len(incoming) = Len(f.payload) /\ \A i \in 1 .. Len(incoming) : incoming[i] = f.payload[i]
    BY <1>3, <1>8
  <2>2. incoming \in Seq(Nat) /\ f.payload \in Seq(Nat)
    BY <1>4, <1>7
  <2> QED BY <2>1, <2>2, SeqEqual
<1>10. f = message(f.type, f.payload)
  BY <1>4, <1>5, <1>8 DEF message
<1>11. EncodeError(f) = "0"
  BY <1>5 DEF EncodeError
<1>12. IsDeliverable(f)
  BY <1>3, <1>4, <1>8, <1>10, <1>11 DEF IsDeliverable
<1>13. message(header.type, incoming) = f /\ header.type = f.type
  BY <1>3, <1>4, <1>9, <1>10
<1> QED BY <1>1, <1>8, <1>12, <1>13 DEF f


(* The cells of a decoded header, and that it is not the empty sequence.   *)
LEMMA Decoded ==
  ASSUME FramingTypes, IncomingInv, header = <<>>, Len(incoming) = Wanted
  PROVE  /\ Current \in 1 .. Len(Sends) /\ Len(incoming) = 5
         /\ \A i \in 1 .. 5 : incoming[i] = FrameCells(Sends[Current])[i]
         /\ DecodeError(incoming) = DecodeError(FrameCells(Sends[Current]))
         /\ message_decode_header(incoming) = message_decode_header(FrameCells(Sends[Current]))
         /\ message_decode_header(incoming) # <<>>
         /\ incoming[5] = Sends[Current].payload_length
<1>1. Len(incoming) = 5
  BY DEF Wanted, MESSAGE_HEADER_SIZE
<1>2. Current \in 1 .. Len(Sends)
  <2>1. incoming # <<>>
    BY <1>1
  <2> QED BY <2>1 DEF IncomingInv, FramingTypes, Current
<1>3. \A i \in 1 .. 5 : incoming[i] = FrameCells(Sends[Current])[i]
  BY <1>1 DEF IncomingInv
<1>4. /\ incoming[1] = FrameCells(Sends[Current])[1] /\ incoming[2] = FrameCells(Sends[Current])[2]
      /\ incoming[3] = FrameCells(Sends[Current])[3] /\ incoming[4] = FrameCells(Sends[Current])[4]
      /\ incoming[5] = FrameCells(Sends[Current])[5]
  BY <1>3
<1>5. DecodeError(incoming) = DecodeError(FrameCells(Sends[Current]))
  BY <1>4 DEF DecodeError
<1>6. message_decode_header(incoming) = message_decode_header(FrameCells(Sends[Current]))
  BY <1>4 DEF message_decode_header
<1>7. message_decode_header(incoming) # <<>>
  <2>1. "type" \in DOMAIN message_decode_header(incoming)
    BY DEF message_decode_header
  <2>2. DOMAIN <<>> = {}
    OBVIOUS
  <2> QED BY <2>1, <2>2
<1>8. Sends[Current] \in Frame
  BY <1>2, Messages
<1>9. incoming[5] = Sends[Current].payload_length
  BY <1>4, <1>8, CellParts
<1> QED BY <1>1, <1>2, <1>3, <1>5, <1>6, <1>7, <1>9

LEMMA IncomingKept ==
  ASSUME FramingTypes, ReceivedInv, StreamInv, IncomingInv, [FramingNext]_framingVars, Receiving'
  PROVE  IncomingInv'
<1>1. Sends' = Sends /\ UNCHANGED script
  BY ScriptStays
<1>2. CASE UNCHANGED <<incoming, header, received>>
  BY <1>1, <1>2 DEF IncomingInv, Current
<1>3. ASSUME NEW n \in 1 .. (Wanted - Len(incoming)), n <= Len(stream),
             incoming' = incoming \o SubSeq(stream, 1, n), UNCHANGED <<header, received>>
      PROVE  IncomingInv'
  <2> DEFINE f == Sends[Current]
             more == SubSeq(stream, 1, n)
  <2>0. Len(incoming) \in Nat /\ Len(stream) \in Nat /\ stream \in Seq(Nat) /\ incoming \in Seq(Nat)
    BY DEF FramingTypes
  <2>1. n \in 1 .. Len(stream) /\ n \in 0 .. Len(stream) /\ Wanted \in Int
        /\ n <= Wanted - Len(incoming)
    <3>1. Wanted \in Int
      BY DEF Wanted, FramingTypes, MESSAGE_HEADER_SIZE
    <3> QED BY <1>3, <2>0, <3>1
  <2>2. /\ Current \in 1 .. Len(Sends) /\ Offset + n <= Size(Sends)[Current]
        /\ \A k \in 1 .. n : stream[k] = FrameCells(f)[Offset + k]
    BY <2>1, NextCells
  <2>3. more \in Seq(Nat) /\ Len(more) = n /\ \A k \in 1 .. n : more[k] = stream[k]
    BY <2>0, <2>1, Parts
  <2>4. /\ Len(incoming') = Len(incoming) + n
        /\ \A i \in 1 .. Len(incoming) : incoming'[i] = incoming[i]
        /\ \A k \in 1 .. n : incoming'[Len(incoming) + k] = FrameCells(f)[Offset + k]
    <3> HIDE DEF more
    <3>1. incoming' = incoming \o more
      BY <1>3 DEF more
    <3>2. /\ Len(incoming \o more) = Len(incoming) + Len(more)
          /\ \A i \in 1 .. Len(incoming) : (incoming \o more)[i] = incoming[i]
          /\ \A i \in 1 .. Len(more) : (incoming \o more)[Len(incoming) + i] = more[i]
      BY <2>0, <2>3, Concatenated
    <3> QED BY <2>2, <2>3, <3>1, <3>2
  <2>5. ASSUME NEW i \in 1 .. Len(incoming')
        PROVE  i \in 1 .. Len(incoming) \/ \E k \in 1 .. n : i = Len(incoming) + k
    <3>1. CASE i <= Len(incoming)
      BY <2>0, <3>1
    <3>2. CASE i > Len(incoming)
      <4>1. i - Len(incoming) \in 1 .. n /\ i = Len(incoming) + (i - Len(incoming))
        BY <2>0, <2>1, <2>4, <3>2
      <4> QED BY <4>1
    <3> QED BY <2>0, <2>4, <3>1, <3>2
  <2>6. f \in Frame /\ Len(f.payload) \in Nat /\ Size(Sends)[Current] = 5 + Len(f.payload)
    BY <2>2, Messages
  <2>7. Current' = Current /\ (Sends[Current])' = f
    BY <1>1, <1>3 DEF Current
  <2> HIDE DEF f, more
  <2>8. CASE header = <<>>
    <3>1. Offset = Len(incoming)
      BY <2>0, <2>8 DEF Offset
    <3>2. Len(incoming') <= MESSAGE_HEADER_SIZE
      BY <2>0, <2>1, <2>4, <2>8 DEF Wanted, MESSAGE_HEADER_SIZE
    <3>3. \A i \in 1 .. Len(incoming) : incoming[i] = FrameCells(f)[i]
      BY <2>8 DEF IncomingInv, f
    <3>4. \A i \in 1 .. Len(incoming') : incoming'[i] = FrameCells(f)[i]
      BY <2>4, <2>5, <3>1, <3>3
    <3> QED BY <1>1, <1>3, <2>2, <2>7, <2>8, <3>2, <3>4 DEF IncomingInv
  <2>9. CASE header # <<>>
    <3>1. Offset = 5 + Len(incoming)
      BY <2>9 DEF Offset, MESSAGE_HEADER_SIZE
    <3>2. header.payload_length \in Nat /\ Wanted = header.payload_length
      BY <2>9 DEF FramingTypes, Wanted
    <3>3. Len(incoming') <= header.payload_length /\ Len(incoming') <= Len(f.payload)
      <4>1. Len(incoming') = Len(incoming) + n /\ n \in Nat
        BY <2>1, <2>4
      <4>2. n <= header.payload_length - Len(incoming)
        BY <2>1, <3>2
      <4>3. 5 + Len(incoming) + n <= 5 + Len(f.payload)
        BY <2>2, <2>6, <3>1
      <4> QED BY <2>0, <2>6, <3>2, <4>1, <4>2, <4>3
    <3>4. \A i \in 1 .. Len(incoming) : incoming[i] = f.payload[i]
      BY <2>9 DEF IncomingInv, f
    <3>5. \A i \in 1 .. Len(f.payload) : FrameCells(f)[5 + i] = f.payload[i]
      BY <2>6, CellParts DEF MESSAGE_HEADER_SIZE
    <3>6. ASSUME NEW i \in 1 .. Len(incoming') PROVE incoming'[i] = f.payload[i]
      <4>1. ASSUME NEW k \in 1 .. n, i = Len(incoming) + k PROVE incoming'[i] = f.payload[i]
        <5>1. i \in 1 .. Len(f.payload) /\ Offset + k = 5 + i
          BY <2>0, <2>1, <2>4, <2>6, <3>1, <3>3, <4>1, SMTT(30)
        <5> QED BY <2>4, <3>5, <4>1, <5>1
      <4> QED BY <2>4, <2>5, <3>4, <4>1
    <3>7. /\ header = message_decode_header(FrameCells(f)) /\ DecodeError(FrameCells(f)) = "0"
          /\ header.payload_length <= PayloadBufferSize /\ Current <= Len(Sends)
      BY <2>9 DEF IncomingInv, f
    <3> QED BY <1>1, <1>3, <2>7, <2>9, <3>3, <3>6, <3>7 DEF IncomingInv
  <2> QED BY <2>8, <2>9
<1>4. CASE DecodeHeader
  <2>1. /\ header = <<>> /\ Len(incoming) = Wanted /\ ~ReceiveFails
        /\ DecodeError(incoming) = "0"
        /\ message_decode_header(incoming).payload_length <= PayloadBufferSize
        /\ header' = message_decode_header(incoming) /\ incoming' = <<>> /\ UNCHANGED received
    BY <1>4 DEF DecodeHeader, RecvDone, ReceiveFails, Receiving
  <2>2. Current' = Current
    BY <2>1 DEF Current
  <2>3. Len(incoming') = 0
    BY <2>1
  <2>4. Current \in 1 .. Len(Sends)
    BY <2>1, Decoded
  <2>5. /\ header' = message_decode_header(FrameCells(Sends[Current]))
        /\ DecodeError(FrameCells(Sends[Current])) = "0" /\ header' # <<>>
    BY <2>1, Decoded
  <2>6. 0 <= header'.payload_length /\ 0 <= Len(Sends[Current].payload)
    <3>1. header'.payload_length = incoming[5]
      BY <2>1 DEF message_decode_header
    <3>2. incoming[5] \in Nat
      BY <2>1, <2>4, Decoded, Messages
    <3> QED BY <2>4, <3>1, <3>2, Messages
  <2> QED BY <1>1, <2>1, <2>2, <2>3, <2>4, <2>5, <2>6 DEF IncomingInv
<1>5. CASE Publish
  <2>1. header' = <<>> /\ incoming' = <<>>
    BY <1>5 DEF Publish
  <2> QED BY <2>1 DEF IncomingInv, MESSAGE_HEADER_SIZE
<1>6. CASE RecvExact
  <2>1. ~ReceiveFails
    BY DEF ReceiveFails, Receiving
  <2> QED BY <1>3, <1>6, <2>1 DEF RecvExact
<1>7. CASE RecvError
  BY <1>7 DEF RecvError, ReceiveFails, Receiving
<1>8. Client \/ Create \/ Accept \/ CloseClient \/ CloseServer \/ ClientKilled \/ SendError
        \/ AcceptError \/ UNCHANGED framingVars => UNCHANGED <<incoming, header, received>>
  BY DEF Client, Connect, MessageSend, SendAll, ClientClose, Create, Accept, CloseClient,
         CloseServer, ConnectionClose, ClientKilled, SendError, AcceptError, framingVars,
         receiverVars
<1> QED BY <1>2, <1>4, <1>5, <1>6, <1>7, <1>8 DEF FramingNext, Server, Failure


(* What message_receive gives out is the next message, which has been sent *)
(* completely.                                                             *)
LEMMA Published ==
  ASSUME FramingTypes, ReceivedInv, StreamInv, IncomingInv, Publish
  PROVE  /\ Current \in 1 .. Len(Sends) /\ Current <= sent_count
         /\ IsDeliverable(Sends[Current]) /\ header.type = Sends[Current].type
         /\ received' = Append(received, Sends[Current]) /\ Len(received') = Current
         /\ \A i \in 1 .. Len(received) : received'[i] = received[i]
         /\ received'[Current] = Sends[Current]
         /\ Taken = Start(Sends, Current + 1)
<1>1. /\ header # <<>> /\ Len(incoming) = Wanted
      /\ received' = Append(received, message(header.type, incoming))
  BY DEF Publish, RecvDone
<1>2. /\ Current \in 1 .. Len(Sends) /\ message(header.type, incoming) = Sends[Current]
      /\ IsDeliverable(Sends[Current]) /\ header.type = Sends[Current].type
      /\ Len(incoming) = Len(Sends[Current].payload)
  BY <1>1, Whole
<1>3. /\ received' = Append(received, Sends[Current]) /\ received \in Seq(Frame)
      /\ Len(received) \in Nat /\ Current = Len(received) + 1
  BY <1>1, <1>2 DEF FramingTypes, Current
<1>4. /\ Len(received') = Current /\ received'[Current] = Sends[Current]
      /\ \A i \in 1 .. Len(received) : received'[i] = received[i]
  BY <1>3
<1>5. /\ Size(Sends)[Current] = 5 + Len(Sends[Current].payload) /\ Size(Sends)[Current] \in Nat
      /\ Start(Sends, Current + 1) = Start(Sends, Current) + Size(Sends)[Current]
      /\ Start(Sends, Current) \in Nat
  BY <1>2, Messages
<1>6. Offset = 5 + Len(Sends[Current].payload)
  BY <1>1, <1>2 DEF Offset, MESSAGE_HEADER_SIZE
<1>7. /\ Taken = Start(Sends, Current) + Offset /\ Given = Taken + Len(stream)
      /\ Len(stream) \in Nat /\ Current <= sent_count + 1
      /\ sent_count \in 0 .. Len(Sends) /\ Len(Sends) \in Nat
  BY Shape, Messages DEF FramingTypes
<1>8. Taken = Start(Sends, Current + 1)
  BY <1>5, <1>6, <1>7
<1>9. Current <= sent_count
  <2> SUFFICES ASSUME ~(Current <= sent_count) PROVE FALSE
    OBVIOUS
  <2>1. Current = sent_count + 1 /\ sent_count + 2 = Current + 1
    BY <1>2, <1>7
  <2>2. sent_count < Len(Sends)
    BY <1>2, <1>7, <2>1
  <2>3. Given < Start(Sends, Current + 1)
    BY <2>1, <2>2 DEF StreamInv
  <2>4. Start(Sends, Current + 1) \in Nat
    BY <1>5
  <2>5. Given = Start(Sends, Current + 1) + Len(stream) /\ Len(stream) \in Nat
    BY <1>7, <1>8
  <2> QED BY <2>3, <2>4, <2>5
<1> QED BY <1>2, <1>3, <1>4, <1>8, <1>9

LEMMA ReceivedKept ==
  ASSUME FramingTypes, ReceivedInv, [FramingNext]_framingVars,
         Receiving => StreamInv /\ IncomingInv
  PROVE  ReceivedInv'
<1>1. Sends' = Sends
  BY ScriptStays
<1>2. Len(received) \in Nat /\ sent_count \in Nat
  BY Messages DEF FramingTypes
<1>3. CASE UNCHANGED received /\ sent_count' \in {sent_count, sent_count + 1}
  BY <1>1, <1>2, <1>3 DEF ReceivedInv
<1>4. CASE Publish
  <2>1. Receiving /\ UNCHANGED sent_count
    BY <1>4 DEF Publish, Receiving, senderVars
  <2>2. /\ Current <= sent_count /\ IsDeliverable(Sends[Current]) /\ Len(received') = Current
        /\ \A i \in 1 .. Len(received) : received'[i] = received[i]
        /\ received'[Current] = Sends[Current] /\ Current = Len(received) + 1
    BY <1>4, <2>1, Published DEF Current
  <2>3. \A i \in 1 .. Len(received') : i \in 1 .. Len(received) \/ i = Current
    BY <1>2, <2>2
  <2> QED BY <1>1, <2>1, <2>2, <2>3 DEF ReceivedInv
<1>5. Client \/ ClientKilled \/ SendError
        => UNCHANGED received /\ sent_count' \in {sent_count, sent_count + 1}
  BY DEF Client, Connect, MessageSend, SendAll, SendFails, ClientClose, ClientKilled, SendError,
         receiverVars
<1>6. Create \/ Accept \/ RecvExact \/ DecodeHeader \/ CloseClient \/ CloseServer \/ AcceptError
        \/ RecvError \/ UNCHANGED framingVars => UNCHANGED <<received, sent_count>>
  BY DEF Create, Accept, RecvExact, DecodeHeader, CloseClient, CloseServer, ConnectionClose,
         AcceptError, RecvError, ReceiveFails, framingVars, senderVars, receiverVars
<1> QED BY <1>3, <1>4, <1>5, <1>6 DEF FramingNext, Server, Failure


(* While the server receives, it can get what is sent. *)
LEMMA ServerListens ==
  ASSUME Links, Receiving, client \in {"send", "send_all", "close"}
  PROVE  ServerReachable
BY DEF Links, Receiving, ServerReachable, Reachable

(* More cells of the message that is being sent. *)
LEMMA CellsGiven ==
  ASSUME FramingTypes, ClientInv, ReceivedInv, StreamInv, client = "send_all",
         NEW n \in 1 .. Len(outgoing)
  PROVE  /\ Placed(Sends, stream \o SubSeq(outgoing, 1, n), Taken)
         /\ Len(stream \o SubSeq(outgoing, 1, n)) = Len(stream) + n
<1> DEFINE more == SubSeq(outgoing, 1, n)
           longer == stream \o more
           s == sent_count + 1
           size == Size(Sends)[s]
<1>0. /\ stream \in Seq(Nat) /\ outgoing \in Seq(Nat)
      /\ Len(stream) \in Nat /\ Len(outgoing) \in Nat
      /\ n \in 0 .. Len(outgoing) /\ n \in Nat /\ n <= Len(outgoing)
  BY DEF FramingTypes
<1>1. more \in Seq(Nat) /\ Len(more) = n /\ \A k \in 1 .. n : more[k] = outgoing[k]
  BY <1>0, Parts
<1>2. /\ Len(longer) = Len(stream) + n
      /\ \A i \in 1 .. Len(stream) : longer[i] = stream[i]
      /\ \A k \in 1 .. n : longer[Len(stream) + k] = more[k]
  <2> HIDE DEF more
  <2> QED BY <1>0, <1>1, Concatenated
<1>3. /\ s \in 1 .. Len(Sends) /\ s + 1 = sent_count + 2
      /\ Len(Sends) \in Nat /\ sent_count < Len(Sends)
  BY Messages DEF FramingTypes
<1>4. /\ size \in Nat /\ Start(Sends, s + 1) = Start(Sends, s) + size /\ Start(Sends, s) \in Nat
  <2> HIDE DEF s
  <2> QED BY <1>3, Messages
<1>5. /\ Len(outgoing) \in 1 .. size
      /\ \A i \in 1 .. Len(outgoing) :
           outgoing[i] = FrameCells(Sends[s])[size - Len(outgoing) + i]
  BY DEF ClientInv
<1>6. Taken \in Nat /\ Given = Taken + Len(stream)
  BY Shape
<1> HIDE DEF more, longer, size
<1>7. Given + Len(outgoing) = Start(Sends, s) + size
  BY <1>3, <1>4 DEF StreamInv
<1>8. ASSUME NEW m \in 1 .. Len(Sends), NEW i \in 1 .. Size(Sends)[m],
             Start(Sends, m) + i \in Taken + 1 .. Taken + Len(longer)
      PROVE  longer[Start(Sends, m) + i - Taken] = FrameCells(Sends[m])[i]
  <2>1. /\ Start(Sends, m) \in Nat /\ Size(Sends)[m] \in Nat /\ i \in Nat
        /\ Start(Sends, m + 1) = Start(Sends, m) + Size(Sends)[m]
    BY Messages
  <2>2. PICK p \in Nat : p = Start(Sends, m) + i
    BY <2>1
  <2>3. PICK t \in Nat, l \in Nat, o \in Nat, z \in Nat, b \in Nat :
          t = Taken /\ l = Len(stream) /\ o = Len(outgoing) /\ z = size /\ b = Start(Sends, s)
    BY <1>0, <1>4, <1>6
  <2>4. /\ o \in 1 .. z /\ n \in 1 .. o /\ n \in Nat /\ t + l + o = b + z
        /\ p \in t + 1 .. t + (l + n) /\ Len(longer) = l + n
        /\ p - t = Start(Sends, m) + i - Taken
    <3>0. p - t = Start(Sends, m) + i - Taken
      BY <2>1, <2>2, <2>3, <1>6, SMTT(30)
    <3>1. Len(longer) = l + n
      BY <1>2, <2>3
    <3>2. p \in t + 1 .. t + (l + n)
      BY <1>8, <2>2, <2>3, <3>1
    <3>3. t + l + o = b + z
      BY <1>6, <1>7, <2>3
    <3> QED BY <1>0, <1>5, <2>3, <3>0, <3>1, <3>2, <3>3
  <2>5. CASE p <= t + l
    <3>1. p \in t + 1 .. t + l /\ p - t \in 1 .. l
      BY <2>4, <2>5
    <3>2. stream[p - t] = FrameCells(Sends[m])[i]
      <4>1. /\ Placed(Sends, stream, Taken)
            /\ Start(Sends, m) + i \in Taken + 1 .. Taken + Len(stream)
        BY <2>2, <2>3, <3>1 DEF StreamInv
      <4>2. stream[Start(Sends, m) + i - Taken] = FrameCells(Sends[m])[i]
        BY <4>1 DEF Placed
      <4> QED BY <2>4, <4>2
    <3>3. longer[p - t] = FrameCells(Sends[m])[i]
      BY <1>2, <2>3, <3>1, <3>2
    <3> QED BY <2>4, <3>3
  <2>6. CASE p > t + l
    <3>1. PICK k \in 1 .. n : p - t = l + k
      <4>1. p - t - l \in 1 .. n /\ p - t = l + (p - t - l)
        BY <2>4, <2>6
      <4> QED BY <4>1
    <3>2. k \in 1 .. o /\ p + o = b + z + k
      BY <2>4, <3>1
    <3>3. m = s
      <4>1. CASE m < s
        <5>1. m + 1 \in 1 .. Len(Sends) + 1 /\ s \in 1 .. Len(Sends) + 1 /\ m + 1 <= s
          BY <1>3, <4>1
        <5>2. Start(Sends, m + 1) <= b
          BY <2>3, <5>1, Messages
        <5>3. p <= b
          BY <2>1, <2>2, <5>2
        <5> QED BY <2>4, <3>2, <5>3
      <4>2. CASE m > s
        <5>1. s + 1 \in 1 .. Len(Sends) + 1 /\ m \in 1 .. Len(Sends) + 1 /\ s + 1 <= m
          BY <1>3, <4>2
        <5>2. Start(Sends, s + 1) <= Start(Sends, m)
          BY <5>1, Messages
        <5>3. b + z <= Start(Sends, m) /\ i >= 1
          BY <1>4, <2>1, <2>3, <5>2
        <5>4. b + z < p
          BY <2>1, <2>2, <5>3
        <5> QED BY <2>4, <3>2, <5>4
      <4> QED BY <1>3, <4>1, <4>2
    <3>4. i = z - o + k
      <4>1. p = b + i
        BY <2>2, <2>3, <3>3
      <4> QED BY <2>1, <2>4, <3>2, <4>1
    <3>5. outgoing[k] = FrameCells(Sends[m])[i]
      BY <1>5, <2>3, <3>2, <3>3, <3>4
    <3>6. longer[p - t] = FrameCells(Sends[m])[i]
      BY <1>1, <1>2, <2>3, <3>1, <3>5
    <3> QED BY <2>4, <3>6
  <2> QED BY <2>4, <2>5, <2>6
<1>9. Placed(Sends, longer, Taken)
  BY <1>8 DEF Placed
<1> QED BY <1>2, <1>9 DEF longer, more


(* Cells that the server has taken are no longer on the connection. *)
LEMMA CellsTaken ==
  ASSUME FramingTypes, ReceivedInv, StreamInv, NEW n \in 1 .. Len(stream)
  PROVE  /\ Placed(Sends, SubSeq(stream, n + 1, Len(stream)), Taken + n)
         /\ Len(SubSeq(stream, n + 1, Len(stream))) = Len(stream) - n
<1> DEFINE rest == SubSeq(stream, n + 1, Len(stream))
<1>0. stream \in Seq(Nat) /\ Len(stream) \in Nat /\ n \in 0 .. Len(stream) /\ n \in Nat
  BY DEF FramingTypes
<1>1. Len(rest) = Len(stream) - n /\ \A i \in 1 .. Len(stream) - n : rest[i] = stream[n + i]
  BY <1>0, Parts
<1>2. Taken \in Nat
  BY Shape
<1> HIDE DEF rest
<1>3. ASSUME NEW m \in 1 .. Len(Sends), NEW i \in 1 .. Size(Sends)[m],
             Start(Sends, m) + i \in Taken + n + 1 .. Taken + n + Len(rest)
      PROVE  rest[Start(Sends, m) + i - (Taken + n)] = FrameCells(Sends[m])[i]
  <2>1. Start(Sends, m) \in Nat /\ i \in Nat
    BY Messages
  <2>2. PICK p \in Nat : p = Start(Sends, m) + i
    BY <2>1
  <2>3. PICK t \in Nat, l \in Nat : t = Taken /\ l = Len(stream)
    BY <1>0, <1>2
  <2>4. /\ n \in 1 .. l /\ Len(rest) = l - n /\ p \in t + n + 1 .. t + n + (l - n)
        /\ p - t = Start(Sends, m) + i - Taken
        /\ p - (t + n) = Start(Sends, m) + i - (Taken + n)
    <3>1. n \in 1 .. l /\ Len(rest) = l - n
      BY <1>1, <2>3
    <3>2. p \in t + n + 1 .. t + n + (l - n)
      BY <1>3, <2>2, <2>3, <3>1
    <3>3. /\ p - t = Start(Sends, m) + i - Taken
          /\ p - (t + n) = Start(Sends, m) + i - (Taken + n)
      BY <1>0, <2>1, <2>2, <2>3
    <3> QED BY <3>1, <3>2, <3>3
  <2>5. /\ p \in t + 1 .. t + l /\ p - (t + n) \in 1 .. l - n /\ n + (p - (t + n)) = p - t
    BY <2>4
  <2>6. stream[p - t] = FrameCells(Sends[m])[i]
    <3>1. /\ Placed(Sends, stream, Taken)
          /\ Start(Sends, m) + i \in Taken + 1 .. Taken + Len(stream)
      BY <2>2, <2>3, <2>5 DEF StreamInv
    <3>2. stream[Start(Sends, m) + i - Taken] = FrameCells(Sends[m])[i]
      BY <3>1 DEF Placed
    <3> QED BY <2>4, <3>2
  <2>7. rest[p - (t + n)] = stream[n + (p - (t + n))]
    BY <1>1, <2>3, <2>5
  <2> QED BY <2>4, <2>5, <2>6, <2>7
<1>4. Placed(Sends, rest, Taken + n)
  BY <1>3 DEF Placed
<1> QED BY <1>1, <1>4 DEF rest

LEMMA StreamKept ==
  ASSUME FramingTypes, Links, ClientInv, ReceivedInv, StreamInv, IncomingInv,
         [FramingNext]_framingVars, Receiving'
  PROVE  StreamInv'
<1>1. Sends' = Sends /\ Receiving
  BY ScriptStays
<1>2. /\ Taken \in Nat /\ Given \in Nat /\ Given = Taken + Len(stream)
      /\ Taken = Start(Sends, Current) + Offset /\ Start(Sends, Current) \in Nat /\ Offset \in Nat
      /\ Len(stream) \in Nat /\ Len(incoming) \in Nat
      /\ sent_count \in Nat /\ Len(Sends) \in Nat
      /\ Start(Sends, sent_count + 1) \in Nat
  <2>1. sent_count + 1 \in 1 .. Len(Sends) + 1 /\ sent_count \in Nat /\ Len(Sends) \in Nat
    BY Messages
  <2> QED BY <2>1, Shape, Messages, SMTT(30) DEF FramingTypes
<1>3. UNCHANGED receiverVars => Taken' = Taken
  BY <1>1 DEF receiverVars, Taken, Current, Offset
<1>4. ASSUME Given' = Given, Placed(Sends, stream', Taken'),
             UNCHANGED <<client, outgoing, sent_count>>
      PROVE  StreamInv'
  BY <1>1, <1>4 DEF StreamInv
<1>5. ASSUME UNCHANGED <<stream, receiverVars, sent_count>>,
             client' \in {"send", "send_all"} => client' = client /\ UNCHANGED outgoing,
             client' # "connect" \/ client = "connect"
      PROVE  StreamInv'
  BY <1>1, <1>3, <1>5 DEF StreamInv, Given
<1>6. CASE Connect
  <2>1. /\ UNCHANGED <<stream, receiverVars, sent_count>> /\ client = "connect"
        /\ client' \in {"send", "exited"}
    BY <1>6 DEF Connect
  <2> QED BY <1>1, <1>3, <2>1 DEF StreamInv, Given
<1>7. CASE ClientClose \/ ClientKilled \/ (SendFails /\ UNCHANGED receiverVars)
  BY <1>5, <1>7 DEF ClientClose, ClientKilled, SendFails
<1>8. CASE MessageSend
  <2>1. UNCHANGED <<stream, receiverVars, sent_count>> /\ client = "send"
    BY <1>8 DEF MessageSend
  <2>2. CASE client' = "close"
    BY <1>5, <2>1, <2>2
  <2>3. CASE client' = "send_all"
    <3>1. sent_count < Len(Sends) /\ outgoing' = FrameCells(Sends[sent_count + 1])
      BY <1>8, <2>3 DEF MessageSend, FrameCells, Sends
    <3>2. PICK s \in 1 .. Len(Sends) : s = sent_count + 1
      BY <1>2, <3>1
    <3>3. Start(Sends, s + 1) = Start(Sends, s) + Len(outgoing')
      BY <3>1, <3>2, Messages
    <3>4. s + 1 = sent_count + 2
      BY <1>2, <3>2
    <3>5. Given + Len(outgoing') = Start(Sends, sent_count + 2)
      BY <2>1, <3>2, <3>3, <3>4 DEF StreamInv
    <3>6. Given' = Given /\ Taken' = Taken
      BY <1>3, <2>1 DEF Given
    <3> QED BY <1>1, <2>1, <2>3, <3>5, <3>6 DEF StreamInv
  <2> QED BY <1>8, <2>2, <2>3 DEF MessageSend
<1>9. ASSUME NEW n \in 1 .. Len(outgoing), client = "send_all", UNCHANGED receiverVars,
             stream' = stream \o SubSeq(outgoing, 1, n),
             outgoing' = SubSeq(outgoing, n + 1, Len(outgoing)),
             IF n = Len(outgoing) THEN client' = "send" /\ sent_count' = sent_count + 1
             ELSE UNCHANGED <<client, sent_count>>
      PROVE  StreamInv'
  <2>1. Placed(Sends, stream', Taken) /\ Len(stream') = Len(stream) + n
    BY <1>9, CellsGiven
  <2>2. outgoing \in Seq(Nat) /\ n \in 0 .. Len(outgoing) /\ Len(outgoing) \in Nat
    BY DEF FramingTypes
  <2>3. Len(outgoing') = Len(outgoing) - n
    BY <1>9, <2>2, Parts
  <2>4. Taken' = Taken /\ Given' = Given + n
    BY <1>2, <1>3, <1>9, <2>1, <2>2 DEF Given
  <2>5. Given + Len(outgoing) = Start(Sends, sent_count + 2) /\ sent_count < Len(Sends)
    BY <1>9 DEF StreamInv, FramingTypes
  <2>6. CASE n = Len(outgoing)
    <3>1. Given' = Start(Sends, sent_count + 2)
      BY <2>4, <2>5, <2>6
    <3>2. sent_count' + 1 = sent_count + 2 /\ sent_count' + 2 = sent_count + 3
      BY <1>2, <1>9, <2>6
    <3>3. sent_count + 2 \in 1 .. Len(Sends) + 1
      BY <1>2, <2>5
    <3>4. Start(Sends, sent_count + 2) \in Nat
      BY <3>3, Messages
    <3>5. sent_count' < Len(Sends) => Start(Sends, sent_count + 2) < Start(Sends, sent_count + 3)
      <4> SUFFICES ASSUME sent_count' < Len(Sends)
                   PROVE  Start(Sends, sent_count + 2) < Start(Sends, sent_count + 3)
        OBVIOUS
      <4>1. PICK s \in 1 .. Len(Sends) : s = sent_count + 2
        BY <1>2, <1>9, <2>6
      <4>2. s + 1 = sent_count + 3
        BY <1>2, <4>1
      <4>3. /\ Start(Sends, s + 1) = Start(Sends, s) + Size(Sends)[s]
            /\ Size(Sends)[s] = 5 + Len(Sends[s].payload) /\ Len(Sends[s].payload) \in Nat
        BY Messages
      <4> QED BY <3>4, <4>1, <4>2, <4>3
    <3> QED BY <1>1, <1>9, <2>1, <2>4, <2>6, <3>1, <3>2, <3>4, <3>5 DEF StreamInv
  <2>7. CASE n # Len(outgoing)
    <3>0. PICK g \in Nat, o \in Nat :
            /\ g = Given /\ o = Len(outgoing) /\ n \in 1 .. o /\ n # o
            /\ Given' = g + n /\ Len(outgoing') = o - n
      BY <1>2, <2>2, <2>3, <2>4, <2>7
    <3>1. Given' + Len(outgoing') = Start(Sends, sent_count + 2)
      <4>1. g + o = Start(Sends, sent_count + 2)
        BY <2>5, <3>0
      <4> QED BY <3>0, <4>1
    <3>2. Start(Sends, sent_count + 1) <= Given' /\ Given' < Start(Sends, sent_count + 2)
      <4>1. Start(Sends, sent_count + 1) <= Given
        BY DEF StreamInv
      <4>2. Start(Sends, sent_count + 1) <= g /\ Start(Sends, sent_count + 1) \in Nat
        BY <1>2, <3>0, <4>1
      <4> QED BY <3>0, <3>1, <4>2
    <3>3. UNCHANGED <<client, sent_count>> /\ client = "send_all" /\ sent_count # Len(Sends)
      BY <1>2, <1>9, <2>5, <2>7, SMTT(30)
    <3> QED BY <1>1, <2>1, <2>4, <3>1, <3>2, <3>3 DEF StreamInv
  <2> QED BY <2>6, <2>7
<1>10. CASE SendAll
  <2>1. ServerReachable
    BY <1>1, <1>10, ServerListens DEF SendAll
  <2> QED BY <1>9, <1>10, <2>1 DEF SendAll
<1>11. CASE Create \/ Accept \/ AcceptError \/ UNCHANGED framingVars
  <2>1. UNCHANGED <<senderVars, stream, incoming, header, received>>
    BY <1>11 DEF Create, Accept, AcceptError, framingVars, receiverVars
  <2>2. Taken' = Taken /\ Given' = Given
    BY <1>1, <2>1 DEF Taken, Current, Offset, Given
  <2> QED BY <1>1, <2>1, <2>2 DEF StreamInv, senderVars
<1>12. CASE CloseClient \/ CloseServer \/ RecvError
  BY <1>12 DEF CloseClient, CloseServer, ConnectionClose, RecvError, ReceiveFails, Receiving
<1>13. CASE RecvExact
  <2>1. ~ReceiveFails
    BY DEF ReceiveFails, Receiving
  <2>2. PICK n \in 1 .. (Wanted - Len(incoming)) :
          /\ n <= Len(stream) /\ incoming' = incoming \o SubSeq(stream, 1, n)
          /\ stream' = SubSeq(stream, n + 1, Len(stream))
          /\ UNCHANGED <<header, received, senderVars>>
    BY <1>13, <2>1 DEF RecvExact
  <2>3. Wanted - Len(incoming) \in Int
    BY <1>2, SMTT(30) DEF Wanted, FramingTypes, MESSAGE_HEADER_SIZE
  <2>4. n \in 1 .. Len(stream) /\ n \in 0 .. Len(stream) /\ n \in Nat
    BY <1>2, <2>2, <2>3
  <2>5. Placed(Sends, stream', Taken + n) /\ Len(stream') = Len(stream) - n
    BY <2>2, <2>4, CellsTaken
  <2>6. Len(incoming') = Len(incoming) + n
    <3>1. SubSeq(stream, 1, n) \in Seq(Nat) /\ Len(SubSeq(stream, 1, n)) = n
      BY <2>4, Parts DEF FramingTypes
    <3>2. incoming \in Seq(Nat)
      BY DEF FramingTypes
    <3> QED BY <2>2, <3>1, <3>2, Concatenated
  <2>7. Offset' = Offset + n
    <3>1. PICK l \in Nat : l = Len(incoming)
      BY <1>2
    <3>2. Len(incoming') = l + n /\ n \in Nat /\ UNCHANGED header
      BY <2>2, <2>4, <2>6, <3>1
    <3>3. CASE header = <<>>
      BY <3>1, <3>2, <3>3 DEF Offset
    <3>4. CASE header # <<>>
      BY <3>1, <3>2, <3>4 DEF Offset, MESSAGE_HEADER_SIZE
    <3> QED BY <3>3, <3>4
  <2>8. Taken' = Start(Sends, Current) + Offset'
    BY <1>1, <2>2 DEF Taken, Current
  <2>9. Taken' = Taken + n /\ Given' = Given
    <3>1. Taken' = Taken + n
      BY <1>2, <2>4, <2>7, <2>8, SMTT(30)
    <3> QED BY <1>2, <2>4, <2>5, <3>1 DEF Given
  <2> QED BY <1>4, <2>2, <2>5, <2>9 DEF senderVars
<1>14. CASE DecodeHeader
  <2>1. /\ header = <<>> /\ Len(incoming) = Wanted /\ header' = message_decode_header(incoming)
        /\ incoming' = <<>> /\ UNCHANGED <<received, senderVars, stream>>
    BY <1>14 DEF DecodeHeader, RecvDone, ReceiveFails, Receiving
  <2>2. header' # <<>> /\ Len(incoming) = 5
    BY <2>1, Decoded
  <2>3. Offset' = Offset
    BY <2>1, <2>2 DEF Offset, MESSAGE_HEADER_SIZE
  <2>4. Taken' = Taken /\ Given' = Given
    BY <1>1, <2>1, <2>3 DEF Taken, Current, Given
  <2> QED BY <1>1, <2>1, <2>4 DEF StreamInv, senderVars
<1>15. CASE Publish
  <2>1. Len(received') = Current /\ Taken = Start(Sends, Current + 1) /\ Current \in 1 .. Len(Sends)
    BY <1>15, Published
  <2>2. header' = <<>> /\ incoming' = <<>> /\ UNCHANGED <<senderVars, stream>>
    BY <1>15 DEF Publish
  <2>3. Offset' = 0
    BY <2>2 DEF Offset
  <2>4. Taken' = Start(Sends, Current + 1) + 0
    BY <1>1, <2>1, <2>3 DEF Taken, Current
  <2>5. Taken' = Taken
    BY <1>2, <2>1, <2>4
  <2>6. Given' = Given
    BY <2>2, <2>5 DEF Given
  <2>7. Placed(Sends, stream', Taken')
    BY <2>2, <2>5 DEF StreamInv
  <2>8. UNCHANGED <<client, outgoing, sent_count>>
    BY <2>2 DEF senderVars
  <2> QED BY <1>4, <2>6, <2>7, <2>8
<1>16. CASE SendError
  BY <1>7, <1>16 DEF SendError
<1> QED BY <1>6, <1>7, <1>8, <1>10, <1>11, <1>12, <1>13, <1>14, <1>15, <1>16
        DEF FramingNext, Client, Server, Failure


-----------------------------------------------------------------------------
(* The verdict of the server. *)

(* When the stream ends early, the client failed, or it sent less than the *)
(* server waits for, or cut its last message short.                        *)
LEMMA EndIsExcused ==
  ASSUME FramingTypes, Links, ClientInv, ReceivedInv, StreamInv, IncomingInv, VerdictInv,
         server = "receive", Len(incoming) # Wanted, stream = <<>>, "client" \notin descriptors
  PROVE  Excuse
<1> SUFFICES ASSUME ~client_failed, Len(Sends) >= script.receives PROVE Excuse
  BY Messages, ScriptParts DEF Excuse, FramingTypes
<1>1. client = "exited"
  BY DEF Links, FramingTypes
<1>2. sent_count = Len(Sends)
  BY <1>1 DEF ClientInv
<1>3. Given = Start(Sends, Len(Sends) + 1)
  BY <1>2 DEF StreamInv
<1>4. /\ Given = Taken + Len(stream) /\ Taken = Start(Sends, Current) + Offset /\ Offset \in Nat
      /\ Current = Len(received) + 1 /\ Len(received) \in 0 .. Len(Sends)
  BY Shape
<1>5. /\ script.receives \in Nat /\ Len(received) < script.receives /\ Len(Sends) \in Nat
  BY ScriptParts DEF FramingTypes, VerdictInv, Receiving
<1>6. Current \in 1 .. script.receives /\ Current \in 1 .. Len(Sends)
  BY <1>4, <1>5
<1> DEFINE f == Sends[Current]
<1>7. /\ Start(Sends, Current + 1) = Start(Sends, Current) + Size(Sends)[Current]
      /\ Size(Sends)[Current] = 5 + Len(f.payload) /\ Len(f.payload) \in Nat
      /\ Start(Sends, Current) \in Nat
  BY <1>6, Messages, SMTT(30)
<1>8. Start(Sends, Current + 1) <= Start(Sends, Len(Sends) + 1)
  <2>1. Current + 1 \in 1 .. Len(Sends) + 1 /\ Len(Sends) + 1 \in 1 .. Len(Sends) + 1
        /\ Current + 1 <= Len(Sends) + 1
    BY <1>5, <1>6
  <2> QED BY <2>1, Messages
<1>9. Offset >= 5 + Len(f.payload)
  <2>1. Len(stream) = 0
    OBVIOUS
  <2>2. Start(Sends, Len(Sends) + 1) = Start(Sends, Current) + Offset
    BY <1>3, <1>4, <1>7, <2>1
  <2> QED BY <1>4, <1>7, <1>8, <2>2
<1>10. Len(incoming) \in Nat
  BY DEF FramingTypes
<1>11. header # <<>> /\ Len(incoming) >= Len(f.payload)
  <2>1. CASE header = <<>>
    <3>1. Len(incoming) <= 5 /\ Len(incoming) # 5
      BY <2>1 DEF IncomingInv, Wanted, MESSAGE_HEADER_SIZE
    <3>2. Offset = Len(incoming)
      BY <1>10, <2>1 DEF Offset
    <3> QED BY <1>7, <1>9, <1>10, <3>1, <3>2, SMTT(30)
  <2>2. CASE header # <<>>
    <3>1. Offset = 5 + Len(incoming)
      BY <2>2 DEF Offset, MESSAGE_HEADER_SIZE
    <3> QED BY <1>7, <1>9, <1>10, <2>2, <3>1
  <2> QED BY <2>1, <2>2
<1>12. /\ header.payload_length = f.payload_length /\ Len(incoming) <= header.payload_length
       /\ f.payload_length \in Nat /\ Wanted = header.payload_length
  <2>1. f \in Frame
    BY <1>6, Messages
  <2>2. FrameCells(f)[5] = f.payload_length /\ f.payload_length \in Nat
    BY <2>1, CellParts
  <2>3. header = message_decode_header(FrameCells(f)) /\ Len(incoming) <= header.payload_length
    BY <1>11 DEF IncomingInv
  <2> QED BY <1>11, <2>2, <2>3 DEF message_decode_header, Wanted
<1>13. Len(f.payload) # f.payload_length
  BY <1>7, <1>10, <1>11, <1>12
<1>14. ~IsDeliverable(f)
  BY <1>13 DEF IsDeliverable, message
<1> QED BY <1>6, <1>14 DEF Excuse

(* A header is refused only when its message cannot be delivered. *)
LEMMA RefusalIsExcused ==
  ASSUME FramingTypes, ReceivedInv, StreamInv, IncomingInv, VerdictInv, server = "receive",
         header = <<>>, Len(incoming) = Wanted,
         \/ DecodeError(incoming) # "0"
         \/ message_decode_header(incoming).payload_length > PayloadBufferSize
  PROVE  Excuse
<1> DEFINE f == Sends[Current]
<1>1. /\ Current \in 1 .. Len(Sends) /\ DecodeError(incoming) = DecodeError(FrameCells(f))
      /\ incoming[5] = f.payload_length
  BY Decoded
<1>2. f \in Frame
  BY <1>1, Messages
<1>3. /\ FrameCells(f)[1] = f.magic /\ FrameCells(f)[2] = f.version /\ FrameCells(f)[3] = f.type
      /\ FrameCells(f)[4] = f.reserved /\ FrameCells(f)[5] = f.payload_length
      /\ f.payload_length \in Nat
  BY <1>2, CellParts
<1>4. ASSUME IsDeliverable(f) PROVE FALSE
  <2>1. /\ f.magic = MESSAGE_MAGIC /\ f.version = MESSAGE_PROTOCOL_VERSION /\ f.reserved = 0
        /\ f.payload_length = Len(f.payload)
    BY <1>4 DEF IsDeliverable, message
  <2>2. TypeIsValid(f.type) /\ ~(f.payload_length > MESSAGE_MAX_PAYLOAD_SIZE)
    BY <1>4 DEF IsDeliverable, EncodeError
  <2>3. DecodeError(incoming) = "0"
    BY <1>1, <1>3, <2>1, <2>2 DEF DecodeError
  <2>4. f.payload_length <= PayloadBufferSize
    BY <1>4, <2>1 DEF IsDeliverable
  <2>5. ~(f.payload_length > PayloadBufferSize)
    BY <1>3, <2>4, SizesAssumption
  <2> QED BY <1>1, <2>3, <2>5 DEF message_decode_header
<1>5. Current \in 1 .. script.receives
  <2>1. script.receives \in Nat /\ Len(received) < script.receives /\ Current = Len(received) + 1
        /\ Len(received) \in 0 .. Len(Sends)
    BY ScriptParts, Shape DEF FramingTypes, VerdictInv, Receiving
  <2> QED BY <2>1
<1> QED BY <1>4, <1>5 DEF Excuse

(* What excuses the server goes on doing so. *)
LEMMA ExcuseStays ==
  ASSUME FramingTypes, Excuse, [FramingNext]_framingVars
  PROVE  Excuse'
<1>1. faulted => faulted'
  BY DEF FramingNext, Client, Server, Failure, Connect, MessageSend, SendAll, ClientClose, Create,
         Accept, RecvExact, DecodeHeader, Publish, CloseClient, CloseServer, ConnectionClose,
         ClientKilled, SendError, AcceptError, RecvError, Fault, framingVars
<1>2. client_failed => client_failed'
  BY DEF FramingNext, Client, Server, Failure, Connect, MessageSend, SendAll, SendFails,
         ClientClose, Create, Accept, RecvExact, DecodeHeader, Publish, CloseClient, CloseServer,
         ConnectionClose,
         ClientKilled, SendError, AcceptError, RecvError, framingVars, senderVars
<1> QED BY <1>1, <1>2, ScriptStays DEF Excuse


LEMMA VerdictKept ==
  ASSUME FramingInv, [FramingNext]_framingVars
  PROVE  VerdictInv'
<1>0. /\ FramingTypes /\ Links /\ ClientInv /\ ReceivedInv /\ VerdictInv
      /\ Receiving => StreamInv /\ IncomingInv
  BY DEF FramingInv
<1>1. Sends' = Sends /\ UNCHANGED script
  BY ScriptStays
<1>2. Excuse => Excuse'
  BY <1>0, ExcuseStays
<1>3. CASE UNCHANGED <<server, server_failed, received>>
  BY <1>0, <1>1, <1>2, <1>3 DEF VerdictInv, AllText, Receiving
<1>4. ASSUME server' \in {"close_client", "close_server", "exited"}, server_failed', Excuse'
      PROVE  VerdictInv'
  BY <1>4 DEF VerdictInv, Receiving
<1>5. faulted' => Excuse'
  BY DEF Excuse
<1>6. CASE Create \/ Accept \/ AcceptError
  <2>1. CASE server' \in {"accept", "receive"} /\ UNCHANGED <<server_failed, received>> /\ Receiving
    BY <1>0, <1>1, <1>2, <2>1 DEF VerdictInv, AllText, Receiving
  <2>2. CASE server' \in {"close_server", "exited"} /\ server_failed' /\ faulted'
    BY <1>4, <1>5, <2>2
  <2> QED BY <1>6, <2>1, <2>2 DEF Create, Accept, AcceptError, Fault, Receiving
<1>7. CASE RecvExact
  <2>1. server = "receive" /\ Receiving /\ Len(incoming) # Wanted
    BY <1>7 DEF RecvExact, RecvDone, Receiving
  <2>2. CASE stream = <<>> /\ "client" \notin descriptors /\ ReceiveFails
    <3>1. Excuse
      BY <1>0, <2>1, <2>2, EndIsExcused
    <3> QED BY <1>2, <1>4, <2>2, <3>1 DEF ReceiveFails
  <2> QED BY <1>3, <1>7, <2>2 DEF RecvExact
<1>8. CASE RecvError
  BY <1>4, <1>5, <1>8 DEF RecvError, ReceiveFails, Fault
<1>9. CASE DecodeHeader
  <2>1. server = "receive" /\ Receiving /\ header = <<>> /\ Len(incoming) = Wanted
    BY <1>9 DEF DecodeHeader, RecvDone, Receiving
  <2>2. CASE /\ \/ DecodeError(incoming) # "0"
                \/ message_decode_header(incoming).payload_length > PayloadBufferSize
             /\ ReceiveFails
    <3>1. Excuse
      BY <1>0, <2>1, <2>2, RefusalIsExcused
    <3> QED BY <1>2, <1>4, <2>2, <3>1 DEF ReceiveFails
  <2> QED BY <1>3, <1>9, <2>2 DEF DecodeHeader
<1>10. CASE Publish
  <2>1. server = "receive" /\ Receiving
    BY <1>10 DEF Publish, Receiving
  <2>2. /\ Current \in 1 .. Len(Sends) /\ header.type = Sends[Current].type
        /\ Len(received') = Current /\ received'[Current] = Sends[Current]
        /\ \A i \in 1 .. Len(received) : received'[i] = received[i]
    BY <1>0, <1>10, <2>1, Published
  <2>3. /\ script.receives \in Nat /\ Len(received) < script.receives
        /\ Current = Len(received) + 1 /\ Len(received) \in Nat
    <3>1. script.receives \in Nat
      BY <1>0, ScriptParts DEF FramingTypes
    <3> QED BY <1>0, <2>1, <3>1 DEF FramingTypes, VerdictInv, Current
  <2>4. Current \in 1 .. script.receives
    BY <2>3
  <2>5. CASE header.type # MESSAGE_TYPE_TEXT /\ server' = "close_client" /\ server_failed'
    <3>1. Excuse
      BY <2>2, <2>4, <2>5 DEF Excuse
    <3> QED BY <1>2, <1>4, <2>5, <3>1
  <2>6. CASE /\ header.type = MESSAGE_TYPE_TEXT /\ UNCHANGED server_failed
             /\ server' = IF Len(received') = script.receives THEN "close_client" ELSE "receive"
    <3>1. AllText'
      <4>1. AllText
        BY <1>0, <2>1 DEF VerdictInv
      <4>2. \A i \in 1 .. Len(received') : i \in 1 .. Len(received) \/ i = Current
        BY <2>2, <2>3
      <4> QED BY <2>2, <2>6, <4>1, <4>2 DEF AllText
    <3>2. ~server_failed'
      BY <1>0, <2>1, <2>6 DEF VerdictInv
    <3>3. CASE Len(received') = script.receives
      BY <1>1, <2>6, <3>1, <3>2, <3>3 DEF VerdictInv, Receiving
    <3>4. CASE Len(received') # script.receives
      <4>1. Len(received') < script.receives
        BY <2>2, <2>3, <3>4
      <4> QED BY <1>1, <2>6, <3>1, <3>2, <3>4, <4>1 DEF VerdictInv, Receiving
    <3> QED BY <3>3, <3>4
  <2> QED BY <1>10, <2>5, <2>6 DEF Publish
<1>11. CASE CloseClient \/ CloseServer
  <2>1. /\ server \in {"close_client", "close_server"} /\ server' \in {"close_server", "exited"}
        /\ UNCHANGED received
        /\ UNCHANGED server_failed \/ (server_failed' /\ faulted')
    BY <1>11 DEF CloseClient, CloseServer, ConnectionClose, Fault
  <2>2. CASE UNCHANGED server_failed
    BY <1>0, <1>1, <1>2, <2>1, <2>2 DEF VerdictInv, AllText, Receiving
  <2> QED BY <1>4, <1>5, <2>1, <2>2
<1>12. Client \/ ClientKilled \/ SendError \/ UNCHANGED framingVars
         => UNCHANGED <<server, server_failed, received>>
  BY DEF Client, Connect, MessageSend, SendAll, ClientClose, ClientKilled, SendError, framingVars,
         receiverVars
<1> QED BY <1>3, <1>6, <1>7, <1>8, <1>9, <1>10, <1>11, <1>12 DEF FramingNext, Server, Failure

LEMMA FramingStarts == FramingInit => FramingInv
<1> SUFFICES ASSUME FramingInit PROVE FramingInv
  OBVIOUS
<1>1. /\ Sends \in Seq(Frame) /\ Len(Sends) \in Nat /\ script.receives \in Nat \ {0}
  BY ScriptParts DEF FramingInit
<1>2. FramingTypes
  BY <1>1 DEF FramingInit, FramingTypes
<1>3. Links
  BY DEF FramingInit, Links
<1>4. ClientInv
  BY DEF FramingInit, ClientInv
<1>5. Len(received) = 0 /\ Len(stream) = 0 /\ Len(incoming) = 0 /\ header = <<>> /\ sent_count = 0
  BY DEF FramingInit
<1>6. ReceivedInv /\ VerdictInv /\ IncomingInv
  <2>1. ReceivedInv
    BY <1>5 DEF ReceivedInv
  <2>2. VerdictInv
    BY <1>1, <1>5 DEF FramingInit, VerdictInv, AllText, Receiving
  <2>3. IncomingInv
    BY <1>5 DEF FramingInit, IncomingInv, MESSAGE_HEADER_SIZE
  <2> QED BY <2>1, <2>2, <2>3
<1>7. StreamInv
  <2>1. Start(Sends, 1) = 0
    BY <1>1, Starts
  <2>2. Current = 1 /\ Offset = 0
    BY <1>5 DEF Current, Offset
  <2>3. Taken = 0 /\ Given = 0
    BY <1>5, <2>1, <2>2 DEF Taken, Given
  <2>4. 0 < Len(Sends) => 0 < Start(Sends, 2)
    <3> SUFFICES ASSUME 0 < Len(Sends) PROVE 0 < Start(Sends, 2)
      OBVIOUS
    <3>1. 1 \in 1 .. Len(Sends) /\ 1 + 1 = 2
      BY <1>1
    <3>2. /\ Start(Sends, 1 + 1) = Start(Sends, 1) + Size(Sends)[1]
          /\ Size(Sends)[1] = 5 + Len(Sends[1].payload) /\ Len(Sends[1].payload) \in Nat
      BY <1>2, <3>1, Messages
    <3> QED BY <2>1, <3>1, <3>2
  <2>5. Placed(Sends, stream, Taken)
    <3>1. \A m \in 1 .. Len(Sends) : \A i \in 1 .. Size(Sends)[m] :
            Start(Sends, m) + i \notin Taken + 1 .. Taken + Len(stream)
      BY <1>5, <2>3
    <3> QED BY <3>1 DEF Placed
  <2> QED BY <1>5, <2>1, <2>3, <2>4, <2>5 DEF FramingInit, StreamInv
<1> QED BY <1>2, <1>3, <1>4, <1>6, <1>7 DEF FramingInv

LEMMA FramingKept == FramingInv /\ [FramingNext]_framingVars => FramingInv'
<1> SUFFICES ASSUME FramingInv, [FramingNext]_framingVars PROVE FramingInv'
  OBVIOUS
<1>1. /\ FramingTypes /\ Links /\ ClientInv /\ ReceivedInv /\ VerdictInv
      /\ Receiving => StreamInv /\ IncomingInv
  BY DEF FramingInv
<1>2. FramingTypes' /\ Links' /\ ClientInv'
  BY <1>1, FramingTypesKept, LinksKept, ClientInvKept
<1>3. ReceivedInv'
  BY <1>1, ReceivedKept
<1>4. VerdictInv'
  BY VerdictKept
<1>5. Receiving' => Receiving
  BY ScriptStays
<1>6. Receiving' => StreamInv'
  BY <1>1, <1>5, StreamKept
<1>7. Receiving' => IncomingInv'
  BY <1>1, <1>5, IncomingKept
<1> QED BY <1>2, <1>3, <1>4, <1>6, <1>7 DEF FramingInv

(* The inductive invariant: which descriptors are open, what the           *)
(* connection holds, and what both programs' ends may say.                 *)
THEOREM FramingInvariance == FramingSpec => []FramingInv
BY FramingStarts, FramingKept, PTL DEF FramingSpec

(* A program that has ended holds no descriptor, whichever of its calls    *)
(* failed.                                                                 *)
THEOREM DescriptorsCorrect == FramingSpec => []DescriptorsClosed
<1>1. FramingInv => DescriptorsClosed
  BY DEF FramingInv, Links, DescriptorsClosed
<1> QED BY <1>1, FramingInvariance, PTL

(* The success of a program means what it says, and so does the failure of *)
(* the server.                                                             *)
THEOREM ExitsCorrect == FramingSpec => []ExitsAreTruthful
<1>1. ASSUME FramingInv PROVE ExitsAreTruthful
  <2>1. /\ FramingTypes /\ ClientInv /\ ReceivedInv /\ VerdictInv
    BY <1>1 DEF FramingInv
  <2>2. ASSUME server = "exited", ~server_failed
        PROVE  /\ received = SubSeq(script.sends, 1, script.receives)
               /\ \A i \in DOMAIN received : received[i].type = MESSAGE_TYPE_TEXT
    <3>1. Len(received) = script.receives /\ AllText
      BY <2>1, <2>2 DEF VerdictInv, Receiving
    <3>2. received \in Seq(Frame) /\ DOMAIN received = 1 .. Len(received) /\ Len(received) \in Nat
      BY <2>1 DEF FramingTypes
    <3>3. /\ Sends \in Seq(Frame) /\ Len(received) \in 0 .. Len(Sends)
          /\ \A i \in 1 .. Len(received) : received[i] = Sends[i]
      BY <2>1, <3>2, Messages DEF ReceivedInv
    <3>4. /\ SubSeq(Sends, 1, Len(received)) \in Seq(Frame)
          /\ Len(SubSeq(Sends, 1, Len(received))) = Len(received)
          /\ \A i \in 1 .. Len(received) : SubSeq(Sends, 1, Len(received))[i] = Sends[i]
      BY <3>3, Parts
    <3>5. received = SubSeq(Sends, 1, Len(received))
      BY <3>2, <3>3, <3>4, SeqEqual
    <3> QED BY <3>1, <3>2, <3>5 DEF Sends, AllText
  <2>3. server = "exited" /\ server_failed => Excuse
    BY <2>1 DEF VerdictInv
  <2>4. client = "exited" /\ ~client_failed => sent_count = Len(Sends)
    BY <2>1 DEF ClientInv
  <2> QED BY <2>2, <2>3, <2>4 DEF ExitsAreTruthful, Excuse, Sends
<1> QED BY <1>1, FramingInvariance, PTL


-----------------------------------------------------------------------------
(* The two programs implement the message channel. *)

Broken == server \in {"close_client", "close_server", "exited"}

ChannelStep == [Channel!ChannelNext]_<<Sent, received, Broken>>

(* One more message sent. *)
LEMMA SentGrows ==
  ASSUME FramingTypes, sent_count < Len(Sends), UNCHANGED script, sent_count' = sent_count + 1
  PROVE  /\ Sends[sent_count + 1] \in UNION {Range(s.sends) : s \in Scripts}
         /\ Sent' = Append(Sent, Sends[sent_count + 1])
<1>1. /\ Sends \in Seq(Frame) /\ Len(Sends) \in Nat /\ sent_count \in 0 .. Len(Sends)
      /\ sent_count + 1 \in 0 .. Len(Sends) /\ sent_count + 1 \in 1 .. Len(Sends)
      /\ script \in Scripts /\ Sends' = Sends
  BY Messages DEF FramingTypes, Sends
<1>2. Sends[sent_count + 1] \in Range(Sends)
  BY <1>1 DEF Range
<1>3. Sent = SubSeq(Sends, 1, sent_count) /\ Sent' = SubSeq(Sends, 1, sent_count + 1)
  BY DEF Sent, Sends
<1>4. /\ Sent \in Seq(Frame) /\ Len(Sent) = sent_count
      /\ \A i \in 1 .. sent_count : Sent[i] = Sends[i]
  BY <1>1, <1>3, Parts
<1>5. /\ Sent' \in Seq(Frame) /\ Len(Sent') = sent_count + 1
      /\ \A i \in 1 .. sent_count + 1 : Sent'[i] = Sends[i]
  BY <1>1, <1>3, Parts
<1>6. PICK a \in Seq(Frame), f \in Frame : a = Sent /\ f = Sends[sent_count + 1]
  BY <1>1, <1>4
<1>7. /\ Append(a, f) \in Seq(Frame) /\ Len(Append(a, f)) = sent_count + 1
      /\ \A i \in 1 .. sent_count : Append(a, f)[i] = a[i]
      /\ Append(a, f)[sent_count + 1] = f
  BY <1>1, <1>4, <1>6
<1>8. \A i \in 1 .. sent_count + 1 : i \in 1 .. sent_count \/ i = sent_count + 1
  BY <1>1
<1>9. \A i \in 1 .. Len(Sent') : Sent'[i] = Append(a, f)[i]
  BY <1>4, <1>5, <1>6, <1>7, <1>8
<1>10. Sent' = Append(a, f)
  BY <1>5, <1>7, <1>9, SeqEqual
<1> QED BY <1>1, <1>2, <1>6, <1>10 DEF Sends

LEMMA ChannelSteps == FramingInv /\ [FramingNext]_framingVars => ChannelStep
<1> SUFFICES ASSUME FramingInv, [FramingNext]_framingVars PROVE ChannelStep
  OBVIOUS
<1>0. /\ FramingTypes /\ ReceivedInv /\ VerdictInv
      /\ Receiving => StreamInv /\ IncomingInv
      /\ UNCHANGED script /\ Sends' = Sends
  BY ScriptStays DEF FramingInv
<1>1. UNCHANGED sent_count => UNCHANGED Sent
  BY <1>0 DEF Sent
<1>2. ASSUME UNCHANGED <<sent_count, received, Broken>> PROVE ChannelStep
  BY <1>1, <1>2 DEF ChannelStep
<1>3. ASSUME Broken', UNCHANGED <<sent_count, received>> PROVE ChannelStep
  <2>1. Channel!Break
    BY <1>1, <1>3 DEF Channel!Break, Broken
  <2> QED BY <2>1 DEF ChannelStep, Channel!ChannelNext
<1>4. ASSUME sent_count < Len(Sends), sent_count' = sent_count + 1, UNCHANGED <<received, Broken>>
      PROVE  ChannelStep
  <2>1. /\ Sends[sent_count + 1] \in UNION {Range(s.sends) : s \in Scripts}
        /\ Sent' = Append(Sent, Sends[sent_count + 1])
    BY <1>0, <1>4, SentGrows
  <2>2. Channel!Send(Sends[sent_count + 1])
    BY <1>4, <2>1 DEF Channel!Send, Broken
  <2> QED BY <2>1, <2>2 DEF ChannelStep, Channel!ChannelNext
<1>5. CASE Connect \/ MessageSend \/ ClientClose \/ ClientKilled \/ SendError
  BY <1>2, <1>5 DEF Connect, MessageSend, ClientClose, ClientKilled, SendError, SendFails,
                    receiverVars, Broken
<1>6. CASE SendAll
  <2>1. UNCHANGED <<received, Broken>>
    BY <1>6 DEF SendAll, receiverVars, Broken
  <2>2. sent_count < Len(Sends)
    BY <1>0, <1>6 DEF SendAll, FramingTypes
  <2>3. UNCHANGED sent_count \/ sent_count' = sent_count + 1
    BY <1>6 DEF SendAll, SendFails
  <2> QED BY <1>2, <1>4, <2>1, <2>2, <2>3
<1>7. CASE Create \/ Accept \/ AcceptError
  <2>1. UNCHANGED <<sent_count, received>> /\ (Broken' \/ UNCHANGED Broken)
    BY <1>7 DEF Create, Accept, AcceptError, senderVars, Broken
  <2> QED BY <1>2, <1>3, <2>1
<1>8. CASE RecvExact \/ RecvError \/ DecodeHeader
  <2>1. UNCHANGED <<sent_count, received>> /\ (Broken' \/ UNCHANGED Broken)
    BY <1>8 DEF RecvExact, RecvError, DecodeHeader, ReceiveFails, senderVars, Broken
  <2> QED BY <1>2, <1>3, <2>1
<1>9. CASE CloseClient \/ CloseServer
  <2>1. UNCHANGED <<sent_count, received>> /\ Broken'
    BY <1>9 DEF CloseClient, CloseServer, ConnectionClose, senderVars, Broken
  <2> QED BY <1>3, <2>1
<1>10. CASE Publish
  <2>1. server = "receive" /\ Receiving /\ UNCHANGED sent_count
    BY <1>10 DEF Publish, Receiving, senderVars
  <2>2. /\ Current \in 1 .. Len(Sends) /\ Current <= sent_count /\ Current = Len(received) + 1
        /\ IsDeliverable(Sends[Current]) /\ received' = Append(received, Sends[Current])
    BY <1>0, <1>10, <2>1, Published DEF Current
  <2>3. sent_count \in 0 .. Len(Sends) /\ Sends \in Seq(Frame) /\ Len(received) \in Nat
    BY <1>0, Messages DEF FramingTypes
  <2>4. Len(Sent) = sent_count /\ Sent[Current] = Sends[Current]
    <3>1. Sent = SubSeq(Sends, 1, sent_count)
      BY DEF Sent, Sends
    <3>2. Len(Sent) = sent_count /\ \A i \in 1 .. sent_count : Sent[i] = Sends[i]
      BY <2>3, <3>1, Parts
    <3> QED BY <2>2, <2>3, <3>2
  <2>5. Len(received) < Len(Sent)
    BY <2>2, <2>3, <2>4
  <2>6. Channel!Deliver
    BY <1>1, <2>1, <2>2, <2>4, <2>5 DEF Channel!Deliver
  <2> QED BY <2>6 DEF ChannelStep, Channel!ChannelNext
<1>11. CASE UNCHANGED framingVars
  BY <1>2, <1>11 DEF framingVars, senderVars, receiverVars, Broken
<1> QED BY <1>5, <1>6, <1>7, <1>8, <1>9, <1>10, <1>11 DEF FramingNext, Client, Server, Failure

(* However send and recv cut the stream, messages arrive whole, once and   *)
(* in order, and none after the first that cannot be delivered.            *)
THEOREM FramingRefines == FramingSpec => ImplementsMessageChannel
<1>1. FramingInit => Channel!ChannelInit
  BY DEF FramingInit, Channel!ChannelInit, Sent
<1>2. ChannelStep => [Channel!ChannelNext]_Channel!channelVars
  BY DEF ChannelStep, Channel!channelVars, Broken
<1> QED BY <1>1, <1>2, ChannelSteps, FramingInvariance, PTL
        DEF FramingSpec, ImplementsMessageChannel, Channel!ChannelSpec
==============================================================================
