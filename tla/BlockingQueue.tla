--------------------------- MODULE BlockingQueue ----------------------------
(***************************************************************************)
(* The integer queue of labs/blocking_queue/queue.c in use by threads as   *)
(* in its concurrent test (tests/test_queue_concurrent.c): producers that  *)
(* push their values, close the queue and end, consumers that pop until    *)
(* the queue is closed and empty, and a main thread that sets the queue up *)
(* and destroys it after the others ended.                                 *)
(*                                                                         *)
(* A call holds the mutex except while it waits, so a call is one step, or *)
(* one step per attempt around its waits.  not_empty and not_full are the  *)
(* threads that wait on the two conditions.                                *)
(***************************************************************************)
EXTENDS Naturals, Sequences, FiniteSets

CONSTANTS
  Producers, Consumers,
  ItemCount,        \* values of each producer
  QUEUE_CAPACITY,
  Faults            \* calls to the thread library that may fail

FaultKinds == {"init", "wait", "signal"}

ASSUME CapacityAssumption == QUEUE_CAPACITY \in Nat \ {0}
ASSUME ItemCountAssumption == ItemCount \in Nat
ASSUME FaultsAssumption == Faults \subseteq FaultKinds

Threads == Producers \cup Consumers

ASSUME ThreadsAssumption ==
  /\ Producers \cap Consumers = {} /\ Consumers # {}
  /\ "main" \notin Threads

Values == Producers \X (1 .. ItemCount)
Slots == 0 .. QUEUE_CAPACITY - 1
Unset == <<>>       \* the zero that fills a fresh array

VARIABLES
  items, head, tail, count, closed,
  not_empty, not_full,
  pc, error,        \* per thread; error is "0" or what its call returned
  pushed,           \* per producer: the calls that returned success
  seen_counts       \* how often the consumers have seen each value

ringVars == <<items, head, tail, count>>
waitVars == <<not_empty, not_full>>
queueVars == <<ringVars, closed, waitVars>>
clientVars == <<pc, error, pushed, seen_counts>>
vars == <<queueVars, clientVars>>

(* The queue as a sequence, oldest value first. *)
Contents == [i \in 1 .. count |-> items[(head + i - 1) % QUEUE_CAPACITY]]

Init ==
  /\ items = [s \in Slots |-> Unset] /\ head = 0 /\ tail = 0 /\ count = 0
  /\ closed = FALSE /\ not_empty = {} /\ not_full = {}
  /\ pc = [t \in Threads \cup {"main"} |-> IF t = "main" THEN "init" ELSE "off"]
  /\ error = [t \in Threads |-> "0"]
  /\ pushed = [p \in Producers |-> 0]
  /\ seen_counts = [v \in Values |-> 0]

Goto(t, step) == pc' = [pc EXCEPT ![t] = step]

(* Thread t holds no lock and waits for nothing. *)
At(t, step) == pc[t] = step /\ t \notin not_empty \cup not_full

(* pthread_cond_signal wakes one of those who wait, if there is one. *)
Wake(waiting) == IF waiting = {} THEN {{}} ELSE {waiting \ {t} : t \in waiting}

-----------------------------------------------------------------------------
(* The calls. *)

(* blocking_queue_init: the mutex and the two conditions, or none.         *)
blocking_queue_init ==
  /\ At("main", "init")
  /\ \/ pc' = [t \in DOMAIN pc |-> IF t = "main" THEN "join" ELSE "call"]
     \/ "init" \in Faults /\ Goto("main", "exited")
  /\ UNCHANGED <<queueVars, error, pushed, seen_counts>>

(* Seeded fault: the full queue is not noticed. *)
NeverFull == FALSE

MustWaitToPush == count = QUEUE_CAPACITY /\ ~closed

MustWaitToPop == count = 0 /\ ~closed

(* Thread t goes to sleep, or cannot and returns the error. *)
WaitOn(t, waiting, other, failed) ==
  \/ waiting' = waiting \cup {t} /\ UNCHANGED <<other, pc, error>>
  \/ /\ "wait" \in Faults
     /\ error' = [error EXCEPT ![t] = "EINVAL"] /\ Goto(t, failed)
     /\ UNCHANGED waitVars

(* A wait may also end without a signal. *)
SpuriousWakeup(t) ==
  /\ t \in not_empty \cup not_full
  /\ not_empty' = not_empty \ {t} /\ not_full' = not_full \ {t}
  /\ UNCHANGED <<ringVars, closed, clientVars>>

(* The last statements of a call that changed the queue: one waiter is     *)
(* signalled.  When the signal, or the unlocking after it, fails, nobody   *)
(* is woken and the call returns the error, but what it did stays done.    *)
SignalAndReturn(t, waiting, next, failed) ==
  \/ waiting' \in Wake(waiting) /\ Goto(t, next) /\ UNCHANGED error
  \/ /\ "signal" \in Faults /\ UNCHANGED waiting
     /\ error' = [error EXCEPT ![t] = "EINVAL"] /\ Goto(t, failed)

(* Seeded fault: a push wakes a producer. *)
PushSignalsNotFull(p, v) ==
  /\ items' = [items EXCEPT ![tail] = v]
  /\ tail' = (tail + 1) % QUEUE_CAPACITY
  /\ count' = count + 1
  /\ SignalAndReturn(p, not_full, "call", "close")
  /\ UNCHANGED <<head, closed, not_empty, seen_counts>>

(* Put the value in the ring. *)
Enqueue(p, v) ==
  /\ items' = [items EXCEPT ![tail] = v]
  /\ tail' = (tail + 1) % QUEUE_CAPACITY
  /\ count' = count + 1
  /\ SignalAndReturn(p, not_empty, "call", "close")
  /\ UNCHANGED <<head, closed, not_full, seen_counts>>

blocking_queue_push(p, v) ==
  \/ /\ MustWaitToPush
     /\ WaitOn(p, not_full, not_empty, "close")
     /\ UNCHANGED <<ringVars, closed, pushed, seen_counts>>
  \/ /\ ~MustWaitToPush /\ closed
     /\ error' = [error EXCEPT ![p] = "ECANCELED"] /\ Goto(p, "close")
     /\ UNCHANGED <<queueVars, pushed, seen_counts>>
  \/ /\ ~MustWaitToPush /\ ~closed
     /\ Enqueue(p, v)
     /\ pushed' = IF pc'[p] = "close" THEN pushed ELSE [pushed EXCEPT ![p] = @ + 1]

(* Seeded fault: the value is taken without freeing its slot's turn. *)
DequeueAtSameHead(c) ==
  /\ count' = count - 1
  /\ SignalAndReturn(c, not_full, "call", "close")
  /\ seen_counts' = IF pc'[c] = "close" THEN seen_counts
                    ELSE [seen_counts EXCEPT ![items[head]] = @ + 1]
  /\ UNCHANGED <<items, head, tail, closed, not_empty, pushed>>

(* Take the oldest value, which stays behind in its slot. *)
Dequeue(c) ==
  /\ head' = (head + 1) % QUEUE_CAPACITY
  /\ count' = count - 1
  /\ SignalAndReturn(c, not_full, "call", "close")
  /\ seen_counts' = IF pc'[c] = "close" THEN seen_counts
                    ELSE [seen_counts EXCEPT ![items[head]] = @ + 1]
  /\ UNCHANGED <<items, tail, closed, not_empty, pushed>>

blocking_queue_pop(c) ==
  \/ /\ MustWaitToPop
     /\ WaitOn(c, not_empty, not_full, "close")
     /\ UNCHANGED <<ringVars, closed, pushed, seen_counts>>
  \/ /\ ~MustWaitToPop /\ count = 0
     /\ Goto(c, "done")
     /\ UNCHANGED <<queueVars, error, pushed, seen_counts>>
  \/ ~MustWaitToPop /\ count # 0 /\ Dequeue(c)

(* blocking_queue_close: both conditions are broadcast. *)
blocking_queue_close(t) ==
  /\ closed' = TRUE
  /\ not_empty' = {} /\ not_full' = {}
  /\ UNCHANGED ringVars

(* blocking_queue_destroy: the queue is zero again. *)
blocking_queue_destroy ==
  /\ items' = [s \in Slots |-> Unset] /\ head' = 0 /\ tail' = 0 /\ count' = 0
  /\ closed' = FALSE
  /\ UNCHANGED waitVars

-----------------------------------------------------------------------------
(* The threads. *)

(* producer_thread_main *)
Push(p) ==
  At(p, "call") /\ pushed[p] < ItemCount /\ blocking_queue_push(p, <<p, pushed[p] + 1>>)

PushedAll(p) ==
  /\ At(p, "call") /\ pushed[p] = ItemCount /\ Goto(p, "close")
  /\ UNCHANGED <<queueVars, error, pushed, seen_counts>>

(* consumer_thread_main *)
Pop(c) == At(c, "call") /\ blocking_queue_pop(c)

(* A producer that is through, and every thread that met an error, closes. *)
Close(t) ==
  /\ At(t, "close")
  /\ blocking_queue_close(t)
  /\ Goto(t, "done")
  /\ UNCHANGED <<error, pushed, seen_counts>>

JoinAndDestroy ==
  /\ At("main", "join") /\ \A t \in Threads : pc[t] = "done"
  /\ blocking_queue_destroy
  /\ Goto("main", "exited")
  /\ UNCHANGED <<error, pushed, seen_counts>>

Thread(t) ==
  \/ t \in Producers /\ (Push(t) \/ PushedAll(t))
  \/ t \in Consumers /\ Pop(t)
  \/ Close(t)

Main == blocking_queue_init \/ JoinAndDestroy

Next ==
  \/ Main
  \/ \E t \in Threads : Thread(t) \/ SpuriousWakeup(t)

Spec == Init /\ [][Next]_vars

(* A thread that can run is scheduled in the end; no wait ends by itself.  *)
FairSpec == Spec /\ WF_vars(Main) /\ \A t \in Threads : WF_vars(Thread(t))

-----------------------------------------------------------------------------

Ring == INSTANCE BoundedQueue WITH Capacity <- QUEUE_CAPACITY, contents <- Contents

(* The ring, read from head over count slots, is the queue that queue.h    *)
(* promises: no wakeup, spurious, stolen or failed, makes a call overwrite *)
(* a value, take one twice or store one after the close.                   *)
ImplementsBoundedQueue == Ring!QueueSpec

Failed == {t \in Threads : error[t] \notin {"0", "ECANCELED"}}

(* What test_one_producer_two_consumers counts: no value is seen twice; a  *)
(* value whose push succeeded is in the queue or was seen, unless a pop    *)
(* failed after it had taken the value; and a push that returned an error  *)
(* may still have left its value, but only the last of its producer.       *)
EveryValueSeenOnce ==
  /\ \A v \in Values :
       /\ seen_counts[v] + Cardinality({i \in DOMAIN Contents : Contents[i] = v}) <= 1
       /\ seen_counts[v] = 1 => v[2] <= pushed[v[1]] + (IF v[1] \in Failed THEN 1 ELSE 0)
  /\ (pc["main"] = "exited" /\ Failed \cap Consumers = {}) =>
       \A v \in Values : v[2] <= pushed[v[1]] => seen_counts[v] = 1

(* Every run ends once the threads are created: whoever waits is woken by  *)
(* a push, a pop or the close of a thread that is through or failed.       *)
RunEnds == pc["main"] = "join" ~> pc["main"] = "exited"
=============================================================================
