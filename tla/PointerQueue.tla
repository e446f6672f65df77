---------------------------- MODULE PointerQueue ----------------------------
(***************************************************************************)
(* The bounded queue of labs/thread_pipeline/pointer_queue.c: a ring of    *)
(* pointers under one mutex, with two condition variables.  A call is one  *)
(* critical section, or two around a wait, so that each section is one     *)
(* step: the mutex itself does not appear.  not_empty and not_full are the *)
(* threads that wait on the two conditions.                                *)
(***************************************************************************)
EXTENDS Naturals, Sequences

CONSTANTS
  POINTER_QUEUE_CAPACITY,
  Items,      \* what the pointers point to
  Threads     \* who may call

NULL == [kind |-> "NULL"]

Slots == 0 .. POINTER_QUEUE_CAPACITY - 1

PointerQueueType ==
  [items : [Slots -> Items \cup {NULL}], head : Slots, tail : Slots,
   count : 0 .. POINTER_QUEUE_CAPACITY, closed : BOOLEAN,
   not_empty : SUBSET Threads, not_full : SUBSET Threads]

pointer_queue_init ==
  [items |-> [i \in Slots |-> NULL], head |-> 0, tail |-> 0, count |-> 0,
   closed |-> FALSE, not_empty |-> {}, not_full |-> {}]

NextSlot(i) == (i + 1) % POINTER_QUEUE_CAPACITY

(* The queue as a sequence, oldest item first. *)
Contents(q) ==
  [i \in 1 .. q.count |-> q.items[(q.head + i - 1) % POINTER_QUEUE_CAPACITY]]

(* The conditions of the two wait loops. *)
MustWaitToPush(q) == q.count = POINTER_QUEUE_CAPACITY /\ ~q.closed
MustWaitToPop(q) == q.count = 0 /\ ~q.closed

(* When a section that need not wait still does nothing. *)
PushError(q) == IF q.closed THEN "ECANCELED" ELSE "0"
PopError(q) == IF q.count = 0 THEN "ECANCELED" ELSE "0"

(* pthread_cond_signal: one waiter is woken, if there is one. *)
WokenBySignal(waiting) == IF waiting = {} THEN {{}} ELSE {{t} : t \in waiting}

(* The queues that a successful push, and a successful pop, may leave. *)
AfterPush(q, item) ==
  {[q EXCEPT !.items[q.tail] = item, !.tail = NextSlot(@), !.count = @ + 1,
             !.not_empty = @ \ woken] : woken \in WokenBySignal(q.not_empty)}

(* Seeded fault: the head stays where it was. *)
PopAtSameHead(q) ==
  {[q EXCEPT !.items[q.head] = NULL, !.count = @ - 1, !.not_full = @ \ woken]
     : woken \in WokenBySignal(q.not_full)}

(* Seeded fault: the wrong condition is signalled. *)
PopSignallingNotEmpty(q) ==
  {[q EXCEPT !.items[q.head] = NULL, !.head = NextSlot(@), !.count = @ - 1,
             !.not_empty = @ \ woken] : woken \in WokenBySignal(q.not_empty)}

AfterPop(q) ==
  {[q EXCEPT !.items[q.head] = NULL, !.head = NextSlot(@), !.count = @ - 1,
             !.not_full = @ \ woken] : woken \in WokenBySignal(q.not_full)}

(* Both conditions are broadcast. *)
pointer_queue_close(q) == [q EXCEPT !.closed = TRUE, !.not_empty = {}, !.not_full = {}]

Waits(q) == q.not_empty \cup q.not_full

(* A wait may also end without a signal. *)
WakeSpuriously(q, t) == [q EXCEPT !.not_empty = @ \ {t}, !.not_full = @ \ {t}]
=============================================================================
