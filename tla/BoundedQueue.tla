---------------------------- MODULE BoundedQueue ----------------------------
(***************************************************************************)
(* What the queues of labs/blocking_queue and labs/thread_pipeline promise *)
(* to the threads that share them (queue.h, pointer_queue.h), without the  *)
(* ring, the mutex and the condition variables: values leave in the order  *)
(* in which they came, there are never more than Capacity of them, none    *)
(* comes after the queue was closed, and those that are left can still be  *)
(* taken.                                                                  *)
(***************************************************************************)
EXTENDS Naturals, Sequences

CONSTANTS Values, Capacity

VARIABLES contents, closed

queueVars == <<contents, closed>>

QueueInit == contents = <<>> /\ closed = FALSE

Put(v) ==
  /\ ~closed /\ Len(contents) < Capacity
  /\ contents' = Append(contents, v)
  /\ UNCHANGED closed

Take ==
  /\ contents # <<>>
  /\ contents' = Tail(contents)
  /\ UNCHANGED closed

Shut == closed' = TRUE /\ UNCHANGED contents

(* Only a closed queue is destroyed; what it still holds goes with it.     *)
Discard == closed /\ contents' = <<>> /\ closed' \in BOOLEAN

QueueNext == Take \/ Shut \/ Discard \/ \E v \in Values : Put(v)

QueueSpec == QueueInit /\ [][QueueNext]_queueVars
=============================================================================
