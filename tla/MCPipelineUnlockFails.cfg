\* Only unlocking may fail.
SPECIFICATION Spec
CONSTANTS
  Workers = {w1, w2}
  TaskCount = 3
  POINTER_QUEUE_CAPACITY = 2
  Faults = {"mutex_unlock"}
INVARIANT QueuedIsAllocated
CHECK_DEADLOCK FALSE
