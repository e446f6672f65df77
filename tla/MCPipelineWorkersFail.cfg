\* Both workers may run out of memory while the producer still has tasks.
SPECIFICATION FairSpec
CONSTANTS
  Workers = {w1, w2}
  TaskCount = 5
  POINTER_QUEUE_CAPACITY = 2
  Faults = {"result_malloc"}
PROPERTY RunEnds
CHECK_DEADLOCK FALSE
