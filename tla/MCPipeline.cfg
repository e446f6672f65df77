\* Three packets for two places in each queue; every call may fail.
SPECIFICATION FairSpec
CONSTANTS
  Workers = {w1, w2}
  TaskCount = 3
  POINTER_QUEUE_CAPACITY = 2
  Faults = {"queue_init", "create", "join", "task_malloc", "result_malloc", "fopen", "fprintf",
            "fclose", "mutex_lock", "mutex_unlock", "cond_wait", "cond_signal", "cond_broadcast",
            "cond_destroy"}
INVARIANTS  RowsMatchTasks CleanExit
PROPERTIES RingsImplementBoundedQueue EndsWhileConsumersLive
CHECK_DEADLOCK FALSE
