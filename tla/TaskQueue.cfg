SPECIFICATION Spec
CONSTANTS
  Queues = {q1, q2}
  Workers = {w1, w2}
  Keys = {k1}
  NoKey = NoKey
  Nobody = Nobody
  Timeouts <- MCTimeouts
  Second = 2
  MaxTasks = 3
  MaxTime = 4
INVARIANTS TypeOK ClaimsHonoured QueuesHoldLiveTasks IndexMatchesTasks NoTaskStuck
PROPERTIES ClaimQueueSpec
SYMMETRY Symmetry
CHECK_DEADLOCK FALSE
