SPECIFICATION Spec
CONSTANTS
  num_workers = 2
  t1 = t1
  NULL = NULL
  WorkerTasks = {t1}
  WrapperTasks = {}
  Programs <- WaitingTask
INVARIANTS
  SoleOnStack
