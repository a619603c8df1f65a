SPECIFICATION LiveSpec
CONSTANTS
  num_workers = 2
  t1 = t1
  t2 = t2
  NULL = NULL
  WorkerTasks = {t1, t2}
  WrapperTasks = {}
  Programs <- YieldingTask
  Senders = {s1, s2}
  Nodes = {n1, n2, n3}
PROPERTIES
  WokenRuns
  StopTerminates
  MessageReceived
  NoStreamStarved
