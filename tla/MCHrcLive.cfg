SPECIFICATION LiveSpec
CONSTANTS
  num_workers = 1
  entry = entry
  mid = mid
  exit = exit
  Pipe <- MCPipe
  Tasks <- MCTasks
  MaxPrior = 7
  NegDemandLim = TRUE
  YieldsAtStop = FALSE
  NULL = NULL
  Lims = {0, 1}
  rec_limit = 1
  MaxLevel = 2
PROPERTIES
  UnblockedIsScheduled
  StopTerminates
  PipelineFlows
CHECK_DEADLOCK FALSE
