SPECIFICATION DemandSpec
CONSTANTS
  num_workers = 1
  e = e
  i = i
  Pipe <- MCPipe
  Tasks <- MCTasks
  MaxPrior = 11
  NegDemandLim = TRUE
  YieldsAtStop = FALSE
  NULL = NULL
  Lims = {1}
  rec_limit = 2
  MaxLevel = 4
PROPERTIES
  EntryResumes
CHECK_DEADLOCK FALSE
