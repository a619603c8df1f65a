CONSTANTS
  num_workers = 2
  Tasks = {t1, t2, t3}
  MaxPrior = 1
  NegDemandLim = FALSE
  YieldsAtStop = FALSE
  NULL = NULL
SPECIFICATION Spec
SYMMETRY TaskSymmetry
INVARIANTS
  TaskInOnePlace
  NoLostWakeup
  WorkConserving
  ReceivedStateAsserted
  CleanupLeftovers
PROPERTY NoSpuriousResume
