CONSTANTS
  num_workers = 2
  Tasks = {t1, t2}
  MaxPrior = 1
  NegDemandLim = FALSE
  YieldsAtStop = TRUE
  NULL = NULL
SPECIFICATION Spec
SYMMETRY TaskSymmetry
INVARIANT CleanupLeftovers
