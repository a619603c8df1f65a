SPECIFICATION Spec
CONSTANTS
  Tasks = {t1, t2, w1}
  Wrappers = {w1}
  Workers = {k1, k2}
  Streams = {s1, s2}
  Sds = {d1, d2, d3}
  WrapperTasks = {t1, t2, t3}
  WrapperContexts = {c1, c2}
  Creators = {k1, k2}
  QueueTasks = {t1, t2, t3, t4}
  NULL = NULL
SYMMETRY Symmetry
INVARIANTS
  FreeStreamsUnused
  EndsMatch
  OneUser
  YieldsAtLimit
PROPERTIES
  PopsHighest
CHECK_DEADLOCK FALSE
