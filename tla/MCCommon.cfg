SPECIFICATION MCSpec
CONSTANTS
  Boxes <- MCBoxes
  Senders = {s1, s2}
  MaxSend = 2
  MaxSpin = 3
  NULL = NULL
  MailNodes = {n1, n2, n3, n4}
  SetNodes = {n1, n2, n3, n4}
  Mons = {a, b}
  DIRTY_END = DIRTY_END
  Wrappers = {a, b}
  In = {i1}
  Out = {o1, o2}
SYMMETRY Symmetry
INVARIANTS
  NodeOwnership
  StatisticExact
  NothingUnreported
  PlacedWithin
PROPERTIES
  ImplementsQueue
  ImplementsQueues
  ImplementsSeq
  DemandDriven
CHECK_DEADLOCK FALSE
