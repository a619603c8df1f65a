SPECIFICATION MCSpec
CONSTANTS
  w1 = w1
  w2 = w2
  t1 = t1
  t2 = t2
  t3 = t3
  t4 = t4
  wr1 = wr1
  Hosts = {w1, w2}
  Waiters = {t1, t2, t3, t4}
  Home <- MCHome
  Queues = {q1, q2}
  Null = NULL
INVARIANTS
  OneHolder
  NoDangling
  NoSleepMissed
  SoleInCritical
  OneStack
  FreedUnused
  TaskCount
  NoLostWakeup
PROPERTIES
  ImplementsFifo
  ImplementsDeque
