CONSTANTS
  NumStreams = 3
  EntryStreams = {1}
  BufSize = 1
  MaxFill = 2
  Uses <- AnyUses
SPECIFICATION Spec
INVARIANTS
  WakeupMatchesWait
  NoSleepBesideItem
  TailNotFreed
  PollReturnsData
