CONSTANTS
  NumStreams = 2
  EntryStreams = {1}
  BufSize = 1
  MaxFill = 2
  Uses <- CloseAtOnce
SPECIFICATION Spec
INVARIANTS
  ClosedStreamUnused
