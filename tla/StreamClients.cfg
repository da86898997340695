SPECIFICATION FairSpec
CONSTANTS
  k1 = k1
  Clients = {k1}
  Done = Done
  Resync = Resync
  QueueMax = 1
  ReplayMax = 2
  MaxEvents = 3
  MaxRuns = 2
  MaxBreaks = 1
INVARIANTS
  NoGapNoRepeat
PROPERTIES
  StreamEnds
  FollowerCatchesUp
CHECK_DEADLOCK FALSE
