SPECIFICATION FairSpec
CONSTANTS
  a1 = a1
  a2 = a2
  s1 = s1
  s2 = s2
  AsyncWriters = {a1, a2}
  SyncWriters = {s1}
  Loop = Loop
  NoOne = NoOne
  MaxFailures = 1
  MaxCancels = 1
INVARIANTS
  DeliveredInOrder
  ReturnedIsDelivered
PROPERTIES
  DeliveredUnlessMissed
CHECK_DEADLOCK FALSE
