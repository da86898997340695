SPECIFICATION FairSpec
CONSTANTS
  a1 = a1
  a2 = a2
  s1 = s1
  s2 = s2
  AsyncWriters = {a1}
  SyncWriters = {s1}
  Loop = Loop
  NoOne = NoOne
  MaxFailures = 0
  MaxCancels = 0
PROPERTIES
  EventuallyDelivered
CHECK_DEADLOCK FALSE
