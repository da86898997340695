SPECIFICATION FairSpec
CONSTANTS
  m1 = m1
  m2 = m2
  s1 = s1
  f1 = f1
  Relay = Relay
  None = None
  Messages = {m1}
  Steers = {s1}
  Flushers = {f1}
  Watchers <- MCWatchers
  Suspending = {s1}
  MaxRuns = 3
  MaxCancels = 1
  MaxCrashes = 0
  MaxLeaves = 1
INVARIANTS
  DesertedIsTimed
  SaidTwiceIsExplained
PROPERTIES
  HandledInTheEnd
CHECK_DEADLOCK FALSE
