SPECIFICATION Spec
CONSTANTS
  m1 = m1
  m2 = m2
  s1 = s1
  f1 = f1
  Relay = Relay
  None = None
  Messages = {m1, m2}
  Steers = {s1}
  Flushers = {}
  Watchers <- MCWatchers
  Suspending = {m2, s1}
  MaxRuns = 4
  MaxCancels = 1
  MaxCrashes = 1
  MaxLeaves = 0
INVARIANTS
  OneInFlight
  MirrorAgrees
  RelayedInOrder
PROPERTIES
  KeepsInputPromise
CHECK_DEADLOCK FALSE
