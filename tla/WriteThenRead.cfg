SPECIFICATION FairSpec
CONSTANTS
  c1 = c1
  c2 = c2
  r1 = r1
  r2 = r2
  NoCall = NoCall
  NoOne = NoOne
  Calls = {c1, c2}
  Batch <- Batch2
  Mutating = {c1}
  UserInput = {}
  ReplaySafe = {c2}
  MaxAttempts = 2
  Recoverers = {r1}
  CallbackKinds = {"auto"}
  MaxFaults = 3
  MaxRecoveries = 4
  LostReplies = FALSE
  Cancellable = TRUE
  LiveRecovery = FALSE
INVARIANTS
  WriteAhead
  UnprovenHeld
PROPERTIES
  NoBlindRerun
  KeepsPromise
  EventuallySettled
CHECK_DEADLOCK FALSE
