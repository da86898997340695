SPECIFICATION Spec
CONSTANTS
  c1 = c1
  c2 = c2
  r1 = r1
  r2 = r2
  NoCall = NoCall
  NoOne = NoOne
  Calls = {c1, c2}
  Batch <- Batch2
  Mutating = {c1, c2}
  UserInput = {c2}
  ReplaySafe = {}
  MaxAttempts = 1
  Recoverers = {r1, r2}
  CallbackKinds = {"auto", "user", "absent"}
  MaxFaults = 1
  MaxRecoveries = 2
  LostReplies = TRUE
  Cancellable = TRUE
  LiveRecovery = TRUE

  
PROPERTIES
  SettledOnce
  ResumeLeavesNothingDangling
  VerdictReported
CHECK_DEADLOCK FALSE
